--------------------------- MODULE MCStoreServer ----------------------------
EXTENDS StoreServer

CONSTANTS c1, c2, c3, x, y

TwoConns   == {c1, c2}
ThreeConns == {c1, c2, c3}
TwoFds     == {8, 9}
ThreeFds   == {8, 9, 10}
=============================================================================
