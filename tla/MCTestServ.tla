----------------------------- MODULE MCTestServ -----------------------------
EXTENDS TestServ, TLC

CONSTANTS c1, c2, c3

TwoConns   == {c1, c2}
ThreeConns == {c1, c2, c3}
TwoFds     == {4, 5}
ThreeFds   == {4, 5, 6}
Symmetry   == Permutations(Conns)
=============================================================================
