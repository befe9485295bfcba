---------------------------- MODULE MCForkServer ----------------------------
EXTENDS ForkServer

CONSTANTS c1, c2, c3

TwoConns   == {c1, c2}
ThreeConns == {c1, c2, c3}
\* One client's line overruns buf, the others' fit.
OneLong == [c \in Conns |-> IF c = c1 THEN {"long"} ELSE {"calc"}]
\* All fit.
NoLong  == [c \in Conns |-> {"calc"}]
=============================================================================
