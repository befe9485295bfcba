--------------------------- MODULE BroadcastGroup ---------------------------
(***************************************************************************)
(* What a client of the broadcast server may rely on, without descriptors, *)
(* table, mutex or threads.  Connections join and leave a group; a member  *)
(* casts its requests one after the other, and the result of each reaches, *)
(* in one indivisible step, every member that has not hung up.             *)
(***************************************************************************)
EXTENDS Naturals, Sequences

CONSTANTS Conns, MaxReq

VARIABLES
  member, \* each connection: "out", then "in", then "left"
  gone,   \* the connections whose client has hung up
  casts,  \* how many results of its requests each connection caused
  view,   \* the results delivered to each connection, in order
  ended   \* the server has ended

vars == <<member, gone, casts, view, ended>>

Members == {c \in Conns : member[c] = "in"}

Init == /\ member = [c \in Conns |-> "out"]
        /\ gone = {}
        /\ casts = [c \in Conns |-> 0]
        /\ view = [c \in Conns |-> <<>>]
        /\ ended = FALSE

Join(c) == /\ ~ ended /\ member[c] = "out"
           /\ member' = [member EXCEPT ![c] = "in"]
           /\ UNCHANGED <<gone, casts, view, ended>>

\* A client that hung up, or sent a count out of range, leaves for good.
Leave(c) == /\ ~ ended /\ member[c] = "in"
            /\ member' = [member EXCEPT ![c] = "left"]
            /\ UNCHANGED <<gone, casts, view, ended>>

HangUp(c) == /\ gone' = gone \cup {c}
             /\ UNCHANGED <<member, casts, view, ended>>

\* A message is delivered to a set of members.
Deliver(m, D) ==
  view' = [c \in Conns |-> IF c \in D THEN Append(view[c], m) ELSE view[c]]

Cast(c) == /\ ~ ended /\ member[c] = "in" /\ casts[c] < MaxReq
           /\ casts' = [casts EXCEPT ![c] = @ + 1]
           /\ \E D \in SUBSET Members : /\ Members \ gone \subseteq D
                                        /\ Deliver(<<c, casts[c] + 1>>, D)
           /\ UNCHANGED <<member, gone, ended>>

\* The server may end, in the middle of a cast too: the result then reached
\* only some of the members.
End == /\ ~ ended
       /\ ended' = TRUE
       /\ \/ UNCHANGED view
          \/ \E c \in Members : \E D \in SUBSET Members :
               casts[c] < MaxReq /\ Deliver(<<c, casts[c] + 1>>, D)
       /\ UNCHANGED <<member, gone, casts>>

Next == \/ \E c \in Conns : Join(c) \/ Leave(c) \/ HangUp(c) \/ Cast(c)
        \/ End

Spec == Init /\ [][Next]_vars
=============================================================================
