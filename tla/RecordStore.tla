---------------------------- MODULE RecordStore -----------------------------
(***************************************************************************)
(* What the store server of HW6 promises its clients, without processes,   *)
(* pipes or select: one log of records.  A save appends a record and is    *)
(* answered with the result of its own calculation; a load is answered     *)
(* with every record saved before under its id, in the order of the saves. *)
(***************************************************************************)
EXTENDS Naturals, Sequences

CONSTANTS Conns, Ids, None

VARIABLES
  asked,  \* the request of each connection, None before it is sent
  log,    \* the records saved
  reply,  \* what each connection was answered, None before
  quit    \* a quit request has been handled

vars == <<asked, log, reply, quit>>

Requests == [mode : {"save", "load"}, id : Ids] \cup {[mode |-> "quit"]}
Record(c) == [id |-> asked[c].id, req |-> c]
Found(x) == SelectSeq(log, LAMBDA r : r.id = x)

Init == /\ asked = [c \in Conns |-> None]
        /\ log = <<>>
        /\ reply = [c \in Conns |-> None]
        /\ quit = FALSE

Pending(c, m) == asked[c] # None /\ asked[c].mode = m /\ reply[c] = None
Answer(c, a) == reply' = [reply EXCEPT ![c] = a]

Ask(c) == /\ asked[c] = None
          /\ \E r \in Requests : asked' = [asked EXCEPT ![c] = r]
          /\ UNCHANGED <<log, reply, quit>>

Save(c) == /\ Pending(c, "save")
           /\ log' = Append(log, Record(c))
           /\ Answer(c, <<"result", c>>)
           /\ UNCHANGED <<asked, quit>>

Load(c) == /\ Pending(c, "load")
           /\ Answer(c, <<"found", Found(asked[c].id)>>)
           /\ UNCHANGED <<asked, log, quit>>

Quit(c) == /\ Pending(c, "quit")
           /\ quit' = TRUE
           /\ Answer(c, <<"closed">>)
           /\ UNCHANGED <<asked, log>>

\* Once somebody has asked the server to quit, a load may go unanswered.
Fail(c) == /\ Pending(c, "load") /\ quit
           /\ Answer(c, <<"closed">>)
           /\ UNCHANGED <<asked, log, quit>>

Next == \E c \in Conns : Ask(c) \/ Save(c) \/ Load(c) \/ Quit(c) \/ Fail(c)

Spec == Init /\ [][Next]_vars
=============================================================================
