------------------------------- MODULE UdpCalc -------------------------------
(***************************************************************************)
(* HW3, requests and answers over UDP: the calculator hw3_server.c with    *)
(* hw3_client.c ("hw3"), whose clients ask once and end, and the class's   *)
(* udp_server.c with udp_client.c ("udp"), whose clients take turns of one *)
(* message and one answer.  Datagrams are lost, doubled and reordered;     *)
(* nobody has a timeout or repeats a request.                              *)
(*                                                                         *)
(* <<c, k>> is client c's k-th message, and the answer to it.              *)
(***************************************************************************)
EXTENDS Naturals, Sequences

CONSTANTS Clients,
          MsgMax, \* bound: messages per client of "udp"
          DupMax  \* bound: datagrams doubled

MsgAssumption == MsgMax \in Nat \ {0} /\ DupMax \in Nat

VARIABLES
  prog,      \* which programs this behaviour is about
  turn,      \* each client: "input", "wait" or "ended"
  said,      \* messages each has sent
  printed,   \* the answers each has printed
  quits,     \* the clients whose last message tells the server to end
  requests,  \* how many copies of each message are in flight
  answers,   \* how many copies of each answer
  state,     \* the server: "up" or "ended"
  dups, lost \* datagrams doubled so far; clients that have lost one

net  == <<requests, answers>>
vars == <<prog, turn, said, printed, quits, net, state, dups, lost>>

Programs == {"hw3", "udp"}
Messages == Clients \X (1 .. MsgMax)

Put(bag, m)  == [bag EXCEPT ![m] = @ + 1]
Take(bag, m) == [bag EXCEPT ![m] = @ - 1]

Start == /\ turn = [c \in Clients |-> "input"]
         /\ said = [c \in Clients |-> 0]
         /\ printed = [c \in Clients |-> <<>>]
         /\ quits = {}
         /\ requests = [m \in Messages |-> 0] /\ answers = requests
         /\ state = "up" /\ dups = 0 /\ lost = {}

Init == prog \in Programs /\ Start

\* A count below 1 (hw3) or a word that begins with q (udp) ends the server;
\* the client does not wait then.
Say(c) ==
  /\ turn[c] = "input" /\ said[c] < MsgMax
  /\ said' = [said EXCEPT ![c] = @ + 1]
  /\ requests' = Put(requests, <<c, said[c] + 1>>)
  /\ \/ turn' = [turn EXCEPT ![c] = "wait"] /\ UNCHANGED quits
     \/ turn' = [turn EXCEPT ![c] = "ended"] /\ quits' = quits \cup {c}
  /\ UNCHANGED <<printed, answers, state, dups, lost>>

\* recvfrom() takes whatever arrives for an answer to the last message.
Receive(c) ==
  /\ turn[c] = "wait"
  /\ \E k \in 1 .. MsgMax :
       /\ answers[<<c, k>>] > 0
       /\ answers' = Take(answers, <<c, k>>)
       /\ printed' = [printed EXCEPT ![c] = Append(@, k)]
  /\ turn' = [turn EXCEPT ![c] = IF prog = "hw3" THEN "ended" ELSE "input"]
  /\ UNCHANGED <<said, quits, requests, state, dups, lost>>

\* Variants: the answer may be made from what an earlier message has left in
\* buf; or the server answers nobody twice.
ServeFromBuf(m) ==
  /\ state = "up" /\ requests[m] > 0
  /\ requests' = Take(requests, m)
  /\ IF m[1] \in quits /\ m[2] = said[m[1]]
     THEN state' = "ended" /\ UNCHANGED answers
     ELSE \E k \in 1 .. m[2] : /\ answers' = Put(answers, <<m[1], k>>)
                               /\ state' = state
  /\ UNCHANGED <<turn, said, printed, quits, dups, lost>>
ServeFirst(m) ==
  /\ state = "up" /\ requests[m] > 0
  /\ requests' = Take(requests, m)
  /\ answers' = IF m[2] = 1 THEN Put(answers, m) ELSE answers
  /\ UNCHANGED <<turn, said, printed, quits, state, dups, lost>>

\* One turn of the server's loop.
Serve(m) ==
  /\ state = "up" /\ requests[m] > 0
  /\ requests' = Take(requests, m)
  /\ IF m[1] \in quits /\ m[2] = said[m[1]]
     THEN state' = "ended" /\ UNCHANGED answers
     ELSE answers' = Put(answers, m) /\ state' = state
  /\ UNCHANGED <<turn, said, printed, quits, dups, lost>>

Lose(m) ==
  /\ \/ requests[m] > 0 /\ requests' = Take(requests, m) /\ UNCHANGED answers
     \/ answers[m] > 0 /\ answers' = Take(answers, m) /\ UNCHANGED requests
  /\ lost' = lost \cup {m[1]}
  /\ UNCHANGED <<turn, said, printed, quits, state, dups>>

Duplicate(m) ==
  /\ dups < DupMax /\ dups' = dups + 1
  /\ \/ requests[m] > 0 /\ requests' = Put(requests, m) /\ UNCHANGED answers
     \/ answers[m] > 0 /\ answers' = Put(answers, m) /\ UNCHANGED requests
  /\ UNCHANGED <<turn, said, printed, quits, state, lost>>

Server == (\E m \in Messages : Serve(m)) /\ UNCHANGED prog
Client(c) == Receive(c) /\ UNCHANGED prog

\* Everybody waits for a datagram that will not come, or has nothing to say.
Resting == /\ \A c \in Clients : turn[c] = "input" => said[c] = MsgMax
           /\ UNCHANGED vars

Next == \/ Server \/ (\E c \in Clients : Client(c))
        \/ /\ \/ \E c \in Clients : Say(c)
              \/ \E m \in Messages : Lose(m) \/ Duplicate(m)
           /\ UNCHANGED prog
        \/ Resting

Spec == Init /\ [][Next]_vars

FairSpec == Spec /\ WF_vars(Server) /\ \A c \in Clients : WF_vars(Client(c))

-----------------------------------------------------------------------------
TypeOK ==
  /\ prog \in Programs
  /\ turn \in [Clients -> {"input", "wait", "ended"}]
  /\ said \in [Clients -> 0 .. MsgMax]
  /\ printed \in [Clients -> Seq(1 .. MsgMax)]
  /\ quits \subseteq Clients /\ lost \subseteq Clients
  /\ requests \in [Messages -> 0 .. DupMax + 1]
  /\ answers \in [Messages -> 0 .. DupMax + 1]
  /\ state \in {"up", "ended"} /\ dups \in 0 .. DupMax

\* Every answer printed is that to the message before it, as long as no
\* datagram is doubled; after that udp_client.c may print an old answer for a
\* new message, never one to a message not yet sent.  hw3_client.c, which
\* ends after one answer, is immune.  Losses and reordering do not matter.
InStep ==
  \A c \in Clients : \A k \in DOMAIN printed[c] :
    IF dups = 0 \/ prog = "hw3" THEN printed[c][k] = k ELSE printed[c][k] <= k

\* A client waits for ever only if one of its datagrams was lost or another
\* client has ended the server.
AnsweredOrLost ==
  \A c \in Clients :
    turn[c] = "wait" ~> turn[c] # "wait" \/ c \in lost \/ state = "ended"
=============================================================================
