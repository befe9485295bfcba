----------------------------- MODULE CalcStream -----------------------------
(***************************************************************************)
(* HW2's calculators over TCP, at the level of bytes: hw2_server.c with    *)
(* hw2_client.c ("hw2"), and the class's opserver.c with opclient.c ("op"),*)
(* which serves a single client.  Both serve one client at a time and read *)
(* a request field by field; each read() may come back short where TCP has *)
(* cut the stream, and returns 0 when the client has hung up.              *)
(*                                                                         *)
(* Bytes have no values here.  What a variable holds is where its bytes    *)
(* came from: <<c, n>> is what client c wrote from its byte n on.          *)
(***************************************************************************)
EXTENDS Naturals, Sequences

CONSTANTS Clients,
          Counts,  \* operand counts users type; 0 stands for all below 1 too
          None

\* A count is a byte: one of them is the largest.
CountsAssumption == /\ Counts \subseteq Nat
                    /\ \E n \in Counts : \A m \in Counts : m <= n
NoneAssumption == None \notin Clients \cup Nat

VARIABLES
  prog,     \* which of the two pairs of programs this behaviour is about
  backlog,  \* connections made and not accepted
  asked,    \* the operand count each client has sent with its request
  fin,      \* the clients that have closed or were killed
  reply,    \* what the result written to each client was computed from
  spc, cfd, opCount, operand, operator, \* the server's main()
  taken,    \* bytes of the request read so far
  i,        \* index of the loop under way
  used,     \* the operators applied so far
  torn      \* a read() of this request came back short

request == <<taken, i, used, torn>>
server  == <<spc, cfd, opCount, operand, operator, request>>
clients == <<asked, fin>>
vars    == <<prog, backlog, clients, reply, server>>

Programs == {"hw2", "op"}
Largest  == CHOOSE n \in Counts : \A m \in Counts : m <= n

\* Nothing is initialized: opCount is whatever is on the stack.
Start == /\ backlog = <<>>
         /\ asked = [c \in Clients |-> None] /\ fin = {}
         /\ reply = [c \in Clients |-> None]
         /\ spc = "accept" /\ cfd = None
         /\ opCount \in Counts
         /\ operand = [n \in 0 .. Largest |-> None] /\ operator = None
         /\ taken = 0 /\ i = 0 /\ used = <<>> /\ torn = FALSE

Init == prog \in Programs /\ Start

-----------------------------------------------------------------------------
(* The clients. *)

Connected(c) == cfd = c \/ \E n \in DOMAIN backlog : backlog[n] = c

Connect(c) ==
  /\ spc # "ended" /\ c \notin fin
  /\ asked[c] = None /\ reply[c] = None /\ ~ Connected(c)
  /\ backlog' = Append(backlog, c)
  /\ UNCHANGED <<clients, reply, server>>

\* Variant: the bytes of the count, n operands and n-1 operators,
\* one less than the server reads.
SizeExact(n) == IF n = 0 THEN 1 ELSE 5 * n

\* How much hw2_client.c writes for n operands, and how much opclient.c.
Hw2Size(n) == IF n = 0 THEN 1 ELSE n * 4 + (n - 1) * 4
OpSize(n)  == n * 4 + 2

Written(c) == IF asked[c] = None THEN 0
              ELSE IF prog = "hw2" THEN Hw2Size(asked[c]) ELSE OpSize(asked[c])

\* A count below 1 is all that hw2_client.c sends; then it closes.
Ask(c, n) ==
  /\ Connected(c) /\ asked[c] = None /\ c \notin fin
  /\ asked' = [asked EXCEPT ![c] = n]
  /\ fin' = IF prog = "hw2" /\ n = 0 THEN fin \cup {c} ELSE fin
  /\ UNCHANGED <<backlog, reply, server>>

\* A client is killed: before it has sent its request, or waiting for the
\* result.
HangUp(c) ==
  /\ Connected(c) /\ c \notin fin
  /\ fin' = fin \cup {c}
  /\ UNCHANGED <<backlog, asked, reply, server>>

-----------------------------------------------------------------------------
(* The server. *)

accept ==
  /\ spc = "accept" /\ backlog # <<>>
  /\ cfd' = Head(backlog) /\ backlog' = Tail(backlog)
  /\ spc' = "count"
  /\ taken' = 0 /\ i' = 0 /\ used' = <<>> /\ torn' = FALSE
  /\ UNCHANGED <<clients, reply, opCount, operand, operator>>

\* The bytes that one read(cfd, ..., size) may return; none of them while
\* the client is silent: the server blocks.
Got(size) ==
  LET left == Written(cfd) - taken
  IN IF left > 0 THEN 1 .. (IF left < size THEN left ELSE size)
     ELSE IF cfd \in fin THEN {0} ELSE {}

\* A byte read into a char: of a client that has closed, the old one stays.
ReadByte(old, new) == \E got \in Got(1) : /\ taken' = taken + got
                                          /\ new = IF got = 0 THEN old
                                                   ELSE <<cfd, taken>>

\* hw2_server.c ends when the count is below 1; opserver.c does not look.
ReadCount ==
  /\ spc = "count"
  /\ \E got \in Got(1) : /\ taken' = taken + got
                         /\ opCount' = IF got = 0 THEN opCount ELSE asked[cfd]
  /\ IF prog = "hw2" /\ opCount' = 0
     THEN spc' = "ended" /\ cfd' = None
     ELSE spc' = (IF opCount' = 0 THEN "operator" ELSE "operand") /\ cfd' = cfd
  /\ UNCHANGED <<backlog, clients, reply, operand, operator, i, used, torn>>

ReadOperand ==
  /\ spc = "operand"
  /\ \E got \in Got(4) :
       /\ operand' = [operand EXCEPT ![i] = IF got = 0 THEN @
                                            ELSE <<cfd, taken>>]
       /\ torn' = (torn \/ got \in 1 .. 3)
       /\ taken' = taken + got
  /\ IF i + 1 < opCount THEN i' = i + 1 /\ spc' = spc
                        ELSE i' = 0 /\ spc' = "operator"
  /\ UNCHANGED <<backlog, clients, reply, cfd, opCount, operator, used>>

ReadOperator ==
  /\ spc = "operator"
  /\ ReadByte(operator, operator')
  /\ spc' = "apply"
  /\ UNCHANGED <<backlog, clients, reply, cfd, opCount, operand, i, used, torn>>

\* Variant: the next operator is read before this one is applied.
Hw2ReadThenApply ==
  /\ ReadByte(operator, operator')
  /\ used' = Append(used, operator')

\* One turn of the loop over the operators.  hw2_server.c reads the next one
\* after each, after the last one too; opserver.c applies the same to all.
Hw2Apply ==
  /\ used' = Append(used, operator)
  /\ ReadByte(operator, operator')
OpApply ==
  /\ used' = Append(used, operator)
  /\ UNCHANGED <<operator, taken>>

Apply ==
  /\ spc = "apply" /\ i + 1 < opCount
  /\ IF prog = "hw2" THEN Hw2Apply ELSE OpApply
  /\ i' = i + 1
  /\ UNCHANGED <<backlog, clients, reply, spc, cfd, opCount, operand, torn>>

\* operand[0] is part of the result even if the count is 0.
Answer ==
  /\ spc = "apply" /\ i + 1 >= opCount
  /\ reply' = [reply EXCEPT ![cfd] =
                 [operands |-> [n \in 0 .. i |-> operand[n]],
                  operators |-> used, torn |-> torn]]
  /\ cfd' = None
  /\ spc' = IF prog = "hw2" THEN "accept" ELSE "ended"
  /\ UNCHANGED <<backlog, clients, opCount, operand, operator, request>>

Server == /\ \/ accept \/ ReadCount \/ ReadOperand \/ ReadOperator
             \/ Apply \/ Answer
          /\ UNCHANGED prog

Finished == /\ \/ spc = "ended" /\ \A c \in Clients : Connected(c) => c \in fin
               \/ spc = "accept" /\ \A c \in Clients : reply[c] # None
            /\ UNCHANGED vars

Client(c) == /\ Connect(c) \/ HangUp(c) \/ \E n \in Counts : Ask(c, n)
             /\ UNCHANGED prog

Next == Server \/ (\E c \in Clients : Client(c)) \/ Finished

Spec == Init /\ [][Next]_vars

\* The server is scheduled; nothing is assumed of the clients.
FairSpec == Spec /\ WF_vars(Server)

-----------------------------------------------------------------------------
Sources == (Clients \X Nat) \cup {None}

TypeOK ==
  /\ prog \in Programs
  /\ backlog \in Seq(Clients) /\ fin \subseteq Clients
  /\ asked \in [Clients -> Counts \cup {None}]
  /\ spc \in {"accept", "count", "operand", "operator", "apply", "ended"}
  /\ cfd \in Clients \cup {None}
  /\ (cfd = None) = (spc \in {"accept", "ended"})
  /\ opCount \in Counts
  /\ operand \in [0 .. Largest -> Sources] /\ operator \in Sources
  /\ taken \in Nat /\ i \in 0 .. Largest
  /\ used \in Seq(Sources) /\ torn \in BOOLEAN

\* The requests whose format both sides agree on: with one operand
\* hw2_client.c writes 4 bytes of the 5.
Proper(n) == IF prog = "hw2" THEN n > 1 ELSE n > 0

\* Unless a read() came back short, a client's result is that of its own
\* operands and operators, each applied where the client has put it, although
\* every buffer still holds the previous client's request (lines 61-82).
AnswerIsOwn ==
  \A c \in Clients :
    reply[c] # None /\ asked[c] # None =>
      LET n == asked[c]
          from(k) == <<c, n * 4 + 1 + (IF prog = "hw2" THEN k - 1 ELSE 0)>>
      IN Proper(n) /\ ~ reply[c].torn =>
           /\ reply[c].operands = [k \in 0 .. n - 1 |-> <<c, k * 4 + 1>>]
           /\ reply[c].operators = [k \in 1 .. n - 1 |-> from(k)]

\* The server waits for a client that has sent nothing, or one operand.
HeldUp == /\ cfd # None /\ cfd \notin fin
          /\ asked[cfd] = None \/ ~ Proper(asked[cfd])

\* The server comes to everybody who has sent a request: only a client that
\* it waits for, for ever, keeps the others out, however TCP cuts the stream.
OnlySilentHoldUp ==
  \/ \A c \in Clients : asked[c] # None ~> reply[c] # None \/ spc = "ended"
  \/ <>[]HeldUp
=============================================================================
