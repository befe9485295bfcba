----------------------------- MODULE EchoServer ------------------------------
(***************************************************************************)
(* The echo servers and their clients: HW2's server.c, which serves five   *)
(* clients one after the other ("five"); HW5's echo_mpserv.c, one child    *)
(* per client ("mp"); echo_storeserv.c, which also writes what it echoes   *)
(* into a pipe, for a logger that reads ten times and ends ("store"); and  *)
(* HW6's echo_selectserv.c, one process for all and a logger that does not *)
(* end ("select").  echo_client.c (HW2's client.c is the same) waits for   *)
(* an echo after each message; echo_mpclient.c is two processes, one that  *)
(* writes and one that reads.                                              *)
(*                                                                         *)
(* A message is one unit or two; each unit is the message's number.  TCP   *)
(* may cut a stream between any two units.                                 *)
(***************************************************************************)
EXTENDS Naturals, Sequences, FiniteSets

LOCAL INSTANCE Folds
LOCAL INSTANCE Functions

CONSTANTS Clients,
          MsgMax,    \* bound: messages per client
          MsgsMax,   \* bound: messages of all clients
          BUF_SIZE,  \* units the server reads at once
          PipeMax,   \* bound: units that fit in the pipe
          LogReads,  \* reads of echo_storeserv.c's logger, ten in the code
          ServedMax  \* clients server.c serves, five in the code

ASSUME SizeAssumption ==
  /\ {MsgMax, MsgsMax, BUF_SIZE, LogReads, ServedMax} \subseteq Nat \ {0}
  /\ PipeMax \in Nat /\ PipeMax >= BUF_SIZE

VARIABLES
  prog,     \* which server
  before,   \* clients that server.c has served before those of Clients came
  kind,     \* what each client runs, once it has connected
  msgs,     \* messages each has written
  wide,     \* the clients that have sent a message of two units
  waits,    \* those of echo_client.c that are in read()
  fin, gone,\* those that have shut down their direction; closed, or killed
  rst,      \* connections reset by a closed client
  done,     \* those whose reading process has seen the end
  up, down, \* units on their way to the server and back
  got, lens,\* what a client has read, and how much each read() returned
  pc,       \* what is done for each client: one process, or one for all
  held,     \* what was read for it
  echoed,   \* what write() was given to send back to it
  dead,     \* the one process of "select" or "five" was killed
  fds, log, logged \* the pipe, the file, and how often the logger has read

setting == <<prog, before>>
printed == <<got, lens>>
client == <<kind, msgs, wide, waits, fin, gone, done, printed>>
logger == <<fds, log, logged>>
vars   == <<setting, client, rst, up, down, pc, held, echoed, dead, logger>>

Programs == {"five", "mp", "store", "select"}
Alone    == prog \in {"five", "select"}  \* one process serves all
Logs     == prog \in {"store", "select"}

Init == /\ prog \in Programs
        /\ before \in 0 .. ServedMax - 1 /\ (prog # "five" => before = 0)
        /\ kind = [c \in Clients |-> "none"]
        /\ msgs = [c \in Clients |-> 0]
        /\ wide = {} /\ waits = {} /\ fin = {} /\ gone = {} /\ rst = {}
        /\ done = {}
        /\ up = [c \in Clients |-> <<>>] /\ down = up
        /\ got = [c \in Clients |-> <<>>] /\ lens = got
        /\ pc = [c \in Clients |-> "none"]
        /\ held = [c \in Clients |-> <<>>] /\ echoed = held
        /\ dead = FALSE
        /\ fds = <<>> /\ log = <<>> /\ logged = 0

Repeat(x, n) == [k \in 1 .. n |-> x]
Drop(s, n)   == SubSeq(s, n + 1, Len(s))

\* The server's end of the connection is closed.
Closed(c) == dead \/ pc[c] \in {"ended", "refused", "killed"}
Served    == {c \in Clients : pc[c] # "none"}
Running(c) == kind[c] # "none" /\ c \notin gone
Said       == FoldFunction(+, 0, msgs)

-----------------------------------------------------------------------------
(* The clients. *)

Connect(c) ==
  /\ kind[c] = "none" /\ ~ dead
  /\ \E k \in {"echo_client", "echo_mpclient"} : kind' = [kind EXCEPT ![c] = k]
  /\ UNCHANGED <<msgs, wide, waits, fin, gone, done, printed, rst, up, down, pc,
                 held, echoed, dead, logger>>

Say(c) ==
  /\ Running(c) /\ c \notin fin \cup waits /\ ~ Closed(c)
  /\ msgs[c] < MsgMax /\ Said < MsgsMax
  /\ msgs' = [msgs EXCEPT ![c] = @ + 1]
  /\ \E n \in 1 .. 2 : /\ up' = [up EXCEPT ![c] = @ \o Repeat(msgs'[c], n)]
                       /\ wide' = IF n = 2 THEN wide \cup {c} ELSE wide
  /\ waits' = IF kind[c] = "echo_client" THEN waits \cup {c} ELSE waits
  /\ UNCHANGED <<kind, fin, gone, done, printed, rst, down, pc, held, echoed,
                 dead, logger>>

\* One read() takes what is there, for echo_client.c once per message.
ReadEcho(c) ==
  /\ Running(c) /\ down[c] # <<>> /\ (kind[c] = "echo_client" => c \in waits)
  /\ \E n \in 1 .. Len(down[c]) :
       /\ got' = [got EXCEPT ![c] = @ \o SubSeq(down[c], 1, n)]
       /\ lens' = [lens EXCEPT ![c] = Append(@, n)]
       /\ down' = [down EXCEPT ![c] = Drop(@, n)]
  /\ waits' = waits \ {c}
  /\ UNCHANGED <<kind, msgs, wide, fin, gone, done, rst, up, pc, held,
                 echoed, dead, logger>>

\* read() returns 0: the reading process of echo_mpclient.c ends;
\* echo_client.c prints nothing, and does not notice.
ReadEnd(c) ==
  /\ Running(c) /\ down[c] = <<>> /\ Closed(c)
  /\ \/ c \in waits /\ waits' = waits \ {c} /\ UNCHANGED done
     \/ /\ kind[c] = "echo_mpclient" /\ c \notin done
        /\ done' = done \cup {c} /\ UNCHANGED waits
  /\ UNCHANGED <<kind, msgs, wide, fin, gone, printed, rst, up, down, pc, held,
                 echoed, dead, logger>>

\* A socket closed before all has been read resets the connection.
Leaves(c) == /\ gone' = gone \cup {c}
             /\ rst' = IF down[c] # <<>> THEN rst \cup {c} ELSE rst
             /\ down' = [down EXCEPT ![c] = <<>>]

\* Variant: write_routine() closes the connection instead of its own half.
QuitClosing(c) ==
  /\ Running(c) /\ c \notin fin \cup waits
  /\ fin' = fin \cup {c} /\ pc' = [pc EXCEPT ![c] = "ended"]
  /\ UNCHANGED <<kind, msgs, wide, waits, gone, done, printed, rst, up, down,
                 held, echoed, dead, logger>>

\* The user types q: echo_mpclient.c shuts down its direction, echo_client.c
\* closes.
Quit(c) ==
  /\ Running(c) /\ c \notin fin \cup waits
  /\ IF kind[c] = "echo_mpclient"
     THEN fin' = fin \cup {c} /\ UNCHANGED <<gone, rst, down>>
     ELSE Leaves(c) /\ UNCHANGED fin
  /\ UNCHANGED <<kind, msgs, wide, waits, done, printed, up, pc, held, echoed,
                 dead, logger>>

\* The user ends the client in another way.
Kill(c) ==
  /\ Running(c)
  /\ Leaves(c) /\ waits' = waits \ {c}
  /\ UNCHANGED <<kind, msgs, wide, fin, done, printed, up, pc, held, echoed,
                 dead, logger>>

-----------------------------------------------------------------------------
(* The servers. *)

\* Variant: the one process goes on reading while the pipe is full.
FreeToLog(c) == Alone => ~ dead /\ \A d \in Clients : pc[d] # "echo"

\* The process that serves c has nothing else in hand.
Free(c) == Alone => ~ dead /\ \A d \in Clients : pc[d] \notin {"echo", "log"}

\* server.c accepts when the client before has left.
Accept(c) ==
  /\ kind[c] # "none" /\ pc[c] = "none" /\ Free(c)
  /\ prog = "five" => /\ before + Cardinality(Served) < ServedMax
                      /\ \A d \in Served : pc[d] = "ended"
  /\ pc' = [pc EXCEPT ![c] = "read"]
  /\ UNCHANGED <<client, rst, up, down, held, echoed, dead, logger>>

\* fork() fails: the parent closes the connection.
Refuse(c) ==
  /\ kind[c] # "none" /\ pc[c] = "none" /\ ~ Alone
  /\ pc' = [pc EXCEPT ![c] = "refused"]
  /\ UNCHANGED <<client, rst, up, down, held, echoed, dead, logger>>

Read(c) ==
  /\ pc[c] = "read" /\ up[c] # <<>> /\ Free(c)
  /\ \E n \in 1 .. (IF Len(up[c]) < BUF_SIZE THEN Len(up[c]) ELSE BUF_SIZE) :
       /\ held' = [held EXCEPT ![c] = SubSeq(up[c], 1, n)]
       /\ up' = [up EXCEPT ![c] = Drop(@, n)]
  /\ pc' = [pc EXCEPT ![c] = "echo"]
  /\ UNCHANGED <<client, rst, down, echoed, dead, logger>>

\* read() returns 0.  Of a reset connection it returns -1 first; writing -1
\* bytes then fails and changes nothing.
ReadZero(c) ==
  /\ pc[c] = "read" /\ up[c] = <<>> /\ c \in fin \cup gone /\ Free(c)
  /\ pc' = [pc EXCEPT ![c] = "ended"]
  /\ UNCHANGED <<client, rst, up, down, held, echoed, dead, logger>>

\* Variant: SIGPIPE comes with the first write to a client that has left.
EchoFragile(c) ==
  /\ pc[c] = "echo" /\ ~ dead
  /\ IF c \in gone
     THEN pc' = [pc EXCEPT ![c] = "killed"] /\ dead' = Alone
          /\ UNCHANGED <<rst, down, echoed>>
     ELSE /\ down' = [down EXCEPT ![c] = @ \o held[c]]
          /\ echoed' = [echoed EXCEPT ![c] = @ \o held[c]]
          /\ pc' = [pc EXCEPT ![c] = IF Logs THEN "log" ELSE "read"]
          /\ UNCHANGED <<rst, dead>>
  /\ UNCHANGED <<client, up, held, logger>>

\* Variant: what was read is written twice.
EchoTwice(c) ==
  /\ pc[c] = "echo" /\ ~ dead /\ c \notin rst
  /\ down' = [down EXCEPT ![c] = @ \o held[c] \o held[c]]
  /\ echoed' = [echoed EXCEPT ![c] = @ \o held[c]]
  /\ pc' = [pc EXCEPT ![c] = IF Logs THEN "log" ELSE "read"]
  /\ UNCHANGED <<client, rst, up, held, dead, logger>>

\* A write to a client that has left makes it reset the connection.  Then the
\* next one fails, or kills the process, which may be the whole server.
Echo(c) ==
  /\ pc[c] = "echo" /\ ~ dead
  /\ \/ /\ IF c \in gone THEN rst' = rst \cup {c} /\ UNCHANGED down
           ELSE down' = [down EXCEPT ![c] = @ \o held[c]] /\ UNCHANGED rst
        /\ echoed' = [echoed EXCEPT ![c] = @ \o held[c]]
        /\ pc' = [pc EXCEPT ![c] = IF Logs THEN "log" ELSE "read"]
        /\ UNCHANGED dead
     \/ /\ c \in rst
        /\ pc' = [pc EXCEPT ![c] = "killed"] /\ dead' = Alone
        /\ UNCHANGED <<rst, down, echoed>>
  /\ UNCHANGED <<client, up, held, logger>>

\* Variant: the pipe is written only if there is room.
LogIfRoom(c) ==
  /\ pc[c] = "log" /\ ~ dead
  /\ fds' = IF Len(fds) + Len(held[c]) <= PipeMax
            THEN fds \o [k \in DOMAIN held[c] |-> <<c, held[c][k]>>] ELSE fds
  /\ pc' = [pc EXCEPT ![c] = "read"]
  /\ UNCHANGED <<client, rst, up, down, held, echoed, dead, log, logged>>

\* write(fds[1], ...) blocks while the pipe is full; its other end is open in
\* every process of the server, so that it never raises SIGPIPE.
Log(c) ==
  /\ pc[c] = "log" /\ ~ dead /\ Len(fds) + Len(held[c]) <= PipeMax
  /\ fds' = fds \o [k \in DOMAIN held[c] |-> <<c, held[c][k]>>]
  /\ pc' = [pc EXCEPT ![c] = "read"]
  /\ UNCHANGED <<client, rst, up, down, held, echoed, dead, log, logged>>

\* Variant: the logger of "select", too, ends.
LogReadsLeftOnce == log = <<>>

LogReadsLeft == IF prog = "store" THEN logged < LogReads ELSE TRUE

Logger ==
  /\ fds # <<>> /\ LogReadsLeft
  /\ logged' = IF prog = "store" THEN logged + 1 ELSE logged
  /\ \E n \in 1 .. Len(fds) : /\ log' = log \o SubSeq(fds, 1, n)
                              /\ fds' = Drop(fds, n)
  /\ UNCHANGED <<setting, client, rst, up, down, pc, held, echoed, dead>>

Server(c) == /\ \/ Accept(c) \/ Read(c) \/ ReadZero(c) \/ Echo(c) \/ Log(c)
             /\ UNCHANGED setting
Reader(c) == (ReadEcho(c) \/ ReadEnd(c)) /\ UNCHANGED setting

\* All clients have come, and left or said what they had to say.
Resting == /\ \A c \in Clients : kind[c] # "none" \/ dead
           /\ \A c \in Clients : Running(c) => c \in waits \cup fin \/ Closed(c)
           /\ UNCHANGED vars

Next == \/ \E c \in Clients : Server(c) \/ Reader(c)
        \/ Logger
        \/ /\ \E c \in Clients : \/ Connect(c) \/ Say(c) \/ Quit(c) \/ Kill(c)
                                 \/ Refuse(c)
           /\ UNCHANGED setting
        \/ Resting

Spec == Init /\ [][Next]_vars

\* The processes of the server, the logger and the clients' reads go on;
\* nobody is made to say anything or to leave.
FairSpec == /\ Spec /\ WF_vars(Logger)
            /\ \A c \in Clients : WF_vars(Server(c)) /\ WF_vars(Reader(c))

-----------------------------------------------------------------------------
\* How many of the first n units of a pipe are of c.
CountOf(s, c, n) == Cardinality({j \in 1 .. n : s[j][1] = c})

\* Of c, the pipe s has what was echoed, in order, without the piece h.
Holds(s, c, sentBack, h) ==
  /\ Len(sentBack) = CountOf(s, c, Len(s)) + Len(h)
  /\ \A j \in 1 .. Len(s) :
       s[j][1] = c => s[j][2] = sentBack[CountOf(s, c, j)]
  /\ \A k \in 1 .. Len(h) : sentBack[CountOf(s, c, Len(s)) + k] = h[k]

TypeOK ==
  /\ prog \in Programs /\ before \in 0 .. ServedMax - 1 /\ dead \in BOOLEAN
  /\ kind \in [Clients -> {"none", "echo_client", "echo_mpclient"}]
  /\ msgs \in [Clients -> 0 .. MsgMax]
  /\ waits \cap gone = {} /\ rst \subseteq gone
  /\ \A S \in {wide, waits, fin, gone, done} :
       S \subseteq {c \in Clients : kind[c] # "none"}
  /\ \A s \in {up, down, held, echoed, got} : s \in [Clients -> Seq(1 .. MsgMax)]
  /\ lens \in [Clients -> Seq(Nat)]
  /\ pc \in [Clients -> {"none", "refused", "read", "echo", "log", "ended",
                         "killed"}]
  /\ Alone => \A c, d \in Clients : {pc[c], pc[d]} \subseteq {"echo", "log"}
                                       => c = d
  /\ fds \in Seq(Clients \X (1 .. MsgMax)) /\ Len(fds) <= PipeMax
  /\ log \in Seq(Clients \X (1 .. MsgMax)) /\ logged \in 0 .. LogReads

\* The pipe and the file have of each client what was echoed to it, in order
\* and whole, whoever else writes, wherever the logger's reads end and whether
\* or not the client is still there; only the piece in hand is missing.
LogIsEchoed ==
  Logs => \A c \in Clients :
            Holds(log \o fds, c, echoed[c],
                  IF pc[c] = "log" THEN held[c] ELSE <<>>)

\* echo_client.c, which reads once per message, prints the k-th message after
\* the k-th as long as every message fits in one unit: only an echo that came
\* in pieces leaves it behind (lines 45-48).
InStep ==
  \A c \in Clients :
    kind[c] = "echo_client" /\ c \notin wide =>
      \A k \in DOMAIN lens[c] : lens[c][k] = 1 /\ got[c][k] = k

\* A process is killed only by a client of whose data two pieces were read
\* after it had left or stopped reading: one that writes without waiting, or
\* sends more than one read() takes.  A client that waits for each echo and
\* sends short messages cannot hurt the server, even killed.
KilledByTwoPieces ==
  \A c \in Clients :
    pc[c] = "killed" => c \in gone /\ (c \in wide \/ kind[c] = "echo_mpclient")

\* The reader of echo_mpclient.c goes on after q until it has everything that
\* was written, since q only half-closes (line 62); unless there was no child
\* for it or the whole server was killed.
ReaderGetsAll ==
  \A c \in done :
    c \in gone \/ pc[c] = "refused" \/ dead
      \/ (up[c] = <<>> /\ got[c] = echoed[c])

\* The logger has ended and the pipe is full; server.c has accepted somebody
\* who neither writes nor leaves; or it has served all it serves.
PipeIsStuck == prog = "store" /\ logged = LogReads
                 /\ \E c \in Clients : /\ pc[c] = "log"
                                       /\ Len(fds) + Len(held[c]) > PipeMax
ServerIsTaken == prog = "five"
                   /\ \E c \in Clients : /\ pc[c] = "read" /\ up[c] = <<>>
                                         /\ c \notin fin \cup gone
NotServed(c) == /\ prog = "five" /\ pc[c] = "none"
                /\ before + Cardinality(Served) = ServedMax

\* All that a client sends is read and echoed, unless the ten reads of
\* echo_storeserv.c's logger are over and the pipe is full (line 55), server.c
\* waits for ever for a silent client, or the process was killed.
EchoComes ==
  \/ <>[]PipeIsStuck \/ <>[]ServerIsTaken
  \/ \A c \in Clients :
       up[c] # <<>> ~> \/ up[c] = <<>> \/ dead \/ NotServed(c)
                       \/ pc[c] \in {"refused", "killed"}
=============================================================================
