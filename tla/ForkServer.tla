----------------------------- MODULE ForkServer -----------------------------
(***************************************************************************)
(* HW5/2020115885/hw5_server.c: a parent that forks one child per client,  *)
(* and before that one logger process that copies a pipe into log.txt.     *)
(* A child reads one calculation, answers its client, writes one line into *)
(* the pipe and returns; the parent's SIGCHLD handler collects it.  The    *)
(* clients are those of hw5_client.c.                                      *)
(*                                                                         *)
(* A child is named after its connection.  A log line is longer than one   *)
(* byte: it is the two units <<c, 1>> and <<c, 2>>, so that a line torn or *)
(* mixed with another one can be told.  A request is read as a whole: how  *)
(* TCP may cut it is not the subject here.                                 *)
(***************************************************************************)
EXTENDS Naturals, Sequences, FiniteSets

CONSTANTS Conns,   \* the connections clients may open, one request each
          ProcMax, \* children the system lets the parent have, dead ones too
          PipeMax, \* bound: units that fit in the pipe
          Kinds,   \* bound: the kinds of request each client may send
          None

\* A calculation whose line fits in buf[MAX], one whose line does not, and a
\* count of 0 or less.
Requests == {"calc", "long", "stop"}

ASSUME SizeAssumption == ProcMax \in Nat \ {0} /\ PipeMax \in Nat \ {0, 1}
ASSUME KindsAssumption == Kinds \in [Conns -> SUBSET Requests]
ASSUME NoneAssumption == None \notin Conns

VARIABLES
  asked,   \* what each client sent; None before, "fin" when it hung up instead
  holders, \* who has the server's end of each connection open
  reply,   \* the clients that were written a result
  mpc,     \* the parent: "accept", then "fork", then "close"
  cfd,     \* the connection the parent's cfd refers to
  opCount, \* what main's opCount holds, never initialised and never written
           \* in the parent
  pending, \* SIGCHLD is pending for the parent; signals do not queue
  pc,      \* each child: where it is, or how it ended
  fds,     \* the contents of the pipe
  log      \* the contents of log.txt

vars   == <<asked, holders, reply, mpc, cfd, opCount, pending, pc, fds, log>>
parent == <<mpc, cfd, opCount>>

Zombies  == {c \in Conns : pc[c] = "zombie"}
Children == {c \in Conns : pc[c] \notin {"none", "refused", "reaped"}}

Init == /\ asked = [c \in Conns |-> None]
        /\ holders = [c \in Conns |-> {}]
        /\ reply = {}
        /\ mpc = "accept" /\ cfd = None
        /\ opCount \in Requests
        /\ pending = FALSE
        /\ pc = [c \in Conns |-> "none"]
        /\ fds = <<>> /\ log = <<>>

-----------------------------------------------------------------------------
(* The clients: connect, then send one request or hang up. *)

Connect(c) ==
  /\ holders[c] = {} /\ asked[c] = None /\ pc[c] = "none"
  /\ holders' = [holders EXCEPT ![c] = {"queue"}]
  /\ UNCHANGED <<asked, reply, parent, pending, pc, fds, log>>

Ask(c) ==
  /\ asked[c] = None /\ (holders[c] # {} \/ pc[c] = "refused")
  /\ \E r \in Kinds[c] \cup {"fin"} : asked' = [asked EXCEPT ![c] = r]
  /\ UNCHANGED <<holders, reply, parent, pending, pc, fds, log>>

Client(c) == Connect(c) \/ Ask(c)

-----------------------------------------------------------------------------
(* The parent. *)

\* A signal makes accept() return -1, and the loop calls it again.
Accept(c) ==
  /\ mpc = "accept" /\ holders[c] = {"queue"}
  /\ holders' = [holders EXCEPT ![c] = {"parent"}]
  /\ cfd' = c
  /\ mpc' = "fork"
  /\ UNCHANGED <<asked, reply, opCount, pending, pc, fds, log>>

Fork ==
  /\ mpc = "fork" /\ Cardinality(Children) < ProcMax
  /\ holders' = [holders EXCEPT ![cfd] = @ \cup {"child"}]
  /\ pc' = [pc EXCEPT ![cfd] = "read"]
  /\ mpc' = "close"
  /\ UNCHANGED <<asked, reply, cfd, opCount, pending, fds, log>>

\* fork() returned -1, which is not 0: the parent closes cfd and goes on.
ForkFails ==
  /\ mpc = "fork" /\ Cardinality(Children) >= ProcMax
  /\ pc' = [pc EXCEPT ![cfd] = "refused"]
  /\ mpc' = "close"
  /\ UNCHANGED <<asked, holders, reply, cfd, opCount, pending, fds, log>>

\* Variant: the parent keeps cfd open when it has no child for it.
CloseForked ==
  /\ mpc = "close"
  /\ holders' = IF pc[cfd] = "refused" THEN holders
                ELSE [holders EXCEPT ![cfd] = @ \ {"parent"}]
  /\ cfd' = None
  /\ mpc' = "accept"
  /\ UNCHANGED <<asked, reply, opCount, pending, pc, fds, log>>

Close ==
  /\ mpc = "close"
  /\ holders' = [holders EXCEPT ![cfd] = @ \ {"parent"}]
  /\ cfd' = None
  /\ mpc' = "accept"
  /\ UNCHANGED <<asked, reply, opCount, pending, pc, fds, log>>

\* Variant: the loop is left when the signal makes accept() fail.
ReadChildprocEnd ==
  /\ pending
  /\ pending' = FALSE
  /\ \E z \in Zombies : pc' = [pc EXCEPT ![z] = "reaped"]
  /\ mpc' = IF mpc = "accept" THEN "ended" ELSE mpc
  /\ UNCHANGED <<asked, holders, reply, cfd, opCount, fds, log>>

\* The handler runs between any two steps of the parent, and collects one
\* child, whichever waitpid() finds.
read_childproc ==
  /\ pending
  /\ pending' = FALSE
  /\ \E z \in Zombies : pc' = [pc EXCEPT ![z] = "reaped"]
  /\ UNCHANGED <<asked, holders, reply, parent, fds, log>>

Parent == \/ \E c \in Conns : Accept(c)
          \/ Fork \/ ForkFails \/ Close \/ read_childproc

-----------------------------------------------------------------------------
(* A child. *)

\* What the child calculates: of a client that hung up read() returns 0, and
\* opCount keeps what it held.
Count(c) == IF asked[c] = "fin" THEN opCount ELSE asked[c]

ReadRequest(c) ==
  /\ pc[c] = "read" /\ asked[c] # None
  /\ pc' = [pc EXCEPT ![c] = IF Count(c) = "stop" THEN "return" ELSE "write"]
  /\ UNCHANGED <<asked, holders, reply, parent, pending, fds, log>>

\* A first write() to a client that has closed succeeds.
WriteResult(c) ==
  /\ pc[c] = "write"
  /\ reply' = reply \cup {c}
  /\ pc' = [pc EXCEPT ![c] = "log"]
  /\ UNCHANGED <<asked, holders, parent, pending, fds, log>>

\* The end of a child closes what it has open and signals the parent.
Ends(c) == /\ holders' = [holders EXCEPT ![c] = @ \ {"child"}]
           /\ pc' = [pc EXCEPT ![c] = "zombie"]
           /\ pending' = TRUE

\* sprintf() ran past the end of buf, before the answer (line 130) or with
\* "=..." after it (line 135): the child may not survive that.  Where it does
\* not until it returns, its end is Return.
Crash(c) ==
  /\ pc[c] \in {"write", "log"} /\ Count(c) = "long"
  /\ Ends(c)
  /\ UNCHANGED <<asked, reply, parent, fds, log>>

\* Variants: a line written in two calls; a line dropped when the pipe is full.
WriteLineInParts(c) ==
  /\ pc[c] = "log" /\ Len(fds) < PipeMax
  /\ LET half == IF \E n \in DOMAIN (log \o fds) : (log \o fds)[n] = <<c, 1>>
                 THEN 2 ELSE 1
     IN /\ fds' = Append(fds, <<c, half>>)
        /\ pc' = [pc EXCEPT ![c] = IF half = 1 THEN "log" ELSE "return"]
  /\ UNCHANGED <<asked, holders, reply, parent, pending, log>>
WriteLineIfRoom(c) ==
  /\ pc[c] = "log"
  /\ fds' = IF Len(fds) + 2 <= PipeMax THEN fds \o <<<<c, 1>>, <<c, 2>>>>
            ELSE fds
  /\ pc' = [pc EXCEPT ![c] = "return"]
  /\ UNCHANGED <<asked, holders, reply, parent, pending, log>>

\* The line is shorter than PIPE_BUF: write() waits until all of it fits.
WriteLine(c) ==
  /\ pc[c] = "log" /\ Len(fds) + 2 <= PipeMax
  /\ fds' = fds \o <<<<c, 1>>, <<c, 2>>>>
  /\ pc' = [pc EXCEPT ![c] = "return"]
  /\ UNCHANGED <<asked, holders, reply, parent, pending, log>>

Return(c) ==
  /\ pc[c] = "return"
  /\ Ends(c)
  /\ UNCHANGED <<asked, reply, parent, fds, log>>

Child(c) == \/ ReadRequest(c) \/ WriteResult(c) \/ Crash(c)
            \/ WriteLine(c) \/ Return(c)

-----------------------------------------------------------------------------
(* The logger. *)

\* Variant, echo_storeserv.c's form: a fixed number of reads, here one.
LogOnce ==
  /\ fds # <<>> /\ log = <<>>
  /\ \E n \in 1 .. Len(fds) : /\ log' = log \o SubSeq(fds, 1, n)
                              /\ fds' = SubSeq(fds, n + 1, Len(fds))
  /\ UNCHANGED <<asked, holders, reply, parent, pending, pc>>

\* One read() takes what is there, at most MAX bytes, wherever that ends.
Logger ==
  /\ fds # <<>>
  /\ \E n \in 1 .. Len(fds) : /\ log' = log \o SubSeq(fds, 1, n)
                              /\ fds' = SubSeq(fds, n + 1, Len(fds))
  /\ UNCHANGED <<asked, holders, reply, parent, pending, pc>>

-----------------------------------------------------------------------------
\* Every client has come and gone, and all its child wrote is in the file.
Finished ==
  /\ \A c \in Conns : /\ asked[c] # None \/ holders[c] = {}
                      /\ pc[c] \in {"zombie", "reaped", "refused"}
  /\ mpc = "accept" /\ ~ pending /\ fds = <<>>
  /\ UNCHANGED vars

Next == \/ Parent \/ Logger
        \/ \E c \in Conns : Client(c) \/ Child(c)
        \/ Finished

Spec == Init /\ [][Next]_vars

\* All processes are scheduled and the signal is delivered; nothing is assumed
\* of the clients.
FairSpec == /\ Spec
            /\ WF_vars(Parent) /\ WF_vars(read_childproc) /\ WF_vars(Logger)
            /\ \A c \in Conns : WF_vars(Child(c))

-----------------------------------------------------------------------------
(* Safety. *)

Units == Conns \X {1, 2}

TypeOK ==
  /\ asked \in [Conns -> Requests \cup {None, "fin"}]
  /\ holders \in [Conns -> SUBSET {"queue", "parent", "child"}]
  /\ reply \subseteq Conns
  /\ mpc \in {"accept", "fork", "close"} /\ cfd \in Conns \cup {None}
  /\ opCount \in Requests
  /\ pending \in BOOLEAN
  /\ pc \in [Conns -> {"none", "read", "write", "log", "return", "zombie",
                       "reaped", "refused"}]
  /\ fds \in Seq(Units) /\ Len(fds) <= PipeMax
  /\ log \in Seq(Units)

\* However the logger's reads cut the pipe, the file and what is still in the
\* pipe are whole lines, one after the other, none torn by another child's
\* (lines 75-76 and 136).
LinesWhole ==
  LET written == log \o fds IN
    \A n \in DOMAIN written :
      /\ written[n][2] = 1 => n < Len(written)
                              /\ written[n + 1] = <<written[n][1], 2>>
      /\ written[n][2] = 2 => n > 1 /\ written[n - 1] = <<written[n][1], 1>>

\* A child writes at most one line, and only after its answer; and a child
\* that has answered and returns has written it.  The overrun of buf is the
\* only way to end between the two (lines 133-136).
OneLinePerAnswer ==
  LET written == log \o fds
      lines(c) == {n \in DOMAIN written : written[n] = <<c, 1>>}
  IN \A c \in Conns :
       /\ Cardinality(lines(c)) <= 1
       /\ lines(c) # {} => /\ c \in reply
                          /\ pc[c] \in {"return", "zombie", "reaped"}
       /\ (/\ c \in reply
           /\ \/ pc[c] = "return"
              \/ pc[c] \in {"zombie", "reaped"} /\ Count(c) # "long")
            => lines(c) # {}

\* A process that holds the server's end of a connection is one that will
\* close it: the parent while it has it in cfd, a child while it runs.  No
\* client is kept waiting by a descriptor somebody inherited.
HoldersWillClose ==
  \A c \in Conns :
    /\ "parent" \in holders[c] => cfd = c /\ mpc # "accept"
    /\ "child" \in holders[c] <=> pc[c] \in {"read", "write", "log", "return"}

-----------------------------------------------------------------------------
(* Progress. *)

\* A client that asks for a calculation gets a child that comes to write(),
\* whatever the other clients do or fail to do, unless fork() failed for it; and
\* that child answers, unless the text overran buf and ended it there.
RequestsAnswered ==
  \A c \in Conns :
    /\ asked[c] \in {"calc", "long"} /\ pc[c] \in {"none", "read"} ~>
         pc[c] \in {"write", "refused"}
    /\ pc[c] = "write" ~>
         \/ c \in reply
         \/ Count(c) = "long" /\ pc[c] \in {"zombie", "reaped"}

\* Every client that has sent a request gets an answer or the end of the
\* stream: when its child crashes and when there is none, too.
ClientReturns ==
  \A c \in Conns :
    asked[c] \in Requests ~> c \in reply \/ holders[c] = {}

\* What was answered is in log.txt in the end, unless the text overran buf
\* and ended the child first.
AnsweredIsLogged ==
  \A c \in Conns :
    c \in reply ~>
      \/ \E n \in DOMAIN log : log[n] = <<c, 2>>
      \/ Count(c) = "long" /\ pc[c] \in {"zombie", "reaped"}

-----------------------------------------------------------------------------
(* What the comments say, and the code does not do. *)

\* "remove the zombie process" (line 155): every child that has ended is
\* collected.
ZombiesRemoved == \A c \in Conns : pc[c] = "zombie" ~> pc[c] = "reaped"
=============================================================================
