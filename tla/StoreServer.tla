---------------------------- MODULE StoreServer -----------------------------
(***************************************************************************)
(* HW6/2020115885/hw6_server.c: a select loop that serves one request per  *)
(* connection (save, load or quit), and a child process that keeps the     *)
(* records.  The parent tells the child everything through the pipe fdsA   *)
(* and reads the answer to a load from the pipe fdsB; both processes hold  *)
(* both ends of both pipes.  The clients are those of hw6_client.c.        *)
(*                                                                         *)
(* A pipe is the sequence of the writes in it: each is shorter than        *)
(* PIPE_BUF, so atomic, and the child reads by the same sizes.  A record   *)
(* is named after the connection whose calculation it holds.               *)
(***************************************************************************)
EXTENDS Naturals, Sequences, FiniteSets

CONSTANTS Conns,     \* the connections clients may open, one request each
          Ids,       \* the ids they save and load under
          Fds,       \* descriptors accept() can return, above serv_sock
          DATA_MAX,  \* entries of dataArray
          ResultMax, \* bound: matching records that fit in result[BUF_SIZE]
          PipeMax,   \* writes that fit in a pipe
          Modes,     \* the modes that clients ask for
          Resets,    \* the connections that the network may break
          Splits,    \* those whose requests it may deliver in two pieces
          None

ASSUME FdsAssumption   == Fds \subseteq Nat \ {0}
ASSUME SizeAssumption  == {DATA_MAX, ResultMax, PipeMax} \subseteq Nat \ {0}
ASSUME ModesAssumption == Modes \subseteq {"save", "load", "quit"}
ASSUME FaultAssumption == Resets \cup Splits \subseteq Conns
Requests == [mode : {"save", "load"}, id : Ids] \cup {[mode |-> "quit"]}
ASSUME NoneAssumption  == None \notin Conns \cup Requests

VARIABLES
  link,      \* each connection, seen from its client
  asked,     \* the request each client has sent
  queued,    \* connections made and not yet accepted
  files,     \* the parent's client sockets; all of them are in reads
  listening, \* the parent has not closed serv_sock
  ready,     \* what is left of cpy_reads in this round; 0 is serv_sock
  ppc,       \* where the parent is
  i,         \* the descriptor being served, a global of the program
  mode, id, result, \* the global buffers of readv()
  dataArray, \* the parent's records
  fdsA, fdsB,
  cpc,       \* where the child is
  store,     \* the child's dataArray
  reply      \* what each client was answered

netvars == <<link, asked, queued>>
sockets == <<files, listening>>
vectors == <<mode, id, result>>
child   == <<cpc, store>>
pipes   == <<fdsA, fdsB>>
vars == <<link, asked, queued, files, listening, ready, ppc, i, mode, id,
          result, dataArray, fdsA, fdsB, cpc, store, reply>>

serv_sock == 0
AnyId     == Ids \cup {None}  \* None: what a split request left in id
Records   == [id : AnyId, req : Conns \cup {None}]

Init == /\ link = [c \in Conns |-> "idle"]
        /\ asked = [c \in Conns |-> None]
        /\ queued = {}
        /\ files = [fd \in Fds |-> None]
        /\ listening = TRUE
        /\ ready = {} /\ ppc = "select" /\ i = 0
        /\ mode = "" /\ id = None /\ result = None
        /\ dataArray = <<>>
        /\ fdsA = <<>> /\ fdsB = <<>>
        /\ cpc = "mode" /\ store = <<>>
        /\ reply = [c \in Conns |-> None]

-----------------------------------------------------------------------------
(* The clients: connect, send one request or hang up, wait for the answer.  *)

\* The child has inherited serv_sock, and closes it when it is told to quit.
Connect(c) ==
  /\ link[c] = "idle" /\ (listening \/ cpc # "exited")
  /\ link' = [link EXCEPT ![c] = "open"]
  /\ queued' = queued \cup {c}
  /\ UNCHANGED <<asked, sockets, ready, ppc, i, vectors, dataArray, pipes,
                 child, reply>>

Ask(c) ==
  /\ link[c] = "open"
  /\ \E r \in Requests : /\ r.mode \in Modes
                         /\ asked' = [asked EXCEPT ![c] = r]
  /\ link' = [link EXCEPT ![c] = "sent"]
  /\ UNCHANGED <<queued, sockets, ready, ppc, i, vectors, dataArray, pipes,
                 child, reply>>

\* A bad id, a count out of range, or a signal: the client closes instead.
\* It may also be killed while it waits for the answer; its close once the
\* server has closed its end changes nothing and is left out.
HangUp(c) ==
  /\ link[c] = "open" \/ (link[c] = "read" /\ \E fd \in Fds : files[fd] = c)
  /\ link' = [link EXCEPT ![c] = "eof"]
  /\ UNCHANGED <<asked, queued, sockets, ready, ppc, i, vectors, dataArray,
                 pipes, child, reply>>

\* The connection breaks and what was sent is lost: readv() will return -1
\* once, and 0 from then on.
Break(c) ==
  /\ c \in Resets
  /\ \/ link[c] \in {"open", "sent", "torn"}
     \/ link[c] = "read" /\ \E fd \in Fds : files[fd] = c
  /\ link' = [link EXCEPT ![c] = "reset"]
  /\ UNCHANGED <<asked, queued, sockets, ready, ppc, i, vectors, dataArray,
                 pipes, child, reply>>

Client(c) == Connect(c) \/ Ask(c) \/ HangUp(c) \/ Break(c)

-----------------------------------------------------------------------------
(* The parent's select loop. *)

Readable == {fd \in Fds : /\ files[fd] # None
                          /\ link[files[fd]] \in {"sent", "torn", "eof",
                                                 "reset", "broken"}}
              \cup (IF queued # {} THEN {serv_sock} ELSE {})

\* A timeout of select() goes round the loop and changes nothing.
Select ==
  /\ ppc = "select" /\ listening /\ Readable # {}
  /\ ready' = Readable
  /\ ppc' = "scan"
  /\ UNCHANGED <<netvars, sockets, i, vectors, dataArray, pipes, child, reply>>

\* serv_sock is closed and still in reads: select() returns -1, main returns.
SelectFails ==
  /\ ppc = "select" /\ ~ listening
  /\ ppc' = "exited"
  /\ files' = [fd \in Fds |-> None]
  /\ UNCHANGED <<netvars, listening, ready, i, vectors, dataArray, pipes,
                 child, reply>>

ScanEnd ==
  /\ ppc = "scan" /\ ready = {}
  /\ ppc' = "select"
  /\ UNCHANGED <<netvars, sockets, ready, i, vectors, dataArray, pipes, child,
                 reply>>

\* The loop over the descriptors goes upwards.
Turn(fd) == /\ ppc = "scan" /\ fd \in ready
            /\ \A other \in ready : fd <= other

\* Variant: the new descriptor is not put into reads.
AcceptUnwatched(c) ==
  /\ Turn(serv_sock) /\ c \in queued
  /\ queued' = queued \ {c}
  /\ ready' = ready \ {serv_sock}
  /\ i' = serv_sock
  /\ UNCHANGED <<link, asked, sockets, ppc, vectors, dataArray, pipes, child,
                 reply>>

Accept(c) ==
  /\ Turn(serv_sock) /\ c \in queued
  /\ \E fd \in Fds :
       /\ files[fd] = None
       /\ \A other \in Fds : files[other] = None => fd <= other
       /\ files' = [files EXCEPT ![fd] = c]
  /\ queued' = queued \ {c}
  /\ ready' = ready \ {serv_sock}
  /\ i' = serv_sock
  /\ UNCHANGED <<link, asked, listening, ppc, vectors, dataArray, pipes,
                 child, reply>>

ReadEnd(fd) ==
  /\ Turn(fd) /\ fd # serv_sock /\ link[files[fd]] \in {"eof", "broken"}
  /\ files' = [files EXCEPT ![fd] = None]
  /\ ready' = ready \ {fd}
  /\ i' = fd
  /\ UNCHANGED <<netvars, listening, ppc, vectors, dataArray, pipes, child,
                 reply>>

\* readv() on a socket in the state before; it finds or leaves the other.
Reads(fd, before, after) ==
  /\ Turn(fd) /\ fd # serv_sock /\ link[files[fd]] = before
  /\ link' = [link EXCEPT ![files[fd]] = after]
  /\ ready' = ready \ {fd}
  /\ i' = fd
  /\ UNCHANGED <<asked, queued, sockets, dataArray, pipes, child, reply>>

\* readv() fills mode, id and result as far as the request goes; what it
\* does not fill keeps its old contents.
ReadRequest(fd) ==
  /\ Reads(fd, "sent", "read")
  /\ LET r == asked[files[fd]]
     IN /\ mode' = r.mode /\ ppc' = r.mode
        /\ id' = IF r.mode = "quit" THEN id ELSE r.id
        /\ result' = IF r.mode = "save" THEN files[fd] ELSE result

\* The request has been split, and readv() returns before all of it is there:
\* after the mode, with an id that is partly an earlier one, or after the id,
\* with what an earlier save left in result or a mixture of the two.  The
\* rest is still unread when the socket is closed.
ReadPart(fd) ==
  /\ files[fd] \in Splits /\ Reads(fd, "sent", "read")
  /\ LET r == asked[files[fd]]
     IN /\ r.mode # "quit"
        /\ mode' = r.mode /\ ppc' = r.mode
        /\ \/ /\ id' \in AnyId /\ (id = r.id => id' = id)
              /\ result' = result
           \/ /\ r.mode = "save" /\ id' = r.id
              /\ result' \in {result, None}

\* It returns within the mode: what is in mode then is no mode at all, unless
\* it was the same mode before (ReadPart).  The socket stays open.
ReadTorn(fd) ==
  /\ files[fd] \in Splits /\ Reads(fd, "sent", "torn")
  /\ mode # asked[files[fd]].mode
  /\ mode' = "other"
  /\ UNCHANGED <<ppc, id, result>>

\* The rest of it is taken for a request, and begins with no mode.  The client
\* has nothing more to send, and waits.
ReadRest(fd) ==
  /\ Reads(fd, "torn", "read")
  /\ mode' = "other"
  /\ LET m == asked[files[fd]].mode
     IN /\ id' \in IF m = "quit" THEN {id} ELSE AnyId
        /\ result' = IF m = "save" THEN None ELSE result
  /\ UNCHANGED ppc

\* Variant: mode_check's last alternative is taken without a comparison.
ReadErrorAnyMode(fd) ==
  /\ Reads(fd, "reset", "broken")
  /\ ppc' = mode
  /\ UNCHANGED vectors

\* readv() returned -1: only 0 is taken for the end, so mode_check runs on
\* what an earlier request left in the buffers.
ReadError(fd) ==
  /\ Reads(fd, "reset", "broken")
  /\ ppc' = IF mode \in {"", "other"} THEN "scan" ELSE mode
  /\ UNCHANGED vectors

-----------------------------------------------------------------------------
(* The parent's mode_check(). *)

\* write(i, ...), as far as the client at the other end is concerned.
AnswerTo(fd, a) == /\ link[files[fd]] # "broken"
                   /\ reply' = [reply EXCEPT ![files[fd]] = a]

\* Once readv() has returned the error of the socket, write(i, ...) raises
\* SIGPIPE, which nobody handles or ignores: the parent ends in the middle of
\* the request.  The child knows nothing of it: it holds the other ends of
\* its pipes itself, and serv_sock, so clients can still connect.
Sigpipe ==
  /\ \/ ppc = "saveReply" /\ UNCHANGED fdsB
     \/ ppc = "loadWait" /\ fdsB # <<>> /\ fdsB' = Tail(fdsB)
  /\ link[files[i]] = "broken"
  /\ ppc' = "killed"
  /\ files' = [fd \in Fds |-> None]
  /\ ready' = {}
  /\ UNCHANGED <<netvars, listening, i, vectors, dataArray, fdsA, child,
                 reply>>

\* close(i) without a write: the client reads the end.
Close(fd) == reply' = [reply EXCEPT ![files[fd]] = <<"closed">>]

\* write(fdsA[1], ...) blocks while the pipe is full.
Tell(msg) == Len(fdsA) < PipeMax /\ fdsA' = Append(fdsA, msg)

SaveMode ==
  /\ ppc = "save" /\ Tell(<<"mode", "save">>)
  /\ ppc' = "saveReply"
  /\ UNCHANGED <<netvars, sockets, ready, i, vectors, dataArray, fdsB, child,
                 reply>>

SaveReply ==
  /\ ppc = "saveReply"
  /\ AnswerTo(i, <<"result", result>>)
  /\ ppc' = "saveRecord"
  /\ UNCHANGED <<netvars, sockets, ready, i, vectors, dataArray, pipes, child>>

\* Nothing compares cnt with DATA_MAX: one record too many is written behind
\* the array.  What follows is undefined and not modelled.
SaveRecord ==
  /\ ppc = "saveRecord"
  /\ IF Len(dataArray) = DATA_MAX
     THEN /\ ppc' = "overrun"
          /\ UNCHANGED <<dataArray, fdsA, files>>
     ELSE LET r == [id |-> id, req |-> result] IN
          /\ Tell(<<"record", r>>)
          /\ dataArray' = Append(dataArray, r)
          /\ files' = [files EXCEPT ![i] = None]
          /\ ppc' = "scan"
  /\ UNCHANGED <<netvars, listening, ready, i, vectors, fdsB, child, reply>>

LoadMode ==
  /\ ppc = "load" /\ Tell(<<"mode", "load">>)
  /\ ppc' = "loadId"
  /\ UNCHANGED <<netvars, sockets, ready, i, vectors, dataArray, fdsB, child,
                 reply>>

\* Variants: the parent sends the mode again instead of the id; or does not
\* wait for the answer.
LoadIdAsMode ==
  /\ ppc = "loadId" /\ Tell(<<"mode", mode>>)
  /\ ppc' = "loadWait"
  /\ UNCHANGED <<netvars, sockets, ready, i, vectors, dataArray, fdsB, child,
                 reply>>
LoadIdNoWait ==
  /\ ppc = "loadId" /\ Tell(<<"id", id>>)
  /\ files' = [files EXCEPT ![i] = None]
  /\ ppc' = "scan"
  /\ UNCHANGED <<netvars, listening, ready, i, vectors, dataArray, fdsB,
                 child, reply>>

LoadId ==
  /\ ppc = "loadId" /\ Tell(<<"id", id>>)
  /\ ppc' = "loadWait"
  /\ UNCHANGED <<netvars, sockets, ready, i, vectors, dataArray, fdsB, child,
                 reply>>

\* read(fdsB[0], ...) blocks until the child has written; the parent holds
\* fdsB[1] itself, so the end of the child does not wake it up.
LoadReply ==
  /\ ppc = "loadWait" /\ fdsB # <<>>
  /\ AnswerTo(i, <<"found", Head(fdsB)>>)
  /\ fdsB' = Tail(fdsB)
  /\ files' = [files EXCEPT ![i] = None]
  /\ ppc' = "scan"
  /\ UNCHANGED <<netvars, listening, ready, i, vectors, dataArray, fdsA,
                 child>>

\* SIGCHLD came while the parent was blocked in that read(): it returns -1,
\* and the client's connection is closed without an answer.  A write of -1
\* bytes is refused, and raises no signal.
LoadInterrupted ==
  /\ ppc = "loadEINTR"
  /\ Close(i)
  /\ files' = [files EXCEPT ![i] = None]
  /\ ppc' = "scan"
  /\ UNCHANGED <<netvars, listening, ready, i, vectors, dataArray, pipes,
                 child>>

Quit ==
  /\ ppc = "quit" /\ Tell(<<"mode", "quit">>)
  /\ Close(i)
  /\ files' = [files EXCEPT ![i] = None]
  /\ listening' = FALSE
  /\ ppc' = "scan"
  /\ UNCHANGED <<netvars, ready, i, vectors, dataArray, fdsB, child>>

mode_check == \/ SaveMode \/ SaveReply \/ SaveRecord
              \/ LoadMode \/ LoadId \/ LoadReply \/ LoadInterrupted \/ Quit
              \/ Sigpipe

Parent == \/ Select \/ SelectFails \/ ScanEnd
          \/ \E c \in Conns : Accept(c)
          \/ \E fd \in Fds : \/ ReadEnd(fd) \/ ReadRequest(fd) \/ ReadPart(fd)
                            \/ ReadTorn(fd) \/ ReadRest(fd) \/ ReadError(fd)
          \/ mode_check

-----------------------------------------------------------------------------
(* The child: store_loop(). *)

parent == <<netvars, sockets, ready, i, vectors, dataArray, reply>>

StoreMode ==
  /\ cpc = "mode" /\ fdsA # <<>>
  /\ \E m \in {"save", "load"} :
       /\ Head(fdsA) = <<"mode", m>>
       /\ cpc' = IF m = "save" THEN "record" ELSE "id"
  /\ fdsA' = Tail(fdsA)
  /\ UNCHANGED <<parent, ppc, fdsB, store>>

\* Variant: the child forgets cnt++.
StoreRecordInPlace ==
  /\ cpc = "record" /\ fdsA # <<>> /\ Head(fdsA)[1] = "record"
  /\ store' = <<Head(fdsA)[2]>>
  /\ fdsA' = Tail(fdsA)
  /\ cpc' = "mode"
  /\ UNCHANGED <<parent, ppc, fdsB>>

StoreRecord ==
  /\ cpc = "record" /\ fdsA # <<>> /\ Head(fdsA)[1] = "record"
  /\ store' = Append(store, Head(fdsA)[2])
  /\ fdsA' = Tail(fdsA)
  /\ cpc' = "mode"
  /\ UNCHANGED <<parent, ppc, fdsB>>

\* Variant: strcmp()'s result taken the wrong way round.
FoundOthers(s, x) == SelectSeq(s, LAMBDA r : r.id # x)

Found(s, x) == SelectSeq(s, LAMBDA r : r.id = x)

\* The records of one id are concatenated in result[BUF_SIZE] unchecked.
StoreLoad ==
  /\ cpc = "id" /\ fdsA # <<>> /\ Head(fdsA)[1] = "id"
  /\ LET found == Found(store, Head(fdsA)[2]) IN
       IF Len(found) > ResultMax
       THEN cpc' = "overrun" /\ UNCHANGED fdsB
       ELSE cpc' = "mode" /\ fdsB' = Append(fdsB, found)
  /\ fdsA' = Tail(fdsA)
  /\ UNCHANGED <<parent, ppc, store>>

\* The child returns; SIGCHLD interrupts the parent if it is blocked in the
\* read() of a load, and is lost on it if it has not got there yet.
StoreQuit ==
  /\ cpc = "mode" /\ fdsA # <<>> /\ Head(fdsA) = <<"mode", "quit">>
  /\ fdsA' = Tail(fdsA)
  /\ cpc' = "exited"
  /\ ppc' \in {ppc} \cup IF ppc = "loadWait" /\ fdsB = <<>>
                         THEN {"loadEINTR"} ELSE {}
  /\ UNCHANGED <<parent, fdsB, store>>

store_loop == StoreMode \/ StoreRecord \/ StoreLoad \/ StoreQuit

-----------------------------------------------------------------------------
Overrun == ppc = "overrun" \/ cpc = "overrun"

\* Nothing left to do: every connection made was served and closed, or the
\* parent has ended, or memory is overrun.
Finished ==
  /\ \/ Overrun
     \/ ppc \in {"exited", "killed"} /\ \A c \in Conns : link[c] # "open"
     \/ ppc = "select" /\ \A c \in Conns : link[c] # "idle"
                       /\ \A fd \in Fds : files[fd] = None
                       /\ queued = {} /\ fdsA = <<>>
  /\ UNCHANGED vars

Next == Parent \/ store_loop \/ (\E c \in Conns : Client(c)) \/ Finished

Spec == Init /\ [][Next]_vars

\* Both processes are scheduled; nothing is assumed of the clients.
FairSpec == Spec /\ WF_vars(Parent) /\ WF_vars(store_loop)

-----------------------------------------------------------------------------
(* Safety. *)

Writes == {<<"mode", m>> : m \in {"save", "load", "quit"}}
            \cup {<<"record", r>> : r \in Records}
            \cup {<<"id", x>> : x \in AnyId}

\* A client's connection: not made, made, with a request sent, with that
\* read, with part of it read; closed by the client; reset, and seen to be.
Links == {"idle", "open", "sent", "read", "torn", "eof", "reset", "broken"}

TypeOK ==
  /\ link \in [Conns -> Links]
  /\ asked \in [Conns -> Requests \cup {None}]
  /\ queued \subseteq Conns
  /\ files \in [Fds -> Conns \cup {None}]
  /\ listening \in BOOLEAN
  /\ ready \subseteq Fds \cup {serv_sock}
  /\ ppc \in {"select", "scan", "save", "saveReply", "saveRecord", "load",
              "loadId", "loadWait", "loadEINTR", "quit", "exited", "killed",
              "overrun"}
  /\ i \in Fds \cup {serv_sock}
  /\ mode \in {"", "save", "load", "quit", "other"}
  /\ id \in AnyId /\ result \in Conns \cup {None}
  /\ dataArray \in Seq(Records) /\ Len(dataArray) <= DATA_MAX
  /\ fdsA \in Seq(Writes) /\ Len(fdsA) <= PipeMax
  /\ fdsB \in Seq({Found(store, x) : x \in AnyId})
  /\ cpc \in {"mode", "record", "id", "exited", "overrun"}
  /\ store \in Seq(Records)

Kind(w) == w[1]
Body(w) == w[2]

\* What the child reads after the write w.
Follows(w) == IF w = <<"mode", "save">> THEN "record"
              ELSE IF w = <<"mode", "load">> THEN "id" ELSE "mode"

\* What is in fdsA is what the child is about to read, item by item: after
\* the mode "save" a record, after "load" an id, after anything else a mode.
\* Otherwise the child would take the bytes of a record for a mode.
PipeIsFramed ==
  /\ fdsA # <<>> /\ cpc \in {"mode", "record", "id"} => Kind(fdsA[1]) = cpc
  /\ \A n \in 1 .. Len(fdsA) - 1 : Kind(fdsA[n + 1]) = Follows(fdsA[n])

\* st is the beginning of data, and the rest of data is what the records in
\* the pipe are, in their order; at says where each of them is.
OnTheWay(at, data, st, pipe) ==
  /\ \A n \in DOMAIN at : /\ Kind(pipe[at[n]]) = "record"
                          /\ Body(pipe[at[n]]) = data[Len(st) + n]
  /\ \A m, n \in DOMAIN at : m < n => at[m] < at[n]
  /\ \A n \in 1 .. Len(pipe) :
       Kind(pipe[n]) = "record" => \E m \in DOMAIN at : at[m] = n

Agree(data, st, pipe) ==
  /\ Len(st) <= Len(data)
  /\ \A n \in 1 .. Len(st) : st[n] = data[n]
  /\ \E at \in [1 .. Len(data) - Len(st) -> 1 .. Len(pipe)] :
       OnTheWay(at, data, st, pipe)

\* The child's records, followed by those on their way in fdsA, are exactly
\* the parent's: the two copies of dataArray never diverge.
CopiesAgree == Agree(dataArray, store, fdsA)

\* fdsB holds an answer only while the parent waits for that very load, so
\* no answer is ever left for the next load to pick up.
AnswerIsAwaited ==
  fdsB # <<>> => ppc = "loadWait" /\ Len(fdsB) = 1 /\ fdsA = <<>>

\* Clients see one log: a save is answered with its own result, and a load
\* with all records of its id saved so far, in order.  The save counts when
\* its record is in dataArray, just after its answer.
Log == INSTANCE RecordStore WITH
  log   <- dataArray,
  reply <- [c \in Conns |-> IF ppc \in {"saveRecord", "overrun"}
                               /\ files[i] = c THEN None ELSE reply[c]],
  quit  <- ~ listening

ImplementsLog == Log!Spec

-----------------------------------------------------------------------------
(* Progress. *)

\* A request found a reset connection before it, and the mode of a save or a
\* load still in the buffer.
KilledByReset == ppc = "killed" /\ \E d \in Conns : link[d] = "broken"

\* Every request is answered or its connection closed, as long as nobody asks
\* the server to quit, unless its own connection is reset or its bytes are cut
\* within the mode, or another client's reset has killed the parent.
RequestsAnswered ==
  \A c \in Conns :
    link[c] = "sent" ~> \/ reply[c] # None \/ ~ listening \/ Overrun
                        \/ link[c] \in {"torn", "reset", "broken"}
                        \/ KilledByReset

\* "read the result string from the child process" (line 172): the parent's
\* read() returns.
LoadReturns == ppc = "loadWait" ~> ppc # "loadWait" \/ Overrun
=============================================================================
