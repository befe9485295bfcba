------------------------------ MODULE TestServ ------------------------------
(***************************************************************************)
(* HW8/2020115885/test_serv.c: the broadcast server whose main gives each  *)
(* handler a descriptor of its own on the heap, and whose handlers take    *)
(* their descriptor out of the table before they close it.                 *)
(***************************************************************************)
EXTENDS ThreadServ

\* Variant, hw8_server.c's form: the handler gets the address of main's
\* variable, and copies it when it starts.
CreateShared ==
  /\ fate = "running" /\ mpc = "create"
  /\ pc' = [pc EXCEPT ![cur] = "start"]
  /\ mpc' = "accept" /\ cur' = None
  /\ UNCHANGED <<table, mutx, clnt_sock, sock, req, idx, net, fate, prog>>

Create ==
  /\ fate = "running" /\ mpc = "create"
  /\ sock' = [sock EXCEPT ![cur] = clnt_sock]
  /\ pc' = [pc EXCEPT ![cur] = "start"]
  /\ mpc' = "accept" /\ cur' = None
  /\ UNCHANGED <<table, mutx, clnt_sock, req, idx, net, fate, prog>>

Start(t) ==
  /\ fate = "running" /\ pc[t] = "start"
  /\ pc' = [pc EXCEPT ![t] = "read"]
  /\ UNCHANGED <<table, mutx, main, sock, req, idx, net, fate, prog>>

\* calculate() returned -99999: a count of 0 or above 127, or a calculation with
\* that very result.  The handler tells its client, outside the mutex, and
\* gives the connection up.  This write() blocks and fills the buffer like
\* those of a broadcast.
Reject(t) ==
  /\ fate = "running" /\ pc[t] = "lock"
  /\ LET c == files[sock[t]] IN
       /\ peer[c] # "stalled"
       /\ \E p \in IF Gone(c) THEN {"reset"} ELSE {"up", "stalled"} :
            peer' = [peer EXCEPT ![c] = p]
  /\ pc' = [pc EXCEPT ![t] = "remove"]
  /\ UNCHANGED <<table, mutx, main, sock, req, idx, files, queued, sent,
                 taken, stream, fate, prog>>

RejectKilled(t) ==
  /\ fate = "running" /\ pc[t] = "lock" /\ peer[files[sock[t]]] = "reset"
  /\ fate' = "sigpipe"
  /\ UNCHANGED <<table, mutx, main, local, net, prog>>

\* clnt_socks without its entry i.
Without(i) == [j \in Slots |-> IF j \in i .. clnt_cnt - 2
                               THEN clnt_socks[j + 1] ELSE clnt_socks[j]]
\* The shift of hw8_server.c, which starts one entry too late.
WithoutNext(i) == [j \in Slots |-> IF j \in i + 1 .. clnt_cnt - 2
                                   THEN clnt_socks[j + 1] ELSE clnt_socks[j]]

FirstEntry(fd) == {i \in 0 .. clnt_cnt - 1 :
                     /\ clnt_socks[i] = fd
                     /\ \A j \in 0 .. i - 1 : clnt_socks[j] # fd}

\* Variants: the faulty shift; and a cleanup that falls back into the loop.
RemoveWrong(t) ==
  /\ fate = "running" /\ pc[t] = "remove" /\ mutx = None
  /\ \/ \E i \in FirstEntry(sock[t]) : /\ clnt_socks' = WithoutNext(i)
                                       /\ clnt_cnt' = clnt_cnt - 1
     \/ FirstEntry(sock[t]) = {} /\ UNCHANGED table
  /\ pc' = [pc EXCEPT ![t] = "close"]
  /\ UNCHANGED <<mutx, main, sock, req, idx, net, fate, prog>>

RemoveAndReadOn(t) ==
  /\ fate = "running" /\ pc[t] = "remove" /\ mutx = None
  /\ \/ \E i \in FirstEntry(sock[t]) : /\ clnt_socks' = Without(i)
                                       /\ clnt_cnt' = clnt_cnt - 1
     \/ FirstEntry(sock[t]) = {} /\ UNCHANGED table
  /\ pc' = [pc EXCEPT ![t] = "read"]
  /\ UNCHANGED <<mutx, main, sock, req, idx, net, fate, prog>>

Remove(t) ==
  /\ fate = "running" /\ pc[t] = "remove" /\ mutx = None
  /\ \E i \in FirstEntry(sock[t]) : /\ clnt_socks' = Without(i)
                                    /\ clnt_cnt' = clnt_cnt - 1
  /\ pc' = [pc EXCEPT ![t] = "close"]
  /\ UNCHANGED <<mutx, main, sock, req, idx, net, fate, prog>>

Main == (\E c \in Conns : Accept(c)) \/ AppendEntry \/ AppendBeyond \/ Create

Handler(t) == \/ Start(t) \/ ReadRequest(t) \/ ReadEnd(t)
              \/ Reject(t) \/ RejectKilled(t)
              \/ Lock(t) \/ WriteOne(t) \/ Sigpipe(t) \/ Unlock(t)
              \/ Remove(t) \/ Close(t)

Next == \/ Main
        \/ \E c \in Conns : Client(c) \/ Handler(c)
        \/ Finished

TestInit == Init /\ prog = "test_serv"

Spec == TestInit /\ [][Next]_vars

-----------------------------------------------------------------------------
(* Safety. *)

\* Every handler that has started reads and writes the descriptor of the
\* connection it was created for, and nobody else's (lines 64-74).
HandlerOwnsItsConnection ==
  \A c \in Conns :
    pc[c] \in {"start", "read", "lock", "send", "remove", "close"}
      => sock[c] \in Fds /\ files[sock[c]] = c

\* The table lists exactly the connections between their append and their
\* removal, each once, by a descriptor that is still open: no broadcast is
\* written to a closed or reused descriptor and none misses a connected
\* client (lines 56-58 and 115-124).
TableIsTheConnected ==
  fate # "overrun" =>
    /\ \A i \in 0 .. clnt_cnt - 1 :
         /\ clnt_socks[i] \in Fds
         /\ \E c \in Conns : files[clnt_socks[i]] = c /\ Registered(c)
    /\ \A i, j \in 0 .. clnt_cnt - 1 : clnt_socks[i] = clnt_socks[j] => i = j
    /\ \A c \in Conns : Registered(c) =>
         \E i \in 0 .. clnt_cnt - 1 : files[clnt_socks[i]] = c

\* Nobody but the handler that is broadcasting holds the mutex.
MutexHolderSends == \A t \in Conns : pc[t] = "send" <=> mutx = t

\* Descriptors, main's local and the accept queue account for every connection
\* once: an open descriptor is the only one of its connection; a connection
\* not yet accepted has none and no thread; the one main has just accepted has
\* one and no thread yet.
DescriptorsAccountedFor ==
  /\ \A f, g \in Fds : files[f] = files[g] /\ files[f] # None => f = g
  /\ \A c \in Conns :
       peer[c] = "idle" \/ c \in queued =>
         pc[c] = "none" /\ cur # c /\ \A fd \in Fds : files[fd] # c
  /\ queued \cap {c \in Conns : peer[c] = "idle"} = {}
  /\ IF mpc = "accept" THEN cur = None
     ELSE /\ cur \in Conns /\ pc[cur] = "none"
          /\ clnt_sock \in Fds /\ files[clnt_sock] = cur

\* A handler on its way to a broadcast holds the last request read from its
\* own client, and no other handler holds one.
RequestInHand ==
  \A t \in Conns :
    /\ pc[t] \in {"lock", "send"} => req[t] = <<t, taken[t]>> /\ taken[t] > 0
    /\ pc[t] \in {"none", "start", "read"} => req[t] = None

WithinTable == fate # "overrun" => clnt_cnt <= MAX_CLNT

\* The inductive invariant: what the table lists depends on who owns which
\* descriptor at every moment between accept() and close().
IInv == /\ TypeOK
        /\ WithinTable
        /\ DescriptorsAccountedFor
        /\ HandlerOwnsItsConnection
        /\ RequestInHand
        /\ TableIsTheConnected
        /\ MutexHolderSends

-----------------------------------------------------------------------------
(* The server implements the abstract group.  A broadcast takes effect when *)
(* the handler releases the mutex, so the part of one that is already       *)
(* written is not yet in the abstract view; a kill makes it visible.        *)

EndsWith(c, m) == stream[c] # <<>> /\ stream[c][Len(stream[c])] = m

HeldBack(c) == fate = "running" /\ mutx # None /\ EndsWith(c, req[mutx])

Member(c) == CASE Registered(c) -> "in"
               [] pc[c] \in {"close", "done"} -> "left"
               [] OTHER -> "out"

\* The results of its requests a connection has caused, those of a broadcast
\* that is still going on not counted.
Casts(c) == IF req[c] = None THEN taken[c] ELSE taken[c] - 1

Group == INSTANCE BroadcastGroup WITH
  member <- [c \in Conns |-> Member(c)],
  gone   <- {c \in Conns : Gone(c)},
  casts  <- [c \in Conns |-> Casts(c)],
  view   <- [c \in Conns |-> IF HeldBack(c)
                             THEN SubSeq(stream[c], 1, Len(stream[c]) - 1)
                             ELSE stream[c]],
  ended  <- fate # "running"

\* What the refinement rests on: the broadcast in progress is the last entry
\* of exactly the streams its loop has passed, hung up clients excepted, and
\* every other stream ends with a result of an earlier broadcast.
Passed(c) == \E i \in 0 .. clnt_cnt - 1 :
               i < idx /\ files[clnt_socks[i]] = c

InTransit ==
  fate = "running" =>
    /\ \A c, d \in Conns : \A k \in 1 .. MaxReq :
         EndsWith(c, <<d, k>>) /\ ~ HeldBack(c) => k <= Casts(d)
    /\ mutx # None =>
         \A c \in Conns : /\ Passed(c) => HeldBack(c) \/ Gone(c)
                          /\ HeldBack(c) => Passed(c)

FullInv == IInv /\ InTransit

\* Clients see the group: results reach all connected members, once, in one
\* order, each client's own in the order it asked.
ImplementsGroup == Group!Spec

-----------------------------------------------------------------------------
(* Progress.  The scheduler runs every thread; a client that is alive goes  *)
(* on reading what it is sent.                                              *)
FairSpec == /\ Spec
            /\ WF_vars(Main)
            /\ \A c \in Conns : WF_vars(Handler(c)) /\ WF_vars(Drain(c))

\* A client's request is eventually broadcast, unless the client hangs up,
\* its connection is given up, or the server ends.
RequestsAnswered ==
  \A c \in Conns : \A k \in 1 .. MaxReq :
    peer[c] = "up" /\ sent[c] >= k
      ~> \/ \E i \in DOMAIN stream[c] : stream[c][i] = <<c, k>>
         \/ Gone(c) \/ pc[c] = "done" \/ fate # "running"

\* A client that has hung up is eventually out of the table, its descriptor
\* closed and its thread ended, unless the server ends first.
GoneAreCollected ==
  \A c \in Conns :
    Gone(c) ~> pc[c] = "done" \/ fate # "running"
=============================================================================
