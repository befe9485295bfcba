--------------------------- MODULE TestServProofs ---------------------------
(***************************************************************************)
(* The invariant IInv of TestServ is inductive, for every set of           *)
(* connections and descriptors and every table size.  One lemma per action *)
(* that changes the table, the descriptors or who is registered; the other *)
(* actions move one thread or one client.                                  *)
(***************************************************************************)
EXTENDS TestServ, TLAPS

\* No client, no handler and an empty table.
LEMMA InitIInv == Init => IInv
  BY FdsAssumption, SizeAssumption, NoneAssumption, SMT
  DEF Init, IInv, TypeOK, WithinTable, DescriptorsAccountedFor,
      HandlerOwnsItsConnection, RequestInHand, TableIsTheConnected,
      MutexHolderSends, Registered, Slots, PeerStates, Requests

\* Clients connect, send requests, read or stop reading, and leave.
LEMMA ClientPreserves ==
  ASSUME IInv, NEW c \in Conns, Client(c)
  PROVE  IInv'
<1> USE NoneAssumption, SizeAssumption, FdsAssumption
<1>1. TypeOK'
  <2>1. CASE Connect(c)
    BY <2>1, SMT DEF IInv, TypeOK, Connect, PeerStates, table, main, local
  <2>2. CASE SendRequest(c)
    BY <2>2, SMTT(20) DEF IInv, TypeOK, SendRequest, table, main, local
  <2>3. CASE Drain(c)
    BY <2>3, SMT DEF IInv, TypeOK, Drain, PeerStates, table, main, local
  <2>4. CASE Exit(c)
    BY <2>4, SMT DEF IInv, TypeOK, Exit, PeerStates, table, main, local
  <2> QED BY <2>1, <2>2, <2>3, <2>4 DEF Client
<1>2. WithinTable'
  BY SMT DEF IInv, WithinTable, Client, Connect, SendRequest, Drain, Exit,
     table
<1>3. DescriptorsAccountedFor'
  BY SMTT(20) DEF IInv, TypeOK, DescriptorsAccountedFor, Client, Connect,
     SendRequest, Drain, Exit, main, local, PeerStates
<1>4. HandlerOwnsItsConnection'
  BY SMT DEF IInv, HandlerOwnsItsConnection, Client, Connect, SendRequest,
     Drain, Exit, local
<1>5. TableIsTheConnected'
  BY SMT DEF IInv, TableIsTheConnected, Registered, Client, Connect,
     SendRequest, Drain, Exit, local, table, main
<1>6. MutexHolderSends'
  BY SMT DEF IInv, MutexHolderSends, Client, Connect, SendRequest, Drain,
     Exit, local
<1>7. RequestInHand'
  BY SMT DEF IInv, RequestInHand, Client, Connect, SendRequest, Drain, Exit,
     local
<1> QED BY <1>1, <1>2, <1>3, <1>4, <1>5, <1>6, <1>7 DEF IInv

\* accept() hands out a descriptor that refers to nothing else.
LEMMA AcceptPreserves ==
  ASSUME IInv, NEW c \in Conns, Accept(c)
  PROVE  IInv'
<1> USE NoneAssumption, SizeAssumption, FdsAssumption
<1>1. PICK fd \in Fds : /\ files[fd] = None
                        /\ files' = [files EXCEPT ![fd] = c]
                        /\ clnt_sock' = fd
  BY DEF Accept
<1>2. TypeOK'
  BY <1>1, SMT DEF IInv, TypeOK, Accept, table, local
<1>3. WithinTable'
  BY SMT DEF IInv, WithinTable, Accept, table
<1>4. DescriptorsAccountedFor'
  BY <1>1, SMT DEF IInv, TypeOK, DescriptorsAccountedFor, Accept, local
<1>5. HandlerOwnsItsConnection'
  BY <1>1, SMT DEF IInv, TypeOK, HandlerOwnsItsConnection, Accept, local
<1>6. TableIsTheConnected'
  <2>1. \A d \in Conns : Registered(d)' = Registered(d)
    BY SMT DEF Registered, Accept, local
  <2>2. \A f \in Fds : files[f] # None => files'[f] = files[f]
    BY <1>1, SMT DEF IInv, TypeOK
  <2>3. fate = "running" /\ UNCHANGED <<clnt_socks, clnt_cnt, fate>>
    BY SMT DEF Accept, table
  <2>4. \A i \in 0 .. clnt_cnt - 1 :
          clnt_socks[i] \in Fds /\ files[clnt_socks[i]] # None
    BY <2>3, SMT DEF IInv, TableIsTheConnected
  <2>5. \A i \in 0 .. clnt_cnt - 1 :
          files'[clnt_socks[i]] = files[clnt_socks[i]]
    BY <2>2, <2>4
  <2>6. TableIsTheConnected
    BY DEF IInv
  <2> QED BY <2>1, <2>3, <2>5, <2>6 DEF TableIsTheConnected
<1>7. MutexHolderSends'
  BY SMT DEF IInv, MutexHolderSends, Accept, local
<1>8. RequestInHand'
  BY SMT DEF IInv, RequestInHand, Accept, local
<1> QED BY <1>2, <1>3, <1>4, <1>5, <1>6, <1>7, <1>8 DEF IInv

\* main() appends the new descriptor, or runs over the end of the table.
LEMMA AppendPreserves ==
  ASSUME IInv, AppendEntry \/ AppendBeyond
  PROVE  IInv'
<1> USE NoneAssumption, SizeAssumption, FdsAssumption
<1>1. TypeOK'
  BY SMT DEF IInv, TypeOK, AppendEntry, AppendBeyond, Slots, table, local,
     main, net
<1>2. WithinTable'
  BY SMT DEF IInv, TypeOK, WithinTable, AppendEntry, AppendBeyond
<1>3. DescriptorsAccountedFor'
  BY SMT DEF IInv, DescriptorsAccountedFor, AppendEntry, AppendBeyond, local,
     main, net
<1>4. HandlerOwnsItsConnection'
  BY SMT DEF IInv, HandlerOwnsItsConnection, AppendEntry, AppendBeyond,
     local, net
<1>5. TableIsTheConnected'
  <2>1. CASE AppendEntry
    <3> USE <2>1
    <3>1. \A i \in 0 .. clnt_cnt - 1 : clnt_socks'[i] = clnt_socks[i]
      BY SMT DEF IInv, TypeOK, AppendEntry, Slots
    <3>2. clnt_cnt' = clnt_cnt + 1 /\ clnt_socks'[clnt_cnt] = clnt_sock
      BY SMT DEF IInv, TypeOK, AppendEntry, Slots
    <3>3. /\ \A c \in Conns : c = cur => ~ Registered(c)
          /\ \A c \in Conns : Registered(c)' <=> Registered(c) \/ c = cur
      BY SMT DEF IInv, DescriptorsAccountedFor, Registered, AppendEntry, local
    <3>4. files' = files /\ files[clnt_sock] = cur /\ clnt_sock \in Fds
          /\ cur \in Conns
      BY SMT DEF IInv, DescriptorsAccountedFor, AppendEntry, net
    <3>5. fate = "running" /\ clnt_cnt \in Nat
      BY SMT DEF IInv, TypeOK, AppendEntry
    <3>6. TableIsTheConnected
      BY DEF IInv
    <3>7. \A i \in 0 .. clnt_cnt' - 1 :
            \/ i \in 0 .. clnt_cnt - 1
            \/ i = clnt_cnt /\ clnt_socks'[i] = clnt_sock
      BY <3>2, <3>5, SMT
    <3>8. \A i \in 0 .. clnt_cnt - 1 : clnt_socks[i] # clnt_sock
      BY <3>3, <3>4, <3>5, <3>6, SMT DEF TableIsTheConnected
    <3>9. \A i \in 0 .. clnt_cnt' - 1 :
            /\ clnt_socks'[i] \in Fds
            /\ \E c \in Conns : files'[clnt_socks'[i]] = c /\ Registered(c)'
      <4> TAKE i \in 0 .. clnt_cnt' - 1
      <4>1. CASE i \in 0 .. clnt_cnt - 1
        <5>1. PICK c \in Conns : files[clnt_socks[i]] = c /\ Registered(c)
          BY <4>1, <3>5, <3>6 DEF TableIsTheConnected
        <5>2. clnt_socks[i] \in Fds /\ clnt_socks'[i] = clnt_socks[i]
          BY <4>1, <3>1, <3>5, <3>6 DEF TableIsTheConnected
        <5> QED BY <5>1, <5>2, <3>3, <3>4
      <4>2. CASE i = clnt_cnt
        BY <4>2, <3>2, <3>3, <3>4
      <4> QED BY <3>7, <4>1, <4>2
    <3>10. \A i, j \in 0 .. clnt_cnt' - 1 :
             clnt_socks'[i] = clnt_socks'[j] => i = j
      BY <3>1, <3>5, <3>6, <3>7, <3>8, SMT DEF TableIsTheConnected
    <3>11. ASSUME NEW c \in Conns, Registered(c)'
           PROVE  \E i \in 0 .. clnt_cnt' - 1 : files'[clnt_socks'[i]] = c
      <4>1. CASE c = cur
        <5>1. clnt_cnt \in 0 .. clnt_cnt' - 1
          BY <3>2, <3>5, SMT
        <5> QED BY <4>1, <5>1, <3>2, <3>4
      <4>2. CASE c # cur
        <5>1. PICK i \in 0 .. clnt_cnt - 1 : files[clnt_socks[i]] = c
          BY <4>2, <3>3, <3>5, <3>6, <3>11 DEF TableIsTheConnected
        <5>2. i \in 0 .. clnt_cnt' - 1
          BY <3>2, <3>5, SMT
        <5> QED BY <5>1, <5>2, <3>1, <3>4
      <4> QED BY <4>1, <4>2
    <3> QED BY <3>9, <3>10, <3>11 DEF TableIsTheConnected
  <2>2. CASE AppendBeyond
    BY <2>2, SMT DEF TableIsTheConnected, AppendBeyond
  <2> QED BY <2>1, <2>2
<1>6. MutexHolderSends'
  BY SMT DEF IInv, MutexHolderSends, AppendEntry, AppendBeyond, local
<1>7. RequestInHand'
  BY SMT DEF IInv, RequestInHand, AppendEntry, AppendBeyond, local, net
<1> QED BY <1>1, <1>2, <1>3, <1>4, <1>5, <1>6, <1>7 DEF IInv

\* The new handler gets the descriptor of its own connection.
LEMMA CreatePreserves ==
  ASSUME IInv, Create
  PROVE  IInv'
<1> USE NoneAssumption, SizeAssumption, FdsAssumption
<1>1. /\ cur \in Conns /\ pc[cur] = "none" /\ fate = "running"
      /\ clnt_sock \in Fds /\ files[clnt_sock] = cur
  BY SMT DEF IInv, DescriptorsAccountedFor, Create
<1>2. TypeOK'
  BY <1>1, SMT DEF IInv, TypeOK, Create, table, net
<1>3. WithinTable'
  BY SMT DEF IInv, WithinTable, Create, table
<1>4. DescriptorsAccountedFor'
  BY <1>1, SMT DEF IInv, TypeOK, DescriptorsAccountedFor, Create, net
<1>5. HandlerOwnsItsConnection'
  BY <1>1, SMT DEF IInv, TypeOK, HandlerOwnsItsConnection, Create, net
<1>6. TableIsTheConnected'
  <2>1. \A c \in Conns : Registered(c)' = Registered(c)
    BY <1>1, SMT DEF IInv, TypeOK, Registered, Create
  <2>2. UNCHANGED <<clnt_socks, clnt_cnt, files, fate>>
    BY DEF Create, table, net
  <2> QED BY <2>1, <2>2, SMT DEF IInv, TableIsTheConnected
<1>7. MutexHolderSends'
  BY <1>1, SMT DEF IInv, TypeOK, MutexHolderSends, Create
<1>8. RequestInHand'
  BY <1>1, SMT DEF IInv, TypeOK, RequestInHand, Create, net
<1> QED BY <1>2, <1>3, <1>4, <1>5, <1>6, <1>7, <1>8 DEF IInv

\* What the steps of a handler between its start and its cleanup have in
\* common: they change neither the table nor a descriptor, and the handler
\* stays registered.
Loop == {"start", "read", "lock", "send", "remove"}
LoopStep(t) == \/ Start(t) \/ ReadRequest(t) \/ ReadEnd(t)
               \/ Reject(t) \/ RejectKilled(t)
               \/ Lock(t) \/ WriteOne(t) \/ Sigpipe(t) \/ Unlock(t)

\* The write of the broadcast loop goes to a client that has connected.
LEMMA WriteTarget ==
  ASSUME IInv, NEW t \in Conns, WriteOne(t)
  PROVE  /\ files[clnt_socks[idx]] \in Conns
         /\ peer[files[clnt_socks[idx]]] # "idle"
<1>1. fate = "running" /\ idx \in 0 .. clnt_cnt - 1
  BY SMT DEF IInv, TypeOK, WriteOne
<1>2. PICK c \in Conns : files[clnt_socks[idx]] = c /\ Registered(c)
  BY <1>1 DEF IInv, TableIsTheConnected
<1>3. peer[c] # "idle"
  BY <1>2, SMT DEF IInv, DescriptorsAccountedFor, Registered
<1> QED BY <1>2, <1>3

\* A rejection tells its client, which reads on, holds it up or has gone.
LEMMA RejectWrites ==
  ASSUME NEW t \in Conns, Reject(t), sock[t] \in Fds, files[sock[t]] = t
  PROVE  \/ Gone(t) /\ peer' = [peer EXCEPT ![t] = "reset"]
         \/ /\ ~ Gone(t)
            /\ \E p \in {"up", "stalled"} : peer' = [peer EXCEPT ![t] = p]
<1>1. \E p \in IF Gone(t) THEN {"reset"} ELSE {"up", "stalled"} :
        peer' = [peer EXCEPT ![t] = p]
  BY DEF Reject
<1> QED BY <1>1

\* The steps of a handler's loop keep the types.
LEMMA LoopStepType ==
  ASSUME IInv, NEW t \in Conns, LoopStep(t)
  PROVE  TypeOK'
<1> USE NoneAssumption, SizeAssumption, FdsAssumption
<1>0. /\ peer \in [Conns -> PeerStates]
      /\ pc \in [Conns -> {"none", "start", "read", "lock", "send", "remove",
                           "close", "done"}]
      /\ taken \in [Conns -> 0 .. MaxReq] /\ sent \in [Conns -> 0 .. MaxReq]
      /\ req \in [Conns -> Requests \cup {None}]
      /\ stream \in [Conns -> Seq(Requests)]
      /\ idx \in 0 .. MAX_CLNT /\ clnt_cnt \in 0 .. MAX_CLNT + 1
  BY DEF IInv, TypeOK
<1>1. CASE Start(t)
  BY <1>1, SMT DEF IInv, TypeOK, Start, table, main, net
<1>2. CASE ReadRequest(t)
  <2>1. PICK c \in Conns : /\ taken[c] < sent[c]
                           /\ taken' = [taken EXCEPT ![c] = @ + 1]
                           /\ req' = [req EXCEPT ![t] = <<c, taken[c] + 1>>]
    BY <1>2 DEF ReadRequest
  <2>2. sent[c] \in 0 .. MaxReq /\ taken[c] \in 0 .. MaxReq
    BY <1>0
  <2>3. taken[c] + 1 \in 1 .. MaxReq /\ taken[c] + 1 \in 0 .. MaxReq
    BY <2>1, <2>2, SMT
  <2>4. <<c, taken[c] + 1>> \in Requests
    BY <2>3 DEF Requests
  <2>5. taken' \in [Conns -> 0 .. MaxReq]
    BY <1>0, <2>1, <2>3
  <2>6. req' \in [Conns -> Requests \cup {None}]
    BY <1>0, <2>1, <2>4
  <2>7. pc' \in [Conns -> {"none", "start", "read", "lock", "send",
                           "remove", "close", "done"}]
    BY <1>0, <1>2 DEF ReadRequest
  <2> QED BY <1>2, <2>5, <2>6, <2>7
          DEF IInv, TypeOK, ReadRequest, table, main
<1>3. CASE ReadEnd(t)
  BY <1>3, SMT DEF IInv, TypeOK, ReadEnd, table, main, net
<1>4. CASE Reject(t)
  <2>1. PICK p \in PeerStates :
          peer' = [peer EXCEPT ![files[sock[t]]] = p]
    BY <1>4 DEF Reject, PeerStates
  <2>2. peer' \in [Conns -> PeerStates]
    BY <1>0, <2>1
  <2>3. pc' \in [Conns -> {"none", "start", "read", "lock", "send",
                           "remove", "close", "done"}]
    BY <1>0, <1>4 DEF Reject
  <2> QED BY <1>4, <2>2, <2>3 DEF IInv, TypeOK, Reject, table, main
<1>5. CASE RejectKilled(t)
  BY <1>5 DEF IInv, TypeOK, RejectKilled, table, main, local, net
<1>6. CASE Sigpipe(t)
  BY <1>6 DEF IInv, TypeOK, Sigpipe, table, main, local, net
<1>7. CASE Lock(t)
  BY <1>7, SMT DEF IInv, TypeOK, Lock, table, main, net
<1>8. CASE WriteOne(t)
  <2> DEFINE c == files[clnt_socks[idx]]
  <2>1. c \in Conns /\ peer[c] # "idle" /\ c # None
    BY <1>8, WriteTarget
  <2>2. peer[c] \in PeerStates
    BY <1>0, <2>1
  <2>3. PICK p \in PeerStates : peer' = [peer EXCEPT ![c] = p]
    <3>1. CASE peer[c] = "up"
      BY <1>8, <2>1, <3>1 DEF WriteOne, PeerStates, Gone
    <3>2. CASE peer[c] = "stalled"
      BY <1>8, <2>1, <3>2 DEF WriteOne, PeerStates, Gone
    <3>3. CASE Gone(c)
      BY <1>8, <2>1, <3>3 DEF WriteOne, PeerStates, Gone
    <3> QED BY <2>1, <2>2, <3>1, <3>2, <3>3 DEF PeerStates, Gone
  <2>4. peer' \in [Conns -> PeerStates]
    BY <1>0, <2>3
  <2>5. req[t] \in Requests
    <3>1. pc[t] = "send"
      BY <1>8 DEF WriteOne
    <3>2. req[t] = <<t, taken[t]>> /\ taken[t] > 0
      BY <3>1 DEF IInv, RequestInHand
    <3>3. taken[t] \in 1 .. MaxReq
      BY <1>0, <3>2
    <3> QED BY <3>2, <3>3 DEF Requests
  <2>6. stream' \in [Conns -> Seq(Requests)]
    <3>1. stream' = stream \/ stream' = [stream EXCEPT ![c] = Append(@, req[t])]
      BY <1>8 DEF WriteOne
    <3>2. Append(stream[c], req[t]) \in Seq(Requests)
      BY <1>0, <2>1, <2>5
    <3> QED BY <1>0, <3>1, <3>2
  <2>7. idx' \in 0 .. MAX_CLNT
    <3>1. fate = "running" /\ idx < clnt_cnt /\ idx' = idx + 1
      BY <1>8 DEF WriteOne
    <3>2. clnt_cnt <= MAX_CLNT
      BY <3>1 DEF IInv, WithinTable
    <3> QED BY <1>0, <3>1, <3>2, SMT
  <2> QED BY <1>8, <2>4, <2>6, <2>7 DEF IInv, TypeOK, WriteOne, table, main
<1>9. CASE Unlock(t)
  BY <1>9, SMT DEF IInv, TypeOK, Unlock, table, main, net
<1> QED BY <1>1, <1>2, <1>3, <1>4, <1>5, <1>6, <1>7, <1>8, <1>9 DEF LoopStep

\* The steps of a handler's loop touch neither table nor descriptors.
LEMMA LoopStepPreserves ==
  ASSUME IInv, NEW t \in Conns, LoopStep(t)
  PROVE  IInv'
<1> USE NoneAssumption, SizeAssumption, FdsAssumption
<1>1. /\ pc[t] \in Loop /\ pc' = [pc EXCEPT ![t] = pc'[t]] /\ pc'[t] \in Loop
      /\ fate = "running"
  BY SMT DEF IInv, TypeOK, Loop, LoopStep, Start, ReadRequest, ReadEnd, Reject,
     RejectKilled, Lock, WriteOne, Sigpipe, Unlock, local
<1>2. UNCHANGED <<table, main, sock, files, queued>>
  BY DEF LoopStep, Start, ReadRequest, ReadEnd, Reject, RejectKilled, Lock,
     WriteOne, Sigpipe, Unlock, net, local
<1>3. TypeOK'
  BY LoopStepType
<1>4. WithinTable'
  BY <1>1, <1>2 DEF IInv, WithinTable, table
<1>5. DescriptorsAccountedFor'
  <2>1. \A c \in Conns : peer'[c] = "idle" <=> peer[c] = "idle"
    <3>1. CASE UNCHANGED peer
      BY <3>1
    <3>2. CASE WriteOne(t)
      <4> DEFINE d == files[clnt_socks[idx]]
      <4>1. d \in Conns /\ peer[d] # "idle" /\ d # None
        BY <3>2, WriteTarget
      <4>2. peer \in [Conns -> PeerStates]
        BY DEF IInv, TypeOK
      <4>3. \E p \in {"up", "stalled", "reset"} : peer' = [peer EXCEPT ![d] = p]
        BY <3>2, <4>1, <4>2, SMT DEF WriteOne, PeerStates, Gone
      <4> QED BY <4>1, <4>2, <4>3
    <3>3. CASE Reject(t)
      <4>1. sock[t] \in Fds /\ files[sock[t]] = t
        BY <1>1 DEF IInv, HandlerOwnsItsConnection, Loop
      <4>2. \E p \in {"up", "stalled", "reset"} : peer' = [peer EXCEPT ![t] = p]
        BY <3>3, <4>1, RejectWrites
      <4>3. peer[t] # "idle" /\ peer \in [Conns -> PeerStates]
        BY <1>1 DEF IInv, TypeOK, DescriptorsAccountedFor, Loop
      <4> QED BY <4>2, <4>3
    <3> QED BY <3>1, <3>2, <3>3 DEF LoopStep, Start, ReadRequest, ReadEnd,
            RejectKilled, Lock, Sigpipe, Unlock, net
  <2> QED BY <1>1, <1>2, <2>1, SMT
          DEF IInv, TypeOK, DescriptorsAccountedFor, main, Loop
<1>6. HandlerOwnsItsConnection'
  BY <1>1, <1>2, SMT DEF IInv, TypeOK, HandlerOwnsItsConnection, Loop
<1>7. TableIsTheConnected'
  <2>1. \A c \in Conns : Registered(c)' = Registered(c)
    BY <1>1, <1>2, SMT DEF IInv, TypeOK, Registered, Loop, main
  <2>2. TableIsTheConnected /\ UNCHANGED <<clnt_socks, clnt_cnt, files>>
    BY <1>2 DEF IInv, table
  <2>3. fate # "overrun"
    BY <1>1
  <2> QED BY <2>1, <2>2, <2>3 DEF TableIsTheConnected
<1>8. MutexHolderSends'
  BY <1>1, SMTT(20) DEF IInv, TypeOK, MutexHolderSends, LoopStep, Start,
     ReadRequest, ReadEnd, Reject, RejectKilled, Lock, WriteOne, Sigpipe,
     Unlock, local
<1>9. RequestInHand'
  <2>1. CASE ReadRequest(t)
    <3>1. sock[t] \in Fds /\ files[sock[t]] = t
      BY <1>1 DEF IInv, HandlerOwnsItsConnection, Loop
    <3>2. /\ taken' = [taken EXCEPT ![t] = @ + 1]
          /\ req' = [req EXCEPT ![t] = <<t, taken[t] + 1>>]
          /\ pc' = [pc EXCEPT ![t] = "lock"]
      BY <2>1, <3>1 DEF ReadRequest
    <3> QED BY <3>2, SMTT(20) DEF IInv, TypeOK, RequestInHand
  <2>2. CASE Unlock(t)
    BY <2>2, SMT DEF IInv, TypeOK, RequestInHand, Unlock, net
  <2>3. CASE ~ ReadRequest(t) /\ ~ Unlock(t)
    <3>1. UNCHANGED <<req, taken>>
      BY <2>3 DEF LoopStep, Start, ReadEnd, Reject, RejectKilled, Lock,
         WriteOne, Sigpipe, net, local
    <3>2. \/ pc' = pc
          \/ pc[t] = "start" /\ pc' = [pc EXCEPT ![t] = "read"]
          \/ pc[t] = "lock" /\ pc' = [pc EXCEPT ![t] = "send"]
          \/ pc' = [pc EXCEPT ![t] = "remove"]
      BY <2>3 DEF LoopStep, Start, ReadEnd, Reject, RejectKilled, Lock,
         WriteOne, Sigpipe, local
    <3> QED BY <3>1, <3>2, SMTT(20) DEF IInv, TypeOK, RequestInHand
  <2> QED BY <2>1, <2>2, <2>3
<1> QED BY <1>3, <1>4, <1>5, <1>6, <1>7, <1>8, <1>9 DEF IInv

\* A handler closes its descriptor after it has unregistered it.
LEMMA ClosePreserves ==
  ASSUME IInv, NEW t \in Conns, Close(t)
  PROVE  IInv'
<1> USE NoneAssumption, SizeAssumption, FdsAssumption
<1>1. /\ fate = "running" /\ pc[t] = "close" /\ pc' = [pc EXCEPT ![t] = "done"]
      /\ sock[t] \in Fds /\ files[sock[t]] = t
      /\ files' = [files EXCEPT ![sock[t]] = None]
      /\ UNCHANGED <<table, mutx, main, sock, req, queued, peer, taken, fate>>
  BY DEF IInv, HandlerOwnsItsConnection, Close
<1>2. TypeOK'
  <2>1. files' \in [Fds -> Conns \cup {None}]
    BY <1>1, SMT DEF IInv, TypeOK
  <2>2. pc' \in [Conns -> {"none", "start", "read", "lock", "send", "remove",
                          "close", "done"}]
    BY <1>1, SMT DEF IInv, TypeOK
  <2> QED BY <2>1, <2>2 DEF IInv, TypeOK, Close, table, main
<1>3. WithinTable'
  BY <1>1 DEF IInv, WithinTable, table
<1>4. DescriptorsAccountedFor'
  BY <1>1, SMT DEF IInv, TypeOK, DescriptorsAccountedFor, main
<1>5. \A c \in Conns : \A fd \in Fds :
        c # t => (files'[fd] = c <=> files[fd] = c)
  BY <1>1, SMT DEF IInv, TypeOK
<1>6. HandlerOwnsItsConnection'
  BY <1>1, <1>5, SMT DEF IInv, TypeOK, HandlerOwnsItsConnection
<1>7. TableIsTheConnected'
  <2>1. ~ Registered(t) /\ \A c \in Conns : Registered(c)' = Registered(c)
    BY <1>1, SMT DEF IInv, TypeOK, DescriptorsAccountedFor, Registered, main
  <2>2. TableIsTheConnected /\ UNCHANGED <<clnt_socks, clnt_cnt>>
    BY <1>1 DEF IInv, table
  <2> QED BY <1>1, <1>5, <2>1, <2>2 DEF TableIsTheConnected
<1>8. MutexHolderSends'
  BY <1>1, SMT DEF IInv, TypeOK, MutexHolderSends
<1>9. RequestInHand'
  BY <1>1, SMT DEF IInv, TypeOK, RequestInHand
<1> QED BY <1>2, <1>3, <1>4, <1>6, <1>7, <1>8, <1>9 DEF IInv

\* Unregistering: the handler takes out its own entry, wherever it is, and
\* the entries behind it move up by one.
LEMMA RemovePreserves ==
  ASSUME IInv, NEW t \in Conns, Remove(t)
  PROVE  IInv'
<1> USE NoneAssumption, SizeAssumption, FdsAssumption
<1>1. /\ fate = "running" /\ pc[t] = "remove" /\ mutx = None
      /\ pc' = [pc EXCEPT ![t] = "close"]
      /\ UNCHANGED <<mutx, main, sock, req, idx, net, fate>>
  BY DEF Remove
<1>2. PICK i \in FirstEntry(sock[t]) : /\ clnt_socks' = Without(i)
                                       /\ clnt_cnt' = clnt_cnt - 1
  BY DEF Remove
<1>3. i \in 0 .. clnt_cnt - 1 /\ clnt_socks[i] = sock[t]
  BY DEF FirstEntry
<1>4. /\ clnt_cnt \in 1 .. MAX_CLNT /\ clnt_cnt' \in 0 .. MAX_CLNT
      /\ clnt_socks \in [Slots -> Fds \cup {0}]
  BY <1>1, <1>2, <1>3, SMT DEF IInv, TypeOK, WithinTable
<1>5. sock[t] \in Fds /\ files[sock[t]] = t
  BY <1>1 DEF IInv, HandlerOwnsItsConnection
<1>6. TypeOK'
  <2>1. clnt_socks' \in [Slots -> Fds \cup {0}]
    BY <1>2, <1>3, <1>4, SMT DEF Without, Slots
  <2>2. pc' \in [Conns -> {"none", "start", "read", "lock", "send", "remove",
                          "close", "done"}]
    BY <1>1, SMT DEF IInv, TypeOK
  <2>3. clnt_cnt' \in 0 .. MAX_CLNT + 1
    BY <1>4, SMT
  <2> QED BY <1>1, <2>1, <2>2, <2>3 DEF IInv, TypeOK, main, net
<1>7. WithinTable'
  BY <1>4, SMT DEF WithinTable
<1>8. DescriptorsAccountedFor'
  BY <1>1, SMT DEF IInv, TypeOK, DescriptorsAccountedFor, main, net
<1>9. HandlerOwnsItsConnection'
  BY <1>1, SMT DEF IInv, TypeOK, HandlerOwnsItsConnection, net
<1>10. TableIsTheConnected'
  <2> DEFINE old(j) == IF j < i THEN j ELSE j + 1
  <2>1. \A j \in 0 .. clnt_cnt' - 1 :
          /\ old(j) \in 0 .. clnt_cnt - 1 /\ old(j) # i
          /\ clnt_socks'[j] = clnt_socks[old(j)]
    BY <1>2, <1>3, <1>4, SMT DEF Without, Slots
  <2> HIDE DEF old
  <2>2. \A j \in 0 .. clnt_cnt - 1 :
          j # i => \E k \in 0 .. clnt_cnt' - 1 : old(k) = j
    <3> TAKE j \in 0 .. clnt_cnt - 1
    <3> HAVE j # i
    <3>1. CASE j < i
      <4>1. j \in 0 .. clnt_cnt' - 1 /\ old(j) = j
        BY <1>2, <1>3, <1>4, <3>1, SMT DEF old
      <4> QED BY <4>1
    <3>2. CASE j > i
      <4>1. j - 1 \in 0 .. clnt_cnt' - 1 /\ old(j - 1) = j
        BY <1>2, <1>3, <1>4, <3>2, SMT DEF old
      <4> QED BY <4>1
    <3>3. j < i \/ j > i
      BY <1>3, <1>4, SMT
    <3> QED BY <3>1, <3>2, <3>3
  <2>3. /\ ~ Registered(t)' /\ Registered(t)
        /\ \A c \in Conns : c # t => Registered(c)' = Registered(c)
    BY <1>1, SMT DEF IInv, TypeOK, DescriptorsAccountedFor, Registered, main
  <2>4. TableIsTheConnected /\ files' = files
    BY <1>1 DEF IInv, net
  <2>5. \A j \in 0 .. clnt_cnt - 1 : j # i => files[clnt_socks[j]] # t
    <3>1. \A f, g \in Fds : files[f] = files[g] /\ files[f] # None => f = g
      BY DEF IInv, DescriptorsAccountedFor
    <3>2. \A j \in 0 .. clnt_cnt - 1 : clnt_socks[j] \in Fds
      BY <1>1, <2>4 DEF TableIsTheConnected
    <3>3. \A j \in 0 .. clnt_cnt - 1 :
            clnt_socks[j] = clnt_socks[i] => j = i
      BY <1>1, <1>3, <2>4 DEF TableIsTheConnected
    <3> QED BY <1>3, <1>5, <3>1, <3>2, <3>3
  <2>6. \A j \in 0 .. clnt_cnt' - 1 :
          /\ clnt_socks'[j] \in Fds
          /\ \E c \in Conns : files'[clnt_socks'[j]] = c /\ Registered(c)'
    <3> TAKE j \in 0 .. clnt_cnt' - 1
    <3>1. PICK c \in Conns : files[clnt_socks[old(j)]] = c /\ Registered(c)
      BY <1>1, <2>1, <2>4 DEF TableIsTheConnected
    <3>2. c # t
      BY <2>1, <2>5, <3>1
    <3>3. clnt_socks[old(j)] \in Fds
      BY <1>1, <2>1, <2>4 DEF TableIsTheConnected
    <3> QED BY <2>1, <2>3, <2>4, <3>1, <3>2, <3>3
  <2>7. \A j, k \in 0 .. clnt_cnt' - 1 :
          clnt_socks'[j] = clnt_socks'[k] => j = k
    <3>1. \A j, k \in 0 .. clnt_cnt' - 1 : old(j) = old(k) => j = k
      BY <1>3, <1>4, SMT DEF old
    <3> QED BY <1>1, <2>1, <2>4, <3>1 DEF TableIsTheConnected
  <2>8. ASSUME NEW c \in Conns, Registered(c)'
        PROVE  \E j \in 0 .. clnt_cnt' - 1 : files'[clnt_socks'[j]] = c
    <3>1. c # t /\ Registered(c)
      BY <2>3, <2>8
    <3>2. PICK j \in 0 .. clnt_cnt - 1 : files[clnt_socks[j]] = c
      BY <1>1, <2>4, <3>1 DEF TableIsTheConnected
    <3>3. j # i
      BY <1>3, <1>5, <3>1, <3>2
    <3> QED BY <2>1, <2>2, <2>4, <3>2, <3>3
  <2> QED BY <2>6, <2>7, <2>8 DEF TableIsTheConnected
<1>11. MutexHolderSends'
  BY <1>1, SMT DEF IInv, TypeOK, MutexHolderSends
<1>12. RequestInHand'
  BY <1>1, SMT DEF IInv, TypeOK, RequestInHand, net
<1> QED BY <1>6, <1>7, <1>8, <1>9, <1>10, <1>11, <1>12 DEF IInv

\* A step that changes nothing.
LEMMA StutterPreserves ==
  ASSUME IInv, UNCHANGED vars
  PROVE  IInv'
<1>1. TypeOK' /\ WithinTable' /\ DescriptorsAccountedFor'
  BY DEF IInv, TypeOK, WithinTable, DescriptorsAccountedFor, vars
<1>2. HandlerOwnsItsConnection' /\ RequestInHand' /\ MutexHolderSends'
  BY DEF IInv, HandlerOwnsItsConnection, RequestInHand, MutexHolderSends, vars
<1>3. TableIsTheConnected'
  BY DEF IInv, TableIsTheConnected, Registered, vars
<1> QED BY <1>1, <1>2, <1>3 DEF IInv

-----------------------------------------------------------------------------

\* Every step keeps the invariant.
LEMMA StepPreserves ==
  ASSUME IInv, [Next]_vars
  PROVE  IInv'
<1>1. CASE Main
  BY <1>1, AcceptPreserves, AppendPreserves, CreatePreserves DEF Main
<1>2. ASSUME NEW c \in Conns, Client(c) PROVE IInv'
  BY <1>2, ClientPreserves
<1>3. ASSUME NEW t \in Conns, Handler(t) PROVE IInv'
  <2>1. CASE LoopStep(t)
    BY <2>1, LoopStepPreserves
  <2>2. CASE Remove(t)
    BY <2>2, RemovePreserves
  <2>3. CASE Close(t)
    BY <2>3, ClosePreserves
  <2> QED BY <1>3, <2>1, <2>2, <2>3 DEF Handler, LoopStep
<1>4. CASE Finished \/ UNCHANGED vars
  BY <1>4, StutterPreserves DEF Finished
<1> QED BY <1>1, <1>2, <1>3, <1>4 DEF Next

\* The invariant holds in every reachable state of the server: types,
\* descriptors, table, mutex and requests in hand are consistent at every
\* step of every handler, for any number of clients.
THEOREM Invariance == Spec => []IInv
<1>1. Init => IInv
  BY InitIInv
<1>2. IInv /\ [Next]_vars => IInv'
  BY StepPreserves
<1> QED BY <1>1, <1>2, PTL DEF Spec, TestInit

\* Type correctness of the server's state.
THEOREM TypeCorrect == Spec => []TypeOK
<1>1. IInv => TypeOK
  BY DEF IInv
<1> QED BY <1>1, Invariance, PTL

\* The table of test_serv.c is exactly the set of connected clients: no
\* broadcast goes to a closed or reused descriptor, none misses a client.
THEOREM TableCorrect == Spec => []TableIsTheConnected
<1>1. IInv => TableIsTheConnected
  BY DEF IInv
<1> QED BY <1>1, Invariance, PTL

\* A handler serves the connection it was created for and no other.
THEOREM OwnershipCorrect == Spec => []HandlerOwnsItsConnection
<1>1. IInv => HandlerOwnsItsConnection
  BY DEF IInv
<1> QED BY <1>1, Invariance, PTL

\* The table does not change while a handler holds the mutex to broadcast.
THEOREM BroadcastSeesOneTable == Spec => StableDuringBroadcast
<1>1. ASSUME [Next]_vars, mutx # None
      PROVE  UNCHANGED table
  <2>1. CASE Main
    BY <1>1, <2>1 DEF Main, Accept, AppendEntry, AppendBeyond, Create, table
  <2>2. ASSUME NEW c \in Conns, Client(c) PROVE UNCHANGED table
    BY <2>2 DEF Client, Connect, SendRequest, Drain, Exit, table
  <2>3. ASSUME NEW t \in Conns, Handler(t) PROVE UNCHANGED table
    BY <1>1, <2>3 DEF Handler, Start, ReadRequest, ReadEnd, Reject,
       RejectKilled, Lock, WriteOne, Sigpipe, Unlock, Remove, Close, table
  <2>4. CASE Finished \/ UNCHANGED vars
    BY <2>4 DEF Finished, vars, table
  <2> QED BY <1>1, <2>1, <2>2, <2>3, <2>4 DEF Next
<1>2. [Next]_vars => [mutx # None => UNCHANGED table]_vars
  BY <1>1
<1> QED BY <1>2, PTL DEF Spec, TestInit, StableDuringBroadcast

-----------------------------------------------------------------------------
(* The server implements the abstract group.  First the steps that leave the *)
(* broadcast in progress alone, then those that are part of one.             *)

\* The abstract view of one connection.
View(c) == IF HeldBack(c) THEN SubSeq(stream[c], 1, Len(stream[c]) - 1)
           ELSE stream[c]

\* A step that leaves the broadcast in progress, if any, alone.
Quiet ==
  /\ UNCHANGED <<mutx, stream, idx, fate>>
  /\ \A c \in Conns : Casts(c)' = Casts(c)
  /\ mutx # None => req'[mutx] = req[mutx]
  /\ \A c \in Conns : Gone(c) => Gone(c)'
  /\ fate = "running" /\ mutx # None =>
       /\ UNCHANGED table
       /\ \A i \in 0 .. clnt_cnt - 1 :
            files'[clnt_socks[i]] = files[clnt_socks[i]]

\* Such a step changes nobody's view.
LEMMA QuietViews ==
  ASSUME Quiet, NEW c \in Conns
  PROVE  HeldBack(c)' = HeldBack(c) /\ View(c)' = View(c)
<1>1. HeldBack(c)' = HeldBack(c)
  BY DEF Quiet, HeldBack, EndsWith
<1> QED BY <1>1 DEF View, Quiet

\* Such a step keeps what is known of the broadcast in progress.
LEMMA QuietPreserves ==
  ASSUME FullInv, Quiet
  PROVE  InTransit'
<1> SUFFICES ASSUME fate' = "running" PROVE InTransit'
  BY DEF InTransit
<1>1. fate = "running" /\ InTransit
  BY DEF Quiet, FullInv
<1>2. \A c \in Conns : HeldBack(c)' = HeldBack(c)
  BY QuietViews
<1>3. \A c \in Conns : \A m : EndsWith(c, m)' = EndsWith(c, m)
  BY DEF Quiet, EndsWith
<1>4. \A c, d \in Conns : \A k \in 1 .. MaxReq :
        EndsWith(c, <<d, k>>)' /\ ~ HeldBack(c)' => k <= Casts(d)'
  <2>1. \A c \in Conns : Casts(c)' = Casts(c)
    BY DEF Quiet
  <2> QED BY <1>1, <1>2, <1>3, <2>1 DEF InTransit
<1>5. ASSUME mutx' # None, NEW c \in Conns
      PROVE  /\ Passed(c)' => HeldBack(c)' \/ Gone(c)'
             /\ HeldBack(c)' => Passed(c)'
  <2>1. mutx # None
    BY <1>5 DEF Quiet
  <2>2. Passed(c)' <=> Passed(c)
    BY <1>1, <2>1 DEF Quiet, Passed, table
  <2>3. Gone(c) => Gone(c)'
    BY DEF Quiet
  <2> QED BY <1>1, <1>2, <2>1, <2>2, <2>3 DEF InTransit
<1> QED BY <1>4, <1>5 DEF InTransit

\* What the clients do leaves a broadcast alone.
LEMMA ClientQuiet ==
  ASSUME FullInv, NEW c \in Conns, Client(c)
  PROVE  Quiet
<1>1. UNCHANGED <<mutx, stream, idx, fate, req, taken, table>>
  BY DEF Client, Connect, SendRequest, Drain, Exit, local
<1>2. \A d \in Conns : Casts(d)' = Casts(d)
  BY <1>1 DEF Casts
<1>3. \A d \in Conns : Gone(d) => Gone(d)'
  BY SMT DEF FullInv, IInv, TypeOK, Client, Connect, SendRequest, Drain, Exit,
     Gone
<1>4. files' = files
  BY DEF Client, Connect, SendRequest, Drain, Exit
<1> QED BY <1>1, <1>2, <1>3, <1>4 DEF Quiet, table

\* So does main: it changes the table under the mutex only, and accept()
\* returns a descriptor that is not in the table.
LEMMA MainQuiet ==
  ASSUME FullInv, (\E c \in Conns : Accept(c)) \/ AppendEntry \/ Create
  PROVE  Quiet
<1>1. UNCHANGED <<mutx, stream, idx, fate, req, taken, peer>>
  BY DEF Accept, AppendEntry, Create, local, net
<1>2. \A d \in Conns : Casts(d)' = Casts(d)
  BY <1>1 DEF Casts
<1>3. \A d \in Conns : Gone(d) => Gone(d)'
  BY <1>1 DEF Gone
<1>4. ASSUME mutx # None
      PROVE  /\ UNCHANGED table
             /\ \A i \in 0 .. clnt_cnt - 1 :
                  files'[clnt_socks[i]] = files[clnt_socks[i]]
  <2>1. CASE \E c \in Conns : Accept(c)
    <3>1. PICK c \in Conns, fd \in Fds :
            /\ files[fd] = None /\ files' = [files EXCEPT ![fd] = c]
            /\ fate = "running" /\ UNCHANGED table
      BY <2>1 DEF Accept
    <3>2. \A i \in 0 .. clnt_cnt - 1 :
            clnt_socks[i] \in Fds /\ files[clnt_socks[i]] # None
      BY <3>1, NoneAssumption DEF FullInv, IInv, TableIsTheConnected
    <3> QED BY <3>1, <3>2 DEF FullInv, IInv, TypeOK
  <2>2. CASE AppendEntry
    BY <1>4, <2>2 DEF AppendEntry
  <2>3. CASE Create
    BY <2>3 DEF Create, net, table
  <2> QED BY <2>1, <2>2, <2>3
<1> QED BY <1>1, <1>2, <1>3, <1>4 DEF Quiet

\* So does a handler that is not broadcasting.
Aside(t) == \/ Start(t) \/ ReadRequest(t) \/ ReadEnd(t) \/ Reject(t)
            \/ Remove(t) \/ Close(t)

LEMMA HandlerQuiet ==
  ASSUME FullInv, NEW t \in Conns, Aside(t)
  PROVE  Quiet
<1> USE NoneAssumption, SizeAssumption
<1>1. UNCHANGED <<mutx, stream, idx, fate>> /\ fate = "running"
  BY DEF Aside, Start, ReadRequest, ReadEnd, Reject, Remove, Close, net
<1>2. pc[t] # "send" /\ t # mutx
  BY SMT DEF FullInv, IInv, MutexHolderSends, Aside, Start, ReadRequest,
     ReadEnd, Reject, Remove, Close
<1>3. (\A d \in Conns : Casts(d)' = Casts(d)) /\ (mutx # None => req'[mutx] = req[mutx])
  <2>1. CASE ReadRequest(t)
    <3>1. sock[t] \in Fds /\ files[sock[t]] = t /\ req[t] = None
      BY <2>1 DEF FullInv, IInv, HandlerOwnsItsConnection, RequestInHand,
         ReadRequest
    <3>2. /\ taken' = [taken EXCEPT ![t] = @ + 1]
          /\ req' = [req EXCEPT ![t] = <<t, taken[t] + 1>>]
          /\ taken[t] < sent[t]
      BY <2>1, <3>1 DEF ReadRequest
    <3>3. /\ taken \in [Conns -> 0 .. MaxReq] /\ sent \in [Conns -> 0 .. MaxReq]
          /\ req \in [Conns -> Requests \cup {None}]
      BY DEF FullInv, IInv, TypeOK
    <3>4. <<t, taken[t] + 1>> \in Requests
      <4>1. taken[t] + 1 \in 1 .. MaxReq
        BY <3>2, <3>3, SMT
      <4> QED BY <4>1 DEF Requests
    <3>5. Casts(t)' = Casts(t)
      BY <3>1, <3>2, <3>3, <3>4, SMT DEF Casts
    <3>6. \A d \in Conns : d # t => taken'[d] = taken[d] /\ req'[d] = req[d]
      BY <3>2, <3>3
    <3>7. \A d \in Conns : d # t => Casts(d)' = Casts(d)
      BY <3>6 DEF Casts
    <3>8. mutx \in Conns \cup {None}
      BY DEF FullInv, IInv, TypeOK
    <3> QED BY <1>2, <3>5, <3>6, <3>7, <3>8
  <2>2. CASE ~ ReadRequest(t)
    <3>1. UNCHANGED <<req, taken>>
      BY <2>2 DEF Aside, Start, ReadEnd, Reject, Remove, Close, net
    <3> QED BY <3>1 DEF Casts
  <2> QED BY <2>1, <2>2
<1>4. \A d \in Conns : Gone(d) => Gone(d)'
  <2>1. CASE Reject(t)
    <3>1. sock[t] \in Fds /\ files[sock[t]] = t
      BY <2>1 DEF FullInv, IInv, HandlerOwnsItsConnection, Reject
    <3> QED BY <2>1, <3>1, RejectWrites DEF FullInv, IInv, TypeOK, Gone
  <2>2. CASE ~ Reject(t)
    <3>1. peer' = peer
      BY <2>2 DEF Aside, Start, ReadRequest, ReadEnd, Remove, Close, net
    <3> QED BY <3>1 DEF Gone
  <2> QED BY <2>1, <2>2
<1>5. ASSUME mutx # None
      PROVE  /\ UNCHANGED table
             /\ \A i \in 0 .. clnt_cnt - 1 :
                  files'[clnt_socks[i]] = files[clnt_socks[i]]
  <2>1. CASE Close(t)
    <3>1. /\ files' = [files EXCEPT ![sock[t]] = None] /\ UNCHANGED table
          /\ sock[t] \in Fds /\ files[sock[t]] = t /\ pc[t] = "close"
      BY <2>1 DEF FullInv, IInv, HandlerOwnsItsConnection, Close
    <3>2. ~ Registered(t)
      BY <3>1, SMT DEF FullInv, IInv, DescriptorsAccountedFor, Registered
    <3>3. \A i \in 0 .. clnt_cnt - 1 :
            clnt_socks[i] \in Fds /\ files[clnt_socks[i]] # t
      BY <1>1, <3>2 DEF FullInv, IInv, TableIsTheConnected
    <3> QED BY <3>1, <3>3 DEF FullInv, IInv, TypeOK
  <2>2. CASE ~ Close(t)
    BY <1>5, <2>2 DEF Aside, Start, ReadRequest, ReadEnd, Reject, Remove, net
  <2> QED BY <2>1, <2>2
<1> QED BY <1>1, <1>3, <1>4, <1>5 DEF Quiet

\* A handler that has a request to broadcast holds the last one its own
\* connection sent, and it is not among those already cast.
LEMMA InHand ==
  ASSUME IInv, NEW t \in Conns, pc[t] \in {"lock", "send"}
  PROVE  /\ req[t] = <<t, taken[t]>> /\ req[t] \in Requests /\ req[t] # None
         /\ taken[t] \in 1 .. MaxReq
         /\ Casts(t) = taken[t] - 1
<1>1. req[t] = <<t, taken[t]>> /\ taken[t] > 0
  BY DEF IInv, RequestInHand
<1>2. taken[t] \in 0 .. MaxReq
  BY DEF IInv, TypeOK
<1>3. taken[t] \in 1 .. MaxReq
  BY <1>1, <1>2
<1>4. req[t] \in Requests
  BY <1>1, <1>3 DEF Requests
<1>5. req[t] # None
  BY <1>4, NoneAssumption
<1> QED BY <1>1, <1>3, <1>4, <1>5 DEF Casts

\* When the broadcast starts, nobody has the result of the request yet.
LEMMA LockStarts ==
  ASSUME FullInv, NEW t \in Conns, Lock(t)
  PROVE  (\A c \in Conns : ~ HeldBack(c) /\ ~ HeldBack(c)') /\ InTransit'
<1>1. /\ fate = "running" /\ mutx = None /\ mutx' = t /\ idx' = 0
      /\ pc[t] = "lock"
      /\ UNCHANGED <<table, req, files, taken, stream, fate>>
  BY DEF Lock, net
<1>2. IInv /\ InTransit
  BY DEF FullInv
<1>3. \A c \in Conns : ~ HeldBack(c)
  BY <1>1 DEF HeldBack
<1>4. \A c, d \in Conns : \A k \in 1 .. MaxReq :
        EndsWith(c, <<d, k>>) => k <= Casts(d)
  BY <1>1, <1>2, <1>3 DEF InTransit
<1>5. /\ req[t] = <<t, taken[t]>> /\ taken[t] \in 1 .. MaxReq
      /\ Casts(t) = taken[t] - 1
  BY <1>1, <1>2, InHand
<1>6. ASSUME NEW c \in Conns PROVE ~ EndsWith(c, req[t])
  BY <1>4, <1>5, SMT
<1>7. \A c \in Conns : ~ HeldBack(c)'
  BY <1>1, <1>6 DEF HeldBack, EndsWith
<1>8. \A c, d \in Conns : \A k \in 1 .. MaxReq :
        EndsWith(c, <<d, k>>)' => k <= Casts(d)'
  <2>1. \A c, d \in Conns : \A k : EndsWith(c, <<d, k>>)' = EndsWith(c, <<d, k>>)
    BY <1>1 DEF EndsWith
  <2>2. \A d \in Conns : Casts(d)' = Casts(d)
    BY <1>1 DEF Casts
  <2> QED BY <1>4, <2>1, <2>2
<1>9. \A c \in Conns : ~ Passed(c)'
  BY <1>1, SMT DEF Passed
<1> QED BY <1>3, <1>7, <1>8, <1>9 DEF InTransit

\* One write() of the broadcast: it goes to a client the loop has not passed,
\* and makes the result the last thing that client was sent.
LEMMA WriteOneHeldBack ==
  ASSUME FullInv, NEW t \in Conns, WriteOne(t)
  PROVE  /\ \A c \in Conns : View(c)' = View(c)
         /\ \A c \in Conns : Gone(c)' <=> Gone(c)
         /\ InTransit'
<1> USE NoneAssumption, SizeAssumption
<1>1. /\ fate = "running" /\ pc[t] = "send" /\ idx < clnt_cnt /\ idx' = idx + 1
      /\ UNCHANGED <<table, mutx, req, files, taken, fate>>
  BY DEF WriteOne
<1>2. IInv /\ InTransit
  BY DEF FullInv
<1>3. mutx = t
  BY <1>1, <1>2 DEF IInv, MutexHolderSends
<1>4. idx \in 0 .. clnt_cnt - 1 /\ clnt_cnt \in Nat
  BY <1>1, <1>2, SMT DEF IInv, TypeOK
<1>5. PICK c0 \in Conns : c0 = files[clnt_socks[idx]] /\ c0 # None
  BY <1>2, WriteTarget
<1>6. ~ Passed(c0)
  <2> SUFFICES ASSUME NEW i \in 0 .. clnt_cnt - 1, i < idx,
                      files[clnt_socks[i]] = c0
               PROVE  FALSE
    BY DEF Passed
  <2>1. clnt_socks[i] \in Fds /\ clnt_socks[idx] \in Fds
    BY <1>1, <1>2, <1>4 DEF IInv, TableIsTheConnected
  <2>2. clnt_socks[i] = clnt_socks[idx]
    BY <1>2, <1>5, <2>1 DEF IInv, DescriptorsAccountedFor
  <2>3. i = idx
    BY <1>1, <1>2, <1>4, <2>2 DEF IInv, TableIsTheConnected
  <2> QED BY <1>4, <2>3
<1>7. ~ HeldBack(c0)
  BY <1>1, <1>2, <1>3, <1>5, <1>6 DEF InTransit
<1>8. \/ /\ peer[c0] = "up" /\ stream' = [stream EXCEPT ![c0] = Append(@, req[t])]
         /\ \E p \in {"up", "stalled"} : peer' = [peer EXCEPT ![c0] = p]
      \/ /\ Gone(c0) /\ stream' = stream
         /\ peer' = [peer EXCEPT ![c0] = "reset"]
  <2>1. peer[c0] \in PeerStates /\ peer[c0] # "idle"
    BY <1>2, <1>5, WriteTarget DEF IInv, TypeOK
  <2>2. CASE peer[c0] = "up"
    BY <1>5, <2>2 DEF WriteOne, Gone
  <2>3. CASE peer[c0] = "stalled"
    BY <1>5, <2>3 DEF WriteOne, Gone
  <2>4. CASE Gone(c0)
    BY <1>5, <2>4 DEF WriteOne, Gone
  <2> QED BY <2>1, <2>2, <2>3, <2>4 DEF PeerStates, Gone
<1>9. \A c \in Conns : Gone(c)' <=> Gone(c)
  <2>1. peer \in [Conns -> PeerStates]
    BY <1>2 DEF IInv, TypeOK
  <2>2. \A c \in Conns : c # c0 => peer'[c] = peer[c]
    BY <1>8, <2>1
  <2>3. Gone(c0)' <=> Gone(c0)
    BY <1>8, <2>1 DEF Gone
  <2> QED BY <2>2, <2>3 DEF Gone
<1>10. \A c \in Conns : c # c0 => stream'[c] = stream[c]
  BY <1>2, <1>8 DEF IInv, TypeOK
<1>11. \A c \in Conns : c # c0 => \A m : EndsWith(c, m)' = EndsWith(c, m)
  BY <1>10 DEF EndsWith
<1>12. \A c \in Conns : c # c0 => HeldBack(c)' = HeldBack(c)
  BY <1>1, <1>3, <1>10 DEF HeldBack, EndsWith
<1>13. CASE stream' = stream /\ Gone(c0)
  <2>1. \A c \in Conns : HeldBack(c)' = HeldBack(c)
    BY <1>1, <1>13 DEF HeldBack, EndsWith
  <2>2. \A c \in Conns : View(c)' = View(c)
    BY <1>13, <2>1 DEF View
  <2>3. \A c \in Conns : \A m : EndsWith(c, m)' = EndsWith(c, m)
    BY <1>13 DEF EndsWith
  <2>4. \A d \in Conns : Casts(d)' = Casts(d)
    BY <1>1 DEF Casts
  <2>5. \A c \in Conns : Passed(c)' <=> Passed(c) \/ c = c0
    BY <1>1, <1>4, <1>5, SMT DEF Passed, table
  <2>6. \A c, d \in Conns : \A k \in 1 .. MaxReq :
          EndsWith(c, <<d, k>>)' /\ ~ HeldBack(c)' => k <= Casts(d)'
    BY <1>1, <1>2, <2>1, <2>3, <2>4 DEF InTransit
  <2>7. \A c \in Conns : /\ Passed(c)' => HeldBack(c)' \/ Gone(c)'
                         /\ HeldBack(c)' => Passed(c)'
    BY <1>1, <1>2, <1>3, <1>9, <1>13, <2>1, <2>5 DEF InTransit
  <2> QED BY <1>9, <2>2, <2>6, <2>7 DEF InTransit
<1>14. CASE stream' = [stream EXCEPT ![c0] = Append(@, req[t])]
  <2>1. stream[c0] \in Seq(Requests) /\ req[t] \in Requests
    BY <1>1, <1>2, <1>5, InHand DEF IInv, TypeOK
  <2>2. stream'[c0] = Append(stream[c0], req[t])
    BY <1>2, <1>5, <1>14 DEF IInv, TypeOK
  <2>3. /\ stream'[c0] # <<>> /\ stream'[c0][Len(stream'[c0])] = req[t]
        /\ SubSeq(stream'[c0], 1, Len(stream'[c0]) - 1) = stream[c0]
    <3> SUFFICES ASSUME NEW s \in Seq(Requests), NEW x \in Requests
                 PROVE  /\ Append(s, x) # <<>>
                        /\ Append(s, x)[Len(Append(s, x))] = x
                        /\ SubSeq(Append(s, x), 1, Len(Append(s, x)) - 1) = s
      BY <2>1, <2>2
    <3> HIDE DEF Requests
    <3> QED BY SMT
  <2>4. HeldBack(c0)'
    BY <1>1, <1>3, <2>3 DEF HeldBack, EndsWith
  <2>5. \A c \in Conns : View(c)' = View(c)
    BY <1>7, <1>10, <1>12, <2>3, <2>4 DEF View
  <2>6. \A d \in Conns : Casts(d)' = Casts(d)
    BY <1>1 DEF Casts
  <2>7. \A c \in Conns : Passed(c)' <=> Passed(c) \/ c = c0
    BY <1>1, <1>4, <1>5, SMT DEF Passed, table
  <2>8. \A c, d \in Conns : \A k \in 1 .. MaxReq :
          EndsWith(c, <<d, k>>)' /\ ~ HeldBack(c)' => k <= Casts(d)'
    BY <1>1, <1>2, <1>11, <1>12, <2>4, <2>6 DEF InTransit
  <2>9. \A c \in Conns : /\ Passed(c)' => HeldBack(c)' \/ Gone(c)'
                         /\ HeldBack(c)' => Passed(c)'
    BY <1>1, <1>2, <1>3, <1>9, <1>12, <2>4, <2>7 DEF InTransit
  <2> QED BY <1>9, <2>5, <2>8, <2>9 DEF InTransit
<1> QED BY <1>8, <1>13, <1>14

\* When the loop is through, everybody in the table who has not hung up has
\* been sent the result, and nobody who is not in the table.
LEMMA UnlockReveals ==
  ASSUME FullInv, NEW t \in Conns, Unlock(t)
  PROVE  /\ \A c \in Conns : HeldBack(c) => Registered(c)
         /\ \A c \in Conns : Registered(c) => HeldBack(c) \/ Gone(c)
         /\ \A c \in Conns : View(c)' = stream[c]
         /\ Casts(t)' = Casts(t) + 1
         /\ \A d \in Conns : d # t => Casts(d)' = Casts(d)
         /\ InTransit'
<1> USE NoneAssumption, SizeAssumption
<1>1. /\ fate = "running" /\ pc[t] = "send" /\ idx >= clnt_cnt /\ mutx' = None
      /\ req' = [req EXCEPT ![t] = None]
      /\ UNCHANGED <<table, files, taken, stream, fate>>
  BY DEF Unlock, net
<1>2. IInv /\ InTransit
  BY DEF FullInv
<1>3. mutx = t /\ mutx # None
  BY <1>1, <1>2 DEF IInv, MutexHolderSends
<1>4. /\ req[t] = <<t, taken[t]>> /\ req[t] # None
      /\ taken[t] \in 1 .. MaxReq /\ Casts(t) = taken[t] - 1
  BY <1>1, <1>2, InHand
<1>5. idx \in Nat /\ clnt_cnt \in Nat
  BY <1>2 DEF IInv, TypeOK
<1>6. ASSUME NEW c \in Conns, HeldBack(c) PROVE Registered(c)
  <2>1. PICK i \in 0 .. clnt_cnt - 1 : files[clnt_socks[i]] = c
    BY <1>1, <1>2, <1>3, <1>6 DEF InTransit, Passed
  <2> QED BY <1>1, <1>2, <2>1 DEF IInv, TableIsTheConnected
<1>7. ASSUME NEW c \in Conns, Registered(c) PROVE HeldBack(c) \/ Gone(c)
  <2>1. PICK i \in 0 .. clnt_cnt - 1 : files[clnt_socks[i]] = c
    BY <1>1, <1>2, <1>7 DEF IInv, TableIsTheConnected
  <2>2. i < idx
    BY <1>1, <1>5, <2>1, SMT
  <2>3. Passed(c)
    BY <2>1, <2>2 DEF Passed
  <2> QED BY <1>1, <1>2, <1>3, <2>3 DEF InTransit
<1>8. \A c \in Conns : ~ HeldBack(c)' /\ View(c)' = stream[c]
  BY <1>1 DEF HeldBack, View
<1>9. req \in [Conns -> Requests \cup {None}]
  BY <1>2 DEF IInv, TypeOK
<1>10. Casts(t)' = taken[t] /\ Casts(t)' = Casts(t) + 1
  <2>1. req'[t] = None /\ taken' = taken
    BY <1>1, <1>9
  <2>2. Casts(t)' = taken[t]
    BY <2>1 DEF Casts
  <2> QED BY <1>4, <2>2, SMT
<1>11. \A d \in Conns : d # t => Casts(d)' = Casts(d)
  BY <1>1, <1>9 DEF Casts
<1>12. ASSUME NEW c \in Conns, NEW d \in Conns, NEW k \in 1 .. MaxReq,
              EndsWith(c, <<d, k>>)'
       PROVE  k <= Casts(d)'
  <2>1. EndsWith(c, <<d, k>>)
    BY <1>1, <1>12 DEF EndsWith
  <2>2. CASE HeldBack(c)
    <3>1. <<d, k>> = <<t, taken[t]>>
      BY <1>3, <1>4, <2>1, <2>2 DEF HeldBack, EndsWith
    <3>2. d = t /\ k = taken[t]
      BY <3>1
    <3> QED BY <1>4, <1>10, <3>2, SMT
  <2>3. CASE ~ HeldBack(c)
    <3>1. k <= Casts(d)
      BY <1>1, <1>2, <2>1, <2>3 DEF InTransit
    <3>2. CASE d = t
      BY <1>4, <1>10, <3>1, <3>2, SMT
    <3>3. CASE d # t
      BY <1>11, <3>1, <3>3
    <3> QED BY <3>2, <3>3
  <2> QED BY <2>2, <2>3
<1> QED BY <1>1, <1>6, <1>7, <1>8, <1>10, <1>11, <1>12 DEF InTransit

\* The three ways the server ends.
LEMMA EndStops ==
  ASSUME FullInv,
         AppendBeyond \/ \E t \in Conns : Sigpipe(t) \/ RejectKilled(t)
  PROVE  /\ fate = "running" /\ fate' # "running"
         /\ \A c \in Conns : View(c)' = stream[c] /\ Casts(c)' = Casts(c)
         /\ UNCHANGED <<pc, mpc, cur, peer>>
         /\ InTransit'
<1>1. /\ fate = "running" /\ fate' # "running"
      /\ UNCHANGED <<pc, mpc, cur, peer, req, taken, stream>>
  BY DEF AppendBeyond, Sigpipe, RejectKilled, main, local, net
<1> QED BY <1>1 DEF View, HeldBack, Casts, InTransit

\* The strengthened invariant is inductive.
LEMMA NextPreserves ==
  ASSUME FullInv, [Next]_vars
  PROVE  FullInv'
<1>0. IInv'
  BY StepPreserves DEF FullInv
<1>1. CASE Main
  BY <1>0, <1>1, MainQuiet, QuietPreserves, EndStops DEF FullInv, Main
<1>2. ASSUME NEW c \in Conns, Client(c) PROVE FullInv'
  BY <1>0, <1>2, ClientQuiet, QuietPreserves DEF FullInv
<1>3. ASSUME NEW t \in Conns, Handler(t) PROVE FullInv'
  <2>1. CASE Aside(t)
    BY <1>0, <2>1, HandlerQuiet, QuietPreserves DEF FullInv
  <2>2. CASE Lock(t)
    BY <1>0, <2>2, LockStarts DEF FullInv
  <2>3. CASE WriteOne(t)
    BY <1>0, <2>3, WriteOneHeldBack DEF FullInv
  <2>4. CASE Unlock(t)
    BY <1>0, <2>4, UnlockReveals DEF FullInv
  <2>5. CASE Sigpipe(t) \/ RejectKilled(t)
    BY <1>0, <2>5, EndStops DEF FullInv
  <2> QED BY <1>3, <2>1, <2>2, <2>3, <2>4, <2>5 DEF Handler, Aside
<1>4. CASE Finished \/ UNCHANGED vars
  <2>1. UNCHANGED vars
    BY <1>4 DEF Finished
  <2>2. Quiet
    BY <2>1 DEF Quiet, vars, table, Casts, Gone
  <2> QED BY <1>0, <2>2, QuietPreserves DEF FullInv
<1> QED BY <1>1, <1>2, <1>3, <1>4 DEF Next

\* The descriptors, the table and the broadcast in progress are consistent
\* in every reachable state.
THEOREM FullInvariance == Spec => []FullInv
<1>1. TestInit => FullInv
  <2>1. Init => InTransit
    BY DEF Init, InTransit, EndsWith
  <2> QED BY <2>1, InitIInv DEF TestInit, FullInv
<1>2. FullInv /\ [Next]_vars => FullInv'
  BY NextPreserves
<1> QED BY <1>1, <1>2, PTL DEF Spec

\* The initial state is the initial state of the group.
LEMMA GroupInit ==
  ASSUME TestInit
  PROVE  Group!Init
<1>1. \A c \in Conns : /\ Member(c) = "out" /\ ~ Gone(c) /\ Casts(c) = 0
                       /\ ~ HeldBack(c) /\ stream[c] = <<>>
  BY NoneAssumption DEF TestInit, Init, Member, Registered, Gone, Casts,
     HeldBack
<1>2. fate = "running"
  BY DEF TestInit, Init
<1> QED BY <1>1, <1>2 DEF Group!Init

\* The parts of the abstract state that a quiet step leaves alone.
LEMMA QuietGroup ==
  ASSUME Quiet
  PROVE  /\ [c \in Conns |-> Casts(c)]' = [c \in Conns |-> Casts(c)]
         /\ [c \in Conns |-> View(c)]' = [c \in Conns |-> View(c)]
         /\ (fate # "running")' = (fate # "running")
<1>1. \A c \in Conns : Casts(c)' = Casts(c) /\ View(c)' = View(c)
  BY QuietViews DEF Quiet
<1>2. fate' = fate
  BY DEF Quiet
<1> QED BY <1>1, <1>2

\* What an outsider sees of a client's steps: it hangs up, or nothing.
LEMMA ClientInGroup ==
  ASSUME FullInv, NEW c \in Conns, Client(c)
  PROVE  [Group!Next]_(Group!vars)
<1>1. \A d \in Conns : Member(d)' = Member(d)
  BY DEF Client, Connect, SendRequest, Drain, Exit, main, local, Member,
     Registered
<1>2. [d \in Conns |-> Member(d)]' = [d \in Conns |-> Member(d)]
  BY <1>1
<1>3. Quiet
  BY ClientQuiet
<1>4. CASE Exit(c)
  <2>1. {d \in Conns : Gone(d)}' = {d \in Conns : Gone(d)} \cup {c}
    BY <1>4, SMT DEF FullInv, IInv, TypeOK, Exit, Gone
  <2>2. Group!HangUp(c)
    BY <1>2, <1>3, <2>1, QuietGroup DEF Group!HangUp, View
  <2> QED BY <2>2 DEF Group!Next
<1>5. CASE ~ Exit(c)
  <2>1. {d \in Conns : Gone(d)}' = {d \in Conns : Gone(d)}
    BY <1>5, SMT DEF FullInv, IInv, TypeOK, Client, Connect, SendRequest,
       Drain, Gone
  <2> QED BY <1>2, <1>3, <2>1, QuietGroup DEF Group!vars, View
<1> QED BY <1>4, <1>5

\* The append to the table is what makes a connection join.
LEMMA MainInGroup ==
  ASSUME FullInv, (\E c \in Conns : Accept(c)) \/ AppendEntry \/ Create
  PROVE  [Group!Next]_(Group!vars)
<1>1. Quiet /\ {d \in Conns : Gone(d)}' = {d \in Conns : Gone(d)}
  BY MainQuiet DEF Accept, AppendEntry, Create, net, Gone
<1>2. pc \in [Conns -> {"none", "start", "read", "lock", "send", "remove",
                        "close", "done"}]
  BY DEF FullInv, IInv, TypeOK
<1>3. CASE AppendEntry
  <2>1. /\ fate = "running" /\ mpc' = "create" /\ mpc = "append"
        /\ cur \in Conns /\ pc[cur] = "none" /\ UNCHANGED <<pc, cur>>
    BY <1>3 DEF FullInv, IInv, DescriptorsAccountedFor, AppendEntry, local
  <2>2. PICK c \in Conns : c = cur
    BY <2>1
  <2>3. Member(c) = "out" /\ Member(c)' = "in"
    BY <2>1, <2>2 DEF Member, Registered
  <2>4. \A d \in Conns : d # c => Member(d)' = Member(d)
    BY <2>1, <2>2 DEF Member, Registered
  <2>5. [d \in Conns |-> Member(d)]' =
          [[d \in Conns |-> Member(d)] EXCEPT ![c] = "in"]
    BY <2>3, <2>4
  <2>6. Group!Join(c)
    BY <1>1, <2>1, <2>3, <2>5, QuietGroup DEF Group!Join, View
  <2> QED BY <2>6 DEF Group!Next
<1>4. CASE (\E c \in Conns : Accept(c)) \/ Create
  <2>1. \A d \in Conns : Member(d)' = Member(d)
    <3>1. CASE \E c \in Conns : Accept(c)
      BY <3>1 DEF Accept, local, Member, Registered
    <3>2. CASE Create
      <4>1. /\ mpc = "create" /\ mpc' = "accept" /\ cur \in Conns
            /\ pc[cur] = "none" /\ pc' = [pc EXCEPT ![cur] = "start"]
        BY <3>2 DEF FullInv, IInv, DescriptorsAccountedFor, Create
      <4>2. ASSUME NEW d \in Conns PROVE Member(d)' = Member(d)
        <5>1. CASE d = cur
          BY <1>2, <4>1, <5>1 DEF Member, Registered
        <5>2. CASE d # cur
          BY <1>2, <4>1, <5>2 DEF Member, Registered
        <5> QED BY <5>1, <5>2
      <4> QED BY <4>2
    <3> QED BY <1>4, <3>1, <3>2
  <2>2. [d \in Conns |-> Member(d)]' = [d \in Conns |-> Member(d)]
    BY <2>1
  <2> QED BY <1>1, <2>2, QuietGroup DEF Group!vars, View
<1> QED BY <1>3, <1>4

\* The removal from the table is what makes a connection leave.
LEMMA AsideInGroup ==
  ASSUME FullInv, NEW t \in Conns, Aside(t)
  PROVE  [Group!Next]_(Group!vars)
<1>1. Quiet /\ fate = "running" /\ UNCHANGED <<mpc, cur>>
  BY HandlerQuiet DEF Aside, Start, ReadRequest, ReadEnd, Reject, Remove,
     Close, main
<1>2. {d \in Conns : Gone(d)}' = {d \in Conns : Gone(d)}
  <2>1. CASE Reject(t)
    <3>1. sock[t] \in Fds /\ files[sock[t]] = t
      BY <2>1 DEF FullInv, IInv, HandlerOwnsItsConnection, Reject
    <3>2. \A d \in Conns : Gone(d)' <=> Gone(d)
      BY <2>1, <3>1, RejectWrites DEF FullInv, IInv, TypeOK, Gone
    <3> QED BY <3>2
  <2>2. CASE ~ Reject(t)
    <3>1. peer' = peer
      BY <2>2 DEF Aside, Start, ReadRequest, ReadEnd, Remove, Close, net
    <3> QED BY <3>1 DEF Gone
  <2> QED BY <2>1, <2>2
<1>3. pc \in [Conns -> {"none", "start", "read", "lock", "send", "remove",
                        "close", "done"}]
  BY DEF FullInv, IInv, TypeOK
<1>4. \A d \in Conns : d # t => pc'[d] = pc[d]
  BY <1>3 DEF Aside, Start, ReadRequest, ReadEnd, Reject, Remove, Close
<1>5. \A d \in Conns : d # t => Member(d)' = Member(d)
  BY <1>1, <1>4 DEF Member, Registered
<1>6. mpc = "create" => cur # t
  BY SMT DEF FullInv, IInv, DescriptorsAccountedFor, Aside, Start, ReadRequest,
     ReadEnd, Reject, Remove, Close
<1>7. CASE Remove(t)
  <2>1. pc[t] = "remove" /\ pc'[t] = "close"
    BY <1>3, <1>7 DEF Remove
  <2>2. Member(t) = "in" /\ Member(t)' = "left"
    BY <1>1, <1>6, <2>1 DEF Member, Registered
  <2>3. [d \in Conns |-> Member(d)]' =
          [[d \in Conns |-> Member(d)] EXCEPT ![t] = "left"]
    BY <1>5, <2>2
  <2>4. Group!Leave(t)
    BY <1>1, <1>2, <2>2, <2>3, QuietGroup DEF Group!Leave, View
  <2> QED BY <2>4 DEF Group!Next
<1>8. CASE ~ Remove(t)
  <2>1. \/ pc[t] \in Loop /\ pc'[t] \in Loop
        \/ pc[t] = "close" /\ pc'[t] = "done"
    BY <1>3, <1>8 DEF Loop, Aside, Start, ReadRequest, ReadEnd, Reject, Close
  <2>2. Member(t)' = Member(t)
    BY <1>1, <1>6, <2>1 DEF Member, Registered, Loop
  <2>3. [d \in Conns |-> Member(d)]' = [d \in Conns |-> Member(d)]
    BY <1>5, <2>2
  <2> QED BY <1>1, <1>2, <2>3, QuietGroup DEF Group!vars, View
<1> QED BY <1>7, <1>8

\* The members of the group are the connections in the table.
LEMMA RegisteredIsMember ==
  ASSUME IInv, NEW c \in Conns
  PROVE  Member(c) = "in" <=> Registered(c)
<1>1. Registered(c) => pc[c] \notin {"close", "done"}
  BY DEF IInv, DescriptorsAccountedFor, Registered
<1> QED BY <1>1 DEF Member

\* The broadcast in progress is the next cast of a member, and what it has
\* reached so far are members, for whom it comes after all they have seen.
LEMMA BroadcastIsACast ==
  ASSUME FullInv, fate = "running", mutx # None
  PROVE  /\ mutx \in Conns /\ Member(mutx) = "in" /\ Casts(mutx) < MaxReq
         /\ req[mutx] = <<mutx, Casts(mutx) + 1>>
         /\ \A c \in Conns : HeldBack(c) => Member(c) = "in"
         /\ \A c \in Conns : stream[c] = IF HeldBack(c)
                                         THEN Append(View(c), req[mutx])
                                         ELSE View(c)
<1>1. IInv /\ InTransit
  BY DEF FullInv
<1>2. mutx \in Conns /\ pc[mutx] = "send"
  BY <1>1 DEF IInv, TypeOK, MutexHolderSends
<1>3. /\ req[mutx] = <<mutx, taken[mutx]>> /\ taken[mutx] \in 1 .. MaxReq
      /\ Casts(mutx) = taken[mutx] - 1
  <2>1. PICK t \in Conns : t = mutx
    BY <1>2
  <2>2. /\ req[t] = <<t, taken[t]>> /\ taken[t] \in 1 .. MaxReq
        /\ Casts(t) = taken[t] - 1
    BY <1>1, <1>2, <2>1, InHand
  <2> QED BY <2>1, <2>2
<1>4. Casts(mutx) < MaxReq /\ taken[mutx] = Casts(mutx) + 1
  BY <1>3, SizeAssumption, SMT
<1>5. Member(mutx) = "in"
  BY <1>2 DEF Member, Registered
<1>6. ASSUME NEW c \in Conns, HeldBack(c) PROVE Member(c) = "in"
  <2>1. PICK i \in 0 .. clnt_cnt - 1 : files[clnt_socks[i]] = c
    BY <1>1, <1>6 DEF InTransit, Passed
  <2>2. Registered(c)
    BY <1>1, <2>1 DEF IInv, TableIsTheConnected
  <2> QED BY <1>1, <2>2, RegisteredIsMember
<1>7. ASSUME NEW c \in Conns
      PROVE  stream[c] = IF HeldBack(c) THEN Append(View(c), req[mutx])
                         ELSE View(c)
  <2>1. CASE HeldBack(c)
    <3>1. /\ stream[c] \in Seq(Requests) /\ stream[c] # <<>>
          /\ stream[c][Len(stream[c])] = req[mutx]
      BY <1>1, <2>1 DEF IInv, TypeOK, HeldBack, EndsWith
    <3>2. ASSUME NEW s \in Seq(Requests), s # <<>>
          PROVE  s = Append(SubSeq(s, 1, Len(s) - 1), s[Len(s)])
      <4> HIDE DEF Requests
      <4> QED BY <3>2, SMT
    <3> QED BY <2>1, <3>1, <3>2 DEF View
  <2>2. CASE ~ HeldBack(c)
    BY <2>2 DEF View
  <2> QED BY <2>1, <2>2
<1> QED BY <1>2, <1>3, <1>4, <1>5, <1>6, <1>7

\* Taking the mutex and writing to one client are not visible yet.
LEMMA LoopInGroup ==
  ASSUME FullInv, NEW t \in Conns, Lock(t) \/ WriteOne(t)
  PROVE  [Group!Next]_(Group!vars)
<1>1. /\ UNCHANGED <<mpc, cur, req, taken, fate>>
      /\ \A c \in Conns : Member(c)' = Member(c)
  BY SMT DEF FullInv, IInv, TypeOK, Lock, WriteOne, main, net, Member,
     Registered
<1>2. \A c \in Conns : (Gone(c)' <=> Gone(c)) /\ View(c)' = View(c)
  <2>1. CASE Lock(t)
    <3>1. UNCHANGED <<peer, stream>>
      BY <2>1 DEF Lock, net
    <3> QED BY <2>1, <3>1, LockStarts DEF Gone, View
  <2>2. CASE WriteOne(t)
    BY <2>2, WriteOneHeldBack
  <2> QED BY <2>1, <2>2
<1>3. \A c \in Conns : Casts(c)' = Casts(c)
  BY <1>1 DEF Casts
<1>4. /\ [c \in Conns |-> Member(c)]' = [c \in Conns |-> Member(c)]
      /\ {c \in Conns : Gone(c)}' = {c \in Conns : Gone(c)}
      /\ [c \in Conns |-> Casts(c)]' = [c \in Conns |-> Casts(c)]
      /\ [c \in Conns |-> View(c)]' = [c \in Conns |-> View(c)]
      /\ (fate # "running")' = (fate # "running")
  BY <1>1, <1>2, <1>3
<1> QED BY <1>4 DEF Group!vars, View

\* Releasing the mutex casts the result, to every member still there.
LEMMA UnlockInGroup ==
  ASSUME FullInv, NEW t \in Conns, Unlock(t)
  PROVE  [Group!Next]_(Group!vars)
<1>0. PICK D : D = {c \in Conns : HeldBack(c)}
  OBVIOUS
<1>1. /\ fate = "running" /\ pc[t] = "send" /\ mutx = t /\ mutx # None
      /\ pc' = [pc EXCEPT ![t] = "read"]
      /\ UNCHANGED <<mpc, cur, peer, fate>>
  BY NoneAssumption
     DEF Unlock, main, net, FullInv, IInv, MutexHolderSends
<1>2. /\ Member(t) = "in" /\ Casts(t) < MaxReq
      /\ req[mutx] = <<t, Casts(t) + 1>>
      /\ \A c \in Conns : HeldBack(c) => Member(c) = "in"
      /\ \A c \in Conns : stream[c] = IF HeldBack(c)
                                      THEN Append(View(c), req[mutx])
                                      ELSE View(c)
  <2>1. req[mutx] = <<mutx, Casts(mutx) + 1>> /\ Casts(mutx) = Casts(t)
    BY <1>1, BroadcastIsACast
  <2>2. Member(mutx) = Member(t)
    BY <1>1
  <2> QED BY <1>1, <2>1, <2>2, BroadcastIsACast
<1>3. /\ \A c \in Conns : Registered(c) => HeldBack(c) \/ Gone(c)
      /\ \A c \in Conns : View(c)' = stream[c]
      /\ Casts(t)' = Casts(t) + 1
      /\ \A d \in Conns : d # t => Casts(d)' = Casts(d)
  BY UnlockReveals
<1>4. \A c \in Conns : Member(c)' = Member(c)
  BY <1>1, SMT DEF FullInv, IInv, TypeOK, Member, Registered
<1>5. /\ [c \in Conns |-> Member(c)]' = [c \in Conns |-> Member(c)]
      /\ {c \in Conns : Gone(c)}' = {c \in Conns : Gone(c)}
      /\ (fate # "running")' = (fate # "running")
  BY <1>1, <1>4 DEF Gone
<1>6. [c \in Conns |-> Casts(c)]' =
        [[c \in Conns |-> Casts(c)] EXCEPT ![t] = @ + 1]
  BY <1>3
<1>7. [c \in Conns |-> View(c)]' =
        [c \in Conns |-> IF c \in D THEN Append(View(c), <<t, Casts(t) + 1>>)
                         ELSE View(c)]
  BY <1>0, <1>2, <1>3
<1>8. /\ D \subseteq Group!Members
      /\ Group!Members \ {c \in Conns : Gone(c)} \subseteq D
  <2>1. \A c \in Conns : Member(c) = "in" <=> Registered(c)
    BY RegisteredIsMember DEF FullInv
  <2> QED BY <1>0, <1>2, <1>3, <2>1 DEF Group!Members
<1>9. Group!Cast(t)
  <2> DEFINE casts == [c \in Conns |-> Casts(c)]
             member == [c \in Conns |-> Member(c)]
  <2>1. Group!Deliver(<<t, casts[t] + 1>>, D)
    BY <1>7 DEF Group!Deliver, View
  <2>2. member[t] = "in" /\ casts[t] < MaxReq
    BY <1>2
  <2>3. \E E \in SUBSET Group!Members :
          /\ Group!Members \ {c \in Conns : Gone(c)} \subseteq E
          /\ Group!Deliver(<<t, casts[t] + 1>>, E)
    BY <1>8, <2>1 DEF Group!Deliver
  <2> QED BY <1>1, <1>5, <1>6, <2>2, <2>3 DEF Group!Cast
<1> QED BY <1>9 DEF Group!Next

\* When the process ends, what it had written of a broadcast stays written.
LEMMA EndInGroup ==
  ASSUME FullInv,
         AppendBeyond \/ \E t \in Conns : Sigpipe(t) \/ RejectKilled(t)
  PROVE  [Group!Next]_(Group!vars)
<1>0. PICK D : D = {c \in Conns : HeldBack(c)}
  OBVIOUS
<1>1. /\ fate = "running" /\ fate' # "running"
      /\ \A c \in Conns : View(c)' = stream[c] /\ Casts(c)' = Casts(c)
      /\ UNCHANGED <<pc, mpc, cur, peer>>
  BY EndStops
<1>2. /\ [c \in Conns |-> Member(c)]' = [c \in Conns |-> Member(c)]
      /\ {c \in Conns : Gone(c)}' = {c \in Conns : Gone(c)}
      /\ [c \in Conns |-> Casts(c)]' = [c \in Conns |-> Casts(c)]
      /\ (fate # "running")' = TRUE /\ ~ (fate # "running")
  BY <1>1 DEF Member, Registered, Gone
<1>3. CASE mutx = None
  <2>1. \A c \in Conns : View(c)' = View(c)
    BY <1>1, <1>3 DEF View, HeldBack
  <2>2. [c \in Conns |-> View(c)]' = [c \in Conns |-> View(c)]
    BY <2>1
  <2>3. Group!End
    BY <1>2, <2>2 DEF Group!End, View
  <2> QED BY <2>3 DEF Group!Next
<1>4. CASE mutx # None
  <2>1. PICK t \in Conns : t = mutx
    BY <1>1, <1>4, BroadcastIsACast
  <2>2. /\ Member(t) = "in" /\ Casts(t) < MaxReq
        /\ req[mutx] = <<t, Casts(t) + 1>>
        /\ \A c \in Conns : HeldBack(c) => Member(c) = "in"
        /\ \A c \in Conns : stream[c] = IF HeldBack(c)
                                        THEN Append(View(c), req[mutx])
                                        ELSE View(c)
    <3>1. Casts(mutx) = Casts(t) /\ Member(mutx) = Member(t)
      BY <2>1
    <3> QED BY <1>1, <1>4, <2>1, <3>1, BroadcastIsACast
  <2>3. [c \in Conns |-> View(c)]' =
          [c \in Conns |-> IF c \in D THEN Append(View(c), <<t, Casts(t) + 1>>)
                           ELSE View(c)]
    BY <1>0, <1>1, <2>2
  <2>4. D \subseteq Group!Members /\ t \in Group!Members
    BY <1>0, <2>2 DEF Group!Members
  <2> DEFINE casts == [c \in Conns |-> Casts(c)]
  <2>5. casts[t] < MaxReq /\ Group!Deliver(<<t, casts[t] + 1>>, D)
    BY <2>2, <2>3 DEF Group!Deliver, View
  <2>6. \E c \in Group!Members : \E E \in SUBSET Group!Members :
          casts[c] < MaxReq /\ Group!Deliver(<<c, casts[c] + 1>>, E)
    BY <2>4, <2>5 DEF Group!Deliver
  <2>7. Group!End
    BY <1>2, <2>6 DEF Group!End
  <2> QED BY <2>7 DEF Group!Next
<1> QED BY <1>3, <1>4

\* Every step of the server is a step of the group or changes nothing there.
LEMMA NextInGroup ==
  ASSUME FullInv, [Next]_vars
  PROVE  [Group!Next]_(Group!vars)
<1>1. CASE Main
  BY <1>1, MainInGroup, EndInGroup DEF Main
<1>2. ASSUME NEW c \in Conns, Client(c) PROVE [Group!Next]_(Group!vars)
  BY <1>2, ClientInGroup
<1>3. ASSUME NEW t \in Conns, Handler(t) PROVE [Group!Next]_(Group!vars)
  <2>1. CASE Aside(t)
    BY <2>1, AsideInGroup
  <2>2. CASE Lock(t) \/ WriteOne(t)
    BY <2>2, LoopInGroup
  <2>3. CASE Unlock(t)
    BY <2>3, UnlockInGroup
  <2>4. CASE Sigpipe(t) \/ RejectKilled(t)
    BY <2>4, EndInGroup
  <2> QED BY <1>3, <2>1, <2>2, <2>3, <2>4 DEF Handler, Aside
<1>4. CASE Finished \/ UNCHANGED vars
  <2>1. UNCHANGED vars
    BY <1>4 DEF Finished
  <2>2. \A c \in Conns : /\ Member(c)' = Member(c) /\ Casts(c)' = Casts(c)
                         /\ Gone(c)' = Gone(c) /\ View(c)' = View(c)
    BY <2>1 DEF vars, Member, Registered, Casts, Gone, View, HeldBack, EndsWith
  <2>3. fate' = fate
    BY <2>1 DEF vars
  <2> QED BY <2>2, <2>3 DEF Group!vars, View
<1> QED BY <1>1, <1>2, <1>3, <1>4 DEF Next

\* test_serv.c implements the group: its clients cannot tell the table, the
\* mutex and the write loop from a broadcast that reaches, in one step, every
\* client that is connected and has not hung up.
THEOREM GroupImplemented == Spec => ImplementsGroup
<1>1. TestInit => Group!Init
  BY GroupInit
<1>2. FullInv /\ [Next]_vars => [Group!Next]_(Group!vars)
  BY NextInGroup
<1> QED BY <1>1, <1>2, FullInvariance, PTL
        DEF Spec, ImplementsGroup, Group!Spec
=============================================================================
