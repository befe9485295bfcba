-------------------------- MODULE Hw8ServerProofs ---------------------------
(***************************************************************************)
(* For any finite number of clients and any size of the table: clnt_cnt of *)
(* hw8_server.c and chat_serv.c, decremented without a look at what the    *)
(* loop before it has found, is still the number of handlers that have not *)
(* unregistered, and results reach any two clients in one order.           *)
(***************************************************************************)
EXTENDS Hw8Server, FiniteSetTheorems, TLAPS

\* The handlers that clnt_cnt should count.
Clients == {c \in Conns : Registered(c)}

Types ==
  /\ clnt_socks \in [Slots -> Fds \cup {0}] /\ clnt_cnt \in Nat
  /\ idx \in Nat
  /\ mpc \in {"accept", "append", "create"}
  /\ pc \in [Conns -> {"none", "start", "read", "lock", "send", "remove",
                       "close", "done"}]
  /\ files \in [Fds -> Conns \cup {None}]
  /\ peer \in [Conns -> PeerStates]
  /\ queued \subseteq Conns

\* A connection has no handler before main has created it, and main is busy
\* with one connection at a time.
Fresh ==
  /\ mpc = "accept" => cur = None
  /\ mpc # "accept" => /\ cur \in Conns /\ pc[cur] = "none"
                       /\ clnt_sock \in Fds
  /\ \A c \in Conns : peer[c] = "idle" \/ c \in queued
                        => pc[c] = "none" /\ cur # c
  /\ \A c \in queued : peer[c] # "idle"
  /\ \A fd \in Fds : files[fd] # None => peer[files[fd]] # "idle"

\* The faulty shift leaves no entry of the table empty.
Listed ==
  fate # "overrun" => /\ clnt_cnt <= MAX_CLNT
                      /\ \A k \in 0 .. clnt_cnt - 1 : clnt_socks[k] \in Fds

IInv == Types /\ Fresh /\ Listed /\ CountsHandlers

\* No client, no handler and an empty table.
LEMMA InitInvariant ==
  ASSUME Init PROVE IInv
<1>1. Types /\ Fresh /\ Listed
  BY SizeAssumption, NoneAssumption, SMT DEF Init, Types, Fresh, Listed,
     PeerStates
<1>2. Clients = {}
  BY NoneAssumption, SMT DEF Init, Clients, Registered
<1>3. Cardinality(Clients) = 0
  BY <1>2, FS_EmptySet
<1>4. CountsHandlers
  BY <1>3 DEF Init, CountsHandlers, Clients
<1> QED BY <1>1, <1>4 DEF IInv

\* Most steps leave the counter and the handlers it counts alone.
LEMMA Uncounted ==
  ASSUME IInv, Clients' = Clients, clnt_cnt' = clnt_cnt,
         fate' # "overrun" => fate # "overrun"
  PROVE  CountsHandlers'
BY DEF IInv, CountsHandlers, Clients

\* Clients connect, send requests, read or stop reading, and leave.
LEMMA ClientPreserves ==
  ASSUME IInv, NEW c \in Conns, Client(c)
  PROVE  IInv'
<1> USE DEF table, main, local, net
<1>1. Types' /\ Fresh' /\ Listed'
  <2> USE DEF IInv, Types, Fresh, Listed, PeerStates
  <2>1. CASE Connect(c)
    BY <2>1, SMT DEF Connect
  <2>2. CASE SendRequest(c)
    BY <2>2, SMT DEF SendRequest
  <2>3. CASE Drain(c)
    BY <2>3, SMT DEF Drain
  <2>4. CASE Exit(c)
    <3>1. PICK end \in {"fin", "reset"} : peer' = [peer EXCEPT ![c] = end]
      BY <2>4 DEF Exit
    <3> QED BY <2>4, <3>1, SMT DEF Exit
  <2> QED BY <2>1, <2>2, <2>3, <2>4 DEF Client
<1>2. UNCHANGED <<pc, mpc, cur, clnt_cnt, fate>>
  BY DEF Client, Connect, SendRequest, Drain, Exit
<1>3. Clients' = Clients
  BY <1>2 DEF Clients, Registered
<1> QED BY <1>1, <1>2, <1>3, Uncounted DEF IInv

\* main() accepts, appends to the table and creates a handler.
LEMMA MainPreserves ==
  ASSUME IsFiniteSet(Conns), IInv, Main
  PROVE  IInv'
<1> USE DEF table, main, local, net
<1>1. ASSUME NEW c \in Conns, Accept(c) PROVE IInv'
  <2>1. PICK fd \in Fds : files' = [files EXCEPT ![fd] = c] /\ clnt_sock' = fd
    BY <1>1 DEF Accept
  <2>2. Types' /\ Fresh' /\ Listed'
    BY <1>1, <2>1, NoneAssumption, SMT
       DEF Accept, IInv, Types, Fresh, Listed
  <2>3. Clients' = Clients
    BY <1>1, SMT DEF Accept, Clients, Registered
  <2> QED BY <1>1, <2>2, <2>3, Uncounted DEF IInv, Accept
<1>2. CASE AppendEntry
  <2>1. Types' /\ Fresh' /\ Listed'
    BY <1>2, SizeAssumption, SMT
       DEF AppendEntry, IInv, Types, Fresh, Listed, Slots
  <2>2. Clients' = Clients \cup {cur} /\ cur \notin Clients
    BY <1>2, SMT DEF AppendEntry, Clients, Registered, IInv, Fresh, Types
  <2>3. IsFiniteSet(Clients)
    BY FS_Subset DEF Clients
  <2>4. Cardinality(Clients') = Cardinality(Clients) + 1
    BY <2>2, <2>3, FS_AddElement
  <2>5. CountsHandlers'
    BY <1>2, <2>4 DEF AppendEntry, IInv, CountsHandlers, Clients
  <2> QED BY <2>1, <2>5 DEF IInv
<1>3. CASE AppendBeyond
  BY <1>3, SMT DEF AppendBeyond, IInv, Types, Fresh, Listed, CountsHandlers
<1>4. CASE Create
  <2>1. Types' /\ Fresh' /\ Listed'
    BY <1>4, NoneAssumption, SMT DEF Create, IInv, Types, Fresh, Listed
  <2>2. Clients' = Clients
    BY <1>4, SMT DEF Create, Clients, Registered, IInv, Fresh, Types
  <2> QED BY <1>4, <2>1, <2>2, Uncounted DEF IInv, Create
<1> QED BY <1>1, <1>2, <1>3, <1>4 DEF Main

\* A handler starts, reads, broadcasts, unregisters and closes.
LEMMA HandlerPreserves ==
  ASSUME IsFiniteSet(Conns), IInv, NEW t \in Conns, Handler(t)
  PROVE  IInv'
<1> USE DEF table, main, local, net
<1>1. CASE Start(t) \/ ReadRequest(t) \/ ReadEnd(t) \/ Lock(t) \/ Unlock(t)
           \/ Close(t)
  <2> DEFINE live == {"start", "read", "lock", "send", "remove"}
  <2>1. /\ UNCHANGED <<clnt_socks, clnt_cnt, mpc, clnt_sock, cur, peer,
                       queued, fate>>
        /\ idx' = idx \/ idx' = 0
        /\ \E q \in live \cup {"done"} : /\ pc' = [pc EXCEPT ![t] = q]
                                         /\ q \in live <=> pc[t] \in live
                                         /\ pc[t] # "none"
        /\ files' = files \/ files' = [files EXCEPT ![sock[t]] = None]
    BY <1>1, SMT DEF Start, ReadRequest, ReadEnd, Lock, Unlock, Close
  <2>2. PICK q \in live \cup {"done"} : /\ pc' = [pc EXCEPT ![t] = q]
                                        /\ q \in live <=> pc[t] \in live
                                        /\ pc[t] # "none"
    BY <2>1
  <2>3. Types' /\ Fresh' /\ Listed'
    BY <2>1, <2>2, SMT DEF IInv, Types, Fresh, Listed
  <2>4. Clients' = Clients
    BY <2>1, <2>2, SMT DEF IInv, Types, Clients, Registered
  <2> QED BY <2>1, <2>3, <2>4, Uncounted DEF IInv
<1>2. CASE WriteOne(t)
  <2>1. /\ fate = "running" /\ pc[t] = "send" /\ idx < clnt_cnt
        /\ idx' = idx + 1
        /\ UNCHANGED <<clnt_socks, clnt_cnt, mpc, clnt_sock, cur, pc, files,
                       queued, fate>>
    BY <1>2 DEF WriteOne
  <2> DEFINE c == files[clnt_socks[idx]]
  <2>2. clnt_socks[idx] \in Fds
    BY <2>1, SMT DEF IInv, Types, Listed
  <2>3. /\ c \in Conns \cup {None}
        /\ c # None => peer[c] \in PeerStates \ {"idle"}
    BY <2>2, SMT DEF IInv, Types, Fresh
  <2>4. /\ c = None => peer' = peer
        /\ c # None /\ peer[c] = "up" =>
             \E p \in {"up", "stalled"} : peer' = [peer EXCEPT ![c] = p]
        /\ c # None /\ peer[c] = "stalled" => FALSE
        /\ c # None /\ peer[c] \in {"fin", "reset"} =>
             peer' = [peer EXCEPT ![c] = "reset"]
    BY <1>2, SMT DEF WriteOne, Gone
  <2> HIDE DEF c
  <2>5. /\ peer' \in [Conns -> PeerStates]
        /\ \A d \in Conns : peer'[d] = "idle" <=> peer[d] = "idle"
    <3>1. CASE c = None
      BY <2>4, <3>1 DEF IInv, Types
    <3>2. CASE c # None
      <4>1. \E p \in {"up", "stalled", "reset"} :
              peer' = [peer EXCEPT ![c] = p]
        BY <2>3, <2>4, <3>2, SMT DEF PeerStates
      <4>2. PICK p \in {"up", "stalled", "reset"} :
              peer' = [peer EXCEPT ![c] = p]
        BY <4>1
      <4> QED BY <2>3, <3>2, <4>2, SMT DEF IInv, Types, PeerStates
    <3> QED BY <3>1, <3>2
  <2>6. Types' /\ Listed'
    BY <2>1, <2>5, SMT DEF IInv, Types, Listed
  <2>7. Fresh'
    <3>1. \A fd \in Fds : files[fd] # None => files[fd] \in Conns
      BY DEF IInv, Types
    <3> QED BY <2>1, <2>5, <3>1 DEF IInv, Types, Fresh
  <2>8. Clients' = Clients
    BY <2>1 DEF Clients, Registered
  <2> QED BY <2>1, <2>6, <2>7, <2>8, Uncounted DEF IInv
<1>3. CASE Sigpipe(t)
  <2>1. Types' /\ Fresh' /\ Listed' /\ Clients' = Clients
    BY <1>3 DEF Sigpipe, IInv, Types, Fresh, Listed, Clients, Registered
  <2> QED BY <1>3, <2>1, Uncounted DEF IInv, Sigpipe
<1>4. CASE Remove(t)
  <2>1. /\ fate = "running" /\ pc[t] = "remove"
        /\ clnt_cnt' = clnt_cnt - 1 /\ pc' = [pc EXCEPT ![t] = "close"]
        /\ UNCHANGED <<mpc, clnt_sock, cur, idx, files, queued, peer, fate>>
    BY <1>4 DEF Remove
  <2>2. \/ UNCHANGED clnt_socks
        \/ \E k \in 0 .. clnt_cnt - 1 : clnt_socks' = ShiftAfter(k)
    BY <1>4 DEF Remove, FirstEntry
  <2>3. Clients' = Clients \ {t} /\ t \in Clients
    BY <2>1, SMT DEF IInv, Types, Fresh, Clients, Registered
  <2>4. IsFiniteSet(Clients)
    BY FS_Subset DEF Clients
  <2>5. Cardinality(Clients') = Cardinality(Clients) - 1
    BY <2>3, <2>4, FS_RemoveElement
  <2>6. Cardinality(Clients') \in Nat
    BY <2>3, <2>4, FS_RemoveElement, FS_CardinalityType
  <2>7. clnt_cnt = Cardinality(Clients)
    BY <2>1 DEF IInv, CountsHandlers, Clients
  <2>8. clnt_cnt' \in Nat /\ CountsHandlers'
    BY <2>1, <2>5, <2>6, <2>7 DEF CountsHandlers, Clients
  <2>9. /\ clnt_socks' \in [Slots -> Fds \cup {0}]
        /\ \A k \in 0 .. clnt_cnt' - 1 : clnt_socks'[k] \in Fds
    <3>1. clnt_cnt \in Nat /\ clnt_cnt <= MAX_CLNT /\ MAX_CLNT \in Nat
      BY <2>1, SizeAssumption DEF IInv, Types, Listed
    <3>2. CASE UNCHANGED clnt_socks
      BY <2>1, <3>1, <3>2, SMT DEF IInv, Types, Listed
    <3>3. ASSUME NEW k \in 0 .. clnt_cnt - 1, clnt_socks' = ShiftAfter(k)
          PROVE  /\ clnt_socks' \in [Slots -> Fds \cup {0}]
                 /\ \A j \in 0 .. clnt_cnt' - 1 : clnt_socks'[j] \in Fds
      BY <2>1, <3>1, <3>3, SMT DEF IInv, Types, Listed, ShiftAfter, Slots
    <3> QED BY <2>2, <3>2, <3>3
  <2>10. Types' /\ Fresh'
    BY <2>1, <2>8, <2>9, SMT DEF IInv, Types, Fresh
  <2>11. clnt_cnt' <= MAX_CLNT
    BY <2>1, SizeAssumption, SMT DEF IInv, Types, Listed
  <2>12. Listed'
    BY <2>9, <2>11 DEF Listed
  <2> QED BY <2>8, <2>10, <2>12 DEF IInv
<1>5. CASE Spin(t)
  BY <1>5 DEF Spin, vars, IInv, Types, Fresh, Listed, CountsHandlers,
     Registered
<1> QED BY <1>1, <1>2, <1>3, <1>4, <1>5 DEF Handler, ReadReturnsEnd
-----------------------------------------------------------------------------

\* No step of anybody breaks the invariant.
LEMMA NextPreserves ==
  ASSUME IsFiniteSet(Conns), IInv, [Next]_vars
  PROVE  IInv'
<1>1. CASE UNCHANGED vars
  BY <1>1 DEF vars, IInv, Types, Fresh, Listed, CountsHandlers, Registered
<1>2. CASE Finished
  BY <1>1, <1>2 DEF Finished
<1>3. ASSUME NEW c \in Conns, Client(c) \/ Handler(c) PROVE IInv'
  BY <1>3, ClientPreserves, HandlerPreserves
<1> QED BY <1>1, <1>2, <1>3, MainPreserves DEF Next

\* The inductive invariant holds in every state of both servers.
LEMMA Invariance ==
  ASSUME IsFiniteSet(Conns)
  PROVE  Spec => []IInv
<1>1. Init => IInv
  BY InitInvariant
<1>2. IInv /\ [Next]_vars => IInv'
  BY NextPreserves
<1> QED BY <1>1, <1>2, PTL DEF Spec, Hw8Init

\* However the handlers' cleanups are interleaved with accept(), clnt_cnt is
\* the number of connections between their append and their removal.
THEOREM CountCorrect ==
  ASSUME IsFiniteSet(Conns)
  PROVE  Spec => []CountsHandlers
<1>1. IInv => CountsHandlers
  BY DEF IInv
<1> QED BY <1>1, Invariance, PTL

-----------------------------------------------------------------------------
(* The order of the results. *)

\* The handlers that have read a request and not finished its broadcast.
InHand == {t \in Conns : pc[t] \in {"lock", "send"}}

\* What a handler is about to broadcast is in no stream yet, though two of them
\* may serve one client; what is being broadcast is followed by nothing else
\* wherever it has arrived.
Latest(s, r) == \A c \in Conns : \A k, l \in DOMAIN s[c] :
                  k < l /\ s[c][k] = r => s[c][l] = r

Ordered ==
  /\ taken \in [Conns -> Nat] /\ sent \in [Conns -> 0 .. MaxReq]
  /\ stream \in [Conns -> Seq(Requests)]
  /\ req \in [Conns -> Requests \cup {None}]
  /\ \A t \in Conns : pc[t] = "send" <=> mutx = t
  /\ \A t \in InHand : req[t] \in Requests /\ req[t][2] <= taken[req[t][1]]
  /\ \A t, u \in InHand : req[t] = req[u] => t = u
  /\ \A c \in Conns : \A k \in DOMAIN stream[c] :
       stream[c][k][2] <= taken[stream[c][k][1]]
  /\ \A t \in Conns : pc[t] = "lock" =>
       \A c \in Conns : \A k \in DOMAIN stream[c] : stream[c][k] # req[t]
  /\ \A t \in Conns : pc[t] = "send" => Latest(stream, req[t])
  /\ SameOrder

\* Nothing has been delivered yet.
LEMMA OrderInit ==
  ASSUME Init PROVE Ordered
<1>1. \A c \in Conns : stream[c] = <<>>
  BY DEF Init
<1>2. stream \in [Conns -> Seq(Requests)]
  BY SMT DEF Init
<1>3. SameOrder
  BY <1>1, SMT DEF SameOrder
<1> QED BY <1>1, <1>2, <1>3, SizeAssumption, NoneAssumption, SMT
        DEF Init, Ordered, InHand

\* A step that neither writes nor touches what the handlers have in hand.
LEMMA OrderKept ==
  ASSUME Ordered, UNCHANGED <<taken, stream, req, mutx>>,
         sent' \in [Conns -> 0 .. MaxReq],
         \A t \in Conns : pc[t] \in {"lock", "send"}
                            \/ pc'[t] \in {"lock", "send"} => pc'[t] = pc[t]
  PROVE  Ordered'
<1>1. InHand' = InHand
  BY DEF InHand
<1>2. \A t \in Conns : /\ pc'[t] = "send" <=> pc[t] = "send"
                       /\ pc'[t] = "lock" <=> pc[t] = "lock"
  OBVIOUS
<1>3. SameOrder'
  BY DEF Ordered, SameOrder
<1> QED BY <1>1, <1>2, <1>3 DEF Ordered, Latest

\* A handler reads its next request: it is in nobody's stream.
LEMMA OrderRead ==
  ASSUME IInv, Ordered, NEW t \in Conns, ReadRequest(t)
  PROVE  Ordered'
<1> USE DEF main, local, net, table
<1>1. PICK c \in Conns : /\ taken[c] < sent[c]
                         /\ taken' = [taken EXCEPT ![c] = @ + 1]
                         /\ req' = [req EXCEPT ![t] = <<c, taken[c] + 1>>]
  BY DEF ReadRequest
<1>2. /\ pc[t] = "read" /\ pc' = [pc EXCEPT ![t] = "lock"]
      /\ UNCHANGED <<mutx, stream, sent>>
  BY DEF ReadRequest
<1> DEFINE r == <<c, taken[c] + 1>>
<1>3. r \in Requests
  BY <1>1, SizeAssumption, SMT DEF Ordered, Requests
<1>4. \A d \in Conns : taken'[d] \in Nat /\ taken[d] <= taken'[d]
  BY <1>1, SMT DEF Ordered
<1>5. r[1] = c /\ r[2] = taken[c] + 1 /\ ~ (r[2] <= taken[r[1]])
      /\ r[2] <= taken'[r[1]]
  BY <1>1, SMT DEF Ordered
<1> HIDE DEF r
<1>6. \A u \in Conns : /\ pc'[u] = IF u = t THEN "lock" ELSE pc[u]
                       /\ req'[u] = IF u = t THEN r ELSE req[u]
  BY <1>1, <1>2, SMT DEF IInv, Types, Ordered, r
<1>7. InHand' = InHand \cup {t} /\ t \notin InHand
  BY <1>2, <1>6, SMT DEF InHand
<1>8. /\ taken' \in [Conns -> Nat] /\ sent' \in [Conns -> 0 .. MaxReq]
      /\ stream' \in [Conns -> Seq(Requests)]
      /\ req' \in [Conns -> Requests \cup {None}]
  BY <1>1, <1>2, <1>3, SMT DEF Ordered, r
<1>9. \A u \in Conns : pc'[u] = "send" <=> mutx' = u
  BY <1>2, <1>6 DEF Ordered
<1>10. \A q \in Requests : q[1] \in Conns /\ q[2] \in Nat
  BY SMT DEF Requests
<1>11. \A q \in Requests : q[2] <= taken[q[1]] => q[2] <= taken'[q[1]]
  BY <1>4, <1>10, SMT DEF Ordered
<1>12. \A u \in InHand' : /\ req'[u] \in Requests
                          /\ req'[u][2] <= taken'[req'[u][1]]
  BY <1>3, <1>5, <1>6, <1>7, <1>11 DEF Ordered, InHand
<1>13. \A u \in InHand : req[u] # r
  BY <1>5 DEF Ordered
<1>14. \A u, v \in InHand' : req'[u] = req'[v] => u = v
  <2> SUFFICES ASSUME NEW u \in InHand', NEW v \in InHand', req'[u] = req'[v]
               PROVE  u = v
    OBVIOUS
  <2>1. u \in Conns /\ v \in Conns
    BY DEF InHand
  <2>2. CASE u = t \/ v = t
    BY <1>6, <1>7, <1>13, <2>1, <2>2
  <2>3. CASE u # t /\ v # t
    BY <1>6, <1>7, <2>1, <2>3 DEF Ordered
  <2> QED BY <2>2, <2>3
<1>15. \A d \in Conns : \A k \in DOMAIN stream[d] :
         /\ stream[d][k] \in Requests /\ stream[d][k] # r
         /\ stream[d][k][2] <= taken'[stream[d][k][1]]
  <2> TAKE d \in Conns
  <2> TAKE k \in DOMAIN stream[d]
  <2>1. stream[d][k] \in Requests
    BY SMT DEF Ordered
  <2>2. stream[d][k][2] <= taken[stream[d][k][1]]
    BY DEF Ordered
  <2> QED BY <1>5, <1>11, <2>1, <2>2
<1>16. \A u \in Conns : pc'[u] = "lock" =>
         \A d \in Conns : \A k \in DOMAIN stream[d] : stream[d][k] # req'[u]
  <2> TAKE u \in Conns
  <2>1. CASE u = t
    BY <1>6, <1>15, <2>1
  <2>2. CASE u # t
    <3>1. pc'[u] = pc[u] /\ req'[u] = req[u]
      BY <1>6, <2>2
    <3>2. pc[u] = "lock" =>
            \A d \in Conns : \A k \in DOMAIN stream[d] : stream[d][k] # req[u]
      BY DEF Ordered
    <3> QED BY <3>1, <3>2
  <2> QED BY <2>1, <2>2
<1>17. \A u \in Conns : pc'[u] = "send" => Latest(stream, req'[u])
  BY <1>6 DEF Ordered
<1>18. SameOrder'
  BY <1>2 DEF Ordered, SameOrder
<1> QED BY <1>2, <1>8, <1>9, <1>12, <1>14, <1>15, <1>16, <1>17, <1>18
        DEF Ordered

\* SameOrder, of any streams.
InOneOrder(s) ==
  \A d, e \in Conns : \A k, l \in DOMAIN s[d] :
    k < l /\ s[d][k] # s[d][l] => ~ Before(s[e], s[d][l], s[d][k])

\* A result that is appended to one stream.
LEMMA OrderAppend ==
  ASSUME NEW s \in [Conns -> Seq(Requests)], NEW c \in Conns,
         NEW r \in Requests, Latest(s, r), InOneOrder(s),
         NEW z, z = [s EXCEPT ![c] = Append(@, r)]
  PROVE  /\ z \in [Conns -> Seq(Requests)]
         /\ \A d \in Conns : \A k \in DOMAIN z[d] :
              z[d][k] = r \/ (k \in DOMAIN s[d] /\ z[d][k] = s[d][k])
         /\ Latest(z, r) /\ InOneOrder(z)
<1>1. /\ z \in [Conns -> Seq(Requests)]
      /\ \A d \in Conns : z[d] = IF d = c THEN Append(s[c], r) ELSE s[d]
  BY SMT
<1>2. /\ Len(s[c]) \in Nat /\ DOMAIN s[c] = 1 .. Len(s[c])
      /\ DOMAIN z[c] = 1 .. Len(s[c]) + 1
      /\ z[c][Len(s[c]) + 1] = r
      /\ \A k \in 1 .. Len(s[c]) : z[c][k] = s[c][k]
  BY <1>1, SMT
<1>3. \A d \in Conns : \A k \in DOMAIN z[d] :
        \/ k \in DOMAIN s[d] /\ z[d][k] = s[d][k]
        \/ d = c /\ k = Len(s[c]) + 1 /\ z[d][k] = r
  BY <1>1, <1>2, SMT
<1>4. Latest(z, r)
  <2> SUFFICES ASSUME NEW d \in Conns, NEW k \in DOMAIN z[d],
                      NEW l \in DOMAIN z[d], k < l, z[d][k] = r
               PROVE  z[d][l] = r
    BY DEF Latest
  <2>1. CASE l \in DOMAIN s[d] /\ z[d][l] = s[d][l]
    <3>1. k \in DOMAIN s[d] /\ z[d][k] = s[d][k]
      <4>1. CASE d = c /\ k = Len(s[c]) + 1
        BY <1>2, <2>1, <4>1, SMT
      <4> QED BY <1>3, <4>1
    <3> QED BY <2>1, <3>1 DEF Latest
  <2> QED BY <1>3, <2>1
<1>5. ASSUME NEW d \in Conns, NEW e \in Conns, NEW k \in DOMAIN z[d],
             NEW l \in DOMAIN z[d], k < l, z[d][k] # z[d][l],
             Before(z[e], z[d][l], z[d][k])
      PROVE  FALSE
  <2>1. PICK m, n \in DOMAIN z[e] :
               m < n /\ z[e][m] = z[d][l] /\ z[e][n] = z[d][k]
    BY <1>5 DEF Before
  <2>2. z[d][k] # r
    BY <1>4, <1>5 DEF Latest
  <2>3. z[d][l] # r
    BY <1>4, <1>5, <2>1, <2>2 DEF Latest
  <2>4. /\ k \in DOMAIN s[d] /\ z[d][k] = s[d][k]
        /\ l \in DOMAIN s[d] /\ z[d][l] = s[d][l]
        /\ m \in DOMAIN s[e] /\ z[e][m] = s[e][m]
        /\ n \in DOMAIN s[e] /\ z[e][n] = s[e][n]
    BY <1>3, <2>1, <2>2, <2>3
  <2>5. Before(s[e], s[d][l], s[d][k])
    BY <2>1, <2>4 DEF Before
  <2> QED BY <1>5, <2>4, <2>5 DEF InOneOrder
<1>6. \A d \in Conns : \A k \in DOMAIN z[d] :
        z[d][k] = r \/ (k \in DOMAIN s[d] /\ z[d][k] = s[d][k])
  BY <1>3
<1>7. InOneOrder(z)
  BY <1>5 DEF InOneOrder
<1> QED BY <1>1, <1>4, <1>6, <1>7

\* A write of the broadcast loop puts the result behind what its client has
\* got, wherever the table leads it.
LEMMA OrderWrite ==
  ASSUME IInv, Ordered, NEW t \in Conns, WriteOne(t)
  PROVE  Ordered'
<1> USE DEF main, local, net, table
<1>1. /\ fate = "running" /\ pc[t] = "send" /\ idx < clnt_cnt
      /\ UNCHANGED <<mutx, pc, req, sent, taken>>
  BY DEF WriteOne
<1> DEFINE c == files[clnt_socks[idx]]
<1>2. c \in Conns \cup {None}
  <2>1. clnt_socks[idx] \in Fds
    BY <1>1, SMT DEF IInv, Types, Listed
  <2> QED BY <2>1 DEF IInv, Types
<1>3. \/ stream' = stream
      \/ c # None /\ stream' = [stream EXCEPT ![c] = Append(@, req[t])]
  BY DEF WriteOne
<1> HIDE DEF c
<1>4. t \in InHand /\ \A u \in Conns : pc[u] = "send" => u = t
  BY <1>1 DEF Ordered, InHand
<1>5. CASE stream' = stream
  BY <1>1, <1>5, OrderKept DEF Ordered
<1>6. CASE c # None /\ stream' = [stream EXCEPT ![c] = Append(@, req[t])]
  <2>1. /\ stream' \in [Conns -> Seq(Requests)]
        /\ \A d \in Conns : \A k \in DOMAIN stream'[d] :
             \/ stream'[d][k] = req[t]
             \/ k \in DOMAIN stream[d] /\ stream'[d][k] = stream[d][k]
        /\ Latest(stream', req[t])
        /\ SameOrder'
    <3>1. req[t] \in Requests /\ Latest(stream, req[t]) /\ SameOrder
          /\ stream \in [Conns -> Seq(Requests)] /\ c \in Conns
      BY <1>1, <1>2, <1>4, <1>6 DEF Ordered
    <3>2. InOneOrder(stream)
      BY <3>1 DEF SameOrder, InOneOrder
    <3>3. InOneOrder(stream')
      BY <1>6, <3>1, <3>2, OrderAppend
    <3>4. stream' \in [Conns -> Seq(Requests)] /\ Latest(stream', req[t])
      BY <1>6, <3>1, <3>2, OrderAppend
    <3>5. \A d \in Conns : \A k \in DOMAIN stream'[d] :
            \/ stream'[d][k] = req[t]
            \/ k \in DOMAIN stream[d] /\ stream'[d][k] = stream[d][k]
      BY <1>6, <3>1, <3>2, OrderAppend
    <3>6. SameOrder'
      BY <3>3 DEF SameOrder, InOneOrder
    <3> QED BY <3>4, <3>5, <3>6
  <2>2. InHand' = InHand
    BY <1>1 DEF InHand
  <2>3. \A d \in Conns : \A k \in DOMAIN stream'[d] :
          stream'[d][k][2] <= taken[stream'[d][k][1]]
    <3> TAKE d \in Conns
    <3> TAKE k \in DOMAIN stream'[d]
    <3>1. CASE stream'[d][k] = req[t]
      BY <1>4, <3>1 DEF Ordered
    <3>2. CASE k \in DOMAIN stream[d] /\ stream'[d][k] = stream[d][k]
      BY <3>2 DEF Ordered
    <3> QED BY <2>1, <3>1, <3>2
  <2>4. \A u \in Conns : pc[u] = "lock" =>
          \A d \in Conns : \A k \in DOMAIN stream'[d] : stream'[d][k] # req[u]
    <3>1. \A u \in Conns : pc[u] = "lock" => req[u] # req[t]
      BY <1>1, <1>4 DEF Ordered, InHand
    <3> QED BY <2>1, <3>1 DEF Ordered
  <2>5. \A u \in Conns : pc[u] = "send" => Latest(stream', req[u])
    BY <1>4, <2>1
  <2> QED BY <1>1, <2>1, <2>2, <2>3, <2>4, <2>5 DEF Ordered
<1> QED BY <1>3, <1>5, <1>6

\* Taking the mutex makes a result the latest one; giving it back ends that.
LEMMA OrderLock ==
  ASSUME IInv, Ordered, NEW t \in Conns, Lock(t) \/ Unlock(t)
  PROVE  Ordered'
<1> USE DEF main, local, net, table
<1>1. UNCHANGED <<taken, sent, stream>>
  BY DEF Lock, Unlock
<1>2. SameOrder'
  BY <1>1 DEF Ordered, SameOrder
<1>3. CASE Lock(t)
  <2>1. /\ pc[t] = "lock" /\ mutx = None /\ mutx' = t /\ req' = req
        /\ \A u \in Conns : pc'[u] = IF u = t THEN "send" ELSE pc[u]
    BY <1>3, SMT DEF Lock, IInv, Types
  <2>2. InHand' = InHand /\ t \in InHand
    BY <2>1 DEF InHand
  <2>3. \A u \in Conns : pc'[u] = "send" <=> mutx' = u
    BY <2>1, NoneAssumption DEF Ordered
  <2>4. \A u \in Conns : pc'[u] = "lock" => pc[u] = "lock"
    BY <2>1
  <2>5. Latest(stream, req[t])
    BY <2>1 DEF Ordered, Latest
  <2>6. \A u \in Conns : pc'[u] = "send" => Latest(stream, req[u])
    BY <2>1, <2>3, <2>5
  <2> QED BY <1>1, <1>2, <2>1, <2>2, <2>3, <2>4, <2>6 DEF Ordered
<1>4. CASE Unlock(t)
  <2>1. /\ pc[t] = "send" /\ mutx' = None
        /\ req' = [req EXCEPT ![t] = None]
        /\ \A u \in Conns : pc'[u] = IF u = t THEN "read" ELSE pc[u]
    BY <1>4, SMT DEF Unlock, IInv, Types
  <2>2. /\ req' \in [Conns -> Requests \cup {None}]
        /\ \A u \in Conns : u # t => req'[u] = req[u]
    BY <2>1, SMT DEF Ordered
  <2>3. InHand' = InHand \ {t}
    BY <2>1 DEF InHand
  <2>4. \A u \in Conns : pc'[u] # "send"
    BY <2>1 DEF Ordered
  <2>5. \A u \in Conns : pc'[u] = "lock" => pc[u] = "lock" /\ u # t
    BY <2>1
  <2>6. \A u \in Conns : pc'[u] = "send" <=> mutx' = u
    BY <2>1, <2>4, NoneAssumption
  <2>7. \A u \in Conns : pc'[u] = "lock" =>
          \A d \in Conns : \A k \in DOMAIN stream[d] : stream[d][k] # req'[u]
    BY <2>2, <2>5 DEF Ordered
  <2>8. /\ \A u \in InHand' : /\ req'[u] \in Requests
                              /\ req'[u][2] <= taken[req'[u][1]]
        /\ \A u, v \in InHand' : req'[u] = req'[v] => u = v
    BY <2>2, <2>3 DEF Ordered, InHand
  <2> QED BY <1>1, <1>2, <2>2, <2>4, <2>6, <2>7, <2>8 DEF Ordered
<1> QED BY <1>3, <1>4

\* No step of anybody breaks the order.
LEMMA OrderPreserved ==
  ASSUME IInv, Ordered, [Next]_vars
  PROVE  Ordered'
<1> USE DEF main, local, net, table
<1>1. CASE UNCHANGED vars
  BY <1>1, OrderKept DEF vars, Ordered
<1>2. CASE Finished
  BY <1>1, <1>2 DEF Finished
<1>3. ASSUME NEW c \in Conns, Client(c) PROVE Ordered'
  <2>1. sent' \in [Conns -> 0 .. MaxReq]
    <3>1. CASE SendRequest(c)
      <4>1. sent[c] < MaxReq /\ sent' = [sent EXCEPT ![c] = @ + 1]
            /\ sent \in [Conns -> 0 .. MaxReq]
        BY <3>1 DEF SendRequest, Ordered
      <4>2. sent[c] + 1 \in 0 .. MaxReq
        BY <4>1, SizeAssumption, SMT
      <4> QED BY <4>1, <4>2
    <3>2. CASE ~ SendRequest(c)
      BY <1>3, <3>2 DEF Client, Connect, Drain, Exit, Ordered
    <3> QED BY <3>1, <3>2
  <2>2. UNCHANGED <<taken, stream, req, mutx, pc>>
    BY <1>3 DEF Client, Connect, SendRequest, Drain, Exit
  <2> QED BY <2>1, <2>2, OrderKept
<1>4. CASE Main
  <2>1. UNCHANGED <<taken, stream, req, mutx, sent>>
    BY <1>4 DEF Main, Accept, AppendEntry, AppendBeyond, Create
  <2>2. CASE Create
    <3>1. pc[cur] = "none" /\ pc' = [pc EXCEPT ![cur] = "start"]
          /\ cur \in Conns
      BY <2>2, SMT DEF Create, IInv, Fresh
    <3>2. \A u \in Conns : pc[u] \in {"lock", "send"}
                             \/ pc'[u] \in {"lock", "send"} => pc'[u] = pc[u]
      BY <3>1, SMT DEF IInv, Types
    <3> QED BY <2>1, <3>2, OrderKept DEF Ordered
  <2>3. CASE ~ Create
    <3>1. pc' = pc
      BY <1>4, <2>3 DEF Main, Accept, AppendEntry, AppendBeyond
    <3> QED BY <2>1, <3>1, OrderKept DEF Ordered
  <2> QED BY <2>2, <2>3
<1>5. ASSUME NEW t \in Conns, Handler(t) PROVE Ordered'
  <2>1. CASE Start(t) \/ ReadEnd(t) \/ Remove(t) \/ Close(t)
    <3>1. UNCHANGED <<taken, stream, req, mutx, sent>>
      BY <2>1 DEF Start, ReadEnd, Remove, Close
    <3>2. /\ pc[t] \notin {"lock", "send"}
          /\ \E q \in {"read", "remove", "close", "done"} :
               pc' = [pc EXCEPT ![t] = q]
      BY <2>1, SMT DEF Start, ReadEnd, Remove, Close
    <3>3. \A u \in Conns : pc[u] \in {"lock", "send"}
                             \/ pc'[u] \in {"lock", "send"} => pc'[u] = pc[u]
      BY <3>2, SMT DEF IInv, Types
    <3> QED BY <3>1, <3>3, OrderKept DEF Ordered
  <2>2. CASE Sigpipe(t) \/ Spin(t)
    <3>1. UNCHANGED <<taken, stream, req, mutx, sent, pc>>
      BY <2>2 DEF Sigpipe, Spin, vars
    <3> QED BY <3>1, OrderKept DEF Ordered
  <2> QED BY <1>5, <2>1, <2>2, OrderRead, OrderLock, OrderWrite
          DEF Handler, ReadReturnsEnd
<1> QED BY <1>1, <1>2, <1>3, <1>4, <1>5 DEF Next

\* No two clients get two results in opposite orders, for any number of
\* clients: even where several handlers serve one connection, and where the
\* table lists it twice.
THEOREM OrderCorrect ==
  ASSUME IsFiniteSet(Conns)
  PROVE  Spec => []SameOrder
<1>1. Init => Ordered
  BY OrderInit
<1>2. IInv /\ Ordered /\ [Next]_vars => Ordered'
  BY OrderPreserved
<1>3. Ordered => SameOrder
  BY DEF Ordered
<1> QED BY <1>1, <1>2, <1>3, Invariance, PTL DEF Spec, Hw8Init
=============================================================================
