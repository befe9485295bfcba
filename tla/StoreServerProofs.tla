------------------------- MODULE StoreServerProofs --------------------------
(***************************************************************************)
(* For any number of clients, ids and descriptors and any sizes: the two   *)
(* processes of hw6_server.c keep to one protocol on their pipes, and the  *)
(* child's records never diverge from the parent's.                        *)
(***************************************************************************)
EXTENDS StoreServer, SequenceTheorems, TLAPS

-----------------------------------------------------------------------------
(* What a write or a read at the pipe does to two agreeing lists.           *)

Mode(w)   == \E m \in {"save", "load", "quit"} : w = <<"mode", m>>
Rec(w)    == \E r \in Records : w = <<"record", r>>
Ident(w)  == \E x \in AnyId : w = <<"id", x>>

\* What is written into fdsA is a mode, a record or an id, and nothing else.
LEMMA WriteKinds ==
  ASSUME NEW w \in Writes
  PROVE  /\ Kind(w) \in {"mode", "record", "id"}
         /\ Kind(w) = "mode" => Mode(w)
         /\ Kind(w) = "record" => Rec(w) /\ Body(w) \in Records
                               /\ w = <<"record", Body(w)>>
         /\ Kind(w) = "id" => Ident(w) /\ Body(w) \in AnyId
BY SMT DEF Writes, Mode, Rec, Ident, Kind, Body

\* A write that is no record.
LEMMA AgreeWrite ==
  ASSUME NEW data \in Seq(Records), NEW st \in Seq(Records),
         NEW pipe \in Seq(Writes), NEW w \in Writes, Kind(w) # "record",
         Agree(data, st, pipe)
  PROVE  Agree(data, st, Append(pipe, w))
<1>1. PICK at \in [1 .. Len(data) - Len(st) -> 1 .. Len(pipe)] :
        OnTheWay(at, data, st, pipe)
  BY DEF Agree
<1> DEFINE p == Append(pipe, w)
<1>2. /\ Len(p) = Len(pipe) + 1 /\ Len(pipe) \in Nat
      /\ \A n \in 1 .. Len(pipe) : p[n] = pipe[n]
      /\ p[Len(pipe) + 1] = w
  BY SMT
<1> HIDE DEF p
<1>3. at \in [1 .. Len(data) - Len(st) -> 1 .. Len(p)]
  BY <1>1, <1>2, SMT
<1>4. \A n \in DOMAIN at : p[at[n]] = pipe[at[n]]
  <2> TAKE n \in DOMAIN at
  <2>1. at[n] \in 1 .. Len(pipe)
    BY <1>1
  <2> QED BY <1>2, <2>1
<1>5. ASSUME NEW n \in 1 .. Len(p), Kind(p[n]) = "record"
      PROVE  \E m \in DOMAIN at : at[m] = n
  <2>1. n \in 1 .. Len(pipe) /\ p[n] = pipe[n]
    BY <1>2, <1>5, SMT
  <2> QED BY <1>1, <1>5, <2>1 DEF OnTheWay
<1>6. OnTheWay(at, data, st, p)
  BY <1>1, <1>4, <1>5, Zenon DEF OnTheWay
<1> QED BY <1>3, <1>6 DEF Agree, p

\* The parent appends a record to its list and writes it into the pipe.
LEMMA AgreeSave ==
  ASSUME NEW data \in Seq(Records), NEW st \in Seq(Records),
         NEW pipe \in Seq(Writes), NEW r \in Records,
         Agree(data, st, pipe)
  PROVE  Agree(Append(data, r), st, Append(pipe, <<"record", r>>))
<1>1. PICK at \in [1 .. Len(data) - Len(st) -> 1 .. Len(pipe)] :
        OnTheWay(at, data, st, pipe)
  BY DEF Agree
<1> DEFINE p == Append(pipe, <<"record", r>>)
           d == Append(data, r)
           gap == Len(data) - Len(st)
           next == [n \in 1 .. gap + 1 |->
                      IF n = gap + 1 THEN Len(pipe) + 1 ELSE at[n]]
<1>2. /\ Len(p) = Len(pipe) + 1 /\ Len(pipe) \in Nat
      /\ \A n \in 1 .. Len(pipe) : p[n] = pipe[n]
      /\ p[Len(pipe) + 1] = <<"record", r>>
  BY SMT
<1>3. /\ Len(d) = Len(data) + 1 /\ Len(data) \in Nat /\ Len(st) \in Nat
      /\ \A n \in 1 .. Len(data) : d[n] = data[n]
      /\ d[Len(data) + 1] = r
  BY SMT
<1>4. Len(st) <= Len(data) /\ \A n \in 1 .. Len(st) : st[n] = data[n]
  BY DEF Agree
<1> HIDE DEF p, d
<1>5. next \in [1 .. Len(d) - Len(st) -> 1 .. Len(p)]
  <2>1. Len(d) - Len(st) = gap + 1 /\ gap \in Nat
    BY <1>3, <1>4, SMT
  <2>2. /\ next = [n \in 1 .. gap + 1 |->
                     IF n = gap + 1 THEN Len(pipe) + 1 ELSE at[n]]
        /\ \A n \in 1 .. gap : at[n] \in 1 .. Len(pipe)
    BY <1>1
  <2> HIDE DEF gap, next
  <2>3. ASSUME NEW n \in 1 .. gap + 1
        PROVE  next[n] \in 1 .. Len(p)
    <3>1. n = gap + 1 \/ n \in 1 .. gap
      BY <2>1, SMT
    <3> QED BY <1>2, <2>2, <3>1, SMT
  <2> QED BY <2>1, <2>2, <2>3
<1>6. OnTheWay(next, d, st, p)
  <2>1. /\ gap \in Nat /\ Len(st) + gap = Len(data)
        /\ DOMAIN next = 1 .. gap + 1 /\ DOMAIN at = 1 .. gap
    BY <1>1, <1>3, <1>4, SMT
  <2>2. next[gap + 1] = Len(pipe) + 1 /\ Len(st) + (gap + 1) = Len(data) + 1
    BY <1>3, <2>1, SMT
  <2>3. ASSUME NEW n \in 1 .. gap
        PROVE  /\ n \in DOMAIN next /\ next[n] = at[n]
               /\ next[n] \in 1 .. Len(pipe)
    <3>1. n \in 1 .. gap + 1 /\ n # gap + 1
      BY <2>1, SMT
    <3>2. at[n] \in 1 .. Len(pipe)
      BY <1>1, <2>1
    <3> QED BY <2>1, <3>1, <3>2
  <2> HIDE DEF gap, next
  <2>4. \A n \in DOMAIN next : n \in 1 .. gap \/ n = gap + 1
    BY <2>1, SMT
  <2>5. ASSUME NEW n \in DOMAIN next
        PROVE  Kind(p[next[n]]) = "record" /\ Body(p[next[n]]) = d[Len(st) + n]
    <3>1. CASE n = gap + 1
      BY <1>2, <1>3, <2>2, <3>1 DEF Kind, Body
    <3>2. CASE n \in 1 .. gap
      <4>1. Len(st) + n \in 1 .. Len(data)
        BY <1>3, <2>1, <3>2, SMT
      <4>2. /\ Kind(pipe[at[n]]) = "record"
            /\ Body(pipe[at[n]]) = data[Len(st) + n]
        BY <1>1, <2>1, <3>2 DEF OnTheWay
      <4> QED BY <1>2, <1>3, <2>3, <3>2, <4>1, <4>2
    <3> QED BY <2>4, <3>1, <3>2
  <2>6. ASSUME NEW m \in DOMAIN next, NEW n \in DOMAIN next, m < n
        PROVE  next[m] < next[n]
    <3>1. m \in 1 .. gap
      BY <2>1, <2>6, SMT
    <3>2. CASE n = gap + 1
      BY <1>2, <2>2, <2>3, <3>1, <3>2, SMT
    <3>3. CASE n \in 1 .. gap
      BY <1>1, <2>1, <2>3, <2>6, <3>1, <3>3 DEF OnTheWay
    <3> QED BY <2>4, <3>2, <3>3
  <2>7. ASSUME NEW n \in 1 .. Len(p), Kind(p[n]) = "record"
        PROVE  \E m \in DOMAIN next : next[m] = n
    <3>1. CASE n = Len(pipe) + 1
      <4>1. gap + 1 \in DOMAIN next
        BY <2>1, SMT
      <4> QED BY <2>2, <3>1, <4>1
    <3>2. CASE n # Len(pipe) + 1
      <4>1. n \in 1 .. Len(pipe) /\ p[n] = pipe[n]
        BY <1>2, <3>2, SMTT(20)
      <4>2. PICK m \in DOMAIN at : at[m] = n
        BY <1>1, <2>7, <4>1 DEF OnTheWay
      <4> QED BY <2>1, <2>3, <4>2
    <3> QED BY <3>1, <3>2
  <2> QED BY <2>5, <2>6, <2>7 DEF OnTheWay
<1>7. Len(st) <= Len(d) /\ \A n \in 1 .. Len(st) : st[n] = d[n]
  BY <1>3, <1>4, SMT
<1>8. Agree(d, st, p)
  BY <1>5, <1>6, <1>7 DEF Agree
<1> QED BY <1>8 DEF p, d

\* The child takes a write that is no record.
LEMMA AgreeRead ==
  ASSUME NEW data \in Seq(Records), NEW st \in Seq(Records),
         NEW pipe \in Seq(Writes), pipe # <<>>, Kind(pipe[1]) # "record",
         Agree(data, st, pipe)
  PROVE  Agree(data, st, Tail(pipe))
<1>1. PICK at \in [1 .. Len(data) - Len(st) -> 1 .. Len(pipe)] :
        OnTheWay(at, data, st, pipe)
  BY DEF Agree
<1> DEFINE p == Tail(pipe)
           next == [n \in 1 .. Len(data) - Len(st) |-> at[n] - 1]
<1>2. /\ Len(p) = Len(pipe) - 1 /\ Len(pipe) \in Nat
      /\ \A n \in 1 .. Len(p) : p[n] = pipe[n + 1]
  BY SMT
<1>3. ASSUME NEW n \in DOMAIN at
      PROVE  at[n] \in 2 .. Len(pipe)
  <2>1. at[n] \in 1 .. Len(pipe)
    BY <1>1
  <2>2. Kind(pipe[at[n]]) = "record"
    BY <1>1 DEF OnTheWay
  <2> QED BY <2>1, <2>2, SMT
<1> HIDE DEF p
<1>4. next \in [1 .. Len(data) - Len(st) -> 1 .. Len(p)]
  BY <1>1, <1>2, <1>3, SMT
<1>5. OnTheWay(next, data, st, p)
  <2>1. ASSUME NEW n \in DOMAIN next
        PROVE  /\ Kind(p[next[n]]) = "record"
               /\ Body(p[next[n]]) = data[Len(st) + n]
    <3>1. n \in DOMAIN at /\ p[next[n]] = pipe[at[n]]
      BY <1>1, <1>2, <1>3, SMT
    <3> QED BY <1>1, <3>1 DEF OnTheWay
  <2>2. ASSUME NEW m \in DOMAIN next, NEW n \in DOMAIN next, m < n
        PROVE  next[m] < next[n]
    <3>1. /\ m \in DOMAIN at /\ n \in DOMAIN at
          /\ next[m] = at[m] - 1 /\ next[n] = at[n] - 1
      BY <1>1
    <3>2. at[m] < at[n]
      BY <1>1, <2>2, <3>1 DEF OnTheWay
    <3> QED BY <1>3, <3>1, <3>2, SMT
  <2>3. ASSUME NEW n \in 1 .. Len(p), Kind(p[n]) = "record"
        PROVE  \E m \in DOMAIN next : next[m] = n
    <3>1. n + 1 \in 1 .. Len(pipe) /\ p[n] = pipe[n + 1] /\ n \in Nat
      BY <1>2, SMT
    <3>2. PICK m \in DOMAIN at : at[m] = n + 1
      BY <1>1, <2>3, <3>1 DEF OnTheWay
    <3>3. m \in DOMAIN next /\ next[m] = n
      BY <1>1, <3>1, <3>2, SMT
    <3> QED BY <3>3
  <2> QED BY <2>1, <2>2, <2>3 DEF OnTheWay
<1>6. Agree(data, st, p)
  BY <1>4, <1>5, SMT DEF Agree
<1> QED BY <1>6 DEF p

\* The child takes a record and appends it to its list.
LEMMA AgreeStore ==
  ASSUME NEW data \in Seq(Records), NEW st \in Seq(Records),
         NEW pipe \in Seq(Writes), pipe # <<>>, Kind(pipe[1]) = "record",
         Agree(data, st, pipe)
  PROVE  Agree(data, Append(st, Body(pipe[1])), Tail(pipe))
<1>1. PICK at \in [1 .. Len(data) - Len(st) -> 1 .. Len(pipe)] :
        OnTheWay(at, data, st, pipe)
  BY DEF Agree
<1> DEFINE p == Tail(pipe)
           s == Append(st, Body(pipe[1]))
           next == [n \in 1 .. Len(data) - Len(s) |-> at[n + 1] - 1]
<1>2. /\ Len(p) = Len(pipe) - 1 /\ Len(pipe) \in Nat \ {0}
      /\ \A n \in 1 .. Len(p) : p[n] = pipe[n + 1]
  BY SMT
<1>3. /\ Len(s) = Len(st) + 1 /\ Len(st) \in Nat /\ Len(data) \in Nat
      /\ \A n \in 1 .. Len(st) : s[n] = st[n]
      /\ s[Len(st) + 1] = Body(pipe[1])
  BY SMT
<1>4. PICK m \in DOMAIN at : at[m] = 1
  BY <1>1, <1>2, SMT DEF OnTheWay
<1>5. 1 \in DOMAIN at /\ at[1] = 1 /\ Len(st) < Len(data)
  <2>1. 1 \in DOMAIN at /\ m \in Nat /\ m >= 1 /\ Len(st) < Len(data)
    BY <1>1, <1>3, <1>4, SMT
  <2>2. at[1] \in 1 .. Len(pipe)
    BY <1>1, <2>1
  <2>3. m = 1
    BY <1>1, <1>4, <2>1, <2>2, SMT DEF OnTheWay
  <2> QED BY <1>4, <2>1, <2>3
<1>6. data[Len(st) + 1] = Body(pipe[1])
  BY <1>1, <1>5, SMT DEF OnTheWay
<1>7. ASSUME NEW n \in DOMAIN at, n > 1
      PROVE  at[n] \in 2 .. Len(pipe)
  <2>1. at[n] \in 1 .. Len(pipe)
    BY <1>1
  <2>2. at[1] < at[n]
    BY <1>1, <1>5, <1>7 DEF OnTheWay
  <2> QED BY <1>5, <2>1, <2>2, SMT
<1> HIDE DEF p, s
<1>8. next \in [1 .. Len(data) - Len(s) -> 1 .. Len(p)]
  <2> SUFFICES ASSUME NEW n \in 1 .. Len(data) - Len(s)
               PROVE  at[n + 1] - 1 \in 1 .. Len(p)
    OBVIOUS
  <2>1. n + 1 \in 1 .. Len(data) - Len(st) /\ n + 1 > 1
    BY <1>3, <1>5, SMT
  <2>2. at[n + 1] \in 2 .. Len(pipe)
    BY <1>1, <1>7, <2>1
  <2> QED BY <1>2, <2>2, SMT
<1>9. OnTheWay(next, data, s, p)
  <2>1. ASSUME NEW n \in DOMAIN next
        PROVE  /\ Kind(p[next[n]]) = "record"
               /\ Body(p[next[n]]) = data[Len(s) + n]
    <3>1. n + 1 \in DOMAIN at /\ next[n] = at[n + 1] - 1 /\ n \in Nat
          /\ n + 1 > 1
      BY <1>1, <1>3, SMT
    <3>2. /\ Kind(pipe[at[n + 1]]) = "record"
          /\ Body(pipe[at[n + 1]]) = data[Len(st) + (n + 1)]
      BY <1>1, <3>1 DEF OnTheWay
    <3>3. p[next[n]] = pipe[at[n + 1]]
      BY <1>2, <1>7, <3>1, SMT
    <3>4. Len(s) + n = Len(st) + (n + 1)
      BY <1>3, <3>1, SMT
    <3> QED BY <3>2, <3>3, <3>4
  <2>2. ASSUME NEW k \in DOMAIN next, NEW n \in DOMAIN next, k < n
        PROVE  next[k] < next[n]
    <3>1. /\ k + 1 \in DOMAIN at /\ n + 1 \in DOMAIN at /\ k + 1 < n + 1
          /\ k + 1 > 1 /\ n + 1 > 1
          /\ next[k] = at[k + 1] - 1 /\ next[n] = at[n + 1] - 1
      BY <1>1, <1>3, <2>2, SMT
    <3>2. at[k + 1] < at[n + 1]
      BY <1>1, <3>1 DEF OnTheWay
    <3> QED BY <1>7, <3>1, <3>2, SMT
  <2>3. ASSUME NEW n \in 1 .. Len(p), Kind(p[n]) = "record"
        PROVE  \E k \in DOMAIN next : next[k] = n
    <3>1. n + 1 \in 1 .. Len(pipe) /\ p[n] = pipe[n + 1] /\ n \in Nat /\ n > 0
      BY <1>2, SMT
    <3>2. PICK k \in DOMAIN at : at[k] = n + 1
      BY <1>1, <2>3, <3>1 DEF OnTheWay
    <3>3. k - 1 \in DOMAIN next /\ next[k - 1] = n
      <4>1. k # 1
        BY <1>5, <3>1, <3>2, SMT
      <4>2. k - 1 \in DOMAIN next /\ (k - 1) + 1 = k
        BY <1>1, <1>3, <1>5, <4>1, SMT
      <4> QED BY <3>1, <3>2, <4>2, SMT
    <3> QED BY <3>3
  <2> QED BY <2>1, <2>2, <2>3 DEF OnTheWay
<1>10. Len(s) <= Len(data) /\ \A n \in 1 .. Len(s) : s[n] = data[n]
  <2>1. \A n \in 1 .. Len(st) : st[n] = data[n]
    BY DEF Agree
  <2>2. Len(s) <= Len(data)
    BY <1>3, <1>5, SMT
  <2>3. ASSUME NEW n \in 1 .. Len(s) PROVE s[n] = data[n]
    <3>1. CASE n = Len(st) + 1
      BY <1>3, <1>6, <3>1
    <3>2. CASE n # Len(st) + 1
      <4>1. n \in 1 .. Len(st)
        BY <1>3, <3>2, SMT
      <4> QED BY <1>3, <2>1, <4>1
    <3> QED BY <3>1, <3>2
  <2> QED BY <2>2, <2>3
<1>11. Agree(data, s, p)
  BY <1>8, <1>9, <1>10 DEF Agree
<1> QED BY <1>11 DEF p, s

-----------------------------------------------------------------------------
(* The inductive invariant. *)

\* What the parent writes next, and what the child will be reading once it
\* has read all that is in fdsA: the two are the same.
Phase == IF ppc \in {"saveReply", "saveRecord", "overrun"} THEN "record"
         ELSE IF ppc = "loadId" THEN "id" ELSE "mode"
Expected == IF fdsA # <<>> THEN Follows(fdsA[Len(fdsA)])
            ELSE IF cpc \in {"record", "id"} THEN cpc ELSE "mode"
Framed == PipeIsFramed /\ (ppc # "killed" => Phase = Expected)

\* A socket still to be looked at in this round is open, the one being served
\* is not among them, and a client that has sent something sent a request.
Serving ==
  /\ \A c \in Conns : link[c] \in {"sent", "torn"} => asked[c] \in Requests
  /\ \A fd \in ready \ {serv_sock} : files[fd] \in Conns
  /\ ppc \in {"select", "exited"} => ready = {}
  /\ ppc \notin {"select", "scan", "exited"} => i \notin ready

\* While the child runs, an id in fdsA is the last write there, and the parent
\* waits for its answer.
Alive == cpc \in {"mode", "record", "id"}
Loading ==
  /\ AnswerIsAwaited
  /\ Alive => \A n \in 1 .. Len(fdsA) :
                Kind(fdsA[n]) = "id" => /\ n = Len(fdsA)
                                        /\ ppc = "loadWait" /\ fdsB = <<>>
  /\ ppc = "loadEINTR" => cpc = "exited"

IInv == TypeOK /\ Serving /\ Framed /\ Loading /\ CopiesAgree

\* TypeOK in three parts: the clients and the sockets, the parent, and the
\* pipes with the child.
NetOK ==
  /\ link \in [Conns -> Links]
  /\ asked \in [Conns -> Requests \cup {None}]
  /\ queued \subseteq Conns
  /\ files \in [Fds -> Conns \cup {None}]
  /\ listening \in BOOLEAN
  /\ ready \subseteq Fds \cup {serv_sock}
ParentOK ==
  /\ ppc \in {"select", "scan", "save", "saveReply", "saveRecord", "load",
              "loadId", "loadWait", "loadEINTR", "quit", "exited", "killed",
              "overrun"}
  /\ i \in Fds \cup {serv_sock}
  /\ mode \in {"", "save", "load", "quit", "other"}
  /\ id \in AnyId /\ result \in Conns \cup {None}
  /\ dataArray \in Seq(Records) /\ Len(dataArray) <= DATA_MAX
PipesOK ==
  /\ fdsA \in Seq(Writes) /\ Len(fdsA) <= PipeMax
  /\ fdsB \in Seq({Found(store, x) : x \in AnyId})
  /\ cpc \in {"mode", "record", "id", "exited", "overrun"}
  /\ store \in Seq(Records)

\* Together they are TypeOK, in a state and in the next one.
LEMMA Parts ==
  /\ TypeOK <=> NetOK /\ ParentOK /\ PipesOK
  /\ TypeOK' <=> NetOK' /\ ParentOK' /\ PipesOK'
<1>1. TypeOK <=> NetOK /\ ParentOK /\ PipesOK
  BY Zenon DEF TypeOK, NetOK, ParentOK, PipesOK
<1>2. TypeOK' <=> NetOK' /\ ParentOK' /\ PipesOK'
  BY Zenon DEF TypeOK, NetOK, ParentOK, PipesOK
<1> QED BY <1>1, <1>2

\* Empty pipes, empty lists, and a child that waits for a mode.
LEMMA InitInvariant == Init => IInv
<1> SUFFICES ASSUME Init PROVE IInv
  OBVIOUS
<1>1. TypeOK
  <2>1. \A S : <<>> \in Seq(S)
    BY SMT
  <2>2. Len(<<>>) <= DATA_MAX /\ Len(<<>>) <= PipeMax
    BY SizeAssumption, SMT
  <2>3. dataArray = <<>> /\ fdsA = <<>> /\ fdsB = <<>> /\ store = <<>>
    BY DEF Init
  <2>4. /\ link \in [Conns -> Links]
        /\ asked \in [Conns -> Requests \cup {None}]
        /\ queued \subseteq Conns
        /\ files \in [Fds -> Conns \cup {None}]
    BY DEF Init, Links
  <2>5. /\ listening \in BOOLEAN /\ ready \subseteq Fds \cup {serv_sock}
        /\ i \in Fds \cup {serv_sock}
    BY DEF Init, serv_sock
  <2>6. /\ ppc \in {"select", "scan", "save", "saveReply", "saveRecord", "load",
                    "loadId", "loadWait", "loadEINTR", "quit", "exited",
                    "killed", "overrun"}
        /\ mode \in {"", "save", "load", "quit", "other"}
        /\ id \in AnyId /\ result \in Conns \cup {None}
        /\ cpc \in {"mode", "record", "id", "exited", "overrun"}
    BY DEF Init, AnyId
  <2> QED BY <2>1, <2>2, <2>3, <2>4, <2>5, <2>6 DEF TypeOK
<1>2. Serving
  <2>1. /\ \A c \in Conns : link[c] = "idle"
        /\ ready = {} /\ ppc = "select" /\ mode = ""
    BY DEF Init
  <2> QED BY <2>1 DEF Serving
<1>3. Framed /\ Loading
  <2>1. ppc = "select" /\ cpc = "mode" /\ fdsA = <<>> /\ fdsB = <<>>
    BY DEF Init
  <2>2. Len(fdsA) = 0 /\ 1 .. Len(fdsA) = {} /\ 1 .. Len(fdsA) - 1 = {}
    BY <2>1, SMT
  <2>3. PipeIsFramed
    BY <2>1, <2>2 DEF PipeIsFramed
  <2>4. Phase = "mode" /\ Expected = "mode"
    BY <2>1 DEF Phase, Expected
  <2>5. Loading
    BY <2>1, <2>2 DEF Loading, AnswerIsAwaited
  <2> QED BY <2>3, <2>4, <2>5 DEF Framed
<1>4. CopiesAgree
  <2>1. OnTheWay(<<>>, <<>>, <<>>, <<>>)
    BY SMT DEF OnTheWay
  <2>2. <<>> \in [1 .. Len(<<>>) - Len(<<>>) -> 1 .. Len(<<>>)]
    BY SMT
  <2>3. Len(<<>>) <= Len(<<>>) /\ 1 .. Len(<<>>) = {}
    BY SMT
  <2>4. Agree(<<>>, <<>>, <<>>)
    BY <2>1, <2>2, <2>3, Zenon DEF Agree
  <2> QED BY <2>4 DEF Init, CopiesAgree
<1> QED BY <1>1, <1>2, <1>3, <1>4 DEF IInv

-----------------------------------------------------------------------------
(* What a write and a read at fdsA do to the framing. *)

\* The parent writes what is due in the protocol.
LEMMA FramedWrite ==
  ASSUME fdsA \in Seq(Writes), Framed, NEW w \in Writes, Kind(w) = Phase,
         ppc # "killed", fdsA' = Append(fdsA, w), cpc' = cpc, Phase' = Follows(w)
  PROVE  Framed'
<1>1. /\ Len(fdsA') = Len(fdsA) + 1 /\ Len(fdsA) \in Nat /\ fdsA' # <<>>
      /\ \A n \in 1 .. Len(fdsA) : fdsA'[n] = fdsA[n]
      /\ fdsA'[Len(fdsA) + 1] = w
  BY SMT
<1>2. Expected' = Follows(w)
  BY <1>1 DEF Expected
<1>3. CASE fdsA = <<>>
  <2>1. Len(fdsA) = 0 /\ fdsA'[1] = w /\ Len(fdsA') = 1
    BY <1>1, <1>3, SMT
  <2>2. cpc \in {"mode", "record", "id"} => Kind(w) = cpc
    BY <1>3 DEF Framed, Expected
  <2>3. \A n \in 1 .. Len(fdsA') - 1 :
          Kind(fdsA'[n + 1]) = Follows(fdsA'[n])
    BY <2>1, SMT
  <2>4. PipeIsFramed'
    BY <2>1, <2>2, <2>3 DEF PipeIsFramed
  <2> QED BY <1>2, <2>4 DEF Framed
<1>4. CASE fdsA # <<>>
  <2>1. Len(fdsA) >= 1 /\ fdsA'[1] = fdsA[1] /\ Len(fdsA') - 1 = Len(fdsA)
    BY <1>1, <1>4, SMT
  <2>2. ASSUME NEW n \in 1 .. Len(fdsA)
        PROVE  Kind(fdsA'[n + 1]) = Follows(fdsA'[n])
    <3>1. CASE n = Len(fdsA)
      BY <1>1, <1>4, <3>1 DEF Framed, Expected
    <3>2. CASE n # Len(fdsA)
      <4>1. n \in 1 .. Len(fdsA) - 1 /\ n + 1 \in 1 .. Len(fdsA)
        BY <1>1, <3>2, SMT
      <4> QED BY <1>1, <4>1 DEF Framed, PipeIsFramed
    <3> QED BY <3>1, <3>2
  <2>3. PipeIsFramed'
    BY <1>4, <2>1, <2>2 DEF Framed, PipeIsFramed
  <2> QED BY <1>2, <2>3 DEF Framed
<1> QED BY <1>3, <1>4

\* The child takes the first write and goes where that leads it.
LEMMA FramedRead ==
  ASSUME fdsA \in Seq(Writes), Framed, fdsA # <<>>, fdsA' = Tail(fdsA),
         Phase' = Phase, ppc = "killed" => ppc' = "killed",
         \/ cpc' = Follows(fdsA[1])
         \/ cpc' \in {"exited", "overrun"} /\ Follows(fdsA[1]) = "mode"
  PROVE  Framed'
<1>1. /\ Len(fdsA') = Len(fdsA) - 1 /\ Len(fdsA) \in Nat \ {0}
      /\ \A n \in 1 .. Len(fdsA) - 1 : fdsA'[n] = fdsA[n + 1]
      /\ fdsA' # <<>> <=> Len(fdsA) > 1
  <2>1. /\ Len(fdsA') = Len(fdsA) - 1 /\ Len(fdsA) \in Nat \ {0}
        /\ fdsA' \in Seq(Writes)
    BY SMT
  <2>2. \A n \in 1 .. Len(fdsA) - 1 : fdsA'[n] = fdsA[n + 1]
    BY SMT
  <2>3. fdsA' # <<>> <=> Len(fdsA) > 1
    <3>1. fdsA' = <<>> <=> Len(fdsA') = 0
      BY <2>1, EmptySeq
    <3> QED BY <2>1, <3>1, SMT
  <2> QED BY <2>1, <2>2, <2>3
<1>2. \A n \in 1 .. Len(fdsA') - 1 : Kind(fdsA'[n + 1]) = Follows(fdsA'[n])
  <2> TAKE n \in 1 .. Len(fdsA') - 1
  <2>1. n \in 1 .. Len(fdsA) - 1 /\ n + 1 \in 1 .. Len(fdsA) - 1
    BY <1>1, SMT
  <2> QED BY <1>1, <2>1 DEF Framed, PipeIsFramed
<1>3. Follows(fdsA[1]) \in {"mode", "record", "id"}
  BY DEF Follows
<1>4. CASE fdsA' = <<>>
  <2>1. Len(fdsA) = 1
    BY <1>1, <1>4, SMT
  <2>2. ppc # "killed" => Phase = Follows(fdsA[1])
    BY <2>1 DEF Framed, Expected
  <2>3. Expected' = Follows(fdsA[1])
    BY <1>3, <1>4 DEF Expected
  <2> QED BY <1>2, <1>4, <2>2, <2>3 DEF Framed, PipeIsFramed
<1>5. CASE fdsA' # <<>>
  <2>1. 1 \in 1 .. Len(fdsA) - 1 /\ Len(fdsA') \in 1 .. Len(fdsA) - 1
        /\ Len(fdsA') + 1 = Len(fdsA) /\ 1 + 1 = 2
    BY <1>1, <1>5, SMT
  <2>2. Kind(fdsA'[1]) = Follows(fdsA[1])
    BY <1>1, <2>1 DEF Framed, PipeIsFramed
  <2>3. fdsA'[Len(fdsA')] = fdsA[Len(fdsA)]
    BY <1>1, <2>1
  <2>4. Expected' = Expected
    BY <1>5, <2>3 DEF Expected
  <2>5. fdsA' # <<>> /\ cpc' \in {"mode", "record", "id"}
          => Kind(fdsA'[1]) = cpc'
    BY <2>2
  <2> QED BY <1>2, <2>4, <2>5 DEF Framed, PipeIsFramed
<1> QED BY <1>4, <1>5

\* A step that touches neither pipe nor list.
LEMMA Quiet ==
  ASSUME IInv, UNCHANGED <<fdsA, fdsB, cpc, store, dataArray>>,
         Phase' = Phase \/ ppc' = "killed", ppc = "killed" => ppc' = "killed",
         ppc = "loadWait" => ppc' = "loadWait",
         ppc' = "loadEINTR" => ppc = "loadEINTR"
  PROVE  Framed' /\ Loading' /\ CopiesAgree'
<1>1. Framed'
  BY DEF IInv, Framed, PipeIsFramed, Expected
<1>2. Loading'
  BY DEF IInv, Loading, Alive, AnswerIsAwaited
<1>3. CopiesAgree'
  BY DEF IInv, CopiesAgree
<1> QED BY <1>1, <1>2, <1>3

-----------------------------------------------------------------------------
(* Every step preserves the invariant. *)

\* Clients connect, send one request, or hang up.
LEMMA ClientPreserves ==
  ASSUME IInv, NEW c \in Conns, Client(c)
  PROVE  IInv'
<1> USE DEF netvars, sockets, vectors, child, pipes
<1>1. UNCHANGED <<fdsA, fdsB, cpc, store, dataArray, ppc, files, ready, i, id,
                  mode, result, listening>>
  BY DEF Client, Connect, Ask, HangUp, Break
<1>2. Framed' /\ Loading' /\ CopiesAgree'
  BY <1>1, Quiet DEF Phase
<1>3. /\ link' \in [Conns -> Links]
      /\ asked' \in [Conns -> Requests \cup {None}]
      /\ queued' \subseteq Conns
      /\ \A d \in Conns :
           link'[d] \in {"sent", "torn"} => asked'[d] \in Requests
  <2>1. /\ link \in [Conns -> Links]
        /\ asked \in [Conns -> Requests \cup {None}]
        /\ queued \subseteq Conns
        /\ \A d \in Conns :
             link[d] \in {"sent", "torn"} => asked[d] \in Requests
    BY DEF IInv, TypeOK, Serving
  <2>2. CASE Ask(c)
    <3>1. PICK r \in Requests : asked' = [asked EXCEPT ![c] = r]
      BY <2>2 DEF Ask
    <3>2. link' = [link EXCEPT ![c] = "sent"] /\ queued' = queued
      BY <2>2 DEF Ask
    <3> QED BY <2>1, <3>1, <3>2, SMT DEF Links
  <2>3. CASE ~ Ask(c)
    <3>1. \E to \in {"open", "eof", "reset"} : link' = [link EXCEPT ![c] = to]
      BY <2>3 DEF Client, Connect, HangUp, Break
    <3>2. asked' = asked /\ queued' \subseteq queued \cup {c}
      BY <2>3 DEF Client, Connect, HangUp, Break
    <3> QED BY <2>1, <3>1, <3>2, SMT DEF Links
  <2> QED BY <2>2, <2>3
<1>4. TypeOK'
  <2>1. NetOK /\ ParentOK /\ PipesOK
    BY Parts DEF IInv
  <2>2. NetOK'
    BY <1>1, <1>3, <2>1 DEF NetOK
  <2>3. ParentOK' /\ PipesOK'
    BY <1>1, <2>1 DEF ParentOK, PipesOK
  <2> QED BY <2>2, <2>3, Parts
<1>5. Serving'
  BY <1>1, <1>3 DEF IInv, Serving
<1> QED BY <1>2, <1>4, <1>5 DEF IInv

\* The three forms of a request.
LEMMA RequestModes ==
  ASSUME NEW r \in Requests
  PROVE  /\ r.mode \in {"save", "load", "quit"}
         /\ r.mode \in {"save", "load"} => r.id \in Ids
<1>1. r = [mode |-> "quit"] => r.mode = "quit"
  OBVIOUS
<1>2. r \in [mode : {"save", "load"}, id : Ids] =>
        r.mode \in {"save", "load"} /\ r.id \in Ids
  OBVIOUS
<1> QED BY <1>1, <1>2 DEF Requests

\* The rounds of select(), up to the request that is read.
Loop == \/ Select \/ SelectFails \/ ScanEnd
        \/ \E c \in Conns : Accept(c)
        \/ \E fd \in Fds : \/ ReadEnd(fd) \/ ReadRequest(fd) \/ ReadPart(fd)
                          \/ ReadTorn(fd) \/ ReadRest(fd) \/ ReadError(fd)

\* The parent's steps that write nothing into fdsA: select(), accept(), the
\* reads of a request, replies and closing.
LEMMA LoopPreserves ==
  ASSUME IInv, Loop
  PROVE  IInv'
<1> USE DEF netvars, sockets, vectors, child, pipes
<1> DEFINE Sockets ==
      /\ link \in [Conns -> Links]
      /\ asked \in [Conns -> Requests \cup {None}]
      /\ queued \subseteq Conns
      /\ files \in [Fds -> Conns \cup {None}]
      /\ ready \subseteq Fds \cup {0}
      /\ i \in Fds \cup {0}
      /\ mode \in {"", "save", "load", "quit", "other"}
      /\ id \in AnyId /\ result \in Conns \cup {None}
<1> DEFINE Goal == /\ Sockets' /\ Serving' /\ ppc \in {"select", "scan"}
                   /\ ppc' \in {"select", "scan", "save", "load", "quit",
                                "exited"}
<1>1. Goal
  <2>1. Sockets /\ Serving
    BY DEF IInv, TypeOK, serv_sock
  <2> USE DEF Serving, serv_sock
  <2>2. CASE Select
    <3>1. /\ ppc = "select" /\ ppc' = "scan" /\ ready' = Readable
          /\ UNCHANGED <<link, asked, queued, files, i, mode, id, result>>
      BY <2>2 DEF Select
    <3>2. /\ ready' \subseteq Fds \cup {0}
          /\ \A fd \in ready' \ {0} : files[fd] \in Conns
      BY <2>1, <3>1 DEF Readable
    <3> QED BY <2>1, <3>1, <3>2
  <2>3. CASE SelectFails
    <3>1. /\ ppc = "select" /\ ppc' = "exited"
          /\ files' = [fd \in Fds |-> None]
          /\ UNCHANGED <<link, asked, queued, ready, i, mode, id, result>>
      BY <2>3 DEF SelectFails
    <3> QED BY <2>1, <3>1
  <2>4. CASE ScanEnd
    <3>1. /\ ppc = "scan" /\ ppc' = "select" /\ ready = {}
          /\ UNCHANGED <<link, asked, queued, files, ready, i, mode, id,
                         result>>
      BY <2>4 DEF ScanEnd
    <3> QED BY <2>1, <3>1
  <2>5. ASSUME NEW c \in Conns, Accept(c) PROVE Goal
    <3>1. /\ ppc = "scan" /\ ppc' = "scan" /\ ready' = ready \ {0} /\ i' = 0
          /\ queued' = queued \ {c}
          /\ UNCHANGED <<link, asked, mode, id, result>>
      BY <2>5 DEF Accept, Turn
    <3>2. PICK fd \in Fds : files' = [files EXCEPT ![fd] = c]
      BY <2>5 DEF Accept
    <3>3. /\ files' \in [Fds -> Conns \cup {None}]
          /\ \A f \in ready' \ {0} : files'[f] \in Conns
      BY <2>1, <3>1, <3>2
    <3> QED BY <2>1, <3>1, <3>3
  <2>6. ASSUME NEW fd \in Fds, ReadEnd(fd) PROVE Goal
    <3>1. /\ ppc = "scan" /\ ppc' = "scan" /\ ready' = ready \ {fd} /\ i' = fd
          /\ files' = [files EXCEPT ![fd] = None]
          /\ UNCHANGED <<link, asked, queued, mode, id, result>>
      BY <2>6 DEF ReadEnd, Turn
    <3>2. /\ files' \in [Fds -> Conns \cup {None}]
          /\ \A f \in ready' \ {0} : files'[f] \in Conns
      BY <2>1, <3>1
    <3> QED BY <2>1, <3>1, <3>2
  <2>7. ASSUME NEW fd \in Fds, ReadRequest(fd) \/ ReadPart(fd) PROVE Goal
    <3> DEFINE c == files[fd]
               r == asked[c]
    <3>1. Reads(fd, "sent", "read")
      BY <2>7 DEF ReadRequest, ReadPart
    <3>2. fd \in ready /\ fd # 0 /\ link[c] = "sent"
      BY <3>1 DEF Reads, Turn
    <3>3. c \in Conns /\ r \in Requests
      BY <2>1, <3>2
    <3>4. /\ mode' = r.mode /\ ppc' = r.mode
          /\ id' \in {id, r.id} \cup AnyId
          /\ r.mode = "quit" => id' = id
          /\ result' \in {c, result, None}
      BY <2>7 DEF ReadRequest, ReadPart
    <3>5. /\ link' = [link EXCEPT ![c] = "read"]
          /\ ready' = ready \ {fd} /\ i' = fd /\ ppc = "scan"
          /\ UNCHANGED <<asked, queued, files>>
      BY <3>1 DEF Reads, Turn
    <3> HIDE DEF c, r
    <3>6. /\ r.mode \in {"save", "load", "quit"}
          /\ r.mode \in {"save", "load"} => r.id \in Ids
      BY <3>3, RequestModes
    <3>7. id' \in AnyId
      BY <2>1, <3>6, <3>4 DEF AnyId
    <3>8. /\ link' \in [Conns -> Links]
          /\ \A d \in Conns :
               link'[d] \in {"sent", "torn"} => link[d] \in {"sent", "torn"}
      BY <2>1, <3>5 DEF Links
    <3>9. Sockets'
      BY <2>1, <3>3, <3>6, <3>4, <3>5, <3>7, <3>8
    <3>10. Serving'
      BY <2>1, <3>6, <3>4, <3>5, <3>8
    <3> QED BY <3>6, <3>4, <3>5, <3>9, <3>10
  <2>8. ASSUME NEW fd \in Fds,
               ReadTorn(fd) \/ ReadRest(fd) \/ ReadError(fd)
        PROVE  Goal
    <3> DEFINE c == files[fd]
    <3>1. PICK to \in {"torn", "read", "broken"} :
            link' = [link EXCEPT ![c] = to]
      BY <2>8 DEF ReadTorn, ReadRest, ReadError, Reads
    <3>2. /\ fd \in ready /\ fd # 0 /\ ppc = "scan"
          /\ ready' = ready \ {fd} /\ i' = fd
          /\ UNCHANGED <<asked, queued, files>>
      BY <2>8 DEF ReadTorn, ReadRest, ReadError, Reads, Turn
    <3>3. to = "torn" => link[c] = "sent"
      <4>1. to = "torn" => link'[c] = "torn"
        BY <2>1, <3>1, <3>2
      <4>2. ReadRest(fd) => link'[c] = "read"
        BY <2>1, <3>2 DEF ReadRest, Reads
      <4>3. ReadError(fd) => link'[c] = "broken"
        BY <2>1, <3>2 DEF ReadError, Reads
      <4>4. ReadTorn(fd) => link[c] = "sent"
        BY DEF ReadTorn, Reads
      <4> QED BY <2>8, <4>1, <4>2, <4>3, <4>4
    <3>4. /\ mode' \in {mode, "other"} /\ id' \in {id} \cup AnyId
          /\ result' \in {result, None}
      BY <2>8 DEF ReadTorn, ReadRest, ReadError
    <3>5. ppc' \in {"scan", "save", "load", "quit"}
      BY <2>1, <2>8, <3>2 DEF ReadTorn, ReadRest, ReadError
    <3> HIDE DEF c
    <3>6. link' \in [Conns -> Links]
      BY <2>1, <3>1 DEF Links
    <3>7. \A d \in Conns :
            link'[d] \in {"sent", "torn"} => link[d] \in {"sent", "torn"}
      BY <2>1, <3>1, <3>3
    <3>8. Sockets'
      BY <2>1, <3>2, <3>4, <3>6
    <3>9. Serving'
      BY <2>1, <3>2, <3>5, <3>7
    <3> QED BY <3>2, <3>5, <3>8, <3>9
  <2> QED BY <2>2, <2>3, <2>4, <2>5, <2>6, <2>7, <2>8 DEF Loop
<1>2. UNCHANGED <<fdsA, fdsB, cpc, store, dataArray, listening>>
  BY DEF Loop, Select, SelectFails, ScanEnd, Accept, ReadEnd, ReadRequest,
     ReadPart, ReadTorn, ReadRest, ReadError, Reads
<1>3. Framed' /\ Loading' /\ CopiesAgree'
  BY <1>1, <1>2, Quiet DEF Phase
<1>4. TypeOK'
  BY <1>1, <1>2 DEF IInv, TypeOK, serv_sock
<1> QED BY <1>1, <1>3, <1>4 DEF IInv

\* The parent serves a request: what its variables may become.
LEMMA ServingPreserves ==
  ASSUME IInv, ppc \notin {"select", "scan", "exited"},
         files' = files \/ files' = [files EXCEPT ![i] = None],
         ppc' \in {"scan", "saveReply", "saveRecord", "loadId", "loadWait",
                   "overrun"},
         UNCHANGED <<link, asked, ready, i>>
  PROVE  files' \in [Fds -> Conns \cup {None}] /\ Serving'
<1>1. /\ files \in [Fds -> Conns \cup {None}]
      /\ ready \subseteq Fds \cup {serv_sock} /\ i \notin ready
      /\ \A fd \in ready \ {serv_sock} : files[fd] \in Conns
  BY DEF IInv, TypeOK, Serving
<1>2. /\ files' \in [Fds -> Conns \cup {None}]
      /\ \A fd \in ready \ {serv_sock} : files'[fd] \in Conns
  BY <1>1
<1> QED BY <1>1, <1>2 DEF IInv, Serving

\* A write() of the parent into fdsA: the pipe stays framed, an id is awaited,
\* and the two lists agree.
LEMMA WritePreserves ==
  ASSUME IInv, NEW w \in Writes, Tell(w), Kind(w) = Phase, Phase' = Follows(w),
         ppc \notin {"loadWait", "loadEINTR", "killed"}, ppc' # "loadEINTR",
         Kind(w) = "id" => ppc' = "loadWait",
         UNCHANGED <<fdsB, cpc, store>>,
         IF Kind(w) = "record"
         THEN Body(w) \in Records /\ w = <<"record", Body(w)>>
                /\ dataArray' = Append(dataArray, Body(w))
         ELSE UNCHANGED dataArray
  PROVE  /\ fdsA' \in Seq(Writes) /\ Len(fdsA') <= PipeMax
         /\ Framed' /\ Loading' /\ CopiesAgree'
<1>1. /\ fdsA \in Seq(Writes) /\ dataArray \in Seq(Records)
      /\ store \in Seq(Records) /\ PipeMax \in Nat
      /\ fdsA' = Append(fdsA, w) /\ Len(fdsA) < PipeMax
  BY SizeAssumption DEF IInv, TypeOK, Tell
<1>2. /\ Len(fdsA') = Len(fdsA) + 1 /\ Len(fdsA) \in Nat
      /\ \A n \in 1 .. Len(fdsA) : fdsA'[n] = fdsA[n]
      /\ fdsA'[Len(fdsA) + 1] = w /\ fdsA' \in Seq(Writes)
  BY <1>1, SMT
<1>3. Framed'
  BY <1>1, FramedWrite DEF IInv
<1>4. Loading'
  <2>1. fdsB = <<>>
    BY DEF IInv, Loading, AnswerIsAwaited
  <2>2. ASSUME Alive, NEW n \in 1 .. Len(fdsA'), Kind(fdsA'[n]) = "id"
        PROVE  n = Len(fdsA') /\ ppc' = "loadWait"
    <3>1. CASE n = Len(fdsA) + 1
      BY <1>2, <2>2, <3>1
    <3>2. CASE n # Len(fdsA) + 1
      <4>1. n \in 1 .. Len(fdsA) /\ fdsA'[n] = fdsA[n]
        BY <1>2, <3>2, SMT
      <4> QED BY <2>2, <4>1 DEF IInv, Loading
    <3> QED BY <3>1, <3>2
  <2> QED BY <2>1, <2>2 DEF Loading, Alive, AnswerIsAwaited
<1>5. CopiesAgree'
  <2>1. CASE Kind(w) = "record"
    BY <1>1, <2>1, AgreeSave DEF IInv, CopiesAgree
  <2>2. CASE Kind(w) # "record"
    BY <1>1, <2>2, AgreeWrite DEF IInv, CopiesAgree
  <2> QED BY <2>1, <2>2
<1>6. Len(fdsA') <= PipeMax
  BY <1>1, <1>2, SMT
<1> QED BY <1>2, <1>3, <1>4, <1>5, <1>6

-----------------------------------------------------------------------------

\* mode_check().
LEMMA ModePreserves ==
  ASSUME IInv, mode_check
  PROVE  IInv'
<1> USE DEF netvars, sockets, vectors, child, pipes
<1>1. /\ SaveMode \/ LoadMode \/ Quit => Phase = "mode"
      /\ SaveReply \/ SaveRecord => Phase = "record"
      /\ LoadId => Phase = "id"
  BY DEF Phase, SaveMode, LoadMode, Quit, SaveReply, SaveRecord, LoadId
<1>2. CASE SaveMode
  <2> DEFINE w == <<"mode", "save">>
  <2>1. w \in Writes /\ Kind(w) = "mode" /\ Follows(w) = "record"
    BY SMT DEF Writes, Kind, Follows
  <2>2. /\ Tell(w) /\ ppc = "save" /\ ppc' = "saveReply"
        /\ UNCHANGED <<link, asked, queued, files, listening, ready, i, mode,
                       id, result, dataArray, fdsB, cpc, store>>
    BY <1>2 DEF SaveMode
  <2> HIDE DEF w
  <2>3. /\ fdsA' \in Seq(Writes) /\ Len(fdsA') <= PipeMax
        /\ Framed' /\ Loading' /\ CopiesAgree'
    BY <1>1, <1>2, <2>1, <2>2, WritePreserves DEF Phase
  <2>4. id \in AnyId
    BY DEF IInv, TypeOK
  <2>5. Serving'
    BY <2>2, <2>4, ServingPreserves
  <2>6. TypeOK'
    BY <2>2, <2>3 DEF IInv, TypeOK
  <2> QED BY <2>3, <2>5, <2>6 DEF IInv
<1>3. CASE SaveReply
  <2>1. /\ ppc = "saveReply" /\ ppc' = "saveRecord"
        /\ UNCHANGED <<link, asked, queued, files, listening, ready, i, mode,
                       id, result, dataArray, fdsA, fdsB, cpc, store>>
    BY <1>3 DEF SaveReply
  <2>2. id \in AnyId
    BY DEF IInv, TypeOK
  <2>3. Framed' /\ Loading' /\ CopiesAgree'
    BY <2>1, Quiet DEF Phase
  <2>4. Serving'
    BY <2>1, <2>2, ServingPreserves
  <2>5. TypeOK'
    BY <2>1 DEF IInv, TypeOK
  <2> QED BY <2>3, <2>4, <2>5 DEF IInv
<1>4. CASE SaveRecord
  <2>1. /\ ppc = "saveRecord"
        /\ UNCHANGED <<link, asked, queued, listening, ready, i, mode, id,
                       result, fdsB, cpc, store>>
    BY <1>4 DEF SaveRecord
  <2>2. id \in AnyId
    BY DEF IInv, TypeOK
  <2>3. CASE Len(dataArray) = DATA_MAX
    <3>1. ppc' = "overrun" /\ UNCHANGED <<dataArray, fdsA, files>>
      BY <1>4, <2>3 DEF SaveRecord
    <3>2. Framed' /\ Loading' /\ CopiesAgree'
      BY <2>1, <3>1, Quiet DEF Phase
    <3>3. Serving'
      BY <2>1, <3>1, ServingPreserves
    <3>4. TypeOK'
      BY <2>1, <3>1 DEF IInv, TypeOK
    <3> QED BY <3>2, <3>3, <3>4 DEF IInv
  <2>4. CASE Len(dataArray) # DATA_MAX
    <3> DEFINE r == [id |-> id, req |-> result]
               w == <<"record", r>>
    <3>1. r \in Records
      <4>1. id \in AnyId /\ result \in Conns \cup {None}
        BY <2>2 DEF IInv, TypeOK
      <4> QED BY <4>1 DEF Records
    <3>2. /\ w \in Writes /\ Kind(w) = "record" /\ Body(w) = r
          /\ Follows(w) = "mode"
      BY <3>1, SMT DEF Writes, Kind, Body, Follows
    <3>3. /\ Tell(w) /\ dataArray' = Append(dataArray, r)
          /\ files' = [files EXCEPT ![i] = None] /\ ppc' = "scan"
      BY <1>4, <2>4 DEF SaveRecord
    <3>4. w = <<"record", Body(w)>>
      BY <3>2
    <3> HIDE DEF w, r
    <3>5. /\ fdsA' \in Seq(Writes) /\ Len(fdsA') <= PipeMax
          /\ Framed' /\ Loading' /\ CopiesAgree'
      BY <1>1, <1>4, <2>1, <3>1, <3>2, <3>3, <3>4, WritePreserves DEF Phase
    <3>6. Serving' /\ files' \in [Fds -> Conns \cup {None}]
      BY <2>1, <3>3, ServingPreserves
    <3>7. dataArray' \in Seq(Records) /\ Len(dataArray') <= DATA_MAX
      <4>1. dataArray \in Seq(Records) /\ Len(dataArray) <= DATA_MAX
        BY DEF IInv, TypeOK
      <4> QED BY <2>4, <3>1, <3>3, <4>1, SizeAssumption, SMT
    <3>8. TypeOK'
      BY <2>1, <3>3, <3>5, <3>6, <3>7 DEF IInv, TypeOK
    <3> QED BY <3>5, <3>6, <3>8 DEF IInv
  <2> QED BY <2>3, <2>4
<1>5. CASE LoadMode
  <2> DEFINE w == <<"mode", "load">>
  <2>1. w \in Writes /\ Kind(w) = "mode" /\ Follows(w) = "id"
    BY SMT DEF Writes, Kind, Follows
  <2>2. /\ Tell(w) /\ ppc = "load" /\ ppc' = "loadId"
        /\ UNCHANGED <<link, asked, queued, files, listening, ready, i, mode,
                       id, result, dataArray, fdsB, cpc, store>>
    BY <1>5 DEF LoadMode
  <2> HIDE DEF w
  <2>3. /\ fdsA' \in Seq(Writes) /\ Len(fdsA') <= PipeMax
        /\ Framed' /\ Loading' /\ CopiesAgree'
    BY <1>1, <1>5, <2>1, <2>2, WritePreserves DEF Phase
  <2>4. id \in AnyId
    BY DEF IInv, TypeOK
  <2>5. Serving'
    BY <2>2, <2>4, ServingPreserves
  <2>6. TypeOK'
    BY <2>2, <2>3 DEF IInv, TypeOK
  <2> QED BY <2>3, <2>5, <2>6 DEF IInv
<1>6. CASE LoadId
  <2> DEFINE w == <<"id", id>>
  <2>1. /\ Tell(w) /\ ppc = "loadId" /\ ppc' = "loadWait"
        /\ UNCHANGED <<link, asked, queued, files, listening, ready, i, mode,
                       id, result, dataArray, fdsB, cpc, store>>
    BY <1>6 DEF LoadId
  <2>2. id \in AnyId
    BY DEF IInv, TypeOK
  <2>3. w \in Writes /\ Kind(w) = "id" /\ Follows(w) = "mode"
    BY <2>2, SMT DEF Writes, Kind, Follows
  <2> HIDE DEF w
  <2>4. /\ fdsA' \in Seq(Writes) /\ Len(fdsA') <= PipeMax
        /\ Framed' /\ Loading' /\ CopiesAgree'
    BY <1>1, <1>6, <2>1, <2>3, WritePreserves DEF Phase
  <2>5. Serving'
    BY <2>1, ServingPreserves
  <2>6. TypeOK'
    BY <2>1, <2>4 DEF IInv, TypeOK
  <2> QED BY <2>4, <2>5, <2>6 DEF IInv
<1>7. CASE LoadReply
  <2>1. /\ ppc = "loadWait" /\ fdsB # <<>> /\ fdsB' = Tail(fdsB)
        /\ files' = [files EXCEPT ![i] = None] /\ ppc' = "scan"
        /\ UNCHANGED <<link, asked, queued, listening, ready, i, mode, id,
                       result, dataArray, fdsA, cpc, store>>
    BY <1>7 DEF LoadReply
  <2>2. Len(fdsB) = 1 /\ fdsA = <<>>
    BY <2>1 DEF IInv, Loading, AnswerIsAwaited
  <2>3. fdsB' = <<>>
    <3>1. fdsB \in Seq({Found(store, x) : x \in AnyId})
      BY DEF IInv, TypeOK
    <3> DEFINE S == {Found(store, x) : x \in AnyId}
    <3> HIDE DEF S
    <3>2. fdsB \in Seq(S)
      BY <3>1 DEF S
    <3>3. Len(Tail(fdsB)) = 0 /\ Tail(fdsB) \in Seq(S)
      BY <2>1, <2>2, <3>2, SMT
    <3>4. Tail(fdsB) = <<>>
      BY <3>3, EmptySeq
    <3> QED BY <2>1, <3>4
  <2>4. Framed' /\ CopiesAgree'
    BY <2>1 DEF IInv, Framed, PipeIsFramed, Phase, Expected, CopiesAgree
  <2>5. Loading'
    BY <2>1, <2>2, <2>3, SMT DEF Loading, AnswerIsAwaited
  <2>6. Serving' /\ files' \in [Fds -> Conns \cup {None}]
    BY <2>1, ServingPreserves
  <2>7. TypeOK'
    <3>1. fdsB' \in Seq({Found(store', x) : x \in AnyId})
      BY <2>3, EmptySeq
    <3> QED BY <2>1, <2>6, <3>1 DEF IInv, TypeOK
  <2> QED BY <2>4, <2>5, <2>6, <2>7 DEF IInv
<1>8. CASE LoadInterrupted
  <2>1. /\ ppc = "loadEINTR" /\ ppc' = "scan"
        /\ files' = [files EXCEPT ![i] = None]
        /\ UNCHANGED <<link, asked, queued, listening, ready, i, mode, id,
                       result, dataArray, fdsA, fdsB, cpc, store>>
    BY <1>8 DEF LoadInterrupted
  <2>2. Framed' /\ Loading' /\ CopiesAgree'
    BY <2>1, Quiet DEF Phase
  <2>3. Serving' /\ files' \in [Fds -> Conns \cup {None}]
    BY <2>1, ServingPreserves
  <2>4. TypeOK'
    BY <2>1, <2>3 DEF IInv, TypeOK
  <2> QED BY <2>2, <2>3, <2>4 DEF IInv
<1>9. CASE Quit
  <2> DEFINE w == <<"mode", "quit">>
  <2>1. w \in Writes /\ Kind(w) = "mode" /\ Follows(w) = "mode"
    BY SMT DEF Writes, Kind, Follows
  <2>2. /\ Tell(w) /\ ppc = "quit" /\ ppc' = "scan" /\ listening' = FALSE
        /\ files' = [files EXCEPT ![i] = None]
        /\ UNCHANGED <<link, asked, queued, ready, i, mode, id, result,
                       dataArray, fdsB, cpc, store>>
    BY <1>9 DEF Quit
  <2> HIDE DEF w
  <2>3. /\ fdsA' \in Seq(Writes) /\ Len(fdsA') <= PipeMax
        /\ Framed' /\ Loading' /\ CopiesAgree'
    BY <1>1, <1>9, <2>1, <2>2, WritePreserves DEF Phase
  <2>4. Serving' /\ files' \in [Fds -> Conns \cup {None}]
    BY <2>2, ServingPreserves
  <2>5. TypeOK'
    BY <2>2, <2>3, <2>4 DEF IInv, TypeOK
  <2> QED BY <2>3, <2>4, <2>5 DEF IInv
<1>10. CASE Sigpipe
  <2>1. /\ files' = [fd \in Fds |-> None] /\ ppc' = "killed"
        /\ ppc \in {"saveReply", "loadWait"} /\ ready' = {}
        /\ UNCHANGED <<link, asked, queued, listening, i, mode, id, result,
                       dataArray, fdsA, cpc, store>>
    BY <1>10 DEF Sigpipe
  <2>2. /\ ppc = "saveReply" => fdsB' = <<>>
        /\ ppc = "loadWait" => fdsB # <<>> /\ fdsB' = Tail(fdsB)
    <3>1. ppc = "saveReply" => fdsB = <<>>
      BY DEF IInv, Loading, AnswerIsAwaited
    <3> QED BY <1>10, <3>1 DEF Sigpipe
  <2>3. fdsB' = <<>> /\ (ppc = "loadWait" => fdsA = <<>>)
    <3>1. ppc = "loadWait" => Len(fdsB) = 1 /\ fdsA = <<>>
      BY <2>2 DEF IInv, Loading, AnswerIsAwaited
    <3> DEFINE S == {Found(store, x) : x \in AnyId}
    <3>2. fdsB \in Seq(S)
      BY DEF IInv, TypeOK
    <3> HIDE DEF S
    <3>3. Len(fdsB) = 1 => Len(Tail(fdsB)) = 0 /\ Tail(fdsB) \in Seq(S)
      BY <3>2, SMT
    <3>4. Len(fdsB) = 1 => Tail(fdsB) = <<>>
      BY <3>3, EmptySeq
    <3> QED BY <2>1, <2>2, <3>1, <3>4
  <2>4. Framed' /\ CopiesAgree'
    BY <2>1 DEF IInv, Framed, PipeIsFramed, CopiesAgree
  <2>5. Loading'
    <3>1. Alive => \A n \in 1 .. Len(fdsA) : Kind(fdsA[n]) # "id"
      <4>1. ASSUME Alive, NEW n \in 1 .. Len(fdsA), Kind(fdsA[n]) = "id"
            PROVE  FALSE
        <5>1. ppc = "loadWait" /\ fdsB = <<>>
          BY <4>1 DEF IInv, Loading
        <5> QED BY <2>2, <5>1
      <4> QED BY <4>1
    <3> QED BY <2>1, <2>3, <3>1 DEF Loading, Alive, AnswerIsAwaited
  <2>6. Serving' /\ files' \in [Fds -> Conns \cup {None}]
    BY <2>1 DEF IInv, Serving
  <2>7. TypeOK'
    <3>1. fdsB' \in Seq({Found(store', x) : x \in AnyId})
      BY <2>3, EmptySeq
    <3> QED BY <2>1, <2>6, <3>1 DEF IInv, TypeOK
  <2> QED BY <2>4, <2>5, <2>6, <2>7 DEF IInv
<1> QED BY <1>2, <1>3, <1>4, <1>5, <1>6, <1>7, <1>8, <1>9, <1>10
        DEF mode_check

-----------------------------------------------------------------------------

\* A read() of the child from fdsA, likewise.
LEMMA ReadPreserves ==
  ASSUME IInv, Alive, fdsA # <<>>, fdsA' = Tail(fdsA), Phase' = Phase,
         ppc = "killed" => ppc' = "killed",
         \/ cpc' = Follows(fdsA[1])
         \/ cpc' \in {"exited", "overrun"} /\ Follows(fdsA[1]) = "mode",
         UNCHANGED dataArray,
         IF Kind(fdsA[1]) = "record" THEN store' = Append(store, Body(fdsA[1]))
                                     ELSE UNCHANGED store
  PROVE  /\ fdsA' \in Seq(Writes) /\ Len(fdsA') <= PipeMax
         /\ fdsA[1] \in Writes /\ store' \in Seq(Records) /\ fdsB = <<>>
         /\ Framed' /\ CopiesAgree'
         /\ \A n \in 1 .. Len(fdsA') :
              Kind(fdsA'[n]) = "id" => n = Len(fdsA') /\ ppc = "loadWait"
<1>1. /\ fdsA \in Seq(Writes) /\ dataArray \in Seq(Records)
      /\ store \in Seq(Records) /\ PipeMax \in Nat /\ Len(fdsA) <= PipeMax
  BY SizeAssumption DEF IInv, TypeOK
<1>2. /\ Len(fdsA') = Len(fdsA) - 1 /\ Len(fdsA) \in Nat \ {0}
      /\ \A n \in 1 .. Len(fdsA) - 1 : fdsA'[n] = fdsA[n + 1]
      /\ fdsA' \in Seq(Writes) /\ fdsA[1] \in Writes
  BY <1>1, SMT
<1>3. Framed'
  BY <1>1, FramedRead DEF IInv
<1>4. fdsB = <<>>
  BY DEF IInv, Loading, AnswerIsAwaited
<1>5. ASSUME NEW n \in 1 .. Len(fdsA'), Kind(fdsA'[n]) = "id"
      PROVE  n = Len(fdsA') /\ ppc = "loadWait"
  <2>1. /\ n + 1 \in 1 .. Len(fdsA) /\ fdsA'[n] = fdsA[n + 1]
    BY <1>2, SMT
  <2>2. n + 1 = Len(fdsA) /\ ppc = "loadWait"
    BY <1>5, <2>1 DEF IInv, Loading
  <2>3. n + 1 = Len(fdsA) /\ Len(fdsA') = Len(fdsA) - 1 /\ Len(fdsA) \in Nat
    BY <1>2, <2>2
  <2>4. n = Len(fdsA')
    <3>1. n \in Nat
      BY <2>3, SMT
    <3> QED BY <2>3, <3>1, SMT
  <2> QED BY <2>2, <2>4
<1>6. CASE Kind(fdsA[1]) = "record"
  <2>1. Body(fdsA[1]) \in Records
    BY <1>2, <1>6, WriteKinds
  <2>2. store' \in Seq(Records)
    BY <1>1, <1>6, <2>1, SMTT(20)
  <2>3. CopiesAgree'
    BY <1>1, <1>6, AgreeStore DEF IInv, CopiesAgree
  <2>4. Len(fdsA') <= PipeMax
    BY <1>1, <1>2, SMT
  <2> QED BY <1>2, <1>3, <1>4, <1>5, <2>2, <2>3, <2>4
<1>7. CASE Kind(fdsA[1]) # "record"
  <2>1. CopiesAgree'
    BY <1>1, <1>7, AgreeRead DEF IInv, CopiesAgree
  <2>2. Len(fdsA') <= PipeMax
    BY <1>1, <1>2, SMT
  <2> QED BY <1>1, <1>2, <1>3, <1>4, <1>5, <1>7, <2>1, <2>2
<1> QED BY <1>6, <1>7

\* The variables of the parent, while the child goes on.
LEMMA TypesRead ==
  ASSUME IInv, PipesOK',
         ppc' = ppc \/ ppc' = "loadEINTR",
         UNCHANGED <<link, asked, queued, files, listening, ready, i, mode, id,
                     result, dataArray>>
  PROVE  TypeOK'
<1>1. NetOK /\ ParentOK
  BY Parts DEF IInv
<1>2. NetOK'
  BY <1>1 DEF NetOK
<1>3. ParentOK'
  BY <1>1 DEF ParentOK
<1> QED BY <1>2, <1>3, Parts

\* store_loop().
LEMMA ChildPreserves ==
  ASSUME IInv, store_loop
  PROVE  IInv'
<1> USE DEF netvars, sockets, vectors, parent
<1>1. Serving'
  <2>1. ppc' = ppc \/ (ppc = "loadWait" /\ ppc' = "loadEINTR")
    BY DEF store_loop, StoreMode, StoreRecord, StoreLoad, StoreQuit
  <2>2. UNCHANGED <<link, asked, files, ready, i, mode, id>>
    BY DEF store_loop, StoreMode, StoreRecord, StoreLoad, StoreQuit
  <2> QED BY <2>1, <2>2 DEF IInv, Serving
<1>2. /\ fdsA \in Seq(Writes) /\ fdsA # <<>>
      /\ Head(fdsA) = fdsA[1] /\ fdsA[1] \in Writes
  <2>1. fdsA \in Seq(Writes) /\ fdsA # <<>>
    BY DEF IInv, TypeOK, store_loop, StoreMode, StoreRecord, StoreLoad,
       StoreQuit
  <2> QED BY <2>1, SMT
<1>3. UNCHANGED <<link, asked, queued, files, listening, ready, i, mode, id,
                  result, dataArray>>
      /\ fdsA' = Tail(fdsA)
  BY DEF store_loop, StoreMode, StoreRecord, StoreLoad, StoreQuit
<1>4. CASE StoreMode
  <2>1. PICK m \in {"save", "load"} :
          /\ Head(fdsA) = <<"mode", m>>
          /\ cpc' = IF m = "save" THEN "record" ELSE "id"
    BY <1>4 DEF StoreMode
  <2>2. cpc = "mode" /\ UNCHANGED <<ppc, fdsB, store>>
    BY <1>4 DEF StoreMode
  <2>3. Kind(fdsA[1]) = "mode" /\ cpc' = Follows(fdsA[1])
    BY <1>2, <2>1, SMT DEF Kind, Follows
  <2>4. /\ fdsA' \in Seq(Writes) /\ Len(fdsA') <= PipeMax
        /\ fdsB = <<>> /\ Framed' /\ CopiesAgree'
        /\ \A n \in 1 .. Len(fdsA') :
             Kind(fdsA'[n]) = "id" => n = Len(fdsA') /\ ppc = "loadWait"
    BY <1>2, <1>3, <2>2, <2>3, ReadPreserves DEF Alive, Phase
  <2>5. Loading'
    BY <2>2, <2>4 DEF IInv, Loading, Alive, AnswerIsAwaited
  <2>6. TypeOK'
    <3>1. PipesOK'
      BY <2>1, <2>2, <2>4 DEF IInv, TypeOK, PipesOK
    <3> QED BY <1>3, <2>2, <3>1, TypesRead
  <2> QED BY <1>1, <2>4, <2>5, <2>6 DEF IInv
<1>5. CASE StoreRecord
  <2>1. /\ cpc = "record" /\ cpc' = "mode" /\ Kind(fdsA[1]) = "record"
        /\ store' = Append(store, Body(fdsA[1])) /\ UNCHANGED <<ppc, fdsB>>
    BY <1>2, <1>5 DEF StoreRecord, Kind, Body
  <2>2. Follows(fdsA[1]) = "mode"
    BY <2>1, SMT DEF Kind, Follows
  <2>3. /\ fdsA' \in Seq(Writes) /\ Len(fdsA') <= PipeMax
        /\ store' \in Seq(Records) /\ fdsB = <<>> /\ Framed' /\ CopiesAgree'
        /\ \A n \in 1 .. Len(fdsA') :
             Kind(fdsA'[n]) = "id" => n = Len(fdsA') /\ ppc = "loadWait"
    BY <1>2, <1>3, <2>1, <2>2, ReadPreserves DEF Alive, Phase
  <2>4. Loading'
    BY <2>1, <2>3 DEF IInv, Loading, Alive, AnswerIsAwaited
  <2>5. <<>> \in Seq({Found(store', x) : x \in AnyId})
    BY SMT
  <2>6. TypeOK'
    <3>1. fdsB' \in Seq({Found(store', x) : x \in AnyId})
      BY <2>1, <2>3, <2>5
    <3>2. PipesOK'
      BY <2>1, <2>3, <3>1 DEF PipesOK
    <3> QED BY <1>3, <2>1, <3>2, TypesRead
  <2> QED BY <1>1, <2>3, <2>4, <2>6 DEF IInv
<1>6. CASE StoreLoad
  <2> DEFINE found == Found(store, Head(fdsA)[2])
  <2>1. /\ cpc = "id" /\ Kind(fdsA[1]) = "id" /\ UNCHANGED <<ppc, store>>
        /\ \/ cpc' = "overrun" /\ fdsB' = fdsB
           \/ cpc' = "mode" /\ fdsB' = Append(fdsB, found)
    BY <1>2, <1>6 DEF StoreLoad, Kind
  <2>2. Follows(fdsA[1]) = "mode"
    BY <2>1, SMT DEF Kind, Follows
  <2>3. /\ fdsA' \in Seq(Writes) /\ Len(fdsA') <= PipeMax
        /\ fdsB = <<>> /\ Framed' /\ CopiesAgree'
    BY <1>2, <1>3, <2>1, <2>2, ReadPreserves DEF Alive, Phase
  <2>4. ppc = "loadWait" /\ fdsA' = <<>>
    <3>1. 1 \in 1 .. Len(fdsA)
      BY <1>2, SMT
    <3>2. 1 = Len(fdsA) /\ ppc = "loadWait"
      BY <2>1, <3>1 DEF IInv, Loading, Alive
    <3> QED BY <1>2, <1>3, <3>2, SMT
  <2>5. found \in {Found(store, x) : x \in AnyId}
    <3>1. Body(fdsA[1]) \in AnyId
      BY <1>2, <2>1, WriteKinds
    <3> QED BY <1>2, <3>1 DEF Body
  <2> HIDE DEF found
  <2>6. fdsB' \in Seq({Found(store, x) : x \in AnyId}) /\ Len(fdsB') <= 1
    <3> DEFINE S == {Found(store, x) : x \in AnyId}
    <3> HIDE DEF S
    <3>1. found \in S /\ fdsB = <<>> /\ <<>> \in Seq(S)
      BY <2>3, <2>5, EmptySeq DEF S
    <3>2. ASSUME fdsB' = fdsB
          PROVE  fdsB' \in Seq(S) /\ Len(fdsB') <= 1
      <4>1. Len(fdsB) <= 1
        BY <3>1, EmptySeq, SMT
      <4> QED BY <3>1, <3>2, <4>1
    <3>3. ASSUME fdsB' = Append(fdsB, found)
          PROVE  fdsB' \in Seq(S) /\ Len(fdsB') <= 1
      <4>1. Append(<<>>, found) \in Seq(S) /\ Len(Append(<<>>, found)) <= 1
        BY <3>1, SMT
      <4> QED BY <3>1, <3>3, <4>1
    <3>4. fdsB' \in Seq(S) /\ Len(fdsB') <= 1
      BY <2>1, <3>2, <3>3
    <3> QED BY <3>4 DEF S
  <2>7. Len(fdsB') = 1 \/ fdsB' = <<>>
    BY <2>1, <2>3, SMT
  <2>8. Loading'
    BY <2>1, <2>4, <2>7, SMT DEF Loading, AnswerIsAwaited
  <2>9. TypeOK'
    <3>1. fdsB' \in Seq({Found(store', x) : x \in AnyId})
      BY <2>1, <2>6
    <3>2. store \in Seq(Records) /\ cpc' \in {"mode", "overrun"}
      BY <2>1 DEF IInv, TypeOK
    <3>3. PipesOK'
      BY <2>1, <2>3, <3>1, <3>2 DEF PipesOK
    <3> QED BY <1>3, <2>1, <3>3, TypesRead
  <2> QED BY <1>1, <2>3, <2>8, <2>9 DEF IInv
<1>7. CASE StoreQuit
  <2>1. /\ cpc = "mode" /\ Head(fdsA) = <<"mode", "quit">> /\ cpc' = "exited"
        /\ ppc' = ppc \/ (ppc = "loadWait" /\ ppc' = "loadEINTR")
        /\ UNCHANGED <<fdsB, store>>
    BY <1>7 DEF StoreQuit
  <2>2. Kind(fdsA[1]) = "mode" /\ Follows(fdsA[1]) = "mode"
    BY <1>2, <2>1, SMT DEF Kind, Follows
  <2>3. /\ fdsA' \in Seq(Writes) /\ Len(fdsA') <= PipeMax
        /\ fdsB = <<>> /\ Framed' /\ CopiesAgree'
    BY <1>2, <1>3, <2>1, <2>2, ReadPreserves DEF Alive, Phase
  <2>4. Loading'
    BY <2>1, <2>3 DEF Loading, Alive, AnswerIsAwaited
  <2>5. TypeOK'
    <3>1. PipesOK'
      BY <2>1, <2>3 DEF IInv, TypeOK, PipesOK
    <3> QED BY <1>3, <2>1, <3>1, TypesRead
  <2> QED BY <1>1, <2>3, <2>4, <2>5 DEF IInv
<1> QED BY <1>4, <1>5, <1>6, <1>7 DEF store_loop

\* No step of parent, child or clients breaks the invariant.
LEMMA NextPreserves == IInv /\ [Next]_vars => IInv'
<1> SUFFICES ASSUME IInv, [Next]_vars PROVE IInv'
  OBVIOUS
<1>1. CASE UNCHANGED vars
  <2>1. TypeOK'
    <3>1. fdsB' \in Seq({Found(store', x) : x \in AnyId})
      BY <1>1 DEF vars, IInv, TypeOK
    <3>2. UNCHANGED <<link, asked, queued, files, listening, ready, ppc, i,
                      mode, id, result, dataArray, fdsA, cpc, store>>
      BY <1>1 DEF vars
    <3>3. PipesOK'
      BY <3>1, <3>2 DEF IInv, TypeOK, PipesOK
    <3> QED BY <3>2, <3>3, TypesRead
  <2>2. Serving'
    BY <1>1 DEF vars, IInv, Serving
  <2>3. Framed' /\ Loading' /\ CopiesAgree'
    BY <1>1, Quiet DEF vars, Phase
  <2> QED BY <2>1, <2>3, <2>2 DEF IInv
<1>2. CASE Finished
  BY <1>1, <1>2 DEF Finished
<1>3. CASE Parent
  BY <1>3, LoopPreserves, ModePreserves DEF Parent, Loop
<1>4. CASE store_loop
  BY <1>4, ChildPreserves
<1>5. CASE \E c \in Conns : Client(c)
  BY <1>5, ClientPreserves
<1> QED BY <1>1, <1>2, <1>3, <1>4, <1>5 DEF Next

\* The inductive invariant holds in every state of hw6_server.c.
THEOREM Invariance == Spec => []IInv
BY InitInvariant, NextPreserves, PTL DEF Spec

\* Types, bounded pipes and a table of records within its size, for any number
\* of clients and any sizes.
THEOREM TypeCorrect == Spec => []TypeOK
<1>1. IInv => TypeOK
  BY DEF IInv
<1> QED BY <1>1, Invariance, PTL

\* The child never takes a record or an id for a mode, whatever order the
\* requests come in and however many of them are in the pipe.
THEOREM FramingCorrect == Spec => []PipeIsFramed
<1>1. IInv => PipeIsFramed
  BY DEF IInv, Framed
<1> QED BY <1>1, Invariance, PTL

\* An answer in fdsB is the one the parent is waiting for.
THEOREM AnswersCorrect == Spec => []AnswerIsAwaited
<1>1. IInv => AnswerIsAwaited
  BY DEF IInv, Loading
<1> QED BY <1>1, Invariance, PTL

\* The child's records and those on their way to it are the parent's.
THEOREM CopiesCorrect == Spec => []CopiesAgree
<1>1. IInv => CopiesAgree
  BY DEF IInv
<1> QED BY <1>1, Invariance, PTL

-----------------------------------------------------------------------------
(* Clients see one log, as long as readv() neither fails nor returns with   *)
(* part of a request (Resets and Splits are empty).                          *)

Saving == {"save", "saveReply", "saveRecord", "overrun"}
Busy   == Saving \cup {"load", "loadId", "loadWait", "loadEINTR", "quit"}
ModeOf == IF ppc \in Saving THEN "save"
          ELSE IF ppc = "quit" THEN "quit" ELSE "load"
Answered == {"saveRecord", "overrun"}

\* A client that has not sent its request has neither asked nor been answered.
Waiting ==
  /\ DOMAIN reply = Conns
  /\ \A c \in Conns :
       /\ link[c] \notin {"torn", "reset", "broken"}
       /\ link[c] \in {"idle", "open"} => asked[c] = None
       /\ link[c] \in {"idle", "open", "sent"} => reply[c] = None

\* The parent serves the request of the connection i refers to: mode, id and
\* result are what that client sent, and only a save is answered early.
Served(c) ==
  /\ link[c] \in {"read", "eof"}
  /\ asked[c] \in Requests /\ asked[c].mode = ModeOf
  /\ ppc # "quit" => asked[c].id = id
  /\ ppc \in Saving => result = c
  /\ reply[c] = IF ppc \in Answered THEN <<"result", c>> ELSE None
InHand ==
  ppc \in Busy => /\ i \in Fds /\ files[i] \in Conns
                  /\ \A c \in Conns : files[i] = c => Served(c)

\* The id the child is asked for is the client's, and what it answers is what
\* the parent has under it.
InPipe(w) == \E n \in 1 .. Len(fdsA) : fdsA[n] = w
Asking == /\ Alive => \A x \in AnyId : InPipe(<<"id", x>>) => x = id
          /\ fdsB # <<>> => fdsB[1] = Found(dataArray, id)

\* The child is asked to end only when the parent has stopped listening.
Quitting == InPipe(<<"mode", "quit">>) \/ cpc = "exited" => ~ listening

LogInv  == Waiting /\ InHand /\ Asking /\ Quitting
FullInv == IInv /\ LogInv

\* What the abstract log knows of the answer to a connection.
Seen(c) == IF ppc \in Answered /\ files[i] = c THEN None ELSE reply[c]

\* A step that changes nothing the log shows.
LEMMA Unseen ==
  ASSUME UNCHANGED <<asked, dataArray, listening>>,
         \A c \in Conns : Seen(c)' = Seen(c)
  PROVE  UNCHANGED Log!vars
<1>1. [c \in Conns |-> Seen(c)]' = [c \in Conns |-> Seen(c)]
  OBVIOUS
<1> QED BY <1>1 DEF Log!vars, Seen, Answered

\* The contents of the pipe after a write.
LEMMA AfterWrite ==
  ASSUME fdsA \in Seq(Writes), NEW w, fdsA' = Append(fdsA, w), NEW v
  PROVE  InPipe(v)' => InPipe(v) \/ v = w
<1>1. /\ Len(fdsA') = Len(fdsA) + 1 /\ Len(fdsA) \in Nat
      /\ \A n \in 1 .. Len(fdsA) : fdsA'[n] = fdsA[n]
      /\ fdsA'[Len(fdsA) + 1] = w
  BY SMT
<1>2. \A n \in 1 .. Len(fdsA') : n \in 1 .. Len(fdsA) \/ n = Len(fdsA) + 1
  BY <1>1, SMT
<1> QED BY <1>1, <1>2 DEF InPipe

\* The contents of the pipe after a read, and what was read.
LEMMA AfterRead ==
  ASSUME fdsA \in Seq(Writes), fdsA # <<>>, fdsA' = Tail(fdsA), NEW v
  PROVE  /\ InPipe(v)' => InPipe(v)
         /\ InPipe(Head(fdsA)) /\ Head(fdsA) = fdsA[1]
<1>1. /\ Len(fdsA') = Len(fdsA) - 1 /\ Len(fdsA) \in Nat \ {0}
      /\ \A n \in 1 .. Len(fdsA) - 1 : fdsA'[n] = fdsA[n + 1]
      /\ Head(fdsA) = fdsA[1]
  BY SMT
<1>2. \A n \in 1 .. Len(fdsA') : n \in 1 .. Len(fdsA) - 1
                                 /\ n + 1 \in 1 .. Len(fdsA)
  BY <1>1, SMT
<1>3. 1 \in 1 .. Len(fdsA)
  BY <1>1, SMT
<1> QED BY <1>1, <1>2, <1>3 DEF InPipe

\* While the parent does not wait for a load, no id is under way, and no answer.
LEMMA NoIdUnderWay ==
  ASSUME IInv, ppc # "loadWait"
  PROVE  fdsB = <<>> /\ (Alive => \A x \in AnyId : ~ InPipe(<<"id", x>>))
<1>1. fdsB = <<>>
  BY DEF IInv, Loading, AnswerIsAwaited
<1>2. ASSUME Alive, NEW x \in AnyId, NEW n \in 1 .. Len(fdsA),
             fdsA[n] = <<"id", x>>
      PROVE  FALSE
  <2>1. Kind(fdsA[n]) = "id"
    BY <1>2 DEF Kind
  <2> QED BY <1>2, <2>1 DEF IInv, Loading
<1> QED BY <1>1, <1>2 DEF InPipe

\* When the child answers a load, it has all records the parent has.
LEMMA NothingUnderWay ==
  ASSUME IInv, cpc = "id", fdsA # <<>>
  PROVE  store = dataArray
<1>1. /\ fdsA \in Seq(Writes) /\ dataArray \in Seq(Records)
      /\ store \in Seq(Records)
  BY DEF IInv, TypeOK
<1>2. Kind(fdsA[1]) = "id"
  BY DEF IInv, Framed, PipeIsFramed
<1>3. Len(fdsA) \in Nat \ {0} /\ 1 \in 1 .. Len(fdsA)
  BY <1>1, SMT
<1>4. Len(fdsA) = 1
  BY <1>2, <1>3 DEF IInv, Loading, Alive
<1>5. PICK at \in [1 .. Len(dataArray) - Len(store) -> 1 .. Len(fdsA)] :
        OnTheWay(at, dataArray, store, fdsA)
  BY DEF IInv, CopiesAgree, Agree
<1>6. /\ Len(store) <= Len(dataArray)
      /\ \A n \in 1 .. Len(store) : store[n] = dataArray[n]
  BY DEF IInv, CopiesAgree, Agree
<1>7. Len(dataArray) = Len(store)
  <2> SUFFICES ASSUME Len(dataArray) # Len(store) PROVE FALSE
    OBVIOUS
  <2>1. 1 \in 1 .. Len(dataArray) - Len(store)
    BY <1>1, <1>6, SMT
  <2>2. at[1] = 1 /\ 1 \in DOMAIN at
    BY <1>4, <1>5, <2>1, SMT
  <2> QED BY <1>2, <1>5, <2>2 DEF OnTheWay
<1> QED
  <2> SUFFICES ASSUME NEW s \in Seq(Records), NEW d \in Seq(Records),
                      Len(d) = Len(s), \A n \in 1 .. Len(s) : s[n] = d[n]
               PROVE  s = d
    BY <1>1, <1>6, <1>7
  <2> HIDE DEF Records
  <2> QED BY SMT

\* What a step of the parent or a client that leaves both pipes, the list and
\* the child alone has to show.
LEMMA PipesAlone ==
  ASSUME FullInv, UNCHANGED <<fdsA, fdsB, cpc, store, dataArray, listening>>,
         ppc # "loadWait" \/ UNCHANGED id
  PROVE  Asking' /\ Quitting'
<1>1. \A w : InPipe(w)' = InPipe(w)
  BY DEF InPipe
<1>2. Quitting'
  BY <1>1 DEF FullInv, LogInv, Quitting
<1>3. Asking'
  <2>1. CASE ppc # "loadWait"
    BY <1>1, <2>1, NoIdUnderWay DEF FullInv, Asking, Alive
  <2>2. CASE UNCHANGED id
    BY <1>1, <2>2 DEF FullInv, LogInv, Asking, Alive
  <2> QED BY <2>1, <2>2
<1> QED BY <1>2, <1>3

\* A client connects or hangs up unseen; its request shows.
LEMMA ClientLog ==
  ASSUME FullInv, Resets = {}, Splits = {}, NEW c \in Conns, Client(c)
  PROVE  LogInv' /\ [Log!Next]_(Log!vars)
<1> USE DEF netvars, sockets, vectors, child, pipes
<1>1. UNCHANGED <<fdsA, fdsB, cpc, store, dataArray, ppc, files, i, id, mode,
                  result, listening, reply>>
  BY DEF Client, Connect, Ask, HangUp, Break
<1>2. Asking' /\ Quitting'
  BY <1>1, PipesAlone
<1>3. \A d \in Conns : Seen(d)' = Seen(d)
  BY <1>1 DEF Seen
<1>4. /\ link \in [Conns -> Links]
      /\ asked \in [Conns -> Requests \cup {None}]
      /\ Waiting /\ InHand
  BY DEF FullInv, IInv, TypeOK, LogInv
<1>5. CASE Ask(c)
  <2>1. PICK r \in Requests : asked' = [asked EXCEPT ![c] = r]
    BY <1>5 DEF Ask
  <2>2. link[c] = "open" /\ link' = [link EXCEPT ![c] = "sent"]
    BY <1>5 DEF Ask
  <2>3. asked[c] = None
    BY <1>4, <2>2 DEF Waiting
  <2>4. Waiting'
    BY <1>1, <1>4, <2>1, <2>2 DEF Waiting
  <2>5. \A d \in Conns : Served(d) => Served(d)'
    <3>1. \A d \in Conns : d # c => link'[d] = link[d] /\ asked'[d] = asked[d]
      BY <1>4, <2>1, <2>2
    <3> QED BY <1>1, <2>2, <3>1 DEF Served, ModeOf
  <2>6. InHand'
    BY <1>1, <1>4, <2>5 DEF InHand
  <2>7. [d \in Conns |-> Seen(d)]' = [d \in Conns |-> Seen(d)]
    BY <1>3
  <2>8. Log!Ask(c)
    BY <1>1, <2>1, <2>3, <2>7
       DEF Log!Ask, Log!Requests, Requests, Seen, Answered
  <2> QED BY <1>2, <2>4, <2>6, <2>8 DEF LogInv, Log!Next
<1>6. CASE ~ Ask(c)
  <2>1. asked' = asked
    BY <1>6 DEF Client, Connect, HangUp, Break
  <2>2. \/ link[c] = "idle" /\ link' = [link EXCEPT ![c] = "open"]
        \/ link[c] \in {"open", "read"} /\ link' = [link EXCEPT ![c] = "eof"]
    BY <1>6 DEF Client, Connect, HangUp, Break
  <2>3. Waiting'
    BY <1>1, <1>4, <2>1, <2>2 DEF Waiting
  <2>4. \A d \in Conns : Served(d) => Served(d)'
    <3>1. \A d \in Conns :
            link[d] \in {"read", "eof"} => link'[d] \in {"read", "eof"}
      BY <1>4, <2>2
    <3> QED BY <1>1, <2>1, <3>1 DEF Served, ModeOf
  <2>5. InHand'
    BY <1>1, <1>4, <2>4 DEF InHand
  <2>6. UNCHANGED Log!vars
    BY <1>1, <1>3, <2>1, Unseen
  <2> QED BY <1>2, <2>3, <2>5, <2>6 DEF LogInv
<1> QED BY <1>5, <1>6

\* select(), accept() and the reading of a request show nothing.
LEMMA LoopLog ==
  ASSUME FullInv, Resets = {}, Splits = {}, Loop
  PROVE  LogInv' /\ UNCHANGED Log!vars
<1> USE DEF netvars, sockets, vectors, child, pipes
<1>1. /\ UNCHANGED <<fdsA, fdsB, cpc, store, dataArray, listening, asked, reply>>
      /\ ppc \in {"select", "scan"}
  BY DEF Loop, Select, SelectFails, ScanEnd, Accept, ReadEnd, ReadRequest,
     ReadPart, ReadTorn, ReadRest, ReadError, Reads, Turn
<1>2. Asking' /\ Quitting'
  BY <1>1, PipesAlone
<1>3. /\ link \in [Conns -> Links]
      /\ Waiting /\ Serving
  BY DEF FullInv, IInv, TypeOK, LogInv
<1>4. ASSUME NEW fd \in Fds, ReadRequest(fd)
      PROVE  /\ Waiting' /\ InHand' /\ ppc' \notin Answered
  <2>1. fd \in ready /\ fd # serv_sock /\ link[files[fd]] = "sent"
    BY <1>4 DEF ReadRequest, Reads, Turn
  <2>2. PICK c \in Conns : c = files[fd]
    BY <1>3, <2>1 DEF Serving
  <2>3. asked[c] \in Requests /\ reply[c] = None /\ link[c] = "sent"
    BY <1>3, <2>1, <2>2 DEF Serving, Waiting
  <2>4. /\ asked[c].mode \in {"save", "load", "quit"}
    BY <2>3 DEF Requests
  <2>5. /\ mode' = asked[c].mode /\ ppc' = asked[c].mode
        /\ id' = IF asked[c].mode = "quit" THEN id ELSE asked[c].id
        /\ asked[c].mode = "save" => result' = c
        /\ link' = [link EXCEPT ![c] = "read"] /\ i' = fd
        /\ UNCHANGED <<asked, files, reply>>
    BY <1>4, <2>2 DEF ReadRequest, Reads
  <2>6. Waiting'
    BY <1>1, <1>3, <2>3, <2>5 DEF Waiting
  <2>7. ModeOf' = asked[c].mode
    BY <2>4, <2>5 DEF ModeOf, Saving
  <2>8. Served(c)'
    <3>1. link'[c] = "read" /\ asked'[c] = asked[c] /\ reply'[c] = None
      BY <1>3, <2>3, <2>5
    <3>2. ppc' \notin Answered
      BY <2>4, <2>5 DEF Answered
    <3>3. ppc' # "quit" => asked[c].id = id'
      BY <2>5
    <3>4. ppc' \in Saving => result' = c
      BY <2>4, <2>5 DEF Saving
    <3> QED BY <2>3, <2>7, <3>1, <3>2, <3>3, <3>4 DEF Served
  <2>9. InHand'
    BY <2>2, <2>5, <2>8 DEF InHand
  <2> QED BY <2>4, <2>5, <2>6, <2>9 DEF Answered
<1>5. ASSUME ~ \E fd \in Fds : ReadRequest(fd)
      PROVE  Waiting' /\ InHand' /\ ppc' \notin Answered
  <2>1. link' = link /\ ppc' \in {"select", "scan", "exited"}
    <3>1. ASSUME NEW fd \in Fds, ReadRest(fd) \/ ReadError(fd) PROVE FALSE
      <4>1. /\ fd \in ready /\ fd # serv_sock
            /\ link[files[fd]] \in {"torn", "reset"}
        BY <3>1 DEF ReadRest, ReadError, Reads, Turn
      <4> QED BY <1>3, <4>1 DEF Serving, Waiting
    <3>2. \A fd \in Fds : ~ ReadPart(fd) /\ ~ ReadTorn(fd)
      BY DEF ReadPart, ReadTorn
    <3> QED BY <1>5, <3>1, <3>2 DEF Loop, Select, SelectFails, ScanEnd, Accept,
            ReadEnd, Turn
  <2>2. ppc' \notin Busy /\ ppc' \notin Answered
    BY <2>1 DEF Busy, Saving, Answered
  <2> QED BY <1>1, <1>3, <2>1, <2>2 DEF Waiting, InHand
<1>6. /\ Waiting' /\ InHand' /\ ppc' \notin Answered
  BY <1>4, <1>5
<1>7. UNCHANGED Log!vars
  <2>1. ppc \notin Answered
    BY <1>1 DEF Answered
  <2>2. \A c \in Conns : Seen(c)' = Seen(c)
    BY <1>1, <1>6, <2>1 DEF Seen
  <2> QED BY <1>1, <2>2, Unseen
<1> QED BY <1>2, <1>6, <1>7 DEF LogInv

\* A parent whose connections are not reset is not killed.
LEMMA NotKilled ==
  ASSUME FullInv
  PROVE  ~ Sigpipe
<1> SUFFICES ASSUME Sigpipe PROVE FALSE
  OBVIOUS
<1>1. ppc \in Busy /\ link[files[i]] = "broken"
  BY DEF Sigpipe, Busy, Saving
<1>2. files[i] \in Conns
  BY <1>1 DEF FullInv, LogInv, InHand
<1> QED BY <1>1, <1>2 DEF FullInv, LogInv, Waiting

\* The request being served, while the parent is at it.
LEMMA AtWork ==
  ASSUME FullInv, mode_check, ~ Sigpipe
  PROVE  \E c \in Conns : /\ i \in Fds /\ files[i] = c /\ Served(c)
                          /\ asked[c] # None
                          /\ \A d \in Conns : files[i] = d => d = c
<1>1. ppc \in Busy
  BY DEF mode_check, SaveMode, SaveReply, SaveRecord, LoadMode, LoadId,
     LoadReply, LoadInterrupted, Quit, Busy, Saving
<1>2. PICK c \in Conns : i \in Fds /\ files[i] = c /\ Served(c)
  BY <1>1 DEF FullInv, LogInv, InHand
<1>3. asked[c] # None
  BY <1>2, NoneAssumption DEF Served
<1> QED BY <1>2, <1>3

\* The writes of a mode or an id to the child show nothing.
LEMMA TellLog ==
  ASSUME FullInv, SaveMode \/ LoadMode \/ LoadId
  PROVE  LogInv' /\ UNCHANGED Log!vars
<1> USE DEF netvars, sockets, vectors, child, pipes
<1>1. PICK c \in Conns : i \in Fds /\ files[i] = c /\ Served(c)
  BY AtWork, NotKilled DEF mode_check
<1>2. /\ UNCHANGED <<link, asked, queued, files, listening, i, mode, id,
                     result, dataArray, fdsB, cpc, store, reply>>
      /\ ppc # "loadWait"
  BY DEF SaveMode, LoadMode, LoadId
<1>3. fdsA \in Seq(Writes)
  BY DEF FullInv, IInv, TypeOK
<1>4. PICK w : /\ fdsA' = Append(fdsA, w)
               /\ w \in {<<"mode", "save">>, <<"mode", "load">>, <<"id", id>>}
  BY DEF SaveMode, LoadMode, LoadId, Tell
<1>5. \A v : InPipe(v)' => InPipe(v) \/ v = w
  BY <1>3, <1>4, AfterWrite
<1>6. /\ ModeOf' = ModeOf /\ ppc' \in Busy /\ ppc' # "quit" /\ ppc # "quit"
      /\ ppc \notin Answered /\ ppc' \notin Answered
      /\ ppc' \in Saving <=> ppc \in Saving
  BY DEF SaveMode, LoadMode, LoadId, ModeOf, Saving, Busy, Answered
<1>7. Waiting'
  BY <1>2 DEF FullInv, LogInv, Waiting
<1>8. InHand'
  BY <1>1, <1>2, <1>6 DEF InHand, Served
<1>9. Asking'
  <2>1. fdsB = <<>> /\ (Alive => \A x \in AnyId : ~ InPipe(<<"id", x>>))
    BY <1>2, NoIdUnderWay DEF FullInv
  <2>2. ASSUME NEW x \in AnyId, w = <<"id", x>> PROVE x = id
    BY <1>4, <2>2
  <2> QED BY <1>2, <1>5, <2>1, <2>2 DEF Asking, Alive
<1>10. Quitting'
  BY <1>2, <1>4, <1>5 DEF FullInv, LogInv, Quitting
<1>11. UNCHANGED Log!vars
  <2>1. \A d \in Conns : Seen(d)' = Seen(d)
    BY <1>2, <1>6 DEF Seen
  <2> QED BY <1>2, <2>1, Unseen
<1> QED BY <1>7, <1>8, <1>9, <1>10, <1>11 DEF LogInv

\* The answer to a save comes just before the save counts: unseen as yet.
LEMMA SaveReplyLog ==
  ASSUME FullInv, SaveReply
  PROVE  LogInv' /\ UNCHANGED Log!vars
<1> USE DEF netvars, sockets, vectors, child, pipes
<1>1. PICK c \in Conns : /\ i \in Fds /\ files[i] = c /\ Served(c)
                         /\ \A d \in Conns : files[i] = d => d = c
  BY AtWork, NotKilled DEF mode_check
<1>2. /\ UNCHANGED <<link, asked, queued, files, listening, i, mode, id,
                     result, dataArray, fdsA, fdsB, cpc, store>>
      /\ ppc = "saveReply" /\ ppc' = "saveRecord"
      /\ reply' = [reply EXCEPT ![c] = <<"result", result>>]
  BY <1>1 DEF SaveReply, AnswerTo
<1>3. Waiting
  BY DEF FullInv, LogInv
<1>4. result = c /\ reply[c] = None /\ link[c] \in {"read", "eof"}
  BY <1>1, <1>2 DEF Served, Saving, Answered
<1>5. /\ reply'[c] = <<"result", c>>
      /\ \A d \in Conns : d # c => reply'[d] = reply[d]
      /\ DOMAIN reply' = Conns
  BY <1>2, <1>3, <1>4 DEF Waiting
<1>6. Waiting'
  BY <1>2, <1>3, <1>4, <1>5 DEF Waiting
<1>7. InHand'
  <2>1. Served(c)'
    BY <1>1, <1>2, <1>4, <1>5 DEF Served, ModeOf, Saving, Answered
  <2> QED BY <1>1, <1>2, <2>1 DEF InHand
<1>8. Asking' /\ Quitting'
  BY <1>2, PipesAlone
<1>9. UNCHANGED Log!vars
  <2>1. \A d \in Conns : Seen(d)' = Seen(d)
    BY <1>1, <1>2, <1>4, <1>5 DEF Seen, Answered
  <2> QED BY <1>2, <2>1, Unseen
<1> QED BY <1>6, <1>7, <1>8, <1>9 DEF LogInv

\* A save counts when the parent has its record.
LEMMA SaveRecordLog ==
  ASSUME FullInv, SaveRecord
  PROVE  LogInv' /\ [Log!Next]_(Log!vars)
<1> USE DEF netvars, sockets, vectors, child, pipes
<1>1. PICK c \in Conns : /\ i \in Fds /\ files[i] = c /\ Served(c)
                         /\ asked[c] # None
                         /\ \A d \in Conns : files[i] = d => d = c
  BY AtWork, NotKilled DEF mode_check
<1>2. /\ UNCHANGED <<link, asked, queued, listening, i, mode, id, result, fdsB,
                     cpc, store, reply>>
      /\ ppc = "saveRecord"
  BY DEF SaveRecord
<1>3. /\ result = c /\ reply[c] = <<"result", c>> /\ asked[c].id = id
      /\ asked[c].mode = "save"
  BY <1>1, <1>2 DEF Served, ModeOf, Saving, Answered
<1>4. Waiting'
  BY <1>2 DEF FullInv, LogInv, Waiting
<1>5. CASE Len(dataArray) = DATA_MAX
  <2>1. ppc' = "overrun" /\ UNCHANGED <<dataArray, fdsA, files>>
    BY <1>5 DEF SaveRecord
  <2>2. InHand'
    BY <1>1, <1>2, <2>1 DEF InHand, Served, ModeOf, Saving, Answered
  <2>3. Asking' /\ Quitting'
    BY <1>2, <2>1, PipesAlone
  <2>4. \A d \in Conns : Seen(d)' = Seen(d)
    BY <1>2, <2>1 DEF Seen, Answered
  <2> QED BY <1>2, <1>4, <2>1, <2>2, <2>3, <2>4, Unseen DEF LogInv
<1>6. CASE Len(dataArray) # DATA_MAX
  <2> DEFINE r == [id |-> asked[c].id, req |-> c]
  <2>1. /\ fdsA' = Append(fdsA, <<"record", r>>)
        /\ dataArray' = Append(dataArray, r)
        /\ files' = [files EXCEPT ![i] = None] /\ ppc' = "scan"
    BY <1>3, <1>6 DEF SaveRecord, Tell
  <2>2. InHand'
    BY <2>1 DEF InHand, Busy, Saving
  <2>3. fdsA \in Seq(Writes)
    BY DEF FullInv, IInv, TypeOK
  <2>4. \A v : InPipe(v)' => InPipe(v) \/ v = <<"record", r>>
    BY <2>1, <2>3, AfterWrite
  <2>5. Asking'
    <3>1. fdsB = <<>> /\ (Alive => \A x \in AnyId : ~ InPipe(<<"id", x>>))
      BY <1>2, NoIdUnderWay DEF FullInv
    <3> QED BY <1>2, <2>4, <3>1 DEF Asking, Alive
  <2>6. Quitting'
    BY <1>2, <2>4 DEF FullInv, LogInv, Quitting
  <2> DEFINE seen == [d \in Conns |-> Seen(d)]
  <2>7. /\ seen[c] = None
        /\ seen' = [seen EXCEPT ![c] = <<"result", c>>]
    BY <1>1, <1>2, <1>3, <2>1 DEF Seen, Answered
  <2>8. Log!Save(c)
    <3>1. Log!Pending(c, "save")
      BY <1>1, <1>3, <2>7 DEF Log!Pending, Seen, Answered
    <3>2. Log!Answer(c, <<"result", c>>)
      BY <2>7 DEF Log!Answer, Seen, Answered
    <3>3. dataArray' = Append(dataArray, Log!Record(c))
      BY <2>1 DEF Log!Record
    <3> QED BY <1>2, <3>1, <3>2, <3>3 DEF Log!Save
  <2> QED BY <1>4, <2>2, <2>5, <2>6, <2>8 DEF LogInv, Log!Next
<1> QED BY <1>5, <1>6

\* A load, and a quit, count when the client is answered.
LEMMA AnswerLog ==
  ASSUME FullInv, LoadReply \/ LoadInterrupted \/ Quit
  PROVE  LogInv' /\ [Log!Next]_(Log!vars)
<1> USE DEF netvars, sockets, vectors, child, pipes
<1>1. PICK c \in Conns : /\ i \in Fds /\ files[i] = c /\ Served(c)
                         /\ asked[c] # None
                         /\ \A d \in Conns : files[i] = d => d = c
  BY AtWork, NotKilled DEF mode_check
<1>2. /\ UNCHANGED <<link, asked, queued, i, mode, id, result, dataArray, cpc,
                     store>>
      /\ ppc' = "scan" /\ ppc \notin Answered
  BY DEF LoadReply, LoadInterrupted, Quit, Answered
<1>3. PICK a : reply' = [reply EXCEPT ![c] = a]
  BY <1>1 DEF LoadReply, LoadInterrupted, Quit, AnswerTo, Close
<1>4. /\ reply[c] = None /\ link[c] \in {"read", "eof"} /\ Waiting
      /\ fdsA \in Seq(Writes)
  BY <1>1, <1>2 DEF Served, FullInv, LogInv, IInv, TypeOK
<1>5. Waiting'
  BY <1>2, <1>3, <1>4 DEF Waiting
<1>6. InHand'
  BY <1>2 DEF InHand, Busy, Saving
<1> DEFINE seen == [d \in Conns |-> Seen(d)]
<1>7. seen[c] = None /\ seen' = [seen EXCEPT ![c] = a]
  BY <1>2, <1>3, <1>4 DEF Seen, Waiting, Answered
<1>8. CASE LoadReply
  <2>1. /\ ppc = "loadWait" /\ fdsB # <<>> /\ a = <<"found", Head(fdsB)>>
        /\ fdsB' = Tail(fdsB) /\ UNCHANGED <<listening, fdsA>>
    <3>1. reply' = [reply EXCEPT ![c] = <<"found", Head(fdsB)>>]
      BY <1>1, <1>8 DEF LoadReply, AnswerTo
    <3>2. a = <<"found", Head(fdsB)>>
      BY <1>3, <1>4, <3>1 DEF Waiting
    <3> QED BY <1>8, <3>2 DEF LoadReply
  <2>2. Len(fdsB) = 1 /\ fdsA = <<>>
    BY <2>1 DEF FullInv, IInv, Loading, AnswerIsAwaited
  <2>3. Head(fdsB) = fdsB[1] /\ fdsB' = <<>>
    <3> DEFINE S == {Found(store, x) : x \in AnyId}
    <3>1. fdsB \in Seq(S)
      BY DEF FullInv, IInv, TypeOK
    <3> HIDE DEF S
    <3>2. Len(Tail(fdsB)) = 0 /\ Tail(fdsB) \in Seq(S) /\ Head(fdsB) = fdsB[1]
      BY <2>1, <2>2, <3>1, SMT
    <3> QED BY <2>1, <3>2, EmptySeq
  <2>4. ~ InPipe(<<"mode", "quit">>)' /\ \A x : ~ InPipe(<<"id", x>>)'
    BY <2>1, <2>2, EmptySeq, SMT DEF InPipe
  <2>5. Asking' /\ Quitting'
    BY <1>2, <2>1, <2>3, <2>4 DEF FullInv, LogInv, Asking, Quitting, Alive
  <2>6. asked[c].mode = "load" /\ asked[c].id = id
    BY <1>1, <2>1 DEF Served, ModeOf, Saving
  <2>7. Head(fdsB) = Log!Found(asked[c].id)
    <3>1. fdsB[1] = Found(dataArray, id)
      BY <2>1 DEF FullInv, LogInv, Asking
    <3>2. Found(dataArray, id) = Log!Found(id)
      BY DEF Found, Log!Found
    <3>3. Log!Found(asked[c].id) = Log!Found(id)
      BY <2>6
    <3> QED BY <2>3, <3>1, <3>2, <3>3
  <2>8. Log!Load(c)
    <3>1. Log!Pending(c, "load")
      BY <1>1, <1>7, <2>6 DEF Log!Pending, Seen, Answered
    <3>2. Log!Answer(c, <<"found", Log!Found(asked[c].id)>>)
      BY <1>7, <2>1, <2>7 DEF Log!Answer, Seen, Answered
    <3> QED BY <1>2, <2>1, <3>1, <3>2 DEF Log!Load
  <2> QED BY <1>5, <1>6, <2>5, <2>8 DEF LogInv, Log!Next
<1>9. CASE LoadInterrupted
  <2>1. ppc = "loadEINTR" /\ UNCHANGED <<listening, fdsA, fdsB>>
    BY <1>9 DEF LoadInterrupted
  <2>2. a = <<"closed">>
    <3>1. reply' = [reply EXCEPT ![c] = <<"closed">>]
      BY <1>1, <1>9 DEF LoadInterrupted, Close
    <3> QED BY <1>3, <1>4, <3>1 DEF Waiting
  <2>3. ~ listening
    BY <2>1 DEF FullInv, IInv, Loading, LogInv, Quitting
  <2>4. asked[c].mode = "load"
    BY <1>1, <2>1 DEF Served, ModeOf, Saving
  <2>5. Asking' /\ Quitting'
    BY <1>2, <2>1, PipesAlone
  <2>6. Log!Fail(c)
    <3>1. Log!Pending(c, "load")
      BY <1>1, <1>7, <2>4 DEF Log!Pending, Seen, Answered
    <3>2. Log!Answer(c, <<"closed">>)
      BY <1>7, <2>2 DEF Log!Answer, Seen, Answered
    <3> QED BY <1>2, <2>1, <2>3, <3>1, <3>2 DEF Log!Fail
  <2> QED BY <1>5, <1>6, <2>5, <2>6 DEF LogInv, Log!Next
<1>10. CASE Quit
  <2>1. /\ ppc = "quit" /\ listening' = FALSE /\ UNCHANGED fdsB
        /\ fdsA' = Append(fdsA, <<"mode", "quit">>)
    BY <1>10 DEF Quit, Tell
  <2>2. a = <<"closed">>
    <3>1. reply' = [reply EXCEPT ![c] = <<"closed">>]
      BY <1>1, <1>10 DEF Quit, Close
    <3> QED BY <1>3, <1>4, <3>1 DEF Waiting
  <2>3. asked[c].mode = "quit"
    BY <1>1, <2>1 DEF Served, ModeOf, Saving
  <2>4. Asking'
    <3>1. \A v : InPipe(v)' => InPipe(v) \/ v = <<"mode", "quit">>
      BY <1>4, <2>1, AfterWrite
    <3>2. fdsB = <<>> /\ (Alive => \A x \in AnyId : ~ InPipe(<<"id", x>>))
      BY <2>1, NoIdUnderWay DEF FullInv
    <3> QED BY <1>2, <2>1, <3>1, <3>2 DEF Asking, Alive
  <2>5. Quitting'
    BY <2>1 DEF Quitting
  <2>6. Log!Quit(c)
    <3>1. Log!Pending(c, "quit")
      BY <1>1, <1>7, <2>3 DEF Log!Pending, Seen, Answered
    <3>2. Log!Answer(c, <<"closed">>)
      BY <1>7, <2>2 DEF Log!Answer, Seen, Answered
    <3>3. (~ listening)' = TRUE
      BY <2>1
    <3> QED BY <1>2, <3>1, <3>2, <3>3 DEF Log!Quit
  <2> QED BY <1>5, <1>6, <2>4, <2>5, <2>6 DEF LogInv, Log!Next
<1> QED BY <1>8, <1>9, <1>10

\* Nothing of what the child does shows; what it answers is what the log has.
LEMMA ChildLog ==
  ASSUME FullInv, store_loop
  PROVE  LogInv' /\ UNCHANGED Log!vars
<1> USE DEF parent, netvars, sockets, vectors
<1>1. /\ UNCHANGED <<link, asked, queued, files, listening, ready, i, mode, id,
                     result, dataArray, reply>>
      /\ fdsA' = Tail(fdsA) /\ fdsA # <<>> /\ fdsA \in Seq(Writes)
      /\ Alive
  BY DEF store_loop, StoreMode, StoreRecord, StoreLoad, StoreQuit, FullInv,
     IInv, TypeOK, Alive
<1>2. ppc' = ppc \/ (ppc = "loadWait" /\ ppc' = "loadEINTR")
  BY DEF store_loop, StoreMode, StoreRecord, StoreLoad, StoreQuit
<1>3. /\ \A v : InPipe(v)' => InPipe(v)
      /\ InPipe(Head(fdsA)) /\ Head(fdsA) = fdsA[1]
  BY <1>1, AfterRead
<1>4. Waiting'
  BY <1>1 DEF FullInv, LogInv, Waiting
<1>5. /\ ppc' \in Answered <=> ppc \in Answered
      /\ ppc' \in Saving <=> ppc \in Saving
      /\ ppc' \in Busy <=> ppc \in Busy
      /\ ppc' = "quit" <=> ppc = "quit"
      /\ ModeOf' = ModeOf
  BY <1>2 DEF Answered, Saving, Busy, ModeOf
<1>6. InHand'
  <2>1. \A c \in Conns : Served(c)' <=> Served(c)
    BY <1>1, <1>5 DEF Served
  <2> QED BY <1>1, <1>5, <2>1 DEF FullInv, LogInv, InHand
<1>7. Quitting'
  <2>1. cpc' = "exited" => Head(fdsA) = <<"mode", "quit">>
    BY DEF store_loop, StoreMode, StoreRecord, StoreLoad, StoreQuit
  <2> QED BY <1>1, <1>3, <2>1 DEF FullInv, LogInv, Quitting
<1>8. Asking'
  <2>1. \A x \in AnyId : InPipe(<<"id", x>>)' => x = id
    BY <1>1, <1>3 DEF FullInv, LogInv, Asking
  <2>2. fdsB' # <<>> => fdsB'[1] = Found(dataArray, id)
    <3>1. CASE fdsB' = fdsB
      BY <3>1 DEF FullInv, LogInv, Asking
    <3>2. CASE fdsB' # fdsB
      <4>1. /\ cpc = "id" /\ Kind(fdsA[1]) = "id"
            /\ fdsB' = Append(fdsB, Found(store, Body(fdsA[1])))
        BY <1>3, <3>2 DEF store_loop, StoreMode, StoreRecord, StoreLoad,
           StoreQuit, Kind, Body
      <4>2. store = dataArray
        BY <1>1, <4>1, NothingUnderWay DEF FullInv
      <4>3. fdsB = <<>>
        <5>1. fdsA # <<>>
          BY <1>1
        <5> QED BY <5>1 DEF FullInv, IInv, Loading, AnswerIsAwaited
      <4>4. Body(fdsA[1]) = id
        <5>1. fdsA[1] \in Writes
          BY <1>1, SMT
        <5>2. Body(fdsA[1]) \in AnyId /\ fdsA[1] = <<"id", Body(fdsA[1])>>
          BY <4>1, <5>1, WriteKinds DEF Ident, Body
        <5> QED BY <1>1, <1>3, <5>2 DEF FullInv, LogInv, Asking
      <4>5. \A v : Append(<<>>, v)[1] = v
        BY SMT
      <4> QED BY <4>1, <4>2, <4>3, <4>4, <4>5
    <3> QED BY <3>1, <3>2
  <2> QED BY <1>1, <2>1, <2>2 DEF Asking
<1>9. UNCHANGED Log!vars
  <2>1. \A c \in Conns : Seen(c)' = Seen(c)
    BY <1>1, <1>5 DEF Seen
  <2> QED BY <1>1, <2>1, Unseen
<1> QED BY <1>4, <1>6, <1>7, <1>8, <1>9 DEF LogInv

\* The initial state is the initial state of the log.
LEMMA InitLog ==
  ASSUME Init
  PROVE  LogInv /\ Log!Init
<1>1. LogInv
  <2>1. Waiting /\ InHand
    BY DEF Init, Waiting, InHand, Busy, Saving
  <2>2. \A w : ~ InPipe(w)
    <3>1. 1 .. Len(<<>>) = {}
      BY SMT
    <3> QED BY <3>1 DEF Init, InPipe
  <2>3. Asking /\ Quitting
    BY <2>2 DEF Init, Asking, Quitting
  <2> QED BY <2>1, <2>3 DEF LogInv
<1>2. [c \in Conns |-> Seen(c)] = [c \in Conns |-> None]
  BY DEF Init, Seen, Answered
<1> QED BY <1>1, <1>2 DEF Init, Log!Init, Seen, Answered

\* Every step of parent, child and clients is a step of the log, or unseen.
LEMMA NextLog ==
  ASSUME FullInv, Resets = {}, Splits = {}, [Next]_vars
  PROVE  LogInv' /\ [Log!Next]_(Log!vars)
<1>1. CASE Parent
  <2>1. CASE Loop
    BY <2>1, LoopLog
  <2>2. CASE mode_check
    BY <2>2, NotKilled, TellLog, SaveReplyLog, SaveRecordLog, AnswerLog
       DEF mode_check
  <2> QED BY <1>1, <2>1, <2>2 DEF Parent, Loop
<1>2. CASE store_loop
  BY <1>2, ChildLog
<1>3. CASE \E c \in Conns : Client(c)
  BY <1>3, ClientLog
<1>4. CASE Finished \/ UNCHANGED vars
  <2>1. UNCHANGED vars
    BY <1>4 DEF Finished
  <2>2. LogInv'
    <3>1. \A c \in Conns : Served(c)' <=> Served(c)
      BY <2>1 DEF vars, Served, ModeOf
    <3>2. \A w : InPipe(w)' <=> InPipe(w)
      BY <2>1 DEF vars, InPipe
    <3> QED BY <2>1, <3>1, <3>2 DEF vars, FullInv, LogInv, Waiting, InHand,
            Asking, Quitting, Alive
  <2>3. UNCHANGED Log!vars
    <3>1. \A c \in Conns : Seen(c)' = Seen(c)
      BY <2>1 DEF vars, Seen
    <3>2. UNCHANGED <<asked, dataArray, listening>>
      BY <2>1 DEF vars
    <3> QED BY <3>1, <3>2, Unseen
  <2> QED BY <2>2, <2>3
<1> QED BY <1>1, <1>2, <1>3, <1>4 DEF Next

\* hw6_server.c implements the log when no readv() fails or returns half a
\* request: two processes, two pipes and two copies of the records behave, to
\* every client, like one list that each request reads or extends at once.
THEOREM LogImplemented ==
  ASSUME Resets = {}, Splits = {}
  PROVE  Spec => ImplementsLog
<1>1. Init => FullInv /\ Log!Init
  BY InitInvariant, InitLog DEF FullInv
<1>2. FullInv /\ [Next]_vars => FullInv' /\ [Log!Next]_(Log!vars)
  BY NextPreserves, NextLog DEF FullInv
<1> QED BY <1>1, <1>2, PTL DEF Spec, ImplementsLog, Log!Spec
=============================================================================
