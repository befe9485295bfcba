-------------------------- MODULE EchoServerProofs ---------------------------
(***************************************************************************)
(* The invariants of the echo servers, for any clients and any values of   *)
(* the bounds, as theorems.                                                *)
(***************************************************************************)
EXTENDS EchoServer, SequenceTheorems, FiniteSetTheorems, TLAPS

-----------------------------------------------------------------------------
(* Streams that are cut and put together again. *)

\* A read takes the beginning of a stream and leaves the rest.
LEMMA Cut ==
  ASSUME NEW S, NEW s \in Seq(S), NEW n \in 1 .. Len(s)
  PROVE  /\ SubSeq(s, 1, n) \in Seq(S) /\ Len(SubSeq(s, 1, n)) = n
         /\ Drop(s, n) \in Seq(S) /\ Len(Drop(s, n)) = Len(s) - n
         /\ SubSeq(s, 1, n) \o Drop(s, n) = s
<1>1. Len(s) \in Nat
  BY LenProperties
<1>2. n \in Nat /\ 1 <= n /\ n <= Len(s)
  BY <1>1, SMT
<1>3. /\ SubSeq(s, 1, n) \in Seq(S) /\ Len(SubSeq(s, 1, n)) = n
      /\ \A i \in 1 .. n : SubSeq(s, 1, n)[i] = s[i]
  BY <1>1, <1>2, SubSeqProperties, SMT
<1>4. /\ Drop(s, n) \in Seq(S) /\ Len(Drop(s, n)) = Len(s) - n
      /\ \A i \in 1 .. Len(s) - n : Drop(s, n)[i] = s[n + i]
  BY <1>1, <1>2, SubSeqProperties, SMT DEF Drop
<1>5. SubSeq(s, 1, n) \o Drop(s, n) = s
  <2> DEFINE a == SubSeq(s, 1, n)
             b == Drop(s, n)
  <2> HIDE DEF a, b
  <2>1. /\ a \o b \in Seq(S) /\ Len(a \o b) = Len(s)
        /\ \A i \in 1 .. Len(s) :
             (a \o b)[i] = IF i <= n THEN a[i] ELSE b[i - n]
    BY <1>1, <1>2, <1>3, <1>4, ConcatProperties, SMT DEF a, b
  <2>2. ASSUME NEW i \in 1 .. Len(s) PROVE (a \o b)[i] = s[i]
    BY <1>1, <1>2, <1>3, <1>4, <2>1, SMT DEF a, b
  <2> QED BY <2>1, <2>2, SeqEqual DEF a, b
<1> QED BY <1>3, <1>4, <1>5

\* What was read before stays in front.
LEMMA CutBehind ==
  ASSUME NEW S, NEW t \in Seq(S), NEW s \in Seq(S), NEW n \in 1 .. Len(s)
  PROVE  (t \o SubSeq(s, 1, n)) \o Drop(s, n) = t \o s
<1> DEFINE a == SubSeq(s, 1, n)
           b == Drop(s, n)
<1>1. a \in Seq(S) /\ b \in Seq(S) /\ a \o b = s
  BY Cut
<1> HIDE DEF a, b
<1>2. (t \o a) \o b = t \o (a \o b)
  <2> SUFFICES ASSUME a \in Seq(S), b \in Seq(S)
               PROVE  (t \o a) \o b = t \o (a \o b)
    BY <1>1
  <2> QED BY SMT
<1> QED BY <1>1, <1>2 DEF a, b

\* A stream of one unit is read as a whole.
LEMMA CutOne ==
  ASSUME NEW m, NEW n \in 1 .. Len(<<m>>)
  PROVE  n = 1 /\ SubSeq(<<m>>, 1, n) = <<m>> /\ Drop(<<m>>, n) = <<>>
<1>1. n = 1 /\ <<m>> \in Seq({m}) /\ Len(<<m>>) = 1
  BY SMT
<1>2. SubSeq(<<m>>, 1, 1) = <<m>>
  BY <1>1, SubSeqFull
<1>3. Drop(<<m>>, 1) = <<>>
  BY <1>1, SubSeqEmpty, SMT DEF Drop
<1> QED BY <1>1, <1>2, <1>3

\* One unit more at the end.
LEMMA OneMore ==
  ASSUME NEW S, NEW s \in Seq(S), NEW m \in S
  PROVE  /\ Len(s \o <<m>>) = Len(s) + 1 /\ (s \o <<m>>)[Len(s) + 1] = m
         /\ \A k \in 1 .. Len(s) : (s \o <<m>>)[k] = s[k]
         /\ Len(Append(s, m)) = Len(s) + 1 /\ Append(s, m)[Len(s) + 1] = m
         /\ \A k \in 1 .. Len(s) : Append(s, m)[k] = s[k]
BY SMT

-----------------------------------------------------------------------------
(* Counting the units of one client in the pipe. *)

\* The count is a number.
LEMMA CountIsNat ==
  ASSUME NEW s, NEW c, NEW n \in Nat
  PROVE  /\ CountOf(s, c, n) \in Nat
         /\ IsFiniteSet({j \in 1 .. n : s[j][1] = c})
<1>1. IsFiniteSet(1 .. n)
  BY FS_Interval, SMT
<1>2. {j \in 1 .. n : s[j][1] = c} \in SUBSET (1 .. n)
  OBVIOUS
<1>3. IsFiniteSet({j \in 1 .. n : s[j][1] = c})
  BY <1>1, <1>2, FS_Subset
<1> QED BY <1>3, FS_CardinalityType DEF CountOf

\* It grows with the part of the pipe.
LEMMA CountGrows ==
  ASSUME NEW s, NEW c, NEW n \in Nat, NEW m \in Nat, m <= n
  PROVE  CountOf(s, c, m) <= CountOf(s, c, n)
<1>1. {j \in 1 .. m : s[j][1] = c} \in SUBSET {j \in 1 .. n : s[j][1] = c}
  BY SMT
<1>2. IsFiniteSet({j \in 1 .. n : s[j][1] = c})
  BY CountIsNat
<1> QED BY <1>1, <1>2, FS_Subset DEF CountOf

\* A unit of c counts.
LEMMA CountPositive ==
  ASSUME NEW s, NEW c, NEW n \in Nat, n >= 1, s[n][1] = c
  PROVE  CountOf(s, c, n) >= 1
<1>1. n \in {j \in 1 .. n : s[j][1] = c}
  BY SMT
<1>2. {j \in 1 .. n : s[j][1] = c} # {}
  BY <1>1
<1>3. CountOf(s, c, n) # 0
  BY <1>2, CountIsNat, FS_EmptySet DEF CountOf
<1>4. CountOf(s, c, n) \in Nat
  BY CountIsNat
<1> QED BY <1>3, <1>4, SMT

\* Only the first n units matter.
LEMMA CountLocal ==
  ASSUME NEW s, NEW t, NEW c, NEW n \in Nat, \A j \in 1 .. n : s[j] = t[j]
  PROVE  CountOf(s, c, n) = CountOf(t, c, n)
<1>1. {j \in 1 .. n : s[j][1] = c} = {j \in 1 .. n : t[j][1] = c}
  OBVIOUS
<1> QED BY <1>1 DEF CountOf

\* Units of others do not count.
LEMMA CountOthers ==
  ASSUME NEW s, NEW c, NEW n \in Nat, NEW k \in Nat,
         \A j \in n + 1 .. n + k : s[j][1] # c
  PROVE  CountOf(s, c, n + k) = CountOf(s, c, n)
<1>1. {j \in 1 .. n + k : s[j][1] = c} = {j \in 1 .. n : s[j][1] = c}
  BY SMT
<1> QED BY <1>1 DEF CountOf

\* Units of c count one by one.
LEMMA CountOwn ==
  ASSUME NEW s, NEW c, NEW n \in Nat, NEW k \in Nat,
         \A j \in n + 1 .. n + k : s[j][1] = c
  PROVE  CountOf(s, c, n + k) = CountOf(s, c, n) + k
<1> DEFINE A == {j \in 1 .. n : s[j][1] = c}
           B == n + 1 .. n + k
<1>1. {j \in 1 .. n + k : s[j][1] = c} = A \cup B
  BY SMT
<1>2. A \cap B = {}
  BY SMT
<1>3. IsFiniteSet(A) /\ IsFiniteSet(B) /\ Cardinality(B) = k
  <2>1. IsFiniteSet(A)
    BY CountIsNat
  <2>2. /\ n + 1 \in Int /\ n + k \in Int
        /\ (IF n + 1 > n + k THEN 0 ELSE (n + k) - (n + 1) + 1) = k
    BY SMT
  <2>3. IsFiniteSet(B) /\ Cardinality(B) = k
    BY <2>2, FS_Interval
  <2> QED BY <2>1, <2>3
<1>4. Cardinality(A) \in Nat
  BY <1>3, FS_CardinalityType
<1> HIDE DEF A, B
<1>5. Cardinality(A \cup B) = Cardinality(A) + k
  <2>1. Cardinality(A \cup B)
          = Cardinality(A) + Cardinality(B) - Cardinality(A \cap B)
    BY <1>3, FS_Union
  <2>2. Cardinality(A \cap B) = 0
    BY <1>2, FS_EmptySet
  <2> QED BY <1>3, <1>4, <2>1, <2>2, SMT
<1> QED BY <1>1, <1>5 DEF A, CountOf

-----------------------------------------------------------------------------
(* What the pipe holds of one client, as it grows. *)

Units == Clients \X (1 .. MsgMax)

\* What is logged of the piece h of client c.
Tagged(c, h) == [k \in DOMAIN h |-> <<c, h[k]>>]

\* A tagged piece is a piece of the pipe.
LEMMA TaggedPiece ==
  ASSUME NEW c \in Clients, NEW h \in Seq(1 .. MsgMax)
  PROVE  /\ Tagged(c, h) \in Seq(Units) /\ Len(Tagged(c, h)) = Len(h)
         /\ \A k \in 1 .. Len(h) : Tagged(c, h)[k] = <<c, h[k]>>
<1>1. Len(h) \in Nat /\ DOMAIN h = 1 .. Len(h)
  BY LenProperties
<1>2. \A k \in 1 .. Len(h) : h[k] \in 1 .. MsgMax
  BY ElementOfSeq
<1>3. Tagged(c, h) \in [1 .. Len(h) -> Units]
  BY <1>1, <1>2 DEF Tagged, Units
<1> QED BY <1>1, <1>3, IsASeq, LenProperties, SMT DEF Tagged

\* What is echoed to c is in hand until it is in the pipe.
LEMMA HoldsEchoed ==
  ASSUME NEW c \in Clients, NEW s \in Seq(Units), NEW t \in Seq(1 .. MsgMax),
         NEW h \in Seq(1 .. MsgMax), Holds(s, c, t, <<>>)
  PROVE  Holds(s, c, t \o h, h)
<1> DEFINE n == CountOf(s, c, Len(s))
<1>1. Len(s) \in Nat /\ Len(t) \in Nat /\ Len(h) \in Nat /\ Len(<<>>) = 0
  BY LenProperties, EmptySeq
<1>2. n \in Nat
  BY <1>1, CountIsNat
<1>3. Len(t) = n
  BY <1>1, <1>2, SMT DEF Holds
<1>4. /\ Len(t \o h) = n + Len(h)
      /\ \A i \in 1 .. n + Len(h) :
           (t \o h)[i] = IF i <= n THEN t[i] ELSE h[i - n]
  <2> HIDE DEF n
  <2> QED BY <1>3, SMT
<1>5. ASSUME NEW j \in 1 .. Len(s), s[j][1] = c
      PROVE  s[j][2] = (t \o h)[CountOf(s, c, j)]
  <2> DEFINE m == CountOf(s, c, j)
  <2>1. j \in Nat /\ j >= 1 /\ j <= Len(s)
    BY <1>1, SMT
  <2>2. m \in Nat /\ m >= 1 /\ m <= n
    BY <1>1, <1>5, <2>1, CountIsNat, CountPositive, CountGrows
  <2>3. s[j][2] = t[m]
    BY <1>5 DEF Holds
  <2> HIDE DEF m, n
  <2>4. (t \o h)[m] = t[m]
    BY <1>1, <1>2, <1>4, <2>2, SMT
  <2> QED BY <2>3, <2>4 DEF m
<1>6. ASSUME NEW k \in 1 .. Len(h) PROVE (t \o h)[n + k] = h[k]
  <2> HIDE DEF n
  <2> QED BY <1>1, <1>2, <1>4, SMT
<1> QED BY <1>4, <1>5, <1>6 DEF Holds

\* How the pipe grows by a piece.
LEMMA PipeGrows ==
  ASSUME NEW c \in Clients, NEW s \in Seq(Units), NEW h \in Seq(1 .. MsgMax)
  PROVE  LET r == s \o Tagged(c, h)
         IN /\ r \in Seq(Units) /\ Len(r) = Len(s) + Len(h)
            /\ \A j \in 1 .. Len(s) : r[j] = s[j]
            /\ \A k \in 1 .. Len(h) : r[Len(s) + k] = <<c, h[k]>>
<1> DEFINE g == Tagged(c, h)
<1>1. Len(s) \in Nat /\ Len(h) \in Nat
  BY LenProperties
<1>2. /\ g \in Seq(Units) /\ Len(g) = Len(h)
      /\ \A k \in 1 .. Len(h) : g[k] = <<c, h[k]>>
  BY TaggedPiece
<1> HIDE DEF g
<1>3. /\ s \o g \in Seq(Units) /\ Len(s \o g) = Len(s) + Len(g)
      /\ \A j \in 1 .. Len(s) : (s \o g)[j] = s[j]
      /\ \A k \in 1 .. Len(g) : (s \o g)[Len(s) + k] = g[k]
  <2>1. g \in Seq(Units)
    BY <1>2
  <2> QED BY <2>1, SMT
<1> QED BY <1>2, <1>3 DEF g

\* The piece in hand is written.
LEMMA HoldsLogged ==
  ASSUME NEW c \in Clients, NEW s \in Seq(Units), NEW t \in Seq(1 .. MsgMax),
         NEW h \in Seq(1 .. MsgMax), Holds(s, c, t, h)
  PROVE  Holds(s \o Tagged(c, h), c, t, <<>>)
<1> DEFINE r == s \o Tagged(c, h)
           n == CountOf(s, c, Len(s))
<1>1. Len(s) \in Nat /\ Len(t) \in Nat /\ Len(h) \in Nat /\ Len(<<>>) = 0
  BY LenProperties, EmptySeq
<1>2. n \in Nat
  BY <1>1, CountIsNat
<1>3. /\ r \in Seq(Units) /\ Len(r) = Len(s) + Len(h)
      /\ \A j \in 1 .. Len(s) : r[j] = s[j]
      /\ \A k \in 1 .. Len(h) : r[Len(s) + k] = <<c, h[k]>>
  BY PipeGrows
<1> HIDE DEF r
<1>4. \A k \in 1 .. Len(h) : r[Len(s) + k][1] = c /\ r[Len(s) + k][2] = h[k]
  BY <1>3
<1>5. ASSUME NEW j \in 1 .. Len(s) PROVE CountOf(r, c, j) = CountOf(s, c, j)
  <2>1. j \in Nat /\ \A i \in 1 .. j : r[i] = s[i]
    BY <1>1, <1>3, SMT
  <2> QED BY <2>1, CountLocal
<1>6. CountOf(r, c, Len(s)) = n
  BY <1>1, <1>3, CountLocal
<1>7. ASSUME NEW k \in 0 .. Len(h) PROVE CountOf(r, c, Len(s) + k) = n + k
  <2>1. k \in Nat /\ \A j \in Len(s) + 1 .. Len(s) + k : r[j][1] = c
    <3> SUFFICES ASSUME NEW j \in Len(s) + 1 .. Len(s) + k PROVE r[j][1] = c
      BY <1>1, SMT
    <3>1. j - Len(s) \in 1 .. Len(h) /\ Len(s) + (j - Len(s)) = j
      BY <1>1, SMT
    <3> QED BY <1>4, <3>1
  <2> QED BY <1>1, <1>6, <2>1, CountOwn
<1>8. CountOf(r, c, Len(r)) = n + Len(h)
  <2>1. Len(h) \in 0 .. Len(h)
    BY <1>1, SMT
  <2> QED BY <1>3, <1>7, <2>1
<1>9. Len(t) = CountOf(r, c, Len(r)) + Len(<<>>)
  <2>1. Len(t) = n + Len(h)
    BY DEF Holds
  <2> HIDE DEF n
  <2> QED BY <1>1, <1>2, <1>8, <2>1, SMT
<1>10. ASSUME NEW j \in 1 .. Len(r), r[j][1] = c
       PROVE  r[j][2] = t[CountOf(r, c, j)]
  <2>1. CASE j <= Len(s)
    <3>1. j \in 1 .. Len(s)
      BY <1>1, <1>3, <2>1, SMT
    <3>2. s[j][1] = c /\ r[j][2] = s[j][2]
      BY <1>3, <1>10, <3>1
    <3> QED BY <1>5, <3>1, <3>2 DEF Holds
  <2>2. CASE ~ j <= Len(s)
    <3> DEFINE k == j - Len(s)
    <3>1. k \in 1 .. Len(h) /\ k \in 0 .. Len(h) /\ Len(s) + k = j
      BY <1>1, <1>3, <2>2, SMT
    <3> HIDE DEF k
    <3>2. r[j][2] = h[k] /\ CountOf(r, c, j) = n + k
      BY <1>4, <1>7, <3>1
    <3>3. t[n + k] = h[k]
      BY <3>1 DEF Holds
    <3> QED BY <3>2, <3>3
  <2> QED BY <2>1, <2>2
<1>11. 1 .. Len(<<>>) = {}
  BY <1>1, SMT
<1> QED BY <1>9, <1>10, <1>11 DEF Holds, r

\* A piece of another client changes nothing.
LEMMA HoldsBeside ==
  ASSUME NEW c \in Clients, NEW d \in Clients, d # c, NEW s \in Seq(Units),
         NEW t, NEW g, NEW h \in Seq(1 .. MsgMax), Holds(s, d, t, g)
  PROVE  Holds(s \o Tagged(c, h), d, t, g)
<1> DEFINE r == s \o Tagged(c, h)
<1>1. Len(s) \in Nat /\ Len(h) \in Nat
  BY LenProperties
<1>2. /\ r \in Seq(Units) /\ Len(r) = Len(s) + Len(h)
      /\ \A j \in 1 .. Len(s) : r[j] = s[j]
      /\ \A k \in 1 .. Len(h) : r[Len(s) + k] = <<c, h[k]>>
  BY PipeGrows
<1> HIDE DEF r
<1>3. ASSUME NEW j \in Len(s) + 1 .. Len(s) + Len(h) PROVE r[j][1] # d
  <2> DEFINE k == j - Len(s)
  <2>1. k \in 1 .. Len(h) /\ Len(s) + k = j
    BY <1>1, SMT
  <2> HIDE DEF k
  <2>2. r[j] = <<c, h[k]>>
    BY <1>2, <2>1
  <2> QED BY <2>2
<1>4. ASSUME NEW j \in 1 .. Len(s) PROVE CountOf(r, d, j) = CountOf(s, d, j)
  <2>1. j \in Nat /\ \A i \in 1 .. j : r[i] = s[i]
    BY <1>1, <1>2, SMT
  <2> QED BY <2>1, CountLocal
<1>5. CountOf(r, d, Len(r)) = CountOf(s, d, Len(s))
  <2>1. CountOf(r, d, Len(s)) = CountOf(s, d, Len(s))
    BY <1>1, <1>2, CountLocal
  <2>2. CountOf(r, d, Len(s) + Len(h)) = CountOf(r, d, Len(s))
    BY <1>1, <1>3, CountOthers
  <2> QED BY <1>2, <2>1, <2>2
<1>6. ASSUME NEW j \in 1 .. Len(r), r[j][1] = d
      PROVE  r[j][2] = t[CountOf(r, d, j)]
  <2>1. j \in 1 .. Len(s)
    BY <1>1, <1>2, <1>3, <1>6, SMT
  <2>2. s[j][1] = d /\ r[j][2] = s[j][2]
    BY <1>2, <1>6, <2>1
  <2> QED BY <1>4, <2>1, <2>2 DEF Holds
<1> QED BY <1>5, <1>6 DEF Holds, r

-----------------------------------------------------------------------------
(* The inductive invariant. *)

\* The types, in parts that a step changes or leaves alone as a whole.
PlacesOK == /\ prog \in Programs /\ before \in 0 .. ServedMax - 1
            /\ dead \in BOOLEAN
PeopleOK == /\ kind \in [Clients -> {"none", "echo_client", "echo_mpclient"}]
            /\ msgs \in [Clients -> 0 .. MsgMax]
            /\ waits \cap gone = {} /\ rst \subseteq gone
            /\ wide \subseteq Clients /\ waits \subseteq Clients
            /\ fin \subseteq Clients /\ gone \subseteq Clients
            /\ done \subseteq Clients
            /\ \A c \in wide \cup waits \cup fin \cup gone \cup done :
                 kind[c] # "none"
StreamsOK == /\ up \in [Clients -> Seq(1 .. MsgMax)]
             /\ down \in [Clients -> Seq(1 .. MsgMax)]
             /\ held \in [Clients -> Seq(1 .. MsgMax)]
             /\ echoed \in [Clients -> Seq(1 .. MsgMax)]
             /\ got \in [Clients -> Seq(1 .. MsgMax)]
             /\ lens \in [Clients -> Seq(Nat)]
ServersOK == /\ pc \in [Clients -> {"none", "refused", "read", "echo", "log",
                                    "ended", "killed"}]
             /\ Alone => \A c, d \in Clients :
                           pc[c] \in {"echo", "log"}
                             /\ pc[d] \in {"echo", "log"} => c = d
PipeOK == /\ fds \in Seq(Units) /\ Len(fds) <= PipeMax
          /\ log \in Seq(Units) /\ logged \in 0 .. LogReads

\* The type invariant is these parts, now and after a step.
LEMMA Parts ==
  /\ TypeOK <=> PlacesOK /\ PeopleOK /\ StreamsOK /\ ServersOK /\ PipeOK
  /\ TypeOK' <=> PlacesOK' /\ PeopleOK' /\ StreamsOK' /\ ServersOK' /\ PipeOK'
<1>1. TypeOK <=> PlacesOK /\ PeopleOK /\ StreamsOK /\ ServersOK /\ PipeOK
  <2>1. (\A S \in {wide, waits, fin, gone, done} :
           S \subseteq {c \in Clients : kind[c] # "none"})
        <=> /\ wide \subseteq Clients /\ waits \subseteq Clients
            /\ fin \subseteq Clients /\ gone \subseteq Clients
            /\ done \subseteq Clients
            /\ \A c \in wide \cup waits \cup fin \cup gone \cup done :
                 kind[c] # "none"
    BY SMT
  <2>2. (\A s \in {up, down, held, echoed, got} :
           s \in [Clients -> Seq(1 .. MsgMax)])
        <=> /\ up \in [Clients -> Seq(1 .. MsgMax)]
            /\ down \in [Clients -> Seq(1 .. MsgMax)]
            /\ held \in [Clients -> Seq(1 .. MsgMax)]
            /\ echoed \in [Clients -> Seq(1 .. MsgMax)]
            /\ got \in [Clients -> Seq(1 .. MsgMax)]
    BY Zenon
  <2>3. \A c, d \in Clients :
          {pc[c], pc[d]} \subseteq {"echo", "log"}
          <=> pc[c] \in {"echo", "log"} /\ pc[d] \in {"echo", "log"}
    BY Zenon
  <2>4. ASSUME TypeOK
        PROVE  PlacesOK /\ PeopleOK /\ StreamsOK /\ ServersOK /\ PipeOK
    <3> USE <2>4 DEF TypeOK
    <3>1. PlacesOK
      BY DEF PlacesOK
    <3>2. PeopleOK
      BY <2>1 DEF PeopleOK
    <3>3. StreamsOK
      BY <2>2 DEF StreamsOK
    <3>4. ServersOK
      BY <2>3 DEF ServersOK
    <3>5. PipeOK
      BY DEF PipeOK, Units
    <3> QED BY <3>1, <3>2, <3>3, <3>4, <3>5
  <2>5. PlacesOK /\ PeopleOK /\ StreamsOK /\ ServersOK /\ PipeOK => TypeOK
    BY <2>1, <2>2, <2>3, Zenon
    DEF TypeOK, PlacesOK, PeopleOK, StreamsOK, ServersOK, PipeOK, Units
  <2> QED BY <2>4, <2>5
<1>2. TypeOK' <=> PlacesOK' /\ PeopleOK' /\ StreamsOK' /\ ServersOK' /\ PipeOK'
  <2>1. (\A S \in {wide', waits', fin', gone', done'} :
           S \subseteq {c \in Clients : kind'[c] # "none"})
        <=> /\ wide' \subseteq Clients /\ waits' \subseteq Clients
            /\ fin' \subseteq Clients /\ gone' \subseteq Clients
            /\ done' \subseteq Clients
            /\ \A c \in wide' \cup waits' \cup fin' \cup gone' \cup done' :
                 kind'[c] # "none"
    BY SMT
  <2>2. (\A s \in {up', down', held', echoed', got'} :
           s \in [Clients -> Seq(1 .. MsgMax)])
        <=> /\ up' \in [Clients -> Seq(1 .. MsgMax)]
            /\ down' \in [Clients -> Seq(1 .. MsgMax)]
            /\ held' \in [Clients -> Seq(1 .. MsgMax)]
            /\ echoed' \in [Clients -> Seq(1 .. MsgMax)]
            /\ got' \in [Clients -> Seq(1 .. MsgMax)]
    BY Zenon
  <2>3. \A c, d \in Clients :
          {pc'[c], pc'[d]} \subseteq {"echo", "log"}
          <=> pc'[c] \in {"echo", "log"} /\ pc'[d] \in {"echo", "log"}
    BY Zenon
  <2>4. ASSUME TypeOK'
        PROVE  PlacesOK' /\ PeopleOK' /\ StreamsOK' /\ ServersOK' /\ PipeOK'
    <3> USE <2>4 DEF TypeOK
    <3>1. PlacesOK'
      BY DEF PlacesOK
    <3>2. PeopleOK'
      BY <2>1 DEF PeopleOK
    <3>3. StreamsOK'
      BY <2>2 DEF StreamsOK
    <3>4. ServersOK'
      BY <2>3 DEF ServersOK, Alone
    <3>5. PipeOK'
      BY DEF PipeOK, Units
    <3> QED BY <3>1, <3>2, <3>3, <3>4, <3>5
  <2>5. PlacesOK' /\ PeopleOK' /\ StreamsOK' /\ ServersOK' /\ PipeOK' => TypeOK'
    BY <2>1, <2>2, <2>3, Zenon
    DEF TypeOK, PlacesOK, PeopleOK, StreamsOK, ServersOK, PipeOK, Units, Alone
  <2> QED BY <2>4, <2>5
<1> QED BY <1>1, <1>2

\* Who has not connected has not been heard of.
Unheard(c) == /\ msgs[c] = 0 /\ up[c] = <<>> /\ down[c] = <<>>
              /\ got[c] = <<>> /\ lens[c] = <<>> /\ echoed[c] = <<>>
              /\ pc[c] = "none"

\* Nothing of c is on its way.
Nothing(c) == up[c] = <<>> /\ down[c] = <<>> /\ pc[c] # "echo"

\* The unit m is all that is on its way, and no reset comes before it.
OnItsWay(c, m) ==
  \/ up[c] = <<m>> /\ down[c] = <<>> /\ pc[c] # "echo" /\ c \notin rst
  \/ /\ up[c] = <<>> /\ down[c] = <<>> /\ pc[c] = "echo" /\ held[c] = <<m>>
     /\ c \notin rst
  \/ up[c] = <<>> /\ down[c] = <<m>> /\ pc[c] # "echo"

\* Each read() so far has returned one message, in order.
InOrder(c) == /\ Len(got[c]) = Len(lens[c])
              /\ \A k \in 1 .. Len(lens[c]) : lens[c][k] = 1 /\ got[c][k] = k

\* A client that waits for each echo has one message on its way at most.
OneAtATime(c) ==
  /\ InOrder(c)
  /\ \/ Nothing(c) /\ (c \in gone \/ Closed(c) \/ msgs[c] = Len(got[c]))
     \/ /\ OnItsWay(c, msgs[c])
        /\ c \in gone \/ (msgs[c] = Len(got[c]) + 1
                            /\ (c \in waits \/ Closed(c)))

\* Nothing that was echoed is lost while the client is there.
Returned(c) ==
  /\ c \notin gone => echoed[c] = got[c] \o down[c]
  /\ pc[c] = "ended" => up[c] = <<>>
  /\ c \in done => c \in gone \/ (Closed(c) /\ down[c] = <<>>)
  /\ pc[c] = "killed" => c \in gone /\ (c \in wide \/ kind[c] = "echo_mpclient")

ClientInv(c) ==
  /\ kind[c] = "none" => Unheard(c)
  /\ kind[c] = "echo_client" /\ c \notin wide => OneAtATime(c)
  /\ Returned(c)

\* What of c is in hand when the pipe is next.
InHand(c) == IF pc[c] = "log" THEN held[c] ELSE <<>>
LoggedOf(c) == Logs => Holds(log \o fds, c, echoed[c], InHand(c))

IInv == TypeOK /\ \A c \in Clients : ClientInv(c) /\ LoggedOf(c)

-----------------------------------------------------------------------------
\* Nobody has come yet.
LEMMA InitInvariant == Init => IInv
<1> SUFFICES ASSUME Init PROVE IInv
  OBVIOUS
<1> USE DEF Init
<1>1. <<>> \in Seq(1 .. MsgMax) /\ <<>> \in Seq(Nat) /\ <<>> \in Seq(Units)
      /\ Len(<<>>) = 0
  BY EmptySeq
<1>2. PlacesOK
  BY DEF PlacesOK
<1>3. PeopleOK
  BY SizeAssumption, SMT DEF PeopleOK, SizeAssumption
<1>4. StreamsOK
  BY <1>1 DEF StreamsOK
<1>5. ServersOK
  BY DEF ServersOK
<1>6. PipeOK
  BY <1>1, SizeAssumption, SMT DEF PipeOK, SizeAssumption
<1>7. ASSUME NEW c \in Clients PROVE ClientInv(c)
  BY <1>1 DEF ClientInv, Unheard, Returned
<1>8. ASSUME NEW c \in Clients PROVE LoggedOf(c)
  <2>1. log \o fds = <<>> /\ echoed[c] = <<>> /\ InHand(c) = <<>>
    BY DEF InHand
  <2>2. 1 .. 0 = {}
    BY SMT
  <2>3. CountOf(<<>>, c, 0) = 0
    BY <2>2, FS_EmptySet DEF CountOf
  <2> QED BY <1>1, <2>1, <2>2, <2>3 DEF LoggedOf, Holds
<1> QED BY <1>2, <1>3, <1>4, <1>5, <1>6, <1>7, <1>8, Parts DEF IInv

-----------------------------------------------------------------------------
(* Steps that leave a client alone. *)

\* A step of somebody else; it may be the end of the whole server.
Untouched(d) ==
  /\ UNCHANGED <<kind[d], msgs[d], up[d], down[d], got[d], lens[d], pc[d],
                 held[d], echoed[d]>>
  /\ d \in wide' <=> d \in wide
  /\ d \in waits' <=> d \in waits
  /\ d \in gone' <=> d \in gone
  /\ d \in rst' <=> d \in rst
  /\ d \in done' <=> d \in done
  /\ dead => dead'

\* It keeps what is known of the client.
LEMMA Frame ==
  ASSUME NEW d \in Clients, ClientInv(d), Untouched(d)
  PROVE  ClientInv(d)'
<1> USE DEF Untouched
<1>1. Closed(d) => Closed(d)'
  BY DEF Closed
<1>2. kind[d]' = "none" => Unheard(d)'
  BY DEF ClientInv, Unheard
<1>3. ASSUME kind'[d] = "echo_client", d \notin wide' PROVE OneAtATime(d)'
  <2>1. OneAtATime(d)
    BY <1>3 DEF ClientInv
  <2>2. InOrder(d)'
    BY <2>1 DEF OneAtATime, InOrder
  <2>3. Nothing(d) => Nothing(d)'
    BY DEF Nothing
  <2>4. OnItsWay(d, msgs[d]) => OnItsWay(d, msgs[d])'
    BY DEF OnItsWay
  <2> QED BY <1>1, <2>1, <2>2, <2>3, <2>4 DEF OneAtATime
<1>4. Returned(d)'
  BY <1>1 DEF ClientInv, Returned
<1> QED BY <1>2, <1>3, <1>4 DEF ClientInv

\* A step that neither logs nor echoes to d.
LEMMA LoggedFrame ==
  ASSUME NEW d \in Clients, LoggedOf(d), UNCHANGED <<prog, log, fds>>,
         echoed'[d] = echoed[d], InHand(d)' = InHand(d)
  PROVE  LoggedOf(d)'
BY DEF LoggedOf, Logs

\* The parts of the invariant are taken apart and put together.
LEMMA Whole ==
  /\ IInv => /\ PlacesOK /\ PeopleOK /\ StreamsOK /\ ServersOK /\ PipeOK
             /\ \A d \in Clients : ClientInv(d) /\ LoggedOf(d)
  /\ /\ PlacesOK' /\ PeopleOK' /\ StreamsOK' /\ ServersOK' /\ PipeOK'
     /\ \A d \in Clients : ClientInv(d)' /\ LoggedOf(d)'
     => IInv'
BY Parts DEF IInv

-----------------------------------------------------------------------------
(* The clients. *)

\* connect().
LEMMA ConnectPreserves ==
  ASSUME IInv, NEW c \in Clients, Connect(c), UNCHANGED setting
  PROVE  IInv'
<1>1. /\ PlacesOK /\ PeopleOK /\ StreamsOK /\ ServersOK /\ PipeOK
      /\ \A d \in Clients : ClientInv(d) /\ LoggedOf(d)
  BY Whole
<1>2. /\ kind[c] = "none"
      /\ kind' \in [Clients -> {"none", "echo_client", "echo_mpclient"}]
      /\ kind'[c] # "none" /\ \A d \in Clients \ {c} : kind'[d] = kind[d]
      /\ UNCHANGED <<prog, before, msgs, wide, waits, fin, gone, done, got,
                     lens, rst, up, down, pc, held, echoed, dead, fds, log,
                     logged>>
  BY <1>1 DEF Connect, PeopleOK, setting, printed, logger
<1>3. PlacesOK' /\ StreamsOK' /\ ServersOK' /\ PipeOK'
  BY <1>1, <1>2 DEF PlacesOK, StreamsOK, ServersOK, PipeOK, Alone
<1>4. PeopleOK'
  BY <1>1, <1>2 DEF PeopleOK
<1>5. ASSUME NEW d \in Clients PROVE ClientInv(d)'
  <2>1. CASE d # c
    BY <1>1, <1>2, <2>1, Frame DEF Untouched
  <2>2. CASE d = c
    <3>1. Unheard(c) /\ Returned(c)
      BY <1>1, <1>2 DEF ClientInv
    <3>2. c \notin gone /\ c \notin wide
      BY <1>1, <1>2 DEF PeopleOK
    <3>3. OneAtATime(c)'
      <4>1. Len(<<>>) = 0 /\ 1 .. 0 = {}
        BY SMT
      <4> QED BY <1>2, <3>1, <4>1 DEF OneAtATime, InOrder, Nothing, Unheard
    <3>4. Returned(c)'
      BY <1>2, <3>1, <3>2 DEF Returned, Closed, Unheard
    <3> QED BY <1>2, <2>2, <3>3, <3>4 DEF ClientInv
  <2> QED BY <2>1, <2>2
<1>6. ASSUME NEW d \in Clients PROVE LoggedOf(d)'
  BY <1>1, <1>2, LoggedFrame DEF InHand
<1> QED BY <1>3, <1>4, <1>5, <1>6, Whole

\* write() of a message.
LEMMA SayPreserves ==
  ASSUME IInv, NEW c \in Clients, Say(c), UNCHANGED setting
  PROVE  IInv'
<1>1. /\ PlacesOK /\ PeopleOK /\ StreamsOK /\ ServersOK /\ PipeOK
      /\ \A d \in Clients : ClientInv(d) /\ LoggedOf(d)
  BY Whole
<1> DEFINE m == msgs[c] + 1
<1>2. PICK n \in 1 .. 2 :
        /\ up' = [up EXCEPT ![c] = @ \o Repeat(msgs'[c], n)]
        /\ wide' = IF n = 2 THEN wide \cup {c} ELSE wide
  BY DEF Say
<1>3. /\ kind[c] # "none" /\ c \notin gone /\ c \notin waits /\ ~ Closed(c)
      /\ msgs[c] < MsgMax /\ msgs' = [msgs EXCEPT ![c] = m]
      /\ waits' = IF kind[c] = "echo_client" THEN waits \cup {c} ELSE waits
      /\ UNCHANGED <<prog, before, kind, fin, gone, done, got, lens, rst, down,
                     pc, held, echoed, dead, fds, log, logged>>
  BY DEF Say, Running, setting, printed, logger
<1>4. /\ msgs[c] \in 0 .. MsgMax /\ MsgMax \in Nat
      /\ msgs \in [Clients -> 0 .. MsgMax]
  BY <1>1, SizeAssumption DEF PeopleOK, SizeAssumption
<1>5. m \in 1 .. MsgMax /\ m \in 0 .. MsgMax
  BY <1>3, <1>4, SMT
<1> HIDE DEF m
<1>6. /\ msgs' \in [Clients -> 0 .. MsgMax] /\ msgs'[c] = m
      /\ \A d \in Clients \ {c} : msgs'[d] = msgs[d]
  BY <1>3, <1>4, <1>5
<1>7. Repeat(m, n) \in Seq(1 .. MsgMax)
  BY <1>5, IsASeq, SMT DEF Repeat
<1>8. /\ up[c] \o Repeat(m, n) \in Seq(1 .. MsgMax)
      /\ up' \in [Clients -> Seq(1 .. MsgMax)]
      /\ up'[c] = up[c] \o Repeat(m, n)
      /\ \A d \in Clients \ {c} : up'[d] = up[d]
  <2>1. up \in [Clients -> Seq(1 .. MsgMax)]
    BY <1>1 DEF StreamsOK
  <2>2. up[c] \o Repeat(m, n) \in Seq(1 .. MsgMax)
    BY <1>7, <2>1, ConcatProperties
  <2> QED BY <1>2, <1>6, <2>1, <2>2
<1>9. PlacesOK' /\ StreamsOK' /\ ServersOK' /\ PipeOK'
  BY <1>1, <1>3, <1>8 DEF PlacesOK, StreamsOK, ServersOK, PipeOK, Alone
<1>10. PeopleOK'
  BY <1>1, <1>2, <1>3, <1>6 DEF PeopleOK
<1>11. ASSUME NEW d \in Clients PROVE ClientInv(d)'
  <2>1. CASE d # c
    BY <1>1, <1>2, <1>3, <1>6, <1>8, <2>1, Frame DEF Untouched
  <2>2. CASE d = c
    <3>1. ASSUME kind[c] = "echo_client", c \notin wide'
          PROVE  OneAtATime(c)'
      <4>1. OneAtATime(c) /\ c \notin wide /\ n = 1
        BY <1>1, <1>2, <3>1 DEF ClientInv
      <4>2. Nothing(c) /\ msgs[c] = Len(got[c]) /\ InOrder(c)
        BY <1>3, <4>1 DEF OneAtATime
      <4>3. up'[c] = <<m>>
        BY <1>8, <4>1, <4>2, SMT DEF Nothing, Repeat
      <4>4. c \notin rst
        BY <1>1, <1>3 DEF PeopleOK
      <4>5. OnItsWay(c, msgs[c])'
        BY <1>3, <1>6, <4>2, <4>3, <4>4 DEF OnItsWay, Nothing
      <4>6. msgs'[c] = Len(got'[c]) + 1 /\ c \in waits'
        BY <1>3, <1>6, <3>1, <4>2 DEF m
      <4>7. InOrder(c)'
        BY <1>3, <4>2 DEF InOrder
      <4> QED BY <4>5, <4>6, <4>7 DEF OneAtATime
    <3>2. Returned(c)'
      BY <1>1, <1>3 DEF ClientInv, Returned, Closed
    <3> QED BY <1>3, <2>2, <3>1, <3>2 DEF ClientInv
  <2> QED BY <2>1, <2>2
<1>12. ASSUME NEW d \in Clients PROVE LoggedOf(d)'
  BY <1>1, <1>3, LoggedFrame DEF InHand
<1> QED BY <1>9, <1>10, <1>11, <1>12, Whole

\* A read() that returns something.
LEMMA ReadEchoPreserves ==
  ASSUME IInv, NEW c \in Clients, ReadEcho(c), UNCHANGED setting
  PROVE  IInv'
<1>1. /\ PlacesOK /\ PeopleOK /\ StreamsOK /\ ServersOK /\ PipeOK
      /\ \A d \in Clients : ClientInv(d) /\ LoggedOf(d)
  BY Whole
<1>2. PICK n \in 1 .. Len(down[c]) :
        /\ got' = [got EXCEPT ![c] = @ \o SubSeq(down[c], 1, n)]
        /\ lens' = [lens EXCEPT ![c] = Append(@, n)]
        /\ down' = [down EXCEPT ![c] = Drop(@, n)]
  BY DEF ReadEcho
<1>3. /\ kind[c] # "none" /\ c \notin gone /\ down[c] # <<>>
      /\ kind[c] = "echo_client" => c \in waits
      /\ waits' = waits \ {c}
      /\ UNCHANGED <<prog, before, kind, msgs, wide, fin, gone, done, rst, up,
                     pc, held, echoed, dead, fds, log, logged>>
  BY DEF ReadEcho, Running, setting, logger
<1>4. /\ down \in [Clients -> Seq(1 .. MsgMax)]
      /\ got \in [Clients -> Seq(1 .. MsgMax)] /\ lens \in [Clients -> Seq(Nat)]
      /\ down[c] \in Seq(1 .. MsgMax) /\ got[c] \in Seq(1 .. MsgMax)
      /\ lens[c] \in Seq(Nat)
  BY <1>1 DEF StreamsOK
<1>5. n \in Nat
  BY <1>4, LenProperties, SMT
<1>6. /\ SubSeq(down[c], 1, n) \in Seq(1 .. MsgMax)
      /\ Drop(down[c], n) \in Seq(1 .. MsgMax)
  BY <1>4, Cut
<1>7. /\ got[c] \o SubSeq(down[c], 1, n) \in Seq(1 .. MsgMax)
      /\ Append(lens[c], n) \in Seq(Nat)
  BY <1>4, <1>5, <1>6, ConcatProperties, AppendProperties
<1>8. /\ got' \in [Clients -> Seq(1 .. MsgMax)]
      /\ lens' \in [Clients -> Seq(Nat)]
      /\ down' \in [Clients -> Seq(1 .. MsgMax)]
      /\ got'[c] = got[c] \o SubSeq(down[c], 1, n)
      /\ lens'[c] = Append(lens[c], n) /\ down'[c] = Drop(down[c], n)
      /\ \A d \in Clients \ {c} : /\ got'[d] = got[d] /\ lens'[d] = lens[d]
                                  /\ down'[d] = down[d]
  BY <1>2, <1>4, <1>6, <1>7
<1>9. PlacesOK' /\ StreamsOK' /\ ServersOK' /\ PipeOK'
  BY <1>1, <1>3, <1>8 DEF PlacesOK, StreamsOK, ServersOK, PipeOK, Alone
<1>10. PeopleOK'
  BY <1>1, <1>3 DEF PeopleOK
<1>11. ASSUME NEW d \in Clients PROVE ClientInv(d)'
  <2>1. CASE d # c
    BY <1>1, <1>3, <1>8, <2>1, Frame DEF Untouched
  <2>2. CASE d = c
    <3>1. ASSUME kind[c] = "echo_client", c \notin wide
          PROVE  OneAtATime(c)'
      <4> DEFINE m == msgs[c]
                 l == Len(got[c])
      <4>1. OneAtATime(c) /\ ~ Nothing(c)
        BY <1>1, <1>3, <3>1 DEF ClientInv, Nothing
      <4>2. /\ InOrder(c) /\ m = l + 1
            /\ up[c] = <<>> /\ pc[c] # "echo" /\ down[c] = <<m>>
        BY <1>3, <4>1 DEF OneAtATime, OnItsWay
      <4>3. n = 1 /\ SubSeq(down[c], 1, n) = <<m>> /\ Drop(down[c], n) = <<>>
        BY <4>2, CutOne
      <4>4. l \in Nat /\ Len(lens[c]) = l
        BY <1>4, <4>2, LenProperties DEF InOrder
      <4> HIDE DEF m, l
      <4>5. /\ Len(got'[c]) = l + 1 /\ got'[c][l + 1] = m
            /\ \A k \in 1 .. l : got'[c][k] = got[c][k]
        <5>1. got'[c] = got[c] \o <<m>>
          BY <1>8, <4>3
        <5>2. m \in 1 .. MsgMax
          <6>1. msgs[c] \in 0 .. MsgMax /\ MsgMax \in Nat
            BY <1>1, SizeAssumption DEF PeopleOK, SizeAssumption
          <6> QED BY <4>2, <4>4, <6>1, SMT DEF m
        <5> QED BY <1>4, <5>1, <5>2, OneMore DEF l
      <4>6. /\ Len(lens'[c]) = l + 1 /\ lens'[c][l + 1] = 1
            /\ \A k \in 1 .. l : lens'[c][k] = lens[c][k]
        <5>1. lens'[c] = Append(lens[c], 1)
          BY <1>8, <4>3
        <5>2. 1 \in Nat
          BY SMT
        <5>3. /\ Len(Append(lens[c], 1)) = Len(lens[c]) + 1
              /\ Append(lens[c], 1)[Len(lens[c]) + 1] = 1
              /\ \A k \in 1 .. Len(lens[c]) :
                   Append(lens[c], 1)[k] = lens[c][k]
          BY <1>4, <5>2, OneMore
        <5> QED BY <4>4, <5>1, <5>3
      <4>7. InOrder(c)'
        <5> SUFFICES ASSUME NEW k \in 1 .. l + 1
                     PROVE  lens'[c][k] = 1 /\ got'[c][k] = k
          BY <4>5, <4>6 DEF InOrder
        <5>1. CASE k = l + 1
          BY <4>2, <4>5, <4>6, <5>1
        <5>2. CASE k # l + 1
          <6>1. k \in 1 .. l
            BY <4>4, <5>2, SMT
          <6> QED BY <4>2, <4>4, <4>5, <4>6, <6>1 DEF InOrder
        <5> QED BY <5>1, <5>2
      <4>8. Nothing(c)' /\ msgs'[c] = Len(got'[c])
        BY <1>3, <1>8, <4>2, <4>3, <4>5 DEF Nothing, m
      <4> QED BY <4>7, <4>8 DEF OneAtATime
    <3>2. Returned(c)'
      <4>1. Returned(c)
        BY <1>1 DEF ClientInv
      <4>2. echoed[c] = got'[c] \o down'[c]
        <5>1. (got[c] \o SubSeq(down[c], 1, n)) \o Drop(down[c], n)
                = got[c] \o down[c]
          BY <1>4, CutBehind
        <5> QED BY <1>3, <1>8, <4>1, <5>1 DEF Returned
      <4>3. c \notin done
        BY <1>3, <4>1 DEF Returned
      <4> QED BY <1>3, <4>1, <4>2, <4>3 DEF Returned
    <3> QED BY <1>3, <2>2, <3>1, <3>2 DEF ClientInv
  <2> QED BY <2>1, <2>2
<1>12. ASSUME NEW d \in Clients PROVE LoggedOf(d)'
  BY <1>1, <1>3, LoggedFrame DEF InHand
<1> QED BY <1>9, <1>10, <1>11, <1>12, Whole

\* A read() that returns 0.
LEMMA ReadEndPreserves ==
  ASSUME IInv, NEW c \in Clients, ReadEnd(c), UNCHANGED setting
  PROVE  IInv'
<1>1. /\ PlacesOK /\ PeopleOK /\ StreamsOK /\ ServersOK /\ PipeOK
      /\ \A d \in Clients : ClientInv(d) /\ LoggedOf(d)
  BY Whole
<1>2. /\ kind[c] # "none" /\ c \notin gone /\ down[c] = <<>> /\ Closed(c)
      /\ waits \ {c} \subseteq waits' /\ waits' \subseteq waits
      /\ done \subseteq done' /\ done' \subseteq done \cup {c}
      /\ UNCHANGED <<prog, before, kind, msgs, wide, fin, gone, got, lens, rst,
                     up, down, pc, held, echoed, dead, fds, log, logged>>
  BY DEF ReadEnd, Running, setting, printed, logger
<1>3. PlacesOK' /\ StreamsOK' /\ ServersOK' /\ PipeOK'
  BY <1>1, <1>2 DEF PlacesOK, StreamsOK, ServersOK, PipeOK, Alone
<1>4. PeopleOK'
  BY <1>1, <1>2 DEF PeopleOK
<1>5. ASSUME NEW d \in Clients PROVE ClientInv(d)'
  <2>1. CASE d # c
    BY <1>1, <1>2, <2>1, Frame DEF Untouched
  <2>2. CASE d = c
    <3>1. Closed(c)'
      BY <1>2 DEF Closed
    <3>2. ASSUME kind[c] = "echo_client", c \notin wide PROVE OneAtATime(c)'
      <4>1. OneAtATime(c)
        BY <1>1, <3>2 DEF ClientInv
      <4>2. InOrder(c)' /\ (Nothing(c) => Nothing(c)')
            /\ (OnItsWay(c, msgs[c]) => OnItsWay(c, msgs[c])')
        BY <1>2, <4>1 DEF OneAtATime, InOrder, Nothing, OnItsWay
      <4>3. c \in gone \/ Nothing(c) \/ msgs[c] = Len(got[c]) + 1
        BY <4>1 DEF OneAtATime
      <4> QED BY <1>2, <3>1, <4>1, <4>2, <4>3 DEF OneAtATime
    <3>3. Returned(c)'
      BY <1>1, <1>2, <3>1 DEF ClientInv, Returned
    <3> QED BY <1>2, <2>2, <3>2, <3>3 DEF ClientInv
  <2> QED BY <2>1, <2>2
<1>6. ASSUME NEW d \in Clients PROVE LoggedOf(d)'
  BY <1>1, <1>2, LoggedFrame DEF InHand
<1> QED BY <1>3, <1>4, <1>5, <1>6, Whole

\* The client closes or is killed.
LEMMA LeavesPreserves ==
  ASSUME IInv, NEW c \in Clients, kind[c] # "none", Leaves(c),
         waits' = waits \ {c}, UNCHANGED setting,
         UNCHANGED <<kind, msgs, wide, fin, done, printed, up, pc, held,
                     echoed, dead, logger>>
  PROVE  IInv'
<1>1. /\ PlacesOK /\ PeopleOK /\ StreamsOK /\ ServersOK /\ PipeOK
      /\ \A d \in Clients : ClientInv(d) /\ LoggedOf(d)
  BY Whole
<1>2. /\ gone' = gone \cup {c}
      /\ rst' = IF down[c] # <<>> THEN rst \cup {c} ELSE rst
      /\ down' = [down EXCEPT ![c] = <<>>]
      /\ UNCHANGED <<prog, before, got, lens, fds, log, logged>>
  BY DEF Leaves, setting, printed, logger
<1>3. /\ down' \in [Clients -> Seq(1 .. MsgMax)] /\ down'[c] = <<>>
      /\ \A d \in Clients \ {c} : down'[d] = down[d]
  <2>1. down \in [Clients -> Seq(1 .. MsgMax)]
    BY <1>1 DEF StreamsOK
  <2> QED BY <1>2, <2>1, EmptySeq
<1>4. PlacesOK' /\ StreamsOK' /\ ServersOK' /\ PipeOK'
  BY <1>1, <1>2, <1>3 DEF PlacesOK, StreamsOK, ServersOK, PipeOK, Alone
<1>5. PeopleOK'
  BY <1>1, <1>2 DEF PeopleOK
<1>6. ASSUME NEW d \in Clients PROVE ClientInv(d)'
  <2>1. CASE d # c
    BY <1>1, <1>2, <1>3, <2>1, Frame DEF Untouched
  <2>2. CASE d = c
    <3>1. c \in gone'
      BY <1>2
    <3>2. ASSUME kind[c] = "echo_client", c \notin wide PROVE OneAtATime(c)'
      <4>1. OneAtATime(c)
        BY <1>1, <3>2 DEF ClientInv
      <4>2. InOrder(c)'
        BY <1>2, <4>1 DEF OneAtATime, InOrder
      <4>3. Nothing(c) => Nothing(c)'
        BY <1>3 DEF Nothing
      <4>4. OnItsWay(c, msgs[c]) => Nothing(c)' \/ OnItsWay(c, msgs[c])'
        BY <1>2, <1>3 DEF OnItsWay, Nothing
      <4> QED BY <3>1, <4>1, <4>2, <4>3, <4>4 DEF OneAtATime
    <3>3. Returned(c)'
      BY <1>1, <3>1 DEF ClientInv, Returned
    <3> QED BY <2>2, <3>2, <3>3 DEF ClientInv
  <2> QED BY <2>1, <2>2
<1>7. ASSUME NEW d \in Clients PROVE LoggedOf(d)'
  BY <1>1, <1>2, LoggedFrame DEF InHand
<1> QED BY <1>4, <1>5, <1>6, <1>7, Whole

\* q, and the end of a client in another way.
LEMMA EndPreserves ==
  ASSUME IInv, NEW c \in Clients, Quit(c) \/ Kill(c), UNCHANGED setting
  PROVE  IInv'
<1>1. CASE Kill(c)
  BY <1>1, LeavesPreserves DEF Kill, Running
<1>2. CASE Quit(c) /\ kind[c] # "echo_mpclient"
  BY <1>2, LeavesPreserves DEF Quit, Running
<1>3. CASE Quit(c) /\ kind[c] = "echo_mpclient"
  <2>1. /\ PlacesOK /\ PeopleOK /\ StreamsOK /\ ServersOK /\ PipeOK
        /\ \A d \in Clients : ClientInv(d) /\ LoggedOf(d)
    BY Whole
  <2>2. /\ fin' = fin \cup {c}
        /\ UNCHANGED <<prog, before, kind, msgs, wide, waits, gone, done, got,
                       lens, rst, up, down, pc, held, echoed, dead, fds, log,
                       logged>>
    BY <1>3 DEF Quit, setting, printed, logger
  <2>3. PlacesOK' /\ StreamsOK' /\ ServersOK' /\ PipeOK'
    BY <2>1, <2>2 DEF PlacesOK, StreamsOK, ServersOK, PipeOK, Alone
  <2>4. PeopleOK'
    BY <1>3, <2>1, <2>2 DEF PeopleOK
  <2>5. ASSUME NEW d \in Clients PROVE ClientInv(d)' /\ LoggedOf(d)'
    BY <2>1, <2>2, Frame, LoggedFrame DEF Untouched, InHand
  <2> QED BY <2>3, <2>4, <2>5, Whole
<1> QED BY <1>1, <1>2, <1>3

-----------------------------------------------------------------------------
(* The server. *)

\* What is known of the process for c, when it has another state and nothing
\* else has changed.
LEMMA PcPreserves ==
  ASSUME IInv, NEW c \in Clients, NEW next \in {"read", "refused", "ended"},
         pc' = [pc EXCEPT ![c] = next], kind[c] # "none",
         pc[c] \in {"none", "read"},
         next = "ended" => up[c] = <<>>,
         pc[c] = "none" => next # "ended",
         UNCHANGED <<setting, client, rst, up, down, held, echoed, dead, logger>>
  PROVE  IInv'
<1>1. /\ PlacesOK /\ PeopleOK /\ StreamsOK /\ ServersOK /\ PipeOK
      /\ \A d \in Clients : ClientInv(d) /\ LoggedOf(d)
  BY Whole
<1>2. UNCHANGED <<prog, before, kind, msgs, wide, waits, fin, gone, done, got,
                  lens, rst, up, down, held, echoed, dead, fds, log, logged>>
  BY DEF setting, client, printed, logger
<1>3. /\ pc' \in [Clients -> {"none", "refused", "read", "echo", "log",
                              "ended", "killed"}]
      /\ pc'[c] = next /\ \A d \in Clients \ {c} : pc'[d] = pc[d]
  BY <1>1 DEF ServersOK
<1>4. PlacesOK' /\ StreamsOK' /\ PeopleOK' /\ PipeOK'
  BY <1>1, <1>2 DEF PlacesOK, StreamsOK, PeopleOK, PipeOK
<1>5. ServersOK'
  BY <1>1, <1>2, <1>3 DEF ServersOK, Alone
<1>6. ASSUME NEW d \in Clients PROVE ClientInv(d)'
  <2>1. CASE d # c
    BY <1>1, <1>2, <1>3, <2>1, Frame DEF Untouched
  <2>2. CASE d = c
    <3>1. Closed(c) => Closed(c)'
      BY <1>2, <1>3 DEF Closed
    <3>2. ASSUME kind[c] = "echo_client", c \notin wide PROVE OneAtATime(c)'
      <4>1. OneAtATime(c)
        BY <1>1, <3>2 DEF ClientInv
      <4>2. InOrder(c)' /\ (Nothing(c) => Nothing(c)')
            /\ (OnItsWay(c, msgs[c]) => OnItsWay(c, msgs[c])')
        BY <1>2, <1>3, <4>1 DEF OneAtATime, InOrder, Nothing, OnItsWay
      <4> QED BY <1>2, <3>1, <4>1, <4>2 DEF OneAtATime
    <3>3. Returned(c)'
      BY <1>1, <1>2, <1>3, <3>1 DEF ClientInv, Returned
    <3> QED BY <1>2, <2>2, <3>2, <3>3 DEF ClientInv
  <2> QED BY <2>1, <2>2
<1>7. ASSUME NEW d \in Clients PROVE LoggedOf(d)'
  <2>1. InHand(d)' = InHand(d)
    BY <1>2, <1>3 DEF InHand
  <2> QED BY <1>1, <1>2, <2>1, LoggedFrame
<1> QED BY <1>4, <1>5, <1>6, <1>7, Whole

\* accept(), a fork() that fails, and a read() that returns 0.
LEMMA AcceptPreserves ==
  ASSUME IInv, NEW c \in Clients, Accept(c) \/ Refuse(c) \/ ReadZero(c),
         UNCHANGED setting
  PROVE  IInv'
<1>1. CASE Accept(c)
  BY <1>1, PcPreserves DEF Accept
<1>2. CASE Refuse(c)
  BY <1>2, PcPreserves DEF Refuse
<1>3. CASE ReadZero(c)
  <2>1. kind[c] # "none"
    BY <1>3, Whole DEF ReadZero, ClientInv, Unheard
  <2> QED BY <1>3, <2>1, PcPreserves DEF ReadZero
<1> QED BY <1>1, <1>2, <1>3

\* A read() that returns something.
LEMMA ReadPreserves ==
  ASSUME IInv, NEW c \in Clients, Read(c), UNCHANGED setting
  PROVE  IInv'
<1>1. /\ PlacesOK /\ PeopleOK /\ StreamsOK /\ ServersOK /\ PipeOK
      /\ \A d \in Clients : ClientInv(d) /\ LoggedOf(d)
  BY Whole
<1>2. PICK n \in 1 .. (IF Len(up[c]) < BUF_SIZE THEN Len(up[c]) ELSE BUF_SIZE) :
        /\ held' = [held EXCEPT ![c] = SubSeq(up[c], 1, n)]
        /\ up' = [up EXCEPT ![c] = Drop(@, n)]
  BY DEF Read
<1>3. /\ pc[c] = "read" /\ up[c] # <<>> /\ Free(c)
      /\ pc' = [pc EXCEPT ![c] = "echo"]
      /\ UNCHANGED <<prog, before, kind, msgs, wide, waits, fin, gone, done,
                     got, lens, rst, down, echoed, dead, fds, log, logged>>
  BY DEF Read, setting, client, printed, logger
<1>4. /\ up \in [Clients -> Seq(1 .. MsgMax)] /\ up[c] \in Seq(1 .. MsgMax)
      /\ held \in [Clients -> Seq(1 .. MsgMax)]
  BY <1>1 DEF StreamsOK
<1>5. n \in 1 .. Len(up[c])
  <2>1. Len(up[c]) \in Nat /\ BUF_SIZE \in Nat
    BY <1>4, LenProperties, SizeAssumption DEF SizeAssumption
  <2> QED BY <2>1, SMT
<1>6. /\ SubSeq(up[c], 1, n) \in Seq(1 .. MsgMax)
      /\ Drop(up[c], n) \in Seq(1 .. MsgMax)
  BY <1>4, <1>5, Cut
<1>7. /\ up' \in [Clients -> Seq(1 .. MsgMax)]
      /\ held' \in [Clients -> Seq(1 .. MsgMax)]
      /\ up'[c] = Drop(up[c], n) /\ held'[c] = SubSeq(up[c], 1, n)
      /\ \A d \in Clients \ {c} : up'[d] = up[d] /\ held'[d] = held[d]
  BY <1>2, <1>4, <1>6
<1>8. /\ pc' \in [Clients -> {"none", "refused", "read", "echo", "log",
                              "ended", "killed"}]
      /\ pc'[c] = "echo" /\ \A d \in Clients \ {c} : pc'[d] = pc[d]
  BY <1>1, <1>3 DEF ServersOK
<1>9. PlacesOK' /\ StreamsOK' /\ PeopleOK' /\ PipeOK'
  BY <1>1, <1>3, <1>7 DEF PlacesOK, StreamsOK, PeopleOK, PipeOK
<1>10. ServersOK'
  BY <1>1, <1>3, <1>8 DEF ServersOK, Alone, Free
<1>11. ASSUME NEW d \in Clients PROVE ClientInv(d)'
  <2>1. CASE d # c
    BY <1>1, <1>3, <1>7, <1>8, <2>1, Frame DEF Untouched
  <2>2. CASE d = c
    <3>1. Closed(c) => Closed(c)'
      BY <1>3 DEF Closed
    <3>2. ASSUME kind[c] = "echo_client", c \notin wide PROVE OneAtATime(c)'
      <4>1. OneAtATime(c) /\ ~ Nothing(c)
        BY <1>1, <1>3, <3>2 DEF ClientInv, Nothing
      <4>2. /\ up[c] = <<msgs[c]>> /\ down[c] = <<>> /\ c \notin rst
            /\ InOrder(c)
        BY <1>3, <4>1 DEF OneAtATime, OnItsWay
      <4>3. held'[c] = <<msgs[c]>> /\ up'[c] = <<>>
        BY <1>5, <1>7, <4>2, CutOne
      <4>4. InOrder(c)' /\ OnItsWay(c, msgs[c])'
        BY <1>3, <1>8, <4>2, <4>3 DEF InOrder, OnItsWay
      <4> QED BY <1>3, <3>1, <4>1, <4>4 DEF OneAtATime
    <3>3. Returned(c)'
      BY <1>1, <1>3, <1>8, <3>1 DEF ClientInv, Returned
    <3>4. kind[c] # "none"
      BY <1>1, <1>3 DEF ClientInv, Unheard
    <3> QED BY <1>3, <2>2, <3>2, <3>3, <3>4 DEF ClientInv
  <2> QED BY <2>1, <2>2
<1>12. ASSUME NEW d \in Clients PROVE LoggedOf(d)'
  <2>1. InHand(d)' = InHand(d)
    BY <1>3, <1>7, <1>8 DEF InHand
  <2> QED BY <1>1, <1>3, <2>1, LoggedFrame
<1> QED BY <1>9, <1>10, <1>11, <1>12, Whole

\* write() to the client, and what comes of it if the client has left.
LEMMA EchoPreserves ==
  ASSUME IInv, NEW c \in Clients, Echo(c), UNCHANGED setting
  PROVE  IInv'
<1>1. /\ PlacesOK /\ PeopleOK /\ StreamsOK /\ ServersOK /\ PipeOK
      /\ \A d \in Clients : ClientInv(d) /\ LoggedOf(d)
  BY Whole
<1>2. /\ pc[c] = "echo" /\ ~ dead
      /\ UNCHANGED <<prog, before, kind, msgs, wide, waits, fin, gone, done,
                     got, lens, up, held, fds, log, logged>>
  BY DEF Echo, setting, client, printed, logger
<1>3. /\ down \in [Clients -> Seq(1 .. MsgMax)]
      /\ echoed \in [Clients -> Seq(1 .. MsgMax)]
      /\ down[c] \in Seq(1 .. MsgMax) /\ echoed[c] \in Seq(1 .. MsgMax)
      /\ held[c] \in Seq(1 .. MsgMax) /\ got[c] \in Seq(1 .. MsgMax)
  BY <1>1 DEF StreamsOK
<1>4. kind[c] # "none" /\ ~ Closed(c)
  BY <1>1, <1>2 DEF ClientInv, Unheard, Closed
<1>5. ASSUME kind[c] = "echo_client", c \notin wide
      PROVE  /\ InOrder(c) /\ up[c] = <<>> /\ down[c] = <<>>
             /\ held[c] = <<msgs[c]>> /\ c \notin rst
             /\ c \in gone \/ (msgs[c] = Len(got[c]) + 1 /\ c \in waits)
  BY <1>1, <1>2, <1>4, <1>5 DEF ClientInv, OneAtATime, Nothing, OnItsWay
<1>6. CASE /\ IF c \in gone THEN rst' = rst \cup {c} /\ UNCHANGED down
              ELSE down' = [down EXCEPT ![c] = @ \o held[c]] /\ UNCHANGED rst
           /\ echoed' = [echoed EXCEPT ![c] = @ \o held[c]]
           /\ pc' = [pc EXCEPT ![c] = IF Logs THEN "log" ELSE "read"]
           /\ UNCHANGED dead
  <2>1. /\ down[c] \o held[c] \in Seq(1 .. MsgMax)
        /\ echoed[c] \o held[c] \in Seq(1 .. MsgMax)
    BY <1>3, ConcatProperties
  <2>2. /\ down' \in [Clients -> Seq(1 .. MsgMax)]
        /\ down'[c] = IF c \in gone THEN down[c] ELSE down[c] \o held[c]
        /\ \A d \in Clients \ {c} : down'[d] = down[d]
    BY <1>3, <1>6, <2>1
  <2>3. /\ echoed' \in [Clients -> Seq(1 .. MsgMax)]
        /\ echoed'[c] = echoed[c] \o held[c]
        /\ \A d \in Clients \ {c} : echoed'[d] = echoed[d]
    BY <1>3, <1>6, <2>1
  <2>4. /\ pc' \in [Clients -> {"none", "refused", "read", "echo", "log",
                                "ended", "killed"}]
        /\ pc'[c] = IF Logs THEN "log" ELSE "read"
        /\ \A d \in Clients \ {c} : pc'[d] = pc[d]
    BY <1>1, <1>6 DEF ServersOK
  <2>5. rst \subseteq rst' /\ rst' \subseteq rst \cup {c} /\ rst' \subseteq gone
    BY <1>1, <1>6 DEF PeopleOK
  <2>6. PlacesOK' /\ StreamsOK' /\ PeopleOK' /\ PipeOK'
    BY <1>1, <1>2, <1>6, <2>2, <2>3, <2>5
    DEF PlacesOK, StreamsOK, PeopleOK, PipeOK
  <2>7. ServersOK'
    BY <1>1, <1>2, <2>4 DEF ServersOK, Alone
  <2>8. ASSUME NEW d \in Clients PROVE ClientInv(d)'
    <3>1. CASE d # c
      BY <1>1, <1>2, <1>6, <2>2, <2>3, <2>4, <2>5, <3>1, Frame DEF Untouched
    <3>2. CASE d = c
      <4>1. ASSUME kind[c] = "echo_client", c \notin wide
            PROVE  OneAtATime(c)'
        <5>1. InOrder(c)'
          BY <1>2, <1>5, <4>1 DEF InOrder
        <5>2. CASE c \in gone
          BY <1>2, <1>5, <2>2, <2>4, <4>1, <5>1, <5>2 DEF OneAtATime, Nothing
        <5>3. CASE c \notin gone
          <6>1. down'[c] = <<msgs[c]>>
            BY <1>3, <1>5, <2>2, <4>1, <5>3, ConcatEmptySeq
          <6>2. OnItsWay(c, msgs[c])'
            BY <1>2, <1>5, <2>4, <4>1, <6>1 DEF OnItsWay
          <6> QED BY <1>2, <1>5, <4>1, <5>1, <5>3, <6>2 DEF OneAtATime
        <5> QED BY <5>2, <5>3
      <4>2. Returned(c)'
        <5>1. Returned(c)
          BY <1>1 DEF ClientInv
        <5>2. c \notin gone => echoed'[c] = got[c] \o down'[c]
          <6>1. (got[c] \o down[c]) \o held[c] = got[c] \o (down[c] \o held[c])
            <7> SUFFICES ASSUME NEW x \in Seq(1 .. MsgMax),
                                NEW y \in Seq(1 .. MsgMax),
                                NEW z \in Seq(1 .. MsgMax)
                         PROVE  (x \o y) \o z = x \o (y \o z)
              BY <1>3
            <7> QED BY SMT
          <6> QED BY <2>2, <2>3, <5>1, <6>1 DEF Returned
        <5>3. c \in done => c \in gone
          BY <1>4, <5>1 DEF Returned
        <5> QED BY <1>2, <2>4, <5>2, <5>3 DEF Returned
      <4> QED BY <1>2, <1>4, <3>2, <4>1, <4>2 DEF ClientInv
    <3> QED BY <3>1, <3>2
  <2>9. ASSUME NEW d \in Clients PROVE LoggedOf(d)'
    <3>1. CASE d # c
      BY <1>1, <1>2, <2>3, <2>4, <3>1, LoggedFrame DEF InHand
    <3>2. CASE d = c /\ Logs
      <4>1. log \o fds \in Seq(Units)
        BY <1>1, ConcatProperties DEF PipeOK
      <4>2. Holds(log \o fds, c, echoed[c], <<>>)
        BY <1>1, <1>2, <3>2 DEF LoggedOf, InHand
      <4>3. Holds(log \o fds, c, echoed'[c], held[c])
        BY <1>3, <2>3, <4>1, <4>2, HoldsEchoed
      <4>4. InHand(c)' = held[c] /\ log' \o fds' = log \o fds
        BY <1>2, <2>4, <3>2 DEF InHand
      <4> QED BY <3>2, <4>3, <4>4 DEF LoggedOf
    <3>3. CASE ~ Logs
      BY <1>2, <3>3 DEF LoggedOf, Logs
    <3> QED BY <3>1, <3>2, <3>3
  <2> QED BY <2>6, <2>7, <2>8, <2>9, Whole
<1>7. CASE /\ c \in rst
           /\ pc' = [pc EXCEPT ![c] = "killed"] /\ dead' = Alone
           /\ UNCHANGED <<rst, down, echoed>>
  <2>1. /\ pc' \in [Clients -> {"none", "refused", "read", "echo", "log",
                                "ended", "killed"}]
        /\ pc'[c] = "killed" /\ \A d \in Clients \ {c} : pc'[d] = pc[d]
    BY <1>1, <1>7 DEF ServersOK
  <2>2. c \in gone /\ (c \in wide \/ kind[c] = "echo_mpclient")
    BY <1>1, <1>4, <1>5, <1>7 DEF PeopleOK
  <2>3. dead' \in BOOLEAN
    BY <1>7 DEF Alone
  <2>4. PlacesOK' /\ StreamsOK' /\ PeopleOK' /\ PipeOK'
    BY <1>1, <1>2, <1>7, <2>3 DEF PlacesOK, StreamsOK, PeopleOK, PipeOK
  <2>5. ServersOK'
    BY <1>1, <1>2, <2>1 DEF ServersOK, Alone
  <2>6. ASSUME NEW d \in Clients PROVE ClientInv(d)'
    <3>1. CASE d # c
      BY <1>1, <1>2, <1>7, <2>1, <3>1, Frame DEF Untouched
    <3>2. CASE d = c
      BY <1>2, <1>4, <2>1, <2>2, <3>2 DEF ClientInv, Returned
    <3> QED BY <3>1, <3>2
  <2>7. ASSUME NEW d \in Clients PROVE LoggedOf(d)'
    <3>1. InHand(d)' = InHand(d)
      BY <1>2, <2>1 DEF InHand
    <3> QED BY <1>1, <1>2, <1>7, <3>1, LoggedFrame
  <2> QED BY <2>4, <2>5, <2>6, <2>7, Whole
<1> QED BY <1>6, <1>7 DEF Echo

\* write() into the pipe.
LEMMA LogPreserves ==
  ASSUME IInv, NEW c \in Clients, Log(c), UNCHANGED setting
  PROVE  IInv'
<1>1. /\ PlacesOK /\ PeopleOK /\ StreamsOK /\ ServersOK /\ PipeOK
      /\ \A d \in Clients : ClientInv(d) /\ LoggedOf(d)
  BY Whole
<1>2. /\ pc[c] = "log" /\ ~ dead /\ Len(fds) + Len(held[c]) <= PipeMax
      /\ fds' = fds \o Tagged(c, held[c])
      /\ pc' = [pc EXCEPT ![c] = "read"]
      /\ UNCHANGED <<prog, before, kind, msgs, wide, waits, fin, gone, done,
                     got, lens, rst, up, down, held, echoed, dead, log, logged>>
  BY DEF Log, setting, client, printed, Tagged
<1>3. /\ held[c] \in Seq(1 .. MsgMax) /\ fds \in Seq(Units)
      /\ log \in Seq(Units) /\ log \o fds \in Seq(Units)
      /\ \A d \in Clients : echoed[d] \in Seq(1 .. MsgMax)
  BY <1>1, ConcatProperties DEF StreamsOK, PipeOK
<1>4. fds' \in Seq(Units) /\ Len(fds') = Len(fds) + Len(held[c])
  BY <1>2, <1>3, PipeGrows
<1>5. log' \o fds' = (log \o fds) \o Tagged(c, held[c])
  <2> DEFINE g == Tagged(c, held[c])
  <2>1. g \in Seq(Units)
    BY <1>3, TaggedPiece
  <2> HIDE DEF g
  <2>2. log \o (fds \o g) = (log \o fds) \o g
    <3> SUFFICES ASSUME log \in Seq(Units), fds \in Seq(Units),
                        g \in Seq(Units)
                 PROVE  log \o (fds \o g) = (log \o fds) \o g
      BY <1>3, <2>1
    <3> QED BY SMT
  <2> QED BY <1>2, <2>2 DEF g
<1>6. /\ pc' \in [Clients -> {"none", "refused", "read", "echo", "log",
                              "ended", "killed"}]
      /\ pc'[c] = "read" /\ \A d \in Clients \ {c} : pc'[d] = pc[d]
  BY <1>1, <1>2 DEF ServersOK
<1>7. PlacesOK' /\ StreamsOK' /\ PeopleOK'
  BY <1>1, <1>2 DEF PlacesOK, StreamsOK, PeopleOK
<1>8. PipeOK'
  BY <1>1, <1>2, <1>4 DEF PipeOK
<1>9. ServersOK'
  BY <1>1, <1>2, <1>6 DEF ServersOK, Alone
<1>10. ASSUME NEW d \in Clients PROVE ClientInv(d)'
  <2>1. CASE d # c
    BY <1>1, <1>2, <1>6, <2>1, Frame DEF Untouched
  <2>2. CASE d = c
    <3>1. Closed(c) => Closed(c)'
      BY <1>2 DEF Closed
    <3>2. ASSUME kind[c] = "echo_client", c \notin wide PROVE OneAtATime(c)'
      <4>1. OneAtATime(c)
        BY <1>1, <3>2 DEF ClientInv
      <4>2. InOrder(c)' /\ (Nothing(c) => Nothing(c)')
            /\ (OnItsWay(c, msgs[c]) => OnItsWay(c, msgs[c])')
        BY <1>2, <1>6, <4>1 DEF OneAtATime, InOrder, Nothing, OnItsWay
      <4> QED BY <1>2, <3>1, <4>1, <4>2 DEF OneAtATime
    <3>3. Returned(c)'
      BY <1>1, <1>2, <1>6, <3>1 DEF ClientInv, Returned
    <3>4. kind[c] # "none"
      BY <1>1, <1>2 DEF ClientInv, Unheard
    <3> QED BY <1>2, <2>2, <3>2, <3>3, <3>4 DEF ClientInv
  <2> QED BY <2>1, <2>2
<1>11. ASSUME NEW d \in Clients PROVE LoggedOf(d)'
  <2> SUFFICES ASSUME Logs
               PROVE  Holds((log \o fds) \o Tagged(c, held[c]), d, echoed[d],
                            InHand(d)')
    BY <1>2, <1>5 DEF LoggedOf, Logs
  <2>1. Holds(log \o fds, d, echoed[d], InHand(d))
    BY <1>1 DEF LoggedOf
  <2>2. CASE d # c
    <3>1. InHand(d)' = InHand(d)
      BY <1>2, <1>6, <2>2 DEF InHand
    <3> QED BY <1>3, <2>1, <2>2, <3>1, HoldsBeside
  <2>3. CASE d = c
    <3>1. InHand(c) = held[c] /\ InHand(c)' = <<>>
      BY <1>2, <1>6 DEF InHand
    <3> QED BY <1>3, <2>1, <2>3, <3>1, HoldsLogged
  <2> QED BY <2>2, <2>3
<1> QED BY <1>7, <1>8, <1>9, <1>10, <1>11, Whole

\* A read() of the logger: the file and what is left of the pipe stay one
\* stream.
LEMMA LoggerPreserves ==
  ASSUME IInv, Logger PROVE IInv'
<1>1. /\ PlacesOK /\ PeopleOK /\ StreamsOK /\ ServersOK /\ PipeOK
      /\ \A d \in Clients : ClientInv(d) /\ LoggedOf(d)
  BY Whole
<1>2. PICK n \in 1 .. Len(fds) : /\ log' = log \o SubSeq(fds, 1, n)
                                 /\ fds' = Drop(fds, n)
  BY DEF Logger
<1>3. /\ LogReadsLeft
      /\ logged' = IF prog = "store" THEN logged + 1 ELSE logged
      /\ UNCHANGED <<prog, before, kind, msgs, wide, waits, fin, gone, done,
                     got, lens, rst, up, down, pc, held, echoed, dead>>
  BY DEF Logger, setting, client, printed
<1>4. /\ fds \in Seq(Units) /\ log \in Seq(Units) /\ Len(fds) <= PipeMax
      /\ logged \in 0 .. LogReads /\ LogReads \in Nat /\ PipeMax \in Nat
  BY <1>1, SizeAssumption DEF PipeOK, SizeAssumption
<1>5. /\ SubSeq(fds, 1, n) \in Seq(Units) /\ Drop(fds, n) \in Seq(Units)
      /\ Len(Drop(fds, n)) = Len(fds) - n
  BY <1>4, Cut
<1>6. log' \o fds' = log \o fds
  BY <1>2, <1>4, CutBehind
<1>7. log' \in Seq(Units) /\ fds' \in Seq(Units)
  BY <1>2, <1>4, <1>5, ConcatProperties
<1>8. Len(fds') <= PipeMax
  <2>1. Len(fds) \in Nat
    BY <1>4, LenProperties
  <2> QED BY <1>2, <1>4, <1>5, <2>1, SMT
<1>9. logged' \in 0 .. LogReads
  BY <1>3, <1>4, SMT DEF LogReadsLeft
<1>10. PlacesOK' /\ StreamsOK' /\ PeopleOK' /\ ServersOK' /\ PipeOK'
  BY <1>1, <1>3, <1>7, <1>8, <1>9
  DEF PlacesOK, StreamsOK, PeopleOK, ServersOK, PipeOK, Alone
<1>11. ASSUME NEW d \in Clients PROVE ClientInv(d)' /\ LoggedOf(d)'
  <2>1. ClientInv(d)'
    BY <1>1, <1>3, Frame DEF Untouched
  <2>2. LoggedOf(d)'
    BY <1>1, <1>3, <1>6 DEF LoggedOf, Logs, InHand
  <2> QED BY <2>1, <2>2
<1> QED BY <1>10, <1>11, Whole

-----------------------------------------------------------------------------
\* No step breaks the invariant.
LEMMA NextPreserves == IInv /\ [Next]_vars => IInv'
<1> SUFFICES ASSUME IInv, [Next]_vars PROVE IInv'
  OBVIOUS
<1>1. CASE UNCHANGED vars
  <2>1. /\ PlacesOK /\ PeopleOK /\ StreamsOK /\ ServersOK /\ PipeOK
        /\ \A d \in Clients : ClientInv(d) /\ LoggedOf(d)
    BY Whole
  <2>2. UNCHANGED <<prog, before, kind, msgs, wide, waits, fin, gone, done,
                    got, lens, rst, up, down, pc, held, echoed, dead, fds, log,
                    logged>>
    BY <1>1 DEF vars, setting, client, printed, logger
  <2>3. PlacesOK' /\ StreamsOK' /\ PeopleOK' /\ ServersOK' /\ PipeOK'
    BY <2>1, <2>2
    DEF PlacesOK, StreamsOK, PeopleOK, ServersOK, PipeOK, Alone
  <2>4. ASSUME NEW d \in Clients PROVE ClientInv(d)' /\ LoggedOf(d)'
    BY <2>1, <2>2, Frame, LoggedFrame DEF Untouched, InHand
  <2> QED BY <2>3, <2>4, Whole
<1>2. ASSUME NEW c \in Clients, Server(c) PROVE IInv'
  BY <1>2, AcceptPreserves, ReadPreserves, EchoPreserves, LogPreserves
  DEF Server
<1>3. ASSUME NEW c \in Clients, Reader(c) PROVE IInv'
  BY <1>3, ReadEchoPreserves, ReadEndPreserves DEF Reader
<1>4. ASSUME NEW c \in Clients, UNCHANGED setting,
             \/ Connect(c) \/ Say(c) \/ Quit(c) \/ Kill(c) \/ Refuse(c)
      PROVE  IInv'
  BY <1>4, ConnectPreserves, SayPreserves, EndPreserves, AcceptPreserves
<1> QED BY <1>1, <1>2, <1>3, <1>4, LoggerPreserves DEF Next, Resting

\* The inductive invariant holds in every state of the four servers.
THEOREM Invariance == Spec => []IInv
BY InitInvariant, NextPreserves, PTL DEF Spec

\* Types, and the one process of echo_selectserv.c and server.c does one
\* thing at a time.
THEOREM TypeCorrect == Spec => []TypeOK
<1>1. IInv => TypeOK
  BY DEF IInv
<1> QED BY <1>1, Invariance, PTL

\* The pipe and the file have what was echoed to each client, in order and
\* whole, for any number of clients and any sizes.
THEOREM LogCorrect == Spec => []LogIsEchoed
<1>1. IInv => LogIsEchoed
  BY DEF IInv, LoggedOf, LogIsEchoed, InHand
<1> QED BY <1>1, Invariance, PTL

\* A client that waits for each echo of short messages prints the k-th message
\* after the k-th.
THEOREM InStepCorrect == Spec => []InStep
<1>1. IInv => InStep
  <2> SUFFICES ASSUME IInv, NEW c \in Clients, kind[c] = "echo_client",
                      c \notin wide, NEW k \in DOMAIN lens[c]
               PROVE  lens[c][k] = 1 /\ got[c][k] = k
    BY DEF InStep
  <2>1. lens[c] \in Seq(Nat)
    BY Whole DEF StreamsOK
  <2>2. k \in 1 .. Len(lens[c])
    BY <2>1, LenProperties
  <2> QED BY <2>2, Whole DEF ClientInv, OneAtATime, InOrder
<1> QED BY <1>1, Invariance, PTL

\* Only a client that writes without waiting, or more than one unit at once,
\* can have a process of the server killed.
THEOREM KilledCorrect == Spec => []KilledByTwoPieces
<1>1. IInv => KilledByTwoPieces
  BY DEF IInv, ClientInv, Returned, KilledByTwoPieces
<1> QED BY <1>1, Invariance, PTL

\* echo_mpclient.c's reader ends with everything that was echoed.
THEOREM ReaderCorrect == Spec => []ReaderGetsAll
<1>1. IInv => ReaderGetsAll
  <2> SUFFICES ASSUME IInv, NEW c \in done, c \notin gone, ~ dead,
                      pc[c] # "refused"
               PROVE  up[c] = <<>> /\ got[c] = echoed[c]
    BY DEF ReaderGetsAll
  <2>1. c \in Clients /\ got[c] \in Seq(1 .. MsgMax)
    BY Whole DEF PeopleOK, StreamsOK
  <2>2. pc[c] = "ended" /\ down[c] = <<>>
    BY <2>1, Whole DEF ClientInv, Returned, Closed
  <2>3. up[c] = <<>> /\ echoed[c] = got[c] \o down[c]
    BY <2>1, <2>2, Whole DEF ClientInv, Returned
  <2> QED BY <2>1, <2>2, <2>3, ConcatEmptySeq
<1> QED BY <1>1, Invariance, PTL
=============================================================================
