---------------------------- MODULE UdpCalcProofs ----------------------------
(***************************************************************************)
(* For any number of clients, messages and doubled datagrams: what HW3's   *)
(* clients print.                                                          *)
(***************************************************************************)
EXTENDS UdpCalc, SequenceTheorems, TLAPS

\* Nobody has more answers than messages, and hw3_client.c sends only one.
Counted ==
  \A c \in Clients :
    /\ turn[c] = "input" => Len(printed[c]) = said[c]
    /\ turn[c] = "wait" => Len(printed[c]) + 1 = said[c]
    /\ prog = "hw3" => said[c] = IF turn[c] = "input" THEN 0 ELSE 1
    /\ prog = "hw3" => Len(printed[c]) <= 1
    /\ \A k \in DOMAIN printed[c] : printed[c][k] <= k

\* Only messages that were sent are in flight, and at most one datagram of
\* each, but for those that were doubled.
Bounded ==
  \A c \in Clients, k \in 1 .. MsgMax :
    /\ requests[<<c, k>>] + answers[<<c, k>>] <= 1 + dups
    /\ k > said[c] => requests[<<c, k>>] = 0 /\ answers[<<c, k>>] = 0

\* While none is doubled, nothing is left in flight of what was answered.
Answered ==
  dups = 0 =>
    /\ \A c \in Clients, k \in 1 .. MsgMax :
         k < said[c] \/ turn[c] = "input" =>
           requests[<<c, k>>] = 0 /\ answers[<<c, k>>] = 0
    /\ \A c \in Clients : \A k \in DOMAIN printed[c] : printed[c][k] = k

IInv == TypeOK /\ Counted /\ Bounded /\ Answered

\* One datagram more, or one less.
LEMMA Bag ==
  ASSUME NEW bag \in [Messages -> Nat], NEW c \in Clients,
         NEW k \in 1 .. MsgMax
  PROVE  /\ \A d \in Clients, j \in 1 .. MsgMax :
              /\ <<d, j>> \in Messages /\ bag[<<d, j>>] \in Nat
              /\ Put(bag, <<c, k>>)[<<d, j>>] =
                   IF d = c /\ j = k THEN bag[<<d, j>>] + 1 ELSE bag[<<d, j>>]
              /\ Take(bag, <<c, k>>)[<<d, j>>] =
                   IF d = c /\ j = k THEN bag[<<d, j>>] - 1 ELSE bag[<<d, j>>]
         /\ Put(bag, <<c, k>>) \in [Messages -> Nat]
         /\ bag[<<c, k>>] > 0 => Take(bag, <<c, k>>) \in [Messages -> Nat]
<1>1. \A d \in Clients, j \in 1 .. MsgMax :
        <<d, j>> \in Messages /\ bag[<<d, j>>] \in Nat
  BY DEF Messages
<1>2. \A d \in Clients, j \in 1 .. MsgMax :
        <<d, j>> = <<c, k>> <=> d = c /\ j = k
  OBVIOUS
<1>3. /\ Put(bag, <<c, k>>) = [bag EXCEPT ![<<c, k>>] = bag[<<c, k>>] + 1]
      /\ Take(bag, <<c, k>>) = [bag EXCEPT ![<<c, k>>] = bag[<<c, k>>] - 1]
  BY DEF Put, Take
<1>4. bag[<<c, k>>] + 1 \in Nat
      /\ (bag[<<c, k>>] > 0 => bag[<<c, k>>] - 1 \in Nat)
  BY <1>1, SMT
<1> QED BY <1>1, <1>2, <1>3, <1>4, Zenon

\* As many datagrams as the bounds allow.
LEMMA BagSize ==
  ASSUME MsgAssumption, NEW bag \in [Messages -> Nat],
         \A c \in Clients, k \in 1 .. MsgMax : bag[<<c, k>>] <= DupMax + 1
  PROVE  bag \in [Messages -> 0 .. DupMax + 1]
<1>1. ASSUME NEW m \in Messages PROVE bag[m] \in 0 .. DupMax + 1
  <2>1. PICK c \in Clients, k \in 1 .. MsgMax : m = <<c, k>>
    BY DEF Messages
  <2>2. bag[<<c, k>>] \in Nat /\ bag[<<c, k>>] <= DupMax + 1
    BY <2>1
  <2> QED BY <2>1, <2>2, SMT DEF MsgAssumption
<1> QED BY <1>1

\* The bound of the datagrams of a message may grow.
LEMMA MayGrow ==
  ASSUME NEW e \in Nat, NEW f \in Nat, NEW x \in Nat, NEW y \in Nat,
         e + f <= 1 + x, x <= y
  PROVE  e + f <= 1 + y
BY SMT

\* The part of the types that is not about datagrams.
Types ==
  /\ prog \in Programs
  /\ turn \in [Clients -> {"input", "wait", "ended"}]
  /\ said \in [Clients -> 0 .. MsgMax]
  /\ printed \in [Clients -> Seq(1 .. MsgMax)]
  /\ quits \subseteq Clients /\ lost \subseteq Clients
  /\ state \in {"up", "ended"} /\ dups \in 0 .. DupMax

\* Types is TypeOK spelled out variable by variable.
LEMMA TypesOK ==
  ASSUME MsgAssumption, Types', Bounded',
         requests' \in [Messages -> Nat], answers' \in [Messages -> Nat]
  PROVE  TypeOK'
<1>1. \A c \in Clients, k \in 1 .. MsgMax :
        requests'[<<c, k>>] <= DupMax + 1 /\ answers'[<<c, k>>] <= DupMax + 1
  <2> TAKE c \in Clients, k \in 1 .. MsgMax
  <2>1. requests'[<<c, k>>] \in Nat /\ answers'[<<c, k>>] \in Nat
    BY Bag
  <2> QED BY <2>1, SMT DEF Types, Bounded, MsgAssumption
<1>2. /\ requests' \in [Messages -> 0 .. DupMax + 1]
      /\ answers' \in [Messages -> 0 .. DupMax + 1]
  BY <1>1, BagSize
<1> QED BY <1>2 DEF Types, TypeOK, Messages

\* And the other way round.
LEMMA OKTypes ==
  ASSUME MsgAssumption, IInv
  PROVE  /\ Types /\ Counted /\ Bounded /\ Answered
         /\ requests \in [Messages -> Nat] /\ answers \in [Messages -> Nat]
<1>1. 0 .. DupMax + 1 \subseteq Nat
  BY SMT DEF MsgAssumption
<1> QED BY <1>1 DEF IInv, TypeOK, Types

\* Nobody has said anything.
LEMMA InitInvariant ==
  ASSUME MsgAssumption, Init
  PROVE  IInv
BY SMT DEF MsgAssumption, Init, Start, IInv, TypeOK, Programs, Messages,
   Counted, Bounded, Answered

\* A client sends its next message.
LEMMA SayPreserves ==
  ASSUME MsgAssumption, IInv, NEW c \in Clients, Say(c), UNCHANGED prog
  PROVE  IInv'
<1> DEFINE n == said[c] + 1
<1>0. /\ Types /\ Counted /\ Bounded /\ Answered /\ MsgMax \in Nat
      /\ DupMax \in Nat
      /\ requests \in [Messages -> Nat] /\ answers \in [Messages -> Nat]
  BY OKTypes DEF MsgAssumption
<1>1. /\ turn[c] = "input" /\ said' = [said EXCEPT ![c] = n]
      /\ requests' = Put(requests, <<c, n>>)
      /\ said[c] < MsgMax
      /\ UNCHANGED <<printed, answers, state, dups, lost>>
  BY DEF Say
<1>2. /\ turn' = [turn EXCEPT ![c] = turn'[c]]
      /\ turn'[c] \in {"wait", "ended"} /\ quits' \subseteq Clients
  BY <1>0 DEF Say, Types
<1>3. said[c] \in Nat /\ n \in 1 .. MsgMax
  BY <1>0, <1>1, SMT DEF Types
<1>4. /\ requests' \in [Messages -> Nat] /\ answers' \in [Messages -> Nat]
      /\ \A d \in Clients, j \in 1 .. MsgMax :
           /\ requests[<<d, j>>] \in Nat /\ answers[<<d, j>>] \in Nat
           /\ answers'[<<d, j>>] = answers[<<d, j>>]
           /\ requests'[<<d, j>>] = IF d = c /\ j = n
                                    THEN requests[<<d, j>>] + 1
                                    ELSE requests[<<d, j>>]
  <2> HIDE DEF n
  <2>1. /\ Put(requests, <<c, n>>) \in [Messages -> Nat]
        /\ \A d \in Clients, j \in 1 .. MsgMax :
             /\ requests[<<d, j>>] \in Nat
             /\ Put(requests, <<c, n>>)[<<d, j>>] =
                  IF d = c /\ j = n THEN requests[<<d, j>>] + 1
                  ELSE requests[<<d, j>>]
    <3>1. requests \in [Messages -> Nat] /\ n \in 1 .. MsgMax
      BY <1>0, <1>3
    <3> QED BY <3>1, Bag
  <2>2. \A d \in Clients, j \in 1 .. MsgMax : answers[<<d, j>>] \in Nat
    BY <1>0, <1>3, Bag, Zenon
  <2> QED BY <1>0, <1>1, <2>1, <2>2, Zenon
<1>5. Types'
  <2>1. said' \in [Clients -> 0 .. MsgMax]
    BY <1>0, <1>1, <1>3, SMT DEF Types
  <2> QED BY <1>0, <1>1, <1>2, <2>1, Zenon DEF Types, Programs
<1>6. Counted'
  BY <1>0, <1>1, <1>2, <1>3, SMT DEF Types, Counted
<1>7. /\ n \in Nat /\ n > said[c] /\ said'[c] = n
      /\ \A d \in Clients : d # c => said'[d] = said[d] /\ turn'[d] = turn[d]
  BY <1>0, <1>1, <1>2, <1>3, SMT DEF Types
<1> HIDE DEF n
<1>8. Bounded'
  <2> SUFFICES ASSUME NEW d \in Clients, NEW j \in 1 .. MsgMax
               PROVE  /\ requests'[<<d, j>>] + answers'[<<d, j>>] <= 1 + dups'
                      /\ j > said'[d] => requests'[<<d, j>>] = 0
                                         /\ answers'[<<d, j>>] = 0
    BY DEF Bounded
  <2> DEFINE r == requests[<<d, j>>]
             q == requests'[<<d, j>>]
             a == answers[<<d, j>>]
  <2>1. /\ r + a <= 1 + dups /\ (j > said[d] => r = 0 /\ a = 0)
        /\ r \in Nat /\ a \in Nat /\ answers'[<<d, j>>] = a
        /\ q = IF d = c /\ j = n THEN r + 1 ELSE r
    BY <1>0, <1>4 DEF Bounded
  <2> HIDE DEF r, q, a
  <2>2. /\ q + a <= 1 + dups' /\ dups' = dups /\ dups \in Nat
        /\ j > said'[d] => q = 0 /\ a = 0
    BY <1>0, <1>1, <1>3, <1>7, <2>1, SMT DEF Types
  <2> QED BY <2>1, <2>2 DEF q
<1>9. Answered'
  <2>1. ASSUME dups = 0, NEW d \in Clients, NEW j \in 1 .. MsgMax,
               j < said'[d] \/ turn'[d] = "input"
        PROVE  requests'[<<d, j>>] = 0 /\ answers'[<<d, j>>] = 0
    <3>1. j # n \/ d # c
      BY <1>2, <1>7, <2>1, SMT
    <3>2. j < said[d] \/ turn[d] = "input"
      BY <1>1, <1>7, <2>1
    <3>3. requests[<<d, j>>] = 0 /\ answers[<<d, j>>] = 0
      BY <1>0, <2>1, <3>2 DEF Answered
    <3> QED BY <1>4, <3>1, <3>3
  <2> QED BY <1>0, <1>1, <2>1 DEF Answered
<1> QED BY <1>4, <1>5, <1>6, <1>8, <1>9, TypesOK DEF IInv

\* A client takes an answer.
LEMMA ReceivePreserves ==
  ASSUME MsgAssumption, IInv, NEW c \in Clients, Receive(c), UNCHANGED prog
  PROVE  IInv'
<1>0. /\ Types /\ Counted /\ Bounded /\ Answered /\ MsgMax \in Nat
      /\ DupMax \in Nat
      /\ requests \in [Messages -> Nat] /\ answers \in [Messages -> Nat]
  BY OKTypes DEF MsgAssumption
<1>1. PICK k \in 1 .. MsgMax :
        /\ answers[<<c, k>>] > 0
        /\ answers' = Take(answers, <<c, k>>)
        /\ printed' = [printed EXCEPT ![c] = Append(@, k)]
  BY DEF Receive
<1>2. /\ turn[c] = "wait" /\ turn' = [turn EXCEPT ![c] = turn'[c]]
      /\ turn'[c] = IF prog = "hw3" THEN "ended" ELSE "input"
      /\ UNCHANGED <<said, quits, requests, state, dups, lost>>
  BY <1>0 DEF Receive, Types
<1>3. /\ requests' \in [Messages -> Nat] /\ answers' \in [Messages -> Nat]
      /\ \A d \in Clients, j \in 1 .. MsgMax :
           /\ requests[<<d, j>>] \in Nat /\ answers[<<d, j>>] \in Nat
           /\ requests'[<<d, j>>] = requests[<<d, j>>]
           /\ answers'[<<d, j>>] = IF d = c /\ j = k
                                   THEN answers[<<d, j>>] - 1
                                   ELSE answers[<<d, j>>]
  <2>1. requests' = requests
    BY <1>2
  <2>2. \A d \in Clients, j \in 1 .. MsgMax :
          requests[<<d, j>>] \in Nat /\ answers[<<d, j>>] \in Nat
    BY <1>0, Bag
  <2>3. /\ answers' \in [Messages -> Nat]
        /\ \A d \in Clients, j \in 1 .. MsgMax :
             answers'[<<d, j>>] = IF d = c /\ j = k
                                 THEN answers[<<d, j>>] - 1
                                 ELSE answers[<<d, j>>]
    <3>1. /\ Take(answers, <<c, k>>) \in [Messages -> Nat]
          /\ \A d \in Clients, j \in 1 .. MsgMax :
               Take(answers, <<c, k>>)[<<d, j>>] =
                 IF d = c /\ j = k THEN answers[<<d, j>>] - 1
                 ELSE answers[<<d, j>>]
      <4>1. answers \in [Messages -> Nat] /\ answers[<<c, k>>] > 0
        BY <1>0, <1>1
      <4>2. /\ answers[<<c, k>>] > 0 =>
                Take(answers, <<c, k>>) \in [Messages -> Nat]
            /\ \A d \in Clients, j \in 1 .. MsgMax :
                 Take(answers, <<c, k>>)[<<d, j>>] =
                   IF d = c /\ j = k THEN answers[<<d, j>>] - 1
                   ELSE answers[<<d, j>>]
        BY <4>1, Bag
      <4> QED BY <4>1, <4>2
    <3>2. answers' = Take(answers, <<c, k>>)
      BY <1>1
    <3> QED BY <3>1, <3>2, Zenon
  <2> QED BY <1>0, <2>1, <2>2, <2>3
<1>4. /\ said[c] \in Nat /\ printed[c] \in Seq(1 .. MsgMax)
      /\ Len(printed[c]) \in Nat /\ Len(printed[c]) + 1 = said[c]
  BY <1>0, <1>2, SMT DEF Types, Counted
<1>5. /\ k <= said[c]
      /\ dups = 0 => k = said[c] /\ requests[<<c, k>>] = 0
                       /\ answers[<<c, k>>] = 1
  <2> DEFINE r == requests[<<c, k>>]
             a == answers[<<c, k>>]
  <2>1. /\ a > 0 /\ a \in Nat /\ r \in Nat /\ r + a <= 1 + dups
        /\ (k > said[c] => a = 0) /\ (dups = 0 /\ k < said[c] => a = 0)
    BY <1>0, <1>1, <1>3 DEF Bounded, Answered
  <2> HIDE DEF r, a
  <2>2. k <= said[c] /\ (dups = 0 => k = said[c] /\ r = 0 /\ a = 1)
    BY <1>4, <2>1, SMT
  <2> QED BY <2>2 DEF r, a
<1>6. /\ printed' \in [Clients -> Seq(1 .. MsgMax)]
      /\ Len(printed'[c]) = said[c] /\ DOMAIN printed'[c] = 1 .. said[c]
      /\ \A n \in 1 .. said[c] :
           printed'[c][n] = IF n = said[c] THEN k ELSE printed[c][n]
      /\ DOMAIN printed[c] = 1 .. said[c] - 1
      /\ \A d \in Clients : d # c => printed'[d] = printed[d]
  <2>1. printed \in [Clients -> Seq(1 .. MsgMax)]
    BY <1>0 DEF Types
  <2>2. printed'[c] = Append(printed[c], k)
    BY <1>1, <2>1
  <2> QED BY <1>1, <1>4, <2>1, <2>2, SMT
<1>7. /\ Types' /\ said' = said /\ dups' = dups
      /\ \A d \in Clients : d # c => turn'[d] = turn[d]
  <2>1. turn' \in [Clients -> {"input", "wait", "ended"}]
    BY <1>0, <1>2, Zenon DEF Types
  <2>2. /\ prog' \in Programs /\ said' \in [Clients -> 0 .. MsgMax]
        /\ quits' \subseteq Clients /\ lost' \subseteq Clients
        /\ state' \in {"up", "ended"} /\ dups' \in 0 .. DupMax
    BY <1>0, <1>2, Zenon DEF Types, Programs
  <2>3. \A d \in Clients : d # c => turn'[d] = turn[d]
    BY <1>0, <1>2, Zenon DEF Types
  <2> QED BY <1>2, <1>6, <2>1, <2>2, <2>3, Zenon DEF Types
<1>8. Counted'
  <2> SUFFICES ASSUME NEW d \in Clients
               PROVE  /\ turn'[d] = "input" => Len(printed'[d]) = said[d]
                      /\ turn'[d] = "wait" => Len(printed'[d]) + 1 = said[d]
                      /\ prog = "hw3" =>
                           said[d] = IF turn'[d] = "input" THEN 0 ELSE 1
                      /\ prog = "hw3" => Len(printed'[d]) <= 1
                      /\ \A n \in DOMAIN printed'[d] : printed'[d][n] <= n
    BY <1>7 DEF Counted
  <2>1. CASE d # c
    BY <1>0, <1>6, <1>7, <2>1, Zenon DEF Counted
  <2>2. CASE d = c
    <3>1. turn'[c] # "wait" /\ (prog = "hw3" => turn'[c] = "ended")
      BY <1>2
    <3>2. prog = "hw3" => said[c] = 1
      BY <1>0, <1>2 DEF Counted
    <3>3. \A n \in 1 .. said[c] : n # said[c] => n \in DOMAIN printed[c]
      BY <1>4, <1>6, SMT
    <3>4. \A n \in 1 .. said[c] : printed'[c][n] <= n
      BY <1>0, <1>5, <1>6, <3>3, Zenon DEF Counted
    <3> QED BY <1>4, <1>6, <2>2, <3>1, <3>2, <3>4, SMT
  <2> QED BY <2>1, <2>2
<1>9. Bounded'
  <2> SUFFICES ASSUME NEW d \in Clients, NEW j \in 1 .. MsgMax
               PROVE  /\ requests'[<<d, j>>] + answers'[<<d, j>>] <= 1 + dups
                      /\ j > said[d] => requests'[<<d, j>>] = 0
                                        /\ answers'[<<d, j>>] = 0
    BY <1>7 DEF Bounded
  <2> DEFINE r == requests[<<d, j>>]
             a == answers[<<d, j>>]
             b == answers'[<<d, j>>]
  <2>1. /\ r + a <= 1 + dups /\ (j > said[d] => r = 0 /\ a = 0)
        /\ r \in Nat /\ a \in Nat /\ requests'[<<d, j>>] = r
        /\ b = IF d = c /\ j = k THEN a - 1 ELSE a
    BY <1>0, <1>3 DEF Bounded
  <2> HIDE DEF r, a, b
  <2>2. r + b <= 1 + dups /\ (j > said[d] => r = 0 /\ b = 0)
    BY <1>0, <1>4, <1>5, <2>1, SMT DEF Types
  <2> QED BY <2>1, <2>2 DEF b
<1>10. Answered'
  <2>1. ASSUME dups = 0, NEW d \in Clients, NEW j \in 1 .. MsgMax,
               j < said[d] \/ turn'[d] = "input"
        PROVE  requests'[<<d, j>>] = 0 /\ answers'[<<d, j>>] = 0
    <3>1. CASE d = c /\ j = k
      BY <1>3, <1>5, <2>1, <3>1, SMT
    <3>2. CASE ~ (d = c /\ j = k)
      <4>1. requests[<<d, j>>] = 0 /\ answers[<<d, j>>] = 0
        <5>1. CASE j < said[d] \/ turn[d] = "input"
          BY <1>0, <2>1, <5>1 DEF Answered
        <5>2. CASE d = c
          <6>1. j < said[c] \/ j > said[c]
            BY <1>4, <1>5, <2>1, <3>2, <5>2, SMT
          <6> QED BY <1>0, <2>1, <5>2, <6>1 DEF Answered, Bounded
        <5> QED BY <1>7, <2>1, <5>1, <5>2
      <4> QED BY <1>3, <3>2, <4>1
    <3> QED BY <3>1, <3>2
  <2>2. ASSUME dups = 0, NEW d \in Clients, NEW n \in DOMAIN printed'[d]
        PROVE  printed'[d][n] = n
    <3>1. CASE d # c
      BY <1>0, <1>6, <2>2, <3>1 DEF Answered
    <3>2. CASE d = c /\ n = said[c]
      BY <1>5, <1>6, <2>2, <3>2
    <3>3. CASE d = c /\ n # said[c]
      <4>1. n \in DOMAIN printed[c] /\ printed'[c][n] = printed[c][n]
        BY <1>4, <1>6, <2>2, <3>3, SMT
      <4> QED BY <1>0, <2>2, <3>3, <4>1 DEF Answered
    <3> QED BY <3>1, <3>2, <3>3
  <2> QED BY <1>7, <2>1, <2>2 DEF Answered
<1> QED BY <1>3, <1>7, <1>8, <1>9, <1>10, TypesOK DEF IInv

\* The server, and the network: the datagrams of a message become more only
\* if one of them is doubled.
LEMMA DatagramPreserves ==
  ASSUME MsgAssumption, IInv, NEW m \in Messages, UNCHANGED prog,
         Serve(m) \/ Lose(m) \/ Duplicate(m)
  PROVE  IInv'
<1>0. /\ Types /\ Counted /\ Bounded /\ Answered /\ MsgMax \in Nat
      /\ DupMax \in Nat
      /\ requests \in [Messages -> Nat] /\ answers \in [Messages -> Nat]
  BY OKTypes DEF MsgAssumption
<1>1. PICK c \in Clients, k \in 1 .. MsgMax : m = <<c, k>>
  BY DEF Messages
<1>2. /\ UNCHANGED <<turn, said, printed, quits>>
      /\ state' \in {"up", "ended"} /\ lost' \subseteq Clients
  BY <1>0, <1>1, Zenon DEF Serve, Lose, Duplicate, Types
<1>3. /\ dups \in Nat /\ dups' \in 0 .. DupMax
      /\ dups' = dups \/ (Duplicate(m) /\ dups' = dups + 1)
  BY <1>0, <1>1, SMT DEF Serve, Lose, Duplicate, Types
<1>4. Types'
  BY <1>0, <1>2, <1>3, Zenon DEF Types, Programs
<1>5. Counted'
  BY <1>0, <1>2, Zenon DEF Counted
<1>61. \/ /\ requests[m] > 0 /\ requests' = Take(requests, m)
         /\ answers' \in {answers, Put(answers, m)} /\ UNCHANGED dups
      \/ /\ answers[m] > 0 /\ answers' = Take(answers, m)
         /\ UNCHANGED <<requests, dups>>
      \/ /\ requests[m] > 0 /\ requests' = Put(requests, m)
         /\ UNCHANGED answers /\ dups' = dups + 1
      \/ /\ answers[m] > 0 /\ answers' = Put(answers, m)
         /\ UNCHANGED requests /\ dups' = dups + 1
  BY Zenon DEF Serve, Lose, Duplicate
<1>62. ASSUME NEW bag \in [Messages -> Nat]
      PROVE  /\ Put(bag, m) \in [Messages -> Nat]
             /\ bag[m] > 0 => Take(bag, m) \in [Messages -> Nat]
             /\ Put(bag, m)[<<c, k>>] = bag[<<c, k>>] + 1
             /\ Take(bag, m)[<<c, k>>] = bag[<<c, k>>] - 1
             /\ \A d \in Clients, j \in 1 .. MsgMax :
                  ~ (d = c /\ j = k) =>
                    /\ Put(bag, m)[<<d, j>>] = bag[<<d, j>>]
                    /\ Take(bag, m)[<<d, j>>] = bag[<<d, j>>]
  BY <1>1, Bag
<1>6. /\ requests' \in [Messages -> Nat] /\ answers' \in [Messages -> Nat]
      /\ \A d \in Clients, j \in 1 .. MsgMax :
           ~ (d = c /\ j = k) => requests'[<<d, j>>] = requests[<<d, j>>]
                                  /\ answers'[<<d, j>>] = answers[<<d, j>>]
  BY <1>0, <1>61, <1>62
<1> DEFINE r == requests[<<c, k>>]
           q == requests'[<<c, k>>]
           a == answers[<<c, k>>]
           b == answers'[<<c, k>>]
<1>7. /\ r \in Nat /\ q \in Nat /\ a \in Nat /\ b \in Nat
      /\ r + a <= 1 + dups /\ (k > said[c] => r = 0 /\ a = 0)
  BY <1>0, <1>6, Bag DEF Bounded
<1>8. \/ r > 0 /\ q = r - 1 /\ b \in {a, a + 1} /\ UNCHANGED dups
      \/ a > 0 /\ b = a - 1 /\ q = r /\ UNCHANGED dups
      \/ r > 0 /\ q = r + 1 /\ b = a /\ dups' = dups + 1
      \/ a > 0 /\ b = a + 1 /\ q = r /\ dups' = dups + 1
  BY <1>0, <1>1, <1>61, <1>62
<1> HIDE DEF r, q, a, b
<1>9. /\ q + b <= 1 + dups' /\ (k > said[c] => q = 0 /\ b = 0)
      /\ r = 0 /\ a = 0 => q = 0 /\ b = 0
  <2>1. q + b <= 1 + dups'
    <3>1. \/ dups' = dups /\ q + b <= r + a
          \/ dups' = dups + 1 /\ q + b = r + a + 1
      BY <1>7, <1>8, SMT
    <3>2. /\ r \in Nat /\ q \in Nat /\ a \in Nat /\ b \in Nat
          /\ dups \in Nat /\ dups' \in Nat /\ r + a <= 1 + dups
      BY <1>3, <1>7, SMT
    <3>3. CASE dups' = dups /\ q + b <= r + a
      BY <3>2, <3>3, SMT
    <3>4. CASE dups' = dups + 1 /\ q + b = r + a + 1
      BY <3>2, <3>4, SMT
    <3> QED BY <3>1, <3>3, <3>4
  <2>2. r = 0 /\ a = 0 => q = 0 /\ b = 0
    BY <1>7, <1>8, SMT
  <2> QED BY <1>7, <2>1, <2>2
<1>10. Bounded'
  <2> SUFFICES ASSUME NEW d \in Clients, NEW j \in 1 .. MsgMax
               PROVE  /\ requests'[<<d, j>>] + answers'[<<d, j>>] <= 1 + dups'
                      /\ j > said[d] => requests'[<<d, j>>] = 0
                                        /\ answers'[<<d, j>>] = 0
    BY <1>2 DEF Bounded
  <2>1. CASE d = c /\ j = k
    BY <1>9, <2>1 DEF q, b
  <2>2. CASE ~ (d = c /\ j = k)
    <3> DEFINE e == requests[<<d, j>>]
               f == answers[<<d, j>>]
    <3>1. /\ requests'[<<d, j>>] = e /\ answers'[<<d, j>>] = f
          /\ e \in Nat /\ f \in Nat /\ e + f <= 1 + dups
          /\ j > said[d] => e = 0 /\ f = 0
      BY <1>0, <1>6, <2>2, Bag DEF Bounded
    <3> HIDE DEF e, f
    <3>2. dups \in Nat /\ dups' \in Nat /\ dups <= dups'
      BY <1>3, SMT
    <3>3. e \in Nat /\ f \in Nat /\ e + f <= 1 + dups
      BY <3>1
    <3>4. e + f <= 1 + dups'
      BY <3>2, <3>3, MayGrow
    <3> QED BY <3>1, <3>4
  <2> QED BY <2>1, <2>2
<1>11. Answered'
  <2>1. dups' = 0 => dups = 0
    BY <1>3, SMT
  <2>2. ASSUME dups = 0, NEW d \in Clients, NEW j \in 1 .. MsgMax,
               j < said[d] \/ turn[d] = "input"
        PROVE  requests'[<<d, j>>] = 0 /\ answers'[<<d, j>>] = 0
    <3>1. requests[<<d, j>>] = 0 /\ answers[<<d, j>>] = 0
      BY <1>0, <2>2 DEF Answered
    <3>2. CASE d = c /\ j = k
      BY <1>9, <3>1, <3>2 DEF r, q, a, b
    <3> QED BY <1>6, <3>1, <3>2
  <2> QED BY <1>0, <1>2, <2>1, <2>2 DEF Answered
<1> QED BY <1>4, <1>5, <1>6, <1>10, <1>11, TypesOK DEF IInv

\* No step of clients, server or network breaks the invariant.
LEMMA NextPreserves ==
  ASSUME MsgAssumption, IInv, [Next]_vars
  PROVE  IInv'
<1>1. CASE Resting \/ UNCHANGED vars
  BY <1>1 DEF Resting, vars, net, IInv, TypeOK, Counted, Bounded, Answered
<1>2. ASSUME NEW m \in Messages, UNCHANGED prog,
             Serve(m) \/ Lose(m) \/ Duplicate(m)
      PROVE  IInv'
  BY <1>2, DatagramPreserves
<1>3. ASSUME NEW c \in Clients, UNCHANGED prog, Say(c) \/ Receive(c)
      PROVE  IInv'
  BY <1>3, SayPreserves, ReceivePreserves
<1> QED BY <1>1, <1>2, <1>3 DEF Next, Server, Client

\* What a client has printed, from the invariant.
LEMMA InvariantInStep ==
  ASSUME IInv PROVE InStep
<1> SUFFICES ASSUME NEW c \in Clients, NEW k \in DOMAIN printed[c]
             PROVE  IF dups = 0 \/ prog = "hw3" THEN printed[c][k] = k
                    ELSE printed[c][k] <= k
  BY DEF InStep
<1>1. printed[c] \in Seq(1 .. MsgMax) /\ printed[c][k] <= k
  BY DEF IInv, TypeOK, Counted
<1>2. CASE prog = "hw3"
  <2>1. Len(printed[c]) <= 1
    BY <1>2 DEF IInv, Counted
  <2>2. printed[c][k] = k
    <3>1. /\ DOMAIN printed[c] = 1 .. Len(printed[c]) /\ Len(printed[c]) \in Nat
          /\ printed[c][k] \in 1 .. MsgMax
      <4>1. DOMAIN printed[c] = 1 .. Len(printed[c]) /\ Len(printed[c]) \in Nat
        BY <1>1, LenProperties
      <4> QED BY <1>1, <4>1, ElementOfSeq
    <3> QED BY <1>1, <2>1, <3>1, SMT
  <2> QED BY <1>2, <2>2
<1>3. CASE dups = 0
  BY <1>3 DEF IInv, Answered
<1> QED BY <1>1, <1>2, <1>3

\* The inductive invariant holds in every state of HW3's programs.
THEOREM Invariance ==
  ASSUME MsgAssumption
  PROVE  Spec => []IInv
<1>1. Init => IInv
  BY InitInvariant
<1>2. IInv /\ [Next]_vars => IInv'
  BY NextPreserves
<1> QED BY <1>1, <1>2, PTL DEF Spec

\* A datagram that is lost or late never shifts the answers, and one that is
\* doubled never makes a client print the answer to a message it has not sent;
\* hw3_client.c prints its own answer whatever happens.
THEOREM InStepCorrect ==
  ASSUME MsgAssumption
  PROVE  Spec => []InStep
<1>1. IInv => InStep
  BY InvariantInStep
<1> QED BY <1>1, Invariance, PTL
=============================================================================
