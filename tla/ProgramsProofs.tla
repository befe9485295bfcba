--------------------------- MODULE ProgramsProofs ----------------------------
(***************************************************************************)
(* The invariants of the smaller programs, for any values of the           *)
(* constants, as theorems about the specification that has them all.       *)
(***************************************************************************)
EXTENDS MCPrograms, SequenceTheorems, TLAPS

HalfP   == INSTANCE HalfCloseProofs
UdpP    == INSTANCE UdpCalcProofs

\* HW7's sender: what it has sent, and how far it is in news.txt.  While it
\* reads, the end of the file is still to be run into.
Reading ==
  /\ pieces \in Nat /\ done \in 0 .. pieces /\ sent \in Seq(Nat)
  /\ reader \in {"open", "send", "ended"}
  /\ \A k \in 1 .. Len(sent) : sent[k] = IF k <= pieces THEN k ELSE pieces
  /\ reader = "open" => Len(sent) = 0 /\ done = 0 /\ pieces = 0
  /\ reader = "send" => Len(sent) = done /\ (atEnd => done # pieces)
  /\ reader = "ended" => Len(sent) = pieces + (IF atEnd THEN 0 ELSE 1)

\* An addition under the mutex starts from the number as it is.
CountedUnderMutex ==
  /\ num = round[1] - round[2]
  /\ \A t \in Shared!Threads :
       /\ pc[t] \in {"loop", "add", "store", "unlock"}
       /\ pc[t] \in {"add", "store"} => round[t] < Rounds
       /\ pc[t] = "store" => reg[t] = num

\* Whether a thread has the token.
Busy(t) == IF pc[t] = "loop" THEN 0 ELSE 1

\* There is one token, in a semaphore or with one of the threads; the number
\* typed last is missing from the sum until accu() has added it.
OneToken ==
  /\ pc[1] \in {"loop", "scanf", "post"} /\ pc[2] \in {"loop", "accu", "post"}
  /\ \A t \in Shared!Threads : pc[t] # "loop" => round[t] < Rounds
  /\ sem_one = round[1] - round[2] - Busy(2)
  /\ sem_one + sem_two + Busy(1) + Busy(2) = 1
  /\ typed = IF pc[1] = "post" \/ sem_one = 1 \/ pc[2] = "accu"
             THEN sum + num ELSE sum

\* thread3.c only loads and stores.
Unlocked == \A t \in Shared!Threads :
              /\ pc[t] \in {"loop", "store"}
              /\ pc[t] = "store" => round[t] < Rounds

\* The invariant of HW8's threads.
SharedInv == /\ Shared!TypeOK
             /\ prog = "mutex" => CountedUnderMutex
             /\ prog = "semaphore" => OneToken
             /\ prog = "thread3" => Unlocked

\* All that the two threads of thread3.c have added.
Added == Shared!Total(round[1]) + Rounds * round[2] + Shared!Total(round[2])

\* What is left of it: an addition that was overwritten is missing, but a
\* thread never overwrites its own.  As long as none of thread 2's is there,
\* all of thread 1's are.
Bounded ==
  /\ num \in Nat /\ num <= Added
  /\ num > Rounds \/ num >= Shared!Total(round[1])
  /\ round[1] > 0 \/ round[2] > 0 => num > 0
  /\ \A t \in Shared!Threads : pc[t] = "store" =>
       /\ reg[t] \in Nat /\ reg[t] <= Added
       /\ t = 1 => reg[t] > Rounds \/ reg[t] >= Shared!Total(round[1])
       /\ t = 2 /\ round[2] > 0 => reg[t] > 0
  /\ Rounds > 1 /\ round[1] = Rounds /\ round[2] = Rounds =>
       num > 2 * Rounds \/ num >= Shared!Total(Rounds)

\* Where the server is in the request of the client it serves: what it has
\* read so far is the beginning of what this client has written.
Parsed ==
  /\ i < opCount
  /\ \A k \in 0 .. opCount - 1 :
       spc # "operand" \/ k < i => operand[k] = <<cfd, 4 * k + 1>>
  /\ spc = "operand" => taken = 4 * i + 1 /\ used = <<>>
  /\ spc = "operator" => taken = 4 * opCount + 1 /\ used = <<>> /\ i = 0

\* The operator at hand is the one for the next turn, and those before it
\* have been applied.
Applied ==
  LET first == 4 * opCount + 1
      same == prog # "hw2"
  IN /\ operator = <<cfd, IF same THEN first ELSE first + i>>
     /\ same \/ taken = first + i + 1
     /\ Len(used) = i
     /\ \A k \in 1 .. i : used[k] = <<cfd, IF same THEN first ELSE first + k - 1>>

\* The invariant of HW2's server.  It has asked a client that has sent
\* nothing only if that one has hung up.
StreamInv ==
  /\ Stream!TypeOK /\ DOMAIN reply = Clients
  /\ \A c \in Clients : reply[c] # None /\ asked[c] = None => c \in fin
  /\ cfd # None /\ spc = "count" => taken = 0 /\ i = 0 /\ used = <<>>
  /\ cfd # None /\ spc # "count" =>
       IF asked[cfd] = None THEN cfd \in fin
       ELSE /\ opCount = asked[cfd]
            /\ ~ torn /\ Stream!Proper(opCount) =>
                 Parsed /\ (spc = "apply" => Applied)
  /\ Stream!AnswerIsOwn

\* The next token of h's own string; at its end strtok() stays.
Place(h) == IF given[h] = <<>> \/ Len(given[h]) < tokens[h]
            THEN <<h, Len(given[h]) + 1>> ELSE <<h, 0>>

\* An undisturbed calculation has its own tokens up to there, and the static
\* pointer, or what it has loaded from it, is the place behind them.
InOrder(h) ==
  /\ Len(given[h]) <= tokens[h]
  /\ \A k \in 1 .. Len(given[h]) : given[h][k] = <<h, k>>
  /\ at[h] = "null" => Len(given[h]) = tokens[h] /\ tokens[h] < Calc!Need(h)
  /\ at[h] = "store" => ptr[h] = Place(h)
  /\ Calc!Busy(h) => /\ cut[h] \subseteq 1 .. Len(given[h])
                     /\ given[h] # <<>> /\ at[h] = "load" => olds = Place(h)

\* However mixed, a calculation takes as many tokens as it needs, or fails.
Counted(h) ==
  /\ Calc!Busy(h) => Len(given[h]) < Calc!Need(h)
  /\ at[h] \in {"result", "bad"} => Len(given[h]) = Calc!Need(h)

\* The invariant of calculate(): two that overlap are both counted as mixed,
\* and the first token is always the caller's own.
CalcInv ==
  /\ Calc!TypeOK
  /\ \A h \in Handlers :
       /\ given[h] # <<>> => given[h][1] = <<h, 1>> /\ olds # None
       /\ at[h] = "store" => ptr[h] # None
       /\ at[h] = "store" /\ given[h] = <<>> => ptr[h] = <<h, 1>>
       /\ Counted(h)
       /\ h \notin mixed => InOrder(h)
  /\ \A g, h \in Handlers :
       g # h /\ Calc!Busy(g) /\ Calc!Busy(h) => h \in mixed

\* The invariant of each program where it runs.  The others have not begun.
IInv ==
  /\ Reading /\ (OfRadio => Radio!TypeOK)
  /\ OfShared => SharedInv /\ (prog = "thread3" => Bounded)
  /\ IF OfHalf THEN HalfP!FullInv ELSE Half!Start
  /\ IF OfUdp THEN UdpP!IInv ELSE Udp!Start
  /\ IF OfStream THEN StreamInv ELSE Stream!Start
  /\ CalcInv

\* What the proofs assume of the constants is what the modules do.
LEMMA Constants ==
  /\ HalfP!SizeAssumption /\ UdpP!MsgAssumption
  /\ Shared!RoundsAssumption /\ Shared!InputsAssumption
  /\ Stream!CountsAssumption /\ Stream!NoneAssumption
  /\ Calc!CountsAssumption /\ Calc!NoneAssumption
  /\ PieceMax \in Nat
BY Assumptions
DEF Half!SizeAssumption, HalfP!SizeAssumption, Udp!MsgAssumption,
    UdpP!MsgAssumption, Radio!PieceAssumption

-----------------------------------------------------------------------------
(* The steps of the programs are those their proofs are about. *)

\* A step of the half-closed transfers is one HalfCloseProofs speaks of.
LEMMA HalfStep ==
  ASSUME Half!Next PROVE HalfP!Next
BY Zenon
DEF Half!Next, Half!Server, Half!Client, Half!Finished, Half!KillServer,
    Half!KillClient, Half!accept, Half!SendBlock, Half!SendLines,
    Half!Shutdown, Half!CloseStream, Half!ReadBack, Half!Receive,
    Half!EndOfFile, Half!Answer, Half!Write, Half!Overlay, Half!Units,
    Half!vars, Half!Thanks,
    HalfP!Next, HalfP!Server, HalfP!Client, HalfP!Finished, HalfP!KillServer,
    HalfP!KillClient, HalfP!accept, HalfP!SendBlock, HalfP!SendLines,
    HalfP!Shutdown, HalfP!CloseStream, HalfP!ReadBack, HalfP!Receive,
    HalfP!EndOfFile, HalfP!Answer, HalfP!Write, HalfP!Overlay, HalfP!Units,
    HalfP!vars, HalfP!Thanks

\* A step of HW3's programs is one UdpCalcProofs speaks of.
LEMMA UdpStep ==
  ASSUME Udp!Next PROVE UdpP!Next
BY Zenon
DEF Udp!Next, Udp!Server, Udp!Client, Udp!Say, Udp!Receive, Udp!Serve,
    Udp!Lose, Udp!Duplicate, Udp!Resting, Udp!Messages, Udp!Put, Udp!Take,
    Udp!vars, Udp!net,
    UdpP!Next, UdpP!Server, UdpP!Client, UdpP!Say, UdpP!Receive, UdpP!Serve,
    UdpP!Lose, UdpP!Duplicate, UdpP!Resting, UdpP!Messages, UdpP!Put,
    UdpP!Take, UdpP!vars, UdpP!net

\* A behaviour stays with its program.
LEMMA ProgStays ==
  ASSUME [Next]_vars PROVE prog' = prog
<1>1. CASE UNCHANGED vars
  BY <1>1 DEF vars
<1>2. CASE Stream!Next
  BY <1>2 DEF Stream!Next, Stream!Server, Stream!Client, Stream!Finished,
     Stream!vars
<1>3. CASE Half!Next
  BY <1>3 DEF Half!Next, Half!Server, Half!Client, Half!Finished, Half!vars
<1>4. CASE Radio!Next
  BY <1>4 DEF Radio!Next, Radio!Resting, Radio!vars
<1>5. CASE Udp!Next
  BY <1>5 DEF Udp!Next, Udp!Server, Udp!Client, Udp!Resting, Udp!vars
<1>6. CASE Shared!Next
  BY <1>6 DEF Shared!Next, Shared!Thread, Shared!Resting, Shared!vars
<1> QED BY <1>1, <1>2, <1>3, <1>4, <1>5, <1>6 DEF Next

-----------------------------------------------------------------------------
(* HW7's sender. *)

\* One datagram more, which is the next piece or the last one again.
LEMMA SendPreserves ==
  ASSUME Reading, Radio!Send
  PROVE  Reading'
<1>1. /\ reader = "send" /\ pieces' = pieces /\ atEnd' = atEnd
      /\ done' = IF done < pieces THEN done + 1 ELSE done
      /\ sent' = Append(sent, done')
      /\ reader' = IF done = pieces \/ (done' = pieces /\ atEnd)
                   THEN "ended" ELSE reader
  BY DEF Radio!Send, Radio!SendTo
<1>2. /\ pieces \in Nat /\ done \in Nat /\ done <= pieces /\ Len(sent) = done
      /\ sent \in Seq(Nat) /\ (atEnd => done # pieces)
  BY <1>1, SMT DEF Reading
<1>3. done' \in Nat
  BY <1>1, <1>2, SMT
<1>4. /\ sent' \in Seq(Nat) /\ Len(sent') = done + 1
      /\ \A k \in 1 .. done : sent'[k] = sent[k]
      /\ sent'[done + 1] = done'
  BY <1>1, <1>2, <1>3, SMT
<1>5. \A k \in 1 .. Len(sent') : sent'[k] = IF k <= pieces THEN k ELSE pieces
  <2> TAKE k \in 1 .. Len(sent')
  <2>1. CASE k = done + 1
    BY <1>1, <1>2, <1>4, <2>1, SMT
  <2>2. CASE k # done + 1
    <3>1. k \in 1 .. done
      BY <1>2, <1>4, <2>2, SMT
    <3> QED BY <1>2, <1>4, <3>1 DEF Reading
  <2> QED BY <2>1, <2>2
<1>6. CASE done = pieces
  <2>1. reader' = "ended" /\ done' = pieces /\ ~ atEnd
    BY <1>1, <1>2, <1>6, SMT
  <2>2. Len(sent') = pieces + (IF atEnd THEN 0 ELSE 1)
    BY <1>4, <1>6, <2>1
  <2>3. done' \in 0 .. pieces
    BY <1>2, <2>1, SMT
  <2> QED BY <1>1, <1>2, <1>4, <1>5, <2>1, <2>2, <2>3 DEF Reading
<1>7. CASE done # pieces
  <2>1. done' = done + 1 /\ done' \in 0 .. pieces
    BY <1>1, <1>2, <1>7, SMT
  <2>2. CASE done' = pieces /\ atEnd
    <3>1. reader' = "ended" /\ Len(sent') = pieces + (IF atEnd THEN 0 ELSE 1)
      BY <1>1, <1>2, <1>4, <2>1, <2>2, SMT
    <3> QED BY <1>1, <1>2, <1>4, <1>5, <2>1, <3>1 DEF Reading
  <2>3. CASE ~ (done' = pieces /\ atEnd)
    <3>1. reader' = "send"
      BY <1>1, <1>7, <2>3
    <3> QED BY <1>1, <1>2, <1>4, <1>5, <2>1, <2>3, <3>1 DEF Reading
  <2> QED BY <2>2, <2>3
<1> QED BY <1>6, <1>7

\* HW7's sender opens the file and sends; receivers change nothing of it.
LEMMA RadioPreserves ==
  ASSUME Reading, Radio!Next
  PROVE  Reading'
<1>1. CASE Radio!Open
  <2>1. /\ reader = "open" /\ reader' = "send" /\ pieces' \in 0 .. PieceMax
        /\ atEnd' => pieces' > 0
        /\ UNCHANGED <<done, sent>>
    BY <1>1 DEF Radio!Open
  <2>2. /\ sent \in Seq(Nat) /\ Len(sent) = 0 /\ done = 0
        /\ pieces' \in Nat
    BY <2>1, SMT DEF Reading
  <2>3. pieces' > 0 => pieces' # 0
    BY <2>2, SMT
  <2>4. done' \in 0 .. pieces' /\ 1 .. Len(sent') = {}
    BY <2>1, <2>2, SMT
  <2> QED BY <2>1, <2>2, <2>3, <2>4 DEF Reading
<1>2. CASE \E r \in Receivers : Radio!Join(r) \/ Radio!Receive(r)
  BY <1>2 DEF Radio!Join, Radio!Receive, Reading
<1>3. CASE Radio!Resting
  BY <1>3 DEF Radio!Resting, Radio!vars, Reading
<1> QED BY <1>1, <1>2, <1>3, SendPreserves DEF Radio!Next

\* A sequence over a set is one over a larger set.
LEMMA Wider ==
  ASSUME NEW S, NEW T, S \subseteq T, NEW s \in Seq(S)
  PROVE  s \in Seq(T)
BY SMT

\* With the datagrams on their way and those heard.
LEMMA RadioTypes ==
  ASSUME PieceMax \in Nat, Reading, Radio!TypeOK, Radio!Next
  PROVE  Radio!TypeOK'
<1> DEFINE n == Len(sent)
<1>1. /\ pieces \in Nat /\ done \in Nat /\ done <= pieces /\ n \in Nat
      /\ line \in 0 .. pieces /\ sent \in Seq(0 .. pieces) /\ n <= pieces + 1
      /\ pieces <= PieceMax /\ Radio!Absent = PieceMax + 2
  <2>1. sent \in Seq(0 .. pieces)
    BY DEF Radio!TypeOK
  <2>2. n \in Nat
    BY <2>1, LenProperties
  <2> QED BY <2>1, <2>2, SMT DEF Reading, Radio!TypeOK, Radio!Absent
<1>2. CASE Radio!Open
  <2>1. /\ reader = "open" /\ reader' = "send" /\ pieces' \in 0 .. PieceMax
        /\ atEnd' \in BOOLEAN
        /\ UNCHANGED <<prog, done, line, sent, since, due, heard>>
    BY <1>2 DEF Radio!Next, Radio!Open, Radio!Resting, Radio!vars
  <2>2. done = 0 /\ pieces = 0 /\ line = 0
    BY <1>1, <2>1, SMT DEF Reading
  <2>3. /\ 0 .. pieces \subseteq 0 .. pieces' /\ done' \in 0 .. pieces'
        /\ line' \in 0 .. pieces' /\ n <= pieces' + 1
    BY <1>1, <2>1, <2>2, SMT
  <2>4. sent' \in Seq(0 .. pieces')
    BY <1>1, <2>1, <2>3, Wider
  <2> QED BY <2>1, <2>3, <2>4 DEF Radio!TypeOK, Radio!Absent
<1>3. CASE Radio!Send
  <2>1. /\ reader = "send" /\ n = done
        /\ done' = IF done < pieces THEN done + 1 ELSE done
        /\ line' = done' /\ sent' = Append(sent, done')
        /\ reader' \in {"send", "ended"}
        /\ UNCHANGED <<prog, pieces, atEnd, since, heard>>
    BY <1>3 DEF Radio!Next, Radio!Send, Radio!SendTo, Radio!Resting,
       Radio!vars, Reading
  <2>2. PICK got \in SUBSET Receivers :
          due' = [r \in Receivers |->
                    IF r \in got THEN due[r] \cup {n + 1} ELSE due[r]]
    BY <1>3 DEF Radio!Send, Radio!SendTo
  <2>3. done' \in 0 .. pieces
    BY <1>1, <2>1, SMT
  <2>4. sent' \in Seq(0 .. pieces) /\ Len(sent') = n + 1
    BY <1>1, <2>1, <2>3, SMT
  <2>5. n + 1 <= pieces + 1 /\ 1 .. n \subseteq 1 .. n + 1 /\ n + 1 \in 1 .. n + 1
    BY <1>1, <2>1, SMT
  <2>6. due' \in [Receivers -> SUBSET (1 .. n + 1)]
    BY <2>2, <2>5 DEF Radio!TypeOK
  <2>7. heard' \in [Receivers -> Seq(1 .. n + 1)]
    BY <2>1, <2>5, Wider DEF Radio!TypeOK
  <2> QED BY <2>1, <2>3, <2>4, <2>5, <2>6, <2>7 DEF Radio!TypeOK, Radio!Absent
<1>4. ASSUME NEW r \in Receivers, Radio!Join(r) \/ Radio!Receive(r)
      PROVE  Radio!TypeOK'
  <2>1. /\ UNCHANGED <<prog, pieces, atEnd, reader, done, line, sent>>
    BY <1>4 DEF Radio!Next, Radio!Join, Radio!Receive, Radio!Resting,
       Radio!vars
  <2>2. CASE Radio!Join(r)
    <3>1. n \in 0 .. Radio!Absent
      BY <1>1, SMT
    <3>2. since' = [since EXCEPT ![r] = n] /\ UNCHANGED <<due, heard>>
      BY <2>2 DEF Radio!Join
    <3>3. since' \in [Receivers -> 0 .. Radio!Absent]
      BY <3>1, <3>2 DEF Radio!TypeOK
    <3> QED BY <2>1, <3>2, <3>3 DEF Radio!TypeOK, Radio!Absent
  <2>3. CASE Radio!Receive(r)
    <3>1. PICK k \in due[r] : /\ due' = [due EXCEPT ![r] = @ \ {k}]
                              /\ heard' = [heard EXCEPT ![r] = Append(@, k)]
                              /\ UNCHANGED since
      BY <2>3 DEF Radio!Receive
    <3>2. k \in 1 .. n /\ heard[r] \in Seq(1 .. n)
      BY DEF Radio!TypeOK
    <3>3. Append(heard[r], k) \in Seq(1 .. n)
      BY <3>2, AppendProperties
    <3>4. /\ due' \in [Receivers -> SUBSET (1 .. n)]
          /\ heard' \in [Receivers -> Seq(1 .. n)]
      BY <3>1, <3>3 DEF Radio!TypeOK
    <3> QED BY <2>1, <3>1, <3>4 DEF Radio!TypeOK, Radio!Absent
  <2> QED BY <1>4, <2>2, <2>3
<1>5. CASE Radio!Resting
  BY <1>5 DEF Radio!Resting, Radio!vars, Radio!TypeOK, Radio!Absent
<1> QED BY <1>2, <1>3, <1>4, <1>5 DEF Radio!Next

-----------------------------------------------------------------------------
(* HW8's two threads. *)

\* Nobody has run yet.
LEMMA SharedInit ==
  ASSUME Shared!RoundsAssumption, Shared!InputsAssumption, Shared!Init
  PROVE  SharedInv
BY SMT DEF Shared!RoundsAssumption, Shared!Init, Shared!Start, SharedInv,
   Shared!TypeOK, Shared!Programs, Shared!Threads, CountedUnderMutex,
   OneToken, Unlocked, Busy

\* mutex.c and thread3.c.
LEMMA SharedCounts ==
  ASSUME Shared!RoundsAssumption, SharedInv, NEW t \in Shared!Threads,
         UNCHANGED prog,
         \/ Shared!Lock(t) \/ Shared!LoadNum(t) \/ Shared!StoreNum(t)
         \/ Shared!Unlock(t)
  PROVE  SharedInv'
<1> USE DEF Shared!RoundsAssumption, SharedInv, Shared!TypeOK,
            Shared!Programs, Shared!Threads, CountedUnderMutex, OneToken, Unlocked, Busy, Shared!semaphores
<1>1. CASE Shared!Lock(t)
  BY <1>1, SMT DEF Shared!Lock
<1>2. CASE Shared!LoadNum(t)
  BY <1>2, SMT DEF Shared!LoadNum
<1>3. CASE Shared!StoreNum(t)
  BY <1>3, SMT DEF Shared!StoreNum, Shared!Addend
<1>4. CASE Shared!Unlock(t)
  BY <1>4, SMT DEF Shared!Unlock, Shared!At
<1> QED BY <1>1, <1>2, <1>3, <1>4

\* If the second of four has the one token, neither the first nor the last
\* has it.
LEMMA OnlyOne ==
  ASSUME NEW a \in 0 .. 1, NEW b \in 0 .. 1, NEW d \in 0 .. 1,
         a + b + 0 + d = 1, b > 0
  PROVE  b = 1 /\ a = 0 /\ d = 0
BY SMT

\* semaphore.c.
LEMMA SharedExchanges ==
  ASSUME Shared!RoundsAssumption, Shared!InputsAssumption, SharedInv,
         UNCHANGED prog,
         \/ Shared!WaitTwo \/ Shared!Scanf \/ Shared!PostOne
         \/ Shared!WaitOne \/ Shared!Accu \/ Shared!PostTwo
  PROVE  SharedInv'
<1> USE DEF Shared!RoundsAssumption, Shared!InputsAssumption, SharedInv,
            Shared!TypeOK, Shared!Programs, Shared!Threads, CountedUnderMutex,
            OneToken, Unlocked, Busy, Shared!At
<1>1. CASE Shared!WaitTwo
  <2>1. /\ prog = "semaphore" /\ sem_two = 1 /\ sem_two' = 0 /\ sem_one = 0
        /\ pc[1] = "loop" /\ pc[2] = "loop" /\ round[1] < Rounds
        /\ pc' = [pc EXCEPT ![1] = "scanf"]
        /\ UNCHANGED <<num, round, reg, mutex, sem_one, sum, typed>>
    <3>1. sem_two \in 0 .. 1 /\ sem_one \in 0 .. 1
      OBVIOUS
    <3>2. sem_one + sem_two + Busy(1) + Busy(2) = 1 /\ Busy(1) = 0
      BY <1>1 DEF Shared!WaitTwo
    <3>3. /\ prog = "semaphore" /\ sem_two > 0 /\ sem_two' = sem_two - 1
          /\ pc[1] = "loop" /\ round[1] < Rounds
          /\ pc' = [pc EXCEPT ![1] = "scanf"]
          /\ UNCHANGED <<num, round, reg, mutex, sem_one, sum, typed>>
      BY <1>1 DEF Shared!WaitTwo
    <3>4. Busy(2) \in 0 .. 1 /\ sem_one + sem_two + 0 + Busy(2) = 1
      BY <3>2, SMT
    <3>5. sem_two = 1 /\ sem_one = 0 /\ Busy(2) = 0
      BY <3>1, <3>3, <3>4, OnlyOne
    <3> QED BY <3>3, <3>5
  <2>2. Shared!TypeOK'
    BY <1>1, <2>1, SMT
  <2>3. OneToken'
    BY <1>1, <2>1, SMT
  <2> QED BY <1>1, <2>1, <2>2, <2>3
<1>2. CASE Shared!Scanf
  BY <1>2, SMT DEF Shared!Scanf
<1>3. CASE Shared!PostOne
  BY <1>3, SMTT(20) DEF Shared!PostOne
<1>4. CASE Shared!WaitOne
  <2>1. /\ prog = "semaphore" /\ sem_one = 1 /\ sem_one' = 0 /\ sem_two = 0
        /\ pc[1] = "loop" /\ pc[2] = "loop" /\ round[2] < Rounds
        /\ pc' = [pc EXCEPT ![2] = "accu"]
        /\ UNCHANGED <<num, round, reg, mutex, sem_two, sum, typed>>
    BY <1>4, SMT DEF Shared!WaitOne
  <2>2. Shared!TypeOK'
    BY <1>4, <2>1, SMT
  <2>3. OneToken'
    BY <1>4, <2>1, SMT
  <2> QED BY <1>4, <2>1, <2>2, <2>3
<1>5. CASE Shared!Accu
  BY <1>5, SMT DEF Shared!Accu
<1>6. CASE Shared!PostTwo
  BY <1>6, SMT DEF Shared!PostTwo
<1> QED BY <1>1, <1>2, <1>3, <1>4, <1>5, <1>6

\* A step that changes nothing.
LEMMA SharedStutters == SharedInv /\ UNCHANGED Shared!vars => SharedInv'
BY DEF Shared!vars, SharedInv, Shared!TypeOK, CountedUnderMutex, OneToken,
   Unlocked, Busy

\* No step of either thread breaks the invariant.
LEMMA SharedPreserves ==
  ASSUME Shared!RoundsAssumption, Shared!InputsAssumption, SharedInv,
         [Shared!Next]_(Shared!vars)
  PROVE  SharedInv'
<1>1. CASE Shared!Resting \/ UNCHANGED Shared!vars
  BY <1>1, SharedStutters DEF Shared!Resting
<1>2. ASSUME NEW t \in Shared!Threads, Shared!Thread(t) PROVE SharedInv'
  BY <1>2, SharedCounts, SharedExchanges DEF Shared!Thread
<1> QED BY <1>1, <1>2 DEF Shared!Next

\* When both threads have been joined, nobody is in the middle of an addition.
LEMMA SharedExact ==
  ASSUME Shared!RoundsAssumption, Shared!InputsAssumption, SharedInv
  PROVE  Shared!LockedIsExact
BY SMT DEF Shared!RoundsAssumption, SharedInv, Shared!TypeOK,
   Shared!Threads, CountedUnderMutex, OneToken, Busy, Shared!LockedIsExact,
   Shared!Joined

\* The sum of the first numbers, and the next one.
LEMMA Totals ==
  ASSUME NEW n \in Nat
  PROVE  /\ Shared!Total(n) \in Nat
         /\ 2 * Shared!Total(n) = n * (n + 1)
         /\ Shared!Total(n + 1) = Shared!Total(n) + n + 1
<1>1. ASSUME NEW m \in Nat
      PROVE  Shared!Total(m) \in Nat /\ 2 * Shared!Total(m) = m * (m + 1)
  <2>1. PICK q \in Nat : m = 2 * q \/ m = 2 * q + 1
    <3>1. m \div 2 \in Nat /\ (m = 2 * (m \div 2) \/ m = 2 * (m \div 2) + 1)
      BY SMT
    <3> QED BY <3>1
  <2>2. PICK x \in Nat : m * (m + 1) = 2 * x
    <3>1. CASE m = 2 * q
      <4>1. m * (m + 1) = 2 * (q * (2 * q + 1)) /\ q * (2 * q + 1) \in Nat
        BY <3>1, SMT
      <4> QED BY <4>1
    <3>2. CASE m = 2 * q + 1
      <4>1. m * (m + 1) = 2 * ((2 * q + 1) * (q + 1))
            /\ (2 * q + 1) * (q + 1) \in Nat
        BY <3>2, SMT
      <4> QED BY <4>1
    <3> QED BY <2>1, <3>1, <3>2
  <2>3. (2 * x) \div 2 = x
    BY SMT
  <2> QED BY <2>2, <2>3 DEF Shared!Total
<1>2. n + 1 \in Nat
  BY SMT
<1>3. 2 * Shared!Total(n + 1) = (n + 1) * (n + 1 + 1)
      /\ Shared!Total(n + 1) \in Nat
  BY <1>1, <1>2
<1>4. (n + 1) * (n + 1 + 1) = n * (n + 1) + 2 * (n + 1)
  BY SMT
<1>5. Shared!Total(n) \in Nat /\ 2 * Shared!Total(n) = n * (n + 1)
  BY <1>1
<1> DEFINE a == Shared!Total(n)
           b == Shared!Total(n + 1)
           c == n * (n + 1)
<1>6. c \in Nat
  BY SMT
<1>7. a \in Nat /\ b \in Nat /\ 2 * a = c /\ 2 * b = c + 2 * (n + 1)
  BY <1>3, <1>4, <1>5
<1> HIDE DEF a, b, c
<1>8. b = a + n + 1
  BY <1>6, <1>7, SMT
<1> QED BY <1>5, <1>8 DEF a, b

\* Nothing has been added.
LEMMA BoundedInit ==
  ASSUME Shared!RoundsAssumption, Shared!Init
  PROVE  Bounded
<1>1. Shared!Total(0) = 0
  BY SMT DEF Shared!Total
<1>2. /\ num = 0 /\ round[1] = 0 /\ round[2] = 0
      /\ \A t \in Shared!Threads : pc[t] = "loop"
  BY SMT DEF Shared!Init, Shared!Start, Shared!Threads
<1>3. Added = 0
  BY <1>1, <1>2, SMT DEF Added, Shared!RoundsAssumption
<1> QED BY <1>1, <1>2, <1>3, SMT DEF Bounded, Shared!RoundsAssumption

\* A thread of thread3.c has read the number.
LEMMA BoundedLoad ==
  ASSUME Shared!RoundsAssumption, Shared!TypeOK, Unlocked, Bounded,
         NEW t \in Shared!Threads, Shared!LoadNum(t)
  PROVE  Bounded'
<1>1. /\ UNCHANGED <<num, round>> /\ reg' = [reg EXCEPT ![t] = num]
      /\ pc' = [pc EXCEPT ![t] = "store"]
  BY DEF Shared!LoadNum
<1>2. /\ reg'[t] = num
      /\ \A u \in Shared!Threads : u # t => reg'[u] = reg[u] /\ pc'[u] = pc[u]
  BY <1>1 DEF Shared!TypeOK
<1>3. Added' = Added /\ Shared!Total(round[1])' = Shared!Total(round[1])
  BY <1>1 DEF Added
<1>4. ASSUME NEW u \in Shared!Threads, pc'[u] = "store"
      PROVE  /\ reg'[u] \in Nat /\ reg'[u] <= Added
             /\ u = 1 => reg'[u] > Rounds \/ reg'[u] >= Shared!Total(round[1])
             /\ u = 2 /\ round[2] > 0 => reg'[u] > 0
  BY <1>2, <1>4 DEF Bounded
<1> QED BY <1>1, <1>3, <1>4 DEF Bounded

\* It writes the number with its addend; what the other thread has written
\* since is overwritten.
LEMMA BoundedStore ==
  ASSUME Shared!RoundsAssumption, Shared!TypeOK, Unlocked, Bounded,
         prog = "thread3", NEW t \in Shared!Threads, Shared!StoreNum(t)
  PROVE  Bounded'
<1> DEFINE r == round[1]
           s == round[2]
<1>1. /\ Rounds \in Nat /\ Rounds > 0 /\ r \in Nat /\ s \in Nat
      /\ num \in Nat /\ Added \in Nat /\ Rounds * s \in Nat
      /\ r <= Rounds /\ s <= Rounds
  <2>1. /\ Rounds \in Nat /\ Rounds > 0 /\ r \in Nat /\ s \in Nat
        /\ r <= Rounds /\ s <= Rounds
    BY SMT DEF Shared!RoundsAssumption, Shared!TypeOK, Shared!Threads
  <2>2. Rounds * s \in Nat
    BY <2>1, SMT
  <2>3. Shared!Total(r) \in Nat /\ Shared!Total(s) \in Nat
    BY <2>1, Totals
  <2>4. Added \in Nat
    BY <2>2, <2>3, SMT DEF Added
  <2> QED BY <2>1, <2>2, <2>4 DEF Bounded
<1>2. /\ Shared!Total(r) \in Nat /\ Shared!Total(r + 1) = Shared!Total(r) + r + 1
      /\ Shared!Total(s) \in Nat /\ Shared!Total(s + 1) = Shared!Total(s) + s + 1
  BY <1>1, Totals
<1>3. Rounds * (s + 1) = Rounds * s + Rounds
  BY <1>1, SMT
<1>4. /\ pc[t] = "store" /\ reg[t] \in Nat /\ reg[t] <= Added
      /\ UNCHANGED reg
      /\ num' = reg[t] + Shared!Addend(t)
      /\ round' = [round EXCEPT ![t] = @ + 1]
      /\ pc' = [pc EXCEPT ![t] = "loop"]
  BY DEF Shared!StoreNum, Bounded
<1>5. Added = Shared!Total(r) + Rounds * s + Shared!Total(s)
  BY DEF Added
<1>6. CASE t = 1
  <2>1. /\ num' = reg[1] + r + 1 /\ round'[1] = r + 1 /\ round'[2] = s
        /\ pc'[1] = "loop" /\ pc'[2] = pc[2] /\ reg[1] \in Nat
        /\ reg[1] > Rounds \/ reg[1] >= Shared!Total(r)
        /\ reg[1] <= Added
    <3>1. Shared!Addend(1) = r + 1
      BY <1>1, SMT DEF Shared!Addend
    <3>2. num' = reg[1] + r + 1
      BY <1>1, <1>4, <1>6, <3>1, SMT
    <3> QED BY <1>4, <1>6, <3>2 DEF Shared!TypeOK, Shared!Threads, Bounded
  <2>2. Added' = Added + r + 1
    <3>1. Added' = Shared!Total(r + 1) + Rounds * s + Shared!Total(s)
      BY <2>1 DEF Added
    <3> QED BY <1>1, <1>2, <1>5, <3>1, SMT
  <2> HIDE DEF r, s
  <2>3. /\ num' \in Nat /\ num' <= Added' /\ num' > 0
        /\ num' > Rounds \/ num' >= Shared!Total(r + 1)
    BY <1>1, <1>2, <2>1, <2>2, SMT
  <2>4. r + 1 = Rounds => num' > 2 * Rounds \/ num' >= Shared!Total(Rounds)
    BY <1>1, <1>2, <2>1, SMT
  <2>5. ASSUME pc[2] = "store"
        PROVE  /\ reg[2] \in Nat /\ reg[2] <= Added'
               /\ s > 0 => reg[2] > 0
    <3>1. /\ reg[2] \in Nat /\ reg[2] <= Added
          /\ s > 0 => reg[2] > 0
      BY <2>5 DEF Bounded, Shared!Threads, s
    <3> QED BY <1>1, <2>2, <3>1, SMT
  <2>6. \A u \in Shared!Threads : pc'[u] = "store" =>
          /\ reg'[u] \in Nat /\ reg'[u] <= Added'
          /\ u = 1 => reg'[u] > Rounds \/ reg'[u] >= Shared!Total(round'[1])
          /\ u = 2 /\ round'[2] > 0 => reg'[u] > 0
    BY <1>4, <2>1, <2>5 DEF Shared!Threads
  <2> QED BY <2>1, <2>3, <2>4, <2>6 DEF Bounded
<1>7. CASE t = 2
  <2>1. /\ num' = reg[2] + Rounds + s + 1 /\ round'[2] = s + 1
        /\ round'[1] = r
        /\ pc'[2] = "loop" /\ pc'[1] = pc[1] /\ reg[2] \in Nat
        /\ s > 0 => reg[2] > 0
        /\ reg[2] <= Added
    <3>1. Shared!Addend(2) = Rounds + s + 1
      BY <1>1, SMT DEF Shared!Addend
    <3>2. num' = reg[2] + Rounds + s + 1
      BY <1>1, <1>4, <1>7, <3>1, SMT
    <3> QED BY <1>4, <1>7, <3>2 DEF Shared!TypeOK, Shared!Threads, Bounded
  <2>2. Added' = Added + Rounds + s + 1
    <3>1. Added' = Shared!Total(r) + Rounds * (s + 1) + Shared!Total(s + 1)
      BY <2>1 DEF Added
    <3> QED BY <1>1, <1>2, <1>3, <1>5, <3>1, SMT
  <2> HIDE DEF r, s
  <2>3. num' \in Nat /\ num' <= Added' /\ num' > 0 /\ num' > Rounds
    BY <1>1, <1>2, <2>1, <2>2, SMT
  <2>4. Rounds > 1 /\ s + 1 = Rounds => num' > 2 * Rounds
    BY <1>1, <2>1, SMT
  <2>5. ASSUME pc[1] = "store"
        PROVE  /\ reg[1] \in Nat /\ reg[1] <= Added'
               /\ reg[1] > Rounds \/ reg[1] >= Shared!Total(r)
    <3>1. /\ reg[1] \in Nat /\ reg[1] <= Added
          /\ reg[1] > Rounds \/ reg[1] >= Shared!Total(r)
      BY <2>5 DEF Bounded, Shared!Threads, r
    <3> QED BY <1>1, <2>2, <3>1, SMT
  <2>6. \A u \in Shared!Threads : pc'[u] = "store" =>
          /\ reg'[u] \in Nat /\ reg'[u] <= Added'
          /\ u = 1 => reg'[u] > Rounds \/ reg'[u] >= Shared!Total(round'[1])
          /\ u = 2 /\ round'[2] > 0 => reg'[u] > 0
    BY <1>4, <2>1, <2>5 DEF Shared!Threads
  <2> QED BY <2>1, <2>3, <2>4, <2>6 DEF Bounded
<1> QED BY <1>6, <1>7 DEF Shared!Threads

\* No other step of thread3.c's threads is possible.
LEMMA BoundedPreserves ==
  ASSUME Shared!RoundsAssumption, Shared!TypeOK, Unlocked, Bounded,
         prog = "thread3", [Shared!Next]_(Shared!vars)
  PROVE  Bounded'
<1>1. CASE Shared!Resting \/ UNCHANGED Shared!vars
  <2>1. UNCHANGED <<num, pc, round, reg>>
    BY <1>1 DEF Shared!Resting, Shared!vars
  <2>2. Added' = Added
    BY <2>1 DEF Added
  <2> QED BY <2>1, <2>2 DEF Bounded
<1>2. ASSUME NEW t \in Shared!Threads, Shared!Thread(t) PROVE Bounded'
  <2>1. pc[t] \in {"loop", "store"} /\ 1 \in Shared!Threads /\ 2 \in Shared!Threads
    BY DEF Unlocked, Shared!Threads
  <2>2. Shared!LoadNum(t) \/ Shared!StoreNum(t)
    BY <1>2, <2>1 DEF Shared!Thread, Shared!Lock, Shared!Unlock, Shared!At,
       Shared!WaitTwo, Shared!Scanf, Shared!PostOne, Shared!WaitOne,
       Shared!Accu, Shared!PostTwo
  <2> QED BY <2>2, BoundedLoad, BoundedStore
<1> QED BY <1>1, <1>2 DEF Shared!Next

\* The bounds, when both threads have been joined.  With fewer than four
\* rounds the sum of thread 1's numbers would be less than the lower one.
LEMMA BoundedSum ==
  ASSUME Shared!RoundsAssumption, Rounds >= 4, Bounded
  PROVE  Shared!LostUpdatesBounded
<1> SUFFICES ASSUME round[1] = Rounds, round[2] = Rounds
             PROVE  /\ num <= Shared!Total(2 * Rounds)
                    /\ num >= 2 * Rounds + 1
  BY DEF Shared!LostUpdatesBounded, Shared!Joined, Shared!Threads
<1> DEFINE T == Shared!Total(Rounds)
           U == Shared!Total(2 * Rounds)
           q == Rounds * Rounds
<1>1. Rounds \in Nat /\ 2 * Rounds \in Nat /\ q \in Nat /\ num \in Nat
  BY SMT DEF Shared!RoundsAssumption, Bounded
<1>2. /\ T \in Nat /\ 2 * T = Rounds * (Rounds + 1)
      /\ U \in Nat /\ 2 * U = (2 * Rounds) * (2 * Rounds + 1)
  BY <1>1, Totals
<1>3. /\ Rounds * (Rounds + 1) = q + Rounds
      /\ (2 * Rounds) * (2 * Rounds + 1) = 4 * q + 2 * Rounds
      /\ q >= 4 * Rounds
  BY <1>1, SMT
<1>4. /\ num <= T + q + T
      /\ num > 2 * Rounds \/ num >= T
  BY <1>1, SMT DEF Bounded, Added
<1> HIDE DEF T, U, q
<1> QED
  <2>1. 2 * T = q + Rounds /\ 2 * U = 4 * q + 2 * Rounds
    BY <1>2, <1>3
  <2>2. num <= U
    BY <1>1, <1>2, <1>4, <2>1, SMT
  <2>3. num >= 2 * Rounds + 1
    BY <1>1, <1>2, <1>3, <1>4, <2>1, SMT
  <2> QED BY <2>2, <2>3 DEF U

-----------------------------------------------------------------------------
(* HW2's calculators. *)

\* The counts and their largest.
LEMMA LargestCount ==
  ASSUME Stream!CountsAssumption
  PROVE  /\ Counts \subseteq Nat /\ Stream!Largest \in Counts
         /\ Stream!Largest \in Nat
         /\ \A m \in Counts : m <= Stream!Largest
BY DEF Stream!CountsAssumption, Stream!Largest

\* What one read() may return: something if not all has been read that was
\* written, and nothing only of a client that has hung up.
LEMMA Reads ==
  ASSUME Stream!CountsAssumption, Stream!TypeOK, cfd \in Clients,
         NEW n \in Nat \ {0}, NEW got \in Stream!Got(n)
  PROVE  /\ got \in 0 .. n /\ got \in Nat
         /\ got > 0 => Stream!Written(cfd) > taken
         /\ got = 0 => cfd \in fin /\ ~ Stream!Written(cfd) > taken
<1>1. asked[cfd] = None \/ asked[cfd] \in Nat
  BY DEF Stream!TypeOK, Stream!CountsAssumption
<1>2. Stream!Written(cfd) \in Nat
  BY <1>1, SMT DEF Stream!Written, Stream!Hw2Size, Stream!OpSize
<1> DEFINE w == Stream!Written(cfd)
<1>3. got \in IF w - taken > 0
              THEN 1 .. (IF w - taken < n THEN w - taken ELSE n)
              ELSE IF cfd \in fin THEN {0} ELSE {}
  BY DEF Stream!Got
<1>4. taken \in Nat
  BY DEF Stream!TypeOK
<1> HIDE DEF w
<1>5. w \in Nat
  BY <1>2 DEF w
<1>6. /\ got \in 0 .. n
      /\ got > 0 => w > taken
      /\ got = 0 => cfd \in fin /\ ~ w > taken
  <2>1. CASE w - taken > 0
    BY <1>3, <1>4, <1>5, <2>1, SMT
  <2>2. CASE ~ w - taken > 0
    <3>1. got = 0 /\ cfd \in fin
      BY <1>3, <2>2
    <3> QED BY <1>4, <1>5, <2>2, <3>1, SMT
  <2> QED BY <2>1, <2>2
<1> QED BY <1>6, SMT DEF w

\* How much that is, of a request both sides agree on.
LEMMA WrittenProper ==
  ASSUME Stream!CountsAssumption, Stream!TypeOK, cfd \in Clients,
         asked[cfd] # None, Stream!Proper(asked[cfd])
  PROVE  /\ Stream!Written(cfd) \in Nat
         /\ Stream!Written(cfd) > 4 * asked[cfd] + 1
         /\ prog = "hw2" => Stream!Written(cfd) > 5 * asked[cfd]
<1>1. asked[cfd] \in Nat
  BY DEF Stream!TypeOK, Stream!CountsAssumption
<1> QED BY <1>1, SMT DEF Stream!Written, Stream!Hw2Size, Stream!OpSize,
        Stream!Proper

\* Nobody is connected.
LEMMA StreamInit ==
  ASSUME Stream!CountsAssumption, Stream!NoneAssumption, Stream!Init
  PROVE  StreamInv
<1>1. Stream!Largest \in Nat
  BY LargestCount
<1>2. Stream!TypeOK
  BY <1>1, SMT DEF Stream!Init, Stream!Start, Stream!TypeOK, Stream!Sources,
     Stream!Programs
<1> QED BY <1>2 DEF Stream!Init, Stream!Start, StreamInv, Stream!AnswerIsOwn

\* A client connects, asks or hangs up: one that has asked later than the
\* server has looked is not served.
LEMMA StreamClient ==
  ASSUME Stream!CountsAssumption, Stream!NoneAssumption, StreamInv,
         NEW c \in Clients, Stream!Client(c)
  PROVE  StreamInv'
<1>1. /\ UNCHANGED <<prog, reply, spc, cfd, opCount, operand, operator, taken,
                     i, used, torn>>
      /\ fin \subseteq fin'
      /\ \/ UNCHANGED asked
         \/ \E n \in Counts : /\ asked[c] = None /\ c \notin fin
                              /\ asked' = [asked EXCEPT ![c] = n]
  BY DEF Stream!Client, Stream!Connect, Stream!HangUp, Stream!Ask,
     Stream!clients, Stream!server, Stream!request
<1>2. Stream!TypeOK'
  <2>1. backlog' \in Seq(Clients)
    <3>1. backlog' = backlog \/ backlog' = Append(backlog, c)
      BY DEF Stream!Client, Stream!Connect, Stream!HangUp, Stream!Ask
    <3>2. backlog \in Seq(Clients)
      BY DEF StreamInv, Stream!TypeOK
    <3> QED BY <3>1, <3>2, SMT
  <2>2. fin' \subseteq Clients
    <3>1. fin' = fin \/ fin' = fin \cup {c}
      BY DEF Stream!Client, Stream!Connect, Stream!HangUp, Stream!Ask,
         Stream!clients
    <3> QED BY <3>1 DEF StreamInv, Stream!TypeOK
  <2>3. asked' \in [Clients -> Counts \cup {None}]
    BY <1>1 DEF StreamInv, Stream!TypeOK
  <2> QED BY <1>1, <2>1, <2>2, <2>3 DEF StreamInv, Stream!TypeOK, Stream!Sources
<1>3. \A d \in Clients :
        asked'[d] = asked[d] \/ (asked[d] = None /\ d \notin fin /\ asked'[d] # None)
  <2>1. asked \in [Clients -> Counts \cup {None}] /\ None \notin Counts
    BY DEF StreamInv, Stream!TypeOK, Stream!NoneAssumption,
       Stream!CountsAssumption
  <2> QED BY <1>1, <2>1
<1>4. \A d \in Clients : reply'[d] # None /\ asked'[d] = None => d \in fin'
  BY <1>1, <1>3 DEF StreamInv
<1>5. \A d \in Clients : reply[d] # None => asked'[d] = asked[d]
  BY <1>3 DEF StreamInv
<1>6. Stream!AnswerIsOwn'
  BY <1>1, <1>5 DEF StreamInv, Stream!AnswerIsOwn, Stream!Proper
<1>7. cfd # None /\ spc # "count" => cfd \in Clients /\ asked'[cfd] = asked[cfd]
  <2>1. cfd # None => cfd \in Clients
    BY DEF StreamInv, Stream!TypeOK
  <2> QED BY <1>3, <2>1 DEF StreamInv
<1>8. (Parsed' <=> Parsed) /\ (Applied' <=> Applied)
      /\ (Stream!Proper(opCount)' <=> Stream!Proper(opCount))
  BY <1>1 DEF Parsed, Applied, Stream!Proper
<1> QED BY <1>1, <1>2, <1>4, <1>6, <1>7, <1>8 DEF StreamInv

\* The server turns to the next client.
LEMMA StreamAccept ==
  ASSUME Stream!CountsAssumption, Stream!NoneAssumption, StreamInv,
         UNCHANGED prog, Stream!accept
  PROVE  StreamInv'
<1>1. /\ spc' = "count" /\ cfd' = Head(backlog) /\ backlog # <<>>
      /\ backlog' = Tail(backlog)
      /\ taken' = 0 /\ i' = 0 /\ used' = <<>> /\ torn' = FALSE
      /\ UNCHANGED <<asked, fin, reply, opCount, operand, operator>>
  BY DEF Stream!accept, Stream!clients
<1>2. cfd' \in Clients /\ backlog' \in Seq(Clients)
  <2>1. backlog \in Seq(Clients)
    BY DEF StreamInv, Stream!TypeOK
  <2> QED BY <1>1, <2>1, SMT
<1>3. cfd' # None
  BY <1>2 DEF Stream!NoneAssumption
<1>4. 0 \in 0 .. Stream!Largest
  BY LargestCount, SMT
<1>5. Stream!TypeOK'
  <2>1. used' \in Seq(Stream!Sources) /\ taken' \in Nat
    BY <1>1
  <2>2. i' \in 0 .. Stream!Largest /\ torn' \in BOOLEAN
    BY <1>1, <1>4
  <2>3. (cfd' = None) = (spc' \in {"accept", "ended"})
    BY <1>1, <1>3
  <2>4. Stream!Sources' = Stream!Sources
    BY DEF Stream!Sources
  <2> QED BY <1>1, <1>2, <2>1, <2>2, <2>3, <2>4 DEF StreamInv, Stream!TypeOK
<1>6. Stream!AnswerIsOwn'
  BY <1>1 DEF StreamInv, Stream!AnswerIsOwn, Stream!Proper
<1> QED BY <1>1, <1>5, <1>6 DEF StreamInv

\* The server ends, or goes on with the count it has read; of a client that
\* has hung up it keeps the one before.
LEMMA StreamCount ==
  ASSUME Stream!CountsAssumption, Stream!NoneAssumption, StreamInv,
         UNCHANGED prog, Stream!ReadCount
  PROVE  StreamInv'
<1>1. PICK got \in Stream!Got(1) :
        /\ taken' = taken + got
        /\ opCount' = IF got = 0 THEN opCount ELSE asked[cfd]
  BY DEF Stream!ReadCount
<1>2. /\ spc = "count" /\ UNCHANGED <<backlog, asked, fin, reply, operand,
                                     operator, i, used, torn>>
      /\ IF prog = "hw2" /\ opCount' = 0
         THEN spc' = "ended" /\ cfd' = None
         ELSE spc' = (IF opCount' = 0 THEN "operator" ELSE "operand")
              /\ cfd' = cfd
  BY DEF Stream!ReadCount, Stream!clients
<1>3. /\ cfd \in Clients /\ cfd # None /\ taken = 0 /\ i = 0 /\ used = <<>>
      /\ asked[cfd] \in Counts \cup {None} /\ opCount \in Counts
      /\ None \notin Counts
  BY <1>2 DEF StreamInv, Stream!TypeOK, Stream!NoneAssumption,
     Stream!CountsAssumption
<1>4. /\ got \in 0 .. 1 /\ (got > 0 => Stream!Written(cfd) > taken)
      /\ got = 0 => cfd \in fin /\ ~ Stream!Written(cfd) > taken
  <2>1. 1 \in Nat \ {0}
    BY SMT
  <2> QED BY <1>3, <2>1, Reads DEF StreamInv
<1>5. asked[cfd] = None <=> got = 0
  <2>1. asked[cfd] = None => ~ Stream!Written(cfd) > 0
    BY SMT DEF Stream!Written
  <2>2. asked[cfd] # None => Stream!Written(cfd) > 0
    <3>1. asked[cfd] # None => asked[cfd] \in Nat
      BY <1>3 DEF Stream!CountsAssumption
    <3> QED BY <3>1, SMT DEF Stream!Written, Stream!Hw2Size, Stream!OpSize
  <2>3. got > 0 \/ got = 0
    BY <1>4, SMT
  <2> QED BY <1>3, <1>4, <2>1, <2>2, <2>3
<1>6. opCount' \in Counts /\ (asked[cfd] # None => opCount' = asked[cfd])
  BY <1>1, <1>3, <1>5
<1>7. taken' \in Nat /\ (got # 0 => taken' = 1)
  BY <1>1, <1>3, <1>4, SMT
<1>8. Stream!TypeOK'
  <2>1. cfd' \in Clients \cup {None}
        /\ ((cfd' = None) <=> spc' \in {"accept", "ended"})
        /\ spc' \in {"accept", "count", "operand", "operator", "apply", "ended"}
    BY <1>2, <1>3
  <2> QED BY <1>2, <1>6, <1>7, <2>1 DEF StreamInv, Stream!TypeOK, Stream!Sources
<1>9. Stream!AnswerIsOwn'
  BY <1>2 DEF StreamInv, Stream!AnswerIsOwn, Stream!Proper
<1>10. ASSUME cfd' # None, asked[cfd] # None, Stream!Proper(opCount)'
       PROVE  Parsed' /\ spc' # "apply"
  <2>1. opCount' \in Nat
    BY <1>6 DEF Stream!CountsAssumption
  <2>2. opCount' > 0
    BY <1>10, <2>1, SMT DEF Stream!Proper
  <2>3. spc' = "operand" /\ taken' = 1
    BY <1>2, <1>5, <1>7, <1>10, <2>1, <2>2, SMT
  <2>4. \A k \in 0 .. opCount' - 1 : ~ k < 0
    BY <2>1, SMT
  <2>5. 4 * 0 + 1 = 1
    BY SMT
  <2> QED BY <1>2, <1>3, <2>2, <2>3, <2>4, <2>5 DEF Parsed
<1> QED BY <1>2, <1>3, <1>4, <1>5, <1>6, <1>8, <1>9, <1>10 DEF StreamInv

\* The server reads an operand: the next four bytes, unless TCP has cut them.
LEMMA StreamOperand ==
  ASSUME Stream!CountsAssumption, Stream!NoneAssumption, StreamInv,
         UNCHANGED prog, Stream!ReadOperand
  PROVE  StreamInv'
<1>1. PICK got \in Stream!Got(4) :
        /\ operand' = [operand EXCEPT ![i] = IF got = 0 THEN operand[i]
                                             ELSE <<cfd, taken>>]
        /\ torn' = (torn \/ got \in 1 .. 3)
        /\ taken' = taken + got
  BY DEF Stream!ReadOperand
<1>2. /\ spc = "operand"
      /\ UNCHANGED <<backlog, asked, fin, reply, cfd, opCount, operator, used>>
      /\ IF i + 1 < opCount THEN i' = i + 1 /\ spc' = spc
                            ELSE i' = 0 /\ spc' = "operator"
  BY DEF Stream!ReadOperand, Stream!clients
<1>3. /\ cfd \in Clients /\ cfd # None /\ opCount \in Nat
      /\ opCount <= Stream!Largest /\ Stream!Largest \in Nat
      /\ taken \in Nat /\ i \in Nat /\ i \in 0 .. Stream!Largest
      /\ operand \in [0 .. Stream!Largest -> Stream!Sources]
  BY <1>2, LargestCount, SMT DEF StreamInv, Stream!TypeOK
<1>4. /\ got \in 0 .. 4 /\ got \in Nat
      /\ (got = 0 => ~ Stream!Written(cfd) > taken)
  <2>1. 4 \in Nat \ {0}
    BY SMT
  <2> QED BY <1>3, <2>1, Reads DEF StreamInv
<1>5. Stream!TypeOK'
  <2>1. <<cfd, taken>> \in Stream!Sources /\ taken' \in Nat
    BY <1>1, <1>3, <1>4, SMT DEF Stream!Sources
  <2>2. operand' \in [0 .. Stream!Largest -> Stream!Sources]
    BY <1>1, <1>3, <2>1
  <2>3. i' \in 0 .. Stream!Largest
    BY <1>2, <1>3, SMT
  <2>4. torn' \in BOOLEAN
    BY <1>1
  <2>5. spc' \in {"operand", "operator"}
    BY <1>2
  <2> QED BY <1>2, <1>3, <2>1, <2>2, <2>3, <2>4, <2>5
          DEF StreamInv, Stream!TypeOK, Stream!Sources
<1>6. Stream!AnswerIsOwn'
  BY <1>2 DEF StreamInv, Stream!AnswerIsOwn, Stream!Proper
<1>7. spc' # "count" /\ spc' # "apply"
  BY <1>2
<1>8. ASSUME asked[cfd] # None, ~ torn', Stream!Proper(opCount)
      PROVE  Parsed'
  <2>1. /\ opCount = asked[cfd] /\ Parsed
    BY <1>1, <1>2, <1>3, <1>8 DEF StreamInv
  <2>2. /\ i < opCount /\ taken = 4 * i + 1 /\ used = <<>>
        /\ \A k \in 0 .. opCount - 1 : k < i => operand[k] = <<cfd, 4 * k + 1>>
    BY <1>2, <2>1 DEF Parsed
  <2>3. Stream!Written(cfd) \in Nat /\ Stream!Written(cfd) > 4 * opCount + 1
    BY <1>3, <1>8, <2>1, WrittenProper DEF StreamInv
  <2>4. Stream!Written(cfd) > taken
    BY <1>3, <2>2, <2>3, SMT
  <2>5. got = 4
    <3>1. got # 0 /\ got \notin 1 .. 3
      BY <1>1, <1>4, <1>8, <2>4
    <3> QED BY <1>4, <3>1, SMT
  <2>6. /\ operand'[i] = <<cfd, 4 * i + 1>>
        /\ \A k \in 0 .. opCount - 1 : k # i => operand'[k] = operand[k]
    <3>1. operand' = [operand EXCEPT ![i] = <<cfd, 4 * i + 1>>]
      BY <1>1, <2>2, <2>5
    <3>2. \A k \in 0 .. opCount - 1 : k \in 0 .. Stream!Largest
      BY <1>3, SMT
    <3> QED BY <1>3, <3>1, <3>2
  <2>7. \A k \in 0 .. opCount - 1 : k < i + 1 => operand'[k] = <<cfd, 4 * k + 1>>
    <3> SUFFICES ASSUME NEW k \in 0 .. opCount - 1, k < i + 1
                 PROVE  operand'[k] = <<cfd, 4 * k + 1>>
      OBVIOUS
    <3>1. k = i \/ k < i
      BY <1>3, SMT
    <3>2. CASE k = i
      BY <2>6, <3>2
    <3>3. CASE k < i
      <4>1. k # i
        BY <1>3, <3>3, SMT
      <4> QED BY <2>2, <2>6, <3>3, <4>1
    <3> QED BY <3>1, <3>2, <3>3
  <2>8. taken' = 4 * (i + 1) + 1
    BY <1>1, <1>3, <2>2, <2>5, SMT
  <2>9. CASE i + 1 < opCount
    BY <1>2, <2>2, <2>7, <2>8, <2>9 DEF Parsed
  <2>10. CASE ~ (i + 1 < opCount)
    <3>1. i + 1 = opCount /\ 0 < opCount
      BY <1>3, <2>2, <2>10, SMT
    <3>2. \A k \in 0 .. opCount - 1 : k < i + 1
      BY <1>3, <3>1, SMT
    <3> QED BY <1>2, <2>2, <2>7, <2>8, <2>10, <3>1, <3>2 DEF Parsed
  <2> QED BY <2>9, <2>10
<1>9. Stream!Proper(opCount)' <=> Stream!Proper(opCount)
  BY <1>2 DEF Stream!Proper
<1> QED BY <1>1, <1>2, <1>3, <1>5, <1>6, <1>7, <1>8, <1>9 DEF StreamInv

\* It reads the first operator.
LEMMA StreamOperator ==
  ASSUME Stream!CountsAssumption, Stream!NoneAssumption, StreamInv,
         UNCHANGED prog, Stream!ReadOperator
  PROVE  StreamInv'
<1>1. PICK got \in Stream!Got(1) :
        /\ taken' = taken + got
        /\ operator' = IF got = 0 THEN operator ELSE <<cfd, taken>>
  BY DEF Stream!ReadOperator, Stream!ReadByte
<1>2. /\ spc = "operator" /\ spc' = "apply"
      /\ UNCHANGED <<backlog, asked, fin, reply, cfd, opCount, operand, i,
                     used, torn>>
  BY DEF Stream!ReadOperator, Stream!clients
<1>3. /\ cfd \in Clients /\ cfd # None /\ opCount \in Nat /\ taken \in Nat
  BY <1>2, LargestCount DEF StreamInv, Stream!TypeOK
<1>4. /\ got \in 0 .. 1 /\ got \in Nat
      /\ (got = 0 => ~ Stream!Written(cfd) > taken)
  <2>1. 1 \in Nat \ {0}
    BY SMT
  <2> QED BY <1>3, <2>1, Reads DEF StreamInv
<1>5. Stream!TypeOK'
  <2>1. <<cfd, taken>> \in Stream!Sources /\ taken' \in Nat
    BY <1>1, <1>3, <1>4, SMT DEF Stream!Sources
  <2>2. operator' \in Stream!Sources
    BY <1>1, <2>1 DEF StreamInv, Stream!TypeOK
  <2> QED BY <1>2, <1>3, <2>1, <2>2 DEF StreamInv, Stream!TypeOK, Stream!Sources
<1>6. Stream!AnswerIsOwn'
  BY <1>2 DEF StreamInv, Stream!AnswerIsOwn, Stream!Proper
<1>7. ASSUME asked[cfd] # None, ~ torn, Stream!Proper(opCount)
      PROVE  Parsed' /\ Applied'
  <2>1. opCount = asked[cfd] /\ Parsed
    BY <1>2, <1>3, <1>7 DEF StreamInv
  <2>2. /\ i = 0 /\ i < opCount /\ taken = 4 * opCount + 1 /\ used = <<>>
        /\ \A k \in 0 .. opCount - 1 : operand[k] = <<cfd, 4 * k + 1>>
    BY <1>2, <2>1 DEF Parsed
  <2>3. Stream!Written(cfd) > 4 * opCount + 1
    BY <1>3, <1>7, <2>1, WrittenProper DEF StreamInv
  <2>4. got = 1
    <3>1. got # 0
      BY <1>4, <2>2, <2>3
    <3> QED BY <1>4, <3>1, SMT
  <2>5. taken' = 4 * opCount + 1 + 0 + 1 /\ operator' = <<cfd, 4 * opCount + 1>>
        /\ 4 * opCount + 1 + 0 = 4 * opCount + 1
    BY <1>1, <1>3, <2>2, <2>4, SMT
  <2>6. Parsed'
    BY <1>2, <2>2 DEF Parsed
  <2>7. Len(used) = 0 /\ 1 .. 0 = {}
    BY <2>2, SMT
  <2>8. Applied'
    BY <1>2, <2>2, <2>5, <2>7 DEF Applied
  <2> QED BY <2>6, <2>8
<1>8. Stream!Proper(opCount)' <=> Stream!Proper(opCount)
  BY <1>2 DEF Stream!Proper
<1> QED BY <1>2, <1>3, <1>5, <1>6, <1>7, <1>8 DEF StreamInv

\* It applies an operator; hw2_server.c then reads the next one.
LEMMA StreamApply ==
  ASSUME Stream!CountsAssumption, Stream!NoneAssumption, StreamInv,
         UNCHANGED prog, Stream!Apply
  PROVE  StreamInv'
<1>1. /\ spc = "apply" /\ i + 1 < opCount /\ i' = i + 1
      /\ used' = Append(used, operator)
      /\ UNCHANGED <<backlog, asked, fin, reply, spc, cfd, opCount, operand,
                     torn>>
  BY DEF Stream!Apply, Stream!clients, Stream!Hw2Apply, Stream!OpApply
<1>2. PICK got \in Nat :
        /\ prog = "hw2" => got \in Stream!Got(1)
        /\ prog # "hw2" => got = 0
        /\ taken' = taken + got
        /\ operator' = IF got = 0 THEN operator ELSE <<cfd, taken>>
  <2>1. CASE prog = "hw2"
    <3>1. PICK got \in Stream!Got(1) :
            /\ taken' = taken + got
            /\ operator' = IF got = 0 THEN operator ELSE <<cfd, taken>>
      BY <2>1 DEF Stream!Apply, Stream!Hw2Apply, Stream!ReadByte
    <3>2. cfd \in Clients /\ 1 \in Nat \ {0}
      BY <1>1, SMT DEF StreamInv, Stream!TypeOK
    <3>3. got \in Nat
      BY <3>2, Reads DEF StreamInv
    <3> QED BY <2>1, <3>1, <3>3
  <2>2. CASE prog # "hw2"
    <3>1. taken' = taken /\ operator' = operator
      BY <2>2 DEF Stream!Apply, Stream!OpApply
    <3>2. taken \in Nat
      BY DEF StreamInv, Stream!TypeOK
    <3>3. taken' = taken + 0
      BY <3>1, <3>2, SMT
    <3> QED BY <2>2, <3>1, <3>3
  <2> QED BY <2>1, <2>2
<1>3. /\ cfd \in Clients /\ cfd # None /\ opCount \in Nat /\ taken \in Nat
      /\ opCount <= Stream!Largest /\ Stream!Largest \in Nat /\ i \in Nat
      /\ used \in Seq(Stream!Sources) /\ operator \in Stream!Sources
  BY <1>1, LargestCount, SMT DEF StreamInv, Stream!TypeOK
<1>4. prog = "hw2" => /\ got \in 0 .. 1
                      /\ (got = 0 => ~ Stream!Written(cfd) > taken)
  <2>1. 1 \in Nat \ {0}
    BY SMT
  <2> QED BY <1>2, <1>3, <2>1, Reads DEF StreamInv
<1>5. /\ used' \in Seq(Stream!Sources) /\ Len(used') = Len(used) + 1
      /\ Len(used) \in Nat
      /\ used'[Len(used) + 1] = operator
      /\ \A k \in 1 .. Len(used) : used'[k] = used[k]
  <2> SUFFICES ASSUME NEW S, used \in Seq(S), operator \in S
               PROVE  /\ used' \in Seq(S) /\ Len(used') = Len(used) + 1
                      /\ Len(used) \in Nat
                      /\ used'[Len(used) + 1] = operator
                      /\ \A k \in 1 .. Len(used) : used'[k] = used[k]
    BY <1>3
  <2> QED BY <1>1, SMT
<1>6. Stream!TypeOK'
  <2>1. <<cfd, taken>> \in Stream!Sources /\ taken' \in Nat
    BY <1>2, <1>3, SMT DEF Stream!Sources
  <2>2. operator' \in Stream!Sources
    BY <1>2, <1>3, <2>1
  <2>3. i' \in 0 .. Stream!Largest
    BY <1>1, <1>3, SMT
  <2>4. Stream!Sources' = Stream!Sources
    BY DEF Stream!Sources
  <2> QED BY <1>1, <1>3, <1>5, <2>1, <2>2, <2>3, <2>4 DEF StreamInv, Stream!TypeOK
<1>7. Stream!AnswerIsOwn'
  BY <1>1 DEF StreamInv, Stream!AnswerIsOwn, Stream!Proper
<1>8. ASSUME asked[cfd] # None, ~ torn, Stream!Proper(opCount)
      PROVE  Parsed' /\ Applied'
  <2> DEFINE first == 4 * opCount + 1
  <2>1. opCount = asked[cfd] /\ Parsed /\ Applied
    BY <1>1, <1>3, <1>8 DEF StreamInv
  <2>2. /\ operator = <<cfd, IF prog # "hw2" THEN first ELSE first + i>>
        /\ prog = "hw2" => taken = first + i + 1
        /\ Len(used) = i
        /\ \A k \in 1 .. i :
             used[k] = <<cfd, IF prog # "hw2" THEN first ELSE first + k - 1>>
    BY <2>1 DEF Applied
  <2>3. Parsed'
    BY <1>1, <2>1 DEF Parsed
  <2>4. Stream!Written(cfd) \in Nat
        /\ (prog = "hw2" => Stream!Written(cfd) > 5 * opCount)
    BY <1>3, <1>8, <2>1, WrittenProper DEF StreamInv
  <2>5. prog = "hw2" => got = 1
    <3> SUFFICES ASSUME prog = "hw2" PROVE got = 1
      OBVIOUS
    <3>1. Stream!Written(cfd) > taken
      <4>1. taken = 4 * opCount + 1 + i + 1 /\ Stream!Written(cfd) > 5 * opCount
        BY <2>2, <2>4
      <4> QED BY <1>1, <1>3, <2>4, <4>1, SMT
    <3> QED BY <1>4, <3>1, SMT
  <2>6. operator' = <<cfd, IF prog # "hw2" THEN first ELSE first + (i + 1)>>
    <3>1. CASE prog = "hw2"
      <4>1. operator' = <<cfd, taken>>
        BY <1>2, <2>5, <3>1
      <4>2. taken = first + (i + 1)
        BY <1>3, <2>2, <3>1, SMT
      <4> QED BY <3>1, <4>1, <4>2
    <3>2. CASE prog # "hw2"
      BY <1>2, <2>2, <3>2
    <3> QED BY <3>1, <3>2
  <2>7. prog = "hw2" => taken' = first + (i + 1) + 1
    BY <1>2, <1>3, <2>2, <2>5, SMT
  <2>8. \A k \in 1 .. i + 1 :
          used'[k] = <<cfd, IF prog # "hw2" THEN first ELSE first + k - 1>>
    <3> TAKE k \in 1 .. i + 1
    <3>1. CASE k = i + 1
      <4>1. first + k - 1 = first + i
        BY <1>3, <3>1, SMT
      <4> QED BY <1>5, <2>2, <3>1, <4>1
    <3>2. CASE k # i + 1
      <4>1. k \in 1 .. i
        BY <1>3, <3>2, SMT
      <4> QED BY <1>5, <2>2, <4>1
    <3> QED BY <3>1, <3>2
  <2>9. Len(used') = i + 1
    BY <1>5, <2>2
  <2>10. Applied'
    BY <1>1, <2>6, <2>7, <2>8, <2>9 DEF Applied
  <2> QED BY <2>3, <2>10
<1>9. Stream!Proper(opCount)' <=> Stream!Proper(opCount)
  BY <1>1 DEF Stream!Proper
<1> QED BY <1>1, <1>3, <1>6, <1>7, <1>8, <1>9 DEF StreamInv

\* The result: of a request that was not torn, the client's own.
LEMMA StreamAnswer ==
  ASSUME Stream!CountsAssumption, Stream!NoneAssumption, StreamInv,
         UNCHANGED prog, Stream!Answer
  PROVE  StreamInv'
<1> DEFINE result == [operands |-> [n \in 0 .. i |-> operand[n]],
                      operators |-> used, torn |-> torn]
<1>1. /\ spc = "apply" /\ i + 1 >= opCount
      /\ reply' = [reply EXCEPT ![cfd] = result]
      /\ cfd' = None /\ spc' \in {"accept", "ended"}
      /\ UNCHANGED <<backlog, asked, fin, opCount, operand, operator, taken, i,
                     used, torn>>
  BY DEF Stream!Answer, Stream!clients, Stream!request
<1>2. /\ cfd \in Clients /\ cfd # None /\ opCount \in Nat /\ i \in Nat
      /\ used \in Seq(Stream!Sources) /\ DOMAIN reply = Clients
  BY <1>1, LargestCount, SMT DEF StreamInv, Stream!TypeOK
<1>3. Stream!TypeOK' /\ DOMAIN reply' = Clients
  BY <1>1, <1>2 DEF StreamInv, Stream!TypeOK, Stream!Sources
<1>4. /\ reply'[cfd] = result
      /\ \A c \in Clients : c # cfd => reply'[c] = reply[c]
  BY <1>1, <1>2
<1>5. result.operands = [n \in 0 .. i |-> operand[n]]
      /\ result.operators = used /\ result.torn = torn
  OBVIOUS
<1> HIDE DEF result
<1>6. ASSUME NEW c \in Clients, reply'[c] # None, asked[c] = None
      PROVE  c \in fin
  BY <1>1, <1>2, <1>4, <1>6 DEF StreamInv
<1>7. ASSUME asked[cfd] # None, Stream!Proper(asked[cfd]), ~ torn
      PROVE  /\ [n \in 0 .. i |-> operand[n]] =
                  [k \in 0 .. asked[cfd] - 1 |-> <<cfd, k * 4 + 1>>]
             /\ used = [k \in 1 .. asked[cfd] - 1 |->
                          <<cfd, asked[cfd] * 4 + 1
                                   + (IF prog = "hw2" THEN k - 1 ELSE 0)>>]
  <2>1. opCount = asked[cfd] /\ Parsed /\ Applied
    BY <1>1, <1>2, <1>7 DEF StreamInv
  <2>2. /\ i < opCount /\ Len(used) = i
        /\ \A k \in 0 .. opCount - 1 : operand[k] = <<cfd, 4 * k + 1>>
        /\ \A k \in 1 .. i : used[k] = <<cfd, IF prog # "hw2" THEN 4 * opCount + 1
                                              ELSE 4 * opCount + 1 + k - 1>>
    BY <1>1, <2>1 DEF Parsed, Applied
  <2>3. i = opCount - 1
    BY <1>1, <1>2, <2>2, SMT
  <2>4. ASSUME NEW k \in 0 .. opCount - 1
        PROVE  operand[k] = <<cfd, k * 4 + 1>>
    <3>1. 4 * k = k * 4
      BY SMT
    <3> QED BY <2>2, <3>1
  <2>5. ASSUME NEW k \in 1 .. opCount - 1
        PROVE  used[k] = <<cfd, opCount * 4 + 1
                                  + (IF prog = "hw2" THEN k - 1 ELSE 0)>>
    <3>1. /\ 4 * opCount + 1 = opCount * 4 + 1 + 0
          /\ 4 * opCount + 1 + k - 1 = opCount * 4 + 1 + (k - 1)
      BY <1>2, SMT
    <3> QED BY <2>2, <2>3, <3>1
  <2>6. used = [k \in 1 .. i |-> used[k]]
    <3> SUFFICES ASSUME NEW S, used \in Seq(S), Len(used) = i
                 PROVE  used = [k \in 1 .. i |-> used[k]]
      BY <1>2, <2>2
    <3> QED BY SMT
  <2> QED BY <2>1, <2>3, <2>4, <2>5, <2>6
<1>8. Stream!AnswerIsOwn'
  <2> SUFFICES ASSUME NEW c \in Clients, reply'[c] # None, asked'[c] # None,
                      Stream!Proper(asked[c]), ~ reply'[c].torn
               PROVE  /\ reply'[c].operands =
                           [k \in 0 .. asked[c] - 1 |-> <<c, k * 4 + 1>>]
                      /\ reply'[c].operators =
                           [k \in 1 .. asked[c] - 1 |->
                              <<c, asked[c] * 4 + 1
                                     + (IF prog = "hw2" THEN k - 1 ELSE 0)>>]
    BY <1>1 DEF Stream!AnswerIsOwn, Stream!Proper
  <2>1. CASE c = cfd
    BY <1>1, <1>4, <1>5, <1>7, <2>1
  <2>2. CASE c # cfd
    BY <1>1, <1>4, <2>2 DEF StreamInv, Stream!AnswerIsOwn
  <2> QED BY <2>1, <2>2
<1> QED BY <1>1, <1>3, <1>6, <1>8 DEF StreamInv

\* No step of the server or of a client breaks the invariant.
LEMMA StreamPreserves ==
  ASSUME Stream!CountsAssumption, Stream!NoneAssumption, StreamInv,
         [Stream!Next]_(Stream!vars)
  PROVE  StreamInv'
<1>1. CASE Stream!Finished \/ UNCHANGED Stream!vars
  <2>1. UNCHANGED <<prog, backlog, asked, fin, reply, spc, cfd, opCount,
                    operand, operator, taken, i, used, torn>>
    BY <1>1 DEF Stream!Finished, Stream!vars, Stream!clients, Stream!server,
       Stream!request
  <2>2. Stream!TypeOK'
    BY <2>1 DEF StreamInv, Stream!TypeOK, Stream!Sources
  <2>3. Stream!AnswerIsOwn'
    BY <2>1 DEF StreamInv, Stream!AnswerIsOwn, Stream!Proper
  <2>4. (Parsed' <=> Parsed) /\ (Applied' <=> Applied)
        /\ (Stream!Proper(opCount)' <=> Stream!Proper(opCount))
    BY <2>1 DEF Parsed, Applied, Stream!Proper
  <2> QED BY <2>1, <2>2, <2>3, <2>4 DEF StreamInv
<1>2. CASE Stream!Server
  BY <1>2, StreamAccept, StreamCount, StreamOperand, StreamOperator,
     StreamApply, StreamAnswer DEF Stream!Server
<1>3. CASE \E c \in Clients : Stream!Client(c)
  BY <1>3, StreamClient
<1> QED BY <1>1, <1>2, <1>3 DEF Stream!Next

-----------------------------------------------------------------------------
(* test_serv.c's calculate(). *)

\* Nobody has asked for a calculation yet.
LEMMA CalcInit ==
  ASSUME Calc!CountsAssumption, Calc!Init
  PROVE  CalcInv
BY SMT DEF Calc!Init, Calc!CountsAssumption, CalcInv, Calc!TypeOK, Calc!Places,
   InOrder, Counted, Place, Calc!Busy, Calc!Need

\* A calculation asks for at least one token.
LEMMA CalcNeed ==
  ASSUME Calc!CountsAssumption, Calc!TypeOK, NEW h \in Handlers
  PROVE  Calc!Need(h) \in Nat \ {0}
<1>1. count[h] \in Int
  <2>1. count[h] \in Operands \cup {0}
    BY DEF Calc!TypeOK
  <2>2. Operands \subseteq Int
    BY DEF Calc!CountsAssumption
  <2>3. CASE count[h] = 0
    BY <2>3, SMT
  <2> QED BY <2>1, <2>2, <2>3
<1> QED BY <1>1, SMT DEF Calc!Need, Calc!Asks

\* A calculation begins: it is undisturbed if no other one is under way.
LEMMA CalcBegin ==
  ASSUME Calc!CountsAssumption, CalcInv, NEW h \in Handlers, Calc!Begin(h)
  PROVE  CalcInv'
<1>1. PICK n \in Operands :
        \E len \in 0 .. Calc!Asks(n) + 1 :
          /\ count' = [count EXCEPT ![h] = n]
          /\ tokens' = [tokens EXCEPT ![h] = len]
  BY Zenon DEF Calc!Begin
<1>2. PICK len \in 0 .. Calc!Asks(n) + 1 :
          /\ count' = [count EXCEPT ![h] = n]
          /\ tokens' = [tokens EXCEPT ![h] = len]
  BY <1>1
<1>3. n \in Int /\ len \in Nat
  BY SMT DEF Calc!CountsAssumption, Calc!Asks
<1>4. /\ n \in Int /\ len \in Nat
      /\ ~ Calc!Busy(h) /\ calcs[h] < CalcMax
      /\ calcs' = [calcs EXCEPT ![h] = @ + 1]
      /\ count' = [count EXCEPT ![h] = n]
      /\ tokens' = [tokens EXCEPT ![h] = len]
      /\ cut' = [cut EXCEPT ![h] = {}]
      /\ given' = [given EXCEPT ![h] = <<>>]
      /\ at' = [at EXCEPT ![h] = "load"]
      /\ UNCHANGED <<olds, ptr>>
  BY <1>2, <1>3 DEF Calc!Begin
<1>5. \E others \in SUBSET Handlers :
        /\ others = {g \in Handlers \ {h} : Calc!Busy(g)}
        /\ mixed' = IF others = {} THEN mixed \ {h} ELSE mixed \cup others \cup {h}
  BY DEF Calc!Begin
<1>6. Calc!TypeOK'
  BY <1>4, <1>5, SMT DEF CalcInv, Calc!TypeOK, Calc!CountsAssumption
<1>7. /\ \A g \in Handlers : g # h /\ Calc!Busy(g) => g \in mixed' /\ h \in mixed'
      /\ \A g \in Handlers : g # h /\ g \in mixed => g \in mixed'
  BY <1>5
<1>8. \A g \in Handlers : g # h =>
        /\ at'[g] = at[g] /\ given'[g] = given[g] /\ tokens'[g] = tokens[g]
        /\ cut'[g] = cut[g] /\ count'[g] = count[g] /\ ptr'[g] = ptr[g]
  BY <1>4, SMT DEF CalcInv, Calc!TypeOK
<1>9. /\ at'[h] = "load" /\ given'[h] = <<>> /\ tokens'[h] = len
      /\ cut'[h] = {} /\ count'[h] = n
  BY <1>4, SMT DEF CalcInv, Calc!TypeOK
<1>10. ASSUME NEW g \in Handlers, g # h, InOrder(g), g \notin mixed'
      PROVE  InOrder(g)'
  BY <1>4, <1>8, <1>10 DEF InOrder, Place, Calc!Busy, Calc!Need
<1>11. InOrder(h)' /\ Counted(h)'
  <2>1. Len(given'[h]) = 0 /\ 1 .. Len(given'[h]) = {}
    BY <1>9, SMT
  <2>2. 0 < Calc!Need(h)'
    BY <1>4, <1>9, SMT DEF Calc!Need, Calc!Asks
  <2>3. Len(given'[h]) <= tokens'[h]
    BY <1>4, <1>9, <2>1, SMT
  <2> QED BY <1>9, <2>1, <2>2, <2>3 DEF InOrder, Counted
<1>12. \A g \in Handlers : g # h => (Calc!Busy(g)' <=> Calc!Busy(g))
  BY <1>8 DEF Calc!Busy
<1>13. ASSUME NEW f \in Handlers, NEW g \in Handlers, f # g,
              Calc!Busy(f)', Calc!Busy(g)'
       PROVE  g \in mixed'
  BY <1>7, <1>12, <1>13 DEF CalcInv
<1>14. ASSUME NEW g \in Handlers
       PROVE  /\ given'[g] # <<>> => given'[g][1] = <<g, 1>> /\ olds' # None
              /\ at'[g] = "store" => ptr'[g] # None
              /\ at'[g] = "store" /\ given'[g] = <<>> => ptr'[g] = <<g, 1>>
              /\ Counted(g)'
              /\ g \notin mixed' => InOrder(g)'
  <2>1. CASE g = h
    BY <1>9, <1>11, <2>1
  <2>2. CASE g # h
    <3>1. g \notin mixed' => g \notin mixed
      BY <1>7, <2>2
    <3>2. Counted(g)'
      BY <1>8, <2>2 DEF CalcInv, Counted, Calc!Busy, Calc!Need
    <3> QED BY <1>4, <1>8, <1>10, <2>2, <3>1, <3>2 DEF CalcInv
  <2> QED BY <2>1, <2>2
<1> QED BY <1>6, <1>13, <1>14 DEF CalcInv

\* strtok() has loaded its pointer.
LEMMA CalcLoad ==
  ASSUME Calc!CountsAssumption, Calc!NoneAssumption, CalcInv,
         NEW h \in Handlers, Calc!Load(h)
  PROVE  CalcInv'
<1>1. /\ at[h] = "load" /\ at' = [at EXCEPT ![h] = "store"]
      /\ ptr' = [ptr EXCEPT ![h] = IF given[h] = <<>> THEN <<h, 1>> ELSE olds]
      /\ UNCHANGED <<calcs, count, tokens, cut, olds, given, mixed>>
  BY DEF Calc!Load, Calc!string
<1>2. Calc!TypeOK'
  <2>1. <<h, 1>> \in Calc!Places
    BY SMT DEF Calc!Places
  <2>2. /\ ptr' \in [Handlers -> Calc!Places]
        /\ at' \in [Handlers -> {"idle", "load", "store", "result", "null",
                                "bad"}]
    BY <1>1, <2>1 DEF CalcInv, Calc!TypeOK
  <2> QED BY <1>1, <2>2 DEF CalcInv, Calc!TypeOK, Calc!Places
<1>3. \A g \in Handlers : g # h => at'[g] = at[g] /\ ptr'[g] = ptr[g]
  BY <1>1, SMT DEF CalcInv, Calc!TypeOK
<1>4. /\ at'[h] = "store"
      /\ ptr'[h] = IF given[h] = <<>> THEN <<h, 1>> ELSE olds
  BY <1>1, SMT DEF CalcInv, Calc!TypeOK
<1>5. \A g \in Handlers : Calc!Busy(g)' <=> Calc!Busy(g)
  BY <1>1, <1>3, <1>4 DEF Calc!Busy
<1>6. <<h, 1>> # None
  BY SMT DEF Calc!NoneAssumption
<1>7. ASSUME h \notin mixed PROVE InOrder(h)'
  <2>1. InOrder(h) /\ Calc!Busy(h)
    BY <1>1, <1>7 DEF CalcInv, Calc!Busy
  <2>2. ptr'[h] = Place(h)
    <3>1. CASE given[h] = <<>>
      BY <1>4, <3>1, SMT DEF Place
    <3>2. CASE given[h] # <<>>
      BY <1>1, <1>4, <2>1, <3>2 DEF InOrder
    <3> QED BY <3>1, <3>2
  <2>3. Place(h)' = Place(h)
    BY <1>1 DEF Place
  <2> QED BY <1>1, <1>4, <1>5, <2>1, <2>2, <2>3 DEF InOrder, Calc!Need
<1>8. ASSUME NEW g \in Handlers, g # h, InOrder(g) PROVE InOrder(g)'
  BY <1>1, <1>3, <1>8 DEF InOrder, Place, Calc!Busy, Calc!Need
<1>9. ASSUME NEW g \in Handlers
      PROVE  /\ given'[g] # <<>> => given'[g][1] = <<g, 1>> /\ olds' # None
             /\ at'[g] = "store" => ptr'[g] # None
             /\ at'[g] = "store" /\ given'[g] = <<>> => ptr'[g] = <<g, 1>>
             /\ Counted(g)'
             /\ g \notin mixed' => InOrder(g)'
  <2>1. Counted(g)'
    BY <1>1, <1>3, <1>4 DEF CalcInv, Counted, Calc!Busy, Calc!Need
  <2> QED BY <1>1, <1>3, <1>4, <1>6, <1>7, <1>8, <2>1 DEF CalcInv
<1>10. \A f, g \in Handlers :
         f # g /\ Calc!Busy(f)' /\ Calc!Busy(g)' => g \in mixed'
  BY <1>1, <1>5 DEF CalcInv
<1> QED BY <1>2, <1>9, <1>10 DEF CalcInv

\* A sequence with one element more, and two sequences of numbers joined: the
\* library's facts, with every set and sequence a name of its own.
LEMMA Appended ==
  ASSUME NEW S, NEW q \in Seq(S), NEW e \in S
  PROVE  /\ Append(q, e) \in Seq(S)
         /\ Append(q, e) # <<>>
         /\ Len(Append(q, e)) = Len(q) + 1
         /\ \A k \in 1 .. Len(q) : Append(q, e)[k] = q[k]
         /\ Append(q, e)[Len(q) + 1] = e
  BY AppendProperties

\* The same of two sequences joined.
LEMMA JoinedNumbers ==
  ASSUME NEW p \in Seq(Nat), NEW q \in Seq(Nat)
  PROVE  /\ p \o q \in Seq(Nat)
         /\ Len(p \o q) = Len(p) + Len(q)
         /\ \A k \in 1 .. Len(p) + Len(q) :
              (p \o q)[k] = IF k <= Len(p) THEN p[k] ELSE q[k - Len(p)]
  BY ConcatProperties

\* strtok() has found the end of the token, or of the string.
LEMMA CalcStore ==
  ASSUME Calc!CountsAssumption, Calc!NoneAssumption, CalcInv,
         NEW h \in Handlers, Calc!Store(h)
  PROVE  CalcInv'
<1>1. ptr[h] \in Handlers \X Nat /\ at[h] = "store"
  BY DEF Calc!Store, CalcInv, Calc!TypeOK, Calc!Places
<1>2. PICK s \in Handlers, n \in Nat : ptr[h] = <<s, n>>
  BY <1>1
<1> DEFINE over == n = 0 \/ n > tokens[s]
           last == n = tokens[s] \/ n \in cut[s]
<1>3. /\ olds' = IF over \/ last THEN <<s, 0>> ELSE <<s, n + 1>>
      /\ cut' = IF over \/ last THEN cut ELSE [cut EXCEPT ![s] = @ \cup {n}]
      /\ given' = IF over THEN given
                  ELSE [given EXCEPT ![h] = Append(@, <<s, n>>)]
      /\ \E next \in IF over THEN {"null"}
                    ELSE IF Len(given'[h]) < Calc!Need(h) THEN {"load"}
                    ELSE Calc!Returns(h) : at' = [at EXCEPT ![h] = next]
      /\ UNCHANGED <<calcs, count, tokens, ptr, mixed>>
  <2>1. ptr[h][1] = s /\ ptr[h][2] = n
    BY <1>2
  <2> QED BY <2>1, Zenon DEF Calc!Store, Calc!string
<1>4. /\ tokens[s] \in Nat /\ tokens[h] \in Nat
      /\ given[h] \in Seq(Calc!Places) /\ Len(given[h]) \in Nat
      /\ cut[s] \subseteq Nat /\ <<s, n>> \in Calc!Places
      /\ <<s, 0>> \in Calc!Places /\ <<s, n + 1>> \in Calc!Places
      /\ <<s, 0>> # None /\ <<s, n + 1>> # None
  <2>1. tokens[s] \in Nat /\ tokens[h] \in Nat /\ cut[s] \subseteq Nat
    BY DEF CalcInv, Calc!TypeOK
  <2>2. given[h] \in Seq(Calc!Places)
    BY DEF CalcInv, Calc!TypeOK
  <2>3. Len(given[h]) \in Nat
    BY <2>2, LenProperties
  <2>4. {<<s, n>>, <<s, 0>>, <<s, n + 1>>} \subseteq Handlers \X Nat
    BY <1>2, SMT
  <2> QED BY <2>1, <2>2, <2>3, <2>4 DEF Calc!Places, Calc!NoneAssumption
<1>5. /\ ~ over => /\ given'[h] = Append(given[h], <<s, n>>)
                   /\ Len(given'[h]) = Len(given[h]) + 1
                   /\ given'[h] # <<>>
                   /\ given'[h][Len(given[h]) + 1] = <<s, n>>
                   /\ \A k \in 1 .. Len(given[h]) : given'[h][k] = given[h][k]
                   /\ given' \in [Handlers -> Seq(Calc!Places)]
      /\ over => given' = given
  <2> HIDE DEF over
  <2>1. given \in [Handlers -> Seq(Calc!Places)]
    BY DEF CalcInv, Calc!TypeOK
  <2>2. /\ Append(given[h], <<s, n>>) \in Seq(Calc!Places)
        /\ Append(given[h], <<s, n>>) # <<>>
        /\ Len(Append(given[h], <<s, n>>)) = Len(given[h]) + 1
        /\ \A k \in 1 .. Len(given[h]) :
             Append(given[h], <<s, n>>)[k] = given[h][k]
        /\ Append(given[h], <<s, n>>)[Len(given[h]) + 1] = <<s, n>>
    <3>1. given[h] \in Seq(Calc!Places) /\ <<s, n>> \in Calc!Places
      BY <1>4
    <3> DEFINE q == given[h]
               e == <<s, n>>
    <3>2. q \in Seq(Calc!Places) /\ e \in Calc!Places
      BY <3>1
    <3> HIDE DEF q, e
    <3>3. /\ Append(q, e) \in Seq(Calc!Places)
          /\ Append(q, e) # <<>>
          /\ Len(Append(q, e)) = Len(q) + 1
          /\ \A k \in 1 .. Len(q) : Append(q, e)[k] = q[k]
          /\ Append(q, e)[Len(q) + 1] = e
      BY <3>2, Appended
    <3> QED BY <3>3 DEF q, e
  <2>3. ~ over => given' = [given EXCEPT ![h] = Append(given[h], <<s, n>>)]
    BY <1>3
  <2>4. ~ over => given'[h] = Append(given[h], <<s, n>>)
    BY <2>1, <2>3
  <2>5. ~ over => given' \in [Handlers -> Seq(Calc!Places)]
    BY <2>1, <2>2, <2>3
  <2>6. over => given' = given
    BY <1>3
  <2> QED BY <2>2, <2>4, <2>5, <2>6
<1>6. Calc!TypeOK'
  <2>1. olds' \in Calc!Places
    BY <1>3, <1>4
  <2>2. cut' \in [Handlers -> SUBSET Nat]
    BY <1>3, <1>4 DEF CalcInv, Calc!TypeOK
  <2>3. at' \in [Handlers -> {"idle", "load", "store", "result", "null", "bad"}]
    BY <1>3 DEF CalcInv, Calc!TypeOK, Calc!Returns
  <2>4. given' \in [Handlers -> Seq(Calc!Places)]
    BY <1>5 DEF CalcInv, Calc!TypeOK
  <2>5. Calc!Places' = Calc!Places
    BY DEF Calc!Places
  <2> QED BY <1>3, <2>1, <2>2, <2>3, <2>4, <2>5 DEF CalcInv, Calc!TypeOK
<1>7. \A g \in Handlers : g # h => at'[g] = at[g] /\ given'[g] = given[g]
  BY <1>3 DEF CalcInv, Calc!TypeOK
<1>8. at'[h] \in IF over THEN {"null"}
                 ELSE IF Len(given'[h]) < Calc!Need(h) THEN {"load"}
                 ELSE {"result", "bad"}
  BY <1>3 DEF CalcInv, Calc!TypeOK, Calc!Returns
<1>9. olds' # None
  BY <1>3, <1>4
<1>10. \A g \in Handlers : Calc!Busy(g)' => Calc!Busy(g)
  BY <1>1, <1>7 DEF Calc!Busy
<1>11. Calc!Need(h)' = Calc!Need(h)
  BY <1>3 DEF Calc!Need
<1>12. given'[h] # <<>> => given'[h][1] = <<h, 1>>
  <2>1. CASE over
    BY <1>5, <2>1 DEF CalcInv
  <2>2. CASE ~ over /\ given[h] # <<>>
    <3>1. 1 \in 1 .. Len(given[h])
      BY <1>4, <2>2, SMT
    <3> QED BY <1>5, <2>2, <3>1 DEF CalcInv
  <2>3. CASE ~ over /\ given[h] = <<>>
    <3>1. ptr[h] = <<h, 1>>
      BY <1>1, <2>3 DEF CalcInv
    <3>2. Len(given[h]) = 0
      BY <2>3
    <3> QED BY <1>2, <1>5, <2>3, <3>1, <3>2
  <2> QED BY <2>1, <2>2, <2>3
<1>13. ASSUME h \notin mixed PROVE InOrder(h)'
  <2>1. InOrder(h) /\ Calc!Busy(h)
    BY <1>1, <1>13 DEF CalcInv, Calc!Busy
  <2> DEFINE m == Len(given[h])
  <2>2. /\ ptr[h] = Place(h) /\ m < Calc!Need(h) /\ m \in Nat
        /\ m <= tokens[h] /\ \A k \in 1 .. m : given[h][k] = <<h, k>>
        /\ cut[h] \subseteq 1 .. m
    BY <1>1, <1>4, <2>1 DEF InOrder, CalcInv, Counted
  <2>3. /\ s = h /\ n = IF m = 0 \/ m < tokens[h] THEN m + 1 ELSE 0
    <3>1. given[h] = <<>> <=> m = 0
      BY <1>4, SMT
    <3> QED BY <1>2, <2>2, <3>1 DEF Place
  <2>4. CASE over
    <3>1. m = tokens[h]
      BY <1>4, <2>2, <2>3, <2>4, SMT
    <3> QED BY <1>3, <1>5, <1>8, <1>11, <2>2, <2>4, <3>1
            DEF InOrder, Calc!Busy
  <2>5. CASE ~ over
    <3>1. /\ n = m + 1 /\ m + 1 <= tokens[h] /\ Len(given'[h]) = m + 1
          /\ n \notin cut[s]
      BY <1>4, <1>5, <2>2, <2>3, <2>5, SMT
    <3>2. \A k \in 1 .. m + 1 : given'[h][k] = <<h, k>>
      <4> TAKE k \in 1 .. m + 1
      <4>1. CASE k = m + 1
        BY <1>5, <2>3, <2>5, <3>1, <4>1
      <4>2. CASE k # m + 1
        <5>1. k \in 1 .. m
          BY <2>2, <4>2, SMT
        <5> QED BY <1>5, <2>2, <2>5, <5>1
      <4> QED BY <4>1, <4>2
    <3>3. cut'[h] \subseteq 1 .. m + 1
      <4>1. cut'[h] = cut[h] \/ cut'[h] = cut[h] \cup {n}
        BY <1>3, <2>3 DEF CalcInv, Calc!TypeOK
      <4>2. 1 .. m \subseteq 1 .. m + 1 /\ m + 1 \in 1 .. m + 1
        BY <2>2, SMT
      <4> QED BY <2>2, <3>1, <4>1, <4>2
    <3>4. Place(h)' = olds'
      <4>1. /\ Place(h)' = IF m + 1 < tokens[h] THEN <<h, m + 2>> ELSE <<h, 0>>
        BY <1>3, <1>5, <2>2, <2>5, <3>1, SMT DEF Place
      <4>2. olds' = IF n = tokens[h] THEN <<h, 0>> ELSE <<h, m + 2>>
        BY <1>3, <2>2, <2>3, <2>5, <3>1, SMT
      <4>3. m + 1 < tokens[h] <=> n # tokens[h]
        BY <1>4, <2>2, <3>1, SMT
      <4> QED BY <4>1, <4>2, <4>3
    <3>5. at'[h] \notin {"store", "null"}
      BY <1>8, <2>5
    <3>6. Len(given'[h]) <= tokens'[h]
      BY <1>3, <3>1
    <3> QED BY <3>1, <3>2, <3>3, <3>4, <3>5, <3>6 DEF InOrder
  <2> QED BY <2>4, <2>5
<1>14. ASSUME NEW g \in Handlers, g # h, g \notin mixed PROVE InOrder(g)'
  <2>1. InOrder(g) /\ ~ Calc!Busy(g)
    BY <1>1, <1>14 DEF CalcInv, Calc!Busy
  <2>2. at[g] \notin {"load", "store"}
    BY <2>1 DEF Calc!Busy
  <2> QED BY <1>3, <1>7, <1>14, <2>1, <2>2 DEF InOrder, Calc!Busy, Calc!Need
<1>15. Counted(h)'
  <2>1. /\ Calc!Need(h) \in Nat /\ Len(given[h]) < Calc!Need(h)
    BY <1>1, CalcNeed DEF CalcInv, Counted, Calc!Busy
  <2>2. CASE over
    BY <1>8, <2>2 DEF Counted, Calc!Busy
  <2>3. CASE ~ over
    <3>1. /\ Len(given'[h]) = Len(given[h]) + 1
          /\ at'[h] \in IF Len(given'[h]) < Calc!Need(h) THEN {"load"}
                        ELSE {"result", "bad"}
      BY <1>5, <1>8, <2>3
    <3>2. Len(given'[h]) < Calc!Need(h) \/ Len(given'[h]) = Calc!Need(h)
      BY <1>4, <2>1, <3>1, SMT
    <3> QED BY <1>11, <3>1, <3>2 DEF Counted, Calc!Busy
  <2> QED BY <2>2, <2>3
<1>16. ASSUME NEW g \in Handlers
       PROVE  /\ given'[g] # <<>> => given'[g][1] = <<g, 1>> /\ olds' # None
              /\ at'[g] = "store" => ptr'[g] # None
              /\ at'[g] = "store" /\ given'[g] = <<>> => ptr'[g] = <<g, 1>>
              /\ Counted(g)'
              /\ g \notin mixed' => InOrder(g)'
  <2>1. CASE g = h
    BY <1>3, <1>8, <1>9, <1>12, <1>13, <1>15, <2>1
  <2>2. CASE g # h
    <3>1. Counted(g)'
      BY <1>3, <1>7, <2>2 DEF CalcInv, Counted, Calc!Busy, Calc!Need
    <3> QED BY <1>3, <1>7, <1>9, <1>14, <2>2, <3>1 DEF CalcInv
  <2> QED BY <2>1, <2>2
<1>17. \A f, g \in Handlers :
         f # g /\ Calc!Busy(f)' /\ Calc!Busy(g)' => g \in mixed'
  BY <1>3, <1>10 DEF CalcInv
<1> QED BY <1>6, <1>16, <1>17 DEF CalcInv

\* No step of a calculation breaks the invariant.
LEMMA CalcPreserves ==
  ASSUME Calc!CountsAssumption, Calc!NoneAssumption, CalcInv,
         Calc!Next \/ UNCHANGED calcVars
  PROVE  CalcInv'
<1>1. CASE UNCHANGED calcVars \/ Calc!Idle
  <2>1. UNCHANGED <<at, calcs, count, tokens, cut, olds, ptr, given, mixed>>
    BY <1>1 DEF calcVars, Calc!Idle, Calc!vars, Calc!string
  <2>2. Calc!TypeOK'
    BY <2>1 DEF CalcInv, Calc!TypeOK, Calc!Places
  <2>3. \A h \in Handlers : /\ Calc!Busy(h)' <=> Calc!Busy(h)
                            /\ InOrder(h)' <=> InOrder(h)
                            /\ Counted(h)' <=> Counted(h)
    BY <2>1 DEF Calc!Busy, InOrder, Counted, Place, Calc!Need
  <2> QED BY <2>1, <2>2, <2>3 DEF CalcInv
<1>2. ASSUME NEW h \in Handlers,
             Calc!Begin(h) \/ Calc!Load(h) \/ Calc!Store(h)
      PROVE  CalcInv'
  BY <1>2, CalcBegin, CalcLoad, CalcStore
<1> QED BY <1>1, <1>2 DEF Calc!Next

\* What the invariant says of the tokens.
LEMMA CalcOwn ==
  ASSUME CalcInv PROVE Calc!OwnTokens
<1> SUFFICES ASSUME NEW h \in Handlers
    PROVE  /\ given[h] # <<>> => given[h][1] = <<h, 1>>
           /\ h \notin mixed =>
                given[h] = [k \in 1 .. Len(given[h]) |-> <<h, k>>]
           /\ h \notin mixed /\ at[h] = "null" =>
                Len(given[h]) = tokens[h] /\ tokens[h] < Calc!Need(h)
           /\ at[h] \in {"result", "bad"} => Len(given[h]) = Calc!Need(h)
  BY DEF Calc!OwnTokens
<1>1. given[h] \in Seq(Calc!Places)
  BY DEF CalcInv, Calc!TypeOK
<1>2. ASSUME h \notin mixed
      PROVE  given[h] = [k \in 1 .. Len(given[h]) |-> <<h, k>>]
  <2>1. \A k \in 1 .. Len(given[h]) : given[h][k] = <<h, k>>
    BY <1>2 DEF CalcInv, InOrder
  <2>2. given[h] = [k \in 1 .. Len(given[h]) |-> given[h][k]]
    BY <1>1, SMT
  <2> QED BY <2>1, <2>2
<1> QED BY <1>2 DEF CalcInv, InOrder, Counted

-----------------------------------------------------------------------------
(* All of them. *)

\* Every program begins in its invariant.
LEMMA InitInvariant == Init => IInv
<1> SUFFICES ASSUME Init PROVE IInv
  OBVIOUS
<1>1. OfHalf => HalfP!FullInv
  <2>1. OfHalf => HalfP!Init
    BY DEF Init, OfHalf, Half!Programs, Half!Start,
       HalfP!Init, HalfP!Programs, HalfP!Start
  <2> QED BY <2>1, Constants, HalfP!InitFull
<1>2. Reading
  BY SMT DEF Init, Radio!Start, Reading
<1>3. OfRadio => Radio!TypeOK
  <2>1. PieceMax \in Nat
    BY Constants
  <2>2. /\ pieces = 0 /\ atEnd = FALSE /\ reader = "open" /\ done = 0
        /\ line = 0 /\ sent = <<>>
        /\ since = [r \in Receivers |-> Radio!Absent]
        /\ due = [r \in Receivers |-> {}]
        /\ heard = [r \in Receivers |-> <<>>]
    BY DEF Init, Radio!Start
  <2>3. \A S : <<>> \in Seq(S) /\ Len(<<>>) = 0
    BY SMT
  <2>4. Radio!Absent \in 0 .. Radio!Absent /\ 0 \in 0 .. PieceMax
    BY <2>1, SMT DEF Radio!Absent
  <2>5. 0 <= 0 + 1 /\ 0 \in 0 .. 0
    BY SMT
  <2> QED BY <2>2, <2>3, <2>4, <2>5 DEF Radio!TypeOK, OfRadio
<1>4. OfShared => SharedInv /\ Bounded
  <2>1. OfShared => Shared!Init
    BY DEF Init, OfShared, Shared!Init
  <2> QED BY <2>1, Constants, SharedInit, BoundedInit
<1>5. OfUdp => UdpP!IInv
  <2>1. OfUdp => UdpP!Init
    BY DEF Init, OfUdp, Udp!Programs, Udp!Start, Udp!Messages,
       UdpP!Init, UdpP!Programs, UdpP!Start, UdpP!Messages
  <2> QED BY <2>1, Constants, UdpP!InitInvariant
<1>6. OfStream => StreamInv
  <2>1. OfStream => Stream!Init
    BY DEF Init, OfStream, Stream!Init
  <2> QED BY <2>1, Constants, StreamInit
<1>7. CalcInv
  BY Constants, CalcInit DEF Init
<1>8. Half!Start /\ Udp!Start /\ Stream!Start
  BY DEF Init
<1> QED BY <1>1, <1>2, <1>3, <1>4, <1>5, <1>6, <1>7, <1>8 DEF IInv

\* Only one of the programs is at hand.
LEMMA OneProgram ==
  /\ OfStream => ~ (OfHalf \/ OfRadio \/ OfUdp \/ OfShared \/ OfCalc)
  /\ OfHalf => ~ (OfStream \/ OfRadio \/ OfUdp \/ OfShared \/ OfCalc)
  /\ OfRadio => ~ (OfStream \/ OfHalf \/ OfUdp \/ OfShared \/ OfCalc)
  /\ OfUdp => ~ (OfStream \/ OfHalf \/ OfRadio \/ OfShared \/ OfCalc)
  /\ OfShared => ~ (OfStream \/ OfHalf \/ OfRadio \/ OfUdp \/ OfCalc)
BY DEF OfHalf, OfStream, OfRadio, OfUdp, OfShared, OfCalc, Half!Programs,
   Stream!Programs, Radio!Programs, Udp!Programs, Shared!Programs

\* A step is one of the program at hand, and the others stand still.
LEMMA OneMoves ==
  ASSUME [Next]_vars
  PROVE  /\ UNCHANGED <<OfStream, OfHalf, OfRadio, OfUdp, OfShared, OfCalc>>
         /\ IF OfStream THEN Stream!Next \/ UNCHANGED streamVars
                        ELSE UNCHANGED streamVars
         /\ IF OfHalf THEN Half!Next \/ UNCHANGED halfVars
                      ELSE UNCHANGED halfVars
         /\ IF OfRadio THEN Radio!Next \/ UNCHANGED radioVars
                       ELSE UNCHANGED radioVars
         /\ IF OfUdp THEN Udp!Next \/ UNCHANGED udpVars ELSE UNCHANGED udpVars
         /\ IF OfShared THEN Shared!Next \/ UNCHANGED sharedVars
                        ELSE UNCHANGED sharedVars
         /\ Calc!Next \/ UNCHANGED calcVars
<1>1. UNCHANGED <<OfStream, OfHalf, OfRadio, OfUdp, OfShared, OfCalc>>
  BY ProgStays DEF OfHalf, OfStream, OfRadio, OfUdp, OfShared, OfCalc,
     Half!Programs, Stream!Programs, Radio!Programs, Udp!Programs,
     Shared!Programs
<1> QED BY <1>1, OneProgram DEF Next, vars

\* No step of any program breaks it, nor that of the programs that stand still.
LEMMA NextPreserves == IInv /\ [Next]_vars => IInv'
<1> SUFFICES ASSUME IInv, [Next]_vars PROVE IInv'
  OBVIOUS
<1>1. prog' = prog
  BY ProgStays
<1>2. IF OfHalf THEN HalfP!FullInv' ELSE Half!Start'
  <2>1. CASE OfHalf
    <3>1. [HalfP!Next]_(HalfP!vars)
      BY <1>1, <2>1, OneMoves, HalfStep DEF halfVars, HalfP!vars
    <3> QED BY <2>1, <3>1, Constants, HalfP!NextFull DEF IInv
  <2>2. CASE ~ OfHalf
    BY <2>2, OneMoves DEF IInv, Half!Start, halfVars
  <2> QED BY <2>1, <2>2
<1>3. Reading' /\ (OfRadio => Radio!TypeOK')
  <2>1. CASE UNCHANGED radioVars
    BY <1>1, <2>1 DEF radioVars, IInv, Reading, Radio!TypeOK, Radio!Absent
  <2>2. CASE OfRadio /\ Radio!Next
    BY <2>2, Constants, RadioPreserves, RadioTypes DEF IInv
  <2> QED BY <2>1, <2>2, OneMoves
<1>4. OfShared => SharedInv' /\ (prog' = "thread3" => Bounded')
  <2> SUFFICES ASSUME OfShared
               PROVE  SharedInv' /\ (prog' = "thread3" => Bounded')
    OBVIOUS
  <2>1. [Shared!Next]_(Shared!vars)
    BY <1>1, OneMoves DEF sharedVars, Shared!vars
  <2>2. SharedInv'
    BY <2>1, Constants, SharedPreserves DEF IInv
  <2>3. prog = "thread3" => Bounded'
    BY <2>1, Constants, BoundedPreserves DEF IInv, SharedInv
  <2> QED BY <1>1, <2>2, <2>3
<1>5. IF OfUdp THEN UdpP!IInv' ELSE Udp!Start'
  <2>1. CASE OfUdp
    <3>1. [UdpP!Next]_(UdpP!vars)
      BY <1>1, <2>1, OneMoves, UdpStep DEF udpVars, UdpP!vars, UdpP!net
    <3> QED BY <2>1, <3>1, Constants, UdpP!NextPreserves DEF IInv
  <2>2. CASE ~ OfUdp
    BY <2>2, OneMoves DEF IInv, Udp!Start, udpVars, Udp!Messages
  <2> QED BY <2>1, <2>2
<1>6. IF OfStream THEN StreamInv' ELSE Stream!Start'
  <2>1. CASE OfStream
    <3>1. [Stream!Next]_(Stream!vars)
      BY <1>1, <2>1, OneMoves DEF streamVars, Stream!vars, Stream!clients,
         Stream!server, Stream!request
    <3> QED BY <2>1, <3>1, Constants, StreamPreserves DEF IInv
  <2>2. CASE ~ OfStream
    BY <2>2, OneMoves DEF IInv, Stream!Start, streamVars
  <2> QED BY <2>1, <2>2
<1>7. CalcInv'
  BY OneMoves, Constants, CalcPreserves DEF IInv
<1>8. UNCHANGED <<OfStream, OfHalf, OfRadio, OfUdp, OfShared>>
  BY OneMoves
<1> QED BY <1>2, <1>3, <1>4, <1>5, <1>6, <1>7, <1>8 DEF IInv

\* The inductive invariant of all the programs.
THEOREM Invariance == Spec => []IInv
BY InitInvariant, NextPreserves, PTL DEF Spec

\* The variables of every program have their types.
THEOREM TypeCorrect == Spec => []TypeOK
<1>1. IInv => TypeOK
  <2> SUFFICES ASSUME IInv PROVE TypeOK
    OBVIOUS
  <2>1. OfStream => Stream!TypeOK
    BY DEF IInv, StreamInv
  <2>2. OfHalf => Half!TypeOK
    <3>1. OfHalf => HalfP!TypeOK
      BY DEF IInv, HalfP!FullInv
    <3> QED BY <3>1 DEF Half!TypeOK, HalfP!TypeOK, Half!Programs,
            HalfP!Programs, Half!Sent, HalfP!Sent
  <2>3. OfRadio => Radio!TypeOK
    BY DEF IInv
  <2>4. OfUdp => Udp!TypeOK
    <3>1. OfUdp => UdpP!TypeOK
      BY DEF IInv, UdpP!IInv
    <3> QED BY <3>1 DEF Udp!TypeOK, UdpP!TypeOK, Udp!Programs,
            UdpP!Programs, Udp!Messages, UdpP!Messages
  <2>5. OfShared => Shared!TypeOK
    BY DEF IInv, SharedInv
  <2>6. Calc!TypeOK
    BY DEF IInv, CalcInv
  <2> QED BY <2>1, <2>2, <2>3, <2>4, <2>5, <2>6 DEF TypeOK
<1> QED BY <1>1, Invariance, PTL

\* HW2: whatever is left in the server's buffers of the clients before, and
\* however often TCP cuts the stream between two fields, a request that was not
\* torn is answered from its own operands and operators.
THEOREM AnswerCorrect == Spec => []AnswerIsOwn
<1>1. IInv => AnswerIsOwn
  <2>1. IInv /\ OfStream => Stream!AnswerIsOwn
    BY DEF IInv, StreamInv
  <2>2. IInv /\ ~ OfStream => Stream!AnswerIsOwn
    BY DEF IInv, Stream!Start, Stream!AnswerIsOwn
  <2> QED BY <2>1, <2>2 DEF AnswerIsOwn
<1> QED BY <1>1, Invariance, PTL

\* HW8's test_serv.c: however the calls of strtok() interleave, a calculation
\* that overlaps with no other has its own tokens, and every one its own count.
THEOREM OwnCorrect == Spec => []OwnTokens
<1>1. IInv => OwnTokens
  BY CalcOwn DEF IInv, OwnTokens
<1> QED BY <1>1, Invariance, PTL

\* HW8's thread3.c: whatever additions are lost, the sum lies between the last
\* numbers of both threads and the whole.  The loops of thread3.c have five
\* rounds; with three the lower bound would not hold.
THEOREM LostCorrect ==
  ASSUME Rounds >= 4
  PROVE  Spec => []LostUpdatesBounded
<1>1. IInv => LostUpdatesBounded
  <2>1. IInv /\ prog = "thread3" => Shared!LostUpdatesBounded
    BY Constants, BoundedSum DEF IInv, OfShared, Shared!Programs
  <2>2. prog # "thread3" => Shared!LostUpdatesBounded
    BY DEF Shared!LostUpdatesBounded
  <2> QED BY <2>1, <2>2 DEF LostUpdatesBounded
<1> QED BY <1>1, Invariance, PTL

\* HW4, and HW8's sep samples: what each server shows as its client's message:
\* the message, nothing, or the end of its own file, of any length.
THEOREM PrintedCorrect == Spec => []PrintedAsReceived
<1>1. IInv => PrintedAsReceived
  <2> SUFFICES ASSUME IInv PROVE PrintedAsReceived
    OBVIOUS
  <2>1. CASE OfHalf
    <3>1. HalfP!PrintedAsReceived
      BY <2>1, HalfP!InvariantPrinted DEF IInv
    <3> QED BY <3>1 DEF PrintedAsReceived, Half!PrintedAsReceived,
            HalfP!PrintedAsReceived, Half!LastPieces, HalfP!LastPieces,
            Half!Units, HalfP!Units, Half!Thanks, HalfP!Thanks
  <2>2. CASE ~ OfHalf
    BY <2>2 DEF IInv, Half!Start, PrintedAsReceived, Half!PrintedAsReceived
  <2> QED BY <2>1, <2>2
<1> QED BY <1>1, Invariance, PTL

\* HW4, and HW8's sep samples: a client that takes its copy for complete has
\* the whole file, wherever blocks and reads end and however large they are.
THEOREM CopyCorrect == Spec => []CopyIsFile
<1>1. IInv => CopyIsFile
  <2> SUFFICES ASSUME IInv PROVE CopyIsFile
    OBVIOUS
  <2>1. CASE OfHalf
    <3>1. HalfP!CopyIsFile
      BY <2>1, HalfP!InvariantCopy DEF IInv, HalfP!FullInv
    <3> QED BY <3>1 DEF CopyIsFile, Half!CopyIsFile, HalfP!CopyIsFile,
            Half!Units, HalfP!Units
  <2>2. CASE ~ OfHalf
    <3>1. copy = <<>> /\ size = 0 /\ receiver = "read"
      BY <2>2 DEF IInv, Half!Start
    <3>2. Half!Units(1, 0) = <<>> /\ 0 \in 0 .. 0
      BY SMT DEF Half!Units
    <3> QED BY <3>1, <3>2 DEF CopyIsFile, Half!CopyIsFile
  <2> QED BY <2>1, <2>2
<1> QED BY <1>1, Invariance, PTL

\* HW3: losses never shift the answers, and a doubled datagram makes nobody
\* print the answer to a message that was not sent.
THEOREM InStepCorrect == Spec => []InStep
<1>1. IInv => InStep
  <2> SUFFICES ASSUME IInv PROVE InStep
    OBVIOUS
  <2>1. CASE OfUdp
    <3>1. UdpP!InStep
      BY <2>1, UdpP!InvariantInStep DEF IInv
    <3> QED BY <3>1 DEF InStep, Udp!InStep, UdpP!InStep
  <2>2. CASE ~ OfUdp
    <3>1. \A c \in Clients : printed[c] = <<>>
      BY <2>2 DEF IInv, Udp!Start
    <3>2. \A c \in Clients : DOMAIN printed[c] = {}
      BY <3>1, SMT
    <3> QED BY <3>2 DEF InStep, Udp!InStep
  <2> QED BY <2>1, <2>2
<1> QED BY <1>1, Invariance, PTL

\* HW8's mutex.c and semaphore.c: the result is exact after any number of
\* rounds.
THEOREM LockedCorrect == Spec => []LockedIsExact
<1>1. IInv => LockedIsExact
  <2> SUFFICES ASSUME IInv PROVE LockedIsExact
    OBVIOUS
  <2>1. CASE OfShared
    BY <2>1, Constants, SharedExact DEF IInv, LockedIsExact
  <2>2. CASE ~ OfShared
    BY <2>2 DEF OfShared, Shared!Programs, LockedIsExact, Shared!LockedIsExact
  <2> QED BY <2>1, <2>2
<1> QED BY <1>1, Invariance, PTL

\* HW7: the datagrams are the pieces of news.txt in order, the last of them
\* twice if the file does not end in the middle of a line, however long it is.
THEOREM SentCorrect == Spec => []SentIsFile
<1>1. IInv => SentIsFile
  <2> SUFFICES ASSUME IInv, reader = "ended"
               PROVE  sent = [k \in 1 .. pieces |-> k]
                               \o (IF atEnd THEN <<>> ELSE <<pieces>>)
    BY DEF SentIsFile, Radio!SentIsFile
  <2> DEFINE s == [k \in 1 .. pieces |-> k]
             t == IF atEnd THEN <<>> ELSE <<pieces>>
             n == IF atEnd THEN 0 ELSE 1
  <2>1. /\ pieces \in Nat /\ sent \in Seq(Nat) /\ Len(sent) = pieces + n
        /\ \A k \in 1 .. Len(sent) : sent[k] = IF k <= pieces THEN k ELSE pieces
    BY DEF IInv, Reading
  <2>2. /\ s \in Seq(Nat) /\ Len(s) = pieces
        /\ \A k \in 1 .. pieces : s[k] = k
    BY <2>1, SMT
  <2>3. /\ t \in Seq(Nat) /\ Len(t) = n /\ n \in Nat
        /\ \A k \in 1 .. n : t[k] = pieces
    BY <2>1, SMT
  <2> HIDE DEF s, t, n
  <2>4. /\ s \o t \in Seq(Nat) /\ Len(s \o t) = pieces + n
        /\ \A k \in 1 .. pieces + n :
             (s \o t)[k] = IF k <= pieces THEN s[k] ELSE t[k - pieces]
    BY <2>2, <2>3, JoinedNumbers
  <2>5. ASSUME NEW k \in 1 .. pieces + n PROVE (s \o t)[k] = sent[k]
    <3>1. CASE k <= pieces
      <4>1. k \in 1 .. pieces
        BY <2>1, <3>1, SMT
      <4> QED BY <2>1, <2>2, <2>4, <3>1, <4>1
    <3>2. CASE ~ k <= pieces
      <4>1. k - pieces \in 1 .. n
        BY <2>1, <2>3, <3>2, SMT
      <4> QED BY <2>1, <2>3, <2>4, <3>2, <4>1
    <3> QED BY <3>1, <3>2
  <2>6. sent = s \o t
    BY <2>1, <2>4, <2>5, SeqEqual
  <2> QED BY <2>6 DEF s, t
<1> QED BY <1>1, Invariance, PTL
=============================================================================
