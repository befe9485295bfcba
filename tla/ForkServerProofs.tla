-------------------------- MODULE ForkServerProofs --------------------------
(***************************************************************************)
(* For any number of clients and children and any size of the pipe: the    *)
(* descriptors of hw5_server.c are closed by those who hold them, and      *)
(* log.txt gets whole lines, at most one for every answer and exactly one  *)
(* where the text of the calculation fits in buf.                          *)
(***************************************************************************)
EXTENDS ForkServer, FiniteSetTheorems, SequenceTheorems, TLAPS

Running == {"read", "write", "log", "return"}

\* The connection between accept() and close(), and those not accepted yet.
Parenting ==
  /\ mpc # "accept" => cfd \in Conns
  /\ mpc = "fork" => holders[cfd] = {"parent"} /\ pc[cfd] = "none"
  /\ \A c \in Conns : "queue" \in holders[c] => /\ holders[c] = {"queue"}
                                                /\ pc[c] = "none"

\* A client has asked or hung up before its child calculates, and has its
\* answer before the line about it is written.
Answering ==
  \A c \in Conns :
    /\ c \in reply => pc[c] \in {"log", "return", "zombie", "reaped"}
    /\ pc[c] = "log" => c \in reply
    /\ pc[c] \in {"write", "log", "return", "zombie", "reaped"}
         => asked[c] # None

\* The lines of c in s: one, or none.
Lines(s, c)  == {n \in DOMAIN s : s[n] = <<c, 1>>}
\* Every first half of a line has its second half behind it, and vice versa.
Whole(s) ==
  \A n \in DOMAIN s :
    /\ s[n][2] = 1 => n < Len(s) /\ s[n + 1] = <<s[n][1], 2>>
    /\ s[n][2] = 2 => n > 1 /\ s[n - 1] = <<s[n][1], 1>>
\* The clients whose child may have come past the write into the pipe, and
\* those whose child certainly has.
MayLog(c) == c \in reply /\ pc[c] \in {"return", "zombie", "reaped"}
Logged(c) == /\ c \in reply
             /\ \/ pc[c] = "return"
                \/ pc[c] \in {"zombie", "reaped"} /\ Count(c) # "long"
\* The latter have their line, only the former have one, and nobody has two.
Written ==
  /\ Whole(log \o fds)
  /\ \A c \in Conns :
       /\ Lines(log \o fds, c) = {} \/ \E n : Lines(log \o fds, c) = {n}
       /\ Lines(log \o fds, c) # {} => MayLog(c)
       /\ Logged(c) => Lines(log \o fds, c) # {}

IInv == TypeOK /\ HoldersWillClose /\ Parenting /\ Answering /\ Written

-----------------------------------------------------------------------------
(* The file and the pipe. *)

\* A line at the end leaves whole lines whole.
LEMMA WholeLine ==
  ASSUME NEW s \in Seq(Units), Whole(s), NEW c \in Conns
  PROVE  Whole(s \o <<<<c, 1>>, <<c, 2>>>>)
<1> DEFINE t == s \o <<<<c, 1>>, <<c, 2>>>>
<1>1. /\ Len(t) = Len(s) + 2 /\ Len(s) \in Nat
      /\ DOMAIN t = 1 .. Len(s) + 2 /\ DOMAIN s = 1 .. Len(s)
      /\ \A n \in 1 .. Len(s) : t[n] = s[n]
      /\ t[Len(s) + 1] = <<c, 1>> /\ t[Len(s) + 2] = <<c, 2>>
  BY SMT
<1> HIDE DEF t
<1>2. ASSUME NEW n \in DOMAIN t
      PROVE  /\ t[n][2] = 1 => n < Len(t) /\ t[n + 1] = <<t[n][1], 2>>
             /\ t[n][2] = 2 => n > 1 /\ t[n - 1] = <<t[n][1], 1>>
  <2>1. CASE n \in 1 .. Len(s)
    <3>1. t[n] = s[n] /\ n \in Nat /\ n \in DOMAIN s
      BY <1>1, <2>1
    <3>2. CASE s[n][2] = 1
      <4>1. n < Len(s) /\ s[n + 1] = <<s[n][1], 2>>
        BY <3>1, <3>2 DEF Whole
      <4>2. n + 1 \in 1 .. Len(s) /\ n < Len(t)
        BY <1>1, <3>1, <4>1, SMT
      <4> QED BY <1>1, <3>1, <3>2, <4>1, <4>2
    <3>3. CASE s[n][2] = 2
      <4>1. n > 1 /\ s[n - 1] = <<s[n][1], 1>>
        BY <3>1, <3>3 DEF Whole
      <4>2. n - 1 \in 1 .. Len(s)
        BY <1>1, <2>1, <4>1, SMT
      <4> QED BY <1>1, <3>1, <3>3, <4>1, <4>2
    <3> QED BY <3>1, <3>2, <3>3
  <2>2. CASE n = Len(s) + 1
    BY <1>1, <2>2, SMT
  <2>3. CASE n = Len(s) + 2
    <3>1. n - 1 = Len(s) + 1 /\ n > 1
      BY <1>1, <2>3, SMT
    <3> QED BY <1>1, <2>3, <3>1
  <2>4. n \in 1 .. Len(s) \/ n = Len(s) + 1 \/ n = Len(s) + 2
    BY <1>1, SMT
  <2> QED BY <2>1, <2>2, <2>3, <2>4
<1>3. Whole(t)
  BY <1>2 DEF Whole
<1> QED BY <1>3 DEF t

\* The line that is added is one more of its client's, and nobody else's.
LEMMA NewLine ==
  ASSUME NEW s \in Seq(Units), NEW c \in Conns, NEW d \in Conns
  PROVE  Lines(s \o <<<<c, 1>>, <<c, 2>>>>, d) =
           IF d = c THEN Lines(s, d) \cup {Len(s) + 1} ELSE Lines(s, d)
<1> DEFINE t == s \o <<<<c, 1>>, <<c, 2>>>>
<1>1. /\ Len(s) \in Nat
      /\ DOMAIN t = 1 .. Len(s) + 2 /\ DOMAIN s = 1 .. Len(s)
      /\ \A n \in 1 .. Len(s) : t[n] = s[n]
      /\ t[Len(s) + 1] = <<c, 1>> /\ t[Len(s) + 2] = <<c, 2>>
  BY SMT
<1> HIDE DEF t
<1>2. Lines(t, d) = IF d = c THEN Lines(s, d) \cup {Len(s) + 1}
                    ELSE Lines(s, d)
  BY <1>1, SMT DEF Lines
<1> QED BY <1>2 DEF t

\* The file, the piece the logger has read and the rest of the pipe.
LEMMA Associative ==
  ASSUME NEW x \in Seq(Units), NEW y \in Seq(Units), NEW z \in Seq(Units)
  PROVE  (x \o y) \o z = x \o (y \o z)
BY SMT

\* Wherever a read() of the logger ends, the file and the pipe together
\* stay as they are.
LEMMA LoggerMoves ==
  ASSUME NEW s \in Seq(Units), NEW t \in Seq(Units), NEW n \in 1 .. Len(t)
  PROVE  /\ s \o SubSeq(t, 1, n) \in Seq(Units)
         /\ SubSeq(t, n + 1, Len(t)) \in Seq(Units)
         /\ Len(SubSeq(t, n + 1, Len(t))) <= Len(t)
         /\ (s \o SubSeq(t, 1, n)) \o SubSeq(t, n + 1, Len(t)) = s \o t
<1> DEFINE a == SubSeq(t, 1, n)
           b == SubSeq(t, n + 1, Len(t))
<1>1. /\ a \in Seq(Units) /\ Len(a) = n /\ Len(t) \in Nat /\ Len(s) \in Nat
      /\ \A k \in 1 .. n : a[k] = t[k]
  BY SMT
<1>2. /\ b \in Seq(Units) /\ Len(b) = Len(t) - n
      /\ \A k \in 1 .. Len(t) - n : b[k] = t[n + k]
  BY SMT
<1> HIDE DEF a, b
<1>3. a \o b = t
  <2>1. /\ 1 \in 1 .. Len(t) + 1 /\ n \in 1 - 1 .. Len(t)
        /\ Len(t) \in n .. Len(t)
    BY <1>1, SMT
  <2>2. a \o b = SubSeq(t, 1, Len(t))
    BY <2>1, ConcatAdjacentSubSeq DEF a, b
  <2> QED BY <2>2, SubSeqFull
<1>4. s \o a \in Seq(Units)
  BY <1>1, ConcatProperties
<1>5. (s \o a) \o b = s \o t
  <2>1. a \in Seq(Units) /\ b \in Seq(Units)
    BY <1>1, <1>2
  <2>2. (s \o a) \o b = s \o (a \o b)
    BY <2>1, Associative, Zenon
  <2> QED BY <1>3, <2>2
<1>6. Len(b) <= Len(t)
  BY <1>1, <1>2, SMT
<1> QED BY <1>2, <1>3, <1>4, <1>5, <1>6 DEF a, b

-----------------------------------------------------------------------------
(* Every step preserves the invariant. *)

\* Nobody has connected, and nothing has been written.
LEMMA InitInvariant == Init => IInv
<1> SUFFICES ASSUME Init PROVE IInv
  OBVIOUS
<1>1. TypeOK
  <2>1. <<>> \in Seq(Units) /\ Len(<<>>) <= PipeMax
    BY SizeAssumption, SMT
  <2>2. fds = <<>> /\ log = <<>>
    BY DEF Init
  <2>3. /\ asked \in [Conns -> Requests \cup {None, "fin"}]
        /\ holders \in [Conns -> SUBSET {"queue", "parent", "child"}]
        /\ reply \subseteq Conns
    BY DEF Init
  <2>4. pc \in [Conns -> {"none", "read", "write", "log", "return",
                         "zombie", "reaped", "refused"}]
    BY DEF Init
  <2>5. /\ mpc \in {"accept", "fork", "close"} /\ cfd \in Conns \cup {None}
        /\ opCount \in Requests /\ pending \in BOOLEAN
    BY DEF Init
  <2> QED BY <2>1, <2>2, <2>3, <2>4, <2>5 DEF TypeOK
<1>2. /\ mpc = "accept" /\ reply = {}
      /\ \A c \in Conns : holders[c] = {} /\ pc[c] = "none"
  BY DEF Init
<1>7. HoldersWillClose /\ Parenting /\ Answering
  BY <1>2, SMT DEF HoldersWillClose, Parenting, Answering
<1>3. log \o fds = <<>>
  BY SMT DEF Init
<1>4. Written
  <2>1. \A c \in Conns : ~ Logged(c)
    BY <1>2 DEF Logged
  <2>2. Whole(<<>>) /\ \A c : Lines(<<>>, c) = {}
    BY SMT DEF Whole, Lines
  <2> QED BY <1>3, <2>1, <2>2 DEF Written
<1> QED BY <1>1, <1>4, <1>7 DEF IInv

\* Nobody's child comes past its write, or is taken to have been before it.
Keeps == \A c \in Conns : (Logged(c)' => Logged(c)) /\ (MayLog(c) => MayLog(c)')

\* A step that leaves the lines alone.
LEMMA Unwritten ==
  ASSUME IInv, log' \o fds' = log \o fds, Keeps
  PROVE  Written'
<1>1. Whole(log' \o fds')
  BY DEF IInv, Written
<1>2. ASSUME NEW c \in Conns
      PROVE  /\ \/ Lines(log' \o fds', c) = {}
                \/ \E n : Lines(log' \o fds', c) = {n}
             /\ Lines(log' \o fds', c) # {} => MayLog(c)'
             /\ Logged(c)' => Lines(log' \o fds', c) # {}
  BY DEF IInv, Written, Keeps
<1> QED BY <1>1, <1>2 DEF Written

\* Clients connect, send their request or hang up.
LEMMA ClientPreserves ==
  ASSUME IInv, NEW c \in Conns, Client(c)
  PROVE  IInv'
<1> USE DEF parent
<1>1. UNCHANGED <<reply, mpc, cfd, opCount, pending, pc, fds, log>>
  BY DEF Client, Connect, Ask
<1>2. TypeOK' /\ HoldersWillClose' /\ Parenting'
  <2>1. CASE Connect(c)
    <3>1. mpc = "fork" => cfd # c
      BY <2>1, SMT DEF Connect, IInv, Parenting
    <3> QED BY <2>1, <3>1, SMT DEF Connect, IInv, TypeOK, HoldersWillClose,
                                   Parenting
  <2>2. CASE Ask(c)
    <3>1. PICK r \in Kinds[c] \cup {"fin"} : asked' = [asked EXCEPT ![c] = r]
      BY <2>2 DEF Ask
    <3>2. asked' \in [Conns -> Requests \cup {None, "fin"}]
      <4>1. r \in Requests \cup {None, "fin"}
        BY <3>1, KindsAssumption, Zenon
      <4> QED BY <3>1, <4>1, SMT DEF IInv, TypeOK
    <3>3. holders' = holders
      BY <2>2 DEF Ask
    <3> QED BY <1>1, <3>2, <3>3 DEF IInv, TypeOK, HoldersWillClose, Parenting
  <2> QED BY <2>1, <2>2 DEF Client
<1>3. Answering' /\ Keeps
  <2>1. ASSUME NEW d \in Conns, asked'[d] # asked[d]
        PROVE  asked[d] = None /\ asked'[d] # None
    <3>1. CASE Connect(c)
      BY <2>1, <3>1 DEF Connect
    <3>2. CASE Ask(c)
      <4>1. PICK r \in Kinds[c] \cup {"fin"} :
              asked[c] = None /\ asked' = [asked EXCEPT ![c] = r]
        BY <3>2 DEF Ask
      <4>2. r # None /\ d = c
        BY <2>1, <4>1, KindsAssumption, SMT DEF IInv, TypeOK
      <4> QED BY <2>1, <4>1, <4>2 DEF IInv, TypeOK
    <3> QED BY <3>1, <3>2 DEF Client
  <2>2. \A d \in Conns :
          pc[d] \in {"write", "log", "return", "zombie", "reaped"}
            => asked'[d] = asked[d]
    BY <2>1 DEF IInv, Answering
  <2> QED BY <1>1, <2>2, SMT DEF IInv, Answering, Keeps, Logged, MayLog, Count
<1>4. Written'
  BY <1>1, <1>3, Unwritten
<1> QED BY <1>2, <1>3, <1>4 DEF IInv

\* The parent accepts, forks or fails to, closes its copy of the connection,
\* and collects a dead child.
LEMMA ParentPreserves ==
  ASSUME IInv, Parent
  PROVE  IInv'
<1> USE DEF parent
<1>1. UNCHANGED <<asked, reply, opCount, fds, log>>
  BY DEF Parent, Accept, Fork, ForkFails, Close, read_childproc
<1>2. /\ TypeOK' /\ HoldersWillClose' /\ Parenting' /\ Answering'
      /\ Keeps
  <2> USE DEF IInv, TypeOK, HoldersWillClose, Parenting, Answering, Logged,
             MayLog, Keeps, Count
  <2>1. ASSUME NEW c \in Conns, Accept(c)
        PROVE  /\ TypeOK' /\ HoldersWillClose' /\ Parenting' /\ Answering'
               /\ Keeps
    BY <2>1, SMT DEF Accept
  <2>2. CASE Fork
    BY <2>2, SMT DEF Fork
  <2>3. CASE ForkFails
    BY <2>3, SMT DEF ForkFails
  <2>4. CASE Close
    BY <2>4, SMT DEF Close
  <2>5. CASE read_childproc
    <3>1. PICK z \in Conns : /\ pc[z] = "zombie"
                            /\ pc' = [pc EXCEPT ![z] = "reaped"]
      BY <2>5 DEF read_childproc, Zombies
    <3>2. \A d \in Conns : pc'[d] = IF d = z THEN "reaped" ELSE pc[d]
      BY <3>1
    <3>3. UNCHANGED <<asked, holders, reply, mpc, cfd, opCount, fds, log>>
          /\ pending' = FALSE
      BY <2>5 DEF read_childproc
    <3>4. TypeOK'
      <4>1. pc' \in [Conns -> {"none", "read", "write", "log", "return",
                              "zombie", "reaped", "refused"}]
        BY <3>1, SMT
      <4> QED BY <3>3, <4>1
    <3>5. HoldersWillClose' /\ Parenting'
      BY <3>1, <3>2, <3>3, SMT
    <3>6. Answering' /\ Keeps
      BY <3>1, <3>2, <3>3, SMT
    <3> QED BY <3>4, <3>5, <3>6
  <2> QED BY <2>1, <2>2, <2>3, <2>4, <2>5 DEF Parent
<1>3. Written'
  BY <1>1, <1>2, Unwritten
<1> QED BY <1>2, <1>3 DEF IInv

\* A child reads, answers, writes its line and returns, or crashes.
LEMMA ChildPreserves ==
  ASSUME IInv, NEW c \in Conns, Child(c)
  PROVE  IInv'
<1> USE DEF parent
<1>1. /\ fds \in Seq(Units) /\ log \in Seq(Units) /\ log \o fds \in Seq(Units)
  BY SMT DEF IInv, TypeOK
<1>2. CASE ReadRequest(c) \/ WriteResult(c) \/ Crash(c) \/ Return(c)
  <2> USE DEF IInv, TypeOK, HoldersWillClose, Parenting, Answering, Logged,
             MayLog, Keeps, Count
  <2>1. /\ TypeOK' /\ HoldersWillClose' /\ Parenting' /\ Answering'
        /\ Keeps
    <3>1. CASE ReadRequest(c)
      <4>1. PICK to \in {"return", "write"} :
              /\ pc[c] = "read" /\ pc' = [pc EXCEPT ![c] = to]
              /\ asked[c] # None
        BY <3>1 DEF ReadRequest
      <4>2. \A d \in Conns : pc'[d] = IF d = c THEN to ELSE pc[d]
        BY <4>1
      <4>3. UNCHANGED <<asked, holders, reply, parent, pending, fds, log>>
        BY <3>1 DEF ReadRequest
      <4>4. TypeOK'
        BY <4>1, <4>3, SMT
      <4>5. HoldersWillClose' /\ Parenting' /\ Answering'
        BY <4>1, <4>2, <4>3, SMT
      <4>6. Keeps
        BY <4>1, <4>2, <4>3, SMT
      <4> QED BY <4>4, <4>5, <4>6
    <3>2. CASE WriteResult(c)
      BY <3>2, SMT DEF WriteResult
    <3>3. CASE Crash(c)
      BY <3>3, SMT DEF Crash, Ends
    <3>4. CASE Return(c)
      BY <3>4, SMT DEF Return, Ends
    <3> QED BY <1>2, <3>1, <3>2, <3>3, <3>4
  <2>2. UNCHANGED <<fds, log>>
    BY <1>2 DEF ReadRequest, WriteResult, Crash, Return
  <2>3. Written'
    BY <2>1, <2>2, Unwritten
  <2> QED BY <2>1, <2>3
<1>3. CASE WriteLine(c)
  <2> DEFINE line == <<<<c, 1>>, <<c, 2>>>>
             s == log \o fds
  <2>1. /\ pc[c] = "log" /\ Len(fds) + 2 <= PipeMax /\ fds' = fds \o line
        /\ pc' = [pc EXCEPT ![c] = "return"]
        /\ UNCHANGED <<asked, holders, reply, mpc, cfd, opCount, pending, log>>
    BY <1>3 DEF WriteLine
  <2>2. line \in Seq(Units) /\ Len(line) = 2
    BY SMT DEF Units
  <2>3. fds' \in Seq(Units) /\ Len(fds') <= PipeMax
    BY <1>1, <2>1, <2>2, SizeAssumption, SMT
  <2>4. log' \o fds' = s \o line
    <3>1. (log \o fds) \o line = log \o (fds \o line)
      BY <1>1, <2>2, Associative, Zenon
    <3> QED BY <2>1, <3>1
  <2>5. TypeOK' /\ HoldersWillClose' /\ Parenting' /\ Answering'
    <3>1. \A d \in Conns : pc'[d] = IF d = c THEN "return" ELSE pc[d]
      BY <2>1, SMT DEF IInv, TypeOK
    <3>2. pc' \in [Conns -> {"none", "read", "write", "log", "return",
                             "zombie", "reaped", "refused"}]
      BY <2>1, SMT DEF IInv, TypeOK
    <3>3. TypeOK'
      BY <2>1, <2>3, <3>2 DEF IInv, TypeOK
    <3>4. HoldersWillClose' /\ Parenting' /\ Answering'
      BY <2>1, <3>1, SMT DEF IInv, HoldersWillClose, Parenting, Answering
    <3> QED BY <3>3, <3>4
  <2>6. /\ MayLog(c)' /\ ~ MayLog(c)
        /\ \A d \in Conns : d # c => /\ Logged(d)' = Logged(d)
                                     /\ MayLog(d)' = MayLog(d)
    BY <2>1, SMT DEF IInv, TypeOK, Answering, Logged, MayLog, Count
  <2> HIDE DEF s
  <2>7. Whole(s \o line)
    BY <1>1, WholeLine DEF s, IInv, Written
  <2>8. ASSUME NEW d \in Conns
        PROVE  /\ \/ Lines(s \o line, d) = {}
                  \/ \E n : Lines(s \o line, d) = {n}
               /\ Lines(s \o line, d) # {} => MayLog(d)'
               /\ Logged(d)' => Lines(s \o line, d) # {}
    <3>1. Lines(s \o line, d) = IF d = c THEN Lines(s, d) \cup {Len(s) + 1}
                                ELSE Lines(s, d)
      BY <1>1, NewLine DEF s
    <3>2. /\ Lines(s, d) = {} \/ \E n : Lines(s, d) = {n}
          /\ Lines(s, d) # {} => MayLog(d)
          /\ Logged(d) => Lines(s, d) # {}
      BY DEF IInv, Written, s
    <3>3. CASE d = c
      <4>1. Lines(s \o line, d) = {Len(s) + 1}
        BY <2>6, <3>1, <3>2, <3>3
      <4> QED BY <2>6, <3>3, <4>1
    <3>4. CASE d # c
      BY <2>6, <3>1, <3>2, <3>4
    <3> QED BY <3>3, <3>4
  <2>9. Written'
    BY <2>4, <2>7, <2>8 DEF Written
  <2> QED BY <2>5, <2>9 DEF IInv
<1> QED BY <1>2, <1>3 DEF Child

\* The logger moves any part of the pipe into the file.
LEMMA LoggerPreserves ==
  ASSUME IInv, Logger
  PROVE  IInv'
<1> USE DEF parent
<1>1. PICK n \in 1 .. Len(fds) : /\ log' = log \o SubSeq(fds, 1, n)
                                 /\ fds' = SubSeq(fds, n + 1, Len(fds))
  BY DEF Logger
<1>2. UNCHANGED <<asked, holders, reply, mpc, cfd, opCount, pending, pc>>
  BY DEF Logger
<1>3. /\ fds \in Seq(Units) /\ log \in Seq(Units)
      /\ Len(fds) \in Nat /\ Len(fds) <= PipeMax /\ PipeMax \in Nat
  BY SizeAssumption, SMT DEF IInv, TypeOK
<1>4. /\ log' \in Seq(Units) /\ fds' \in Seq(Units)
      /\ Len(fds') <= Len(fds) /\ log' \o fds' = log \o fds
  BY <1>1, <1>3, LoggerMoves
<1>5. Len(fds') <= PipeMax
  BY <1>3, <1>4, SMT
<1>6. TypeOK' /\ HoldersWillClose' /\ Parenting' /\ Answering'
  BY <1>2, <1>4, <1>5 DEF IInv, TypeOK, HoldersWillClose, Parenting, Answering
<1>7. Written'
  BY <1>2, <1>4, Unwritten DEF Keeps, Logged, MayLog, Count
<1> QED BY <1>6, <1>7 DEF IInv

\* No step of anybody breaks the invariant.
LEMMA NextPreserves == IInv /\ [Next]_vars => IInv'
<1> SUFFICES ASSUME IInv, [Next]_vars PROVE IInv'
  OBVIOUS
<1>1. CASE UNCHANGED vars
  BY <1>1 DEF vars, IInv, TypeOK, HoldersWillClose, Parenting, Answering,
     Written, Logged, MayLog, Count
<1>2. CASE Finished
  BY <1>1, <1>2 DEF Finished
<1>3. ASSUME NEW c \in Conns, Client(c) \/ Child(c) PROVE IInv'
  BY <1>3, ClientPreserves, ChildPreserves
<1> QED BY <1>1, <1>2, <1>3, ParentPreserves, LoggerPreserves DEF Next

\* The inductive invariant holds in every state of hw5_server.c.
THEOREM Invariance == Spec => []IInv
BY InitInvariant, NextPreserves, PTL DEF Spec

\* Types, and a pipe within its size, for any number of clients.
THEOREM TypeCorrect == Spec => []TypeOK
<1>1. IInv => TypeOK
  BY DEF IInv
<1> QED BY <1>1, Invariance, PTL

\* Nobody keeps a client waiting by a descriptor that was inherited.
THEOREM HoldersCorrect == Spec => []HoldersWillClose
<1>1. IInv => HoldersWillClose
  BY DEF IInv
<1> QED BY <1>1, Invariance, PTL

\* log.txt and the pipe are whole lines, whatever the children and the
\* logger's reads are interleaved like.
THEOREM LinesCorrect == Spec => []LinesWhole
<1>1. IInv => LinesWhole
  BY DEF IInv, Written, Whole, LinesWhole
<1> QED BY <1>1, Invariance, PTL

\* No client gets two lines or one without its answer, and one whose child
\* has answered and gone on has its line, unless the overrun ended the child.
THEOREM OneLineCorrect == Spec => []OneLinePerAnswer
<1>1. IInv => OneLinePerAnswer
  <2> SUFFICES ASSUME IInv, NEW c \in Conns
               PROVE  /\ Cardinality(Lines(log \o fds, c)) <= 1
                      /\ Lines(log \o fds, c) # {} => MayLog(c)
                      /\ Logged(c) => Lines(log \o fds, c) # {}
    BY DEF OneLinePerAnswer, Lines, Logged, MayLog
  <2>1. /\ Lines(log \o fds, c) = {} \/ \E n : Lines(log \o fds, c) = {n}
        /\ Lines(log \o fds, c) # {} => MayLog(c)
        /\ Logged(c) => Lines(log \o fds, c) # {}
    BY DEF IInv, Written
  <2>2. Cardinality(Lines(log \o fds, c)) \in {0, 1}
    BY <2>1, FS_Singleton, FS_EmptySet
  <2> QED BY <2>1, <2>2, SMT
<1> QED BY <1>1, Invariance, PTL
=============================================================================
