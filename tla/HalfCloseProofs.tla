--------------------------- MODULE HalfCloseProofs ---------------------------
(***************************************************************************)
(* For any size of the file, of the buffers and of the connection: in HW4  *)
(* and in HW8's sep samples the client's copy is the server's file, and    *)
(* what the server shows as the message is what is said of it.             *)
(***************************************************************************)
EXTENDS HalfClose, SequenceTheorems, TLAPS

\* Where the server is in its file when it is where in its program.
Position ==
  /\ pos \in Nat /\ size \in Nat /\ pos <= size
  /\ sender = "accept" => pos = 0 /\ size = 0
  /\ sender \in {"shutdown", "read", "ended"} => pos = size
  /\ shut => sender \in {"read", "ended", "killed"}
  /\ sender \in {"read", "ended"} => shut

\* What the client has and what is on its way are the beginning of the file up
\* to that place; a client that was killed may miss the end of it.
Streamed ==
  /\ copy \in Seq(Nat) /\ wire \in Seq(Nat)
  /\ \A k \in 1 .. Len(copy) : copy[k] = k
  /\ \A k \in 1 .. Len(wire) : wire[k] = Len(copy) + k
  /\ Len(copy) + Len(wire) <= pos
  /\ receiver # "killed" => Len(copy) + Len(wire) = pos
  /\ receiver = "killed" => wire = <<>>
  /\ receiver \in {"answer", "ended"} => shut /\ wire = <<>>

Kinds ==
  /\ sender \in {"accept", "send", "shutdown", "read", "ended", "killed"}
  /\ receiver \in {"read", "answer", "ended", "killed"}

IInv == Kinds /\ Position /\ Streamed

\* Nothing has been sent.
LEMMA InitInvariant ==
  ASSUME Init PROVE IInv
BY SMT DEF Init, Start, IInv, Kinds, Position, Streamed

\* A piece of the file, as a sequence.
LEMMA Piece ==
  ASSUME NEW a \in Nat, NEW b \in Nat
  PROVE  /\ Units(a, b) \in Seq(Nat)
         /\ Len(Units(a, b)) = IF a > b THEN 0 ELSE b - a + 1
         /\ Len(Units(a, b)) \in Nat
         /\ \A k \in 1 .. Len(Units(a, b)) : Units(a, b)[k] = a + k - 1
<1> DEFINE n == IF a > b THEN 0 ELSE b - a + 1
<1>1. n \in Nat
  BY SMT
<1>2. Units(a, b) = [k \in 1 .. n |-> a + k - 1]
  BY DEF Units
<1> HIDE DEF n
<1>3. \A k \in 1 .. n : a + k - 1 \in Nat
  BY <1>1, SMT
<1>4. Units(a, b) \in Seq(Nat) /\ Len(Units(a, b)) = n
  BY <1>1, <1>2, <1>3, SMT
<1> QED BY <1>1, <1>2, <1>4 DEF n

\* Writing the next piece of the file, or losing it with the client.
LEMMA WritePiece ==
  ASSUME IInv, NEW s \in Seq(Nat), NEW next,
         \A k \in 1 .. Len(s) : s[k] = pos + k,
         pos + Len(s) <= size, pos' = pos + Len(s),
         Write(s, next), sender = "send",
         next = "send" \/ (next = "shutdown" /\ pos' = size)
  PROVE  IInv'
<1>1. /\ sender' \in {next, "killed"} /\ UNCHANGED <<size, shut, receiver, copy>>
      /\ receiver = "killed" => wire' = wire
      /\ receiver # "killed" => wire' = wire \o s
  BY DEF Write
<1>2. /\ pos \in Nat /\ size \in Nat /\ Len(s) \in Nat /\ ~ shut
      /\ copy \in Seq(Nat) /\ wire \in Seq(Nat)
      /\ Len(copy) \in Nat /\ Len(wire) \in Nat
  BY LenProperties DEF IInv, Position, Streamed
<1>3. Kinds' /\ Position'
  BY <1>1, <1>2, SMT DEF IInv, Kinds, Position
<1>4. CASE receiver = "killed"
  BY <1>1, <1>2, <1>3, <1>4, SMT DEF IInv, Streamed
<1>5. CASE receiver # "killed"
  <2>1. /\ Len(wire') = Len(wire) + Len(s) /\ wire' \in Seq(Nat)
        /\ \A k \in 1 .. Len(wire') :
             wire'[k] = IF k <= Len(wire) THEN wire[k] ELSE s[k - Len(wire)]
    <3>1. /\ wire' = wire \o s /\ Len(wire') = Len(wire) + Len(s)
          /\ wire' \in Seq(Nat)
      BY <1>1, <1>2, <1>5, ConcatProperties
    <3>2. \A k \in 1 .. Len(wire) + Len(s) :
            (wire \o s)[k] = IF k <= Len(wire) THEN wire[k]
                             ELSE s[k - Len(wire)]
      BY <1>2, ConcatProperties
    <3> QED BY <3>1, <3>2
  <2>2. Len(copy) + Len(wire) = pos
    BY <1>5 DEF IInv, Streamed
  <2>3. ASSUME NEW k \in 1 .. Len(wire') PROVE wire'[k] = Len(copy) + k
    <3>1. CASE k <= Len(wire)
      <4>1. k \in 1 .. Len(wire)
        BY <1>2, <3>1, SMT
      <4> QED BY <2>1, <3>1, <4>1 DEF IInv, Streamed
    <3>2. CASE ~ k <= Len(wire)
      <4>1. k - Len(wire) \in 1 .. Len(s)
        BY <1>2, <2>1, <3>2, SMT
      <4>2. wire'[k] = pos + (k - Len(wire))
        BY <2>1, <3>2, <4>1
      <4>3. k \in Nat
        BY SMT
      <4>4. Len(copy) \in Nat /\ Len(wire) \in Nat
        BY <1>2
      <4>5. pos + (k - Len(wire)) = Len(copy) + k
        BY <2>2, <4>3, <4>4, SMT
      <4> QED BY <4>2, <4>5
    <3> QED BY <3>1, <3>2
  <2>4. Len(copy') + Len(wire') = pos'
    BY <1>1, <1>2, <2>1, <2>2, SMT
  <2>5. receiver \notin {"answer", "ended"}
    BY <1>2 DEF IInv, Streamed
  <2> QED BY <1>1, <1>2, <1>3, <1>5, <2>1, <2>3, <2>4, <2>5, SMT
          DEF IInv, Streamed
<1> QED BY <1>3, <1>4, <1>5 DEF IInv

\* The server's own steps.
LEMMA ServerPreserves ==
  ASSUME SizeAssumption, IInv,
         \/ accept \/ SendBlock \/ SendLines \/ Shutdown \/ CloseStream
         \/ ReadBack \/ KillServer
  PROVE  IInv'
<1>1. CASE accept
  BY <1>1, SMT DEF accept, IInv, Kinds, Position, Streamed, SizeAssumption
<1>2. CASE SendBlock
  <2> DEFINE top == IF pos + BUF_SIZE < size THEN pos + BUF_SIZE ELSE size
             s == Units(pos + 1, top)
  <2>1. /\ pos \in Nat /\ size \in Nat /\ BUF_SIZE \in Nat /\ BUF_SIZE > 0
        /\ pos + 1 \in Nat /\ top \in Nat /\ pos <= size /\ pos <= top
        /\ top <= size
    BY SMT DEF IInv, Position, SizeAssumption
  <2>2. /\ sender = "send" /\ pos' = pos + Len(s)
        /\ Write(s, IF Len(s) < BUF_SIZE THEN "shutdown" ELSE "send")
    BY <1>2 DEF SendBlock
  <2> HIDE DEF top
  <2>3. /\ s \in Seq(Nat) /\ Len(s) = IF pos + 1 > top THEN 0 ELSE top - pos
        /\ \A k \in 1 .. Len(s) : s[k] = pos + 1 + k - 1
    <3>1. Len(s) = IF pos + 1 > top THEN 0 ELSE top - (pos + 1) + 1
      BY <2>1, Piece
    <3>2. s \in Seq(Nat) /\ \A k \in 1 .. Len(s) : s[k] = pos + 1 + k - 1
      BY <2>1, Piece
    <3>3. Len(s) = IF pos + 1 > top THEN 0 ELSE top - pos
      BY <2>1, <3>1, SMT
    <3> QED BY <3>2, <3>3
  <2> HIDE DEF s
  <2>4. Len(s) = top - pos /\ Len(s) \in Nat
    BY <2>1, <2>3, SMT
  <2>5. \A k \in 1 .. Len(s) : s[k] = pos + k
    BY <2>1, <2>3, <2>4, SMT
  <2>6. /\ pos + Len(s) <= size
        /\ Len(s) < BUF_SIZE => pos + Len(s) = size
    BY <2>1, <2>4, SMT DEF top
  <2> QED BY <2>2, <2>3, <2>5, <2>6, WritePiece
<1>3. CASE SendLines
  <2>1. CASE pos < size
    <3> DEFINE s == <<pos + 1>>
    <3>1. pos \in Nat /\ size \in Nat
      BY DEF IInv, Position
    <3>2. /\ s \in Seq(Nat) /\ Len(s) = 1 /\ \A k \in 1 .. Len(s) : s[k] = pos + k
      BY <3>1, SMT
    <3>3. sender = "send" /\ Write(s, "send") /\ pos' = pos + 1
      BY <1>3, <2>1 DEF SendLines
    <3> HIDE DEF s
    <3>4. pos + Len(s) <= size
      BY <2>1, <3>1, <3>2, SMT
    <3> QED BY <3>2, <3>3, <3>4, WritePiece
  <2>2. CASE ~ pos < size
    <3>1. pos = size
      BY <2>2, SMT DEF IInv, Position
    <3> QED BY <1>3, <2>2, <3>1, SMT
            DEF SendLines, IInv, Kinds, Position, Streamed
  <2> QED BY <2>1, <2>2
<1>4. CASE Shutdown \/ CloseStream \/ ReadBack \/ KillServer
  <2>1. /\ UNCHANGED <<size, pos, wire, receiver, copy>> /\ shut'
        /\ sender' \in {"read", "ended", "killed"}
        /\ sender' # "killed" => sender \in {"shutdown", "read"}
    BY <1>4 DEF Shutdown, CloseStream, ReadBack, KillServer, IInv, Position
  <2>2. Kinds'
    BY <2>1 DEF IInv, Kinds
  <2>3. Position'
    BY <2>1 DEF IInv, Position
  <2>4. Streamed'
    BY <2>1 DEF IInv, Streamed
  <2> QED BY <2>2, <2>3, <2>4 DEF IInv
<1> QED BY <1>1, <1>2, <1>3, <1>4

\* The client's.
LEMMA ClientPreserves ==
  ASSUME SizeAssumption, IInv, Receive \/ EndOfFile \/ Answer \/ KillClient
  PROVE  IInv'
<1>1. CASE Receive
  <2>1. /\ copy \in Seq(Nat) /\ wire \in Seq(Nat) /\ Len(wire) \in Nat
        /\ Len(copy) \in Nat /\ wire # <<>> /\ receiver = "read"
        /\ UNCHANGED <<sender, size, pos, shut, receiver>>
        /\ BUF_SIZE \in Nat
    BY <1>1, LenProperties DEF Receive, IInv, Streamed, SizeAssumption
  <2>2. PICK n \in 1 .. (IF Len(wire) < BUF_SIZE THEN Len(wire) ELSE BUF_SIZE) :
          /\ copy' = copy \o SubSeq(wire, 1, n)
          /\ wire' = SubSeq(wire, n + 1, Len(wire))
    BY <1>1 DEF Receive
  <2>3. n \in Nat /\ n > 0 /\ n <= Len(wire)
    BY <2>1, <2>2, SMT
  <2> DEFINE s == SubSeq(wire, 1, n)
  <2>4. /\ s \in Seq(Nat) /\ Len(s) = n
        /\ \A k \in 1 .. n : s[k] = wire[k]
    BY <2>1, <2>3, SMT
  <2>5. /\ wire' \in Seq(Nat) /\ Len(wire') = Len(wire) - n
        /\ \A k \in 1 .. Len(wire') : wire'[k] = wire[n + k]
    <3>1. n + 1 \in 1 .. Len(wire) + 1 /\ Len(wire) - (n + 1) + 1 = Len(wire) - n
      BY <2>1, <2>3, SMT
    <3>2. n + 1 \in Int /\ Len(wire) \in Int
      BY <2>1, <2>3, SMT
    <3>3. \A k \in n + 1 .. Len(wire) : wire[k] \in Nat
      BY <2>1, <2>3, SMT
    <3>4. Len(wire') = IF n + 1 <= Len(wire) THEN Len(wire) - (n + 1) + 1 ELSE 0
      BY <2>2, <3>2, <3>3, SubSeqProperties
    <3>5. (IF n + 1 <= Len(wire) THEN Len(wire) - (n + 1) + 1 ELSE 0) = Len(wire) - n
      BY <2>1, <2>3, SMT
    <3>6. /\ wire' \in Seq(Nat)
          /\ \A k \in 1 .. Len(wire) - (n + 1) + 1 :
               wire'[k] = wire[(n + 1) + k - 1]
      BY <2>2, <3>2, <3>3, SubSeqProperties
    <3>7. \A k \in 1 .. Len(wire') : (n + 1) + k - 1 = n + k
      BY <2>1, <2>3, SMT
    <3> QED BY <3>1, <3>4, <3>5, <3>6, <3>7
  <2> HIDE DEF s
  <2>6. /\ copy' \in Seq(Nat) /\ Len(copy') = Len(copy) + n
        /\ \A k \in 1 .. Len(copy') :
             copy'[k] = IF k <= Len(copy) THEN copy[k] ELSE s[k - Len(copy)]
    BY <2>1, <2>2, <2>4, ConcatProperties DEF s
  <2>7. ASSUME NEW k \in 1 .. Len(copy') PROVE copy'[k] = k
    <3>1. CASE k <= Len(copy)
      <4>1. k \in 1 .. Len(copy)
        BY <2>1, <3>1, SMT
      <4> QED BY <2>6, <3>1, <4>1 DEF IInv, Streamed
    <3>2. CASE ~ k <= Len(copy)
      <4>1. k - Len(copy) \in 1 .. n /\ k - Len(copy) \in 1 .. Len(wire)
        BY <2>1, <2>3, <2>6, <3>2, SMT
      <4>2. copy'[k] = Len(copy) + (k - Len(copy))
        BY <2>4, <2>6, <3>2, <4>1 DEF IInv, Streamed
      <4> QED BY <2>1, <4>2, SMT
    <3> QED BY <3>1, <3>2
  <2>8. ASSUME NEW k \in 1 .. Len(wire') PROVE wire'[k] = Len(copy') + k
    <3>1. n + k \in 1 .. Len(wire)
      BY <2>1, <2>3, <2>5, SMT
    <3>2. wire'[k] = Len(copy) + (n + k)
      BY <2>5, <3>1 DEF IInv, Streamed
    <3> QED BY <2>1, <2>3, <2>6, <3>2, SMT
  <2>9. Len(copy') + Len(wire') = pos' /\ pos' \in Nat
    <3>1. Len(copy) + Len(wire) = pos /\ pos \in Nat
      BY <2>1 DEF IInv, Streamed, Position
    <3>2. /\ Len(copy) \in Nat /\ Len(wire) \in Nat /\ n \in Nat
          /\ Len(copy') = Len(copy) + n /\ Len(wire') = Len(wire) - n
          /\ pos' = pos
      BY <2>1, <2>3, <2>5, <2>6
    <3> QED BY <3>1, <3>2, SMT
  <2>10. Kinds' /\ Position'
    BY <2>1 DEF IInv, Kinds, Position
  <2> QED BY <2>1, <2>5, <2>6, <2>7, <2>8, <2>9, <2>10, SMT DEF IInv, Streamed
<1>2. CASE EndOfFile \/ Answer
  BY <1>2, SMT DEF EndOfFile, Answer, IInv, Kinds, Position, Streamed
<1>3. CASE KillClient
  <2>1. Len(copy) \in Nat /\ Len(wire) \in Nat /\ pos \in Nat
    BY LenProperties DEF IInv, Streamed, Position
  <2> QED BY <1>3, <2>1, SMT DEF KillClient, IInv, Kinds, Position, Streamed
<1> QED BY <1>1, <1>2, <1>3

\* No step of server or client breaks the invariant.
LEMMA NextPreserves ==
  ASSUME SizeAssumption, IInv, [Next]_vars
  PROVE  IInv'
<1>1. CASE Finished \/ UNCHANGED vars
  <2>1. UNCHANGED <<sender, size, pos, wire, shut, receiver, copy>>
    BY <1>1 DEF Finished, vars
  <2>2. Kinds' /\ Position'
    BY <2>1 DEF IInv, Kinds, Position
  <2>3. Streamed'
    BY <2>1 DEF IInv, Streamed
  <2> QED BY <2>2, <2>3 DEF IInv
<1> QED BY <1>1, ServerPreserves, ClientPreserves DEF Next, Server, Client

\* What the client has, from the invariant.
LEMMA InvariantCopy ==
  ASSUME IInv PROVE CopyIsFile
<1>1. /\ copy \in Seq(Nat) /\ Len(copy) \in Nat /\ Len(wire) \in Nat
      /\ size \in Nat /\ pos \in Nat /\ pos <= size
      /\ Len(copy) + Len(wire) <= pos
  BY LenProperties DEF IInv, Streamed, Position
<1>2. ASSUME NEW n \in Nat, Len(copy) = n PROVE copy = Units(1, n)
  <2>1. Len(Units(1, n)) = n /\ Units(1, n) \in Seq(Nat)
    <3>1. /\ Units(1, n) \in Seq(Nat)
          /\ Len(Units(1, n)) = IF 1 > n THEN 0 ELSE n - 1 + 1
      BY Piece
    <3>2. (IF 1 > n THEN 0 ELSE n - 1 + 1) = n
      BY SMT
    <3> QED BY <3>1, <3>2
  <2>2. \A k \in 1 .. n : Units(1, n)[k] = k /\ copy[k] = k
    <3>1. \A k \in 1 .. n : Units(1, n)[k] = 1 + k - 1
      BY <2>1, Piece
    <3>2. \A k \in 1 .. n : 1 + k - 1 = k
      BY SMT
    <3> QED BY <1>2, <3>1, <3>2 DEF IInv, Streamed
  <2> QED BY <1>1, <1>2, <2>1, <2>2, SeqEqual
<1>3. Len(copy) \in 0 .. size
  BY <1>1, SMT
<1>4. ASSUME receiver \in {"answer", "ended"}, sender # "killed"
      PROVE  Len(copy) = size
  <2>1. wire = <<>> /\ shut /\ receiver # "killed"
    BY <1>4 DEF IInv, Streamed
  <2>2. pos = size
    BY <1>4, <2>1 DEF IInv, Position
  <2>3. Len(wire) = 0
    BY <2>1
  <2> QED BY <1>1, <2>1, <2>2, <2>3, SMT DEF IInv, Streamed
<1> QED BY <1>1, <1>2, <1>3, <1>4 DEF CopyIsFile

\* The inductive invariant holds in every state of the four servers.
THEOREM Invariance ==
  ASSUME SizeAssumption
  PROVE  Spec => []IInv
<1>1. Init => IInv
  BY InitInvariant
<1>2. IInv /\ [Next]_vars => IInv'
  BY NextPreserves
<1> QED BY <1>1, <1>2, PTL DEF Spec

\* Whatever the sizes, and wherever TCP and fread() cut the file, a client that
\* takes its copy for complete has all of it, unless the server was killed.
THEOREM CopyCorrect ==
  ASSUME SizeAssumption
  PROVE  Spec => []CopyIsFile
<1>1. IInv => CopyIsFile
  BY InvariantCopy
<1> QED BY <1>1, Invariance, PTL

-----------------------------------------------------------------------------
(* What the servers show. *)

\* hw4_server.c and file_server.c have their last pieces in buf, the others
\* never use it; a client that has come to its end has answered, and what the
\* server shows after that is its answer or what was in buf.
Printing ==
  /\ prog \in {"hw4", "file"} /\ sender \in {"accept", "send", "shutdown", "read"} =>
       buf = LastPieces(pos)
  /\ prog \in {"hw4", "file"} /\ sender = "send" => pos % BUF_SIZE = 0
  /\ prog \in {"sep", "sep2"} /\ sender # "ended" => buf = <<>>
  /\ prog = "sep" => sender # "read"
  /\ receiver \in {"read", "answer"} => back = "none"
  /\ receiver = "ended" => back = IF prog = "hw4" THEN "closed" ELSE "thanks"
  /\ sender = "ended" /\ receiver # "killed" =>
       shown = CASE prog \in {"file", "sep2"} -> <<Thanks>>
                 [] prog = "sep" -> <<>>
                 [] prog = "hw4" -> LastPieces(size)
FullInv == IInv /\ TypeOK /\ Printing

\* Whole blocks, and what is over.
LEMMA Blocks ==
  ASSUME NEW n \in Nat, NEW b \in Nat \ {0}, n % b = 0
  PROVE  /\ (n + b) % b = 0
         /\ n < b => n = 0
         /\ \A r \in 0 .. b - 1 : (n + r) % b = r
<1>1. \A m \in Nat : /\ m = b * (m \div b) + (m % b)
                     /\ m % b \in 0 .. b - 1 /\ m \div b \in Nat
  BY SMT
<1> DEFINE q == n \div b
           p == (n + b) \div b
           r == (n + b) % b
<1>2. n + b \in Nat
  BY SMT
<1>3. /\ n = b * q + 0 /\ q \in Nat /\ p \in Nat
      /\ n + b = b * p + r /\ r \in 0 .. b - 1
  BY <1>1, <1>2
<1> HIDE DEF q, p, r
<1>4. r = 0
  <2> DEFINE x == q + 1 - p
  <2>1. x \in Int /\ b * x = r
    <3>1. b * x = b * q + b - b * p
      BY <1>3, SMT
    <3> QED BY <1>3, <3>1, SMT
  <2> HIDE DEF x
  <2>2. x >= 1 => b * x >= b
    BY <2>1, SMT
  <2>3. x <= -1 => b * x < 0
    BY <2>1, SMT
  <2>4. x = 0 => b * x = 0
    BY SMT
  <2>5. x >= 1 \/ x <= -1 \/ x = 0
    BY <2>1, SMT
  <2> QED BY <1>3, <2>1, <2>2, <2>3, <2>4, <2>5, SMT
<1>5. \A s \in 0 .. b - 1 : (n + s) % b = s
  BY SMT
<1>6. n < b => n = 0
  BY SMT
<1> QED BY <1>4, <1>5, <1>6 DEF r

\* A sequence over a set is one over a larger set.
LEMMA Wider ==
  ASSUME NEW S, NEW T, S \subseteq T, NEW s \in Seq(S)
  PROVE  s \in Seq(T)
BY SMT

\* A read into buf: the beginning is what was read, the rest stays.
LEMMA Overlaid ==
  ASSUME NEW S, NEW s \in Seq(S), buf \in Seq(S)
  PROVE  /\ Overlay(s) \in Seq(S) /\ Len(s) \in Nat /\ Len(buf) \in Nat
         /\ Len(Overlay(s)) = IF Len(buf) < Len(s) THEN Len(s) ELSE Len(buf)
         /\ \A k \in 1 .. Len(Overlay(s)) :
              Overlay(s)[k] = IF k <= Len(s) THEN s[k] ELSE buf[k]
<1> DEFINE t == SubSeq(buf, Len(s) + 1, Len(buf))
<1>1. Len(s) \in Nat /\ Len(buf) \in Nat
  BY LenProperties
<1>2. /\ t \in Seq(S)
      /\ Len(t) = IF Len(buf) < Len(s) THEN 0 ELSE Len(buf) - Len(s)
      /\ \A k \in 1 .. Len(t) : t[k] = buf[Len(s) + k]
  BY <1>1, SMTT(20)
<1>3. Overlay(s) = s \o t
  BY DEF Overlay
<1> HIDE DEF t
<1>4. /\ s \o t \in Seq(S) /\ Len(s \o t) = Len(s) + Len(t)
      /\ \A k \in 1 .. Len(s) + Len(t) :
           (s \o t)[k] = IF k <= Len(s) THEN s[k] ELSE t[k - Len(s)]
  BY <1>2, ConcatProperties
<1>5. Len(s) + Len(t) = IF Len(buf) < Len(s) THEN Len(s) ELSE Len(buf)
  BY <1>1, <1>2, SMT
<1>6. ASSUME NEW k \in 1 .. Len(s) + Len(t), ~ k <= Len(s)
      PROVE  t[k - Len(s)] = buf[k]
  <2>1. k - Len(s) \in 1 .. Len(t) /\ Len(s) + (k - Len(s)) = k
    BY <1>1, <1>2, <1>6, SMT
  <2> QED BY <1>2, <2>1
<1> QED BY <1>1, <1>3, <1>4, <1>5, <1>6

\* LastPieces(n), unit by unit.
LEMMA LastUnits ==
  ASSUME SizeAssumption, NEW n \in Nat
  PROVE  /\ LastPieces(n) \in Seq(Nat)
         /\ n % BUF_SIZE \in 0 .. BUF_SIZE - 1
         /\ n < BUF_SIZE => n % BUF_SIZE = n
         /\ Len(LastPieces(n)) = IF n < BUF_SIZE THEN n ELSE BUF_SIZE
         /\ \A k \in 1 .. Len(LastPieces(n)) :
              LastPieces(n)[k] =
                IF k <= n % BUF_SIZE THEN n - (n % BUF_SIZE) + k
                                     ELSE n - BUF_SIZE + (k - (n % BUF_SIZE))
<1> DEFINE r == n % BUF_SIZE
           b == BUF_SIZE
           s == Units(n - r + 1, n)
           t == IF n < b THEN <<>> ELSE Units(n - b + 1, n - r)
<1>1. /\ b \in Nat /\ b > 0 /\ r \in 0 .. b - 1 /\ r <= n
      /\ n < b => r = n
  <2>1. b \in Nat \ {0}
    BY DEF SizeAssumption
  <2>2. r \in 0 .. b - 1 /\ (n < b => r = n)
    BY <2>1, SMT
  <2> HIDE DEF r, b
  <2> QED BY <2>1, <2>2, SMT
<1>2. LastPieces(n) = s \o t
  BY DEF LastPieces
<1> HIDE DEF r, b
<1>3. /\ s \in Seq(Nat) /\ Len(s) = r
      /\ \A k \in 1 .. Len(s) : s[k] = n - r + k
  <2>1. n - r + 1 \in Nat
    BY <1>1, SMT
  <2>2. /\ s \in Seq(Nat)
        /\ Len(s) = IF n - r + 1 > n THEN 0 ELSE n - (n - r + 1) + 1
        /\ \A k \in 1 .. Len(s) : s[k] = (n - r + 1) + k - 1
    BY <2>1, Piece
  <2> HIDE DEF s
  <2> QED BY <1>1, <2>2, SMT
<1>4. /\ t \in Seq(Nat) /\ Len(t) = IF n < b THEN 0 ELSE b - r
      /\ \A k \in 1 .. Len(t) : t[k] = n - b + k
  <2>1. CASE n < b
    <3>1. t = <<>>
      BY <2>1
    <3> HIDE DEF t
    <3> QED BY <2>1, <3>1, SMT
  <2>2. CASE ~ n < b
    <3>1. n - b + 1 \in Nat /\ n - r \in Nat
      BY <1>1, <2>2, SMT
    <3>2. t = Units(n - b + 1, n - r)
      BY <2>2
    <3> HIDE DEF t
    <3>3. /\ t \in Seq(Nat)
          /\ Len(t) = IF n - b + 1 > n - r THEN 0 ELSE n - r - (n - b + 1) + 1
          /\ \A k \in 1 .. Len(t) : t[k] = (n - b + 1) + k - 1
      BY <3>1, <3>2, Piece
    <3> QED BY <1>1, <2>2, <3>3, SMT
  <2> QED BY <2>1, <2>2
<1> HIDE DEF s, t
<1>5. /\ s \o t \in Seq(Nat) /\ Len(s \o t) = Len(s) + Len(t)
      /\ \A k \in 1 .. Len(s) + Len(t) :
           (s \o t)[k] = IF k <= Len(s) THEN s[k] ELSE t[k - Len(s)]
  BY <1>3, <1>4, ConcatProperties
<1>6. Len(s) + Len(t) = IF n < b THEN n ELSE b
  BY <1>1, <1>3, <1>4, SMT
<1>7. ASSUME NEW k \in 1 .. Len(s) + Len(t)
      PROVE  (s \o t)[k] = IF k <= r THEN n - r + k ELSE n - b + (k - r)
  <2>1. CASE k <= r
    <3>1. k \in 1 .. Len(s)
      BY <1>1, <1>3, <2>1, SMT
    <3> QED BY <1>3, <1>5, <2>1, <3>1
  <2>2. CASE ~ k <= r
    <3>1. k - r \in 1 .. Len(t)
      BY <1>1, <1>3, <1>4, <2>2, SMT
    <3> QED BY <1>3, <1>4, <1>5, <2>2, <3>1
  <2> QED BY <2>1, <2>2
<1>8. /\ LastPieces(n) \in Seq(Nat) /\ r \in 0 .. b - 1 /\ (n < b => r = n)
      /\ Len(LastPieces(n)) = IF n < b THEN n ELSE b
      /\ \A k \in 1 .. Len(LastPieces(n)) :
           LastPieces(n)[k] = IF k <= r THEN n - r + k ELSE n - b + (k - r)
  BY <1>1, <1>2, <1>5, <1>6, <1>7
<1> QED BY <1>8 DEF r, b

\* One piece more.
LEMMA NextPiece ==
  ASSUME SizeAssumption, pos \in Nat, pos % BUF_SIZE = 0,
         buf = LastPieces(pos), NEW s \in Seq(Nat), Len(s) <= BUF_SIZE,
         \A k \in 1 .. Len(s) : s[k] = pos + k
  PROVE  /\ Overlay(s) = LastPieces(pos + Len(s))
         /\ Len(s) = BUF_SIZE => (pos + Len(s)) % BUF_SIZE = 0
<1> DEFINE r == Len(s)
           b == BUF_SIZE
           n == pos + r
           o == Overlay(s)
           p == LastPieces(n)
<1>1. /\ b \in Nat \ {0} /\ b \in Nat /\ b > 0 /\ r \in Nat /\ n \in Nat
      /\ r <= b
  BY LenProperties, SMT DEF SizeAssumption
<1>2. /\ (pos + b) % b = 0 /\ (pos < b => pos = 0)
      /\ \A k \in 0 .. b - 1 : (pos + k) % b = k
  BY <1>1, Blocks
<1>3. n % b = IF r = b THEN 0 ELSE r
  <2>1. CASE r = b
    BY <1>2, <2>1
  <2>2. CASE r # b
    <3>1. r \in 0 .. b - 1
      BY <1>1, <2>2, SMT
    <3> QED BY <1>2, <2>2, <3>1
  <2> QED BY <2>1, <2>2
<1>4. /\ buf \in Seq(Nat) /\ Len(buf) = IF pos < b THEN pos ELSE b
      /\ \A k \in 1 .. Len(buf) : buf[k] = pos - b + k
  <2>1. /\ buf \in Seq(Nat) /\ Len(buf) = IF pos < b THEN pos ELSE b
        /\ \A k \in 1 .. Len(buf) :
             buf[k] = IF k <= 0 THEN pos - 0 + k ELSE pos - b + (k - 0)
    <3>1. /\ LastPieces(pos) \in Seq(Nat)
          /\ Len(LastPieces(pos)) = IF pos < BUF_SIZE THEN pos ELSE BUF_SIZE
          /\ \A k \in 1 .. Len(LastPieces(pos)) :
               LastPieces(pos)[k] =
                 IF k <= pos % BUF_SIZE THEN pos - (pos % BUF_SIZE) + k
                 ELSE pos - BUF_SIZE + (k - (pos % BUF_SIZE))
      BY LastUnits
    <3> QED BY <3>1, Zenon
  <2> HIDE DEF b
  <2>2. \A k \in 1 .. Len(buf) : ~ k <= 0 /\ k - 0 = k
    BY SMT
  <2> QED BY <2>1, <2>2
<1>5. /\ o \in Seq(Nat) /\ Len(buf) \in Nat
      /\ Len(o) = IF Len(buf) < r THEN r ELSE Len(buf)
      /\ \A k \in 1 .. Len(o) : o[k] = IF k <= r THEN s[k] ELSE buf[k]
  BY <1>4, Overlaid
<1>6. /\ p \in Seq(Nat) /\ Len(p) = IF n < b THEN n ELSE b
      /\ \A k \in 1 .. Len(p) :
           p[k] = IF k <= n % b THEN n - (n % b) + k ELSE n - b + (k - (n % b))
  BY <1>1, LastUnits
<1> HIDE DEF b, n, o, p
<1> DEFINE m == n % b
<1>7. m = IF r = b THEN 0 ELSE r
  BY <1>3
<1>8. /\ \A k \in 1 .. Len(p) :
           p[k] = IF k <= m THEN n - m + k ELSE n - b + (k - m)
  BY <1>6
<1> HIDE DEF b, n, o, p, m
<1>9. n = pos + Len(s) /\ r = Len(s)
  BY DEF n
<1> HIDE DEF r
<1>10. Len(o) = Len(p)
  BY <1>1, <1>2, <1>4, <1>5, <1>6, <1>9, SMT
<1>11. ASSUME NEW k \in 1 .. Len(o) PROVE o[k] = p[k]
  <2>1. CASE k <= r
    <3>1. o[k] = pos + k
      <4>1. k \in 1 .. Len(s)
        BY <1>1, <1>9, <2>1, SMT
      <4> QED BY <1>5, <2>1, <4>1
    <3>2. p[k] = pos + k
      <4>1. CASE r = b
        <5>1. p[k] = n - b + (k - 0)
          <6>1. ~ k <= 0
            BY SMT
          <6> QED BY <1>7, <1>8, <1>10, <4>1, <6>1
        <5>2. n = pos + b
          BY <1>9, <4>1
        <5> QED BY <1>1, <5>1, <5>2, SMT
      <4>2. CASE r # b
        <5>1. p[k] = n - r + k
          BY <1>7, <1>8, <1>10, <2>1, <4>2
        <5> QED BY <1>1, <1>9, <5>1, SMT
      <4> QED BY <4>1, <4>2
    <3> QED BY <3>1, <3>2
  <2>2. CASE ~ k <= r
    <3>1. k \in 1 .. Len(buf) /\ r # b
      BY <1>1, <1>4, <1>5, <2>2, SMT
    <3>2. o[k] = pos - b + k
      BY <1>4, <1>5, <2>2, <3>1
    <3>3. p[k] = n - b + (k - r)
      BY <1>7, <1>8, <1>10, <2>2, <3>1
    <3> QED BY <1>1, <1>9, <3>2, <3>3, SMT
  <2> QED BY <2>1, <2>2
<1>12. o = p
  BY <1>5, <1>6, <1>10, <1>11, SeqEqual
<1> QED BY <1>2, <1>9, <1>12 DEF o, p, n, b, r

\* Writing a piece disturbs neither the types nor what will be shown.
LEMMA WriteFull ==
  ASSUME SizeAssumption, FullInv, UNCHANGED prog, sender = "send",
         NEW s \in Seq(Sent), NEW next \in {"send", "shutdown"},
         Write(s, next), pos' \in Sent, buf' \in Seq(Sent),
         Len(buf') <= BUF_SIZE,
         prog \in {"hw4", "file"} =>
           buf' = LastPieces(pos') /\ (next = "send" => pos' % BUF_SIZE = 0),
         prog \in {"sep", "sep2"} => buf' = buf
  PROVE  TypeOK' /\ Printing'
<1>1. /\ sender' \in {next, "killed"}
      /\ UNCHANGED <<size, shut, receiver, copy, back, shown>>
      /\ wire' = wire \/ wire' = wire \o s
      /\ wire' # wire => Len(wire) + Len(s) <= WireMax
  BY DEF Write
<1>2. wire' \in Seq(Sent) /\ Len(wire') <= WireMax
  <2>1. wire \in Seq(Sent) /\ Len(wire) <= WireMax
    BY DEF FullInv, TypeOK
  <2>2. wire \o s \in Seq(Sent) /\ Len(wire \o s) = Len(wire) + Len(s)
    BY <2>1, ConcatProperties
  <2> QED BY <1>1, <2>1, <2>2
<1>3. Sent' = Sent
  BY <1>1 DEF Sent
<1>4. TypeOK'
  BY <1>1, <1>2, <1>3 DEF FullInv, TypeOK
<1>5. Printing'
  BY <1>1 DEF FullInv, Printing
<1> QED BY <1>4, <1>5

\* The server's steps.
LEMMA ServerFull ==
  ASSUME SizeAssumption, FullInv, UNCHANGED prog,
         \/ accept \/ SendBlock \/ SendLines \/ Shutdown \/ CloseStream
         \/ ReadBack \/ KillServer
  PROVE  TypeOK' /\ Printing'
<1>1. /\ pos \in Nat /\ size \in Nat /\ pos <= size
      /\ BUF_SIZE \in Nat /\ BUF_SIZE > 0
      /\ buf \in Seq(Sent) /\ Len(buf) <= BUF_SIZE /\ Len(buf) \in Nat
      /\ wire \in Seq(Sent) /\ copy \in Seq(Sent) /\ shown \in Seq(Sent)
      /\ prog \in Programs
  BY LenProperties DEF FullInv, IInv, Position, TypeOK, SizeAssumption
<1>2. CASE accept
  <2>1. /\ sender = "accept" /\ sender' = "send" /\ size' \in Sizes
        /\ UNCHANGED <<pos, buf, wire, shut, receiver, copy, back, shown>>
    BY <1>2 DEF accept
  <2>2. pos = 0 /\ size = 0 /\ size' \in Nat
    BY <2>1 DEF FullInv, IInv, Position, SizeAssumption
  <2>3. Sent \subseteq Sent' /\ pos' \in Sent'
    BY <2>1, <2>2, SMT DEF Sent
  <2>4. /\ buf' \in Seq(Sent') /\ wire' \in Seq(Sent')
        /\ copy' \in Seq(Sent') /\ shown' \in Seq(Sent')
    BY <1>1, <2>1, <2>3, Wider
  <2>5. TypeOK'
    BY <2>1, <2>3, <2>4 DEF FullInv, TypeOK
  <2>6. 0 % BUF_SIZE = 0
    BY <1>1, SMT
  <2>7. Printing'
    BY <2>1, <2>2, <2>6 DEF FullInv, Printing
  <2> QED BY <2>5, <2>7
<1>3. CASE SendBlock
  <2> DEFINE top == IF pos + BUF_SIZE < size THEN pos + BUF_SIZE ELSE size
             s == Units(pos + 1, top)
  <2>1. /\ pos + 1 \in Nat /\ top \in Nat /\ pos <= top /\ top <= size
        /\ top <= pos + BUF_SIZE
        /\ top < pos + BUF_SIZE => top = size
    BY <1>1, SMT
  <2>2. /\ sender = "send" /\ pos' = pos + Len(s) /\ buf' = Overlay(s)
        /\ Write(s, IF Len(s) < BUF_SIZE THEN "shutdown" ELSE "send")
        /\ prog \in {"hw4", "file"}
    BY <1>3 DEF SendBlock
  <2> HIDE DEF top
  <2>3. /\ s \in Seq(Nat) /\ Len(s) = IF pos + 1 > top THEN 0 ELSE top - (pos + 1) + 1
        /\ \A k \in 1 .. Len(s) : s[k] = pos + 1 + k - 1
    BY <2>1, Piece
  <2> HIDE DEF s
  <2>4. Len(s) = top - pos /\ Len(s) \in Nat /\ Len(s) <= BUF_SIZE
    BY <1>1, <2>1, <2>3, SMT
  <2>5. \A k \in 1 .. Len(s) : s[k] = pos + k
    BY <1>1, <2>3, <2>4, SMT
  <2>6. s \in Seq(Sent)
    <3>1. \A k \in 1 .. Len(s) : s[k] \in Sent
      BY <1>1, <2>1, <2>4, <2>5, SMT DEF Sent
    <3> QED BY <2>3, <3>1, SMT
  <2>7. pos' \in Sent
    BY <1>1, <2>1, <2>2, <2>4, SMT DEF Sent
  <2>8. buf' \in Seq(Sent) /\ Len(buf') <= BUF_SIZE
    <3>1. /\ Overlay(s) \in Seq(Sent)
          /\ Len(Overlay(s)) = IF Len(buf) < Len(s) THEN Len(s) ELSE Len(buf)
      BY <1>1, <2>6, Overlaid
    <3> QED BY <1>1, <2>2, <2>4, <3>1
  <2>9. /\ buf' = LastPieces(pos')
        /\ Len(s) = BUF_SIZE => pos' % BUF_SIZE = 0
    <3>1. buf = LastPieces(pos) /\ pos % BUF_SIZE = 0
      BY <2>2 DEF FullInv, Printing
    <3> QED BY <1>1, <2>2, <2>3, <2>4, <2>5, <3>1, NextPiece
  <2>10. ~ Len(s) < BUF_SIZE => Len(s) = BUF_SIZE
    BY <1>1, <2>4, SMT
  <2> DEFINE next == IF Len(s) < BUF_SIZE THEN "shutdown" ELSE "send"
  <2>11. /\ next \in {"send", "shutdown"} /\ Write(s, next)
         /\ next = "send" => pos' % BUF_SIZE = 0
    BY <2>2, <2>9, <2>10
  <2> HIDE DEF next
  <2> QED BY <2>2, <2>6, <2>7, <2>8, <2>9, <2>11, WriteFull
<1>4. CASE SendLines
  <2>1. sender = "send" /\ prog \in {"sep", "sep2"} /\ buf' = buf
    BY <1>4 DEF SendLines
  <2>2. CASE pos < size
    <3>1. Write(<<pos + 1>>, "send") /\ pos' = pos + 1
      BY <1>4, <2>1, <2>2 DEF SendLines
    <3>2. pos + 1 \in Sent /\ pos' \in Sent
      BY <1>1, <2>2, <3>1, SMT DEF Sent
    <3>3. <<pos + 1>> \in Seq(Sent)
      BY <3>2, SMT
    <3> QED BY <1>1, <2>1, <3>1, <3>2, <3>3, WriteFull
  <2>3. CASE ~ pos < size
    <3>1. /\ sender' = "shutdown"
          /\ UNCHANGED <<pos, size, wire, shut, receiver, copy, back, shown>>
      BY <1>4, <2>3 DEF SendLines
    <3>2. TypeOK'
      BY <2>1, <3>1 DEF FullInv, TypeOK, Sent
    <3>3. Printing'
      BY <2>1, <3>1 DEF FullInv, Printing
    <3> QED BY <3>2, <3>3
  <2> QED BY <2>2, <2>3
<1>5. CASE Shutdown
  <2>1. /\ sender = "shutdown" /\ shut' = TRUE /\ sender' = "read"
        /\ UNCHANGED <<size, pos, buf, wire, receiver, copy, back, shown>>
        /\ prog # "sep"
    BY <1>5 DEF Shutdown
  <2>2. TypeOK'
    BY <2>1 DEF FullInv, TypeOK, Sent
  <2>3. Printing'
    BY <2>1 DEF FullInv, Printing
  <2> QED BY <2>2, <2>3
<1>6. CASE CloseStream
  <2>1. /\ sender = "shutdown" /\ prog = "sep" /\ shut' = TRUE
        /\ shown' = buf /\ sender' = "ended"
        /\ UNCHANGED <<size, pos, buf, wire, receiver, copy, back>>
    BY <1>6 DEF CloseStream
  <2>2. TypeOK'
    BY <2>1 DEF FullInv, TypeOK, Sent
  <2>3. Printing'
    BY <2>1 DEF FullInv, Printing
  <2> QED BY <2>2, <2>3
<1>7. CASE ReadBack
  <2>1. /\ sender = "read" /\ back # "none" /\ sender' = "ended"
        /\ buf' = IF back = "thanks" THEN <<Thanks>> ELSE buf
        /\ shown' = buf'
        /\ UNCHANGED <<size, pos, wire, shut, receiver, copy, back>>
    BY <1>7 DEF ReadBack
  <2>2. <<Thanks>> \in Seq(Sent) /\ Len(<<Thanks>>) <= BUF_SIZE
    BY <1>1, SMT DEF Sent, Thanks
  <2>3. shut /\ pos = size
    BY <2>1 DEF FullInv, IInv, Position
  <2>4. buf' \in Seq(Sent) /\ Len(buf') <= BUF_SIZE
    BY <1>1, <2>1, <2>2
  <2>5. TypeOK'
    BY <2>1, <2>3, <2>4 DEF FullInv, TypeOK, Sent
  <2>6. receiver # "killed" => receiver = "ended"
    BY <2>1 DEF FullInv, TypeOK, Printing
  <2>7. ASSUME receiver # "killed"
        PROVE  shown' = CASE prog \in {"file", "sep2"} -> <<Thanks>>
                          [] prog = "sep" -> <<>>
                          [] prog = "hw4" -> LastPieces(size)
    <3>1. back = IF prog = "hw4" THEN "closed" ELSE "thanks"
      BY <2>6, <2>7 DEF FullInv, Printing
    <3>2. prog # "sep"
      BY <2>1 DEF FullInv, Printing
    <3>3. prog = "hw4" => buf = LastPieces(pos)
      BY <2>1 DEF FullInv, Printing
    <3> QED BY <1>1, <2>1, <2>3, <3>1, <3>2, <3>3 DEF Programs
  <2>8. Printing'
    BY <2>1, <2>7 DEF FullInv, Printing
  <2> QED BY <2>5, <2>8
<1>8. CASE KillServer
  <2>1. /\ sender' = "killed" /\ shut' = TRUE
        /\ UNCHANGED <<size, pos, buf, wire, receiver, copy, back, shown>>
        /\ sender # "ended"
    BY <1>8 DEF KillServer
  <2>2. TypeOK'
    BY <2>1 DEF FullInv, TypeOK, Sent
  <2>3. Printing'
    BY <2>1 DEF FullInv, Printing
  <2> QED BY <2>2, <2>3
<1> QED BY <1>2, <1>3, <1>4, <1>5, <1>6, <1>7, <1>8

\* The client's.
LEMMA ClientFull ==
  ASSUME SizeAssumption, FullInv, UNCHANGED prog,
         Receive \/ EndOfFile \/ Answer \/ KillClient
  PROVE  TypeOK' /\ Printing'
<1>1. CASE Receive
  <2>1. /\ copy \in Seq(Sent) /\ wire \in Seq(Sent) /\ Len(wire) \in Nat
        /\ Len(wire) <= WireMax
        /\ BUF_SIZE \in Nat /\ WireMax \in Nat
        /\ UNCHANGED <<sender, size, pos, buf, shut, receiver, back, shown>>
    BY <1>1, LenProperties DEF Receive, FullInv, TypeOK, SizeAssumption
  <2>2. PICK n \in 1 .. (IF Len(wire) < BUF_SIZE THEN Len(wire) ELSE BUF_SIZE) :
          /\ copy' = copy \o SubSeq(wire, 1, n)
          /\ wire' = SubSeq(wire, n + 1, Len(wire))
    BY <1>1 DEF Receive
  <2>3. n \in Nat /\ n > 0 /\ n <= Len(wire)
    BY <2>1, <2>2, SMT
  <2>4. /\ copy' \in Seq(Sent) /\ wire' \in Seq(Sent)
        /\ Len(wire') <= WireMax
    <3> SUFFICES ASSUME NEW S, copy \in Seq(S), wire \in Seq(S)
                 PROVE  /\ copy' \in Seq(S) /\ wire' \in Seq(S)
                        /\ Len(wire') <= WireMax
      BY <2>1
    <3>1. SubSeq(wire, 1, n) \in Seq(S)
      BY <2>1, <2>3, SMT
    <3>2. wire' \in Seq(S) /\ Len(wire') = Len(wire) - n
      BY <2>1, <2>2, <2>3, SMT
    <3>3. copy' \in Seq(S)
      BY <2>2, <3>1, ConcatProperties
    <3> QED BY <2>1, <2>3, <3>2, <3>3, SMT
  <2>5. TypeOK'
    BY <2>1, <2>4 DEF FullInv, TypeOK, Sent
  <2>6. Printing'
    BY <2>1 DEF FullInv, Printing
  <2> QED BY <2>5, <2>6
<1>2. CASE EndOfFile
  <2>1. /\ receiver = "read" /\ receiver' = "answer"
        /\ UNCHANGED <<sender, size, pos, buf, wire, shut, copy, back, shown>>
    BY <1>2 DEF EndOfFile
  <2>2. TypeOK'
    BY <2>1 DEF FullInv, TypeOK, Sent
  <2>3. Printing'
    BY <2>1 DEF FullInv, Printing
  <2> QED BY <2>2, <2>3
<1>3. CASE Answer
  <2>1. /\ receiver = "answer" /\ receiver' = "ended"
        /\ back' = IF prog = "hw4" THEN "closed" ELSE "thanks"
        /\ UNCHANGED <<sender, size, pos, buf, wire, shut, copy, shown>>
    BY <1>3 DEF Answer
  <2>2. TypeOK'
    BY <2>1 DEF FullInv, TypeOK, Sent
  <2>3. Printing'
    BY <2>1 DEF FullInv, Printing
  <2> QED BY <2>2, <2>3
<1>4. CASE KillClient
  <2>1. /\ receiver' = "killed" /\ back' = "closed" /\ wire' = <<>>
        /\ UNCHANGED <<sender, size, pos, buf, shut, copy, shown>>
    BY <1>4 DEF KillClient
  <2>2. wire' \in Seq(Sent) /\ Len(wire') <= WireMax
    BY <2>1, SMT DEF SizeAssumption
  <2>3. TypeOK'
    BY <2>1, <2>2 DEF FullInv, TypeOK, Sent
  <2>4. Printing'
    BY <2>1 DEF FullInv, Printing
  <2> QED BY <2>3, <2>4
<1> QED BY <1>1, <1>2, <1>3, <1>4

\* Nothing has been read, sent or shown.
LEMMA InitFull ==
  ASSUME SizeAssumption, Init
  PROVE  FullInv
<1>1. /\ sender = "accept" /\ size = 0 /\ pos = 0 /\ buf = <<>>
      /\ wire = <<>> /\ shut = FALSE /\ receiver = "read" /\ copy = <<>>
      /\ back = "none" /\ shown = <<>> /\ prog \in Programs
  BY DEF Init, Start
<1>2. BUF_SIZE \in Nat /\ BUF_SIZE > 0 /\ WireMax \in Nat
  BY DEF SizeAssumption
<1>3. TypeOK
  <2>1. 0 \in Sent
    BY <1>1, SMT DEF Sent
  <2>2. \A S : <<>> \in Seq(S) /\ Len(<<>>) = 0
    BY SMT
  <2>3. 0 <= BUF_SIZE /\ 0 <= WireMax
    BY <1>2, SMT
  <2> QED BY <1>1, <2>1, <2>2, <2>3 DEF TypeOK
<1>4. LastPieces(0) = <<>>
  <2>1. LastPieces(0) \in Seq(Nat) /\ Len(LastPieces(0)) = 0
    <3>1. 0 \in Nat /\ 0 < BUF_SIZE
      BY <1>2
    <3> QED BY <3>1, LastUnits
  <2> QED BY <2>1, SMT
<1>5. Printing
  BY <1>1, <1>4 DEF Printing
<1> QED BY <1>3, <1>5, InitInvariant DEF FullInv

\* The whole invariant is inductive.
LEMMA NextFull ==
  ASSUME SizeAssumption, FullInv, [Next]_vars
  PROVE  FullInv'
<1>1. IInv'
  BY NextPreserves DEF FullInv
<1>2. CASE Finished \/ UNCHANGED vars
  <2>1. UNCHANGED <<prog, sender, size, pos, buf, wire, shut, receiver, copy,
                    back, shown>>
    BY <1>2 DEF Finished, vars
  <2>2. TypeOK'
    BY <2>1 DEF FullInv, TypeOK, Sent
  <2>3. Printing'
    BY <2>1 DEF FullInv, Printing
  <2> QED BY <1>1, <2>2, <2>3 DEF FullInv
<1>3. CASE ~ (Finished \/ UNCHANGED vars)
  <2>1. UNCHANGED prog
    BY <1>3 DEF Next, Server, Client
  <2>2. TypeOK' /\ Printing'
    BY <1>3, <2>1, ServerFull, ClientFull DEF Next, Server, Client
  <2> QED BY <1>1, <2>2 DEF FullInv
<1> QED BY <1>2, <1>3

\* What the servers print, from the invariant.
LEMMA InvariantPrinted ==
  ASSUME FullInv PROVE PrintedAsReceived
BY DEF FullInv, Printing, PrintedAsReceived

\* The types and buffers of the four servers and their clients.
THEOREM FullInvariance ==
  ASSUME SizeAssumption
  PROVE  Spec => []FullInv
<1>1. Init => FullInv
  BY InitFull
<1>2. FullInv /\ [Next]_vars => FullInv'
  BY NextFull
<1> QED BY <1>1, <1>2, PTL DEF Spec

\* The types hold, and every server shows what is said of it: the message, or
\* what was in its buffer, however long the file and the buffer are.
THEOREM PrintedCorrect ==
  ASSUME SizeAssumption
  PROVE  Spec => [](TypeOK /\ PrintedAsReceived)
<1>1. FullInv => TypeOK /\ PrintedAsReceived
  BY InvariantPrinted DEF FullInv
<1> QED BY <1>1, FullInvariance, PTL
=============================================================================
