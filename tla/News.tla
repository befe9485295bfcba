-------------------------------- MODULE News ---------------------------------
(***************************************************************************)
(* HW7: hw7_sender.c sends news.txt to a multicast group, hw7_sender_brd.c *)
(* broadcasts it ("group" and "broadcast"); hw7_receiver.c and             *)
(* hw7_receiver_brd.c print what arrives.  The programs of the class       *)
(* (news_*.c) are the same.                                                *)
(*                                                                         *)
(* A piece is what one fgets() reads: a line, or BUF_SIZE-1 bytes of it.   *)
(***************************************************************************)
EXTENDS Naturals, Sequences

CONSTANTS Receivers,
          PieceMax \* bound: pieces in news.txt

PieceAssumption == PieceMax \in Nat

VARIABLES
  prog,         \* which programs this behaviour is about
  pieces,       \* the number of pieces of news.txt
  atEnd,        \* the last one ends with the file: no newline, not full
  reader, done, \* the sender, and the pieces it has read so far
  line,         \* its buffer: the number of a piece; 0 uninitialized
  sent,         \* the datagrams it has sent
  since,        \* datagrams sent before each receiver bound and joined
  due,          \* datagrams on their way to each receiver, as indices
  heard         \* those printed

vars == <<prog, pieces, atEnd, reader, done, line, sent, since, due, heard>>

Programs == {"group", "broadcast"}
Absent   == PieceMax + 2

Start == /\ pieces = 0 /\ atEnd = FALSE
         /\ reader = "open" /\ done = 0 /\ line = 0 /\ sent = <<>>
         /\ since = [r \in Receivers |-> Absent]
         /\ due = [r \in Receivers |-> {}]
         /\ heard = [r \in Receivers |-> <<>>]

Init == prog \in Programs /\ Start

Open == /\ reader = "open" /\ reader' = "send"
        /\ \E n \in 0 .. PieceMax, e \in BOOLEAN :
             pieces' = n /\ atEnd' = (e /\ n > 0)
        /\ UNCHANGED <<done, line, sent, since, due, heard>>

\* sendto(): any of those listening get it, some may not.
SendTo(piece) ==
  /\ sent' = Append(sent, piece)
  /\ \E got \in SUBSET {r \in Receivers : since[r] # Absent} :
       due' = [r \in Receivers |->
                 IF r \in got THEN due[r] \cup {Len(sent) + 1} ELSE due[r]]

\* Variant: the loop stops when fgets() returns NULL.
SendRead ==
  /\ reader = "send"
  /\ IF done < pieces
     THEN /\ done' = done + 1 /\ line' = done' /\ reader' = reader
          /\ SendTo(line')
     ELSE reader' = "ended" /\ UNCHANGED <<done, line, sent, due>>
  /\ UNCHANGED <<pieces, atEnd, since, heard>>

\* while(!feof(fp)): the end is not noticed before fgets() has run into it;
\* then fgets() returns NULL, and what is in line is sent once more.
Send ==
  /\ reader = "send"
  /\ done' = IF done < pieces THEN done + 1 ELSE done
  /\ line' = done'
  /\ reader' = IF done = pieces \/ (done' = pieces /\ atEnd)
               THEN "ended" ELSE reader
  /\ SendTo(line')
  /\ UNCHANGED <<pieces, atEnd, since, heard>>

Join(r) == /\ since[r] = Absent
           /\ since' = [since EXCEPT ![r] = Len(sent)]
           /\ UNCHANGED <<pieces, atEnd, reader, done, line, sent, due, heard>>

Receive(r) ==
  /\ \E k \in due[r] : /\ due' = [due EXCEPT ![r] = @ \ {k}]
                       /\ heard' = [heard EXCEPT ![r] = Append(@, k)]
  /\ UNCHANGED <<pieces, atEnd, reader, done, line, sent, since>>

\* The receivers never end.
Resting == /\ reader = "ended"
           /\ \A r \in Receivers : since[r] # Absent /\ due[r] = {}
           /\ UNCHANGED vars

Next == \/ /\ Open \/ Send \/ \E r \in Receivers : Join(r) \/ Receive(r)
           /\ UNCHANGED prog
        \/ Resting

Spec == Init /\ [][Next]_vars

-----------------------------------------------------------------------------
TypeOK ==
  /\ prog \in Programs
  /\ pieces \in 0 .. PieceMax /\ atEnd \in BOOLEAN
  /\ reader \in {"open", "send", "ended"}
  /\ done \in 0 .. pieces /\ line \in 0 .. pieces
  /\ sent \in Seq(0 .. pieces) /\ Len(sent) <= pieces + 1
  /\ since \in [Receivers -> 0 .. Absent]
  /\ due \in [Receivers -> SUBSET (1 .. Len(sent))]
  /\ heard \in [Receivers -> Seq(1 .. Len(sent))]

\* Every piece is sent, in order; the last one twice, exactly if the file does
\* not end in the middle of a line that fits (an empty file sends garbage).
\* news.txt as it is in the repository ends so, and is sent once.
SentIsFile ==
  reader = "ended" => sent = [k \in 1 .. pieces |-> k]
                            \o (IF atEnd THEN <<>> ELSE <<pieces>>)
=============================================================================
