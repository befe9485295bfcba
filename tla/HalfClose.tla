------------------------------ MODULE HalfClose ------------------------------
(***************************************************************************)
(* A server sends a file, closes its direction of the connection, and      *)
(* reads a message back: HW4's hw4_server.c with hw4_client.c ("hw4"),     *)
(* file_server.c with file_client.c ("file"), and HW8's sep_serv.c ("sep") *)
(* and sep_serv2.c ("sep2") with sep_clnt.c, which send three lines        *)
(* through standard I/O streams.                                           *)
(***************************************************************************)
EXTENDS Naturals, Sequences

CONSTANTS Sizes,    \* lengths that test.txt may have, in units
          BUF_SIZE, \* units that buf holds
          WireMax   \* bound: units that fit in the socket's buffers

SizeAssumption == /\ Sizes \subseteq Nat
                  /\ BUF_SIZE \in Nat \ {0}
                  /\ WireMax \in Nat /\ WireMax >= BUF_SIZE

VARIABLES
  prog,                   \* which programs this behaviour is about
  sender, size, pos, buf, \* the server: its file and its position in it
  wire, shut,             \* what it has sent, and that it has shut down
  receiver, copy,         \* the client, and what it has written or shown
  back,                   \* what has come back: the message, or the end
  shown                   \* what the server took for the message

vars == <<prog, sender, size, pos, buf, wire, shut, receiver, copy, back,
          shown>>

Programs == {"hw4", "file", "sep", "sep2"}
Thanks   == 0  \* "Thank you"; the units of the file are numbered from 1

Start == /\ sender = "accept" /\ size = 0 /\ pos = 0 /\ buf = <<>>
         /\ wire = <<>> /\ shut = FALSE
         /\ receiver = "read" /\ copy = <<>>
         /\ back = "none" /\ shown = <<>>

Init == prog \in Programs /\ Start

Units(a, b) == [k \in 1 .. (IF a > b THEN 0 ELSE b - a + 1) |-> a + k - 1]

\* buf after a read of what the sequence s holds: the rest stays.
Overlay(s) == s \o SubSeq(buf, Len(s) + 1, Len(buf))

-----------------------------------------------------------------------------
(* The servers. *)

accept ==
  /\ sender = "accept" /\ sender' = "send"
  /\ \E n \in Sizes : size' = n
  /\ UNCHANGED <<pos, buf, wire, shut, receiver, copy, back, shown>>

\* write() to a client that was killed is lost, the next one raises SIGPIPE.
Write(s, next) ==
  /\ Len(wire) + Len(s) <= WireMax \/ receiver = "killed"
  /\ IF receiver = "killed"
     THEN sender' \in {next, "killed"} /\ wire' = wire
     ELSE sender' = next /\ wire' = wire \o s
  /\ UNCHANGED <<size, shut, receiver, copy, back, shown>>

\* Variant: the last piece, too, is sent as a whole buffer.
SendWholeBlocks ==
  /\ sender = "send" /\ prog \in {"hw4", "file"}
  /\ LET block == Units(pos + 1, IF pos + BUF_SIZE < size THEN pos + BUF_SIZE
                                 ELSE size)
     IN /\ buf' = Overlay(block)
        /\ pos' = pos + Len(block)
        /\ Write(Overlay(block), IF Len(block) < BUF_SIZE THEN "shutdown"
                                 ELSE "send")

\* fread() and write(): a piece shorter than BUF_SIZE, an empty one if need
\* be, is the last one.
SendBlock ==
  /\ sender = "send" /\ prog \in {"hw4", "file"}
  /\ LET block == Units(pos + 1, IF pos + BUF_SIZE < size THEN pos + BUF_SIZE
                                 ELSE size)
     IN /\ buf' = Overlay(block)
        /\ pos' = pos + Len(block)
        /\ Write(block, IF Len(block) < BUF_SIZE THEN "shutdown" ELSE "send")

\* The lines wait in the stream's buffer for fflush(), which writes until all
\* are out; buf is not used.
SendLines ==
  /\ sender = "send" /\ prog \in {"sep", "sep2"}
  /\ IF pos < size
     THEN Write(<<pos + 1>>, sender) /\ pos' = pos + 1
     ELSE /\ sender' = "shutdown"
          /\ UNCHANGED <<pos, size, wire, shut, receiver, copy, back, shown>>
  /\ UNCHANGED buf

\* Variant: the client is not told that the file has ended.
NoShutdown ==
  /\ sender = "shutdown" /\ prog # "sep"
  /\ sender' = "read"
  /\ UNCHANGED <<size, pos, buf, wire, shut, receiver, copy, back, shown>>

Shutdown ==
  /\ sender = "shutdown" /\ prog # "sep"
  /\ shut' = TRUE /\ sender' = "read"
  /\ UNCHANGED <<size, pos, buf, wire, receiver, copy, back, shown>>

\* sep_serv.c: fclose(writefp) closes the descriptor that readfp uses as well,
\* so that fgets() fails and leaves buf as it was.
CloseStream ==
  /\ sender = "shutdown" /\ prog = "sep"
  /\ shut' = TRUE
  /\ shown' = buf /\ sender' = "ended"
  /\ UNCHANGED <<size, pos, buf, wire, receiver, copy, back>>

\* The result of read() or fgets() is not looked at: buf is shown.
ReadBack ==
  /\ sender = "read" /\ back # "none"
  /\ buf' = IF back = "thanks" THEN <<Thanks>> ELSE buf
  /\ shown' = buf' /\ sender' = "ended"
  /\ UNCHANGED <<size, pos, wire, shut, receiver, copy, back>>

KillServer ==
  /\ sender \in {"send", "shutdown", "read"}
  /\ sender' = "killed" /\ shut' = TRUE
  /\ UNCHANGED <<size, pos, buf, wire, receiver, copy, back, shown>>

Server == /\ \/ accept \/ SendBlock \/ SendLines \/ Shutdown \/ CloseStream
             \/ ReadBack
          /\ UNCHANGED prog

-----------------------------------------------------------------------------
(* The clients. *)

Receive ==
  /\ receiver = "read" /\ wire # <<>>
  /\ \E n \in 1 .. (IF Len(wire) < BUF_SIZE THEN Len(wire) ELSE BUF_SIZE) :
       /\ copy' = copy \o SubSeq(wire, 1, n)
       /\ wire' = SubSeq(wire, n + 1, Len(wire))
  /\ UNCHANGED <<sender, size, pos, buf, shut, receiver, back, shown>>

\* read() returned 0, or fgets() NULL.
EndOfFile ==
  /\ receiver = "read" /\ wire = <<>> /\ shut
  /\ receiver' = "answer"
  /\ UNCHANGED <<sender, size, pos, buf, wire, shut, copy, back, shown>>

\* Variant: hw4_client.c rewinds copy.txt before it reads it.
AnswerRewound ==
  /\ receiver = "answer" /\ receiver' = "ended"
  /\ back' = "thanks"
  /\ UNCHANGED <<sender, size, pos, buf, wire, shut, copy, shown>>

\* hw4_client.c wants to send copy.txt back, but reads on from where it has
\* just finished writing: fread() returns 0 and it closes.
Answer ==
  /\ receiver = "answer" /\ receiver' = "ended"
  /\ back' = IF prog = "hw4" THEN "closed" ELSE "thanks"
  /\ UNCHANGED <<sender, size, pos, buf, wire, shut, copy, shown>>

KillClient ==
  /\ receiver \in {"read", "answer"}
  /\ receiver' = "killed" /\ back' = "closed" /\ wire' = <<>>
  /\ UNCHANGED <<sender, size, pos, buf, shut, copy, shown>>

Client == (Receive \/ EndOfFile \/ Answer) /\ UNCHANGED prog

Finished == /\ {sender, receiver} \subseteq {"ended", "killed"}
            /\ UNCHANGED vars

Next == \/ Server \/ Client \/ Finished
        \/ (KillServer \/ KillClient) /\ UNCHANGED prog

Spec == Init /\ [][Next]_vars

FairSpec == Spec /\ WF_vars(Server) /\ WF_vars(Client)

-----------------------------------------------------------------------------
Sent == 0 .. size

TypeOK ==
  /\ prog \in Programs
  /\ sender \in {"accept", "send", "shutdown", "read", "ended", "killed"}
  /\ receiver \in {"read", "answer", "ended", "killed"}
  /\ size \in Sizes \cup {0} /\ pos \in Sent
  /\ buf \in Seq(Sent) /\ Len(buf) <= BUF_SIZE
  /\ wire \in Seq(Sent) /\ Len(wire) <= WireMax
  /\ shut \in BOOLEAN /\ (sender \in {"read", "ended"} => shut)
  /\ copy \in Seq(Sent) /\ shown \in Seq(Sent)
  /\ back \in {"none", "thanks", "closed"}

\* The client's copy is the file when it takes it for complete, wherever
\* reads and blocks end: nothing is left out, doubled or added.  Only if the
\* server was killed, or the client, is it a beginning of the file; the client
\* is not told (hw4_client.c:88-91).
CopyIsFile ==
  /\ \E n \in 0 .. size : copy = Units(1, n)
  /\ receiver \in {"answer", "ended"} /\ sender # "killed" =>
       copy = Units(1, size)

\* What buf holds after a file of n units: its last piece, and behind it what
\* that piece left of the one before.
LastPieces(n) ==
  LET r == n % BUF_SIZE
  IN Units(n - r + 1, n)
       \o (IF n < BUF_SIZE THEN <<>> ELSE Units(n - BUF_SIZE + 1, n - r))

\* The message of a client that was not killed is shown as a whole by
\* file_server.c and sep_serv2.c.  sep_serv.c never gets it, and what
\* hw4_server.c prints as the message is the end of its own file.
PrintedAsReceived ==
  sender = "ended" /\ receiver = "ended" =>
    shown = CASE prog \in {"file", "sep2"} -> <<Thanks>>
                [] prog = "sep" -> <<>>
                [] prog = "hw4" -> LastPieces(size)

\* Neither side waits for the other for ever: half a connection closed is
\* what both need to know.
BothEnd == <>({sender, receiver} \subseteq {"ended", "killed"})
=============================================================================
