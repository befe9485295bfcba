------------------------------ MODULE MCPrograms ------------------------------
(***************************************************************************)
(* The programs of HW2, HW3, HW4 and HW7, the stream and thread samples of *)
(* HW8 and test_serv.c's calculate() share nothing: a behaviour of this    *)
(* module is one of the programs that prog names, while the others stand   *)
(* still, and one run checks them all.                                     *)
(***************************************************************************)
EXTENDS Integers, Sequences

CONSTANTS
  None,
  Clients, Counts,           \* CalcStream; Clients of UdpCalc, too
  Sizes, BUF_SIZE, WireMax,  \* HalfClose
  Receivers, PieceMax,       \* News
  MsgMax, DupMax,            \* UdpCalc
  Rounds, Inputs,            \* SharedNum
  Handlers, Operands, CalcMax \* Calculate

VARIABLES
  prog,
  backlog, asked, fin, reply, spc, cfd, opCount, operand, operator, taken, i,
  used, torn,
  sender, size, pos, buf, wire, shut, receiver, copy, back, shown,
  pieces, atEnd, reader, done, line, sent, since, due, heard,
  turn, said, printed, quits, requests, answers, state, dups, lost,
  num, pc, round, reg, mutex, sem_one, sem_two, sum, typed,
  at, calcs, count, tokens, cut, olds, ptr, given, mixed

Stream == INSTANCE CalcStream
Half   == INSTANCE HalfClose
Radio  == INSTANCE News
Udp    == INSTANCE UdpCalc
Shared == INSTANCE SharedNum WITH i <- round
Calc   == INSTANCE Calculate WITH Counts <- Operands, taken <- given

\* What each module assumes of its constants.
ASSUME Assumptions ==
  /\ Stream!CountsAssumption /\ Stream!NoneAssumption
  /\ Half!SizeAssumption /\ Radio!PieceAssumption /\ Udp!MsgAssumption
  /\ Shared!RoundsAssumption /\ Shared!InputsAssumption
  /\ Calc!CountsAssumption /\ Calc!NoneAssumption

\* The operand counts that test_serv.c is sent.
OperandCounts == {-1, 0, 2}

OfStream == prog \in Stream!Programs
OfHalf   == prog \in Half!Programs
OfRadio  == prog \in Radio!Programs
OfUdp    == prog \in Udp!Programs
OfShared == prog \in Shared!Programs
OfCalc   == prog = "calculate"

streamVars == <<backlog, asked, fin, reply, spc, cfd, opCount, operand,
                operator, taken, i, used, torn>>
halfVars   == <<sender, size, pos, buf, wire, shut, receiver, copy, back,
                shown>>
radioVars  == <<pieces, atEnd, reader, done, line, sent, since, due, heard>>
udpVars    == <<turn, said, printed, quits, requests, answers, state, dups,
                lost>>
sharedVars == <<num, pc, round, reg, mutex, sem_one, sem_two, sum, typed>>
calcVars   == <<at, calcs, count, tokens, cut, olds, ptr, given, mixed>>
vars       == <<prog, streamVars, halfVars, radioVars, udpVars, sharedVars,
                calcVars>>

Init == /\ prog \in UNION {Stream!Programs, Half!Programs, Radio!Programs,
                          Udp!Programs, Shared!Programs, {"calculate"}}
        /\ Stream!Start /\ Half!Start /\ Radio!Start /\ Udp!Start
        /\ Shared!Start /\ Calc!Init
        /\ OfStream \/ opCount = Stream!Largest

Next ==
  /\ OfStream \/ UNCHANGED streamVars
  /\ OfHalf \/ UNCHANGED halfVars
  /\ OfRadio \/ UNCHANGED radioVars
  /\ OfUdp \/ UNCHANGED udpVars
  /\ OfShared \/ UNCHANGED sharedVars
  /\ OfCalc \/ UNCHANGED calcVars
  /\ \/ OfStream /\ Stream!Next
     \/ OfHalf /\ Half!Next
     \/ OfRadio /\ Radio!Next
     \/ OfUdp /\ Udp!Next
     \/ OfShared /\ Shared!Next
     \/ OfCalc /\ Calc!Next /\ UNCHANGED prog

Spec == Init /\ [][Next]_vars

\* The fairness of each program, as in its module.
FairSpec ==
  /\ Spec
  /\ WF_streamVars(OfStream /\ Stream!Server)
  /\ WF_halfVars(OfHalf /\ Half!Server) /\ WF_halfVars(OfHalf /\ Half!Client)
  /\ WF_udpVars(OfUdp /\ Udp!Server)
  /\ \A c \in Clients : WF_udpVars(OfUdp /\ Udp!Client(c))
  /\ \A t \in Shared!Threads : WF_sharedVars(OfShared /\ Shared!Thread(t))

-----------------------------------------------------------------------------
(* The properties of the six modules, each where its programs are meant. *)

\* The variables of the program at hand have their types.
TypeOK == /\ OfStream => Stream!TypeOK
          /\ OfHalf => Half!TypeOK
          /\ OfRadio => Radio!TypeOK
          /\ OfUdp => Udp!TypeOK
          /\ OfShared => Shared!TypeOK
          /\ Calc!TypeOK

\* HW2: a request that was not torn gets the result of its own operands.
AnswerIsOwn        == Stream!AnswerIsOwn
\* HW2: only a client that owes bytes and stays keeps the others waiting.
OnlySilentHoldUp   == OfStream => Stream!OnlySilentHoldUp
\* HW4, HW8: a copy taken for complete is the file.
CopyIsFile         == Half!CopyIsFile
\* HW4, HW8: what each server shows as its client's message.
PrintedAsReceived  == Half!PrintedAsReceived
\* HW4, HW8: server and client both come to their end.
BothEnd            == OfHalf => Half!BothEnd
\* HW7: the datagrams are the pieces of the file, the last one perhaps twice.
SentIsFile         == Radio!SentIsFile
\* HW3: answers are shifted by doubled datagrams only.
InStep             == Udp!InStep
\* HW3: a client waits for ever only if a datagram was lost, or the server
\* was ended.
AnsweredOrLost     == OfUdp => Udp!AnsweredOrLost
\* HW8: mutex.c and semaphore.c lose no addition.
LockedIsExact      == Shared!LockedIsExact
\* HW8: how far thread3.c's sum can be off.
LostUpdatesBounded == Shared!LostUpdatesBounded
\* HW8: the threads come to their end, and main with them.
ThreadsEnd         == OfShared => Shared!ThreadsEnd
\* HW8: calculate(), undisturbed, uses its own request only.
OwnTokens          == Calc!OwnTokens
=============================================================================
