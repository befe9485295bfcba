------------------------------ MODULE SharedNum ------------------------------
(***************************************************************************)
(* HW8's class samples on two threads that share a number: thread3.c adds  *)
(* two ranges to it without a lock, mutex.c counts it up and down under a  *)
(* mutex, and in semaphore.c one thread reads numbers that the other adds  *)
(* up, in turns kept by two semaphores.  (thread4.c needs windows.h and    *)
(* does not build here.)                                                   *)
(*                                                                         *)
(* An addition is a load and a store, as compiled without optimization.    *)
(***************************************************************************)
EXTENDS Integers

CONSTANTS Rounds,  \* turns of each loop
          Inputs   \* numbers the user of semaphore.c types

RoundsAssumption == Rounds \in Nat \ {0}
InputsAssumption == Inputs \subseteq Int

VARIABLES
  prog,             \* which of the three
  num,              \* the shared number
  pc, i, reg,       \* each thread: where it is, its turn, what it has loaded
  mutex,            \* the thread that holds it, 0 if none
  sem_one, sem_two,
  sum, typed        \* accu()'s sum, and that of num after each scanf()

vars == <<prog, num, pc, i, reg, mutex, sem_one, sem_two, sum, typed>>

Programs == {"thread3", "mutex", "semaphore"}
Threads == {1, 2}

Start == /\ num = 0
         /\ pc = [t \in Threads |-> "loop"]
         /\ i = [t \in Threads |-> 0] /\ reg = i
         /\ mutex = 0 /\ sem_one = 0 /\ sem_two = 1
         /\ sum = 0 /\ typed = 0

Init == prog \in Programs /\ Start

At(t, here, next) == pc[t] = here /\ pc' = [pc EXCEPT ![t] = next]
semaphores == <<sem_one, sem_two, sum, typed>>

\* Variant: thread 1 begins at 2, thread 2 ends at 2 * Rounds + 1.
AddendFromTwo(t) == IF prog = "mutex" THEN (IF t = 1 THEN 1 ELSE -1)
                    ELSE (t - 1) * Rounds + i[t] + 2

\* Thread 1 of thread3.c adds 1 .. Rounds, thread 2 Rounds + 1 .. 2 * Rounds;
\* thread 1 of mutex.c is thread_inc.
Addend(t) == IF prog = "mutex" THEN (IF t = 1 THEN 1 ELSE -1)
             ELSE (t - 1) * Rounds + i[t] + 1

\* Variant: thread_inc does not lock.
LockDes(t) ==
  /\ prog = "mutex" /\ (t = 1 \/ mutex = 0)
  /\ pc[t] = "loop" /\ i[t] < Rounds
  /\ mutex' = (IF t = 1 THEN mutex ELSE t) /\ pc' = [pc EXCEPT ![t] = "add"]
  /\ UNCHANGED <<num, i, reg, semaphores>>

\* thread_inc locks once for its whole loop, thread_des once per turn.
Lock(t) ==
  /\ prog = "mutex" /\ mutex = 0
  /\ pc[t] = "loop" /\ i[t] < Rounds
  /\ mutex' = t /\ pc' = [pc EXCEPT ![t] = "add"]
  /\ UNCHANGED <<num, i, reg, semaphores>>

LoadNum(t) ==
  /\ \/ prog = "mutex" /\ pc[t] = "add"
     \/ prog = "thread3" /\ pc[t] = "loop" /\ i[t] < Rounds
  /\ reg' = [reg EXCEPT ![t] = num] /\ pc' = [pc EXCEPT ![t] = "store"]
  /\ UNCHANGED <<num, i, mutex, semaphores>>

StoreNum(t) ==
  /\ pc[t] = "store"
  /\ num' = reg[t] + Addend(t)
  /\ i' = [i EXCEPT ![t] = @ + 1]
  /\ pc' = [pc EXCEPT ![t] =
              IF prog # "mutex" THEN "loop"
              ELSE IF t = 1 /\ i'[t] < Rounds THEN "add" ELSE "unlock"]
  /\ UNCHANGED <<reg, mutex, semaphores>>

Unlock(t) ==
  /\ At(t, "unlock", "loop")
  /\ mutex' = 0
  /\ UNCHANGED <<num, i, reg, semaphores>>

\* Thread 1 of semaphore.c: sem_wait, scanf, sem_post.  A scanf() that finds no
\* number leaves num as it is.
WaitTwo ==
  /\ prog = "semaphore" /\ i[1] < Rounds /\ At(1, "loop", "scanf")
  /\ sem_two > 0 /\ sem_two' = sem_two - 1
  /\ UNCHANGED <<num, i, reg, mutex, sem_one, sum, typed>>
Scanf ==
  /\ At(1, "scanf", "post")
  /\ \E n \in Inputs \cup {num} : num' = n /\ typed' = typed + n
  /\ UNCHANGED <<i, reg, mutex, sem_one, sem_two, sum>>
PostOne ==
  /\ At(1, "post", "loop")
  /\ sem_one' = sem_one + 1
  /\ i' = [i EXCEPT ![1] = @ + 1]
  /\ UNCHANGED <<num, reg, mutex, sem_two, sum, typed>>

\* Thread 2: sem_wait, the addition, sem_post.
WaitOne ==
  /\ prog = "semaphore" /\ i[2] < Rounds /\ At(2, "loop", "accu")
  /\ sem_one > 0 /\ sem_one' = sem_one - 1
  /\ UNCHANGED <<num, i, reg, mutex, sem_two, sum, typed>>
Accu ==
  /\ At(2, "accu", "post")
  /\ sum' = sum + num
  /\ UNCHANGED <<num, i, reg, mutex, sem_one, sem_two, typed>>

\* Variant: accu() does not post sem_two.
PostNothing ==
  /\ At(2, "post", "loop")
  /\ i' = [i EXCEPT ![2] = @ + 1]
  /\ UNCHANGED <<num, reg, mutex, semaphores>>

PostTwo ==
  /\ At(2, "post", "loop")
  /\ sem_two' = sem_two + 1
  /\ i' = [i EXCEPT ![2] = @ + 1]
  /\ UNCHANGED <<num, reg, mutex, sem_one, sum, typed>>

Thread(t) == /\ \/ Lock(t) \/ LoadNum(t) \/ StoreNum(t) \/ Unlock(t)
                \/ t = 1 /\ (WaitTwo \/ Scanf \/ PostOne)
                \/ t = 2 /\ (WaitOne \/ Accu \/ PostTwo)
             /\ UNCHANGED prog

\* main() has joined both threads.
Joined == \A t \in Threads : pc[t] = "loop" /\ i[t] = Rounds

\* Both have ended, or wait for each other.
Resting == (\A t \in Threads : pc[t] = "loop") /\ UNCHANGED vars

Next == Resting \/ \E t \in Threads : Thread(t)

Spec == Init /\ [][Next]_vars

FairSpec == Spec /\ \A t \in Threads : WF_vars(Thread(t))

-----------------------------------------------------------------------------
TypeOK ==
  /\ prog \in Programs /\ num \in Int
  /\ pc \in [Threads -> {"loop", "add", "store", "unlock", "scanf", "post",
                         "accu"}]
  /\ i \in [Threads -> 0 .. Rounds] /\ reg \in [Threads -> Int]
  /\ mutex \in {0} \cup Threads
  /\ \A t \in Threads : (mutex = t) = (prog = "mutex" /\ pc[t] # "loop")
  /\ sem_one \in 0 .. 1 /\ sem_two \in 0 .. 1 /\ sem_one + sem_two <= 1
  /\ sum \in Int /\ typed \in Int

\* "result: 0" (mutex.c line 70), and semaphore.c's result is the sum of what
\* num was after each scanf(): each is added once.
LockedIsExact ==
  Joined => /\ prog = "mutex" => num = 0
            /\ prog = "semaphore" => sum = typed

Total(n) == (n * (n + 1)) \div 2

\* thread3.c's result may lack any addition that the other thread has
\* overwritten, but the last one of either thread and the first of the other.
LostUpdatesBounded ==
  Joined /\ prog = "thread3" =>
    /\ num <= Total(2 * Rounds)
    /\ num >= 2 * Rounds + 1

\* Neither the mutex nor the semaphores leave a thread waiting for ever.
ThreadsEnd == <>Joined
=============================================================================
