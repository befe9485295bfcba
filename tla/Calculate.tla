------------------------------ MODULE Calculate ------------------------------
(***************************************************************************)
(* calculate() of HW8/2020115885/test_serv.c, run by several handlers at   *)
(* once.  It takes its operands apart with strtok(), whose place in the    *)
(* string is one static pointer of the C library (olds in glibc): a call   *)
(* loads it, looks for the next token, ends the token with a NUL byte in   *)
(* place of the delimiter, and stores the pointer.                         *)
(*                                                                         *)
(* <<h, n>> is the n-th token of the string that handler h parses.  For a  *)
(* count of n operands calculate() asks for 2n tokens: the count, n        *)
(* operands and n-1 operators.  A negative count passes the test of line   *)
(* 142: no other token is asked for, and operands[0] is returned as it is, *)
(* never having been written.  What the operands come to is left open.     *)
(***************************************************************************)
EXTENDS Integers, Sequences

CONSTANTS Handlers,
          Counts,  \* operand counts of the requests; 0 stands for all refused
          CalcMax, \* bound: calculations per handler
          None

CountsAssumption == Counts \subseteq Int /\ CalcMax \in Nat
NoneAssumption == None \notin Handlers \X Nat

VARIABLES
  at,      \* each handler: "idle", in strtok() ("load", "store"), or how
           \* calculate() returned: "result", "null" (0) or "bad" (-99999)
  calcs,   \* calculations each has begun
  count,   \* the operand count of its request
  tokens,  \* the tokens in its string; clients may send fewer or more
  cut,     \* those behind which strtok() has put a NUL
  olds,    \* the static pointer: the next token, or <<h, 0>>: at the end of
           \* the string of h
  ptr,     \* what each handler's call has loaded
  taken,   \* the tokens each calculation has been given
  mixed    \* the handlers whose calculation has overlapped with another's

string   == <<count, tokens>>
vars == <<at, calcs, string, cut, olds, ptr, taken, mixed>>

Init ==
  /\ at = [h \in Handlers |-> "idle"]
  /\ calcs = [h \in Handlers |-> 0]
  /\ count = [h \in Handlers |-> 0] /\ tokens = count
  /\ cut = [h \in Handlers |-> {}]
  /\ olds = None /\ ptr = [h \in Handlers |-> None]
  /\ taken = [h \in Handlers |-> <<>>] /\ mixed = {}

Busy(h) == at[h] \in {"load", "store"}
\* The tokens that calculate() asks for.
Asks(n) == IF n <= 0 THEN 1 ELSE 2 * n
Need(h) == Asks(count[h])

\* A request has been read; strncpy() has put it into expr_copy (line 92).
Begin(h) ==
  /\ ~ Busy(h) /\ calcs[h] < CalcMax
  /\ calcs' = [calcs EXCEPT ![h] = @ + 1]
  /\ \E n \in Counts : \E len \in 0 .. Asks(n) + 1 :
       /\ count' = [count EXCEPT ![h] = n]
       /\ tokens' = [tokens EXCEPT ![h] = len]
  /\ cut' = [cut EXCEPT ![h] = {}]
  /\ taken' = [taken EXCEPT ![h] = <<>>]
  /\ LET others == {g \in Handlers \ {h} : Busy(g)}
     IN mixed' = IF others = {} THEN mixed \ {h} ELSE mixed \cup others \cup {h}
  /\ at' = [at EXCEPT ![h] = "load"]
  /\ UNCHANGED <<olds, ptr>>

\* Variant: the first call, too, goes on from where the last one was.
LoadStatic(h) ==
  /\ at[h] = "load"
  /\ ptr' = [ptr EXCEPT ![h] = IF olds = None THEN <<h, 1>> ELSE olds]
  /\ at' = [at EXCEPT ![h] = "store"]
  /\ UNCHANGED <<calcs, string, cut, olds, taken, mixed>>

\* strtok(expr, " ") starts with its own string, strtok(NULL, " ") loads the
\* static pointer.
Load(h) ==
  /\ at[h] = "load"
  /\ ptr' = [ptr EXCEPT ![h] = IF taken[h] = <<>> THEN <<h, 1>> ELSE olds]
  /\ at' = [at EXCEPT ![h] = "store"]
  /\ UNCHANGED <<calcs, string, cut, olds, taken, mixed>>

\* What calculate() returns when it has its tokens.  The operands may come to
\* -99999 like anything else, and the handler cannot tell (line 98).
Returns(h) == IF count[h] = 0 THEN {"bad"} ELSE {"result", "bad"}

\* The rest of the call, and what calculate() does with the token.
Store(h) ==
  /\ at[h] = "store"
  /\ LET s == ptr[h][1]
         n == ptr[h][2]
         over == n = 0 \/ n > tokens[s]
         last == n = tokens[s] \/ n \in cut[s]
     IN /\ olds' = IF over \/ last THEN <<s, 0>> ELSE <<s, n + 1>>
        /\ cut' = IF over \/ last THEN cut ELSE [cut EXCEPT ![s] = @ \cup {n}]
        /\ taken' = IF over THEN taken
                    ELSE [taken EXCEPT ![h] = Append(@, <<s, n>>)]
        /\ \E next \in IF over THEN {"null"}
                      ELSE IF Len(taken'[h]) < Need(h) THEN {"load"}
                      ELSE Returns(h) : at' = [at EXCEPT ![h] = next]
  /\ UNCHANGED <<calcs, string, ptr, mixed>>

Idle == (\A h \in Handlers : ~ Busy(h)) /\ UNCHANGED vars

Next == Idle \/ \E h \in Handlers : Begin(h) \/ Load(h) \/ Store(h)

Spec == Init /\ [][Next]_vars

-----------------------------------------------------------------------------
Places == (Handlers \X Nat) \cup {None}

TypeOK ==
  /\ at \in [Handlers -> {"idle", "load", "store", "result", "null", "bad"}]
  /\ calcs \in [Handlers -> 0 .. CalcMax]
  /\ count \in [Handlers -> Counts \cup {0}]
  /\ tokens \in [Handlers -> Nat] /\ cut \in [Handlers -> SUBSET Nat]
  /\ olds \in Places /\ ptr \in [Handlers -> Places]
  /\ taken \in [Handlers -> Seq(Places)] /\ mixed \subseteq Handlers

\* A calculation with which no other one overlaps is given its own tokens, in
\* order, all of them or as many as there are: it returns 0 for want of a
\* token only if its client sent too few, and what it returns, -99999 (line 98)
\* included, comes of its own client's request.  One that overlaps may get
\* anybody's: but its count is its own, and it is given as many tokens as that
\* asks for, or returns 0.
OwnTokens ==
  \A h \in Handlers :
    /\ taken[h] # <<>> => taken[h][1] = <<h, 1>>
    /\ h \notin mixed => taken[h] = [k \in 1 .. Len(taken[h]) |-> <<h, k>>]
    /\ h \notin mixed /\ at[h] = "null" =>
         Len(taken[h]) = tokens[h] /\ tokens[h] < Need(h)
    /\ at[h] \in {"result", "bad"} => Len(taken[h]) = Need(h)
=============================================================================
