------------------------------ MODULE Semaphore -----------------------------
(***************************************************************************)
(* What a counting semaphore promises: a wait returns by taking a count,   *)
(* a broadcast adds one count per waiting thread, and a count that stays   *)
(* available while threads wait is taken by one of them.                   *)
(***************************************************************************)
EXTENDS Naturals, FiniteSets

CONSTANTS Threads, MaxCount

VARIABLES value,    \* counts available
          waiters   \* threads that wait for one

vars == <<value, waiters>>

Init == value = 0 /\ waiters = {}

Up(n) ==
  /\ value + n <= MaxCount
  /\ value' = value + n
  /\ UNCHANGED waiters

\* A thread that need not wait takes a count at once.
Down == value > 0 /\ value' = value - 1 /\ UNCHANGED waiters

Await(t) ==
  /\ value = 0
  /\ waiters' = waiters \cup {t}
  /\ UNCHANGED value

Acquire(t) ==
  /\ t \in waiters
  /\ value > 0
  /\ value' = value - 1
  /\ waiters' = waiters \ {t}

Next ==
  \/ Up(1) \/ Up(Cardinality(waiters)) \/ Down
  \/ \E t \in Threads \ waiters : Await(t)
  \/ \E t \in Threads : Acquire(t)

Spec == Init /\ [][Next]_vars

FairSpec == Spec /\ WF_vars(\E t \in Threads : Acquire(t))
=============================================================================
