----------------------------- MODULE MCRegistry -----------------------------
(* Modules and their threads, for TLC. *)
EXTENDS PlusModule

CONSTANTS qa, qb, qc, ta, tb, tc, td

OneThreadEach == ta :> qa @@ tb :> qb @@ tc :> qc

\* A module of two threads that share its queue, and one of one thread.
SharedQueue == ta :> qa @@ td :> qa @@ tb :> qb

\* The same, where the second thread has attached to no queue.
OneAttached == [SharedQueue EXCEPT ![td] = NoQueue]

\* Names are interchangeable, and so are threads that share a queue.
Symmetry == Permutations(Names) \cup Permutations({ta, td})
=============================================================================
