-------------------------------- MODULE Seml --------------------------------
(***************************************************************************)
(* funs::seml, the counting semaphore of trunk/util/sem.{h,cc}: a counter  *)
(* and a POSIX condition variable used under a mutex that the caller owns. *)
(*                                                                         *)
(* Every step below is one critical section of that mutex.  A thread       *)
(* leaves the mutex inside waitex() only in pthread_cond_wait; it is then  *)
(* in `asleep' until the condition variable wakes it, and in `woken' from  *)
(* there until it holds the mutex again.                                   *)
(***************************************************************************)
EXTENDS Naturals, FiniteSets

CONSTANTS Threads,   \* the threads that wait on the semaphore
          MaxCount   \* bound on undelivered posts (scount is a 32-bit unsigned)

ASSUME SemlAssumption == IsFiniteSet(Threads) /\ MaxCount \in Nat

VARIABLES scount,   \* posts not yet consumed
          wcount,   \* threads inside waitex()
          asleep,   \* threads blocked in pthread_cond_wait
          woken     \* threads woken, about to re-take the mutex

semlVars == <<scount, wcount, asleep, woken>>

\* Threads that are not inside waitex().
Idle == Threads \ (asleep \cup woken)

SemlInit ==
  /\ scount = 0
  /\ wcount = 0
  /\ asleep = {}
  /\ woken = {}
-----------------------------------------------------------------------------
\* pthread_cond_signal wakes one sleeper, if there is one.
CondSignal ==
  \/ /\ asleep = {}
     /\ UNCHANGED <<asleep, woken>>
  \/ \E t \in asleep : /\ asleep' = asleep \ {t}
                       /\ woken' = woken \cup {t}

\* Mutant: the count is recorded but nobody is woken.
PostSilent ==
  /\ scount < MaxCount
  /\ scount' = scount + 1
  /\ UNCHANGED <<wcount, asleep, woken>>

\* Mutant: a sleeper is woken but the count is not recorded.
PostUncounted ==
  /\ CondSignal
  /\ UNCHANGED <<scount, wcount>>

\* seml::post.
Post ==
  /\ scount < MaxCount
  /\ scount' = scount + 1
  /\ CondSignal
  /\ UNCHANGED wcount

\* Mutant: pthread_cond_signal where it should be pthread_cond_broadcast.
BroadcastSignals ==
  /\ scount + wcount <= MaxCount
  /\ scount' = scount + wcount
  /\ CondSignal
  /\ UNCHANGED wcount

\* seml::broadcast: one count per thread inside waitex(), everybody woken.
Broadcast ==
  /\ scount + wcount <= MaxCount
  /\ scount' = scount + wcount
  /\ asleep' = {}
  /\ woken' = woken \cup asleep
  /\ UNCHANGED wcount

\* seml::waitex when a count is there: wcount goes up and down again.
WaitThrough ==
  /\ scount > 0
  /\ scount' = scount - 1
  /\ UNCHANGED <<wcount, asleep, woken>>

\* seml::waitex when there is none: the thread enters pthread_cond_wait.
Sleep(t) ==
  /\ scount = 0
  /\ wcount' = wcount + 1
  /\ asleep' = asleep \cup {t}
  /\ UNCHANGED <<scount, woken>>

\* Mutant: the waiter leaves without taking itself out of wcount.
ResumeUncounted(t) ==
  /\ t \in woken
  /\ scount > 0
  /\ scount' = scount - 1
  /\ woken' = woken \ {t}
  /\ UNCHANGED <<wcount, asleep>>

\* Back from pthread_cond_wait with a count to take: waitex() returns.
Resume(t) ==
  /\ t \in woken
  /\ scount > 0
  /\ scount' = scount - 1
  /\ wcount' = wcount - 1
  /\ woken' = woken \ {t}
  /\ UNCHANGED asleep

\* Back from pthread_cond_wait with nothing to take: the loop sleeps again.
Resleep(t) ==
  /\ t \in woken
  /\ scount = 0
  /\ woken' = woken \ {t}
  /\ asleep' = asleep \cup {t}
  /\ UNCHANGED <<scount, wcount>>

\* A spurious wake-up, or the timeout of wait(mx, ts): its loop tests only
\* scount, so an expired wait goes back to sleep like a spurious one.
Rouse(t) ==
  /\ t \in asleep
  /\ asleep' = asleep \ {t}
  /\ woken' = woken \cup {t}
  /\ UNCHANGED <<scount, wcount>>
-----------------------------------------------------------------------------
\* The semaphore on its own: any thread of the process may post.
SemlNext ==
  \/ Post
  \/ Broadcast
  \/ Idle # {} /\ WaitThrough
  \/ \E t \in Idle : Sleep(t)
  \/ \E t \in Threads : Resume(t) \/ Resleep(t) \/ Rouse(t)

\* A woken thread gets the mutex in the end: the scheduler runs it.
SemlFairness == \A t \in Threads : WF_semlVars(Resume(t) \/ Resleep(t))

SemlSpec == SemlInit /\ [][SemlNext]_semlVars

SemlFairSpec == SemlSpec /\ SemlFairness
-----------------------------------------------------------------------------
\* The values the variables take.
SemlTypeOK ==
  /\ scount \in 0..MaxCount
  /\ wcount \in Nat
  /\ asleep \in SUBSET Threads
  /\ woken \in SUBSET Threads
  /\ asleep \cap woken = {}

\* wcount, which broadcast() adds to the count, is exactly the number of
\* threads inside waitex(), the woken ones that have not run yet included.
WaitersCounted == wcount = Cardinality(asleep) + Cardinality(woken)

\* No post is lost: as long as a thread sleeps, every undelivered post has a
\* woken thread of its own on the way to take it.
NoLostPost == asleep # {} => scount <= Cardinality(woken)

\* What the semaphore promises (Semaphore): the counter and the set of
\* threads inside waitex(); the condition variable does not show.
Sem == INSTANCE Semaphore WITH value <- scount, waiters <- asleep \cup woken

ImplementsSemaphore == Sem!FairSpec
=============================================================================
