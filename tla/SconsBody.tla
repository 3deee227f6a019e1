----------------------------- MODULE SconsBody ------------------------------
(***************************************************************************)
(* The message queue of the scons branch, core/msgq.cc on util/sem.cc.     *)
(* Its semaphore keeps one number, pcount (scount here), and no count of   *)
(* who waits; post() signals before it counts, and the queue tells it that *)
(* the mutex is held where trunk takes it again.  broadcast() and the      *)
(* timed wait have no caller in the branch and are left out.               *)
(***************************************************************************)
EXTENDS MsgqBody

SconsInit == BodyInit

\* Mutant: pthread_cond_signal alone; its result is returned before pcount++.
SconsPostUncounted ==
  /\ CondSignal
  /\ UNCHANGED <<scount, wcount>>

\* seml::post(mx, true): a sleeper is signalled, and pcount goes up.
SconsPost ==
  /\ scount < MaxCount
  /\ CondSignal
  /\ scount' = scount + 1
  /\ UNCHANGED wcount

\* msgq::body::post and msgq::body::signal; what they append is lost when
\* there is no memory for it, the post is not.
SconsPut ==
  /\ SconsPost
  /\ \/ \E p \in Packets : packetlist' = Append(packetlist, p) /\ UNCHANGED siglist
     \/ \E s \in Signals : siglist' = Append(siglist, s) /\ UNCHANGED packetlist
     \/ AllocMayFail /\ UNCHANGED <<packetlist, siglist>>
  /\ UNCHANGED got

\* seml::waitex(mx, true), first look at pcount.
SconsWait(t) ==
  /\ scount = 0
  /\ asleep' = asleep \cup {t}
  /\ UNCHANGED <<scount, wcount, woken>>

\* waitex() takes a count, at first sight or back from pthread_cond_wait.
SconsCount(t) ==
  /\ scount > 0
  /\ scount' = scount - 1
  /\ woken' = woken \ {t}
  /\ UNCHANGED <<wcount, asleep>>

\* msgq::body::peek: with something in the queue psem is not touched.
SconsPeekNow == Items > 0 /\ Take /\ UNCHANGED semlVars

\* It comes out of waitex(), at once or after it slept.
SconsPeekThrough(t) ==
  /\ Items = 0 \/ t \in woken
  /\ SconsCount(t)
  /\ Take

SconsPeekSleep(t) ==
  /\ Items = 0
  /\ SconsWait(t)
  /\ UNCHANGED <<packetlist, siglist, got>>

SconsWoken(t) == t \in woken /\ (SconsPeekThrough(t) \/ PeekResleep(t))

SconsNext ==
  \/ SconsPut
  \/ Idle # {} /\ SconsPeekNow
  \/ \E t \in Idle : SconsPeekThrough(t) \/ SconsPeekSleep(t)
  \/ \E t \in Threads : SconsWoken(t) \/ PeekRouse(t)

SconsSpec == SconsInit /\ [][SconsNext]_bodyVars

\* A woken receiver gets the mutex in the end.
SconsFairSpec == SconsSpec /\ \A t \in Threads : WF_bodyVars(SconsWoken(t))
=============================================================================
