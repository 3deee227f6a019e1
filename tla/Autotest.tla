------------------------------ MODULE Autotest ------------------------------
(***************************************************************************)
(* The self-testing module, trunk/mods/autotest/test.cc: a main thread and *)
(* the slaves it spawns receive from one queue.  Told to unload, the main  *)
(* thread signals `sigend'; each slave that gets it passes it on to the    *)
(* next, takes itself out of `children' and posts csem; the main thread    *)
(* leaves, and the library is unmapped, when it finds `children' at zero.  *)
(*                                                                         *)
(* `children' is a plain integer that nothing guards, so that a decrement  *)
(* is a read and a write.  csem is a semaphore with one waiter and behaves *)
(* as Semaphore says.  Memory for a signal's entry does not run out.       *)
(***************************************************************************)
EXTENDS MsgqBody

CONSTANTS Main, Slaves,
          Unload,      \* PSIG_UNLOAD
          SigEnd,      \* sigend, 123
          MaxUnloads   \* bound: how often the environment says Unload

ASSUME AutotestAssumption ==
  /\ Main \notin Slaves /\ Threads = {Main} \cup Slaves
  /\ Unload # SigEnd /\ {Unload, SigEnd} \subseteq Signals
  /\ MaxUnloads \in Nat
  /\ MaxCount >= MaxUnloads + 1 + Cardinality(Slaves)

VARIABLES pc,         \* where each thread is
          tried,      \* slaves the main thread has tried to spawn
          children,   \* counted and not yet gone
          reading,    \* what a slave has read of `children'
          csem,       \* the count of csem
          unloads     \* Unloads so far

testVars == <<bodyVars, pc, tried, children, reading, csem, unloads>>

AutotestInit ==
  /\ BodyInit
  /\ pc = [t \in Threads |-> IF t = Main THEN "spawning" ELSE "unborn"]
  /\ tried = {}
  /\ children = 0
  /\ reading = [s \in Slaves |-> 0]
  /\ csem = 0
  /\ unloads = 0

Goes(t, place) == pc' = [pc EXCEPT ![t] = place]

\* Mutant: csem is posted before the slave takes itself out.
PostsFirst(place) ==
  CASE place = "telling" -> "posting"
    [] place = "posting" -> "counting"
    [] place = "counting" -> "storing"
    [] place = "storing" -> "returned"

\* What a slave does on sigend: passes it on, --children, csem.post().
Then(place) ==
  CASE place = "telling" -> "counting"
    [] place = "counting" -> "storing"
    [] place = "storing" -> "posting"
    [] place = "posting" -> "returned"
-----------------------------------------------------------------------------
\* Mutant: the slave runs uncounted.
SpawnUncounted(s) ==
  /\ pc[Main] = "spawning" /\ s \notin tried
  /\ tried' = tried \cup {s}
  /\ Goes(s, "starting")
  /\ UNCHANGED <<bodyVars, children, reading, csem, unloads>>

\* pthread_create and ++children, in one: no slave touches `children' before
\* the main thread has left this loop.
Spawn(s) ==
  /\ pc[Main] = "spawning" /\ s \notin tried
  /\ tried' = tried \cup {s}
  /\ children' = children + 1
  /\ Goes(s, "starting")
  /\ UNCHANGED <<bodyVars, reading, csem, unloads>>

\* pthread_create fails.
SpawnFails(s) ==
  /\ pc[Main] = "spawning" /\ s \notin tried
  /\ tried' = tried \cup {s}
  /\ UNCHANGED <<bodyVars, pc, children, reading, csem, unloads>>

SpawnDone ==
  /\ pc[Main] = "spawning" /\ tried = Slaves
  /\ Goes(Main, "receiving")
  /\ UNCHANGED <<bodyVars, tried, children, reading, csem, unloads>>

\* A slave attaches to the queue, which lives as long as the main thread.
AttachSlave(s) ==
  /\ pc[s] = "starting"
  /\ Goes(s, "receiving")
  /\ UNCHANGED <<bodyVars, tried, children, reading, csem, unloads>>

\* Where a receive leads: the main thread heeds Unload, a slave SigEnd; they
\* ignore whatever else they get and receive again.
Heeds(t, r) ==
  r.rc = "PEC_SIGNAL" /\ r.data = (IF t = Main THEN Unload ELSE SigEnd)

\* para_msg_receive returns to thread t.
Received(t) ==
  /\ pc[t] = "receiving"
  /\ \/ t \in Idle /\ (PeekNow \/ PeekThrough)
     \/ PeekWake(t)
  /\ IF Heeds(t, got') THEN Goes(t, "telling") ELSE UNCHANGED pc
  /\ UNCHANGED <<tried, children, reading, csem, unloads>>

\* para_msg_receive sleeps, or wakes for nothing.
Receiving(t) ==
  /\ pc[t] = "receiving"
  /\ \/ t \in Idle /\ PeekSleep(t)
     \/ PeekResleep(t) \/ PeekRouse(t)
  /\ UNCHANGED <<pc, tried, children, reading, csem, unloads>>

\* Mutant: a slave keeps the news to itself.
TellNobody(t) ==
  /\ pc[t] = "telling"
  /\ IF t = Main THEN PostSignal(SigEnd) ELSE UNCHANGED bodyVars
  /\ Goes(t, IF t = Main THEN "checking" ELSE Then("telling"))
  /\ UNCHANGED <<tried, children, reading, csem, unloads>>

\* para_msg_signal(qid, sigend).  (The main thread's attempt to send Unload,
\* which the library refuses, comes before and changes nothing.)
Tell(t) ==
  /\ pc[t] = "telling"
  /\ PostSignal(SigEnd)
  /\ Goes(t, IF t = Main THEN "checking" ELSE Then("telling"))
  /\ UNCHANGED <<tried, children, reading, csem, unloads>>

\* --children, the read.
Read(s) ==
  /\ pc[s] = "counting"
  /\ reading' = [reading EXCEPT ![s] = children]
  /\ Goes(s, Then("counting"))
  /\ UNCHANGED <<bodyVars, tried, children, csem, unloads>>

\* --children, the write.
Write(s) ==
  /\ pc[s] = "storing"
  /\ children' = reading[s] - 1
  /\ Goes(s, Then("storing"))
  /\ UNCHANGED <<bodyVars, tried, reading, csem, unloads>>

\* csem.post(), and the slave returns.
Quit(s) ==
  /\ pc[s] = "posting"
  /\ csem' = csem + 1
  /\ Goes(s, Then("posting"))
  /\ UNCHANGED <<bodyVars, tried, children, reading, unloads>>

\* Under csem.mx: the main thread looks at `children', and unless it is zero
\* waits, csem.mx released only while it sleeps.
Check ==
  /\ pc[Main] = "checking"
  /\ Goes(Main, IF children = 0 THEN "left" ELSE "waiting")
  /\ UNCHANGED <<bodyVars, tried, children, reading, csem, unloads>>

\* csem.waitex() returns, for another look.
CheckAgain ==
  /\ pc[Main] = "waiting" /\ csem > 0
  /\ csem' = csem - 1
  /\ Goes(Main, "checking")
  /\ UNCHANGED <<bodyVars, tried, children, reading, unloads>>

\* The library tells the module to unload (mdispb, signal_bc).
SayUnload ==
  /\ unloads < MaxUnloads /\ pc[Main] # "left"
  /\ PostSignal(Unload)
  /\ unloads' = unloads + 1
  /\ UNCHANGED <<pc, tried, children, reading, csem>>
-----------------------------------------------------------------------------
\* What the main thread, and what a slave, does next.
MainStep ==
  \/ \E s \in Slaves : Spawn(s) \/ SpawnFails(s)
  \/ SpawnDone \/ Received(Main) \/ Tell(Main) \/ Check \/ CheckAgain

SlaveStep(s) ==
  AttachSlave(s) \/ Received(s) \/ Tell(s) \/ Read(s) \/ Write(s) \/ Quit(s)

AutotestNext ==
  \/ MainStep
  \/ \E s \in Slaves : SlaveStep(s)
  \/ \E t \in Threads : Receiving(t)
  \/ SayUnload

AutotestSpec == AutotestInit /\ [][AutotestNext]_testVars

\* The threads run.
AutotestFairness ==
  /\ WF_testVars(MainStep)
  /\ \A s \in Slaves : WF_testVars(SlaveStep(s))

AutotestFairSpec == AutotestSpec /\ AutotestFairness
-----------------------------------------------------------------------------
Spawned == {s \in Slaves : pc[s] # "unborn"}

Told == pc[Main] \in {"checking", "waiting", "left"}

\* When the main thread leaves, every slave it spawned has taken itself out
\* of `children': an update that is lost may keep the main thread, never
\* let it go early.
SlavesCounted ==
  pc[Main] = "left" => \A s \in Spawned : pc[s] \in {"posting", "returned"}

\* One sigend reaches every slave, however they share the queue.
EveryoneTold == Told ~> \A s \in Spawned : pc[s] = "returned"

\* The main thread does not sleep through the last departure.
LastQuitSeen ==
  (Told /\ children = 0 /\ \A s \in Spawned : pc[s] = "returned")
    ~> pc[Main] = "left"
=============================================================================
