--------------------------- MODULE AutotestProofs ---------------------------
(***************************************************************************)
(* The self-testing module for any number of slaves: however their         *)
(* unguarded decrements fall, the main thread leaves no slave behind that  *)
(* has not taken itself out of the count.                                  *)
(***************************************************************************)
EXTENDS Autotest, MsgqBodyProofs

\* Slaves that `children' should still count.
Busy == {s \in Slaves :
           pc[s] \in {"starting", "receiving", "telling", "counting", "storing"}}

MainPlaces == {"spawning", "receiving", "telling", "checking", "waiting", "left"}

SlavePlaces == {"unborn", "starting", "receiving", "telling", "counting",
                "storing", "posting", "returned"}

TestTypeOK ==
  /\ pc \in [Threads -> MainPlaces \cup SlavePlaces]
  /\ pc[Main] \in MainPlaces
  /\ \A s \in Slaves : pc[s] \in SlavePlaces
  /\ tried \in SUBSET Slaves
  /\ children \in Nat
  /\ reading \in [Slaves -> Nat]

\* Before the main thread sends sigend there is none, and nobody acts on one.
Quiet ==
  /\ \A i \in 1 .. Len(siglist) : siglist[i] # SigEnd
  /\ \A s \in Slaves : pc[s] \in {"unborn", "starting", "receiving"}

\* A lost update only makes the count too large.
CountEnough ==
  /\ Cardinality(Busy) <= children
  /\ \A s \in Slaves : pc[s] = "storing" => Cardinality(Busy) <= reading[s]

TestInv ==
  /\ TestTypeOK
  /\ Told \/ Quiet
  /\ \A s \in Slaves : pc[s] # "unborn" => s \in tried
  /\ CountEnough
  /\ pc[Main] = "left" => Busy = {}
-----------------------------------------------------------------------------
LEMMA Crew ==
  /\ Main \in Threads /\ Slaves \subseteq Threads /\ Main \notin Slaves
  /\ IsFiniteSet(Slaves)
  /\ Unload \in Signals /\ SigEnd \in Signals /\ Unload # SigEnd
BY AutotestAssumption, SemlAssumption, FS_Subset

LEMMA BusyFinite == IsFiniteSet(Busy) /\ Cardinality(Busy) \in Nat
BY Crew, FS_Subset, FS_CardinalityType DEF Busy

\* The module uses the queue as any of its users.
LEMMA TestStepBody == [AutotestNext]_testVars => [BodyNext]_bodyVars
<1> USE Crew
<1> QED BY DEF AutotestNext, testVars, MainStep, SlaveStep, Spawn, SpawnFails,
               SpawnDone, AttachSlave, Received, Receiving, Tell, Read, Write,
               Quit, Check, CheckAgain, SayUnload, BodyNext

LEMMA TestInitInv == AutotestInit => BodyInv /\ TestInv
<1> SUFFICES ASSUME AutotestInit PROVE BodyInv /\ TestInv
  OBVIOUS
<1>1. BodyInv
  BY BodyInitInv DEF AutotestInit
<1>2. TestTypeOK
  BY Crew DEF AutotestInit, TestTypeOK, MainPlaces, SlavePlaces
<1>3. Busy = {}
  BY Crew DEF AutotestInit, Busy
<1>4. Cardinality(Busy) = 0
  BY <1>3, FS_EmptySet
<1>5. Quiet
  BY Crew DEF AutotestInit, BodyInit, Quiet
<1>6. \A s \in Slaves : pc[s] = "unborn"
  BY Crew DEF AutotestInit
<1> QED BY <1>1, <1>2, <1>3, <1>4, <1>5, <1>6 DEF TestInv, CountEnough, TestTypeOK

\* A step that moves no slave into Busy keeps the bounds on its size.
LEMMA BusyShrinks ==
  ASSUME Busy' \subseteq Busy
  PROVE  /\ Cardinality(Busy') <= Cardinality(Busy)
         /\ Cardinality(Busy') \in Nat
BY BusyFinite, FS_Subset, FS_CardinalityType

LEMMA BusyLoses ==
  ASSUME NEW s \in Busy, Busy' = Busy \ {s}
  PROVE  /\ Cardinality(Busy') = Cardinality(Busy) - 1
         /\ Cardinality(Busy') \in Nat
BY BusyFinite, FS_RemoveElement, FS_CardinalityType

LEMMA BusyGains ==
  ASSUME NEW s, s \notin Busy, Busy' = Busy \cup {s}
  PROVE  /\ Cardinality(Busy') = Cardinality(Busy) + 1
         /\ Cardinality(Busy') \in Nat
BY BusyFinite, FS_AddElement, FS_CardinalityType

\* What a receive does to the signals: one goes, from the front, or none.
LEMMA TakenSignals ==
  ASSUME BodyInv, Take
  PROVE  /\ \A x : (\A i \in 1 .. Len(siglist) : siglist[i] # x)
                     => (\A i \in 1 .. Len(siglist') : siglist'[i] # x)
         /\ got'.rc = "PEC_SIGNAL"
              => \E i \in 1 .. Len(siglist) : siglist[i] = got'.data
<1>1. siglist \in Seq(Signals)
  BY DEF BodyInv, BodyTypeOK
<1>3. CASE TakeSignal
  <2>1. /\ siglist # <<>> /\ siglist' = Tail(siglist)
        /\ got' = [rc |-> "PEC_SIGNAL", data |-> Head(siglist)]
    BY <1>3 DEF TakeSignal
  <2>2. Len(siglist) > 0 /\ Head(siglist) = siglist[1]
    BY <1>1, <2>1
  <2>3. /\ Len(siglist') = Len(siglist) - 1
        /\ \A i \in 1 .. Len(siglist') : siglist'[i] = siglist[i + 1]
    BY <1>1, <2>1
  <2>4. \A i \in 1 .. Len(siglist') : i + 1 \in 1 .. Len(siglist)
    BY <1>1, <2>3
  <2> QED BY <1>1, <2>1, <2>2, <2>3, <2>4
<1>4. CASE TakePacket \/ TakeNothing
  BY <1>4 DEF TakePacket, TakeNothing
<1> QED BY <1>3, <1>4 DEF Take

LEMMA AppendedSignal ==
  ASSUME BodyInv, NEW x \in Signals, siglist' = Append(siglist, x), NEW y, x # y,
         \A i \in 1 .. Len(siglist) : siglist[i] # y
  PROVE  \A i \in 1 .. Len(siglist') : siglist'[i] # y
<1>1. siglist \in Seq(Signals)
  BY DEF BodyInv, BodyTypeOK
<1> QED BY <1>1
-----------------------------------------------------------------------------
\* A step of thread t to another place of its own keeps the others' places.
LEMMA OnePlaceMoves ==
  ASSUME TestTypeOK, NEW t \in Threads, NEW place, pc' = [pc EXCEPT ![t] = place]
  PROVE  /\ pc'[t] = place
         /\ \A u \in Threads : u # t => pc'[u] = pc[u]
         /\ pc' \in [Threads -> MainPlaces \cup SlavePlaces \cup {place}]
BY DEF TestTypeOK

\* Nothing moves but the queue.
LEMMA StandStill ==
  ASSUME TestInv, UNCHANGED <<pc, tried, children, reading>>,
         Told \/ Quiet'
  PROVE  TestInv'
<1>1. Busy' = Busy
  BY DEF Busy
<1> QED BY <1>1 DEF TestInv, TestTypeOK, Told, CountEnough

LEMMA TestStep ==
  ASSUME BodyInv, TestInv, [AutotestNext]_testVars
  PROVE  TestInv'
<1> USE Crew
<1>0. /\ TestTypeOK /\ CountEnough /\ (Told \/ Quiet)
      /\ Cardinality(Busy) \in Nat
  BY BusyFinite DEF TestInv
<1>1. ASSUME NEW s \in Slaves, Spawn(s) PROVE TestInv'
  <2>1. /\ pc[Main] = "spawning" /\ s \notin tried /\ pc[s] = "unborn"
        /\ Quiet /\ ~Told
    BY <1>0, <1>1 DEF Spawn, TestInv, Told
  <2>2. /\ pc'[s] = "starting" /\ \A u \in Threads : u # s => pc'[u] = pc[u]
        /\ pc' \in [Threads -> MainPlaces \cup SlavePlaces \cup {"starting"}]
    BY <1>0, <1>1, OnePlaceMoves DEF Goes, Spawn
  <2>3. Busy' = Busy \cup {s} /\ s \notin Busy
    BY <2>1, <2>2 DEF Busy
  <2>4. Cardinality(Busy') = Cardinality(Busy) + 1
    BY <2>3, BusyGains
  <2>5. TestTypeOK'
    BY <1>0, <1>1, <2>2 DEF TestTypeOK, Spawn, SlavePlaces, MainPlaces
  <2>6. Quiet'
    BY <1>1, <2>1, <2>2 DEF Quiet, Spawn, bodyVars
  <2>7. CountEnough'
    BY <1>0, <1>1, <2>1, <2>2, <2>4 DEF CountEnough, Spawn, Quiet, TestTypeOK
  <2>8. \A u \in Slaves : pc'[u] # "unborn" => u \in tried'
    BY <1>1, <2>2 DEF TestInv, Spawn
  <2> QED BY <2>1, <2>2, <2>5, <2>6, <2>7, <2>8 DEF TestInv
<1>2. ASSUME NEW s \in Slaves, SpawnFails(s) PROVE TestInv'
  <2>1. Busy' = Busy
    BY <1>2 DEF SpawnFails, Busy
  <2>2. Told' = Told /\ (Quiet => Quiet')
    BY <1>2 DEF SpawnFails, Told, Quiet, bodyVars
  <2> QED BY <1>0, <1>2, <2>1, <2>2 DEF SpawnFails, TestInv, TestTypeOK, CountEnough
<1>3. CASE SpawnDone
  <2>1. /\ pc'[Main] = "receiving" /\ \A u \in Slaves : pc'[u] = pc[u]
        /\ pc' \in [Threads -> MainPlaces \cup SlavePlaces \cup {"receiving"}]
    BY <1>0, <1>3, OnePlaceMoves DEF Goes, SpawnDone
  <2>2. Busy' = Busy
    BY <2>1 DEF Busy
  <2>3. Quiet'
    BY <1>0, <1>3, <2>1 DEF SpawnDone, Quiet, Told, bodyVars
  <2> QED BY <1>0, <1>3, <2>1, <2>2, <2>3
          DEF SpawnDone, TestInv, TestTypeOK, CountEnough, MainPlaces
<1>4. ASSUME NEW s \in Slaves, AttachSlave(s) PROVE TestInv'
  <2>1. /\ pc[s] = "starting" /\ pc'[s] = "receiving"
        /\ \A u \in Threads : u # s => pc'[u] = pc[u]
        /\ pc' \in [Threads -> MainPlaces \cup SlavePlaces \cup {"receiving"}]
    BY <1>0, <1>4, OnePlaceMoves DEF Goes, AttachSlave
  <2>2. Busy' = Busy
    BY <2>1 DEF Busy
  <2>3. Told' = Told /\ (Quiet => Quiet')
    BY <1>4, <2>1 DEF AttachSlave, Told, Quiet, bodyVars
  <2> QED BY <1>0, <1>4, <2>1, <2>2, <2>3
          DEF AttachSlave, TestInv, TestTypeOK, CountEnough, SlavePlaces
<1>5. ASSUME NEW t \in Threads, Received(t) PROVE TestInv'
  <2>1. (\A i \in 1 .. Len(siglist) : siglist[i] # SigEnd)
          => (\A i \in 1 .. Len(siglist') : siglist'[i] # SigEnd)
    BY <1>5, TakenSignals DEF Received, PeekNow, PeekThrough, PeekWake
  <2>2. CASE ~Heeds(t, got')
    <3>1. UNCHANGED <<pc, tried, children, reading>>
      BY <1>5, <2>2 DEF Received
    <3> QED BY <1>0, <2>1, <3>1, StandStill DEF Quiet, Told
  <2>3. CASE Heeds(t, got')
    <3>1. /\ pc[t] = "receiving" /\ pc'[t] = "telling"
          /\ \A u \in Threads : u # t => pc'[u] = pc[u]
          /\ pc' \in [Threads -> MainPlaces \cup SlavePlaces \cup {"telling"}]
          /\ UNCHANGED <<tried, children, reading>>
      BY <1>0, <1>5, <2>3, OnePlaceMoves DEF Goes, Received
    <3>2. Busy' = Busy
      BY <3>1 DEF Busy
    <3>3. Told' = Told
      BY <3>1 DEF Told
    <3>4. t # Main => Told
      <4>1. t # Main => got'.data = SigEnd
        BY <2>3 DEF Heeds
      <4>2. \E i \in 1 .. Len(siglist) : siglist[i] = got'.data
        BY <1>5, <2>3, TakenSignals
           DEF Heeds, Received, PeekNow, PeekThrough, PeekWake
      <4> QED BY <1>0, <4>1, <4>2 DEF Quiet
    <3>5. Told' \/ Quiet'
      BY <1>0, <2>1, <3>1, <3>3, <3>4 DEF Quiet
    <3> QED BY <1>0, <3>1, <3>2, <3>3, <3>5
            DEF TestInv, TestTypeOK, CountEnough, SlavePlaces, MainPlaces
  <2> QED BY <2>2, <2>3
<1>6. ASSUME NEW t \in Threads, Receiving(t) PROVE TestInv'
  <2>1. UNCHANGED siglist
    BY <1>6 DEF Receiving, PeekSleep, PeekResleep, PeekRouse
  <2> QED BY <1>0, <1>6, <2>1, StandStill DEF Receiving, Quiet
<1>7. CASE Tell(Main)
  <2>1. /\ pc'[Main] = "checking" /\ \A u \in Slaves : pc'[u] = pc[u]
        /\ pc' \in [Threads -> MainPlaces \cup SlavePlaces \cup {"checking"}]
    BY <1>0, <1>7, OnePlaceMoves DEF Goes, Tell
  <2>2. Busy' = Busy
    BY <2>1 DEF Busy
  <2> QED BY <1>0, <1>7, <2>1, <2>2
          DEF Tell, TestInv, TestTypeOK, CountEnough, Told, MainPlaces
<1>8. ASSUME NEW s \in Slaves, Tell(s) PROVE TestInv'
  <2>1. /\ pc[s] = "telling" /\ pc'[s] = "counting"
        /\ \A u \in Threads : u # s => pc'[u] = pc[u]
        /\ pc' \in [Threads -> MainPlaces \cup SlavePlaces \cup {"counting"}]
    BY <1>0, <1>8, OnePlaceMoves DEF Goes, Tell, Then
  <2>2. Busy' = Busy
    BY <2>1 DEF Busy
  <2>3. Told /\ Told'
    BY <1>0, <2>1 DEF Quiet, Told
  <2> QED BY <1>0, <1>8, <2>1, <2>2, <2>3
          DEF Tell, TestInv, TestTypeOK, CountEnough, SlavePlaces
<1>9. ASSUME NEW s \in Slaves, Read(s) PROVE TestInv'
  <2>1. /\ pc[s] = "counting" /\ pc'[s] = "storing"
        /\ \A u \in Threads : u # s => pc'[u] = pc[u]
        /\ pc' \in [Threads -> MainPlaces \cup SlavePlaces \cup {"storing"}]
    BY <1>0, <1>9, OnePlaceMoves DEF Goes, Read, Then
  <2>2. Busy' = Busy
    BY <2>1 DEF Busy
  <2>3. Told /\ Told'
    BY <1>0, <2>1 DEF Quiet, Told
  <2>4. /\ reading' \in [Slaves -> Nat] /\ reading'[s] = children
        /\ \A u \in Slaves : u # s => reading'[u] = reading[u]
    BY <1>0, <1>9 DEF Read, TestTypeOK
  <2>5. CountEnough'
    BY <1>0, <1>9, <2>1, <2>2, <2>4 DEF Read, CountEnough
  <2> QED BY <1>0, <1>9, <2>1, <2>2, <2>3, <2>4, <2>5
          DEF Read, TestInv, TestTypeOK, SlavePlaces
<1>10. ASSUME NEW s \in Slaves, Write(s) PROVE TestInv'
  <2>1. /\ pc[s] = "storing" /\ pc'[s] = "posting"
        /\ \A u \in Threads : u # s => pc'[u] = pc[u]
        /\ pc' \in [Threads -> MainPlaces \cup SlavePlaces \cup {"posting"}]
    BY <1>0, <1>10, OnePlaceMoves DEF Goes, Write, Then
  <2>2. s \in Busy /\ Busy' = Busy \ {s}
    BY <2>1 DEF Busy
  <2>3. Told /\ Told'
    BY <1>0, <2>1 DEF Quiet, Told
  <2>4. /\ Cardinality(Busy') = Cardinality(Busy) - 1
        /\ Cardinality(Busy') \in Nat
    BY <2>2, BusyLoses
  <2>5. /\ Cardinality(Busy) <= reading[s] /\ reading[s] \in Nat
        /\ children' = reading[s] - 1
    BY <1>0, <1>10, <2>1 DEF Write, CountEnough, TestTypeOK
  <2>6. children' \in Nat /\ Cardinality(Busy') <= children'
    BY <1>0, <2>4, <2>5
  <2>7. \A u \in Slaves : pc'[u] = "storing" => Cardinality(Busy') <= reading'[u]
    BY <1>0, <1>10, <2>1, <2>4 DEF Write, CountEnough, TestTypeOK
  <2>8. pc'[Main] = pc[Main] /\ pc[Main] # "left"
    BY <1>0, <2>1, <2>2 DEF TestInv
  <2> QED BY <1>0, <1>10, <2>1, <2>2, <2>3, <2>6, <2>7, <2>8
          DEF Write, TestInv, TestTypeOK, CountEnough, SlavePlaces
<1>11. ASSUME NEW s \in Slaves, Quit(s) PROVE TestInv'
  <2>1. /\ pc[s] = "posting" /\ pc'[s] = "returned"
        /\ \A u \in Threads : u # s => pc'[u] = pc[u]
        /\ pc' \in [Threads -> MainPlaces \cup SlavePlaces \cup {"returned"}]
    BY <1>0, <1>11, OnePlaceMoves DEF Goes, Quit, Then
  <2>2. Busy' = Busy
    BY <2>1 DEF Busy
  <2>3. Told /\ Told'
    BY <1>0, <2>1 DEF Quiet, Told
  <2> QED BY <1>0, <1>11, <2>1, <2>2, <2>3
          DEF Quit, TestInv, TestTypeOK, CountEnough, SlavePlaces
<1>12. CASE Check
  <2> DEFINE next == IF children = 0 THEN "left" ELSE "waiting"
  <2>1. /\ pc[Main] = "checking" /\ pc'[Main] = next
        /\ \A u \in Slaves : pc'[u] = pc[u]
        /\ pc' \in [Threads -> MainPlaces \cup SlavePlaces \cup {next}]
    BY <1>0, <1>12, OnePlaceMoves DEF Goes, Check
  <2>2. Busy' = Busy
    BY <2>1 DEF Busy
  <2>3. Told'
    BY <2>1 DEF Told
  <2>4. children = 0 => Busy = {}
    <3>1. children = 0 => Cardinality(Busy) = 0
      BY <1>0 DEF CountEnough
    <3> QED BY <3>1, BusyFinite, FS_EmptySet
  <2> QED BY <1>0, <1>12, <2>1, <2>2, <2>3, <2>4
          DEF Check, TestInv, TestTypeOK, CountEnough, MainPlaces
<1>13. CASE CheckAgain
  <2>1. /\ pc[Main] = "waiting" /\ pc'[Main] = "checking"
        /\ \A u \in Slaves : pc'[u] = pc[u]
        /\ pc' \in [Threads -> MainPlaces \cup SlavePlaces \cup {"checking"}]
    BY <1>0, <1>13, OnePlaceMoves DEF Goes, CheckAgain
  <2>2. Busy' = Busy
    BY <2>1 DEF Busy
  <2>3. Told'
    BY <2>1 DEF Told
  <2> QED BY <1>0, <1>13, <2>1, <2>2, <2>3
          DEF CheckAgain, TestInv, TestTypeOK, CountEnough, MainPlaces
<1>14. CASE SayUnload
  <2>1. UNCHANGED <<pc, tried, children, reading>> /\ PostSignal(Unload)
    BY <1>14 DEF SayUnload
  <2>2. Quiet => Quiet'
    BY <2>1, AppendedSignal DEF Quiet, PostSignal
  <2> QED BY <1>0, <2>1, <2>2, StandStill
<1>15. CASE UNCHANGED testVars
  BY <1>0, <1>15, StandStill DEF testVars, bodyVars, Quiet
<1> QED BY <1>1, <1>2, <1>3, <1>4, <1>5, <1>6, <1>7, <1>8, <1>9, <1>10, <1>11,
           <1>12, <1>13, <1>14, <1>15
        DEF AutotestNext, MainStep, SlaveStep
-----------------------------------------------------------------------------
\* test.cc's `--children' is unguarded, and still the main thread never leaves
\* while a slave has not taken itself out, for any number of slaves.
THEOREM AutotestCorrect == AutotestSpec => []SlavesCounted
<1>1. TestInv => SlavesCounted
  BY Crew DEF TestInv, TestTypeOK, Busy, Spawned, SlavesCounted, SlavePlaces
<1>2. BodyInv /\ [AutotestNext]_testVars => BodyInv'
  BY TestStepBody, BodyStep
<1> QED BY <1>1, <1>2, TestInitInv, TestStep, PTL DEF AutotestSpec

\* The module's threads, which share one queue, use it as a Mailbox: each
\* `unload' and each `sigend' posted to it is taken by one thread, in order.
THEOREM AutotestKeepsMailbox == AutotestSpec => Box!Spec
<1>1. AutotestInit => BodyInit
  BY DEF AutotestInit
<1> QED BY <1>1, BoxInit, TestInitInv, TestStepBody, BodyStep, BodyStepRefines, PTL
        DEF AutotestSpec, Box!Spec
-----------------------------------------------------------------------------
\* Once the main thread has signalled `sigend', one is in the queue, or with a
\* slave that is about to pass it on.
SigEndGoesRound ==
  Told => \/ \E i \in 1 .. Len(siglist) : siglist[i] = SigEnd
          \/ \E s \in Slaves : pc[s] = "telling"

\* A main thread that waits for slaves that are all gone has been posted, or
\* is about to be.
LastQuitPosted ==
  pc[Main] = "waiting" /\ children = 0 => csem > 0 \/ \E s \in Slaves : pc[s] = "posting"

RoundInv == csem \in Nat /\ SigEndGoesRound /\ LastQuitPosted

\* A receive takes a signal that is in the queue, or leaves it there.
LEMMA SignalsRemain ==
  ASSUME BodyInv, Take, NEW i \in 1 .. Len(siglist)
  PROVE  \/ got'.rc = "PEC_SIGNAL" /\ got'.data = siglist[i]
         \/ \E j \in 1 .. Len(siglist') : siglist'[j] = siglist[i]
<1>1. siglist \in Seq(Signals) /\ siglist # <<>>
  BY DEF BodyInv, BodyTypeOK
<1>2. CASE TakeSignal
  <2>1. siglist' = Tail(siglist) /\ got' = [rc |-> "PEC_SIGNAL", data |-> Head(siglist)]
    BY <1>2 DEF TakeSignal
  <2>2. CASE i = 1
    BY <1>1, <2>1, <2>2
  <2>3. CASE i # 1
    <3>1. /\ i - 1 \in 1 .. Len(siglist') /\ (i - 1) + 1 = i
          /\ \A j \in 1 .. Len(siglist') : siglist'[j] = siglist[j + 1]
      BY <1>1, <2>1, <2>3
    <3>2. siglist'[i - 1] = siglist[i]
      BY <3>1
    <3> QED BY <3>1, <3>2
  <2> QED BY <2>2, <2>3
<1>3. CASE TakePacket \/ TakeNothing
  BY <1>3 DEF TakePacket, TakeNothing
<1> QED BY <1>2, <1>3 DEF Take

LEMMA SignalsAdded ==
  ASSUME BodyInv, NEW x \in Signals, PostSignal(x)
  PROVE  /\ \E j \in 1 .. Len(siglist') : siglist'[j] = x
         /\ \A i \in 1 .. Len(siglist) : i \in 1 .. Len(siglist') /\ siglist'[i] = siglist[i]
<1>1. siglist \in Seq(Signals) /\ siglist' = Append(siglist, x)
  BY DEF BodyInv, BodyTypeOK, PostSignal
<1>2. Len(siglist) + 1 \in 1 .. Len(siglist') /\ siglist'[Len(siglist) + 1] = x
  BY <1>1
<1> QED BY <1>1, <1>2

LEMMA RoundStep ==
  ASSUME BodyInv, TestInv, RoundInv, [AutotestNext]_testVars
  PROVE  RoundInv'
<1> USE Crew DEF RoundInv, SigEndGoesRound, LastQuitPosted, Told
<1>0. TestTypeOK /\ (Told \/ Quiet)
  BY DEF TestInv
<1> USE <1>0 DEF TestTypeOK
<1>1. ASSUME NEW s \in Slaves, Spawn(s) \/ SpawnFails(s) PROVE RoundInv'
  BY <1>1 DEF Spawn, SpawnFails, Goes, bodyVars
<1>2. CASE SpawnDone \/ CheckAgain
  BY <1>2 DEF SpawnDone, CheckAgain, Goes, bodyVars
<1>3. CASE Check
  BY <1>3 DEF Check, Goes, bodyVars
<1>4. ASSUME NEW s \in Slaves, AttachSlave(s) \/ Read(s) PROVE RoundInv'
  BY <1>4 DEF AttachSlave, Read, Goes, Then, bodyVars
<1>5. ASSUME NEW s \in Slaves, Write(s) PROVE RoundInv'
  <2>1. pc'[s] = "posting"
    BY <1>5 DEF Write, Goes, Then
  <2> QED BY <1>5, <2>1 DEF Write, Goes, Then, bodyVars
<1>6. ASSUME NEW s \in Slaves, Quit(s) PROVE RoundInv'
  <2>1. csem' \in Nat /\ csem' > 0
    BY <1>6 DEF Quit
  <2> QED BY <1>6, <2>1 DEF Quit, Goes, Then, bodyVars
<1>7. ASSUME NEW t \in Threads, Tell(t) PROVE RoundInv'
  <2>1. \E j \in 1 .. Len(siglist') : siglist'[j] = SigEnd
    BY <1>7, SignalsAdded DEF Tell
  <2>2. pc'[Main] # "waiting" \/ pc'[Main] = pc[Main]
    BY <1>7 DEF Tell, Goes
  <2>3. \A s \in Slaves : pc[s] = "posting" => pc'[s] = "posting"
    BY <1>7 DEF Tell, Goes
  <2> QED BY <1>7, <2>1, <2>2, <2>3 DEF Tell
<1>8. ASSUME NEW t \in Threads, Received(t) PROVE RoundInv'
  <2>1. Take /\ pc[t] = "receiving" /\ UNCHANGED <<children, csem>>
    BY <1>8 DEF Received, PeekNow, PeekThrough, PeekWake
  <2>2. /\ Told' => Told
        /\ pc'[Main] = "waiting" => pc[Main] = "waiting"
        /\ \A s \in Slaves : s # t => pc'[s] = pc[s]
    BY <1>8, <2>1 DEF Received, Goes
  <2>3. LastQuitPosted'
    BY <2>1, <2>2
  <2>4. ASSUME Told, NEW i \in 1 .. Len(siglist), siglist[i] = SigEnd
        PROVE  SigEndGoesRound'
    <3>1. CASE got'.rc = "PEC_SIGNAL" /\ got'.data = siglist[i]
      <4>1. t \in Slaves
        BY <2>1, <2>4, AutotestAssumption
      <4>2. pc'[t] = "telling"
        BY <1>8, <2>4, <3>1, <4>1 DEF Received, Heeds, Goes
      <4> QED BY <4>1, <4>2
    <3>2. CASE \E j \in 1 .. Len(siglist') : siglist'[j] = siglist[i]
      BY <2>4, <3>2
    <3> QED BY <2>1, <3>1, <3>2, SignalsRemain
  <2>5. ASSUME NEW s \in Slaves, pc[s] = "telling" PROVE SigEndGoesRound'
    BY <2>1, <2>2, <2>5
  <2> QED BY <2>1, <2>2, <2>3, <2>4, <2>5
<1>9. ASSUME NEW t \in Threads, Receiving(t) PROVE RoundInv'
  BY <1>9 DEF Receiving, PeekSleep, PeekResleep, PeekRouse
<1>10. CASE SayUnload
  <2>1. \A i \in 1 .. Len(siglist) : i \in 1 .. Len(siglist') /\ siglist'[i] = siglist[i]
    BY <1>10, SignalsAdded DEF SayUnload
  <2> QED BY <1>10, <2>1 DEF SayUnload
<1>11. CASE UNCHANGED testVars
  BY <1>11 DEF testVars, bodyVars
<1> QED BY <1>1, <1>2, <1>3, <1>4, <1>5, <1>6, <1>7, <1>8, <1>9, <1>10, <1>11
        DEF AutotestNext, MainStep, SlaveStep

\* What EveryoneTold and LastQuitSeen rest on: `sigend' is never lost between
\* two slaves, and the post of the last slave is never missed by the main
\* thread, lost decrements and all.
THEOREM NothingToldIsLost == AutotestSpec => [](SigEndGoesRound /\ LastQuitPosted)
<1>1. AutotestInit => RoundInv
  BY Crew DEF AutotestInit, RoundInv, SigEndGoesRound, LastQuitPosted, Told
<1>2. RoundInv => SigEndGoesRound /\ LastQuitPosted
  BY DEF RoundInv
<1>3. BodyInv /\ [AutotestNext]_testVars => BodyInv'
  BY TestStepBody, BodyStep
<1> QED BY <1>1, <1>2, <1>3, TestInitInv, TestStep, RoundStep, PTL DEF AutotestSpec
=============================================================================
