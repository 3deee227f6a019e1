--------------------------- MODULE MsgqBodyProofs ---------------------------
(***************************************************************************)
(* Proofs about the semaphore, for any finite set of threads: the          *)
(* exactness of wcount, the absence of lost posts, and that it implements  *)
(* a Semaphore.  Then about the message queue on it: what it keeps of its  *)
(* semaphore, that no message is left behind while a receiver sleeps, and  *)
(* that it implements a Mailbox, for any receivers, packets, signals and   *)
(* bound; then the same for the queue of the scons branch, whose semaphore *)
(* keeps no count of its waiters and signals before it counts.             *)
(***************************************************************************)
EXTENDS SconsBody, FiniteSetTheorems, TLAPS

\* The three invariants support each other: WaitersCounted keeps wcount a
\* natural number when a waiter leaves.
SemlInv == SemlTypeOK /\ WaitersCounted /\ NoLostPost

-----------------------------------------------------------------------------
\* Sizes of the two sets a thread moves between.
LEMMA WaitSetsFinite ==
  ASSUME SemlTypeOK
  PROVE  /\ IsFiniteSet(asleep) /\ IsFiniteSet(woken)
         /\ Cardinality(asleep) \in Nat /\ Cardinality(woken) \in Nat
BY SemlAssumption, FS_Subset, FS_CardinalityType DEF SemlTypeOK

\* Moving a thread from one finite set to another keeps the total.
LEMMA Move ==
  ASSUME NEW S, NEW T, NEW t \in S, t \notin T, IsFiniteSet(S), IsFiniteSet(T)
  PROVE  /\ Cardinality(S \ {t}) = Cardinality(S) - 1
         /\ Cardinality(T \cup {t}) = Cardinality(T) + 1
         /\ Cardinality(S) \in Nat \ {0} /\ Cardinality(T) \in Nat
<1>1. Cardinality(S) \in Nat /\ Cardinality(T) \in Nat
  BY FS_CardinalityType
<1>2. Cardinality(S \ {t}) = Cardinality(S) - 1
  BY FS_RemoveElement
<1>3. Cardinality(T \cup {t}) = Cardinality(T) + 1
  BY FS_AddElement
<1>4. Cardinality(S) # 0
  BY FS_EmptySet
<1> QED BY <1>1, <1>2, <1>3, <1>4

LEMMA SemlInitInv == SemlInit => SemlInv
BY SemlAssumption, FS_EmptySet
DEF SemlInit, SemlInv, SemlTypeOK, WaitersCounted, NoLostPost

\* pthread_cond_signal keeps the waiting threads and wakes one if it can.
LEMMA CondSignalEffect ==
  ASSUME SemlTypeOK, CondSignal
  PROVE  /\ asleep' \in SUBSET Threads /\ woken' \in SUBSET Threads
         /\ asleep' \cap woken' = {}
         /\ Cardinality(asleep') + Cardinality(woken')
              = Cardinality(asleep) + Cardinality(woken)
         /\ asleep # {} => Cardinality(woken') = Cardinality(woken) + 1
         /\ asleep = {} => asleep' = {}
<1>1. CASE asleep = {} /\ UNCHANGED <<asleep, woken>>
  BY <1>1 DEF SemlTypeOK
<1>2. CASE \E t \in asleep : /\ asleep' = asleep \ {t}
                             /\ woken' = woken \cup {t}
  <2>1. PICK t \in asleep : asleep' = asleep \ {t} /\ woken' = woken \cup {t}
    BY <1>2
  <2>2. t \notin woken
    BY DEF SemlTypeOK
  <2>3. /\ Cardinality(asleep') = Cardinality(asleep) - 1
        /\ Cardinality(woken') = Cardinality(woken) + 1
        /\ Cardinality(asleep) \in Nat \ {0} /\ Cardinality(woken) \in Nat
    BY <2>1, <2>2, WaitSetsFinite, Move
  <2> QED BY <2>1, <2>2, <2>3 DEF SemlTypeOK
<1> QED BY <1>1, <1>2 DEF CondSignal

LEMMA SemlStep == SemlInv /\ [SemlNext]_semlVars => SemlInv'
<1> SUFFICES ASSUME SemlInv, [SemlNext]_semlVars
             PROVE  SemlInv'
  OBVIOUS
<1> USE SemlAssumption
<1>0. /\ IsFiniteSet(asleep) /\ IsFiniteSet(woken)
      /\ Cardinality(asleep) \in Nat /\ Cardinality(woken) \in Nat
  BY WaitSetsFinite DEF SemlInv
<1>1. CASE Post
  BY <1>0, <1>1, CondSignalEffect
  DEF Post, SemlInv, SemlTypeOK, WaitersCounted, NoLostPost
<1>2. CASE Broadcast
  <2>1. IsFiniteSet(asleep') /\ Cardinality(asleep') = 0
    BY <1>2, FS_EmptySet DEF Broadcast
  <2>2. Cardinality(woken') = Cardinality(woken) + Cardinality(asleep)
    <3>1. Cardinality(woken \cap asleep) = 0
      BY FS_EmptySet DEF SemlInv, SemlTypeOK
    <3>2. Cardinality(woken \cup asleep)
            = Cardinality(woken) + Cardinality(asleep) - Cardinality(woken \cap asleep)
      BY <1>0, FS_Union
    <3> QED BY <1>0, <1>2, <3>1, <3>2 DEF Broadcast
  <2> QED BY <1>0, <1>2, <2>1, <2>2
          DEF Broadcast, SemlInv, SemlTypeOK, WaitersCounted, NoLostPost
<1>3. CASE Idle # {} /\ WaitThrough
  BY <1>0, <1>3
  DEF WaitThrough, SemlInv, SemlTypeOK, WaitersCounted, NoLostPost
<1>4. ASSUME NEW t \in Idle, Sleep(t) PROVE SemlInv'
  <2>1. Cardinality(asleep') = Cardinality(asleep) + 1
    BY <1>0, <1>4, FS_AddElement DEF Sleep, Idle
  <2> QED BY <1>0, <1>4, <2>1
          DEF Sleep, Idle, SemlInv, SemlTypeOK, WaitersCounted, NoLostPost
<1>5. ASSUME NEW t \in Threads, Resume(t) PROVE SemlInv'
  <2>1. /\ Cardinality(woken') = Cardinality(woken) - 1
        /\ Cardinality(woken) # 0
    BY <1>0, <1>5, FS_RemoveElement, FS_EmptySet DEF Resume
  <2> QED BY <1>0, <1>5, <2>1
          DEF Resume, SemlInv, SemlTypeOK, WaitersCounted, NoLostPost
<1>6. ASSUME NEW t \in Threads, Resleep(t) PROVE SemlInv'
  <2>1. t \in woken /\ t \notin asleep
    BY <1>6 DEF Resleep, SemlInv, SemlTypeOK
  <2>2. /\ Cardinality(woken') = Cardinality(woken) - 1
        /\ Cardinality(asleep') = Cardinality(asleep) + 1
        /\ Cardinality(woken) \in Nat \ {0}
    BY <1>0, <1>6, <2>1, Move DEF Resleep
  <2> QED BY <1>0, <1>6, <2>1, <2>2
          DEF Resleep, SemlInv, SemlTypeOK, WaitersCounted, NoLostPost
<1>7. ASSUME NEW t \in Threads, Rouse(t) PROVE SemlInv'
  <2>1. t \in asleep /\ t \notin woken
    BY <1>7 DEF Rouse, SemlInv, SemlTypeOK
  <2>2. /\ Cardinality(asleep') = Cardinality(asleep) - 1
        /\ Cardinality(woken') = Cardinality(woken) + 1
        /\ Cardinality(asleep) \in Nat \ {0}
    BY <1>0, <1>7, <2>1, Move DEF Rouse
  <2> QED BY <1>0, <1>7, <2>1, <2>2
          DEF Rouse, SemlInv, SemlTypeOK, WaitersCounted, NoLostPost
<1>8. CASE UNCHANGED semlVars
  BY <1>8 DEF semlVars, SemlInv, SemlTypeOK, WaitersCounted, NoLostPost
<1> QED BY <1>1, <1>2, <1>3, <1>4, <1>5, <1>6, <1>7, <1>8 DEF SemlNext

-----------------------------------------------------------------------------
\* sem.cc keeps its counters consistent and never loses a post: in every
\* reachable state wcount is the number of threads inside waitex(), and while
\* one of them sleeps each undelivered post has a woken thread of its own.
THEOREM SemlCorrect == SemlSpec => [](SemlTypeOK /\ WaitersCounted /\ NoLostPost)
<1>1. SemlInv => SemlTypeOK /\ WaitersCounted /\ NoLostPost
  BY DEF SemlInv
<1> QED BY <1>1, SemlInitInv, SemlStep, PTL DEF SemlSpec

\* broadcast() adds one count for exactly each thread inside waitex(), the
\* woken ones that have not run yet included: wcount is their number.
THEOREM WaitersCountExact == SemlSpec => []WaitersCounted
BY SemlCorrect, PTL

\* No post is lost: while a thread sleeps in waitex(), every undelivered post
\* has a woken thread of its own on the way to take it.
THEOREM PostsReachSleepers == SemlSpec => []NoLostPost
BY SemlCorrect, PTL

-----------------------------------------------------------------------------
\* One step of the semaphore is one step of the abstract one, or none.
LEMMA SemlStepRefines ==
  ASSUME SemlInv, [SemlNext]_semlVars
  PROVE  [Sem!Next]_(Sem!vars)
<1> USE DEF Sem!Next, Sem!vars
<1>0. asleep \cap woken = {} /\ scount \in Nat /\ wcount \in Nat
  BY SemlAssumption DEF SemlInv, SemlTypeOK
<1>1. CASE Post
  <2>1. asleep' \cup woken' = asleep \cup woken
    BY <1>1 DEF Post, CondSignal
  <2>2. Sem!Up(1)
    BY SemlAssumption, <1>0, <1>1, <2>1 DEF Post, Sem!Up
  <2> QED BY <2>2
<1>2. CASE Broadcast
  <2>1. wcount = Cardinality(asleep \cup woken)
    <3>1. /\ IsFiniteSet(asleep) /\ IsFiniteSet(woken)
          /\ Cardinality(asleep) \in Nat /\ Cardinality(woken) \in Nat
      BY WaitSetsFinite DEF SemlInv
    <3>2. Cardinality(asleep \cup woken)
            = Cardinality(asleep) + Cardinality(woken) - Cardinality(asleep \cap woken)
      BY <3>1, FS_Union
    <3>3. Cardinality(asleep \cap woken) = 0
      BY <1>0, FS_EmptySet
    <3> QED BY <3>1, <3>2, <3>3 DEF SemlInv, WaitersCounted
  <2>2. asleep' \cup woken' = asleep \cup woken
    BY <1>2 DEF Broadcast
  <2>3. Sem!Up(wcount)
    BY <1>2, <2>2 DEF Broadcast, Sem!Up
  <2>4. Sem!Cardinality(asleep \cup woken) = Cardinality(asleep \cup woken)
    BY DEF Sem!Cardinality, Cardinality
  <2>5. Sem!Up(Sem!Cardinality(asleep \cup woken))
    BY <2>1, <2>3, <2>4
  <2> QED BY <2>5
<1>3. CASE Idle # {} /\ WaitThrough
  BY <1>3 DEF WaitThrough, Sem!Down
<1>4. ASSUME NEW t \in Idle, Sleep(t) PROVE [Sem!Next]_(Sem!vars)
  <2>1. t \in Threads \ (asleep \cup woken)
    BY DEF Idle
  <2>2. Sem!Await(t)
    BY <1>4 DEF Sleep, Sem!Await
  <2> QED BY <2>1, <2>2
<1>5. ASSUME NEW t \in Threads, Resume(t) PROVE [Sem!Next]_(Sem!vars)
  <2>1. Sem!Acquire(t)
    BY <1>0, <1>5 DEF Resume, Sem!Acquire
  <2> QED BY <2>1
<1>6. ASSUME NEW t \in Threads, Resleep(t) PROVE UNCHANGED Sem!vars
  BY <1>6 DEF Resleep
<1>7. ASSUME NEW t \in Threads, Rouse(t) PROVE UNCHANGED Sem!vars
  BY <1>7 DEF Rouse
<1>8. CASE UNCHANGED semlVars
  BY <1>8 DEF semlVars
<1> QED BY <1>1, <1>2, <1>3, <1>4, <1>5, <1>6, <1>7, <1>8 DEF SemlNext

\* sem.cc implements a counting semaphore: the condition variable, spurious
\* wake-ups and the threads racing for the mutex never show in the counter or
\* in the set of waiting threads.
THEOREM SemlImplementsSemaphore == SemlSpec => Sem!Spec
<1>1. SemlInit => Sem!Init
  BY DEF SemlInit, Sem!Init
<1> QED BY <1>1, SemlInitInv, SemlStep, SemlStepRefines, PTL
        DEF SemlSpec, Sem!Spec
-----------------------------------------------------------------------------
(* The queue.                                                              *)

BodyInv == SemlInv /\ BodyTypeOK /\ EntriesCounted
-----------------------------------------------------------------------------
\* Every step of the queue is a step of its semaphore, or leaves it alone.
LEMMA BodyStepSeml == [BodyNext]_bodyVars => [SemlNext]_semlVars
BY DEF BodyNext, bodyVars, SemlNext, semlVars, PostPacket, PostSignal,
       PostDropped, PeekNow, PeekThrough, PeekSleep, PeekWake, PeekResleep,
       PeekRouse

\* What peek() does to the lists once it has the mutex to itself.
LEMMA TakeEffect ==
  ASSUME BodyTypeOK, Take
  PROVE  /\ packetlist' \in Seq(Packets) /\ siglist' \in Seq(Signals)
         /\ got' \in Results
         /\ Items \in Nat /\ Items' \in Nat
         /\ Items > 0 => Items' = Items - 1
         /\ Items = 0 => Items' = 0
<1> USE DEF BodyTypeOK, Items
<1>0. /\ Len(packetlist) \in Nat /\ Len(siglist) \in Nat
      /\ packetlist \in Seq(Packets) /\ siglist \in Seq(Signals)
  OBVIOUS
<1>1. CASE TakeSignal
  <2>1. /\ siglist' \in Seq(Signals) /\ Len(siglist') = Len(siglist) - 1
        /\ Head(siglist) \in Signals /\ Len(siglist) > 0
    BY <1>0, <1>1 DEF TakeSignal
  <2>2. got' \in Results
    BY <1>1, <2>1 DEF TakeSignal, Results
  <2> QED BY <1>0, <1>1, <2>1, <2>2 DEF TakeSignal
<1>2. CASE TakePacket
  <2>1. /\ packetlist' \in Seq(Packets) /\ Len(packetlist') = Len(packetlist) - 1
        /\ Head(packetlist) \in Packets /\ Len(packetlist) > 0
    BY <1>0, <1>2 DEF TakePacket
  <2>2. got' \in Results
    BY <1>2, <2>1 DEF TakePacket, Results
  <2> QED BY <1>0, <1>2, <2>1, <2>2 DEF TakePacket
<1>3. CASE TakeNothing
  BY <1>0, <1>3 DEF TakeNothing, Results
<1> QED BY <1>1, <1>2, <1>3 DEF Take

LEMMA BodyInitInv == BodyInit => BodyInv
<1> SUFFICES ASSUME BodyInit PROVE BodyInv
  OBVIOUS
<1>1. SemlInv
  BY SemlInitInv DEF BodyInit
<1>2. Len(packetlist) = 0 /\ Len(siglist) = 0
  BY DEF BodyInit
<1>3. got \in Results
  BY DEF BodyInit, Results
<1> QED BY <1>1, <1>2, <1>3
        DEF BodyInv, SemlInv, BodyInit, SemlInit, BodyTypeOK, EntriesCounted, Items

LEMMA BodyStep == BodyInv /\ [BodyNext]_bodyVars => BodyInv'
<1> SUFFICES ASSUME BodyInv, [BodyNext]_bodyVars
             PROVE  BodyInv'
  OBVIOUS
<1> USE DEF BodyInv
<1>0. SemlInv'
  BY BodyStepSeml, SemlStep
<1>1. SemlTypeOK'
  BY <1>0 DEF SemlInv
<1>2. /\ packetlist \in Seq(Packets) /\ siglist \in Seq(Signals)
      /\ Len(packetlist) \in Nat /\ Len(siglist) \in Nat
      /\ scount \in Nat
  BY SemlAssumption DEF BodyTypeOK, SemlTypeOK
<1> SUFFICES BodyTypeOK' /\ EntriesCounted'
  BY <1>0
<1> USE DEF BodyTypeOK, EntriesCounted
<1>3. ASSUME NEW p \in Packets, PostPacket(p)
      PROVE  BodyTypeOK' /\ EntriesCounted'
  <2>1. packetlist' \in Seq(Packets) /\ Len(packetlist') = Len(packetlist) + 1
    BY <1>2, <1>3 DEF PostPacket
  <2> QED BY <1>1, <1>2, <1>3, <2>1 DEF PostPacket, Post, Items
<1>4. ASSUME NEW s \in Signals, PostSignal(s)
      PROVE  BodyTypeOK' /\ EntriesCounted'
  <2>1. siglist' \in Seq(Signals) /\ Len(siglist') = Len(siglist) + 1
    BY <1>2, <1>4 DEF PostSignal
  <2> QED BY <1>1, <1>2, <1>4, <2>1 DEF PostSignal, Post, Items
<1>5. CASE PostDropped
  BY <1>1, <1>2, <1>5 DEF PostDropped, Post, Items
<1>6. CASE PeekNow
  <2>1. UNCHANGED scount
    BY <1>6 DEF PeekNow, semlVars
  <2> QED BY <1>1, <1>2, <1>6, <2>1, TakeEffect DEF PeekNow
<1>7. CASE PeekThrough
  BY <1>1, <1>2, <1>7, TakeEffect DEF PeekThrough, WaitThrough
<1>8. ASSUME NEW t \in Idle, PeekSleep(t)
      PROVE  BodyTypeOK' /\ EntriesCounted'
  BY <1>1, <1>2, <1>8 DEF PeekSleep, Sleep, Items
<1>9. ASSUME NEW t \in Threads, PeekWake(t)
      PROVE  BodyTypeOK' /\ EntriesCounted'
  BY <1>1, <1>2, <1>9, TakeEffect DEF PeekWake, Resume
<1>10. ASSUME NEW t \in Threads, PeekResleep(t) \/ PeekRouse(t)
       PROVE  BodyTypeOK' /\ EntriesCounted'
  BY <1>1, <1>2, <1>10 DEF PeekResleep, Resleep, PeekRouse, Rouse, Items
<1>11. CASE UNCHANGED bodyVars
  BY <1>1, <1>2, <1>11 DEF bodyVars, Items
<1> QED BY <1>3, <1>4, <1>5, <1>6, <1>7, <1>8, <1>9, <1>10, <1>11 DEF BodyNext

\* No wake-up is lost because no post is, and every entry has one.
LEMMA NoLostWakeupFollows == BodyInv => NoLostWakeup
<1> SUFFICES ASSUME BodyInv, asleep # {}
             PROVE  Items <= Cardinality(woken)
  BY DEF NoLostWakeup
<1>1. Items <= scount /\ scount <= Cardinality(woken)
  BY DEF BodyInv, SemlInv, EntriesCounted, NoLostPost
<1>2. scount \in Nat /\ Cardinality(woken) \in Nat
  BY SemlAssumption, WaitSetsFinite DEF BodyInv, SemlInv, SemlTypeOK
<1>3. Items \in Nat
  BY DEF BodyInv, BodyTypeOK, Items
<1> QED BY <1>1, <1>2, <1>3
-----------------------------------------------------------------------------
\* msgq.cc never leaves a message in the queue of a sleeping receiver without
\* a receiver woken for it: its wait tests the lists and the semaphore under
\* one mutex, and a semaphore count never falls behind the entries.
THEOREM BodyCorrect == BodySpec => [](BodyTypeOK /\ EntriesCounted /\ NoLostWakeup)
<1>1. BodyInv => BodyTypeOK /\ EntriesCounted /\ NoLostWakeup
  BY NoLostWakeupFollows DEF BodyInv
<1> QED BY <1>1, BodyInitInv, BodyStep, PTL DEF BodySpec

\* psem never counts less than the two lists hold, whatever is refused for
\* want of memory: nothing is queued that no receive will come for.
THEOREM EntriesAlwaysCounted == BodySpec => []EntriesCounted
BY BodyCorrect, PTL

-----------------------------------------------------------------------------
\* Taking from the lists is the same in both specifications.
LEMMA TakeRefines ==
  ASSUME BodyTypeOK, Take
  PROVE  \/ Box!TakeItem /\ Items > 0
         \/ /\ Items = 0 /\ Items' = 0
            /\ got' = [rc |-> "PEC_MSGQ_ERROR"]
            /\ UNCHANGED <<packetlist, siglist>>
<1>1. /\ Len(packetlist) \in Nat /\ Len(siglist) \in Nat
      /\ packetlist \in Seq(Packets) /\ siglist \in Seq(Signals)
  BY DEF BodyTypeOK
<1>2. CASE TakeSignal
  BY <1>1, <1>2 DEF TakeSignal, Items, Box!TakeItem, Box!TakeSignal
<1>3. CASE TakePacket
  BY <1>1, <1>3 DEF TakePacket, Items, Box!TakeItem, Box!TakePacket
<1>4. CASE TakeNothing
  BY <1>4 DEF TakeNothing, Items
<1> QED BY <1>2, <1>3, <1>4 DEF Take

LEMMA BodyStepRefines ==
  ASSUME BodyInv, BodyInv', [BodyNext]_bodyVars
  PROVE  [Box!Next]_(Box!vars)
<1> USE DEF Box!Next
<1>0. /\ Items \in Nat /\ Items' \in Nat
      /\ scount \in Nat /\ Items <= scount
      /\ Len(packetlist) \in Nat /\ Len(siglist) \in Nat
      /\ packetlist \in Seq(Packets) /\ siglist \in Seq(Signals)
      /\ asleep \cap woken = {}
  BY SemlAssumption
  DEF BodyInv, BodyTypeOK, SemlInv, SemlTypeOK, EntriesCounted, Items
<1>1. Box!Size = Items
  BY DEF Box!Size, Items
<1>2. Post => scount' = scount + 1 /\ asleep' \cup woken' = asleep \cup woken
  BY DEF Post, CondSignal
<1>3. ASSUME NEW p \in Packets, PostPacket(p) PROVE Box!Put(p)
  <2>1. Len(packetlist') = Len(packetlist) + 1
    BY <1>0, <1>3 DEF PostPacket
  <2>2. scount' - Items' = scount - Items
    BY <1>0, <1>2, <1>3, <2>1 DEF PostPacket, Items
  <2> QED BY <1>2, <1>3, <2>2 DEF PostPacket, Box!Put
<1>4. ASSUME NEW s \in Signals, PostSignal(s) PROVE Box!Signal(s)
  <2>1. Len(siglist') = Len(siglist) + 1
    BY <1>0, <1>4 DEF PostSignal
  <2>2. scount' - Items' = scount - Items
    BY <1>0, <1>2, <1>4, <2>1 DEF PostSignal, Items
  <2> QED BY <1>2, <1>4, <2>2 DEF PostSignal, Box!Signal
<1>5. CASE PostDropped
  <2>1. Items' = Items
    BY <1>5 DEF PostDropped, Items
  <2> QED BY <1>0, <1>2, <1>5, <2>1 DEF PostDropped, Box!Drop
<1>6. CASE PeekNow
  <2>1. Box!TakeItem /\ Items' = Items - 1
    BY <1>6, TakeRefines, TakeEffect, <1>0 DEF PeekNow, BodyInv
  <2>2. UNCHANGED <<scount, asleep, woken>>
    BY <1>6 DEF PeekNow, semlVars
  <2> QED BY <1>0, <2>1, <2>2 DEF Box!ReceiveNow
<1>7. CASE PeekThrough
  <2>1. /\ Items = 0 /\ Items' = 0 /\ got' = [rc |-> "PEC_MSGQ_ERROR"]
        /\ UNCHANGED <<packetlist, siglist>>
    BY <1>7, TakeRefines, <1>0 DEF PeekThrough, BodyInv
  <2>2. scount > 0 /\ scount' = scount - 1 /\ UNCHANGED <<asleep, woken>>
    BY <1>7 DEF PeekThrough, WaitThrough
  <2> QED BY <1>0, <1>1, <2>1, <2>2 DEF Box!ReceiveNothing, Box!TakeNothing
<1>8. ASSUME NEW t \in Idle, PeekSleep(t) PROVE Box!Enter(t) /\ t \in Threads
  <2>1. Items' = Items
    BY <1>8 DEF PeekSleep, Items
  <2> QED BY <1>0, <1>1, <1>8, <2>1 DEF PeekSleep, Sleep, Idle, Box!Enter
<1>9. ASSUME NEW t \in Threads, PeekWake(t) PROVE Box!Serve(t)
  <2>1. /\ t \in woken /\ scount > 0 /\ scount' = scount - 1
        /\ woken' = woken \ {t} /\ UNCHANGED asleep /\ Take
    BY <1>9 DEF PeekWake, Resume
  <2>2. asleep' \cup woken' = (asleep \cup woken) \ {t}
    BY <1>0, <2>1
  <2>3. CASE Box!TakeItem /\ Items > 0
    <3>1. Items' = Items - 1
      BY <2>1, <2>3, TakeEffect DEF BodyInv
    <3> QED BY <1>0, <2>1, <2>2, <2>3, <3>1 DEF Box!Serve
  <2>4. CASE /\ Items = 0 /\ Items' = 0 /\ got' = [rc |-> "PEC_MSGQ_ERROR"]
             /\ UNCHANGED <<packetlist, siglist>>
    BY <1>0, <1>1, <2>1, <2>2, <2>4 DEF Box!Serve, Box!TakeNothing
  <2> QED BY <2>1, <2>3, <2>4, TakeRefines DEF BodyInv
<1>10. ASSUME NEW t \in Threads, PeekResleep(t) \/ PeekRouse(t)
       PROVE  UNCHANGED Box!vars
  <2>1. Items' = Items
    BY <1>10 DEF PeekResleep, PeekRouse, Items
  <2> QED BY <1>10, <2>1
          DEF PeekResleep, Resleep, PeekRouse, Rouse, Box!vars
<1>11. CASE UNCHANGED bodyVars
  BY <1>11 DEF bodyVars, Box!vars, Items
<1> QED BY <1>3, <1>4, <1>5, <1>6, <1>7, <1>8, <1>9, <1>10, <1>11 DEF BodyNext

LEMMA BoxInit == BodyInit => Box!Init
<1> SUFFICES ASSUME BodyInit PROVE Box!Init
  OBVIOUS
<1>1. Len(packetlist) = 0 /\ Len(siglist) = 0 /\ scount = 0
  BY DEF BodyInit, SemlInit
<1>2. scount - Items = 0
  BY <1>1 DEF Items
<1> QED BY <1>2 DEF BodyInit, SemlInit, Box!Init

\* msgq.cc implements a Mailbox: packets and signals leave in the order they
\* came, once each, signals first, and a receive returns empty-handed exactly
\* when the semaphore counts more posts than the lists hold entries.
THEOREM BodyImplementsMailbox == BodySpec => Box!Spec
BY BoxInit, BodyInitInv, BodyStep, BodyStepRefines, PTL DEF BodySpec, Box!Spec
-----------------------------------------------------------------------------
\* What the queue of the scons branch keeps.
SconsInv == BodyTypeOK /\ EntriesCounted /\ NoLostPost
-----------------------------------------------------------------------------
LEMMA SconsInitInv == SconsInit => SconsInv
BY BodyInitInv DEF SconsInit, SconsInv, BodyInv, SemlInv

\* The numbers the invariant relates.
LEMMA SconsNumbers ==
  ASSUME SconsInv
  PROVE  /\ packetlist \in Seq(Packets) /\ siglist \in Seq(Signals)
         /\ Len(packetlist) \in Nat /\ Len(siglist) \in Nat
         /\ scount \in Nat /\ Items \in Nat /\ Items <= scount
         /\ IsFiniteSet(asleep) /\ IsFiniteSet(woken)
         /\ Cardinality(asleep) \in Nat /\ Cardinality(woken) \in Nat
         /\ asleep \cap woken = {}
<1>1. SemlTypeOK /\ BodyTypeOK /\ EntriesCounted
  BY DEF SconsInv, BodyTypeOK
<1> QED BY <1>1, WaitSetsFinite, SemlAssumption
        DEF SemlTypeOK, BodyTypeOK, EntriesCounted, Items

LEMMA SconsStep == SconsInv /\ [SconsNext]_bodyVars => SconsInv'
<1> SUFFICES ASSUME SconsInv, [SconsNext]_bodyVars
             PROVE  SconsInv'
  OBVIOUS
<1> USE SemlAssumption
<1>0. /\ BodyTypeOK /\ SemlTypeOK /\ EntriesCounted /\ NoLostPost
      /\ got \in Results
  BY DEF SconsInv, BodyTypeOK
<1> USE SconsNumbers
<1>1. ASSUME SconsPut PROVE SconsInv'
  <2>1. scount' = scount + 1 /\ scount < MaxCount /\ UNCHANGED <<wcount, got>>
    BY <1>1 DEF SconsPut, SconsPost
  <2>2. /\ packetlist' \in Seq(Packets) /\ siglist' \in Seq(Signals)
        /\ Items' \in {Items, Items + 1}
    <3>1. ASSUME NEW p \in Packets, packetlist' = Append(packetlist, p)
          PROVE  /\ packetlist' \in Seq(Packets)
                 /\ Len(packetlist') = Len(packetlist) + 1
      BY <3>1
    <3>2. ASSUME NEW s \in Signals, siglist' = Append(siglist, s)
          PROVE  siglist' \in Seq(Signals) /\ Len(siglist') = Len(siglist) + 1
      BY <3>2
    <3> QED BY <1>1, <3>1, <3>2 DEF SconsPut, Items
  <2>3. /\ asleep' \in SUBSET Threads /\ woken' \in SUBSET Threads
        /\ asleep' \cap woken' = {}
        /\ asleep # {} => Cardinality(woken') = Cardinality(woken) + 1
        /\ asleep = {} => asleep' = {}
    BY <1>0, <1>1, CondSignalEffect DEF SconsPut, SconsPost
  <2>4. SemlTypeOK'
    BY <1>0, <2>1, <2>3 DEF SemlTypeOK
  <2>5. NoLostPost'
    BY <1>0, <2>1, <2>3 DEF NoLostPost
  <2> QED BY <1>0, <2>1, <2>2, <2>4, <2>5
          DEF SconsInv, BodyTypeOK, EntriesCounted
<1>2. ASSUME SconsPeekNow PROVE SconsInv'
  <2>1. UNCHANGED <<scount, wcount, asleep, woken>> /\ Take /\ Items > 0
    BY <1>2 DEF SconsPeekNow, semlVars
  <2> QED BY <1>0, <2>1, TakeEffect
          DEF SconsInv, BodyTypeOK, SemlTypeOK, NoLostPost, EntriesCounted
<1>3. ASSUME NEW t \in Threads, t \in Idle \/ t \in woken, SconsPeekThrough(t)
      PROVE  SconsInv'
  <2>1. /\ scount > 0 /\ scount' = scount - 1
        /\ woken' = woken \ {t} /\ UNCHANGED <<wcount, asleep>>
        /\ Take /\ (Items = 0 \/ t \in woken)
    BY <1>3 DEF SconsPeekThrough, SconsCount
  <2>2. Cardinality(woken') \in {Cardinality(woken), Cardinality(woken) - 1}
    BY <2>1, FS_RemoveElement
  <2>3. t \notin woken => woken' = woken
    BY <2>1
  <2>4. SemlTypeOK'
    BY <1>0, <2>1 DEF SemlTypeOK
  <2>5. NoLostPost'
    BY <1>0, <2>1, <2>2 DEF NoLostPost
  <2>6. /\ packetlist' \in Seq(Packets) /\ siglist' \in Seq(Signals)
        /\ got' \in Results /\ EntriesCounted'
    BY <1>0, <2>1, TakeEffect DEF EntriesCounted
  <2> QED BY <2>4, <2>5, <2>6 DEF SconsInv, BodyTypeOK
<1>4. ASSUME NEW t \in Idle, SconsPeekSleep(t) PROVE SconsInv'
  <2>1. /\ scount = 0 /\ asleep' = asleep \cup {t}
        /\ UNCHANGED <<scount, wcount, woken, packetlist, siglist, got>>
    BY <1>4 DEF SconsPeekSleep, SconsWait
  <2> QED BY <1>0, <2>1
          DEF Idle, SconsInv, BodyTypeOK, SemlTypeOK, NoLostPost, EntriesCounted, Items
<1>5. ASSUME NEW t \in Threads, PeekResleep(t) PROVE SconsInv'
  <2>1. /\ t \in woken /\ scount = 0
        /\ woken' = woken \ {t} /\ asleep' = asleep \cup {t}
        /\ UNCHANGED <<scount, wcount, packetlist, siglist, got>>
    BY <1>5 DEF PeekResleep, Resleep
  <2>2. Cardinality(woken') \in Nat
    BY <2>1, FS_RemoveElement, FS_CardinalityType
  <2> QED BY <1>0, <2>1, <2>2
          DEF SconsInv, BodyTypeOK, SemlTypeOK, NoLostPost, EntriesCounted, Items
<1>6. ASSUME NEW t \in Threads, PeekRouse(t) PROVE SconsInv'
  <2>1. /\ t \in asleep /\ t \notin woken
        /\ asleep' = asleep \ {t} /\ woken' = woken \cup {t}
        /\ UNCHANGED <<scount, wcount, packetlist, siglist, got>>
    BY <1>0, <1>6 DEF PeekRouse, Rouse, SemlTypeOK
  <2>2. Cardinality(woken') = Cardinality(woken) + 1
    BY <2>1, Move
  <2> QED BY <1>0, <2>1, <2>2
          DEF SconsInv, BodyTypeOK, SemlTypeOK, NoLostPost, EntriesCounted, Items
<1>7. CASE UNCHANGED bodyVars
  BY <1>0, <1>7
  DEF bodyVars, SconsInv, BodyTypeOK, SemlTypeOK, NoLostPost, EntriesCounted, Items
<1>8. Idle \subseteq Threads
  BY DEF Idle
<1> QED BY <1>1, <1>2, <1>3, <1>4, <1>5, <1>6, <1>7, <1>8 DEF SconsNext, SconsWoken

LEMMA SconsStepRefines ==
  ASSUME SconsInv, [SconsNext]_bodyVars
  PROVE  [Box!Next]_(Box!vars)
<1> USE SconsNumbers DEF Box!Next
<1>0. BodyTypeOK
  BY DEF SconsInv
<1>1. Box!Size = Items
  BY DEF Box!Size, Items
<1>2. ASSUME SconsPut PROVE Box!Next
  <2>1. /\ scount' = scount + 1 /\ UNCHANGED got
        /\ asleep' \cup woken' = asleep \cup woken
    BY <1>2 DEF SconsPut, SconsPost, CondSignal
  <2>2. ASSUME NEW p \in Packets, packetlist' = Append(packetlist, p),
               UNCHANGED siglist
        PROVE  Box!Put(p)
    <3>1. scount' - Items' = scount - Items
      BY <2>1, <2>2 DEF Items
    <3> QED BY <2>1, <2>2, <3>1 DEF Box!Put
  <2>3. ASSUME NEW s \in Signals, siglist' = Append(siglist, s),
               UNCHANGED packetlist
        PROVE  Box!Signal(s)
    <3>1. scount' - Items' = scount - Items
      BY <2>1, <2>3 DEF Items
    <3> QED BY <2>1, <2>3, <3>1 DEF Box!Signal
  <2>4. CASE UNCHANGED <<packetlist, siglist>>
    <3>1. Items' = Items
      BY <2>4 DEF Items
    <3> QED BY <2>1, <2>4, <3>1 DEF Box!Drop
  <2> QED BY <1>2, <2>2, <2>3, <2>4 DEF SconsPut
<1>3. ASSUME SconsPeekNow PROVE Box!Next
  <2>1. Box!TakeItem /\ Items' = Items - 1
    BY <1>0, <1>3, TakeRefines, TakeEffect DEF SconsPeekNow
  <2>2. UNCHANGED <<scount, asleep, woken>>
    BY <1>3 DEF SconsPeekNow, semlVars
  <2> QED BY <2>1, <2>2 DEF Box!ReceiveNow
<1>4. ASSUME NEW t \in Threads, t \in Idle \/ t \in woken, SconsPeekThrough(t)
      PROVE  Box!Next
  <2>1. /\ scount > 0 /\ scount' = scount - 1
        /\ woken' = woken \ {t} /\ UNCHANGED asleep
        /\ Take /\ (Items = 0 \/ t \in woken)
    BY <1>4 DEF SconsPeekThrough, SconsCount
  <2>2. CASE Items = 0 /\ t \notin woken
    <3>1. /\ Items' = 0 /\ got' = [rc |-> "PEC_MSGQ_ERROR"]
          /\ UNCHANGED <<packetlist, siglist>>
      BY <1>0, <2>1, <2>2, TakeRefines
    <3>2. woken' = woken
      BY <2>1, <2>2
    <3> QED BY <1>1, <2>1, <2>2, <3>1, <3>2 DEF Box!ReceiveNothing, Box!TakeNothing
  <2>3. CASE t \in woken
    <3>1. asleep' \cup woken' = (asleep \cup woken) \ {t}
      BY <2>1, <2>3
    <3>2. CASE Box!TakeItem /\ Items > 0
      <4>1. Items' = Items - 1
        BY <1>0, <2>1, <3>2, TakeEffect
      <4> QED BY <2>1, <2>3, <3>1, <3>2, <4>1 DEF Box!Serve
    <3>3. CASE /\ Items = 0 /\ Items' = 0 /\ got' = [rc |-> "PEC_MSGQ_ERROR"]
               /\ UNCHANGED <<packetlist, siglist>>
      BY <1>1, <2>1, <2>3, <3>1, <3>3 DEF Box!Serve, Box!TakeNothing
    <3> QED BY <1>0, <2>1, <3>2, <3>3, TakeRefines
  <2> QED BY <2>1, <2>2, <2>3
<1>5. ASSUME NEW t \in Idle, SconsPeekSleep(t) PROVE Box!Enter(t) /\ t \in Threads
  <2>1. Items' = Items
    BY <1>5 DEF SconsPeekSleep, Items
  <2> QED BY <1>1, <1>5, <2>1 DEF SconsPeekSleep, SconsWait, Idle, Box!Enter
<1>6. ASSUME NEW t \in Threads, PeekResleep(t) \/ PeekRouse(t)
      PROVE  UNCHANGED Box!vars
  <2>1. Items' = Items
    BY <1>6 DEF PeekResleep, PeekRouse, Items
  <2> QED BY <1>6, <2>1 DEF PeekResleep, Resleep, PeekRouse, Rouse, Box!vars
<1>7. CASE UNCHANGED bodyVars
  BY <1>7 DEF bodyVars, Box!vars, Items
<1>8. Idle \subseteq Threads
  BY DEF Idle
<1> QED BY <1>2, <1>3, <1>4, <1>5, <1>6, <1>7, <1>8 DEF SconsNext, SconsWoken
-----------------------------------------------------------------------------
\* The queue of the scons branch, too, leaves no message to a sleeping
\* receiver without another receiver woken for it.
THEOREM SconsLosesNoWakeup == SconsSpec => []NoLostWakeup
<1>1. SconsInv => NoLostWakeup
  <2> SUFFICES ASSUME SconsInv, asleep # {} PROVE Items <= Cardinality(woken)
    BY DEF NoLostWakeup
  <2> QED BY SconsNumbers DEF SconsInv, NoLostPost
<1> QED BY <1>1, SconsInitInv, SconsStep, PTL DEF SconsSpec

\* It implements the same Mailbox: entries leave in the order they came, once
\* each, signals first.
THEOREM SconsImplementsMailbox == SconsSpec => Box!Spec
<1>1. SconsInit => Box!Init
  <2> SUFFICES ASSUME SconsInit PROVE Box!Init
    OBVIOUS
  <2>1. Len(packetlist) = 0 /\ Len(siglist) = 0 /\ scount = 0
    BY DEF SconsInit, BodyInit, SemlInit
  <2>2. scount - Items = 0
    BY <2>1 DEF Items
  <2> QED BY <2>2 DEF SconsInit, BodyInit, SemlInit, Box!Init
<1> QED BY <1>1, SconsInitInv, SconsStep, SconsStepRefines, PTL
        DEF SconsSpec, Box!Spec
=============================================================================
