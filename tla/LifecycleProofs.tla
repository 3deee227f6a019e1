-------------------------- MODULE LifecycleProofs ---------------------------
(***************************************************************************)
(* Proofs about loading and shutdown, for any modules, threads and modes:  *)
(* what Mdisp promises holds of modules that come and go as well, no       *)
(* module's exit escapes the supervisor, and a shutdown that succeeds has  *)
(* waited until no module's code is in use, Ctrl+C or not.  And about the  *)
(* two test modules of the scons branch, which must not wait for each      *)
(* other in vain.                                                          *)
(***************************************************************************)
EXTENDS Lifecycle, Selftest, MdispProofs

\* Modules between the making of their dispatcher and its removal from the
\* list are exactly those on the list.
Listed ==
  \A d \in Modules : d \in stock <=> life[d] \in {"created", "body", "left", "freed"}

SupTypeOK ==
  /\ life \in [Modules -> {"absent", "failed", "created", "body", "left",
                           "freed", "unlisted", "told"}]
  /\ stock \subseteq Modules /\ unload \subseteq Modules
  /\ untold \subseteq Modules
  /\ mrsem \in Nat
  /\ sup \in {"loading", "signalling", "checking", "sleeping", "done"}
  /\ outer \in {"none", "checking", "sleeping"}
  /\ loading \in Modules \cup {None}
  /\ rc \in {"none", "PEC_SUCCESS", "PEC_HAVE_MODULES"}

\* Success is reported once the list is empty, and nothing is loaded then.
Succeeds == rc = "PEC_SUCCESS" => sup = "done" /\ stock = {}

\* Holds with and without an interrupt.
ShutInv == MdispInv /\ SupTypeOK /\ Listed /\ Succeeds

\* Without one, a sleeping supervisor has something to wait for.
SleepInv ==
  /\ outer = "none"
  /\ sup = "sleeping" =>
       stock # {} \/ mrsem > 0 \/ \E d \in Modules : life[d] = "unlisted"
-----------------------------------------------------------------------------
LEMMA LifecycleInitInv == LifecycleInit => ShutInv /\ SleepInv
<1> SUFFICES ASSUME LifecycleInit PROVE ShutInv /\ SleepInv
  OBVIOUS
<1>1. MdispInv
  BY MdispInitInv DEF LifecycleInit
<1>2. SupTypeOK /\ Listed /\ Succeeds /\ SleepInv
  BY DEF LifecycleInit, SupTypeOK, Listed, Succeeds, SleepInv
<1> QED BY <1>1, <1>2 DEF ShutInv

\* Whatever the supervisor and the modules' lives allow, dispatchers do as
\* Mdisp says.
LEMMA DispatcherStep ==
  ASSUME SupTypeOK, [LifecycleNext \/ Interrupt]_allVars
  PROVE  [AnyStep]_vars
<1>1. ASSUME NEW d \in Disps, Call(d) PROVE AnyStep
  BY <1>1 DEF Call, AnyStep
<1>2. ASSUME NEW d \in Disps, Inside(d) \/ ServeSignal(d) PROVE AnyStep
  BY <1>2 DEF Inside, AnyStep
<1>3. ASSUME NEW d \in Modules, Destroy(d) PROVE AnyStep
  BY <1>3, Members DEF Destroy, AnyStep
<1>4. CASE SignalOne
  BY <1>4 DEF SignalOne, SupTypeOK, AnyStep
<1> QED BY <1>1, <1>2, <1>3, <1>4
        DEF LifecycleNext, Interrupt, allVars, Talk, HearUnload, Shutdown, Supervise,
            Loaded, Signalled, Check, Wake, Load, LoadFails, Leave, ModuleStep, Start,
            Free, Unlist, Tell

\* The supervisor's side and the modules' lives.
LEMMA SupStep ==
  ASSUME ShutInv, [LifecycleNext \/ Interrupt]_allVars
  PROVE  SupTypeOK' /\ Listed' /\ Succeeds'
<1> USE DEF ShutInv, SupTypeOK, Listed, Succeeds
<1>1. ASSUME NEW d \in Modules, Load(d) \/ LoadFails(d) PROVE SupTypeOK' /\ Listed' /\ Succeeds'
  BY <1>1 DEF Load, LoadFails, supVars
<1>2. CASE Loaded
  BY <1>2 DEF Loaded, lifeVars
<1>3. ASSUME NEW d \in Modules, Start(d) \/ Free(d) \/ Leave(d)
      PROVE  SupTypeOK' /\ Listed' /\ Succeeds'
  BY <1>3 DEF Start, Free, Leave, Moves, supVars
<1>4. ASSUME NEW d \in Modules, Unlist(d) \/ Tell(d)
      PROVE  SupTypeOK' /\ Listed' /\ Succeeds'
  BY <1>4 DEF Unlist, Tell, Moves, supVars
<1>5. ASSUME NEW d \in Disps, Talk(d) \/ HearUnload(d)
      PROVE  SupTypeOK' /\ Listed' /\ Succeeds'
  BY <1>5 DEF Talk, HearUnload, lifeVars, supVars
<1>6. ASSUME NEW d \in Modules, Destroy(d) PROVE SupTypeOK' /\ Listed' /\ Succeeds'
  BY <1>6 DEF Destroy, lifeVars, supVars
<1>7. ASSUME NEW mode \in Modes, Shutdown(mode)
      PROVE  SupTypeOK' /\ Listed' /\ Succeeds'
  BY <1>7, LifecycleAssumption DEF Shutdown, Enters, lifeVars
<1>8. CASE Interrupt
  BY <1>8 DEF Interrupt, Enters, lifeVars
<1>9. CASE SignalOne \/ Signalled
  BY <1>9 DEF SignalOne, Signalled, lifeVars
<1>10. CASE Check
  BY <1>10 DEF Check, lifeVars
<1>11. CASE Wake
  BY <1>11 DEF Wake
<1>12. CASE UNCHANGED allVars
  BY <1>12 DEF allVars, lifeVars, supVars
<1> QED BY <1>1, <1>2, <1>3, <1>4, <1>5, <1>6, <1>7, <1>8, <1>9, <1>10, <1>11, <1>12
        DEF LifecycleNext, Supervise, ModuleStep

LEMMA ShutStep ==
  ShutInv /\ [LifecycleNext \/ Interrupt]_allVars => ShutInv'
BY SupStep, DispatcherStep, MdispStep DEF ShutInv

\* Whatever empties the list leaves a post, or a module about to post.
LEMMA SleepStep ==
  ASSUME ShutInv, SleepInv, [LifecycleNext]_allVars
  PROVE  SleepInv'
<1> USE DEF ShutInv, SupTypeOK, SleepInv
<1>1. ASSUME NEW d \in Modules, Load(d) \/ LoadFails(d) PROVE SleepInv'
  BY <1>1 DEF Load, LoadFails, supVars
<1>2. CASE Loaded
  BY <1>2 DEF Loaded, lifeVars
<1>3. ASSUME NEW d \in Modules, Start(d) \/ Free(d) \/ Leave(d) PROVE SleepInv'
  BY <1>3 DEF Start, Free, Leave, Moves, supVars
<1>4. ASSUME NEW d \in Modules, Unlist(d) PROVE SleepInv'
  BY <1>4 DEF Unlist, Moves, supVars
<1>5. ASSUME NEW d \in Modules, Tell(d) PROVE SleepInv'
  BY <1>5 DEF Tell, Moves, supVars
<1>6. ASSUME NEW d \in Disps, Talk(d) \/ HearUnload(d) PROVE SleepInv'
  BY <1>6 DEF Talk, HearUnload, lifeVars, supVars
<1>7. ASSUME NEW d \in Modules, Destroy(d) PROVE SleepInv'
  BY <1>7 DEF Destroy, lifeVars, supVars
<1>8. ASSUME NEW mode \in Modes, Shutdown(mode) PROVE SleepInv'
  BY <1>8, LifecycleAssumption DEF Shutdown, Enters, lifeVars
<1>9. CASE SignalOne \/ Signalled
  BY <1>9 DEF SignalOne, Signalled, lifeVars
<1>10. CASE Check
  BY <1>10 DEF Check, lifeVars
<1>11. CASE Wake
  BY <1>11 DEF Wake
<1>12. CASE UNCHANGED allVars
  BY <1>12 DEF allVars, lifeVars, supVars
<1> QED BY <1>1, <1>2, <1>3, <1>4, <1>5, <1>6, <1>7, <1>8, <1>9, <1>10, <1>11, <1>12
        DEF LifecycleNext, Supervise, ModuleStep
-----------------------------------------------------------------------------
\* core_shutdown reports success only when no module's code is loaded and
\* running, the SIGINT handler that calls it again included.
THEOREM UnloadedBeforeReturn == InterruptedSpec => []ShutdownAfterUnload
<1>1. ShutInv => ShutdownAfterUnload
  BY DEF ShutInv, SupTypeOK, Listed, Succeeds, ShutdownAfterUnload
<1> QED BY <1>1, LifecycleInitInv, ShutStep, PTL DEF InterruptedSpec

\* Modules that are loaded, fail to load, return, and are told to, while
\* others talk to them: a request still has one place, and a module that goes
\* has answered whomever it held.
THEOREM RequestsOutliveModules ==
  InterruptedSpec => [](MdispTypeOK /\ OnePlace /\ ModuleExitAnswers)
<1>1. ShutInv => MdispTypeOK /\ OnePlace /\ ModuleExitAnswers
  BY OnePlaceFollows, Members
     DEF ShutInv, MdispInv, TypeInv, ThreadInv, ModuleExitAnswers
<1> QED BY <1>1, LifecycleInitInv, ShutStep, PTL DEF InterruptedSpec

\* And while modules come and go, it is taken by one receiver, which and no
\* other answers it, once; then its sender returns.
THEOREM LifecycleImplementsRendezvous == InterruptedSpec => Meeting!Spec
<1>1. ShutInv => MdispInv /\ SupTypeOK
  BY DEF ShutInv
<1> QED BY <1>1, MeetingInit, LifecycleInitInv, ShutStep, DispatcherStep, StageStep, PTL
        DEF InterruptedSpec, LifecycleInit, Meeting!Spec, Stages

\* Answers are still the sender's own, the empty ones of exiting modules
\* included, and are never written while they may be read.
THEOREM AnswersOutliveModules == InterruptedSpec => OwnAnswer /\ AnswerNotTorn
<1>1. MdispInv /\ [AnyStep]_vars =>
        [\A d \in Disps : Return(d) =>
           repd[d] = [from |-> d, serial |-> serial[d]]]_vars
  BY ReturnStep
<1>2. MdispInv /\ [AnyStep]_vars =>
        [\A s \in Disps : repd'[s] # repd[s] /\ repd'[s] # Nobody
           => pc[s] = "awaiting" /\ reps[s] = 0]_vars
  BY AnswerStep
<1>3. ShutInv => MdispInv /\ SupTypeOK
  BY DEF ShutInv
<1> QED BY <1>1, <1>2, <1>3, LifecycleInitInv, ShutStep, DispatcherStep, PTL
        DEF InterruptedSpec, OwnAnswer, AnswerNotTorn

\* The variables keep to their values, Ctrl+C or not: the supervisor is in one
\* of its places, and waits for modules only.
THEOREM LifecycleTypes == InterruptedSpec => []LifecycleTypeOK
<1>1. ShutInv => LifecycleTypeOK
  BY DEF ShutInv, MdispInv, TypeInv, SupTypeOK, LifecycleTypeOK
<1> QED BY <1>1, LifecycleInitInv, ShutStep, PTL DEF InterruptedSpec

\* Without an interrupt the supervisor never sleeps over the last exit: mrsem
\* has been posted, or a module that is off the list is about to post it.
THEOREM ExitsSeen == LifecycleSpec => [](LifecycleTypeOK /\ ExitSeen)
<1>1. ShutInv => LifecycleTypeOK
  BY DEF ShutInv, MdispInv, TypeInv, SupTypeOK, LifecycleTypeOK
<1>2. SleepInv => ExitSeen
  BY DEF SleepInv, ExitSeen
<1>3. [LifecycleNext]_allVars => [LifecycleNext \/ Interrupt]_allVars
  OBVIOUS
<1> QED BY <1>1, <1>2, <1>3, LifecycleInitInv, ShutStep, SleepStep, PTL
        DEF LifecycleSpec
-----------------------------------------------------------------------------
(* The test modules of the scons branch.                                  *)

\* How many messages the sender has posted, and how many of them the waiter
\* has been handed.
Posted ==
  IF phase = 0 THEN 0 ELSE IF pc[Sender] \in Sending THEN phase - 2 ELSE phase - 1
Taken == Posted - Len(texts)

\* Which of the messages require a response.
Request(n) == n \in {2, 3}

\* The sender is in its own program, and nobody sends to it.
SenderInv ==
  /\ phase \in 0 .. 5
  /\ queue[Sender] = Sender /\ blocked[Sender] = Nobody
  /\ pc[Sender] \in {"running", "asking", "notifying", "awaiting", "exited"}
  /\ pc[Sender] = "asking" => phase \in {3, 4}
  /\ pc[Sender] = "notifying" => phase \in {2, 5}
  /\ pc[Sender] \in Sending => target[Sender] = Waiter
  /\ pc[Sender] = "awaiting" => phase \in {3, 4}
  /\ pc[Sender] = "exited" => phase = 5

\* The waiter answers what it owes before anything else.
WaiterInv ==
  /\ queue[Waiter] = Waiter /\ sigs[Waiter] = 0
  /\ pc[Waiter] \in {"running", "peeking", "replying", "exited"}
  /\ owes = (pc[Waiter] = "running" /\ blocked[Waiter] # Nobody)
  /\ blocked[Waiter] # Nobody => blocked[Waiter].from = Sender
  /\ pc[Waiter] = "peeking" => heard # "end"
  /\ pc[Waiter] = "exited" => heard = "end"

Texts == {Text(n) : n \in 1 .. 4}

\* What is in the queue is what was posted and not yet handed over, in order.
TextsInv ==
  /\ texts \in Seq(Texts) /\ Len(texts) \in 0 .. Posted
  /\ Len(packets[Waiter]) = Len(texts)
  /\ \A i \in 1 .. Len(texts) :
       /\ texts[i] = Text(Taken + i)
       /\ packets[Waiter][i].from = IF Request(Taken + i) THEN Sender ELSE None
  /\ heard = IF Taken = 0 THEN "nothing" ELSE Text(Taken)

TalkInv == SenderInv /\ WaiterInv /\ TextsInv

\* Neither module waits in vain: a waiter that finds its queue empty has a
\* sender with something left to post; a sender that waits for an answer has
\* a waiter that has not quit; who quits first has all that was sent; and
\* the answers are the waiter's own, none is given for it by its next receive
\* or its end.
WaitsAreMet ==
  /\ pc[Waiter] = "peeking" /\ packets[Waiter] = <<>> => phase < 5 \/ pc[Sender] \in Sending
  /\ pc[Sender] = "awaiting" => pc[Waiter] # "exited" /\ heard # "end"
  /\ pc[Waiter] = "exited" =>
       phase = 5 /\ pc[Sender] \in {"running", "exited"} /\ texts = <<>>
  /\ pc[Waiter] \notin {"unblocking", "dismissing"}

LEMMA Pair == Waiter \in Modules /\ Sender \in Modules /\ Waiter # Sender
              /\ Waiter \in Disps /\ Sender \in Disps /\ None \notin Disps
BY SelftestAssumption, MdispAssumption DEF Disps

LEMMA TextIs ==
  /\ Text(1) = "a notification" /\ Text(2) = "an empty request"
  /\ Text(3) = "a request" /\ Text(4) = "end"
<1>1. Text(1) = "a notification"
  BY DEF Text
<1>2. Text(2) = "an empty request"
  BY DEF Text
<1>3. Text(3) = "a request"
  BY DEF Text
<1>4. Text(4) = "end"
  BY DEF Text
<1> QED BY <1>1, <1>2, <1>3, <1>4

\* The two programs do nothing to the dispatchers but by their operations.
LEMMA SelftestUsesDispatchers == [SelftestNext]_selftestVars => [AnyStep]_vars
<1> SUFFICES ASSUME [SelftestNext]_selftestVars PROVE [AnyStep]_vars
  OBVIOUS
<1>1. CASE Find \/ Subscribe \/ UNCHANGED selftestVars
  BY <1>1 DEF Find, Subscribe, selftestVars, vars
<1>2. CASE SendNotification \/ SendRequest \/ SendPosts \/ SendReturns \/ SenderEnds
  <2>1. \/ Notify(Sender, Waiter) \/ Ask(Sender, Waiter) \/ PostOne(Sender)
        \/ Return(Sender) \/ Exit(Sender)
    BY <1>2 DEF SendNotification, SendRequest, SendPosts, SendReturns, SenderEnds
  <2> QED BY <2>1, Pair DEF AnyStep
<1>3. CASE WaitReceives \/ WaitServed \/ WaitUnserved \/ WaitReplies \/ WaitAnnounces \/ WaiterEnds
  <2>1. \/ Receive(Waiter) \/ ServePacket(Waiter) \/ ServeNothing(Waiter)
        \/ Reply(Waiter) \/ Announce(Waiter) \/ Exit(Waiter)
    BY <1>3 DEF WaitReceives, WaitServed, WaitUnserved, WaitReplies, WaitAnnounces, WaiterEnds
  <2> QED BY <2>1, Pair DEF AnyStep
<1> QED BY <1>1, <1>2, <1>3 DEF SelftestNext, SenderStep, WaiterStep

LEMMA SelftestKeepsMdisp == MdispInv /\ [SelftestNext]_selftestVars => MdispInv'
BY SelftestUsesDispatchers, MdispStep

\* The test modules' requests are calls as Rendezvous has them.
THEOREM SelftestImplementsRendezvous == SelftestSpec => Meeting!Spec
BY MeetingInit, MdispInitInv, SelftestKeepsMdisp, SelftestUsesDispatchers, StageStep, PTL
   DEF SelftestSpec, SelftestInit, Meeting!Spec, Stages

LEMMA TalkMet == MdispInv /\ TalkInv => WaitsAreMet
<1> SUFFICES ASSUME MdispInv, TalkInv PROVE WaitsAreMet
  OBVIOUS
<1>1. /\ phase \in 0 .. 5
      /\ pc[Sender] = "awaiting" => phase \in {3, 4}
      /\ Len(texts) \in 0 .. Posted /\ Len(packets[Waiter]) = Len(texts)
      /\ heard = IF Taken = 0 THEN "nothing" ELSE Text(Taken)
      /\ pc[Waiter] \in {"running", "peeking", "replying", "exited"}
      /\ pc[Waiter] = "peeking" => heard # "end"
      /\ pc[Waiter] = "exited" => heard = "end"
      /\ texts \in Seq(Texts)
      /\ pc[Sender] \in {"running", "asking", "notifying", "awaiting", "exited"}
  BY DEF TalkInv, SenderInv, WaiterInv, TextsInv
<1>2. Posted \in 0 .. 4
  BY <1>1 DEF Posted, TalkInv, SenderInv, Sending
<1>3. Taken \in 0 .. 4 /\ Taken <= Posted /\ (heard = "end" <=> Taken = 4)
      /\ (Taken = Posted <=> Len(texts) = 0)
  <2>1. Taken \in 0 .. 4 /\ Taken <= Posted /\ (Taken = Posted <=> Len(texts) = 0)
    BY <1>1, <1>2 DEF Taken
  <2>2. heard = "end" <=> Taken = 4
    <3>1. Taken = 0 => heard = "nothing"
      BY <1>1
    <3>2. Taken # 0 => heard = Text(Taken)
      BY <1>1
    <3>3. CASE Taken = 0
      BY <3>1, <3>3
    <3>4. CASE Taken = 1
      BY <3>2, <3>4, TextIs
    <3>5. CASE Taken = 2
      BY <3>2, <3>5, TextIs
    <3>6. CASE Taken = 3
      BY <3>2, <3>6, TextIs
    <3>7. CASE Taken = 4
      <4>1. heard = Text(4)
        BY <3>2, <3>7
      <4>2. heard = "end"
        BY <4>1, TextIs
      <4> QED BY <3>7, <4>2
    <3> HIDE DEF Taken
    <3> QED BY <2>1, <3>3, <3>4, <3>5, <3>6, <3>7
  <2> QED BY <2>1, <2>2
<1>4. Taken = 4 => phase = 5 /\ pc[Sender] \in {"running", "exited"} /\ Len(texts) = 0
  <2> SUFFICES ASSUME Taken = 4
               PROVE  phase = 5 /\ pc[Sender] \in {"running", "exited"} /\ Len(texts) = 0
    OBVIOUS
  <2>1. Posted = 4 /\ Len(texts) = 0
    BY <1>1, <1>2, <1>3
  <2>2. phase = 5 /\ pc[Sender] \notin Sending
    BY <1>1, <2>1 DEF Posted
  <2> QED BY <1>1, <2>1, <2>2 DEF Sending
<1>5. texts = <<>> <=> Len(texts) = 0
  BY <1>1
<1>6. packets[Waiter] = <<>> => Len(texts) = 0
  BY <1>1
<1>7. Len(texts) = 0 /\ heard # "end" => phase < 5 \/ pc[Sender] \in Sending
  BY <1>1, <1>2, <1>3 DEF Posted
<1> QED BY <1>1, <1>3, <1>4, <1>5, <1>6, <1>7 DEF WaitsAreMet

LEMMA TalkInit == SelftestInit => TalkInv
<1> SUFFICES ASSUME SelftestInit PROVE TalkInv
  OBVIOUS
<1>1. MdispInit /\ phase = 0 /\ texts = <<>> /\ heard = "nothing"
  BY DEF SelftestInit
<1>2. /\ queue[Sender] = Sender /\ queue[Waiter] = Waiter /\ blocked[Sender] = Nobody
      /\ blocked[Waiter] = Nobody /\ sigs[Waiter] = 0 /\ packets[Waiter] = <<>>
      /\ pc[Sender] = "running" /\ pc[Waiter] = "running"
  BY <1>1, Pair DEF MdispInit
<1>3. owes = (pc[Waiter] = "running" /\ blocked[Waiter] # Nobody)
  BY <1>2 DEF SelftestInit
<1>6. SenderInv
  BY <1>1, <1>2 DEF SenderInv, Sending
<1>7. WaiterInv
  BY <1>1, <1>2, <1>3 DEF WaiterInv
<1>4. Posted = 0 /\ Taken = 0
  <2>1. Posted = 0
    BY <1>1 DEF Posted
  <2>2. Len(texts) = 0
    BY <1>1
  <2> QED BY <2>1, <2>2 DEF Taken
<1>5. TextsInv
  BY <1>1, <1>2, <1>4 DEF TextsInv
<1> QED BY <1>5, <1>6, <1>7 DEF TalkInv

\* What stays when a step is the sender's own affair, or the waiter's.
LEMMA TextsStay ==
  ASSUME TextsInv, UNCHANGED <<texts, heard>>, packets'[Waiter] = packets[Waiter],
         Posted' = Posted
  PROVE  TextsInv'
<1>1. Taken' = Taken
  BY DEF Taken
<1> QED BY <1>1 DEF TextsInv

LEMMA WaiterStays ==
  ASSUME WaiterInv, UNCHANGED <<heard, owes>>, queue'[Waiter] = queue[Waiter],
         sigs'[Waiter] = sigs[Waiter], pc'[Waiter] = pc[Waiter],
         blocked'[Waiter] = blocked[Waiter]
  PROVE  WaiterInv'
BY DEF WaiterInv

LEMMA SenderStays ==
  ASSUME SenderInv, UNCHANGED phase, queue'[Sender] = queue[Sender],
         blocked'[Sender] = blocked[Sender], pc'[Sender] = pc[Sender],
         target'[Sender] = target[Sender]
  PROVE  SenderInv' /\ Posted' = Posted
BY DEF SenderInv, Posted

\* Where a thread goes.
LEMMA EnterIs ==
  ASSUME MdispInv, NEW d \in Disps, NEW place, Enter(d, place)
  PROVE  pc'[d] = place /\ \A e \in Disps : e # d => pc'[e] = pc[e]
<1>1. pc \in [Disps -> {"running", "awaiting", "peeking", "exited"} \cup Sending \cup Leaving]
  BY DEF MdispInv, TypeInv, MdispTypeOK
<1> QED BY <1>1 DEF Enter

\* The sender's steps.
LEMMA SendingStep ==
  ASSUME MdispInv, TalkInv, SenderStep
  PROVE  TalkInv'
<1>1. CASE Find
  <2>1. UNCHANGED <<vars, texts, heard, owes>> /\ phase = 0 /\ phase' = 1
    BY <1>1 DEF Find
  <2>2. UNCHANGED <<queue, packets, sigs, pc, target, blocked>>
    BY <2>1 DEF vars
  <2>3. pc[Sender] \notin Sending
    BY <2>1 DEF TalkInv, SenderInv, Sending
  <2>4. Posted' = Posted
    BY <2>1, <2>2, <2>3 DEF Posted
  <2>5. SenderInv'
    BY <2>1, <2>2 DEF TalkInv, SenderInv
  <2> QED BY <2>1, <2>2, <2>4, <2>5, TextsStay, WaiterStays DEF TalkInv
<1>2. CASE SendNotification \/ SendRequest
  <2> DEFINE place == IF phase \in {1, 4} THEN "notifying" ELSE "asking"
  <2>1. /\ phase \in 1 .. 4 /\ phase' = phase + 1 /\ pc[Sender] = "running"
        /\ target' = [target EXCEPT ![Sender] = Waiter] /\ Enter(Sender, place)
        /\ UNCHANGED <<queue, packets, sigs, blocked, texts, heard, owes>>
    BY <1>2 DEF SendNotification, SendRequest, Notify, Ask
  <2>2. target'[Sender] = Waiter
    BY <2>1, Pair DEF MdispInv, TypeInv, MdispTypeOK
  <2>3. pc'[Sender] = place /\ pc'[Waiter] = pc[Waiter]
    BY <2>1, Pair, EnterIs
  <2>4. Posted' = Posted
    BY <2>1, <2>3 DEF Posted, Sending
  <2>5. SenderInv'
    BY <2>1, <2>2, <2>3 DEF TalkInv, SenderInv, Sending
  <2> QED BY <2>1, <2>3, <2>4, <2>5, TextsStay, WaiterStays DEF TalkInv
<1>3. CASE SendPosts
  <2> DEFINE n == Posted + 1
             p == IF pc[Sender] = "asking" THEN [from |-> Sender, serial |-> serial[Sender]]
                                           ELSE Nobody
  <2>1. /\ pc[Sender] \in Sending /\ target[Sender] = Waiter
        /\ packets' = [packets EXCEPT ![Waiter] = Append(@, p)]
        /\ target' = [target EXCEPT ![Sender] = None]
        /\ Enter(Sender, IF pc[Sender] = "asking" THEN "awaiting" ELSE "running")
        /\ texts' = Append(texts, Text(phase - 1))
        /\ UNCHANGED <<queue, sigs, blocked, phase, heard, owes>>
    BY <1>3 DEF SendPosts, PostOne, TalkInv, SenderInv
  <2>2. pc'[Sender] = (IF pc[Sender] = "asking" THEN "awaiting" ELSE "running")
        /\ pc'[Waiter] = pc[Waiter]
    BY <2>1, Pair, EnterIs
  <2>3. /\ phase \in 2 .. 5 /\ (pc[Sender] = "asking" <=> Request(phase - 1))
        /\ pc[Sender] \in {"asking", "notifying"}
    BY <2>1 DEF TalkInv, SenderInv, Sending, Request
  <2>4. SenderInv'
    BY <2>1, <2>2, <2>3 DEF TalkInv, SenderInv, Sending, Request
  <2>5. WaiterInv'
    BY <2>1, <2>2, WaiterStays DEF TalkInv
  <2>6. Posted = phase - 2 /\ Posted' = phase - 1 /\ n = phase - 1
    BY <2>1, <2>2, <2>3 DEF Posted, Sending
  <2>7. /\ texts \in Seq(Texts) /\ Len(texts) \in 0 .. Posted
        /\ Len(packets[Waiter]) = Len(texts) /\ packets[Waiter] \in Seq(Genuine)
    BY Pair DEF TalkInv, TextsInv, MdispInv, TypeInv
  <2>8. packets'[Waiter] = Append(packets[Waiter], p)
    BY <2>1, Pair DEF MdispInv, TypeInv
  <2>9. p.from = IF Request(n) THEN Sender ELSE None
    BY <2>3, <2>6 DEF Nobody
  <2> DEFINE k == Len(texts)
  <2>10. texts' \in Seq(Texts) /\ Len(texts') = k + 1 /\ texts'[k + 1] = Text(n)
         /\ \A i \in 1 .. k : texts'[i] = texts[i]
    <3>1. Text(phase - 1) \in Texts
      BY <2>3 DEF Texts
    <3> QED BY <2>1, <2>6, <2>7, <3>1
  <2>11. Len(packets'[Waiter]) = k + 1 /\ packets'[Waiter][k + 1] = p
         /\ \A i \in 1 .. k : packets'[Waiter][i] = packets[Waiter][i]
    <3> HIDE DEF p
    <3> QED BY <2>7, <2>8
  <2>12. Taken' = Taken /\ Taken + (k + 1) = n /\ k \in Nat
    BY <2>3, <2>6, <2>7, <2>10 DEF Taken
  <2>13. ASSUME NEW i \in 1 .. k + 1
         PROVE  /\ texts'[i] = Text(Taken + i)
                /\ packets'[Waiter][i].from = IF Request(Taken + i) THEN Sender ELSE None
    <3>1. CASE i = k + 1
      <4> HIDE DEF n, p, k
      <4> QED BY <2>9, <2>10, <2>11, <2>12, <3>1
    <3>2. CASE i # k + 1
      <4>1. i \in 1 .. k
        BY <2>12, <3>2
      <4> HIDE DEF p
      <4> QED BY <2>10, <2>11, <4>1 DEF TalkInv, TextsInv
    <3> QED BY <3>1, <3>2
  <2>14. Len(texts') \in 0 .. Posted'
    BY <2>3, <2>6, <2>7, <2>10
  <2>15. TextsInv'
    <3> HIDE DEF k, p, n
    <3>1. heard' = IF Taken' = 0 THEN "nothing" ELSE Text(Taken')
      BY <2>1, <2>12 DEF TalkInv, TextsInv
    <3>2. Len(packets'[Waiter]) = Len(texts')
      BY <2>10, <2>11
    <3>3. \A i \in 1 .. Len(texts') :
            /\ texts'[i] = Text(Taken' + i)
            /\ packets'[Waiter][i].from = IF Request(Taken' + i) THEN Sender ELSE None
      BY <2>10, <2>12, <2>13
    <3> QED BY <2>10, <2>14, <3>1, <3>2, <3>3 DEF TextsInv, Request
  <2> QED BY <2>4, <2>5, <2>15 DEF TalkInv
<1>4. CASE SendReturns
  <2>1. /\ pc[Sender] = "awaiting" /\ Enter(Sender, "running")
        /\ UNCHANGED <<queue, packets, sigs, target, blocked, phase, texts, heard, owes>>
    BY <1>4 DEF SendReturns, Return
  <2>2. pc'[Sender] = "running" /\ pc'[Waiter] = pc[Waiter]
    BY <2>1, Pair, EnterIs
  <2>3. SenderInv' /\ Posted' = Posted
    BY <2>1, <2>2 DEF TalkInv, SenderInv, Posted, Sending
  <2> QED BY <2>1, <2>2, <2>3, TextsStay, WaiterStays DEF TalkInv
<1>5. CASE SenderEnds
  <2>1. blocked[Sender] = Nobody /\ phase = 5 /\ pc[Sender] = "running"
    BY <1>5 DEF SenderEnds, Exit, TalkInv, SenderInv
  <2>2. /\ Enter(Sender, "exited")
        /\ UNCHANGED <<queue, packets, sigs, target, blocked, phase, texts, heard, owes>>
    BY <1>5, <2>1 DEF SenderEnds, Exit
  <2>3. pc'[Sender] = "exited" /\ pc'[Waiter] = pc[Waiter]
    BY <2>2, Pair, EnterIs
  <2>4. SenderInv' /\ Posted' = Posted
    BY <2>1, <2>2, <2>3 DEF TalkInv, SenderInv, Posted, Sending
  <2> QED BY <2>2, <2>3, <2>4, TextsStay, WaiterStays DEF TalkInv
<1> QED BY <1>1, <1>2, <1>3, <1>4, <1>5 DEF SenderStep

\* The waiter's steps.
LEMMA WaitingStep ==
  ASSUME MdispInv, TalkInv, WaiterStep \/ WaitUnserved
  PROVE  TalkInv'
<1>0. /\ queue[Waiter] = Waiter /\ sigs[Waiter] = 0
      /\ pc[Waiter] \in {"running", "peeking", "replying", "exited"}
      /\ owes = (pc[Waiter] = "running" /\ blocked[Waiter] # Nobody)
      /\ blocked[Waiter] # Nobody => blocked[Waiter].from = Sender
      /\ pc[Waiter] = "peeking" => blocked[Waiter] = Nobody
      /\ pc[Waiter] = "replying" => blocked[Waiter] # Nobody
      /\ pc[Waiter] = "exited" => blocked[Waiter] = Nobody
  BY Pair DEF TalkInv, WaiterInv, MdispInv, ThreadInv, Leaving
<1>1. CASE Subscribe
  <2>1. /\ UNCHANGED <<phase, texts, heard, owes, packets, queue, sigs, pc, target, blocked>>
    BY <1>1 DEF Subscribe, vars
  <2> QED BY <2>1, TextsStay, WaiterStays, SenderStays DEF TalkInv
<1>2. CASE WaitReceives
  <2>1. Receive(Waiter) /\ ~owes /\ heard # "end"
        /\ UNCHANGED <<phase, texts, heard, owes>>
    BY <1>2 DEF WaitReceives
  <2>2. /\ pc[Waiter] = "running"
        /\ UNCHANGED <<queue, packets, sigs, target, blocked>>
    BY <2>1 DEF Receive
  <2>3. blocked[Waiter] = Nobody
    BY <1>0, <2>1, <2>2
  <2>4. Enter(Waiter, "peeking")
    BY <2>1, <2>3 DEF Receive
  <2>5. pc'[Waiter] = "peeking" /\ pc'[Sender] = pc[Sender]
    BY <2>4, Pair, EnterIs
  <2>6. owes' = (pc'[Waiter] = "running" /\ blocked'[Waiter] # Nobody)
    BY <1>0, <2>1, <2>2, <2>3
  <2>7. WaiterInv'
    BY <1>0, <2>1, <2>2, <2>3, <2>5, <2>6 DEF WaiterInv
  <2> QED BY <2>1, <2>2, <2>5, <2>7, SenderStays, TextsStay DEF TalkInv
<1>3. CASE WaitServed
  <2> DEFINE p == packets[Waiter]
             k == Len(texts)
  <2>1. /\ pc[Waiter] = "peeking" /\ p # <<>>
        /\ blocked' = [blocked EXCEPT ![Waiter] = Head(p)]
        /\ packets' = [packets EXCEPT ![Waiter] = Tail(@)]
        /\ Enter(Waiter, "running")
        /\ UNCHANGED <<queue, sigs, target, phase>>
        /\ heard' = Head(texts) /\ texts' = Tail(texts)
    BY <1>0, <1>3 DEF WaitServed, ServePacket
  <2>2. owes' = (blocked'[Waiter] # Nobody)
    BY <1>3 DEF WaitServed
  <2>3. pc'[Waiter] = "running" /\ pc'[Sender] = pc[Sender]
    BY <2>1, Pair, EnterIs
  <2>4. /\ texts \in Seq(Texts) /\ k \in 0 .. Posted /\ Len(p) = k
        /\ p \in Seq(Genuine)
    BY Pair DEF TalkInv, TextsInv, MdispInv, TypeInv
  <2>5. blocked'[Waiter] = Head(p) /\ blocked'[Sender] = blocked[Sender]
        /\ packets'[Waiter] = Tail(p)
    BY <2>1, Pair DEF MdispInv, TypeInv
  <2>6. SenderInv' /\ Posted' = Posted
    BY <2>1, <2>3, <2>5, SenderStays DEF TalkInv
  <2>7. p # <<>> => Len(p) > 0
    BY <2>4
  <2>8. Posted \in 0 .. 4
    BY DEF Posted, TalkInv, SenderInv, Sending
  <2>9. k \in 1 .. Posted /\ Taken \in 0 .. 3 /\ Taken = Posted - k
    BY <2>1, <2>4, <2>7, <2>8 DEF Taken
  <2>10. /\ Head(p) = p[1] /\ Head(p) \in Genuine
         /\ Len(Tail(p)) = k - 1
         /\ \A i \in 1 .. k - 1 : Tail(p)[i] = p[i + 1]
    <3> HIDE DEF p, k
    <3> QED BY <2>4, <2>9, Shifted
  <2>11. /\ Head(texts) = texts[1] /\ Tail(texts) \in Seq(Texts)
         /\ Len(Tail(texts)) = k - 1
         /\ \A i \in 1 .. k - 1 : Tail(texts)[i] = texts[i + 1]
    BY <2>4, <2>9, Shifted
  <2>12. \A i \in 1 .. k :
           /\ texts[i] = Text(Taken + i)
           /\ p[i].from = IF Request(Taken + i) THEN Sender ELSE None
    BY DEF TalkInv, TextsInv
  <2> HIDE DEF p, k
  <2>13. Len(texts') = k - 1 /\ Taken' = Taken + 1
    BY <2>1, <2>6, <2>8, <2>9, <2>11 DEF Taken
  <2>14. heard' = Text(Taken') /\ Taken' # 0
    BY <2>1, <2>9, <2>11, <2>12, <2>13
  <2>15. ASSUME NEW i \in 1 .. k - 1
         PROVE  /\ texts'[i] = Text(Taken' + i)
                /\ packets'[Waiter][i].from = IF Request(Taken' + i) THEN Sender ELSE None
    <3>1. i + 1 \in 1 .. k /\ Taken + (i + 1) = Taken' + i
      BY <2>9, <2>13
    <3> QED BY <2>1, <2>5, <2>10, <2>11, <2>12, <3>1
  <2>16. TextsInv'
    <3>1. texts' \in Seq(Texts) /\ Len(texts') \in 0 .. Posted'
      BY <2>1, <2>6, <2>8, <2>9, <2>11, <2>13
    <3>2. Len(packets'[Waiter]) = Len(texts')
      BY <2>5, <2>10, <2>13
    <3>3. \A i \in 1 .. Len(texts') :
            /\ texts'[i] = Text(Taken' + i)
            /\ packets'[Waiter][i].from = IF Request(Taken' + i) THEN Sender ELSE None
      BY <2>13, <2>15
    <3>4. heard' = IF Taken' = 0 THEN "nothing" ELSE Text(Taken')
      BY <2>14
    <3> QED BY <3>1, <3>2, <3>3, <3>4 DEF TextsInv, Request
  <2>17. blocked'[Waiter] # Nobody => blocked'[Waiter].from = Sender
    <3>1. p[1].from \in {Sender, None}
      BY <2>9, <2>12
    <3>2. Head(p) # Nobody => Head(p).from \in Disps
      BY <2>10, Members
    <3> QED BY <2>5, <2>10, <3>1, <3>2, Pair
  <2>18. owes' = (pc'[Waiter] = "running" /\ blocked'[Waiter] # Nobody)
    BY <2>2, <2>3
  <2>19. WaiterInv'
    BY <1>0, <2>1, <2>3, <2>17, <2>18 DEF WaiterInv
  <2> QED BY <2>6, <2>16, <2>19 DEF TalkInv
<1>4. CASE WaitUnserved
  <2>1. /\ pc[Waiter] = "peeking" /\ Enter(Waiter, "running")
        /\ UNCHANGED <<queue, packets, sigs, target, blocked, phase, texts, heard, owes>>
    BY <1>4 DEF WaitUnserved, ServeNothing
  <2>2. pc'[Waiter] = "running" /\ pc'[Sender] = pc[Sender]
    BY <2>1, Pair, EnterIs
  <2>3. owes' = (pc'[Waiter] = "running" /\ blocked'[Waiter] # Nobody)
    BY <1>0, <2>1
  <2>4. WaiterInv'
    BY <1>0, <2>1, <2>2, <2>3 DEF WaiterInv
  <2> QED BY <2>1, <2>2, <2>4, SenderStays, TextsStay DEF TalkInv
<1>5. CASE WaitReplies
  <2>1. /\ pc[Waiter] = "running" /\ blocked[Waiter] # Nobody
        /\ Enter(Waiter, "replying")
        /\ UNCHANGED <<queue, packets, sigs, target, blocked, phase, texts, heard>>
    BY <1>5 DEF WaitReplies, Reply
  <2>2. pc'[Waiter] = "replying" /\ pc'[Sender] = pc[Sender]
    BY <2>1, Pair, EnterIs
  <2>3. owes' = FALSE
    BY <1>5 DEF WaitReplies
  <2>4. owes' = (pc'[Waiter] = "running" /\ blocked'[Waiter] # Nobody)
    BY <2>2, <2>3
  <2>5. WaiterInv'
    BY <1>0, <2>1, <2>2, <2>4 DEF WaiterInv
  <2> QED BY <2>1, <2>2, <2>5, SenderStays, TextsStay DEF TalkInv
<1>6. CASE WaitAnnounces
  <2>1. /\ pc[Waiter] = "replying" /\ Enter(Waiter, After("replying"))
        /\ blocked' = [blocked EXCEPT ![Waiter] = Nobody]
        /\ UNCHANGED <<queue, packets, sigs, target, phase, texts, heard, owes>>
    BY <1>0, <1>6 DEF WaitAnnounces, Announce, Leaving
  <2>2. After("replying") = "running"
    BY DEF After
  <2>3. pc'[Waiter] = "running" /\ pc'[Sender] = pc[Sender]
    BY <2>1, <2>2, Pair, EnterIs
  <2>4. blocked'[Waiter] = Nobody /\ blocked'[Sender] = blocked[Sender]
    BY <2>1, Pair DEF MdispInv, TypeInv
  <2>5. owes' = (pc'[Waiter] = "running" /\ blocked'[Waiter] # Nobody)
    BY <1>0, <2>1, <2>4
  <2>6. WaiterInv'
    BY <1>0, <2>1, <2>3, <2>4, <2>5 DEF WaiterInv
  <2> QED BY <2>1, <2>3, <2>4, <2>6, SenderStays, TextsStay DEF TalkInv
<1>7. CASE WaiterEnds
  <2>1. Exit(Waiter) /\ ~owes /\ heard = "end" /\ pc[Waiter] = "running"
        /\ UNCHANGED <<queue, packets, sigs, target, blocked, phase, texts, heard, owes>>
    BY <1>7 DEF WaiterEnds, Exit
  <2>2. blocked[Waiter] = Nobody
    BY <1>0, <2>1
  <2>3. Enter(Waiter, "exited")
    BY <2>1, <2>2 DEF Exit
  <2>4. pc'[Waiter] = "exited" /\ pc'[Sender] = pc[Sender]
    BY <2>3, Pair, EnterIs
  <2>5. owes' = (pc'[Waiter] = "running" /\ blocked'[Waiter] # Nobody)
    BY <1>0, <2>1, <2>2
  <2>6. WaiterInv'
    BY <1>0, <2>1, <2>2, <2>4, <2>5 DEF WaiterInv
  <2> QED BY <2>1, <2>4, <2>6, SenderStays, TextsStay DEF TalkInv
<1> QED BY <1>1, <1>2, <1>3, <1>4, <1>5, <1>6, <1>7 DEF WaiterStep

LEMMA TalkStep == MdispInv /\ TalkInv /\ [SelftestNext]_selftestVars => TalkInv'
<1> SUFFICES ASSUME MdispInv, TalkInv, [SelftestNext]_selftestVars PROVE TalkInv'
  OBVIOUS
<1>1. CASE SelftestNext
  BY <1>1, SendingStep, WaitingStep DEF SelftestNext
<1>2. CASE UNCHANGED selftestVars
  <2>1. /\ UNCHANGED <<phase, texts, heard, owes, packets, queue, sigs, pc, target, blocked>>
    BY <1>2 DEF selftestVars, vars
  <2> QED BY <2>1, TextsStay, WaiterStays, SenderStays DEF TalkInv
<1> QED BY <1>1, <1>2

\* The test of the scons branch comes to no standstill: whoever waits waits
\* for something the other module has still to do, whoever quits has been
\* sent everything, and no answer but test-wait's own is ever given.
THEOREM WaitsMet == SelftestSpec => []WaitsAreMet
BY TalkInit, TalkStep, TalkMet, MdispInitInv, SelftestKeepsMdisp, PTL
   DEF SelftestSpec, SelftestInit
=============================================================================
