----------------------------- MODULE Lifecycle ------------------------------
(***************************************************************************)
(* Loading modules and shutting the system down: the supervisor thread of  *)
(* trunk/core/mdisps.cc, which loads modules and then waits for them, and  *)
(* the module threads of mdispb.cc, each from pthread_create to the end of *)
(* its destructor.  In between a module's thread is a dispatcher of Mdisp, *)
(* whose actions appear here with the conditions that decide who may take  *)
(* them.  mrsem, the semaphore between the two sides, counts as Semaphore  *)
(* says.  The only signal sent is PSIG_UNLOAD, and modules obey it.        *)
(***************************************************************************)
EXTENDS Mdisp

CONSTANTS Modes,         \* how the loader calls para_core_shutdown
          ThreadMayFail  \* can pthread_create() fail

ASSUME LifecycleAssumption ==
  /\ Modes \subseteq {"PUC_NORMAL", "PUC_WAIT", "PUC_EMERGENCY"}
  /\ ThreadMayFail \in BOOLEAN
  /\ MaxSignals > 1

VARIABLES life,      \* how far each module is
          stock,     \* mdispb::stock
          mrsem,     \* the count of mdispb::mrsem
          unload,    \* modules that received PSIG_UNLOAD
          sup,       \* what the supervisor does
          outer,     \* what it did when SIGINT came
          loading,   \* the module a mod_load has yet to return for
          untold,    \* queues signal_bc has yet to reach
          rc         \* what core_shutdown returned

lifeVars == <<life, stock, mrsem, unload>>
supVars == <<sup, outer, loading, untold, rc>>
allVars == <<vars, lifeVars, supVars>>

LifecycleInit ==
  /\ MdispInit
  /\ life = [d \in Modules |-> "absent"]
  /\ stock = {} /\ mrsem = 0 /\ unload = {}
  /\ sup = "loading" /\ outer = "none" /\ loading = None
  /\ untold = {} /\ rc = "none"
-----------------------------------------------------------------------------
\* mdisps::mod_load: the dispatcher is made, and a thread for it.
Load(d) ==
  /\ sup = "loading" /\ loading = None /\ life[d] = "absent"
  /\ life' = [life EXCEPT ![d] = "created"]
  /\ stock' = stock \cup {d}
  /\ loading' = d
  /\ UNCHANGED <<vars, mrsem, unload, sup, outer, untold, rc>>

\* It could not make the thread: the dispatcher is deleted again.
LoadFails(d) ==
  /\ ThreadMayFail
  /\ sup = "loading" /\ loading = None /\ life[d] = "absent"
  /\ life' = [life EXCEPT ![d] = "failed"]
  /\ mrsem' = mrsem + 1
  /\ UNCHANGED <<vars, stock, unload, supVars>>

\* It returns, and its semaphore `ready' is gone.
Loaded ==
  /\ loading # None
  /\ loading' = None
  /\ UNCHANGED <<vars, lifeVars, sup, outer, untold, rc>>

Live(d) == d \in Modules => life[d] = "body"

\* mdispb::body up to the call of func: `onstart' is posted.
Start(d) ==
  /\ life[d] = "created"
  /\ life' = [life EXCEPT ![d] = "body"]
  /\ UNCHANGED <<vars, stock, mrsem, unload, supVars>>

\* A module that was in the body may have subscribed, and stays subscribed.
Subscribed(q) == life[q] \notin {"absent", "failed", "created"}

\* The calls a thread makes; a module makes none after PSIG_UNLOAD.
Call(d) ==
  /\ Live(d) /\ d \notin unload
  /\ \/ Reply(d) \/ Receive(d)
     \/ \E q \in Modules :
          /\ Subscribed(q)
          /\ \/ <<d, q>> \in MayAsk /\ Ask(d, q)
             \/ <<d, q>> \in MayNotify /\ Notify(d, q)
             \/ <<d, q>> \in MayAttach /\ Attach(d, q)

\* What happens to a thread that is inside one, ~mdisp included.
Inside(d) ==
  \/ Live(d) /\ (PostOne(d) \/ Return(d) \/ ServePacket(d) \/ ServeNothing(d))
  \/ Announce(d)

Talk(d) == (Call(d) \/ Inside(d)) /\ UNCHANGED <<lifeVars, supVars>>

\* PSIG_UNLOAD is received: by the module, or by a thread that joined its
\* queue, and then the module does not hear of it.
HearUnload(d) ==
  /\ Live(d) /\ ServeSignal(d)
  /\ unload' = unload \cup ({d} \cap Modules)
  /\ UNCHANGED <<life, stock, mrsem, supVars>>

Moves(d, from, to) ==
  /\ life[d] = from
  /\ life' = [life EXCEPT ![d] = to]

\* Mutant: the dispatcher is off the list before its library is unloaded.
LeaveUnlisted(d) ==
  /\ pc[d] = "running" /\ (d \in unload \/ d \in MayExit)
  /\ Moves(d, "body", "left")
  /\ stock' = stock \ {d}
  /\ UNCHANGED <<vars, mrsem, unload, supVars>>

\* The body returns: when it was told to, or because it is done.
Leave(d) ==
  /\ pc[d] = "running" /\ (d \in unload \/ d \in MayExit)
  /\ Moves(d, "body", "left")
  /\ UNCHANGED <<vars, stock, mrsem, unload, supVars>>

\* mdispb::bodyw unloads the library,
Free(d) ==
  /\ Moves(d, "left", "freed")
  /\ UNCHANGED <<vars, stock, mrsem, unload, supVars>>

\* ~mdispb takes the module off the list
Unlist(d) ==
  /\ Moves(d, "freed", "unlisted")
  /\ stock' = stock \ {d}
  /\ UNCHANGED <<vars, mrsem, unload, supVars>>

\* Mutant: nobody is told.
TellNobody(d) ==
  /\ Moves(d, "unlisted", "told")
  /\ UNCHANGED <<vars, stock, mrsem, unload, supVars>>

\* and posts mrsem,
Tell(d) ==
  /\ Moves(d, "unlisted", "told")
  /\ mrsem' = mrsem + 1
  /\ UNCHANGED <<vars, stock, unload, supVars>>

\* and ~mdisp answers who is blocked (Announce follows).
Destroy(d) ==
  /\ life[d] = "told"
  /\ Exit(d)
  /\ UNCHANGED <<lifeVars, supVars>>
-----------------------------------------------------------------------------
\* mdisps::core_shutdown.  signal_bc goes through qstock, where the queue of
\* a module that has exited still is.
Enters(mode) ==
  CASE mode = "PUC_EMERGENCY" ->
         /\ sup' = "signalling" /\ UNCHANGED rc
         /\ untold' = {q \in Modules : life[q] \notin {"absent", "failed"}}
    [] mode = "PUC_WAIT" -> sup' = "checking" /\ UNCHANGED <<untold, rc>>
    [] mode = "PUC_NORMAL" ->
         sup' = "done" /\ rc' = "PEC_HAVE_MODULES" /\ UNCHANGED untold

Shutdown(mode) ==
  /\ sup = "loading" /\ loading = None
  /\ Enters(mode)
  /\ UNCHANGED <<vars, lifeVars, outer, loading>>

\* The stub's SIGINT handler, on the thread that waits, while there is still
\* a module to wait for.
Interrupt ==
  /\ outer = "none" /\ stock # {}
  /\ sup \in {"checking", "sleeping"}
  /\ outer' = sup
  /\ Enters("PUC_EMERGENCY")
  /\ UNCHANGED <<vars, lifeVars, loading>>

\* One turn of msgq::signal_bc.
SignalOne ==
  /\ sup = "signalling" /\ untold # {}
  /\ \E q \in untold : Signal(q) /\ untold' = untold \ {q}
  /\ UNCHANGED <<lifeVars, sup, outer, loading, rc>>

\* Mutant: signal_bc stops early.
SignalledEarly ==
  /\ sup = "signalling"
  /\ sup' = "checking"
  /\ UNCHANGED <<vars, lifeVars, outer, loading, untold, rc>>

Signalled ==
  /\ sup = "signalling" /\ untold = {}
  /\ sup' = "checking"
  /\ UNCHANGED <<vars, lifeVars, outer, loading, untold, rc>>

\* mdispb::wait_unload looks at the list; then the innermost call of
\* core_shutdown is over.
Check ==
  /\ sup = "checking"
  /\ IF stock # {} THEN sup' = "sleeping" /\ UNCHANGED <<outer, rc>>
     ELSE IF outer # "none" THEN sup' = outer /\ outer' = "none" /\ UNCHANGED rc
     ELSE sup' = "done" /\ rc' = "PEC_SUCCESS" /\ UNCHANGED outer
  /\ UNCHANGED <<vars, lifeVars, loading, untold>>

\* Mutant: it does not wait.
WakeAlways ==
  /\ sup = "sleeping"
  /\ mrsem' = mrsem - 1
  /\ sup' = "checking"
  /\ UNCHANGED <<vars, life, stock, unload, outer, loading, untold, rc>>

\* mrsem.wait() returns.
Wake ==
  /\ sup = "sleeping" /\ mrsem > 0
  /\ mrsem' = mrsem - 1
  /\ sup' = "checking"
  /\ UNCHANGED <<vars, life, stock, unload, outer, loading, untold, rc>>
-----------------------------------------------------------------------------
Supervise == Loaded \/ SignalOne \/ Signalled \/ Check \/ Wake

ModuleStep(d) == Start(d) \/ Free(d) \/ Unlist(d) \/ Tell(d) \/ Destroy(d)

LifecycleNext ==
  \/ \E mode \in Modes : Shutdown(mode)
  \/ Supervise
  \/ \E d \in Modules :
       Load(d) \/ LoadFails(d) \/ Leave(d) \/ ModuleStep(d)
  \/ \E d \in Disps : Talk(d) \/ HearUnload(d)

LifecycleSpec == LifecycleInit /\ [][LifecycleNext]_allVars

\* Threads in the library go on, modules come back to receive and leave when
\* told to.
LifecycleFairness ==
  /\ WF_allVars(Supervise)
  /\ \A d \in Disps : WF_allVars(Inside(d) /\ UNCHANGED <<lifeVars, supVars>>)
  /\ \A d \in Modules :
       /\ WF_allVars(ModuleStep(d) \/ HearUnload(d))
       /\ WF_allVars(d \in unload /\ Leave(d))
       /\ SF_allVars(Receive(d) /\ Live(d) /\ UNCHANGED <<lifeVars, supVars>>)

LifecycleFairSpec == LifecycleSpec /\ LifecycleFairness

\* The same under a stub whose user may press Ctrl+C.
InterruptedSpec ==
  /\ LifecycleInit /\ [][LifecycleNext \/ Interrupt]_allVars
  /\ LifecycleFairness
-----------------------------------------------------------------------------
\* The values the variables take.
LifecycleTypeOK ==
  /\ MdispTypeOK
  /\ life \in [Modules -> {"absent", "failed", "created", "body", "left",
                           "freed", "unlisted", "told"}]
  /\ stock \subseteq Modules /\ unload \subseteq Modules
  /\ untold \subseteq Modules
  /\ mrsem \in Nat
  /\ sup \in {"loading", "signalling", "checking", "sleeping", "done"}
  /\ outer \in {"none", "checking", "sleeping"}
  /\ loading \in Modules \cup {None}
  /\ rc \in {"none", "PEC_SUCCESS", "PEC_HAVE_MODULES"}

\* The wait for modules sees every exit: a supervisor that sleeps although
\* no module is left has been, or is about to be, posted.
ExitSeen ==
  sup = "sleeping" /\ stock = {} /\ outer = "none"
    => mrsem > 0 \/ \E d \in Modules : life[d] = "unlisted"

\* core_shutdown succeeds only when no module's code is loaded and running.
ShutdownAfterUnload ==
  rc = "PEC_SUCCESS" =>
    \A d \in Modules : life[d] \in {"absent", "failed", "freed", "unlisted", "told"}

\* The manual on PUC_WAIT: it waits until all modules unload, and is expected
\* to always succeed.
WaitSucceeds ==
  sup \in {"checking", "sleeping"} /\ stock = {} ~> sup = "done"

\* The manual on PUC_EMERGENCY: all modules are told to unload, and the rest
\* is as for PUC_WAIT.  Modules that obey do unload, so the call returns, if
\* no other thread joined a module's queue and may have taken the signal.
EmergencyReturns ==
  sup = "signalling" ~> sup = "done" \/ \E t \in Threads : queue[t] # None
=============================================================================
