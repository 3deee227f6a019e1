-------------------------------- MODULE Mdisp -------------------------------
(***************************************************************************)
(* Thread dispatchers, trunk/core/mdisp.{h,cc} and mdispb.cc: sending a    *)
(* message that requires a response, receiving it, answering it, and the   *)
(* empty answer the library sends for a thread that did not.               *)
(*                                                                         *)
(* A dispatcher is a module's main thread (mdispb), which owns a queue, or *)
(* any other thread (mdisp), which may attach to one.  Queues behave as    *)
(* Mailbox says; which queue a message goes to is message::send's choice   *)
(* (Registry), of which only this matters here: never the sender's own.    *)
(***************************************************************************)
EXTENDS Naturals, Sequences, FiniteSets

CONSTANTS Modules,      \* main threads of modules, and their queues
          Threads,      \* the other threads
          None,         \* no dispatcher, no queue (NULL)
          MayAsk,       \* <<d, q>>: d sends requests that go to queue q
          MayNotify,    \* <<d, q>>: d sends notifications that go to q
          MayAttach,    \* <<d, q>>: d calls para_msg_attach(q)
          MayExit,      \* dispatchers whose thread function returns
          MaxPackets,   \* notifications stop at this many packets in a queue
          MaxSignals    \* signals stop at this many in a queue

Disps == Modules \cup Threads

ASSUME MdispAssumption ==
  /\ Modules \cap Threads = {} /\ None \notin Disps
  /\ MayAsk \subseteq Disps \X Modules
  /\ MayNotify \subseteq Disps \X Modules
  /\ MayAttach \subseteq Threads \X Modules
  /\ MayExit \subseteq Disps
  /\ MaxPackets \in Nat /\ MaxSignals \in Nat

VARIABLES queue,     \* the queue a dispatcher is attached to
          packets,   \* contents of each queue: packets
          sigs,      \*   and the number of signals
          pc,        \* what each thread is doing
          target,    \* the queue a send is about to post to
          blocked,   \* the sender that waits for this thread's answer
          repd,      \* the stored answer
          reps,      \* the count of the semaphore that announces it
          serial     \* ghost: the number of the latest request, modulo 2

vars == <<queue, packets, sigs, pc, target, blocked, repd, reps, serial>>

\* What a packet carries: the sender to unblock, and which of its requests.
Nobody == [from |-> None, serial |-> 0]

\* The sender holds reps.mx in these; in reps.waitex() it does not.
Sending == {"asking", "notifying"}

Leaving == {"replying", "unblocking", "dismissing"}

MdispInit ==
  /\ queue = [d \in Disps |-> IF d \in Modules THEN d ELSE None]
  /\ packets = [q \in Modules |-> <<>>]
  /\ sigs = [q \in Modules |-> 0]
  /\ pc = [d \in Disps |-> "running"]
  /\ target = [d \in Disps |-> None]
  /\ blocked = [d \in Disps |-> Nobody]
  /\ repd = [d \in Disps |-> Nobody]
  /\ reps = [d \in Disps |-> 0]
  /\ serial = [d \in Disps |-> 0]

Enter(d, place) == pc' = [pc EXCEPT ![d] = place]
-----------------------------------------------------------------------------
\* mdisp::msg_attach, with a queue that exists.
Attach(d, q) ==
  /\ pc[d] = "running"
  /\ queue' = [queue EXCEPT ![d] = q]
  /\ UNCHANGED <<packets, sigs, pc, target, blocked, repd, reps, serial>>

\* mdisp::msg_send, a message that requires a response: the old answer is
\* freed and reps.mx entered.
Ask(d, q) ==
  /\ pc[d] = "running" /\ q # queue[d]
  /\ repd' = [repd EXCEPT ![d] = Nobody]
  /\ target' = [target EXCEPT ![d] = q]
  /\ serial' = [serial EXCEPT ![d] = 1 - @]
  /\ Enter(d, "asking")
  /\ UNCHANGED <<queue, packets, sigs, blocked, reps>>

\* mdisp::msg_send, one that requires none, to one of its recipients.
Notify(d, q) ==
  /\ pc[d] = "running" /\ q # queue[d]
  /\ Len(packets[q]) < MaxPackets
  /\ target' = [target EXCEPT ![d] = q]
  /\ Enter(d, "notifying")
  /\ UNCHANGED <<queue, packets, sigs, blocked, repd, reps, serial>>

\* message::send posts; a request goes on to wait in reps.waitex().
PostOne(d) ==
  /\ pc[d] \in Sending
  /\ LET q == target[d]
         p == IF pc[d] = "asking" THEN [from |-> d, serial |-> serial[d]]
                                  ELSE Nobody
     IN packets' = [packets EXCEPT ![q] = Append(@, p)]
  /\ target' = [target EXCEPT ![d] = None]
  /\ Enter(d, IF pc[d] = "asking" THEN "awaiting" ELSE "running")
  /\ UNCHANGED <<queue, sigs, blocked, repd, reps, serial>>

\* Mutant: the sender does not wait.
ReturnEarly(d) ==
  /\ pc[d] = "awaiting"
  /\ reps' = [reps EXCEPT ![d] = @ - 1]
  /\ Enter(d, "running")
  /\ UNCHANGED <<queue, packets, sigs, target, blocked, repd, serial>>

\* Mutant: the count is left in reps.
ReturnUncounted(d) ==
  /\ pc[d] = "awaiting" /\ reps[d] > 0
  /\ Enter(d, "running")
  /\ UNCHANGED <<queue, packets, sigs, target, blocked, repd, reps, serial>>

\* reps.waitex() returns: the answer is in repd.
Return(d) ==
  /\ pc[d] = "awaiting" /\ reps[d] > 0
  /\ reps' = [reps EXCEPT ![d] = @ - 1]
  /\ Enter(d, "running")
  /\ UNCHANGED <<queue, packets, sigs, target, blocked, repd, serial>>
-----------------------------------------------------------------------------
\* The first half of mdisp::msg_reply, up to reps.mx.enter(): the answer is
\* stored with the thread that waits for it.
Store(d) == repd' = [repd EXCEPT ![blocked[d].from] = blocked[d]]

\* mdisp::msg_reply with somebody blocked.
Reply(d) ==
  /\ pc[d] = "running" /\ blocked[d] # Nobody
  /\ Store(d)
  /\ Enter(d, "replying")
  /\ UNCHANGED <<queue, packets, sigs, target, blocked, reps, serial>>

\* Mutant: nobody is unblocked by the call.
ReceiveForgets(d) ==
  /\ pc[d] = "running" /\ queue[d] # None
  /\ blocked' = [blocked EXCEPT ![d] = Nobody]
  /\ Enter(d, "peeking")
  /\ UNCHANGED <<queue, packets, sigs, target, repd, reps, serial>>

\* mdisp::msg_receive: first unblock(), then queue.peek().
Receive(d) ==
  /\ pc[d] = "running" /\ queue[d] # None
  /\ IF blocked[d] = Nobody THEN Enter(d, "peeking") /\ UNCHANGED repd
                            ELSE Enter(d, "unblocking") /\ Store(d)
  /\ UNCHANGED <<queue, packets, sigs, target, blocked, reps, serial>>

\* Mutant: nobody is answered.
ExitSilent(d) ==
  /\ pc[d] = "running"
  /\ Enter(d, "exited")
  /\ UNCHANGED <<queue, packets, sigs, target, blocked, repd, reps, serial>>

\* The thread function returns.  ~mdispb answers for a module's main thread;
\* the dispatcher of another thread is never destroyed.
Exit(d) ==
  /\ pc[d] = "running"
  /\ IF d \in Modules /\ blocked[d] # Nobody
     THEN Enter(d, "dismissing") /\ Store(d)
     ELSE Enter(d, "exited") /\ UNCHANGED repd
  /\ UNCHANGED <<queue, packets, sigs, target, blocked, reps, serial>>

After(place) ==
  CASE place = "replying" -> "running"
    [] place = "unblocking" -> "peeking"
    [] place = "dismissing" -> "exited"

\* Mutant: `blocked' is not reset, the next call answers once more.
AnnounceKeeps(d) ==
  /\ pc[d] \in Leaving
  /\ LET s == blocked[d].from IN
       /\ pc[s] \notin Sending
       /\ reps' = [reps EXCEPT ![s] = @ + 1]
  /\ Enter(d, After(pc[d]))
  /\ UNCHANGED <<queue, packets, sigs, target, blocked, repd, serial>>

\* The second half of msg_reply: reps.mx is free, the sender is told.
Announce(d) ==
  /\ pc[d] \in Leaving
  /\ LET s == blocked[d].from IN
       /\ pc[s] \notin Sending
       /\ reps' = [reps EXCEPT ![s] = @ + 1]
  /\ blocked' = [blocked EXCEPT ![d] = Nobody]
  /\ Enter(d, After(pc[d]))
  /\ UNCHANGED <<queue, packets, sigs, target, repd, serial>>
-----------------------------------------------------------------------------
\* queue.peek() comes back with a packet, and lastmsg.map() sets `blocked'.
ServePacket(d) ==
  /\ pc[d] = "peeking"
  /\ sigs[queue[d]] = 0 /\ packets[queue[d]] # <<>>
  /\ blocked' = [blocked EXCEPT ![d] = Head(packets[queue[d]])]
  /\ packets' = [packets EXCEPT ![queue[d]] = Tail(@)]
  /\ Enter(d, "running")
  /\ UNCHANGED <<queue, sigs, target, repd, reps, serial>>

\* It comes back with a signal.
ServeSignal(d) ==
  /\ pc[d] = "peeking" /\ sigs[queue[d]] > 0
  /\ sigs' = [sigs EXCEPT ![queue[d]] = @ - 1]
  /\ Enter(d, "running")
  /\ UNCHANGED <<queue, packets, target, blocked, repd, reps, serial>>

\* It comes back with nothing (Mailbox: whenever the queue is empty and has
\* credit; here whenever it is empty).
ServeNothing(d) ==
  /\ pc[d] = "peeking"
  /\ sigs[queue[d]] = 0 /\ packets[queue[d]] = <<>>
  /\ Enter(d, "running")
  /\ UNCHANGED <<queue, packets, sigs, target, blocked, repd, reps, serial>>

\* mdisp::msg_signal, from any thread.
Signal(q) ==
  /\ sigs[q] < MaxSignals
  /\ sigs' = [sigs EXCEPT ![q] = @ + 1]
  /\ UNCHANGED <<queue, packets, pc, target, blocked, repd, reps, serial>>
-----------------------------------------------------------------------------
MdispNext ==
  \/ \E q \in Modules : Signal(q)
  \/ \E a \in MayAttach : Attach(a[1], a[2])
  \/ \E a \in MayAsk : Ask(a[1], a[2])
  \/ \E n \in MayNotify : Notify(n[1], n[2])
  \/ \E d \in MayExit : Exit(d)
  \/ \E d \in Disps : PostOne(d) \/ Return(d) \/ Reply(d) \/ Receive(d)
                        \/ Announce(d) \/ ServePacket(d) \/ ServeSignal(d)
                        \/ ServeNothing(d)

MdispSpec == MdispInit /\ [][MdispNext]_vars

Serve(d) == ServePacket(d) \/ ServeSignal(d)

\* A thread inside the library goes on, signals do not come for ever (they
\* are served first, whatever waits), and a thread with a queue, however much
\* it sends in between, comes back to receive: the loop of the manual.
MdispFairSpec ==
  /\ MdispSpec
  /\ \A d \in Disps : WF_vars(PostOne(d) \/ Return(d) \/ Announce(d) \/ Serve(d))
  /\ \A d \in Disps : SF_vars(Receive(d))
  /\ <>[][\A q \in Modules : ~Signal(q)]_vars
-----------------------------------------------------------------------------
Notes == [from : Disps \cup {None}, serial : {0, 1}]

\* The values the variables take.
MdispTypeOK ==
  /\ queue \in [Disps -> Modules \cup {None}]
  /\ packets \in [Modules -> Seq(Notes)]
  /\ sigs \in [Modules -> Nat]
  /\ pc \in [Disps -> {"running", "awaiting", "peeking", "exited"}
                        \cup Sending \cup Leaving]
  /\ target \in [Disps -> Modules \cup {None}]
  /\ blocked \in [Disps -> Notes]
  /\ repd \in [Disps -> Notes]
  /\ reps \in [Disps -> Nat]
  /\ serial \in [Disps -> {0, 1}]

Queued(s) ==
  UNION {{<<q, i>> : i \in {j \in 1 .. Len(packets[q]) : packets[q][j].from = s}} :
           q \in Modules}

Holders(s) == {d \in Disps : blocked[d].from = s}

\* A request is in one place: queued once, or held by one thread, or
\* answered and announced once; and nothing of it is left once its sender
\* goes on.  (The raw mdisp pointers in packets and in `blocked' are only
\* good for as long as this holds.)
OnePlace ==
  \A s \in Disps :
    Cardinality(Queued(s)) + Cardinality(Holders(s)) + reps[s]
      = IF pc[s] = "awaiting" THEN 1 ELSE 0

\* The answer a sender returns with is the answer to the request it is
\* waiting for, never an earlier one's.
OwnAnswer ==
  [][\A d \in Disps : Return(d) =>
       repd[d] = [from |-> d, serial |-> serial[d]]]_vars

\* Nobody reads an answer while it is being written: repd[s] changes hands
\* only while s is inside reps.waitex() and has not been told.
AnswerNotTorn ==
  [][\A s \in Disps : repd'[s] # repd[s] /\ repd'[s] # Nobody
       => pc[s] = "awaiting" /\ reps[s] = 0]_vars

\* A module's main thread leaves nobody blocked behind.
ModuleExitAnswers == \A d \in Modules : pc[d] = "exited" => blocked[d] = Nobody

Stage(c) ==
  IF reps[c] > 0 THEN <<"answered", None>>
  ELSE IF Holders(c) # {} THEN <<"held", CHOOSE d \in Holders(c) : TRUE>>
  ELSE IF Queued(c) # {} THEN <<"queued", (CHOOSE x \in Queued(c) : TRUE)[1]>>
  ELSE <<"idle", None>>

Meeting == INSTANCE Rendezvous WITH
             Callers <- Disps, Queues <- Modules, Servers <- Disps,
             stage <- [c \in Disps |-> Stage(c)]

\* Every request is taken by one receiver, answered by that one, and its
\* sender returns.
ImplementsRendezvous == Meeting!FairSpec
=============================================================================
