------------------------------ MODULE MsgqBody ------------------------------
(***************************************************************************)
(* msgq::body, the message queue of trunk/core/msgq.{h,cc}: a list of      *)
(* packets, a list of signals, and the semaphore psem, whose mutex also    *)
(* guards the lists.  Every step is one critical section of that mutex;    *)
(* peek() leaves it only while it sleeps in psem.waitex().                 *)
(***************************************************************************)
EXTENDS Seml, Sequences

CONSTANTS Packets,         \* what can be posted
          Signals,
          AllocMayFail     \* does the list's realloc() ever fail

ASSUME MsgqBodyAssumption == AllocMayFail \in BOOLEAN

VARIABLES packetlist, siglist,
          got   \* what the last peek() to return handed to its caller

bodyVars == <<scount, wcount, asleep, woken, packetlist, siglist, got>>

Items == Len(packetlist) + Len(siglist)

BodyInit ==
  /\ SemlInit
  /\ packetlist = <<>> /\ siglist = <<>>
  /\ got = [rc |-> "none"]
-----------------------------------------------------------------------------
\* msgq::body::post.
PostPacket(p) ==
  /\ packetlist' = Append(packetlist, p)
  /\ Post
  /\ UNCHANGED <<siglist, got>>

\* Mutant: the signal is queued and nobody is told.
SignalUnposted(s) ==
  /\ siglist' = Append(siglist, s)
  /\ UNCHANGED <<scount, wcount, asleep, woken, packetlist, got>>

\* msgq::body::signal.
PostSignal(s) ==
  /\ siglist' = Append(siglist, s)
  /\ Post
  /\ UNCHANGED <<packetlist, got>>

\* Either of them when push_back() fails: its result is not looked at.
PostDropped ==
  /\ AllocMayFail
  /\ Post
  /\ UNCHANGED <<packetlist, siglist, got>>

TakeSignal ==
  /\ siglist # <<>>
  /\ got' = [rc |-> "PEC_SIGNAL", data |-> Head(siglist)]
  /\ siglist' = Tail(siglist)
  /\ UNCHANGED packetlist

\* Mutant: packets first.
TakePacketFirst ==
  /\ packetlist # <<>>
  /\ got' = [rc |-> "PEC_SUCCESS", data |-> Head(packetlist)]
  /\ packetlist' = Tail(packetlist)
  /\ UNCHANGED siglist

TakePacket ==
  /\ siglist = <<>> /\ packetlist # <<>>
  /\ got' = [rc |-> "PEC_SUCCESS", data |-> Head(packetlist)]
  /\ packetlist' = Tail(packetlist)
  /\ UNCHANGED siglist

TakeNothing ==
  /\ Items = 0
  /\ got' = [rc |-> "PEC_MSGQ_ERROR"]
  /\ UNCHANGED <<packetlist, siglist>>

\* The tail of msgq::body::peek.
Take == TakeSignal \/ TakePacket \/ TakeNothing

\* peek() with something in the queue: psem is not touched.
PeekNow ==
  /\ Items > 0
  /\ Take
  /\ UNCHANGED semlVars

\* peek() on an empty queue with a count left over in psem.
PeekThrough ==
  /\ Items = 0
  /\ WaitThrough
  /\ Take

\* peek() on an empty queue, psem empty too.
PeekSleep(t) ==
  /\ Items = 0
  /\ Sleep(t)
  /\ UNCHANGED <<packetlist, siglist, got>>

\* Mutant: the sleeper leaves psem without looking at the lists.
PeekWakeEmpty(t) ==
  /\ Resume(t)
  /\ got' = [rc |-> "PEC_MSGQ_ERROR"]
  /\ UNCHANGED <<packetlist, siglist>>

\* The sleeper comes back from psem.
PeekWake(t) == Resume(t) /\ Take

PeekResleep(t) == Resleep(t) /\ UNCHANGED <<packetlist, siglist, got>>

PeekRouse(t) == Rouse(t) /\ UNCHANGED <<packetlist, siglist, got>>
-----------------------------------------------------------------------------
BodyNext ==
  \/ \E p \in Packets : PostPacket(p)
  \/ \E s \in Signals : PostSignal(s)
  \/ PostDropped
  \/ Idle # {} /\ (PeekNow \/ PeekThrough)
  \/ \E t \in Idle : PeekSleep(t)
  \/ \E t \in Threads : PeekWake(t) \/ PeekResleep(t) \/ PeekRouse(t)

BodySpec == BodyInit /\ [][BodyNext]_bodyVars

\* A woken receiver gets the mutex in the end.
BodyFairSpec ==
  BodySpec /\ \A t \in Threads : WF_bodyVars(PeekWake(t) \/ PeekResleep(t))
-----------------------------------------------------------------------------
Results ==
  {[rc |-> c] : c \in {"none", "PEC_MSGQ_ERROR"}}
    \cup [rc : {"PEC_SUCCESS"}, data : Packets]
    \cup [rc : {"PEC_SIGNAL"}, data : Signals]

\* The values the variables take.
BodyTypeOK ==
  /\ SemlTypeOK
  /\ packetlist \in Seq(Packets)
  /\ siglist \in Seq(Signals)
  /\ got \in Results

\* Every entry of the two lists still has its post in the semaphore, so that
\* psem counts at least what the lists hold.
EntriesCounted == Items <= scount

\* No message is left lying in the queue of a thread that sleeps in receive:
\* each of them has a receiver that was woken for it and is on its way.
NoLostWakeup == asleep # {} => Items <= Cardinality(woken)

\* What the queue promises (Mailbox).  A count of psem beyond the entries is
\* one receive that will come back empty-handed.
Box == INSTANCE Mailbox WITH
         pkts <- packetlist, sigs <- siglist,
         callers <- asleep \cup woken, credit <- scount - Items

\* The queue delivers as a Mailbox does, under the same fairness.
ImplementsMailbox == Box!FairSpec

\* The manual's account of para_msg_receive: the calling thread blocks until
\* a message or a signal is received, so a receive never returns an error.
ReceiveBlocks == got.rc # "PEC_MSGQ_ERROR"
=============================================================================
