------------------------------ MODULE Registry ------------------------------
(***************************************************************************)
(* The registered messages and who receives them: trunk/core/message.cc,   *)
(* with body::subscribe and body::unsubscribe of msgq.cc.  A message has a *)
(* name, a code (its identifier) and a roster of queues; it is created by  *)
(* its first subscriber and deleted with its last.  msglist.mx guards all  *)
(* of it, but is released before a queue's own list of codes is updated    *)
(* and before a message is posted.                                         *)
(***************************************************************************)
EXTENDS Naturals, SequencesExt

CONSTANTS Queues, Threads,
          ModuleOf,      \* the module of each thread, by its queue
          QueueOf,       \* the queue its dispatcher is attached to, if any
          NoQueue,
          Names,
          MaxCode,       \* codes given out; Stock says which, here 1, 2...
          MaxPackets,    \* nobody sends to a queue this full
          MayExit        \* queues whose module may exit

ASSUME RegistryAssumption ==
  /\ ModuleOf \in [Threads -> Queues]
  /\ QueueOf \in [Threads -> Queues \cup {NoQueue}]
  /\ NoQueue \notin Queues
  /\ MaxCode \in Nat /\ MaxPackets \in Nat
  /\ MayExit \subseteq Queues

VARIABLES code,     \* of each name; 0 when it is not registered
          roster,   \* message::roster of each name
          subs,     \* msgq::body::roster of each queue
          lastcode, \* ghost: the last code given out
          inbox,    \* packets of each queue, with the module that sent them
          pc, arg,  \* what a thread is doing, and with which code
          todo,     \* the queues a send has yet to post to
          order,    \* ghost: subscribers of each name, oldest first
          exited    \* queues whose module has exited

vars ==
  <<code, roster, subs, lastcode, inbox, pc, arg, todo, order, exited>>

Codes == 1 .. MaxCode

RegistryInit ==
  /\ code = [n \in Names |-> 0]
  /\ roster = [n \in Names |-> <<>>]
  /\ subs = [q \in Queues |-> <<>>]
  /\ lastcode = 0
  /\ inbox = [q \in Queues |-> <<>>]
  /\ pc = [t \in Threads |-> "idle"]
  /\ arg = [t \in Threads |-> 0]
  /\ todo = [t \in Threads |-> <<>>]
  /\ order = [n \in Names |-> <<>>]
  /\ exited = {}

\* list_ut::add.
ListAdd(list, x) == IF Contains(list, x) THEN list ELSE Append(list, x)

\* list_ut::remove: the last element takes the place of the removed one.
ListRemove(list, x) ==
  IF Contains(list, x)
  THEN Front([list EXCEPT ![CHOOSE i \in DOMAIN list : list[i] = x] = Last(list)])
  ELSE list

\* The order of the others is kept.
Struck(list, x) ==
  IF Contains(list, x)
  THEN RemoveAt(list, CHOOSE i \in DOMAIN list : list[i] = x) ELSE list

\* The thread calls the library, and for what needs a queue has one.
Calls(t) == pc[t] = "idle" /\ ModuleOf[t] \notin exited
CallsAttached(t) == Calls(t) /\ QueueOf[t] \in Queues

Goes(t, place, c) ==
  /\ pc' = [pc EXCEPT ![t] = place]
  /\ arg' = [arg EXCEPT ![t] = c]
-----------------------------------------------------------------------------
\* message::find and, when there is none, the constructor of message.
FindOrCreate(n) ==
  IF code[n] # 0 THEN UNCHANGED <<code, lastcode>>
  ELSE /\ lastcode < MaxCode
       /\ lastcode' = lastcode + 1
       /\ code' = [code EXCEPT ![n] = lastcode']

\* message::subscribe, all of it under msglist.mx.
Subscribe(t, n) ==
  /\ CallsAttached(t)
  /\ ~Contains(roster[n], QueueOf[t])
  /\ FindOrCreate(n)
  /\ roster' = [roster EXCEPT ![n] = Append(@, QueueOf[t])]
  /\ order' = [order EXCEPT ![n] = Append(@, QueueOf[t])]
  /\ Goes(t, "subscribing", code'[n])
  /\ UNCHANGED <<subs, inbox, todo, exited>>

\* body::subscribe notes the code.
Note(t) ==
  /\ pc[t] = "subscribing"
  /\ subs' = [subs EXCEPT ![QueueOf[t]] = ListAdd(@, arg[t])]
  /\ Goes(t, "idle", 0)
  /\ UNCHANGED <<code, roster, lastcode, inbox, todo, order, exited>>

\* body::unsubscribe strikes the code out.
Unnote(t, c) ==
  /\ CallsAttached(t)
  /\ subs' = [subs EXCEPT ![QueueOf[t]] = ListRemove(@, c)]
  /\ Goes(t, "unsubscribing", c)
  /\ UNCHANGED <<code, roster, lastcode, inbox, todo, order, exited>>

\* Mutant: a message without subscribers stays.
DeleteNever(n) == UNCHANGED code

\* Mutant: it goes with any of them.
DeleteAlways(n) == code' = [code EXCEPT ![n] = 0]

\* The message goes with its last subscriber.
DeleteUnused(n) ==
  code' = [code EXCEPT ![n] = IF roster'[n] = <<>> THEN 0 ELSE @]

\* message::unsubscribe, when the code stands for a message of this queue.
Unsubscribe(t, n) ==
  LET q == QueueOf[t] IN
  /\ pc[t] = "unsubscribing" /\ code[n] = arg[t]
  /\ Contains(roster[n], q)
  /\ roster' = [roster EXCEPT ![n] = ListRemove(@, q)]
  /\ DeleteUnused(n)
  /\ order' = [order EXCEPT ![n] = Struck(@, q)]
  /\ Goes(t, "idle", 0)
  /\ UNCHANGED <<subs, lastcode, inbox, todo, exited>>

\* It does not: an error, and nothing to undo.
UnsubscribeFails(t) ==
  /\ pc[t] = "unsubscribing"
  /\ \A n \in Names : code[n] = arg[t] => ~Contains(roster[n], QueueOf[t])
  /\ Goes(t, "idle", 0)
  /\ UNCHANGED <<code, roster, subs, lastcode, inbox, todo, order, exited>>
-----------------------------------------------------------------------------
\* mdisp::is_owner: is it the queue that the sending thread is attached to?
IsOwner(t, q) == q = QueueOf[t]

\* message::send up to the release of msglist.mx: the roster is copied.
Send(t, n, rreq) ==
  /\ Calls(t) /\ code[n] # 0
  /\ \A q \in Queues : Len(inbox[q]) < MaxPackets
  /\ todo' = [todo EXCEPT ![t] = roster[n]]
  /\ Goes(t, IF rreq THEN "asking" ELSE "notifying", code[n])
  /\ UNCHANGED <<code, roster, subs, lastcode, inbox, order, exited>>

\* A turn of its loop is over; the call is with the last.
GoesOn(t, rest) ==
  /\ todo' = [todo EXCEPT ![t] = rest]
  /\ IF rest = <<>> THEN Goes(t, "idle", 0) ELSE UNCHANGED <<pc, arg>>
  /\ UNCHANGED <<code, roster, subs, lastcode, order, exited>>

\* The loop, without the mutex.  It passes over the sending thread's queue
PassOver(t) ==
  /\ pc[t] \in {"asking", "notifying"} /\ IsOwner(t, Head(todo[t]))
  /\ GoesOn(t, Tail(todo[t]))
  /\ UNCHANGED inbox

\* and posts to any other; a message that requires a response goes to one.
PostOne(t) ==
  /\ pc[t] \in {"asking", "notifying"} /\ ~IsOwner(t, Head(todo[t]))
  /\ inbox' = [inbox EXCEPT ![Head(todo[t])] =
                 Append(@, [code |-> arg[t], from |-> ModuleOf[t]])]
  /\ GoesOn(t, IF pc[t] = "asking" THEN <<>> ELSE Tail(todo[t]))

\* The module takes a packet (mdisp::msg_receive).
Receive(t) ==
  /\ CallsAttached(t) /\ inbox[QueueOf[t]] # <<>>
  /\ inbox' = [inbox EXCEPT ![QueueOf[t]] = Tail(@)]
  /\ UNCHANGED <<code, roster, subs, lastcode, pc, arg, todo, order, exited>>

\* para_mod_body returns (~mdispb): no roster is touched.  A module ends its
\* other threads first, their code is about to be unloaded.
Exit(q) ==
  /\ q \notin exited
  /\ \A t \in Threads : ModuleOf[t] = q => pc[t] = "idle"
  /\ exited' = exited \cup {q}
  /\ UNCHANGED <<code, roster, subs, lastcode, inbox, pc, arg, todo, order>>
-----------------------------------------------------------------------------
RegistryNext ==
  \/ \E t \in Threads, n \in Names :
       \/ Subscribe(t, n) \/ Unsubscribe(t, n)
       \/ \E rreq \in BOOLEAN : Send(t, n, rreq)
  \/ \E t \in Threads, c \in Codes : Unnote(t, c)
  \/ \E t \in Threads :
       Note(t) \/ UnsubscribeFails(t) \/ PassOver(t) \/ PostOne(t) \/ Receive(t)
  \/ \E q \in MayExit : Exit(q)

RegistrySpec == RegistryInit /\ [][RegistryNext]_vars
-----------------------------------------------------------------------------
\* The values the variables take; who sends has queues to go through.
RegistryTypeOK ==
  /\ code \in [Names -> Codes \cup {0}]
  /\ roster \in [Names -> Seq(Queues)]
  /\ subs \in [Queues -> Seq(Codes)]
  /\ lastcode \in Codes \cup {0}
  /\ inbox \in [Queues -> Seq([code : Codes, from : Queues])]
  /\ pc \in [Threads -> {"idle", "subscribing", "unsubscribing", "asking", "notifying"}]
  /\ arg \in [Threads -> Codes \cup {0}]
  /\ todo \in [Threads -> Seq(Queues)]
  /\ \A t \in Threads : pc[t] \in {"asking", "notifying"} <=> todo[t] # <<>>
  /\ order \in [Names -> Seq(Queues)]
  /\ exited \subseteq Queues

\* Between two critical sections of msglist.mx a message is registered
\* exactly while somebody wants it, no two have one code, and no queue is
\* in a roster twice, whichever threads subscribe and unsubscribe at once.
RegistryExact ==
  /\ \A n \in Names :
       /\ code[n] # 0 <=> roster[n] # <<>>
       /\ IsInjective(roster[n])
  /\ \A m, n \in Names : code[m] = code[n] /\ code[m] # 0 => m = n

\* msgq.h: body::roster is the list of messages the queue receives.  Whatever
\* its threads subscribe and unsubscribe at once, in two critical sections that
\* subscribe enters in one order and unsubscribe in the other, no message that
\* the queue receives is missing when they are done.
RosterListsReceived ==
  \A q \in Queues :
    (\A t \in Threads :
        QueueOf[t] = q => pc[t] \notin {"subscribing", "unsubscribing"})
      => {code[n] : n \in {m \in Names : Contains(roster[m], q)}} \subseteq ToSet(subs[q])

\* The manual: to subscribe is a way to fix a message's identifier.  It does
\* not change as long as one subscriber stays, whoever else comes and goes.
IdFixed ==
  [][\A n \in Names : (\E q \in Queues : Contains(roster[n], q) /\ Contains(roster'[n], q))
       => code'[n] = code[n]]_vars

\* The manual: a module will not receive messages it sends.
NoEcho ==
  \A q \in Queues : \A p \in ToSet(inbox[q]) : p.from # q

\* The manual: a message that requires a response is only delivered to the
\* first module that subscribed for it (other than its sender).
FirstServed ==
  [][\A t \in Threads, n \in Names :
       LET Others(list) == SelectSeq(list, LAMBDA q : ~IsOwner(t, q)) IN
       pc'[t] = "asking" /\ pc[t] = "idle" /\ arg'[t] = code[n] /\ Others(order[n]) # <<>>
         => Head(Others(todo'[t])) = Head(Others(order[n]))]_vars
=============================================================================
