------------------------------- MODULE MsgqRef ------------------------------
(***************************************************************************)
(* The life of one message queue: the reference counter of msgq::body and  *)
(* the handles to it (class msgq of trunk/core/msgq.cc).  A handle is      *)
(* either the member `queue' of a thread's dispatcher, or the temporary    *)
(* that mdisp::msg_signal and mdisp::msg_attach make from an identifier.   *)
(*                                                                         *)
(* The counter changes under the queue's mutex, but it is never set to     *)
(* begin with, create() does not count its own handle, and detach() looks  *)
(* at it again after the mutex is released.                                *)
(***************************************************************************)
EXTENDS Integers, FiniteSets

CONSTANTS Owner,      \* the module's main thread, which created the queue
          Others,     \* other threads that signal the module or join it
          FreshRefc,  \* what a new body's refc can contain
          Wrap        \* the counter is modulo this (2^32)

Users == Others \cup {Owner}

ASSUME MsgqRefAssumption ==
  /\ Owner \notin Others /\ IsFiniteSet(Others)
  /\ Wrap \in Nat \ {0}
  /\ FreshRefc \subseteq 0 .. Wrap - 1

VARIABLES fresh,     \* ghost: what refc contained
          refc,
          deletes,   \* how often the body was deleted; 0: it is alive
          listed,    \* is it in qstock
          own,       \* threads whose dispatcher has a handle to it
          pc         \* what each thread does with its temporary

vars == <<fresh, refc, deletes, listed, own, pc>>

\* mdispb::mdispb calls queue.create().
RefInit ==
  /\ fresh \in FreshRefc /\ refc = fresh
  /\ deletes = 0 /\ listed = TRUE
  /\ own = {Owner}
  /\ pc = [t \in Users |-> "idle"]

\* A temporary handle exists in these, and no handle of the thread is looked
\* at any more in those.
Temporary == {"holding", "dropping", "adopting", "adopted"}
Checking == {"leaving", "dropping", "exiting"}

Goes(t, from, to) == pc[t] \in from /\ pc' = [pc EXCEPT ![t] = to]

\* The bound: a third delete of the body tells nothing new.
MaxDeletes == 2

\* msgq::msgq(int): qstock.get().
Lookup(t) ==
  /\ listed /\ Goes(t, {"idle"}, "found")
  /\ UNCHANGED <<fresh, refc, deletes, listed, own>>

\* Mutant: the handle is not counted.
CountNot == UNCHANGED refc

\* body::attach.
Count == refc' = (refc + 1) % Wrap

\* body::detach, under the mutex.
Uncount == refc' = (refc - 1) % Wrap

\* and the temporary is attached.
Attach(t) ==
  /\ Goes(t, {"found"}, "holding") /\ Count
  /\ UNCHANGED <<fresh, deletes, listed, own>>

\* Mutant: the old handle is forgotten, not detached.
DropForgets(t) ==
  /\ t \in own /\ own' = own \ {t}
  /\ Goes(t, {"holding"}, "dropping")
  /\ UNCHANGED <<fresh, refc, deletes, listed>>

\* msg_attach: `queue = tmp' first detaches, here from this queue itself,
Drop(t) ==
  /\ t \in own /\ own' = own \ {t}
  /\ Goes(t, {"holding"}, "dropping") /\ Uncount
  /\ UNCHANGED <<fresh, deletes, listed>>

\* then attaches.
Adopt(t) ==
  /\ t \notin own /\ own' = own \cup {t}
  /\ Goes(t, {"holding", "adopting"}, "adopted") /\ Count
  /\ UNCHANGED <<fresh, deletes, listed>>

\* ~msgq of the temporary, at the end of msg_signal or msg_attach.
Release(t) ==
  /\ Goes(t, {"holding", "adopted"}, "leaving") /\ Uncount
  /\ UNCHANGED <<fresh, deletes, listed, own>>

\* msg_attach of another queue: `queue = tmp' detaches from this one.
Move(t) ==
  /\ t \in own /\ own' = own \ {t}
  /\ Goes(t, {"idle"}, "leaving") /\ Uncount
  /\ UNCHANGED <<fresh, deletes, listed>>

\* ~mdispb, and with it ~msgq of the member.  Dispatchers of other threads
\* are never destroyed.
Exit ==
  /\ own' = own \ {Owner}
  /\ IF Owner \in own
     THEN Goes(Owner, {"idle"}, "exiting") /\ Uncount
     ELSE Goes(Owner, {"idle"}, "gone") /\ UNCHANGED refc
  /\ UNCHANGED <<fresh, deletes, listed>>

\* Mutant: the comparison is off by one.
DeletesEarly == refc <= 1

Deletes == refc = 0

\* body::detach, after the mutex; ~body takes it off qstock.
Check(t) ==
  /\ \/ Goes(t, {"leaving"}, "idle")
     \/ Goes(t, {"dropping"}, "adopting")
     \/ Goes(t, {"exiting"}, "gone")
  /\ IF Deletes /\ deletes < MaxDeletes
     THEN deletes' = deletes + 1 /\ listed' = FALSE
     ELSE UNCHANGED <<deletes, listed>>
  /\ UNCHANGED <<fresh, refc, own>>

RefNext ==
  \/ Exit
  \/ \E t \in Users : Lookup(t) \/ Attach(t) \/ Drop(t) \/ Adopt(t)
                          \/ Release(t) \/ Move(t) \/ Check(t)

RefSpec == RefInit /\ [][RefNext]_vars
-----------------------------------------------------------------------------
\* The values the variables take.
RefTypeOK ==
  /\ fresh \in 0 .. Wrap - 1
  /\ refc \in 0 .. Wrap - 1
  /\ deletes \in 0 .. MaxDeletes
  /\ listed \in BOOLEAN
  /\ own \subseteq Users
  /\ pc \in [Users -> {"idle", "found", "gone"} \cup Temporary \cup Checking]

Temps == {t \in Users : pc[t] \in Temporary}

\* The number of handles.
Handles == Cardinality(own) + Cardinality(Temps)

\* The counter has counted every handle but the one it was created with.
CountsHandles == refc = (fresh + Handles - 1) % Wrap

\* Fresh values from which the counter neither is zero while there are
\* handles nor comes round to zero.
Sound == fresh > 0 /\ fresh + 2 * Cardinality(Users) <= Wrap

\* The body is deleted only when there is no handle left: msgq.h, on ~msgq.
\* (A thread that has found it and not attached yet has none.)
DeletedUnheld == [][Sound /\ deletes' # deletes => Handles = 0]_vars

\* It is deleted when there is none, whoever was the last to let go and
\* whoever came in between: no queue leaks when its counter began at one.
NoLeak ==
  fresh = 1 /\ Sound /\ Handles = 0 /\ deletes = 0
    => \E t \in Users : pc[t] \in Checking

\* No queue is destroyed under the dispatcher of a thread that uses it,
\* whatever its counter began with: msgq.h on ~msgq, "Decrements reference
\* counter for the attached queue and, if zero, destroys it".
UsedAlive == own # {} => deletes = 0
=============================================================================
