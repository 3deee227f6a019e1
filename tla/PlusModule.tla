----------------------------- MODULE PlusModule -----------------------------
(***************************************************************************)
(* The C++ wrapper trunk/core/plus.h over the registry: a module object    *)
(* keeps two maps between the names and the codes it has subscribed to,    *)
(* sends by name with one of them, and in its run loop looks the name of   *)
(* each message up in the other.  The maps change after the library's own  *)
(* two rosters did, so every change is made in three places.               *)
(*                                                                         *)
(* Threads in Wrapped each own one object; the others call the library.    *)
(***************************************************************************)
EXTENDS Registry

CONSTANT Wrapped

ASSUME PlusAssumption ==
  Wrapped \subseteq {t \in Threads : QueueOf[t] = ModuleOf[t]}

VARIABLES fwd,     \* mFwdMap of each object: code |-> name
          rev,     \* mRevMap: name |-> code
          running, \* mRunLoop: in the run loop, not before or after it
          called,  \* the name a call under way is about
          handed   \* what on_message() got of the last message: name and code

plusVars == <<fwd, rev, running, called, handed>>

Nothing == <<>>

PlusInit ==
  /\ RegistryInit
  /\ fwd = [t \in Wrapped |-> Nothing]
  /\ rev = [t \in Wrapped |-> Nothing]
  /\ running = [t \in Wrapped |-> FALSE]
  /\ called = [t \in Wrapped |-> Nothing]
  /\ handed = [t \in Wrapped |-> Nothing]

\* Entries of a map, and a map without one.
With(map, x, y) == [k \in DOMAIN map \cup {x} |-> IF k = x THEN y ELSE map[k]]
Except(map, x) == [k \in DOMAIN map \ {x} |-> map[k]]

\* The thread is in its module's code: before, in or after the run loop.
Free(t) == t \in Wrapped /\ Calls(t)
-----------------------------------------------------------------------------
\* module_ne::subscribe calls the library,
PlusSubscribe(t, n) ==
  /\ Free(t) /\ Subscribe(t, n)
  /\ called' = [called EXCEPT ![t] = n]
  /\ UNCHANGED <<fwd, rev, running, handed>>

\* and notes what it returned.
PlusSubscribed(t) ==
  /\ t \in Wrapped /\ Note(t)
  /\ fwd' = [fwd EXCEPT ![t] = With(@, arg[t], called[t])]
  /\ rev' = [rev EXCEPT ![t] = With(@, called[t], arg[t])]
  /\ called' = [called EXCEPT ![t] = Nothing]
  /\ UNCHANGED <<running, handed>>

\* unsubscribe by code, whatever it is, and by a name that is mapped.
PlusUnsubscribe(t, c) ==
  /\ Free(t) /\ Unnote(t, c)
  /\ UNCHANGED plusVars

PlusUnsubscribeName(t, n) ==
  /\ Free(t) /\ n \in DOMAIN rev[t] /\ Unnote(t, rev[t][n])
  /\ UNCHANGED plusVars

\* Mutant: only the name is forgotten.
PlusUnsubscribedHalf(t, n) ==
  /\ t \in Wrapped /\ Unsubscribe(t, n)
  /\ rev' = [rev EXCEPT ![t] = Except(@, fwd[t][arg[t]])]
  /\ UNCHANGED <<fwd, running, called, handed>>

\* The library has unsubscribed it: both maps forget it.
PlusUnsubscribed(t, n) ==
  /\ t \in Wrapped /\ Unsubscribe(t, n)
  /\ rev' = [rev EXCEPT ![t] = Except(@, fwd[t][arg[t]])]
  /\ fwd' = [fwd EXCEPT ![t] = Except(@, arg[t])]
  /\ UNCHANGED <<running, called, handed>>

\* The library has not.
PlusNotUnsubscribed(t) == t \in Wrapped /\ UnsubscribeFails(t) /\ UNCHANGED plusVars

\* send by code.  Both kinds set rreq to false, also the one that returns a
\* response, which finds in it the attachments it sent.
PlusSend(t, n) ==
  /\ Free(t) /\ Send(t, n, FALSE)
  /\ UNCHANGED plusVars

\* send by a name that is mapped.
PlusSendName(t, n) ==
  /\ Free(t) /\ n \in DOMAIN rev[t]
  /\ \E m \in Names : code[m] = rev[t][n] /\ Send(t, m, FALSE)
  /\ UNCHANGED plusVars

PlusPostOne(t) ==
  /\ t \in Wrapped /\ (PassOver(t) \/ PostOne(t))
  /\ UNCHANGED plusVars
-----------------------------------------------------------------------------
\* run() begins.
Run(t) ==
  /\ Free(t) /\ ~running[t]
  /\ running' = [running EXCEPT ![t] = TRUE]
  /\ UNCHANGED <<vars, fwd, rev, called, handed>>

\* Mutant: the handler is called without a look at the map.
HandAny(t) ==
  /\ t \in Wrapped /\ running[t] /\ Receive(t)
  /\ LET c == Head(inbox[QueueOf[t]]).code IN
     handed' = [handed EXCEPT ![t] =
                  <<IF c \in DOMAIN fwd[t] THEN fwd[t][c] ELSE Nothing, c>>]
  /\ UNCHANGED <<fwd, rev, running, called>>

\* A message: the handler is called if its code is mapped, by its name.
HandMessage(t) ==
  /\ t \in Wrapped /\ running[t] /\ Receive(t)
  /\ LET c == Head(inbox[QueueOf[t]]).code IN
     handed' = [handed EXCEPT ![t] =
                  IF c \in DOMAIN fwd[t] THEN <<fwd[t][c], c>> ELSE Nothing]
  /\ UNCHANGED <<fwd, rev, running, called>>

\* The loop ends: PSIG_UNLOAD, exit() in a handler, or an error from the
\* library, which a receive from an empty queue can be (see MsgqBody).
Quit(t) ==
  /\ Free(t) /\ running[t]
  /\ running' = [running EXCEPT ![t] = FALSE]
  /\ UNCHANGED <<vars, fwd, rev, called, handed>>

\* The module's body returns, and with it the object goes.
PlusExit(q) ==
  /\ \A t \in Wrapped : QueueOf[t] = q => ~running[t]
  /\ Exit(q)
  /\ UNCHANGED plusVars

\* Mutant: body::unsubscribe strikes the code out when it has left the roster.
PlainStrikesLate(t) ==
  /\ t \notin Wrapped
  /\ \/ \E n \in Names :
          \/ Subscribe(t, n)
          \/ /\ CallsAttached(t) /\ Contains(roster[n], QueueOf[t])
             /\ roster' = [roster EXCEPT ![n] = ListRemove(@, QueueOf[t])]
             /\ DeleteUnused(n)
             /\ order' = [order EXCEPT ![n] = Struck(@, QueueOf[t])]
             /\ Goes(t, "unsubscribing", code[n])
             /\ UNCHANGED <<subs, lastcode, inbox, todo, exited>>
     \/ /\ pc[t] = "unsubscribing"
        /\ subs' = [subs EXCEPT ![QueueOf[t]] = ListRemove(@, arg[t])]
        /\ Goes(t, "idle", 0)
        /\ UNCHANGED <<code, roster, lastcode, inbox, todo, order, exited>>
     \/ Note(t)
  /\ UNCHANGED plusVars

\* What threads without an object do: the library's calls.
Plain(t) ==
  /\ t \notin Wrapped
  /\ \/ \E n \in Names :
          \/ Subscribe(t, n) \/ Unsubscribe(t, n)
          \/ \E rreq \in BOOLEAN : Send(t, n, rreq)
     \/ \E c \in Codes : Unnote(t, c)
     \/ Note(t) \/ UnsubscribeFails(t) \/ PassOver(t) \/ PostOne(t) \/ Receive(t)
  /\ UNCHANGED plusVars

PlusNext ==
  \/ \E t \in Wrapped, n \in Names :
       \/ PlusSubscribe(t, n) \/ PlusUnsubscribeName(t, n) \/ PlusUnsubscribed(t, n)
       \/ PlusSend(t, n) \/ PlusSendName(t, n)
  \/ \E t \in Wrapped, c \in Codes : PlusUnsubscribe(t, c)
  \/ \E t \in Wrapped :
       \/ PlusSubscribed(t) \/ PlusNotUnsubscribed(t) \/ PlusPostOne(t)
       \/ Run(t) \/ HandMessage(t) \/ Quit(t)
  \/ \E t \in Threads : Plain(t)
  \/ \E q \in MayExit : PlusExit(q)

PlusSpec == PlusInit /\ [][PlusNext]_<<vars, plusVars>>
-----------------------------------------------------------------------------
\* Between calls an object's maps are inverse to each other and are its
\* queue's subscriptions, with the codes the library knows them by now, for
\* all that other modules subscribed and unsubscribed meanwhile.  (An
\* object's thread has its queue to itself: it does not see what others do.)
MapsMirror ==
  \A t \in Wrapped : pc[t] \notin {"subscribing", "unsubscribing"} =>
    /\ DOMAIN rev[t] = {n \in Names : Contains(roster[n], QueueOf[t])}
    /\ \A n \in DOMAIN rev[t] : rev[t][n] = code[n]
    /\ DOMAIN fwd[t] = {code[n] : n \in DOMAIN rev[t]}
    /\ \A c \in DOMAIN fwd[t] : code[fwd[t][c]] = c

\* A handler is called exactly for the messages that its module is subscribed
\* to when it takes them, under their name: never for a packet that was posted
\* before the module unsubscribed, or was posted under a name's former code.
HandedByName ==
  [][\A t \in Wrapped :
       LET q == QueueOf[t]
           c == Head(inbox[q]).code
           current == {n \in Names : code[n] = c /\ Contains(roster[n], q)}
       IN Len(inbox'[q]) < Len(inbox[q]) =>
            IF current = {} THEN handed'[t] = Nothing
            ELSE handed'[t] \in current \X {c}]_<<vars, plusVars>>
=============================================================================
