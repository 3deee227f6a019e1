------------------------------ MODULE Selftest ------------------------------
(***************************************************************************)
(* The test modules of the scons branch, mods/test-wait/test.cc and        *)
(* mods/test-send/test.cc, on the dispatchers of Mdisp: the sender looks   *)
(* for the message until the waiter has subscribed to it, sends one        *)
(* notification, two requests and the notification "end"; the waiter       *)
(* answers what requires an answer and quits on "end".  Nobody tells them  *)
(* to unload meanwhile.                                                    *)
(***************************************************************************)
EXTENDS Mdisp

CONSTANTS Waiter, Sender

ASSUME SelftestAssumption ==
  {Waiter, Sender} \subseteq Modules /\ Waiter # Sender /\ MaxPackets >= 1

VARIABLES subscribed,   \* the waiter has subscribed
          phase,        \* the sender's: 0 while it looks for the message
          texts,        \* the text of each packet in the waiter's queue
          heard,        \* the text the waiter has received last
          owes          \* it has yet to answer that

selftestVars == <<vars, subscribed, phase, texts, heard, owes>>

SelftestInit ==
  /\ MdispInit
  /\ subscribed = FALSE
  /\ phase = 0
  /\ texts = <<>>
  /\ heard = "nothing" /\ owes = FALSE

Text(p) ==
  CASE p = 1 -> "a notification"
    [] p = 2 -> "an empty request"
    [] p = 3 -> "a request"
    [] p = 4 -> "end"
-----------------------------------------------------------------------------
\* The waiter subscribes.
Subscribe ==
  /\ ~subscribed
  /\ subscribed' = TRUE
  /\ UNCHANGED <<vars, phase, texts, heard, owes>>

\* The sender's para_msg_find succeeds; until then it sleeps and tries again.
Find ==
  /\ phase = 0 /\ subscribed
  /\ phase' = 1
  /\ UNCHANGED <<vars, subscribed, texts, heard, owes>>

\* Phases 1 and 4 of the sender.
SendNotification ==
  /\ phase \in {1, 4}
  /\ Notify(Sender, Waiter)
  /\ phase' = phase + 1
  /\ UNCHANGED <<subscribed, texts, heard, owes>>

\* Phases 2 and 3.
SendRequest ==
  /\ phase \in {2, 3}
  /\ Ask(Sender, Waiter)
  /\ phase' = phase + 1
  /\ UNCHANGED <<subscribed, texts, heard, owes>>

SendPosts ==
  /\ PostOne(Sender)
  /\ texts' = Append(texts, Text(phase - 1))
  /\ UNCHANGED <<subscribed, phase, heard, owes>>

SendReturns ==
  /\ Return(Sender)
  /\ UNCHANGED <<subscribed, phase, texts, heard, owes>>

SenderEnds ==
  /\ phase = 5 /\ Exit(Sender)
  /\ UNCHANGED <<subscribed, phase, texts, heard, owes>>

\* Mutant: any message is the last.
WaitReceivesOnce ==
  /\ subscribed /\ heard = "nothing" /\ ~owes
  /\ Receive(Waiter)
  /\ UNCHANGED <<subscribed, phase, texts, heard, owes>>

\* The waiter receives,
WaitReceives ==
  /\ subscribed /\ heard # "end" /\ ~owes
  /\ Receive(Waiter)
  /\ UNCHANGED <<subscribed, phase, texts, heard, owes>>

\* is handed a message,
WaitServed ==
  /\ ServePacket(Waiter)
  /\ heard' = Head(texts) /\ texts' = Tail(texts)
  /\ owes' = (blocked'[Waiter] # Nobody)
  /\ UNCHANGED <<subscribed, phase>>

\* or an error, after which it goes on,
WaitUnserved ==
  /\ ServeNothing(Waiter)
  /\ UNCHANGED <<subscribed, phase, texts, heard, owes>>

\* replies if a response is required,
WaitReplies ==
  /\ owes /\ Reply(Waiter)
  /\ owes' = FALSE
  /\ UNCHANGED <<subscribed, phase, texts, heard>>

WaitAnnounces ==
  /\ Announce(Waiter)
  /\ UNCHANGED <<subscribed, phase, texts, heard, owes>>

\* and quits on "end".
WaiterEnds ==
  /\ heard = "end" /\ ~owes /\ Exit(Waiter)
  /\ UNCHANGED <<subscribed, phase, texts, heard, owes>>

SenderStep ==
  \/ Find \/ SendNotification \/ SendRequest \/ SendPosts
  \/ SendReturns \/ SenderEnds

WaiterStep ==
  \/ Subscribe \/ WaitReceives \/ WaitServed
  \/ WaitReplies \/ WaitAnnounces \/ WaiterEnds

SelftestNext == SenderStep \/ WaiterStep \/ WaitUnserved

SelftestSpec == SelftestInit /\ [][SelftestNext]_selftestVars

\* Both threads run.
SelftestFairSpec ==
  SelftestSpec /\ WF_selftestVars(SenderStep) /\ WF_selftestVars(WaiterStep)
-----------------------------------------------------------------------------
\* The test comes to its end: neither module waits for the other for ever.
SelftestEnds ==
  subscribed ~> (pc[Waiter] = "exited" /\ pc[Sender] = "exited")
=============================================================================
