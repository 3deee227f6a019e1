------------------------------- MODULE Mailbox ------------------------------
(***************************************************************************)
(* What a message queue promises: packets and signals each leave in the    *)
(* order they were posted, once each, signals first; a thread that called  *)
(* receive sleeps until there is something to return with, and something   *)
(* that waits in the queue while a thread sleeps is delivered.             *)
(*                                                                         *)
(* `credit' is the one blemish the implementation shows: the number of     *)
(* receives that will return with nothing although nothing was posted for  *)
(* them.  A queue whose credit stays 0 is a blocking queue.                *)
(***************************************************************************)
EXTENDS Naturals, Sequences

CONSTANTS Threads, Packets, Signals

VARIABLES pkts, sigs,   \* what was posted and not yet taken
          callers,      \* threads that sleep in receive
          credit,       \* receives owed an empty return
          got           \* what the last receive returned

vars == <<pkts, sigs, callers, credit, got>>

Init ==
  /\ pkts = <<>> /\ sigs = <<>>
  /\ callers = {}
  /\ credit = 0
  /\ got = [rc |-> "none"]

Size == Len(pkts) + Len(sigs)

Put(p) == pkts' = Append(pkts, p) /\ UNCHANGED <<sigs, callers, credit, got>>

Signal(s) == sigs' = Append(sigs, s) /\ UNCHANGED <<pkts, callers, credit, got>>

\* A post that had no memory for its entry.
Drop == credit' = credit + 1 /\ UNCHANGED <<pkts, sigs, callers, got>>

TakeSignal ==
  /\ sigs # <<>>
  /\ got' = [rc |-> "PEC_SIGNAL", data |-> Head(sigs)]
  /\ sigs' = Tail(sigs)
  /\ UNCHANGED pkts

TakePacket ==
  /\ sigs = <<>> /\ pkts # <<>>
  /\ got' = [rc |-> "PEC_SUCCESS", data |-> Head(pkts)]
  /\ pkts' = Tail(pkts)
  /\ UNCHANGED sigs

TakeItem == TakeSignal \/ TakePacket

TakeNothing ==
  /\ Size = 0 /\ credit > 0
  /\ credit' = credit - 1
  /\ got' = [rc |-> "PEC_MSGQ_ERROR"]
  /\ UNCHANGED <<pkts, sigs>>

\* A receive that need not sleep; the next empty one is owed a return.
ReceiveNow == TakeItem /\ credit' = credit + 1 /\ UNCHANGED callers

ReceiveNothing == TakeNothing /\ UNCHANGED callers

Enter(t) ==
  /\ t \notin callers
  /\ Size = 0 /\ credit = 0
  /\ callers' = callers \cup {t}
  /\ UNCHANGED <<pkts, sigs, credit, got>>

\* A sleeping receive returns.
Serve(t) ==
  /\ t \in callers
  /\ callers' = callers \ {t}
  /\ \/ TakeItem /\ UNCHANGED credit
     \/ TakeNothing

Next ==
  \/ \E p \in Packets : Put(p)
  \/ \E s \in Signals : Signal(s)
  \/ Drop
  \/ ReceiveNow \/ ReceiveNothing
  \/ \E t \in Threads : Enter(t) \/ Serve(t)

Spec == Init /\ [][Next]_vars

FairSpec == Spec /\ WF_vars(\E t \in Threads : Serve(t))
=============================================================================
