----------------------------- MODULE Rendezvous -----------------------------
(***************************************************************************)
(* What a message that requires a response promises: it waits in one       *)
(* queue, one receiver takes it, that receiver and no other answers it,    *)
(* and its sender returns with that answer.                                *)
(***************************************************************************)
CONSTANTS Callers, Queues, Servers, None

VARIABLES stage   \* how far each caller's request is, and in whose hands

Init == stage = [c \in Callers |-> <<"idle", None>>]

Moves(c, from, to) == stage[c] = from /\ stage' = [stage EXCEPT ![c] = to]

Call(c, q) == Moves(c, <<"idle", None>>, <<"queued", q>>)

Accept(c, s) == \E q \in Queues : Moves(c, <<"queued", q>>, <<"held", s>>)

Answer(c) == \E s \in Servers : Moves(c, <<"held", s>>, <<"answered", None>>)

Return(c) == Moves(c, <<"answered", None>>, <<"idle", None>>)

Progress(c) == (\E s \in Servers : Accept(c, s)) \/ Answer(c) \/ Return(c)

Next == \E c \in Callers : (\E q \in Queues : Call(c, q)) \/ Progress(c)

Spec == Init /\ [][Next]_stage

\* No request is forgotten at any of its stages.
FairSpec == Spec /\ \A c \in Callers : WF_stage(Progress(c))
=============================================================================
