------------------------------ MODULE MCMdisp -------------------------------
(***************************************************************************)
(* Dispatchers and who sends what to whom, for TLC: a chain of threads     *)
(* that ask and serve as they like, or the pair of test modules.           *)
(***************************************************************************)
EXTENDS Selftest

CONSTANTS a, b, w, c

\* Two modules, a worker thread that may join a's queue, and a client that
\* asks a and notifies b; a asks b while it serves.
AskChain == {<<c, a>>, <<a, b>>}
NotifyChain == {<<c, b>>}
Joins == {<<w, a>>}

VARIABLE which

MCInit == which \in {"chain", "test"} /\ SelftestInit

MCNext ==
  /\ UNCHANGED which
  /\ \/ /\ which = "chain" /\ MdispNext
        /\ UNCHANGED <<subscribed, phase, texts, heard, owes>>
     \/ which = "test" /\ SelftestNext

Chain(A) == which = "chain" /\ A

\* The fairness of the one that runs; the other has nothing enabled.
MCFairness ==
  /\ \A d \in Disps :
       /\ WF_vars(Chain(PostOne(d) \/ Return(d) \/ Announce(d) \/ Serve(d)))
       /\ SF_vars(Chain(Receive(d)))
  /\ <>[][\A q \in Modules : ~Signal(q)]_vars
  /\ WF_selftestVars(which = "test" /\ SenderStep)
  /\ WF_selftestVars(which = "test" /\ WaiterStep)

MCSpec ==
  MCInit /\ [][MCNext]_<<which, selftestVars>> /\ MCFairness
=============================================================================
