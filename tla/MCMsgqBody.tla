----------------------------- MODULE MCMsgqBody -----------------------------
(***************************************************************************)
(* One message queue and its receivers, for TLC: the queue of the trunk    *)
(* with callers that do as they like, that of the scons branch with the    *)
(* same, and the trunk's with the threads of the autotest module.          *)
(***************************************************************************)
EXTENDS Autotest, SconsBody

CONSTANT QueueCount   \* bound on undelivered posts where anybody posts

VARIABLE which

MCInit == which \in {"queue", "scons", "autotest"} /\ AutotestInit

MCNext ==
  /\ UNCHANGED which
  /\ \/ /\ which # "autotest"
        /\ \/ which = "queue" /\ BodyNext
           \/ which = "scons" /\ SconsNext
        /\ scount' <= QueueCount
        /\ UNCHANGED <<pc, tried, children, reading, csem, unloads>>
     \/ which = "autotest" /\ AutotestNext

\* The fairness of the one that runs.
MCFairness ==
  /\ \A t \in Threads :
       /\ WF_bodyVars(which # "scons" /\ (PeekWake(t) \/ PeekResleep(t)))
       /\ WF_bodyVars(which = "scons" /\ SconsWoken(t))
  /\ WF_testVars(which = "autotest" /\ MainStep)
  /\ \A s \in Slaves : WF_testVars(which = "autotest" /\ SlaveStep(s))

MCSpec == MCInit /\ [][MCNext]_<<which, testVars>> /\ MCFairness
=============================================================================
