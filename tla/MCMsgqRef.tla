----------------------------- MODULE MCMsgqRef ------------------------------
(* One queue, its module and the threads that signal it, for TLC. *)
EXTENDS MsgqRef
=============================================================================
