---------------------------- MODULE MCLifecycle -----------------------------
(* A supervisor and its modules, for TLC. *)
EXTENDS Lifecycle

CONSTANTS a, b, w

\* b tells a something.
Notice == {<<b, a>>}

\* A plain thread asks the modules, and may join a.
AskFromOutside == {<<w, a>>, <<w, b>>}
Joins == {<<w, a>>}

\* One module asks the other, or nobody anybody.
AskOther == {<<a, b>>}
NobodyAsks == {}
=============================================================================
