-------------------------------- MODULE IdMap -------------------------------
(***************************************************************************)
(* What an identifier table promises: storing an object yields an          *)
(* identifier no stored object has; the identifier leads to that object    *)
(* and to no other until the object is taken out.  The table can be lost,  *)
(* and then promises nothing.                                              *)
(***************************************************************************)
CONSTANTS Objects, Ids

VARIABLES stored,  \* pairs <<identifier, object>>
          lost

vars == <<stored, lost>>

Init == stored = {} /\ lost = FALSE

Store(o) ==
  \E id \in Ids :
    /\ \A p \in stored : p[1] # id
    /\ stored' = stored \cup {<<id, o>>}

Discard(o) ==
  \E id \in Ids :
    /\ <<id, o>> \in stored
    /\ stored' = stored \ {<<id, o>>}

\* For good: it does not come back.
Lose == lost' = TRUE

Next ==
  \/ ~lost /\ lost' = FALSE /\ \E o \in Objects : Store(o) \/ Discard(o)
  \/ Lose

Spec == Init /\ [][Next]_vars
=============================================================================
