-------------------------------- MODULE List --------------------------------
(***************************************************************************)
(* What a list promises the queue and the rosters that keep their entries  *)
(* in it: a sequence that grows at the end and can be cut anywhere.  An    *)
(* append can fail, and then changes nothing; a copy can, and is empty.    *)
(* Where the list is not exact a cut may repeat some of the entries behind *)
(* it for others of them.                                                  *)
(***************************************************************************)
EXTENDS Sequences, Naturals

CONSTANTS Objects, Junk

VARIABLES contents,
          gone,     \* the entry that left last
          copy,
          exact

vars == <<contents, gone, copy, exact>>

Without(i) == SubSeq(contents, 1, i - 1) \o SubSeq(contents, i + 1, Len(contents))

Put(x) == contents' = Append(contents, x) /\ UNCHANGED <<gone, copy>>

\* What a cut at i may leave.
Left(i) ==
  IF exact THEN {Without(i)}
  ELSE {s \in [1 .. Len(contents) - 1 -> {contents[j] : j \in 1 .. Len(contents)}] :
          \A j \in DOMAIN s :
            IF j < i THEN s[j] = contents[j]
            ELSE \E k \in j + 1 .. Len(contents) : s[j] = contents[k]}

Cut(i) == contents' \in Left(i) /\ gone' = contents[i] /\ UNCHANGED copy

\* The last entry takes the place of the first that equals x.
Replace(i) ==
  /\ gone' = contents[i] /\ UNCHANGED copy
  /\ contents' = [j \in 1 .. Len(contents) - 1 |->
                   IF j = i THEN contents[Len(contents)] ELSE contents[j]]

Clear == contents' = <<>> /\ UNCHANGED <<gone, copy>>

\* Of everything, or of nothing for want of memory.
Duplicate == copy' \in {contents, <<>>} /\ UNCHANGED <<contents, gone>>

Next ==
  /\ UNCHANGED exact
  /\ \/ \E x \in Objects : Put(x)
     \/ \E i \in 1 .. Len(contents) : Cut(i) \/ Replace(i)
     \/ Clear \/ Duplicate

Init == contents = <<>> /\ gone = Junk /\ copy = <<>> /\ exact \in BOOLEAN

Spec == Init /\ [][Next]_vars
=============================================================================
