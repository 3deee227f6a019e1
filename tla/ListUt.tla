------------------------------- MODULE ListUt -------------------------------
(***************************************************************************)
(* funs::list_ut of trunk/util/list.h, the array behind a queue's packets  *)
(* and signals and behind the rosters: its growth, its removals by         *)
(* memcpy(), and the copy that message::send makes of a roster.            *)
(*                                                                         *)
(* remove_at() copies between ranges that overlap, for which memcpy() is   *)
(* undefined.  One that copies upwards moves the tail as intended; of any  *)
(* other, nothing is known but that it copies entries of the tail down.    *)
(***************************************************************************)
EXTENDS Naturals, Sequences

CONSTANTS Entries,
          Junk,        \* what unused memory holds
          MinPage,     \* cells added at least (4)
          MaxCells     \* memory: realloc() and malloc() fail beyond this

ASSUME ListAssumption ==
  /\ Junk \notin Entries
  /\ MinPage \in Nat \ {0} /\ MaxCells \in Nat

VARIABLES data,    \* the cells, as many as are allocated; <<>> is NULL
          used,
          cdata, cused, \* the same of the list it is copied to
          gone,    \* what the last removal was of; Junk before
          upward   \* does memcpy() copy upwards, in this build

listVars == <<data, used, cdata, cused, gone, upward>>

ListInit ==
  /\ data = <<>> /\ used = 0
  /\ cdata = <<>> /\ cused = 0
  /\ gone = Junk
  /\ upward \in BOOLEAN

Cells(d, n) == {d[i] : i \in 1 .. n}

\* A quarter more, four cells at least.
PageOf(n) == IF n \div 4 < MinPage THEN MinPage ELSE n \div 4

\* push_back(), when there is room or memory for some.
PushBack(x) ==
  LET more == IF used < Len(data) THEN 0 ELSE PageOf(Len(data)) IN
  /\ Len(data) + more <= MaxCells
  /\ data' = [i \in 1 .. Len(data) + more |->
                IF i = used + 1 THEN x ELSE IF i <= Len(data) THEN data[i] ELSE Junk]
  /\ used' = used + 1
  /\ UNCHANGED <<cdata, cused, gone, upward>>

\* add(): once only.
Add(x) == x \notin Cells(data, used) /\ PushBack(x)

PopBack ==
  /\ used > 0 /\ gone' = data[used]
  /\ used' = used - 1
  /\ UNCHANGED <<data, cdata, cused, upward>>

\* What memcpy() may make of the cells when the entries after the one at i
\* are copied one cell down.
Moved(i) ==
  IF upward
  THEN {[j \in DOMAIN data |-> data[IF j \in i .. used - 1 THEN j + 1 ELSE j]]}
  ELSE {[j \in DOMAIN data |-> data[IF j \in i .. used - 1 THEN from[j] ELSE j]] :
          from \in {f \in [i .. used - 1 -> i + 1 .. used] : \A j \in DOMAIN f : j < f[j]}}

\* remove_at(), and with i = 1 pop_front().
RemoveAt(i) ==
  /\ i <= used /\ gone' = data[i]
  /\ data' \in Moved(i)
  /\ used' = used - 1
  /\ UNCHANGED <<cdata, cused, upward>>

\* Mutant: the last entry is dropped and the removed one stays.
RemoveLast(x) ==
  /\ x \in Cells(data, used) /\ gone' = x
  /\ used' = used - 1
  /\ UNCHANGED <<data, cdata, cused, upward>>

\* remove(): the last entry fills the hole.
Remove(x) ==
  /\ x \in Cells(data, used) /\ gone' = x
  /\ LET i == CHOOSE k \in 1 .. used : data[k] = x /\ x \notin Cells(data, k - 1)
     IN data' = [data EXCEPT ![i] = data[used]]
  /\ used' = used - 1
  /\ UNCHANGED <<cdata, cused, upward>>

\* empty().
EmptyIt == data' = <<>> /\ used' = 0 /\ UNCHANGED <<cdata, cused, gone, upward>>

\* operator =, with memory for as many cells as the source has.
Copy ==
  /\ IF used = 0 THEN cdata' = <<>> /\ cused' = 0
     ELSE /\ cused' = used
          /\ cdata' = [i \in DOMAIN data |-> IF i <= used THEN data[i] ELSE Junk]
  /\ UNCHANGED <<data, used, gone, upward>>

\* and without: the destination is emptied all the same.
CopyFails ==
  /\ used > 0
  /\ cdata' = <<>> /\ cused' = 0
  /\ UNCHANGED <<data, used, gone, upward>>

ListNext ==
  \/ \E x \in Entries : PushBack(x) \/ Add(x) \/ Remove(x)
  \/ \E i \in 1 .. MaxCells : RemoveAt(i)
  \/ PopBack \/ EmptyIt \/ Copy \/ CopyFails

ListSpec == ListInit /\ [][ListNext]_listVars
-----------------------------------------------------------------------------
Sequence == INSTANCE List WITH Objects <- Entries,
              contents <- SubSeq(data, 1, used), copy <- SubSeq(cdata, 1, cused),
              exact <- upward

\* Whatever the array went through, pushes, pops, removals and growth show
\* as those of a sequence, what was asked for is what left it, and a copy is
\* of everything or of nothing; and whatever memcpy() does, a removal keeps
\* what was before the hole and makes up nothing behind it.
ImplementsList == Sequence!Spec
=============================================================================
