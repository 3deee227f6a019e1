------------------------------ MODULE Pageman -------------------------------
(***************************************************************************)
(* funs::pageman of trunk/util/memory.{h,cc}, the pool that operator new   *)
(* of class message takes its blocks from: a chain of pages, each of them  *)
(* PageBlocks blocks of the size that was asked for when it was made, with *)
(* a stack of the free ones.  Both operations hold the pool's mutex.       *)
(***************************************************************************)
EXTENDS Naturals, Sequences

CONSTANTS PageBlocks,  \* blocks of a page (100)
          Sizes,       \* what is asked for
          MaxPages     \* memory: no page beyond these

ASSUME PagemanAssumption ==
  PageBlocks \in Nat \ {0} /\ MaxPages \in Nat /\ Sizes \subseteq Nat

VARIABLES pages,   \* the chain: block size and stack of free blocks of each
          held     \* what callers have: <<page, block>> |-> size asked for

pageVars == <<pages, held>>

PageInit == pages = <<>> /\ held = <<>>

Blocks == 0 .. PageBlocks - 1

\* pagehead::pagehead: all blocks are free, the last one on top.
FreshPage(size) ==
  [itemsize |-> size, index |-> [i \in 1 .. PageBlocks |-> i - 1]]

\* The chain is searched for a page with a free block, of any size; a page
\* is added when there is none.
Candidate(p) ==
  \/ /\ p \in DOMAIN pages /\ pages[p].index # <<>>
     /\ \A r \in 1 .. p - 1 : pages[r].index = <<>>
  \/ /\ p = Len(pages) + 1 /\ p <= MaxPages
     /\ \A r \in DOMAIN pages : pages[r].index = <<>>

\* Mutant: the block stays on the stack.
TakenKept(index) == index

Taken(index) == SubSeq(index, 1, Len(index) - 1)

Fits(page, size) == page.itemsize = size

Holding(p, block, size) ==
  [b \in DOMAIN held \cup {<<p, block>>} |->
     IF b = <<p, block>> THEN size ELSE held[b]]

\* pmalloc() that finds a block.
Alloc(size) ==
  \E p \in 1 .. Len(pages) + 1 :
    /\ Candidate(p)
    /\ LET chain == IF p \in DOMAIN pages THEN pages ELSE Append(pages, FreshPage(size))
           index == chain[p].index
       IN /\ Fits(chain[p], size)
          /\ pages' = [chain EXCEPT ![p].index = Taken(@)]
          /\ held' = Holding(p, index[Len(index)], size)

\* pmfree(): the block goes on top of its page's stack.
Free(b) ==
  /\ held' = [c \in DOMAIN held \ {b} |-> held[c]]
  /\ pages' = [pages EXCEPT ![b[1]].index = Append(@, b[2])]

PageNext ==
  \/ \E size \in Sizes : Alloc(size)
  \/ \E b \in DOMAIN held : Free(b)

PageSpec == PageInit /\ [][PageNext]_pageVars
-----------------------------------------------------------------------------
\* On each page the blocks that are not free are those that callers have,
\* each free one is on the stack once: none is handed out twice or lost.  And
\* a block is as large as its owner thinks.
BlocksExact ==
  /\ \A b \in DOMAIN held : b[1] \in DOMAIN pages /\ held[b] <= pages[b[1]].itemsize
  /\ \A p \in DOMAIN pages :
       LET index == pages[p].index IN
       /\ \A i, j \in DOMAIN index : index[i] = index[j] => i = j
       /\ {index[i] : i \in DOMAIN index}
            = {k \in Blocks : <<p, k>> \notin DOMAIN held}
=============================================================================
