-------------------------------- MODULE Stock -------------------------------
(***************************************************************************)
(* funs::stock, the table of trunk/util/stock.h that gives queues, modules *)
(* and messages their identifiers.  Slots are allocated by the page and    *)
(* reused last-freed-first; an identifier is the slot number with a serial *)
(* number above it, so that a slot used again gets another identifier.     *)
(*                                                                         *)
(* Every operation holds the table's mutex from end to end: it is a step.  *)
(* An object adds itself in its constructor, keeps the identifier, and     *)
(* takes itself out with it in its destructor (msgq::body, message and     *)
(* mdispb are the three users).                                            *)
(*                                                                         *)
(* Growth reallocates two arrays and stores neither when one of the two    *)
(* calls fails, so that the pointer to the other may be left dangling.     *)
(* What the table does from there on is undefined.                         *)
(***************************************************************************)
EXTENDS Integers, Sequences, FiniteSets

CONSTANTS Objects,
          PageSize,    \* slots added at a time (100)
          SlotSpan,    \* slot numbers an identifier can hold (0x10000)
          SeedCount,   \* serial numbers before they repeat (0x8000)
          MaxSlots,    \* bound: the table does not grow beyond this
          Window,      \* how many of the last identifiers `issued' remembers
          Garbage      \* identifiers that a wrecked table may hand out

ASSUME StockAssumption ==
  /\ PageSize \in Nat \ {0}
  /\ SlotSpan \in Nat \ {0}
  /\ SeedCount \in Nat \ {0}
  /\ MaxSlots \in Nat
  /\ Garbage \subseteq Int
  /\ Window \in Nat \ {0}

VARIABLES
  cnt_data,    \* slots allocated
  ptr_data,    \* slot |-> identifier and object
  ptr_free,    \* the unused slots, a stack with its top at the end
  idx_seed,    \* serial number (the code keeps it shifted by 16)
  dangling,    \* which of the two pointers, ptr_data and ptr_free, dangles
  idof,        \* object |-> the identifier it keeps, for the live objects
  issued       \* history: the last identifiers handed out, in order

stockVars == <<cnt_data, ptr_data, ptr_free, idx_seed, dangling, idof, issued>>

\* An identifier that is no identifier: of an unused slot, of a failed add.
NoId == -1

Live == DOMAIN idof

StockInit ==
  /\ cnt_data = 0
  /\ ptr_data = <<>>
  /\ ptr_free = <<>>
  /\ idx_seed = 0
  /\ dangling = {}
  /\ idof = <<>>
  /\ issued = <<>>
-----------------------------------------------------------------------------
\* The bits of either number.
Or[a \in Nat, b \in Nat] ==
  IF a = 0 \/ b = 0 THEN a + b
  ELSE (IF (a % 2) + (b % 2) > 0 THEN 1 ELSE 0) + 2 * Or[a \div 2, b \div 2]

\* A slot number too large for its field runs into the serial number.
RunOver(seed, slot) == Or[seed, slot \div SlotSpan] * SlotSpan + (slot % SlotSpan)

\* idx_seed | slot.
MakeId(seed, slot) ==
  IF slot < SlotSpan THEN seed * SlotSpan + slot ELSE RunOver(seed, slot)

SlotOf(id) == id % SlotSpan

\* The test of get(), remove() and find(): the slot exists and holds this id.
Holds(id) ==
  /\ SlotOf(id) < cnt_data
  /\ ptr_data[SlotOf(id)].id = id

\* stock::get for an identifier that holds.
Get(id) == ptr_data[SlotOf(id)].body

\* Mutant: the slot stays on the stack.
PopNothing(s) == s

Last(s) == s[Len(s)]
Pop(s) == SubSeq(s, 1, Len(s) - 1)

\* Mutant: the serial number stands still.
NextSeedStuck == idx_seed

NextSeed == (idx_seed + 1) % SeedCount

Remember(id) == LET all == Append(issued, id)
                IN  IF Len(all) > Window THEN Tail(all) ELSE all

\* The object keeps what the table gave it.
Keep(o, id) == idof' = [x \in Live \cup {o} |-> IF x = o THEN id ELSE idof[x]]

\* The second half of stock::add: a slot from the stack, a new identifier.
Place(o, data, free) ==
  LET slot == Last(free)
      id == MakeId(NextSeed, slot)
  IN  /\ idx_seed' = NextSeed
      /\ ptr_free' = Pop(free)
      /\ ptr_data' = [data EXCEPT ![slot] = [id |-> id, body |-> o]]
      /\ Keep(o, id)
      /\ issued' = Remember(id)

\* stock::add with an unused slot at hand.
AddReuse(o) ==
  /\ dangling = {} /\ ptr_free # <<>>
  /\ Place(o, ptr_data, ptr_free)
  /\ UNCHANGED <<cnt_data, dangling>>

\* The slots of a new page, in the order they are pushed.
NewPage == [i \in 1..PageSize |-> cnt_data + i - 1]

\* stock::add with every slot in use: both arrays grow by a page first.
AddGrow(o) ==
  /\ dangling = {} /\ ptr_free = <<>>
  /\ UNCHANGED dangling
  /\ cnt_data + PageSize <= MaxSlots
  /\ cnt_data' = cnt_data + PageSize
  /\ Place(o,
           [s \in 0..(cnt_data + PageSize - 1) |->
              IF s < cnt_data THEN ptr_data[s] ELSE [id |-> NoId, body |-> o]],
           NewPage)

\* stock::add without memory for one array or for both: the object goes
\* without identifier.  An array for which there was memory may have moved,
\* and its old address is kept; there is none yet in an empty table.
AddFails(o) ==
  /\ dangling = {} /\ ptr_free = <<>>
  /\ \E moved \in {{}, {"ptr_data"}, {"ptr_free"}} :
       dangling' = IF cnt_data = 0 THEN {} ELSE moved
  /\ Keep(o, NoId)
  /\ UNCHANGED <<cnt_data, ptr_data, ptr_free, idx_seed, issued>>

\* stock::add on freed memory can return anything; what the arrays hold has
\* no meaning any more.
AddWrecked(o) ==
  /\ dangling # {}
  /\ \E id \in Garbage \cup {NoId} : Keep(o, id)
  /\ UNCHANGED <<cnt_data, ptr_data, ptr_free, idx_seed, dangling, issued>>

Construct(o) ==
  /\ o \notin Live
  /\ AddReuse(o) \/ AddGrow(o) \/ AddFails(o) \/ AddWrecked(o)

Forget(o) == idof' = [x \in Live \ {o} |-> idof[x]]

\* Mutant: the slot is given back but keeps its identifier.
RemoveKeepsId(o) ==
  /\ Holds(idof[o])
  /\ ptr_free' = Append(ptr_free, SlotOf(idof[o]))
  /\ UNCHANGED ptr_data

\* Mutant: the slot is not given back.
RemoveLeaks(o) ==
  /\ Holds(idof[o])
  /\ ptr_data' = [ptr_data EXCEPT ![SlotOf(idof[o])].id = NoId]
  /\ UNCHANGED ptr_free

\* stock::remove of an identifier that holds.
RemoveHeld(o) ==
  /\ Holds(idof[o])
  /\ ptr_free' = Append(ptr_free, SlotOf(idof[o]))
  /\ ptr_data' = [ptr_data EXCEPT ![SlotOf(idof[o])].id = NoId]

\* stock::remove of one that does not.
RemoveUnheld(o) ==
  /\ ~Holds(idof[o])
  /\ UNCHANGED <<ptr_free, ptr_data>>

Destruct(o) ==
  /\ o \in Live
  /\ \/ dangling = {} /\ (RemoveHeld(o) \/ RemoveUnheld(o))
     \/ dangling # {} /\ UNCHANGED <<ptr_free, ptr_data>>
  /\ Forget(o)
  /\ UNCHANGED <<cnt_data, idx_seed, dangling, issued>>
-----------------------------------------------------------------------------
StockNext == \E o \in Objects : Construct(o) \/ Destruct(o)

StockSpec == StockInit /\ [][StockNext]_stockVars
-----------------------------------------------------------------------------
Slots == 0..(cnt_data - 1)
Ids == 0..(SeedCount * SlotSpan - 1)

\* What stock.h assumes of its user and of the system: the number of objects
\* is limited (the comment at its head), and growth does not fail by half.
\* Nothing in it keeps to the first or recovers from the second.
Intact == dangling = {} /\ cnt_data < SlotSpan

\* The values the variables take.
StockTypeOK ==
  Intact =>
    /\ cnt_data \in 0..MaxSlots
    /\ ptr_data \in [Slots -> [id : Ids \cup {NoId}, body : Objects]]
    /\ ptr_free \in Seq(Slots)
    /\ idx_seed \in 0..(SeedCount - 1)
    /\ Live \subseteq Objects
    /\ \A o \in Live : idof[o] \in Ids \cup {NoId}
    /\ issued \in Seq(Ids) /\ Len(issued) <= Window

\* As long as the table is intact, growth that failed as a whole included:
\* the stack of unused slots is exact.  It holds every slot without an
\* identifier, no other slot, and none of them twice, so no slot leaks and
\* none is given to two objects.
FreeListExact ==
  Intact =>
    /\ \A i, j \in 1..Len(ptr_free) : ptr_free[i] = ptr_free[j] => i = j
    /\ {ptr_free[i] : i \in 1..Len(ptr_free)} = {s \in Slots : ptr_data[s].id = NoId}

\* As long as the table is intact, the identifier a live object keeps leads
\* to that object.
LiveIdsResolve ==
  Intact => \A o \in Live : idof[o] # NoId => Holds(idof[o]) /\ Get(idof[o]) = o

\* An identifier that leads to an object leads to a live one that keeps it:
\* no identifier reaches an object that is gone.
NoStaleObject ==
  Intact =>
    \A s \in Slots : ptr_data[s].id # NoId =>
      ptr_data[s].body \in Live /\ idof[ptr_data[s].body] = ptr_data[s].id

\* Reuse control: an identifier handed out once does not come back before
\* SeedCount further objects have been added to an intact table.
NoEarlyReuse ==
  Intact =>
    \A i, j \in 1..Len(issued) :
      i < j /\ issued[i] = issued[j] => j - i >= SeedCount

\* What get() can answer: once ptr_data dangles, anything.
Answers(id) ==
  IF "ptr_data" \in dangling THEN Objects
  ELSE IF Holds(id) THEN {Get(id)} ELSE {}

\* The head of stock.h: a container that maps IDs to objects.  An object that
\* was given an identifier is found under it as long as it lives, whatever
\* others ask of the table.
MapsIds == \A o \in Live : idof[o] # NoId => Answers(idof[o]) = {o}

\* What the table promises (IdMap), as long as it is intact.
Map == INSTANCE IdMap WITH
         stored <- {<<ptr_data[s].id, ptr_data[s].body>> :
                      s \in {x \in Slots : ptr_data[x].id # NoId}},
         lost <- ~Intact

\* The slots, their reuse and the growth of the table do not show.
ImplementsIdMap == Map!Spec
=============================================================================
