---------------------------- MODULE StockProofs -----------------------------
(***************************************************************************)
(* Proofs about the structures that keep entries, whatever their sizes:    *)
(* the identifier table, as long as it is intact; the list, which          *)
(* implements a sequence; and the pool of the page allocator, which        *)
(* neither loses a block nor hands one out twice.                          *)
(***************************************************************************)
EXTENDS Stock, ListUt, Pageman, SequenceTheorems, WellFoundedInduction, TLAPS

-----------------------------------------------------------------------------
(* Induction over the natural numbers, as a statement about sets.          *)

LEMMA LeastElement ==
  ASSUME NEW T, T \subseteq Nat, T # {}
  PROVE  \E x \in T : \A y \in T : x <= y
<1>1. IsWellFoundedOn(OpToRel(<,Nat), Nat)
  BY NatLessThanWellFounded
<1> DEFINE R == {ss \in Nat \X Nat : ss[1] < ss[2]}
<1>2. IsWellFoundedOn(R, Nat)
  BY <1>1 DEF OpToRel
<1> HIDE DEF R
<1>3. \E x \in T : \A y \in T : ~ (<<y, x>> \in R)
  BY <1>2, WFMin
<1>4. PICK x \in T : \A y \in T : ~ (<<y, x>> \in R)
  BY <1>3
<1>5. \A y \in T : ~(y < x)
  BY <1>4 DEF R
<1> QED BY <1>5

LEMMA SetInduction ==
  ASSUME NEW T, 0 \in T, \A n \in Nat : n \in T => n + 1 \in T
  PROVE  Nat \subseteq T
<1> DEFINE U == Nat \ T
<1> SUFFICES ASSUME U # {} PROVE FALSE
  OBVIOUS
<1>1. PICK x \in U : \A y \in U : x <= y
  BY LeastElement
<1>2. x # 0 /\ x \in Nat
  BY <1>1
<1>3. x - 1 \in Nat /\ x - 1 \notin U
  BY <1>1, <1>2
<1>4. x - 1 \in T /\ (x - 1) + 1 = x
  BY <1>2, <1>3
<1> QED BY <1>1, <1>3, <1>4
-----------------------------------------------------------------------------
(* The identifier table.                                                   *)

SeedOf(id) == id \div SlotSpan

\* The table seen as n slots, their contents and a stack of unused ones.
TableTyped(n, table, free) ==
  /\ n \in 0..MaxSlots
  /\ table \in [0..(n - 1) -> [id : Ids \cup {NoId}, body : Objects]]
  /\ free \in Seq(0..(n - 1))

TableFree(n, table, free) ==
  /\ \A i, j \in 1..Len(free) : free[i] = free[j] => i = j
  /\ \A i \in 1..Len(free) : table[free[i]].id = NoId
  /\ \A s \in 0..(n - 1) : table[s].id = NoId => \E i \in 1..Len(free) : free[i] = s

\* An identifier stands in its own slot, and its object is live and keeps it.
TableKept(n, table) ==
  \A s \in 0..(n - 1) : table[s].id # NoId =>
    /\ SlotOf(table[s].id) = s
    /\ table[s].body \in Live
    /\ idof[table[s].body] = table[s].id

\* The identifier a live object keeps stands in its slot with that object.
TableFound(n, table) ==
  \A o \in Live : idof[o] # NoId =>
    /\ SlotOf(idof[o]) \in 0..(n - 1)
    /\ table[SlotOf(idof[o])].id = idof[o]
    /\ table[SlotOf(idof[o])].body = o

Table(n, table, free) ==
  /\ TableTyped(n, table, free) /\ TableFree(n, table, free)
  /\ TableKept(n, table) /\ TableFound(n, table)

Owners ==
  /\ Live \subseteq Objects
  /\ \A o \in Live : idof[o] \in Ids \cup {NoId}

\* Serial numbers of identifiers less than SeedCount apart in the history
\* differ by their distance, modulo SeedCount.
Spaced(s) ==
  \A i, j \in 1..Len(s) : i < j /\ j - i < SeedCount =>
    SeedOf(s[j]) - SeedOf(s[i]) \in {j - i, j - i - SeedCount}

Serial ==
  /\ idx_seed \in 0..(SeedCount - 1)
  /\ issued \in Seq(Ids) /\ Len(issued) <= Window
  /\ Spaced(issued)
  /\ Len(issued) > 0 => SeedOf(issued[Len(issued)]) = idx_seed

StockInv == Table(cnt_data, ptr_data, ptr_free) /\ Owners /\ Serial
-----------------------------------------------------------------------------
\* The layout of an identifier.
LEMMA IdLayout ==
  ASSUME NEW K \in Nat \ {0}, NEW s \in Nat, NEW a \in 0..(K - 1)
  PROVE  (s * K + a) % K = a /\ (s * K + a) \div K = s
BY Z3

LEMMA IdBound ==
  ASSUME NEW K \in Nat \ {0}, NEW C \in Nat \ {0},
         NEW s \in 0..(C - 1), NEW a \in 0..(K - 1)
  PROVE  s * K + a \in 0..(C * K - 1)
OBVIOUS

LEMMA NoIdLayout ==
  ASSUME NEW K \in Nat \ {0}
  PROVE  (-1) % K = K - 1
BY Z3

LEMMA IdParts ==
  ASSUME NEW id \in Ids
  PROVE  SlotOf(id) \in 0..(SlotSpan - 1) /\ SeedOf(id) \in 0..(SeedCount - 1)
<1>1. id \in Nat /\ id < SeedCount * SlotSpan /\ SlotSpan \in Nat \ {0} /\ SeedCount \in Nat \ {0}
  BY StockAssumption DEF Ids
<1>2. id % SlotSpan \in 0..(SlotSpan - 1) /\ id = SlotSpan * (id \div SlotSpan) + (id % SlotSpan)
  BY <1>1, Z3
<1>3. id \div SlotSpan \in Nat /\ id \div SlotSpan < SeedCount
  BY <1>1, <1>2, Z3
<1> QED BY <1>1, <1>2, <1>3 DEF SlotOf, SeedOf

LEMMA NextSeedRange ==
  ASSUME Serial
  PROVE  /\ NextSeed \in 0..(SeedCount - 1)
         /\ NextSeed \in {idx_seed + 1, idx_seed + 1 - SeedCount}
BY StockAssumption, Z3 DEF NextSeed, Serial

\* A new identifier: its slot and its serial number can be read off it.
LEMMA MakeIdOK ==
  ASSUME Serial, NEW slot \in 0..(SlotSpan - 1)
  PROVE  /\ MakeId(NextSeed, slot) \in Ids
         /\ SlotOf(MakeId(NextSeed, slot)) = slot
         /\ SeedOf(MakeId(NextSeed, slot)) = NextSeed
         /\ MakeId(NextSeed, slot) # NoId
<1>1. /\ slot \in 0..(SlotSpan - 1) /\ SlotSpan \in Nat \ {0}
      /\ SeedCount \in Nat \ {0}
      /\ NextSeed \in 0..(SeedCount - 1) /\ NextSeed \in Nat
  BY StockAssumption, NextSeedRange
<1>2. MakeId(NextSeed, slot) = NextSeed * SlotSpan + slot
  BY <1>1 DEF MakeId
<1>3. MakeId(NextSeed, slot) \in Ids
  BY <1>1, <1>2, IdBound DEF Ids
<1>4. /\ MakeId(NextSeed, slot) % SlotSpan = slot
      /\ MakeId(NextSeed, slot) \div SlotSpan = NextSeed
  BY <1>1, <1>2, IdLayout
<1> QED BY <1>3, <1>4, StockAssumption DEF SlotOf, SeedOf, Ids, NoId
-----------------------------------------------------------------------------
\* The history stays well spaced when the next identifier joins it.
LEMMA RememberOK ==
  ASSUME Serial, NEW id \in Ids, SeedOf(id) = NextSeed,
         issued' = Remember(id), idx_seed' = NextSeed
  PROVE  Serial'
<1> DEFINE all == Append(issued, id)
           n == Len(issued)
<1>0. n \in Nat /\ SeedCount \in Nat \ {0} /\ Window \in Nat \ {0} /\ n <= Window
  BY StockAssumption DEF Serial
<1>1. /\ all \in Seq(Ids) /\ Len(all) = n + 1 /\ all[n + 1] = id
      /\ \A i \in 1..n : all[i] = issued[i]
  BY DEF Serial
<1>2. \A i \in 1..Len(all) : SeedOf(all[i]) \in 0..(SeedCount - 1)
  BY <1>1, IdParts
<1>3. Spaced(all)
  <2> SUFFICES ASSUME NEW i \in 1..(n + 1), NEW j \in 1..(n + 1), i < j, j - i < SeedCount
               PROVE  SeedOf(all[j]) - SeedOf(all[i]) \in {j - i, j - i - SeedCount}
    BY <1>1 DEF Spaced
  <2>1. CASE j <= n
    BY <1>0, <1>1, <2>1 DEF Serial, Spaced
  <2>2. CASE j = n + 1 /\ i = n
    BY <1>0, <1>1, <2>2, NextSeedRange DEF Serial
  <2>3. CASE j = n + 1 /\ i < n
    <3>1. SeedOf(issued[n]) - SeedOf(issued[i]) \in {n - i, n - i - SeedCount}
      BY <1>0, <2>3 DEF Serial, Spaced
    <3>2. SeedOf(all[n + 1]) = NextSeed /\ SeedOf(issued[n]) = idx_seed
      BY <1>0, <1>1, <2>3 DEF Serial
    <3>3. SeedOf(issued[i]) \in 0..(SeedCount - 1) /\ all[i] = issued[i]
      BY <1>0, <1>1, <1>2, <2>3
    <3>4. /\ idx_seed \in 0..(SeedCount - 1) /\ NextSeed \in 0..(SeedCount - 1)
          /\ NextSeed \in {idx_seed + 1, idx_seed + 1 - SeedCount}
      BY NextSeedRange DEF Serial
    <3>5. NextSeed - SeedOf(issued[i]) \in {n + 1 - i, n + 1 - i - SeedCount}
      <4> HIDE DEF n
      <4> QED BY <1>0, <2>3, <3>1, <3>2, <3>3, <3>4
    <3>6. SeedOf(all[j]) = NextSeed /\ SeedOf(all[i]) = SeedOf(issued[i])
      BY <2>3, <3>2, <3>3
    <3> HIDE DEF all, n
    <3> QED BY <1>0, <2>3, <3>5, <3>6
  <2> QED BY <1>0, <2>1, <2>2, <2>3
<1>4. idx_seed' \in 0..(SeedCount - 1) /\ SeedOf(all[Len(all)]) = idx_seed'
  BY <1>1, NextSeedRange
<1>5. CASE n + 1 <= Window
  <2>1. issued' = all
    BY <1>0, <1>1, <1>5 DEF Remember
  <2> HIDE DEF all
  <2> QED BY <1>0, <1>1, <1>3, <1>4, <1>5, <2>1 DEF Serial, Spaced
<1>6. CASE n + 1 > Window
  <2>1. issued' = Tail(all) /\ n = Window
    BY <1>0, <1>1, <1>6 DEF Remember
  <2> HIDE DEF all
  <2>2. /\ issued' \in Seq(Ids) /\ Len(issued') = n
        /\ \A i \in 1..n : issued'[i] = all[i + 1]
    BY <1>0, <1>1, <2>1
  <2>3. Spaced(issued)'
    <3> SUFFICES ASSUME NEW i \in 1..n, NEW j \in 1..n, i < j, j - i < SeedCount
                 PROVE  SeedOf(issued'[j]) - SeedOf(issued'[i]) \in {j - i, j - i - SeedCount}
      BY <2>2 DEF Spaced, SeedOf
    <3>1. SeedOf(all[j + 1]) - SeedOf(all[i + 1])
            \in {(j + 1) - (i + 1), (j + 1) - (i + 1) - SeedCount}
      BY <1>0, <1>1, <1>3 DEF Spaced
    <3> QED BY <1>0, <2>2, <3>1
  <2>4. SeedOf(issued'[Len(issued')]) = idx_seed'
    BY <1>0, <1>1, <1>4, <2>1, <2>2
  <2> QED BY <1>0, <1>4, <2>1, <2>2, <2>3, <2>4 DEF Serial, SeedOf
<1> QED BY <1>0, <1>5, <1>6

-----------------------------------------------------------------------------
\* The second half of add(), on a table that is in order and has a slot to
\* give.
LEMMA PlaceOK ==
  ASSUME Owners, Serial, NEW n, n < SlotSpan,
         NEW table, NEW free, Table(n, table, free), free # <<>>,
         NEW o \in Objects \ Live, Place(o, table, free), cnt_data' = n
  PROVE  StockInv'
<1> DEFINE slot == free[Len(free)]
           id == MakeId(NextSeed, slot)
<1>0. /\ n \in 0..MaxSlots /\ MaxSlots \in Nat /\ SlotSpan \in Nat \ {0}
      /\ free \in Seq(0..(n - 1)) /\ Len(free) \in Nat \ {0}
      /\ DOMAIN table = 0..(n - 1)
      /\ \A s \in 0..(n - 1) : table[s].id \in Ids \cup {NoId} /\ table[s].body \in Objects
  BY StockAssumption DEF Table, TableTyped
<1>1. slot \in 0..(n - 1) /\ slot \in 0..(SlotSpan - 1) /\ table[slot].id = NoId
  BY <1>0 DEF Table, TableFree
<1>2. id \in Ids /\ SlotOf(id) = slot /\ SeedOf(id) = NextSeed /\ id # NoId
  BY <1>1, MakeIdOK
<1>3. /\ idx_seed' = NextSeed /\ issued' = Remember(id)
      /\ ptr_free' = SubSeq(free, 1, Len(free) - 1)
      /\ ptr_data' = [table EXCEPT ![slot] = [id |-> id, body |-> o]]
      /\ idof' = [x \in Live \cup {o} |-> IF x = o THEN id ELSE idof[x]]
  BY DEF Place, Keep, Last, Pop
<1> HIDE DEF slot, id
<1>4. Serial'
  BY <1>2, <1>3, RememberOK
<1>5. /\ Live' = Live \cup {o} /\ idof'[o] = id
      /\ \A x \in Live : idof'[x] = idof[x] /\ x # o
  BY <1>3 DEF Live
<1>6. Owners'
  BY <1>2, <1>5 DEF Owners, Ids, NoId
<1>7. /\ DOMAIN ptr_data' = 0..(n - 1)
      /\ ptr_data'[slot] = [id |-> id, body |-> o]
      /\ \A s \in 0..(n - 1) : s # slot => ptr_data'[s] = table[s]
  BY <1>0, <1>1, <1>3
<1>8. /\ ptr_free' \in Seq(0..(n - 1)) /\ Len(ptr_free') = Len(free) - 1
      /\ \A i \in 1..Len(ptr_free') : ptr_free'[i] = free[i]
  <2>1. \A i \in 1..(Len(free) - 1) : free[i] \in 0..(n - 1)
    BY <1>0
  <2> DEFINE m == Len(free) - 1
             popped == SubSeq(free, 1, m)
  <2>2. m \in Nat /\ \A i \in 1..m : free[i] \in 0..(n - 1)
    BY <1>0, <2>1
  <2> HIDE DEF m
  <2>3. /\ popped \in Seq(0..(n - 1))
        /\ Len(popped) = IF 1 <= m THEN m - 1 + 1 ELSE 0
        /\ \A i \in 1..(m - 1 + 1) : popped[i] = free[1 + i - 1]
    BY <2>2, SubSeqProperties
  <2>4. Len(popped) = m /\ \A i \in 1..m : popped[i] = free[i]
    BY <2>2, <2>3
  <2>5. ptr_free' = popped
    BY <1>3 DEF m
  <2> QED BY <2>3, <2>4, <2>5 DEF m
<1>9. TableTyped(n, ptr_data, ptr_free)'
  <2>1. table \in [0..(n - 1) -> [id : Ids \cup {NoId}, body : Objects]]
    BY DEF Table, TableTyped
  <2>2. ptr_data' \in [0..(n - 1) -> [id : Ids \cup {NoId}, body : Objects]]
    BY <1>1, <1>2, <1>3, <2>1
  <2> QED BY <1>0, <1>8, <2>2 DEF TableTyped, Ids, NoId
<1>10. TableFree(n, ptr_data, ptr_free)'
  <2>1. \A i, j \in 1..Len(free) : free[i] = free[j] => i = j
    BY DEF Table, TableFree
  <2>2. \A i \in 1..Len(ptr_free') : ptr_free'[i] # slot /\ ptr_free'[i] \in 0..(n - 1)
    <3> SUFFICES ASSUME NEW i \in 1..Len(ptr_free')
                 PROVE  ptr_free'[i] # slot /\ ptr_free'[i] \in 0..(n - 1)
      OBVIOUS
    <3>1. i \in 1..Len(free) /\ Len(free) \in 1..Len(free) /\ i # Len(free)
      BY <1>0, <1>8
    <3> QED BY <1>0, <1>8, <2>1, <3>1 DEF slot
  <2>3. \A i \in 1..Len(ptr_free') : ptr_data'[ptr_free'[i]].id = NoId
    <3> SUFFICES ASSUME NEW i \in 1..Len(ptr_free')
                 PROVE  ptr_data'[ptr_free'[i]].id = NoId
      OBVIOUS
    <3>1. i \in 1..Len(free) /\ ptr_free'[i] = free[i]
      BY <1>0, <1>8
    <3>2. table[free[i]].id = NoId
      BY <3>1 DEF Table, TableFree
    <3> QED BY <1>7, <2>2, <3>1, <3>2
  <2>4. ASSUME NEW s \in 0..(n - 1), ptr_data'[s].id = NoId
        PROVE  \E i \in 1..Len(ptr_free') : ptr_free'[i] = s
    <3>1. s # slot /\ table[s].id = NoId
      BY <1>2, <1>7, <2>4
    <3>2. PICK i \in 1..Len(free) : free[i] = s
      BY <3>1 DEF Table, TableFree
    <3>3. i # Len(free)
      BY <3>1, <3>2 DEF slot
    <3>4. i \in 1..Len(ptr_free')
      BY <1>0, <1>8, <3>2, <3>3
    <3> QED BY <1>8, <3>2, <3>4
  <2>5. \A i, j \in 1..Len(ptr_free') : ptr_free'[i] = ptr_free'[j] => i = j
    <3>1. \A i \in 1..Len(ptr_free') : i \in 1..Len(free)
      BY <1>0, <1>8
    <3> QED BY <1>8, <2>1, <3>1
  <2> QED BY <2>3, <2>4, <2>5 DEF TableFree, NoId
<1>11. TableKept(n, ptr_data)'
  <2> SUFFICES ASSUME NEW s \in 0..(n - 1), ptr_data'[s].id # NoId
               PROVE  /\ SlotOf(ptr_data'[s].id) = s
                      /\ ptr_data'[s].body \in Live'
                      /\ idof'[ptr_data'[s].body] = ptr_data'[s].id
    BY DEF TableKept, SlotOf, NoId
  <2>1. CASE s = slot
    BY <1>2, <1>5, <1>7, <2>1
  <2>2. CASE s # slot
    BY <1>5, <1>7, <2>2 DEF Table, TableKept
  <2> QED BY <2>1, <2>2
<1>12. TableFound(n, ptr_data)'
  <2> SUFFICES ASSUME NEW x \in Live', idof'[x] # NoId
               PROVE  /\ SlotOf(idof'[x]) \in 0..(n - 1)
                      /\ ptr_data'[SlotOf(idof'[x])].id = idof'[x]
                      /\ ptr_data'[SlotOf(idof'[x])].body = x
    BY DEF TableFound, SlotOf, NoId
  <2>1. CASE x = o
    BY <1>1, <1>2, <1>5, <1>7, <2>1
  <2>2. CASE x # o
    <3>1. /\ x \in Live /\ idof'[x] = idof[x]
          /\ SlotOf(idof[x]) \in 0..(n - 1)
          /\ table[SlotOf(idof[x])].id = idof[x]
          /\ table[SlotOf(idof[x])].body = x
      BY <1>5, <2>2 DEF Table, TableFound
    <3>2. SlotOf(idof[x]) # slot
      BY <1>1, <1>5, <3>1
    <3> QED BY <1>7, <3>1, <3>2
  <2> QED BY <2>1, <2>2
<1>13. Table(cnt_data, ptr_data, ptr_free)'
  BY <1>9, <1>10, <1>11, <1>12
  DEF Table, TableTyped, TableFree, TableKept, TableFound, Ids, NoId, SlotOf
<1> QED BY <1>4, <1>6, <1>13 DEF StockInv

-----------------------------------------------------------------------------
LEMMA StockInitInv == StockInit => StockInv
<1> SUFFICES ASSUME StockInit PROVE StockInv
  OBVIOUS
<1> USE StockAssumption DEF StockInit
<1>1. Table(cnt_data, ptr_data, ptr_free)
  BY DEF Table, TableTyped, TableFree, TableKept, TableFound, Live
<1>2. Owners
  BY DEF Owners, Live
<1>3. Serial
  BY DEF Serial, Spaced
<1> QED BY <1>1, <1>2, <1>3 DEF StockInv

LEMMA AddReuseOK ==
  ASSUME cnt_data < SlotSpan, StockInv, NEW o \in Objects \ Live,
         AddReuse(o)
  PROVE  StockInv'
<1> PICK n, table, free : n = cnt_data /\ table = ptr_data /\ free = ptr_free
  OBVIOUS
<1>1. Table(n, table, free) /\ free # <<>> /\ Place(o, table, free) /\ cnt_data' = n
  BY DEF StockInv, AddReuse
<1> QED BY <1>1, PlaceOK DEF StockInv

\* A table whose slots are all in use is in order with a page of unused ones.
LEMMA GrowOK ==
  ASSUME StockInv, ptr_free = <<>>, cnt_data + PageSize <= MaxSlots,
         NEW o \in Objects, NEW n, NEW table, NEW free,
         n = cnt_data + PageSize,
         table = [s \in 0..(cnt_data + PageSize - 1) |->
                   IF s < cnt_data THEN ptr_data[s] ELSE [id |-> NoId, body |-> o]],
         free = NewPage
  PROVE  Table(n, table, free) /\ free # <<>>
<1>0. /\ cnt_data \in Nat /\ PageSize \in Nat \ {0} /\ n \in 0..MaxSlots
      /\ DOMAIN ptr_data = 0..(cnt_data - 1) /\ MaxSlots \in Nat
      /\ \A s \in 0..(cnt_data - 1) : ptr_data[s].id \in Ids \cup {NoId} /\ ptr_data[s].body \in Objects
  BY StockAssumption DEF StockInv, Table, TableTyped
<1>1. /\ free \in Seq(0..(n - 1)) /\ Len(free) = PageSize
      /\ \A i \in 1..PageSize : free[i] = cnt_data + i - 1
  <2>1. /\ DOMAIN free = 1..PageSize
        /\ \A i \in 1..PageSize : free[i] = cnt_data + i - 1 /\ free[i] \in 0..(n - 1)
    BY <1>0 DEF NewPage
  <2>2. free \in [1..PageSize -> 0..(n - 1)]
    BY <2>1 DEF NewPage
  <2> QED BY <1>0, <2>1, <2>2
<1>2. /\ DOMAIN table = 0..(n - 1)
      /\ \A s \in 0..(cnt_data - 1) : table[s] = ptr_data[s]
      /\ \A s \in cnt_data..(n - 1) : table[s].id = NoId /\ table[s].body = o
  BY <1>0
<1>3. \A s \in 0..(n - 1) : s \in 0..(cnt_data - 1) \/ s \in cnt_data..(n - 1)
  BY <1>0
<1>4. \A s \in 0..(cnt_data - 1) : ptr_data[s].id # NoId
  BY DEF StockInv, Table, TableFree
<1>5. TableTyped(n, table, free)
  <2>1. \A s \in 0..(cnt_data - 1) : ptr_data[s] \in [id : Ids \cup {NoId}, body : Objects]
    BY DEF StockInv, Table, TableTyped
  <2>2. table \in [0..(n - 1) -> [id : Ids \cup {NoId}, body : Objects]]
    BY <1>0, <2>1
  <2> QED BY <1>0, <1>1, <2>2 DEF TableTyped
<1>6. TableFree(n, table, free)
  <2>1. \A i, j \in 1..Len(free) : free[i] = free[j] => i = j
    BY <1>0, <1>1
  <2>2. \A i \in 1..Len(free) : table[free[i]].id = NoId
    BY <1>0, <1>1, <1>2
  <2>3. ASSUME NEW s \in 0..(n - 1), table[s].id = NoId
        PROVE  \E i \in 1..Len(free) : free[i] = s
    <3>1. s \in cnt_data..(n - 1)
      BY <1>2, <1>3, <1>4, <2>3
    <3>2. s - cnt_data + 1 \in 1..PageSize /\ free[s - cnt_data + 1] = s
      BY <1>0, <1>1, <3>1
    <3> QED BY <1>1, <3>2
  <2> QED BY <2>1, <2>2, <2>3 DEF TableFree
<1>7. TableKept(n, table)
  <2> SUFFICES ASSUME NEW s \in 0..(n - 1), table[s].id # NoId
               PROVE  /\ SlotOf(table[s].id) = s
                      /\ table[s].body \in Live
                      /\ idof[table[s].body] = table[s].id
    BY DEF TableKept
  <2>1. s \in 0..(cnt_data - 1) /\ table[s] = ptr_data[s]
    BY <1>2, <1>3
  <2> QED BY <2>1 DEF StockInv, Table, TableKept
<1>8. TableFound(n, table)
  <2> SUFFICES ASSUME NEW x \in Live, idof[x] # NoId
               PROVE  /\ SlotOf(idof[x]) \in 0..(n - 1)
                      /\ table[SlotOf(idof[x])].id = idof[x]
                      /\ table[SlotOf(idof[x])].body = x
    BY DEF TableFound
  <2>1. /\ SlotOf(idof[x]) \in 0..(cnt_data - 1)
        /\ ptr_data[SlotOf(idof[x])].id = idof[x]
        /\ ptr_data[SlotOf(idof[x])].body = x
    BY DEF StockInv, Table, TableFound
  <2> QED BY <1>0, <1>2, <2>1
<1> QED BY <1>0, <1>1, <1>5, <1>6, <1>7, <1>8 DEF Table

LEMMA AddGrowOK ==
  ASSUME cnt_data' < SlotSpan, StockInv, NEW o \in Objects \ Live, AddGrow(o)
  PROVE  StockInv'
<1> PICK n, table, free :
      /\ n = cnt_data + PageSize
      /\ table = [s \in 0..(cnt_data + PageSize - 1) |->
                   IF s < cnt_data THEN ptr_data[s] ELSE [id |-> NoId, body |-> o]]
      /\ free = NewPage
  OBVIOUS
<1>1. Place(o, table, free) /\ cnt_data' = n
  BY DEF AddGrow
<1>2. Table(n, table, free) /\ free # <<>>
  BY GrowOK DEF AddGrow
<1> QED BY <1>1, <1>2, PlaceOK DEF StockInv

LEMMA AddFailsOK ==
  ASSUME StockInv, NEW o \in Objects \ Live, AddFails(o)
  PROVE  StockInv'
<1>1. /\ UNCHANGED <<cnt_data, ptr_data, ptr_free, idx_seed, issued>>
      /\ Live' = Live \cup {o} /\ idof'[o] = NoId
      /\ \A x \in Live : idof'[x] = idof[x] /\ x # o
  BY DEF AddFails, Keep, Live
<1>2. Owners' /\ Serial'
  BY <1>1 DEF StockInv, Owners, Serial, Spaced, SeedOf, Ids, NoId
<1>3. TableTyped(cnt_data, ptr_data, ptr_free)' /\ TableFree(cnt_data, ptr_data, ptr_free)'
  BY <1>1 DEF StockInv, Table, TableTyped, TableFree, Ids, NoId
<1>4. TableKept(cnt_data, ptr_data)'
  BY <1>1 DEF StockInv, Table, TableKept, SlotOf, NoId
<1>5. TableFound(cnt_data, ptr_data)'
  BY <1>1 DEF StockInv, Table, TableFound, SlotOf, NoId
<1> QED BY <1>2, <1>3, <1>4, <1>5 DEF StockInv, Table

\* An object that was never stored cannot be mistaken for one that is.
LEMMA NoIdNotHeld ==
  ASSUME cnt_data < SlotSpan, StockInv
  PROVE  ~Holds(NoId)
<1>1. SlotOf(NoId) = SlotSpan - 1
  BY StockAssumption, NoIdLayout DEF SlotOf, NoId
<1>2. cnt_data \in 0..MaxSlots
  BY DEF StockInv, Table, TableTyped
<1> QED BY <1>1, <1>2, StockAssumption DEF Holds

\* An object taken out of the table was found by its own identifier.
LEMMA RemoveHeldOK ==
  ASSUME cnt_data < SlotSpan, StockInv, NEW o \in Live,
         RemoveHeld(o), Forget(o), UNCHANGED <<cnt_data, idx_seed, issued>>
  PROVE  StockInv'
<1> DEFINE slot == SlotOf(idof[o])
           n == cnt_data
<1>0. /\ n \in Nat /\ n \in 0..MaxSlots /\ MaxSlots \in Nat
      /\ DOMAIN ptr_data = 0..(n - 1) /\ ptr_free \in Seq(0..(n - 1))
      /\ \A s \in 0..(n - 1) : ptr_data[s].id \in Ids \cup {NoId} /\ ptr_data[s].body \in Objects
  BY StockAssumption DEF StockInv, Table, TableTyped
<1>1. idof[o] # NoId
  BY NoIdNotHeld DEF RemoveHeld
<1>2. slot \in 0..(n - 1) /\ ptr_data[slot].id = idof[o] /\ ptr_data[slot].body = o
  BY <1>1 DEF StockInv, Table, TableFound
<1>3. /\ ptr_free' = Append(ptr_free, slot)
      /\ ptr_data' = [ptr_data EXCEPT ![slot].id = NoId]
      /\ cnt_data' = n
  BY DEF RemoveHeld
<1>4. /\ Live' = Live \ {o}
      /\ \A x \in Live' : idof'[x] = idof[x] /\ x \in Live /\ x # o
  BY DEF Forget, Live
<1>5. Owners' /\ Serial'
  BY <1>4 DEF StockInv, Owners, Serial, Spaced, SeedOf, Ids, NoId
<1>6. /\ ptr_data' \in [0..(n - 1) -> [id : Ids \cup {NoId}, body : Objects]]
      /\ ptr_data'[slot].id = NoId
      /\ \A s \in 0..(n - 1) : s # slot => ptr_data'[s] = ptr_data[s]
  <2>1. ptr_data \in [0..(n - 1) -> [id : Ids \cup {NoId}, body : Objects]]
    BY DEF StockInv, Table, TableTyped
  <2> HIDE DEF slot
  <2> QED BY <1>2, <1>3, <2>1
<1>7. /\ ptr_free' \in Seq(0..(n - 1)) /\ Len(ptr_free') = Len(ptr_free) + 1
      /\ \A i \in 1..Len(ptr_free) : ptr_free'[i] = ptr_free[i]
      /\ ptr_free'[Len(ptr_free) + 1] = slot
  <2> HIDE DEF slot
  <2> QED BY <1>0, <1>2, <1>3, AppendProperties
<1> HIDE DEF slot
<1>8. TableTyped(cnt_data, ptr_data, ptr_free)'
  BY <1>0, <1>3, <1>6, <1>7 DEF TableTyped, Ids, NoId
<1>9. TableFree(cnt_data, ptr_data, ptr_free)'
  <2>0. Len(ptr_free) \in Nat
    BY <1>0
  <2>1. \A i \in 1..Len(ptr_free) : ptr_free[i] # slot /\ ptr_data[ptr_free[i]].id = NoId
    BY <1>1, <1>2 DEF StockInv, Table, TableFree
  <2>2. \A i \in 1..Len(ptr_free') : i \in 1..Len(ptr_free) \/ i = Len(ptr_free) + 1
    BY <1>7, <2>0
  <2>3. \A i, j \in 1..Len(ptr_free') : ptr_free'[i] = ptr_free'[j] => i = j
    <3>1. \A i, j \in 1..Len(ptr_free) : ptr_free[i] = ptr_free[j] => i = j
      BY DEF StockInv, Table, TableFree
    <3> QED BY <1>7, <2>1, <2>2, <3>1
  <2>4. \A i \in 1..Len(ptr_free') : ptr_data'[ptr_free'[i]].id = NoId
    <3> SUFFICES ASSUME NEW i \in 1..Len(ptr_free')
                 PROVE  ptr_data'[ptr_free'[i]].id = NoId
      OBVIOUS
    <3>1. CASE i \in 1..Len(ptr_free)
      <4>1. ptr_free'[i] = ptr_free[i] /\ ptr_free[i] \in 0..(n - 1)
        BY <1>0, <1>7, <3>1
      <4> QED BY <1>6, <2>1, <3>1, <4>1
    <3>2. CASE i = Len(ptr_free) + 1
      BY <1>6, <1>7, <3>2
    <3> QED BY <2>2, <3>1, <3>2
  <2>5. ASSUME NEW s \in 0..(n - 1), ptr_data'[s].id = NoId
        PROVE  \E i \in 1..Len(ptr_free') : ptr_free'[i] = s
    <3>1. CASE s = slot
      BY <1>7, <2>0, <3>1
    <3>2. CASE s # slot
      <4>1. PICK i \in 1..Len(ptr_free) : ptr_free[i] = s
        BY <1>6, <2>5, <3>2 DEF StockInv, Table, TableFree
      <4> QED BY <1>7, <2>0, <4>1
    <3> QED BY <3>1, <3>2
  <2> QED BY <1>3, <2>3, <2>4, <2>5 DEF TableFree, NoId
<1>10. TableKept(cnt_data, ptr_data)'
  <2> SUFFICES ASSUME NEW s \in 0..(n - 1), ptr_data'[s].id # NoId
               PROVE  /\ SlotOf(ptr_data'[s].id) = s
                      /\ ptr_data'[s].body \in Live'
                      /\ idof'[ptr_data'[s].body] = ptr_data'[s].id
    BY <1>3 DEF TableKept, SlotOf, NoId
  <2>1. s # slot /\ ptr_data'[s] = ptr_data[s]
    BY <1>6
  <2>2. /\ SlotOf(ptr_data[s].id) = s /\ ptr_data[s].body \in Live
        /\ idof[ptr_data[s].body] = ptr_data[s].id
    BY <2>1 DEF StockInv, Table, TableKept
  <2>3. ptr_data[s].body # o
    BY <2>1, <2>2 DEF slot
  <2> QED BY <1>4, <2>1, <2>2, <2>3
<1>11. TableFound(cnt_data, ptr_data)'
  <2> SUFFICES ASSUME NEW x \in Live', idof'[x] # NoId
               PROVE  /\ SlotOf(idof'[x]) \in 0..(n - 1)
                      /\ ptr_data'[SlotOf(idof'[x])].id = idof'[x]
                      /\ ptr_data'[SlotOf(idof'[x])].body = x
    BY <1>3 DEF TableFound, SlotOf, NoId
  <2>1. /\ x # o /\ idof'[x] = idof[x] /\ SlotOf(idof[x]) \in 0..(n - 1)
        /\ ptr_data[SlotOf(idof[x])].id = idof[x]
        /\ ptr_data[SlotOf(idof[x])].body = x
    BY <1>4 DEF StockInv, Table, TableFound
  <2>2. SlotOf(idof[x]) # slot
    BY <1>2, <2>1
  <2> QED BY <1>6, <2>1, <2>2
<1> QED BY <1>5, <1>8, <1>9, <1>10, <1>11 DEF StockInv, Table

LEMMA RemoveUnheldOK ==
  ASSUME StockInv, NEW o \in Live,
         RemoveUnheld(o), Forget(o), UNCHANGED <<cnt_data, idx_seed, issued>>
  PROVE  StockInv'
<1>1. idof[o] = NoId
  BY DEF StockInv, Table, TableTyped, TableFound, RemoveUnheld, Holds
<1>2. /\ UNCHANGED <<cnt_data, ptr_data, ptr_free, idx_seed, issued>>
      /\ Live' = Live \ {o}
      /\ \A x \in Live' : idof'[x] = idof[x] /\ x \in Live /\ x # o
  BY DEF RemoveUnheld, Forget, Live
<1>3. Owners' /\ Serial'
  BY <1>2 DEF StockInv, Owners, Serial, Spaced, SeedOf, Ids, NoId
<1>4. TableTyped(cnt_data, ptr_data, ptr_free)' /\ TableFree(cnt_data, ptr_data, ptr_free)'
  BY <1>2 DEF StockInv, Table, TableTyped, TableFree, Ids, NoId
<1>5. TableKept(cnt_data, ptr_data)'
  BY <1>1, <1>2 DEF StockInv, Table, TableKept, SlotOf, NoId
<1>6. TableFound(cnt_data, ptr_data)'
  BY <1>2 DEF StockInv, Table, TableFound, SlotOf, NoId
<1> QED BY <1>3, <1>4, <1>5, <1>6 DEF StockInv, Table

\* A step on a table that is intact, and is so after it.
LEMMA StockStep ==
  ASSUME Intact, Intact', StockInv, [StockNext]_stockVars
  PROVE  StockInv'
<1> USE DEF Intact
<1>1. ASSUME NEW o \in Objects, Construct(o) PROVE StockInv'
  <2>1. o \in Objects \ Live /\ ~AddWrecked(o)
    BY <1>1 DEF Construct, AddWrecked
  <2>2. cnt_data < SlotSpan /\ cnt_data' < SlotSpan
    BY DEF Intact
  <2> QED BY <1>1, <2>1, <2>2, AddReuseOK, AddGrowOK, AddFailsOK DEF Construct
<1>2. ASSUME NEW o \in Objects, Destruct(o) PROVE StockInv'
  <2>1. /\ o \in Live /\ Forget(o) /\ UNCHANGED <<cnt_data, idx_seed, issued>>
        /\ cnt_data < SlotSpan /\ (RemoveHeld(o) \/ RemoveUnheld(o))
    BY <1>2 DEF Destruct
  <2> QED BY <2>1, RemoveHeldOK, RemoveUnheldOK
<1>3. CASE UNCHANGED stockVars
  BY <1>3 DEF stockVars, StockInv, Table, TableTyped, TableFree, TableKept,
              TableFound, Owners, Serial, Spaced, SeedOf, SlotOf, Ids, NoId, Live
<1> QED BY <1>1, <1>2, <1>3 DEF StockNext

\* What is lost stays lost: the table does not shrink, and a pointer that
\* dangles is never set again.
IInv == cnt_data \in Nat /\ (Intact => StockInv)

LEMMA IntactBefore ==
  ASSUME cnt_data \in Nat, [StockNext]_stockVars
  PROVE  cnt_data' \in Nat /\ (Intact' => Intact)
<1> DEFINE OneStep == /\ cnt_data' = cnt_data \/ cnt_data' = cnt_data + PageSize
                      /\ dangling' = {} => dangling = {}
<1>0. PageSize \in Nat /\ SlotSpan \in Nat
  BY StockAssumption
<1>1. OneStep
  <2>1. ASSUME NEW o \in Objects, Construct(o) PROVE  OneStep
    <3>1. CASE AddReuse(o)
      BY <3>1 DEF AddReuse
    <3>2. CASE AddGrow(o)
      BY <3>2 DEF AddGrow
    <3>3. CASE AddFails(o)
      BY <3>3 DEF AddFails
    <3>4. CASE AddWrecked(o)
      BY <3>4 DEF AddWrecked
    <3> QED BY <2>1, <3>1, <3>2, <3>3, <3>4 DEF Construct
  <2>2. ASSUME NEW o \in Objects, Destruct(o) PROVE  OneStep
    BY <2>2 DEF Destruct
  <2>3. CASE UNCHANGED stockVars
    BY <2>3 DEF stockVars
  <2> QED BY <2>1, <2>2, <2>3 DEF StockNext
<1> QED BY <1>0, <1>1 DEF Intact

LEMMA IInvStep == IInv /\ [StockNext]_stockVars => IInv'
BY IntactBefore, StockStep DEF IInv

LEMMA IInvInit == StockInit => IInv
BY StockInitInv DEF StockInit, IInv

-----------------------------------------------------------------------------
LEMMA InvType == ASSUME StockInv PROVE StockTypeOK
BY StockAssumption
DEF StockInv, Table, TableTyped, Owners, Serial, StockTypeOK, Slots

LEMMA InvFree == ASSUME StockInv PROVE FreeListExact
<1>1. \A i \in 1..Len(ptr_free) : ptr_free[i] \in Slots
  BY DEF StockInv, Table, TableTyped, Slots
<1> QED BY <1>1 DEF StockInv, Table, TableFree, FreeListExact, Slots

LEMMA InvResolve == ASSUME StockInv PROVE LiveIdsResolve /\ NoStaleObject
<1>1. cnt_data \in Nat
  BY StockAssumption DEF StockInv, Table, TableTyped
<1>2. LiveIdsResolve
  BY <1>1 DEF StockInv, Table, TableFound, LiveIdsResolve, Holds, Get
<1>3. NoStaleObject
  BY DEF StockInv, Table, TableKept, NoStaleObject, Slots
<1> QED BY <1>2, <1>3

LEMMA InvReuse == ASSUME StockInv PROVE NoEarlyReuse
<1> SUFFICES ASSUME NEW i \in 1..Len(issued), NEW j \in 1..Len(issued),
                    i < j, issued[i] = issued[j], j - i < SeedCount
             PROVE  FALSE
  BY StockAssumption DEF NoEarlyReuse, StockInv, Serial
<1>1. SeedOf(issued[i]) \in 0..(SeedCount - 1)
  BY IdParts DEF StockInv, Serial
<1>2. SeedOf(issued[j]) - SeedOf(issued[i]) \in {j - i, j - i - SeedCount}
  BY DEF StockInv, Serial, Spaced
<1>3. SeedOf(issued[j]) - SeedOf(issued[i]) = 0
  BY <1>1
<1> QED BY <1>2, <1>3, StockAssumption

LEMMA IInvCorrect ==
  IInv => /\ StockTypeOK /\ FreeListExact /\ LiveIdsResolve
          /\ NoStaleObject /\ NoEarlyReuse
<1>1. CASE Intact
  BY <1>1, InvType, InvFree, InvResolve, InvReuse DEF IInv
<1>2. CASE ~Intact
  BY <1>2 DEF StockTypeOK, FreeListExact, LiveIdsResolve, NoStaleObject, NoEarlyReuse
<1> QED BY <1>1, <1>2

\* stock.h is a correct table as long as it is intact, whatever was added,
\* removed and refused before: no slot leaks or serves two objects, a live
\* object is found by the identifier it keeps, no identifier reaches an object
\* that is gone, and an identifier does not return before all the serial
\* numbers have been used.
THEOREM StockCorrect ==
  StockSpec => [](/\ StockTypeOK /\ FreeListExact /\ LiveIdsResolve
                  /\ NoStaleObject /\ NoEarlyReuse)
BY IInvStep, IInvInit, IInvCorrect, PTL DEF StockSpec

\* However slots are added, dropped and added again, each is either on the
\* stack of unused slots, once, or holds one live object, as long as the table
\* is intact.
THEOREM SlotsNeverLeak == StockSpec => []FreeListExact
BY StockCorrect, PTL

\* An identifier comes back only after the serial numbers have gone round.
THEOREM IdsReusedLate == StockSpec => []NoEarlyReuse
BY StockCorrect, PTL
-----------------------------------------------------------------------------
\* The pairs the abstract table holds.
Pairs == {<<ptr_data[s].id, ptr_data[s].body>> :
            s \in {x \in Slots : ptr_data[x].id # NoId}}

\* ... are the live objects that have an identifier, with it.
Kept == {<<idof[o], o>> : o \in {x \in Live : idof[x] # NoId}}

PairsKept == Pairs = Kept

LEMMA PairsAreKept == StockInv => PairsKept
<1> SUFFICES ASSUME StockInv PROVE Pairs = Kept
  BY DEF PairsKept
<1> USE DEF Kept
<1>1. ASSUME NEW p \in Pairs PROVE p \in Kept
  <2>1. PICK s \in Slots : ptr_data[s].id # NoId /\ p = <<ptr_data[s].id, ptr_data[s].body>>
    BY <1>1 DEF Pairs
  <2>2. ptr_data[s].body \in Live /\ idof[ptr_data[s].body] = ptr_data[s].id
    BY <2>1 DEF StockInv, Table, TableKept, Slots
  <2> QED BY <2>1, <2>2
<1>2. ASSUME NEW o \in Live, idof[o] # NoId PROVE <<idof[o], o>> \in Pairs
  <2>1. /\ SlotOf(idof[o]) \in Slots
        /\ ptr_data[SlotOf(idof[o])].id = idof[o]
        /\ ptr_data[SlotOf(idof[o])].body = o
    BY <1>2 DEF StockInv, Table, TableFound, Slots
  <2> QED BY <1>2, <2>1 DEF Pairs
<1> QED BY <1>1, <1>2

\* What the two kinds of add() do to the owners.
LEMMA AddEffect ==
  ASSUME Intact', StockInv, NEW o \in Objects \ Live,
         AddReuse(o) \/ AddGrow(o)
  PROVE  \E id \in Ids :
           idof' = [x \in Live \cup {o} |-> IF x = o THEN id ELSE idof[x]]
<1>0. Serial /\ cnt_data \in Nat /\ PageSize \in Nat \ {0} /\ SlotSpan \in Nat
      /\ cnt_data' < SlotSpan /\ ptr_free \in Seq(0..(cnt_data - 1))
  BY StockAssumption DEF Intact, StockInv, Table, TableTyped
<1>1. CASE AddReuse(o)
  <2>1. ptr_free # <<>> /\ Last(ptr_free) \in 0..(SlotSpan - 1)
    BY <1>0, <1>1 DEF AddReuse, Last
  <2> QED BY <1>0, <1>1, <2>1, MakeIdOK DEF AddReuse, Place, Keep
<1>2. CASE AddGrow(o)
  <2>1. Last(NewPage) = cnt_data + PageSize - 1
    BY <1>0 DEF NewPage, Last
  <2>2. Last(NewPage) \in 0..(SlotSpan - 1)
    BY <1>0, <1>2, <2>1 DEF AddGrow
  <2> QED BY <1>0, <1>2, <2>2, MakeIdOK DEF AddGrow, Place, Keep
<1> QED BY <1>1, <1>2

\* No two live objects keep the same identifier.
DistinctIds ==
  \A x, y \in Live : idof[x] = idof[y] /\ idof[x] # NoId => x = y

LEMMA IdsDistinct == StockInv => DistinctIds
BY DEF StockInv, Table, TableFound, DistinctIds

LEMMA StockStepRefines ==
  ASSUME Intact, Intact', StockInv, PairsKept, PairsKept', DistinctIds',
         [StockNext]_stockVars
  PROVE  (\E o \in Objects : Map!Store(o) \/ Map!Discard(o)) \/ UNCHANGED Pairs
<1>0. Pairs = Kept /\ Pairs' = Kept'
  BY DEF PairsKept
<1> SUFFICES (\E o \in Objects : Map!Store(o) \/ Map!Discard(o)) \/ Kept' = Kept
  BY <1>0
<1>1. ASSUME NEW o \in Objects \ Live, AddReuse(o) \/ AddGrow(o)
      PROVE  Map!Store(o)
  <2>1. PICK id \in Ids :
          idof' = [x \in Live \cup {o} |-> IF x = o THEN id ELSE idof[x]]
    BY <1>1, AddEffect
  <2>2. /\ Live' = Live \cup {o} /\ idof'[o] = id /\ id # NoId
        /\ \A x \in Live : idof'[x] = idof[x] /\ x # o
    BY <2>1, StockAssumption DEF Live, Ids, NoId
  <2>3. Kept' = Kept \cup {<<id, o>>}
    <3>1. ASSUME NEW p \in Kept' PROVE p \in Kept \cup {<<id, o>>}
      <4>1. PICK x \in Live' : idof'[x] # NoId /\ p = <<idof'[x], x>>
        BY <3>1 DEF Kept, NoId
      <4>2. CASE x = o
        BY <2>2, <4>1, <4>2
      <4>3. CASE x # o
        BY <2>2, <4>1, <4>3 DEF Kept
      <4> QED BY <4>2, <4>3
    <3>2. <<id, o>> \in Kept'
      BY <2>2 DEF Kept, NoId
    <3>3. ASSUME NEW p \in Kept PROVE p \in Kept'
      <4>1. PICK x \in Live : idof[x] # NoId /\ p = <<idof[x], x>>
        BY <3>3 DEF Kept
      <4>2. x \in Live' /\ idof'[x] # NoId /\ p = <<idof'[x], x>>
        BY <2>2, <4>1
      <4> QED BY <4>2 DEF Kept, NoId
    <3> QED BY <3>1, <3>2, <3>3
  <2>4. \A p \in Kept : p[1] # id
    <3> SUFFICES ASSUME NEW x \in Live, idof[x] = id PROVE FALSE
      BY DEF Kept
    <3>1. x \in Live' /\ o \in Live' /\ x # o /\ idof'[x] = idof'[o] /\ idof'[x] # NoId
      BY <2>2
    <3> QED BY <3>1 DEF DistinctIds, NoId
  <2> QED BY <1>0, <2>3, <2>4 DEF Map!Store, Pairs
<1>2. ASSUME NEW o \in Objects \ Live, AddFails(o) PROVE Kept' = Kept
  <2>1. /\ UNCHANGED <<cnt_data, ptr_data>>
    BY <1>2 DEF AddFails
  <2>2. Pairs' = Pairs
    BY <2>1 DEF Pairs, Slots, NoId
  <2> QED BY <1>0, <2>2
<1>3. ASSUME NEW o \in Objects \cap Live, RemoveHeld(o), Forget(o)
      PROVE  Map!Discard(o)
  <2>1. idof[o] # NoId
    BY <1>3, NoIdNotHeld DEF RemoveHeld, Intact
  <2>2. idof[o] \in Ids
    BY <2>1 DEF StockInv, Owners
  <2>3. <<idof[o], o>> \in Kept
    BY <2>1 DEF Kept
  <2>4. /\ Live' = Live \ {o}
        /\ \A x \in Live' : idof'[x] = idof[x]
    BY <1>3 DEF Forget, Live
  <2>5. Kept' = Kept \ {<<idof[o], o>>}
    <3>1. ASSUME NEW p \in Kept' PROVE p \in Kept /\ p # <<idof[o], o>>
      <4>1. PICK x \in Live' : idof'[x] # NoId /\ p = <<idof'[x], x>>
        BY <3>1 DEF Kept, NoId
      <4> QED BY <2>4, <4>1 DEF Kept
    <3>2. ASSUME NEW p \in Kept, p # <<idof[o], o>> PROVE p \in Kept'
      <4>1. PICK x \in Live : idof[x] # NoId /\ p = <<idof[x], x>>
        BY <3>2 DEF Kept
      <4>2. x \in Live' /\ idof'[x] # NoId /\ p = <<idof'[x], x>>
        BY <2>4, <3>2, <4>1
      <4> QED BY <4>2 DEF Kept, NoId
    <3> QED BY <3>1, <3>2
  <2> QED BY <1>0, <2>2, <2>3, <2>5 DEF Map!Discard, Pairs
<1>4. ASSUME NEW o \in Objects, RemoveUnheld(o), UNCHANGED cnt_data PROVE Kept' = Kept
  <2>1. Pairs' = Pairs
    BY <1>4 DEF RemoveUnheld, Pairs, Slots, NoId
  <2> QED BY <1>0, <2>1
<1>5. CASE UNCHANGED stockVars
  BY <1>5 DEF stockVars, Kept, Live, NoId
<1>6. ASSUME NEW o \in Objects, Construct(o)
      PROVE  Map!Store(o) \/ Kept' = Kept
  BY <1>1, <1>2, <1>6 DEF Construct, AddWrecked, Intact
<1>7. ASSUME NEW o \in Objects, Destruct(o)
      PROVE  Map!Discard(o) \/ Kept' = Kept
  BY <1>3, <1>4, <1>7 DEF Destruct, Intact
<1> QED BY <1>5, <1>6, <1>7 DEF StockNext

\* The same of any step: one after which the table is not intact loses it.
LEMMA IInvStepRefines ==
  ASSUME IInv, IInv', [StockNext]_stockVars
  PROVE  [Map!Next]_(Map!vars)
<1>1. CASE ~Intact'
  BY <1>1 DEF Map!Next, Map!Lose
<1>2. CASE Intact'
  <2>1. Intact
    BY <1>2, IntactBefore DEF IInv
  <2>2. StockInv /\ StockInv'
    BY <1>2, <2>1 DEF IInv
  <2>3. PairsKept /\ PairsKept' /\ DistinctIds'
    BY <2>2, PairsAreKept, IdsDistinct, PTL
  <2>4. (\E o \in Objects : Map!Store(o) \/ Map!Discard(o)) \/ UNCHANGED Pairs
    BY <1>2, <2>1, <2>2, <2>3, StockStepRefines
  <2>5. CASE \E o \in Objects : Map!Store(o) \/ Map!Discard(o)
    BY <1>2, <2>1, <2>5 DEF Map!Next
  <2>6. CASE UNCHANGED Pairs
    BY <1>2, <2>1, <2>6 DEF Map!vars, Pairs
  <2> QED BY <2>4, <2>5, <2>6
<1> QED BY <1>1, <1>2

\* stock.h implements an identifier table that can be lost: pages, the stack of
\* unused slots and the reuse of slots never show in which identifier leads to
\* which object, nor does growth that fails as a whole.
THEOREM StockImplementsIdMap == StockSpec => ImplementsIdMap
<1>1. StockInit => Map!Init
  BY StockAssumption DEF StockInit, Map!Init, Slots, Intact
<1>2. IInv /\ IInv' /\ [StockNext]_stockVars => [Map!Next]_(Map!vars)
  BY IInvStepRefines
<1> QED BY <1>1, <1>2, IInvStep, IInvInit, PTL DEF StockSpec, ImplementsIdMap, Map!Spec
-----------------------------------------------------------------------------
(* Lists.                                                                  *)

Cell == Entries \cup {Junk}

\* An array holds at least what it is said to.
ListInv ==
  /\ data \in Seq(Cell) /\ used \in 0 .. Len(data)
  /\ cdata \in Seq(Cell) /\ cused \in 0 .. Len(cdata)

LEMMA ListInitInv == ListInit => ListInv
BY DEF ListInit, ListInv

\* The first n cells of an array, as a sequence.
LEMMA FirstCells ==
  ASSUME NEW d \in Seq(Cell), NEW n \in 0 .. Len(d)
  PROVE  /\ SubSeq(d, 1, n) \in Seq(Cell) /\ Len(SubSeq(d, 1, n)) = n
         /\ \A i \in 1 .. n : SubSeq(d, 1, n)[i] = d[i]
<1>1. n \in Int /\ 1 \in Int /\ \A i \in 1 .. n : d[i] \in Cell
  OBVIOUS
<1>2. /\ SubSeq(d, 1, n) \in Seq(Cell)
      /\ Len(SubSeq(d, 1, n)) = IF 1 <= n THEN n - 1 + 1 ELSE 0
      /\ \A i \in 1 .. n - 1 + 1 : SubSeq(d, 1, n)[i] = d[1 + i - 1]
  BY <1>1, SubSeqProperties
<1> QED BY <1>2

\* push_back() appends, whether or not the array grows for it.
LEMMA PushAppends ==
  ASSUME ListInv, NEW x \in Entries, PushBack(x)
  PROVE  /\ data' \in Seq(Cell) /\ used' \in 0 .. Len(data')
         /\ SubSeq(data', 1, used') = Append(SubSeq(data, 1, used), x)
<1> USE DEF ListInv
<1> DEFINE more == IF used < Len(data) THEN 0 ELSE PageOf(Len(data))
           n == Len(data) + more
<1>1. more \in Nat /\ used + 1 <= n /\ n \in Nat
  BY ListAssumption DEF PageOf
<1> HIDE DEF more
<1>2. data' = [i \in 1 .. n |->
                 IF i = used + 1 THEN x ELSE IF i <= Len(data) THEN data[i] ELSE Junk]
  BY DEF PushBack, more
<1>3. used' = used + 1
  BY DEF PushBack
<1> HIDE DEF n
<1>4. data' \in Seq(Cell) /\ Len(data') = n
  <2>1. data' \in [1 .. n -> Cell]
    BY <1>1, <1>2 DEF Cell
  <2> QED BY <1>1, <2>1
<1>5. used' \in 0 .. Len(data')
  BY <1>1, <1>3, <1>4
<1> DEFINE a == SubSeq(data', 1, used')
           c == SubSeq(data, 1, used)
           b == Append(c, x)
<1>6. a \in Seq(Cell) /\ Len(a) = used + 1 /\ \A i \in 1 .. used + 1 : a[i] = data'[i]
  BY <1>3, <1>4, <1>5, FirstCells
<1>7. c \in Seq(Cell) /\ Len(c) = used /\ \A i \in 1 .. used : c[i] = data[i]
  BY FirstCells
<1> HIDE DEF a, c
<1>8. /\ b \in Seq(Cell) /\ Len(b) = used + 1
      /\ \A i \in 1 .. used + 1 : b[i] = IF i = used + 1 THEN x ELSE c[i]
  BY <1>7 DEF Cell
<1>9. \A i \in 1 .. used + 1 : a[i] = b[i]
  <2> SUFFICES ASSUME NEW i \in 1 .. used + 1 PROVE a[i] = b[i]
    OBVIOUS
  <2>1. i \in 1 .. n /\ used <= Len(data) /\ i \in Nat
    BY <1>1
  <2>2. data'[i] = IF i = used + 1 THEN x ELSE IF i <= Len(data) THEN data[i] ELSE Junk
    BY <1>2, <2>1
  <2> QED BY <2>1, <2>2, <1>6, <1>7, <1>8
<1>10. a = b
  <2> HIDE DEF b
  <2> QED BY <1>6, <1>8, <1>9, SeqEqual
<1> QED BY <1>4, <1>5, <1>10 DEF a, c

\* A sequence that is cut at i.
LEMMA CutOne ==
  ASSUME NEW c \in Seq(Cell), NEW i \in 1 .. Len(c)
  PROVE  LET w == SubSeq(c, 1, i - 1) \o SubSeq(c, i + 1, Len(c)) IN
         /\ w \in Seq(Cell) /\ Len(w) = Len(c) - 1
         /\ \A j \in 1 .. Len(c) - 1 : w[j] = IF j < i THEN c[j] ELSE c[j + 1]
<1> DEFINE n == Len(c)
           l == SubSeq(c, 1, i - 1)
           r == SubSeq(c, i + 1, n)
           w == l \o r
<1>0. n \in Nat /\ i \in 1 .. n
  OBVIOUS
<1>1. l \in Seq(Cell) /\ Len(l) = i - 1 /\ \A j \in 1 .. i - 1 : l[j] = c[j]
  BY FirstCells, <1>0
<1>2. r \in Seq(Cell) /\ Len(r) = n - i /\ \A j \in 1 .. n - i : r[j] = c[i + j]
  <2>1. i + 1 \in Int /\ n \in Int /\ \A j \in i + 1 .. n : c[j] \in Cell
    BY <1>0
  <2>2. /\ r \in Seq(Cell) /\ Len(r) = IF i + 1 <= n THEN n - (i + 1) + 1 ELSE 0
        /\ \A j \in 1 .. n - (i + 1) + 1 : r[j] = c[i + 1 + j - 1]
    BY <2>1, SubSeqProperties
  <2> HIDE DEF r
  <2>3. \A j \in 1 .. n - i : r[j] = c[i + j]
    <3> SUFFICES ASSUME NEW j \in 1 .. n - i PROVE r[j] = c[i + j]
      OBVIOUS
    <3>1. j \in 1 .. n - (i + 1) + 1 /\ i + 1 + j - 1 = i + j
      BY <1>0
    <3> QED BY <2>2, <3>1
  <2> QED BY <1>0, <2>2, <2>3
<1> HIDE DEF l, r, n
<1>3. /\ w \in Seq(Cell) /\ Len(w) = Len(l) + Len(r)
      /\ \A j \in 1 .. Len(l) + Len(r) : w[j] = IF j <= Len(l) THEN l[j] ELSE r[j - Len(l)]
  BY <1>1, <1>2, ConcatProperties
<1> HIDE DEF w
<1>4. Len(w) = n - 1
  BY <1>0, <1>1, <1>2, <1>3
<1>5. ASSUME NEW j \in 1 .. n - 1 PROVE w[j] = IF j < i THEN c[j] ELSE c[j + 1]
  <2>0. w[j] = IF j <= i - 1 THEN l[j] ELSE r[j - (i - 1)]
    BY <1>0, <1>1, <1>2, <1>3
  <2>1. CASE j < i
    BY <1>0, <1>1, <2>0, <2>1
  <2>2. CASE ~(j < i)
    <3>1. j - (i - 1) \in 1 .. n - i /\ i + (j - (i - 1)) = j + 1
      BY <1>0, <2>2
    <3> QED BY <1>0, <1>2, <2>0, <2>2, <3>1
  <2> QED BY <2>1, <2>2
<1> QED BY <1>3, <1>4, <1>5 DEF l, r, n, w

\* A removal that keeps the entries before the hole, and fills the cells from
\* it on with entries from behind them, in order if memcpy() copies upwards.
LEMMA CutShows ==
  ASSUME ListInv, NEW i \in 1 .. used, data' \in Seq(Cell), Len(data') = Len(data),
         used' = used - 1, gone' = data[i], UNCHANGED <<cdata, cused, upward>>,
         \A j \in 1 .. used - 1 :
           IF j < i THEN data'[j] = data[j]
           ELSE \E k \in j + 1 .. used : data'[j] = data[k],
         upward => \A j \in 1 .. used - 1 : ~(j < i) => data'[j] = data[j + 1]
  PROVE  ListInv' /\ Sequence!Next
<1> USE DEF ListInv
<1> DEFINE c == SubSeq(data, 1, used)
           d == SubSeq(data', 1, used')
           w == SubSeq(c, 1, i - 1) \o SubSeq(c, i + 1, Len(c))
           MovedDown(s) == \A j \in DOMAIN s :
                             IF j < i THEN s[j] = c[j]
                             ELSE \E k \in j + 1 .. Len(c) : s[j] = c[k]
           some == {s \in [1 .. Len(c) - 1 -> {c[j] : j \in 1 .. Len(c)}] : MovedDown(s)}
<1>0. used \in Nat /\ used >= 1 /\ used <= Len(data) /\ Len(data) \in Nat
  OBVIOUS
<1>1. c \in Seq(Cell) /\ Len(c) = used /\ \A j \in 1 .. used : c[j] = data[j]
  BY FirstCells
<1>2. used' \in 0 .. Len(data')
  BY <1>0
<1>3. d \in Seq(Cell) /\ Len(d) = used - 1 /\ \A j \in 1 .. used - 1 : d[j] = data'[j]
  BY <1>2, FirstCells
<1> HIDE DEF c, d
<1>4. i \in 1 .. Len(c)
  BY <1>1
<1>5. ASSUME upward PROVE d \in Sequence!Left(i)
  <2>1. /\ w \in Seq(Cell) /\ Len(w) = used - 1
        /\ \A j \in 1 .. used - 1 : w[j] = IF j < i THEN c[j] ELSE c[j + 1]
    BY <1>1, <1>4, CutOne
  <2> HIDE DEF w
  <2>2. \A j \in 1 .. used - 1 : d[j] = w[j]
    <3> SUFFICES ASSUME NEW j \in 1 .. used - 1 PROVE d[j] = w[j]
      OBVIOUS
    <3>1. j \in 1 .. used /\ j + 1 \in 1 .. used
      BY <1>0
    <3>2. data'[j] = IF j < i THEN data[j] ELSE data[j + 1]
      BY <1>5
    <3> QED BY <1>1, <1>3, <2>1, <3>1, <3>2
  <2>3. d = w
    BY <1>3, <2>1, <2>2, SeqEqual
  <2>4. d \in Sequence!Left(i)
    BY <1>5, <2>3 DEF Sequence!Left, Sequence!Without, c, w
  <2> QED BY <2>4
<1>6. ASSUME ~upward PROVE d \in Sequence!Left(i)
  <2>1. DOMAIN d = 1 .. used - 1 /\ DOMAIN c = 1 .. used
    BY <1>1, <1>3
  <2>2. ASSUME NEW j \in DOMAIN d
        PROVE  /\ IF j < i THEN d[j] = c[j] ELSE \E k \in j + 1 .. Len(c) : d[j] = c[k]
               /\ \E k \in 1 .. Len(c) : d[j] = c[k]
    <3>1. j \in 1 .. used - 1 /\ j \in 1 .. used /\ d[j] = data'[j] /\ c[j] = data[j]
      BY <1>0, <1>1, <1>3, <2>1
    <3>2. CASE j < i
      BY <1>1, <3>1, <3>2
    <3>3. CASE ~(j < i)
      <4>1. PICK k \in j + 1 .. used : data'[j] = data[k]
        BY <3>1, <3>3
      <4>2. k \in 1 .. Len(c) /\ k \in j + 1 .. Len(c) /\ d[j] = c[k]
        BY <1>0, <1>1, <3>1, <4>1
      <4> QED BY <3>3, <4>2
    <3> QED BY <3>2, <3>3
  <2>3. d \in [1 .. Len(c) - 1 -> {c[j] : j \in 1 .. Len(c)}]
    <3>1. \A j \in DOMAIN d : d[j] \in {c[k] : k \in 1 .. Len(c)}
      BY <2>2
    <3>2. DOMAIN d = 1 .. Len(c) - 1 /\ d = [j \in DOMAIN d |-> d[j]]
      BY <1>1, <1>3, <2>1
    <3> QED BY <3>1, <3>2
  <2>4. MovedDown(d)
    BY <2>2
  <2> HIDE DEF MovedDown
  <2>5. d \in some
    BY <2>3, <2>4
  <2>6. Sequence!Left(i) = some
    BY <1>6 DEF Sequence!Left, c, some, MovedDown
  <2> HIDE DEF some
  <2> QED BY <2>5, <2>6
<1>7. d \in Sequence!Left(i)
  BY <1>5, <1>6
<1>8. Sequence!Cut(i)
  BY <1>1, <1>7 DEF Sequence!Cut, c, d
<1>9. i \in 1 .. Len(SubSeq(data, 1, used))
  BY <1>4 DEF c
<1>10. ListInv'
  BY <1>2
<1> QED BY <1>8, <1>9, <1>10 DEF Sequence!Next

\* remove(): what was last now stands where the removed one did.
LEMMA RemoveShows ==
  ASSUME ListInv, NEW x \in Entries, Remove(x)
  PROVE  ListInv' /\ Sequence!Next
<1> USE DEF ListInv
<1> DEFINE First(k) == data[k] = x /\ x \notin Cells(data, k - 1)
           i == CHOOSE k \in 1 .. used : First(k)
           c == SubSeq(data, 1, used)
           d == SubSeq(data', 1, used')
           r == [j \in 1 .. Len(c) - 1 |-> IF j = i THEN c[Len(c)] ELSE c[j]]
<1>0. used \in Nat /\ used <= Len(data) /\ Len(data) \in Nat
  OBVIOUS
<1>1. i \in 1 .. used /\ data[i] = x
  <2> DEFINE There == {k \in 1 .. used : data[k] = x}
  <2>1. There # {} /\ There \subseteq Nat
    BY DEF Remove, Cells
  <2>2. PICK k \in There : \A m \in There : k <= m
    BY <2>1, LeastElement
  <2>3. First(k) /\ k \in 1 .. used
    <3>1. ASSUME NEW m \in 1 .. k - 1, data[m] = x PROVE FALSE
      BY <1>0, <2>2, <3>1
    <3> QED BY <2>2, <3>1 DEF Cells
  <2> QED BY <2>3
<1>2. /\ data' = [data EXCEPT ![i] = data[used]] /\ used' = used - 1 /\ gone' = x
      /\ UNCHANGED <<cdata, cused, upward>>
  BY DEF Remove
<1> HIDE DEF i
<1>3. data' \in Seq(Cell) /\ Len(data') = Len(data)
  BY <1>0, <1>1, <1>2
<1>4. used' \in 0 .. Len(data')
  BY <1>0, <1>1, <1>2, <1>3
<1>5. c \in Seq(Cell) /\ Len(c) = used /\ \A j \in 1 .. used : c[j] = data[j]
  BY FirstCells
<1>6. d \in Seq(Cell) /\ Len(d) = used - 1 /\ \A j \in 1 .. used - 1 : d[j] = data'[j]
  BY <1>2, <1>3, <1>4, FirstCells
<1> HIDE DEF c, d
<1>7. r \in Seq(Cell) /\ Len(r) = used - 1
  <2>1. /\ used - 1 \in Nat /\ c[Len(c)] \in Cell
        /\ \A j \in 1 .. used - 1 : c[j] \in Cell
    BY <1>0, <1>1, <1>5
  <2>2. r \in [1 .. used - 1 -> Cell]
    BY <1>5, <2>1
  <2> HIDE DEF r
  <2> QED BY <2>1, <2>2
<1>8. \A j \in 1 .. used - 1 : d[j] = r[j]
  BY <1>0, <1>1, <1>2, <1>5, <1>6
<1>9. d = r
  <2> HIDE DEF r
  <2> QED BY <1>6, <1>7, <1>8, SeqEqual
<1>10. Sequence!Replace(i) /\ i \in 1 .. Len(SubSeq(data, 1, used))
  BY <1>1, <1>2, <1>5, <1>9 DEF Sequence!Replace, c, d, r
<1> QED BY <1>2, <1>3, <1>4, <1>10 DEF Sequence!Next

\* operator = takes over the entries, and no more of the cells.
LEMMA CopyShows ==
  ASSUME ListInv, Copy \/ CopyFails
  PROVE  ListInv' /\ Sequence!Next
<1> USE DEF ListInv
<1> DEFINE c == SubSeq(data, 1, used)
           d == SubSeq(cdata', 1, cused')
<1>0. UNCHANGED <<data, used, gone, upward>> /\ <<>> \in Seq(Cell)
  BY DEF Copy, CopyFails
<1>1. ASSUME cdata' = <<>>, cused' = 0 PROVE ListInv' /\ d = <<>>
  <2>1. cdata' \in Seq(Cell) /\ Len(cdata') = 0 /\ cused' \in 0 .. Len(cdata')
    BY <1>0, <1>1
  <2>2. d \in Seq(Cell) /\ Len(d) = 0
    BY <1>1, <2>1, FirstCells
  <2> HIDE DEF d
  <2> QED BY <1>0, <2>1, <2>2
<1>2. ASSUME cused' = used,
             cdata' = [i \in DOMAIN data |-> IF i <= used THEN data[i] ELSE Junk]
      PROVE  ListInv' /\ d = c
  <2>1. cdata' \in Seq(Cell) /\ Len(cdata') = Len(data)
    BY <1>2 DEF Cell
  <2>2. cused' \in 0 .. Len(cdata')
    BY <1>2, <2>1
  <2>3. d \in Seq(Cell) /\ Len(d) = used /\ \A j \in 1 .. used : d[j] = cdata'[j]
    BY <1>2, <2>1, <2>2, FirstCells
  <2>4. c \in Seq(Cell) /\ Len(c) = used /\ \A j \in 1 .. used : c[j] = data[j]
    BY FirstCells
  <2> HIDE DEF c, d
  <2>5. ASSUME NEW j \in 1 .. used PROVE d[j] = c[j]
    <3>1. j \in DOMAIN data
      OBVIOUS
    <3>2. cdata'[j] = data[j]
      BY <1>2, <3>1
    <3> QED BY <2>3, <2>4, <3>2
  <2>6. d = c
    BY <2>3, <2>4, <2>5, SeqEqual
  <2> QED BY <1>0, <2>1, <2>2, <2>6
<1>3. ListInv' /\ d \in {c, <<>>}
  BY <1>1, <1>2 DEF Copy, CopyFails
<1>4. Sequence!Duplicate /\ UNCHANGED upward
  BY <1>0, <1>3 DEF Sequence!Duplicate
<1> QED BY <1>3, <1>4 DEF Sequence!Next

\* What memcpy() makes of the cells, in either kind of build.
LEMMA MovedDown ==
  ASSUME ListInv, NEW i \in 1 .. used, NEW d \in Moved(i)
  PROVE  /\ d \in Seq(Cell) /\ Len(d) = Len(data)
         /\ \A j \in 1 .. used - 1 :
              IF j < i THEN d[j] = data[j] ELSE \E k \in j + 1 .. used : d[j] = data[k]
         /\ upward => \A j \in 1 .. used - 1 : ~(j < i) => d[j] = data[j + 1]
<1> USE DEF ListInv
<1> DEFINE tail == i .. used - 1
<1>0. used \in Nat /\ used <= Len(data) /\ Len(data) \in Nat /\ DOMAIN data = 1 .. Len(data)
  OBVIOUS
<1>1. PICK from \in [tail -> i + 1 .. used] :
        /\ \A j \in tail : j < from[j]
        /\ upward => \A j \in tail : from[j] = j + 1
        /\ d = [j \in DOMAIN data |-> data[IF j \in tail THEN from[j] ELSE j]]
  <2>1. CASE upward
    <3> DEFINE next == [j \in tail |-> j + 1]
    <3>1. next \in [tail -> i + 1 .. used] /\ \A j \in tail : j < next[j] /\ next[j] = j + 1
      BY <1>0
    <3>2. d = [j \in DOMAIN data |-> data[IF j \in tail THEN j + 1 ELSE j]]
      BY <2>1 DEF Moved
    <3>3. d = [j \in DOMAIN data |-> data[IF j \in tail THEN next[j] ELSE j]]
      BY <3>1, <3>2
    <3> HIDE DEF next
    <3> QED BY <3>1, <3>3
  <2>2. CASE ~upward
    BY <2>2 DEF Moved
  <2> QED BY <2>1, <2>2
<1>2. ASSUME NEW j \in DOMAIN data
      PROVE  /\ d[j] = data[IF j \in tail THEN from[j] ELSE j]
             /\ (IF j \in tail THEN from[j] ELSE j) \in DOMAIN data
  BY <1>0, <1>1
<1>3. d \in [1 .. Len(data) -> Cell]
  <2>1. \A j \in DOMAIN data : data[j] \in Cell
    BY <1>0
  <2>2. \A j \in 1 .. Len(data) : d[j] \in Cell
    BY <1>0, <1>2, <2>1
  <2> QED BY <1>0, <1>1, <2>2
<1>4. d \in Seq(Cell) /\ Len(d) = Len(data)
  BY <1>0, <1>3
<1>5. ASSUME NEW j \in 1 .. used - 1
      PROVE  /\ j < i => d[j] = data[j]
             /\ ~(j < i) => (\E k \in j + 1 .. used : d[j] = data[k])
             /\ upward /\ ~(j < i) => d[j] = data[j + 1]
  <2>1. j \in DOMAIN data /\ (j \in tail <=> ~(j < i))
    BY <1>0
  <2>2. CASE j < i
    BY <1>2, <2>1, <2>2
  <2>3. CASE ~(j < i)
    <3>1. d[j] = data[from[j]] /\ from[j] \in j + 1 .. used
      BY <1>0, <1>1, <1>2, <2>1, <2>3
    <3>2. upward => from[j] = j + 1
      BY <1>1, <2>1, <2>3
    <3> QED BY <2>3, <3>1, <3>2
  <2> QED BY <2>2, <2>3
<1> QED BY <1>4, <1>5

LEMMA ListStep ==
  ASSUME ListInv, [ListNext]_listVars
  PROVE  ListInv' /\ [Sequence!Next]_(Sequence!vars)
<1> USE DEF ListInv
<1>0. used \in Nat /\ used <= Len(data) /\ Len(data) \in Nat
  OBVIOUS
<1>1. ASSUME NEW x \in Entries, PushBack(x) \/ Add(x) PROVE ListInv' /\ Sequence!Next
  <2>1. PushBack(x)
    BY <1>1 DEF Add
  <2>2. /\ data' \in Seq(Cell) /\ used' \in 0 .. Len(data')
        /\ SubSeq(data', 1, used') = Append(SubSeq(data, 1, used), x)
    BY <2>1, PushAppends
  <2>3. UNCHANGED <<cdata, cused, gone, upward>>
    BY <2>1 DEF PushBack
  <2>4. Sequence!Put(x)
    BY <2>2, <2>3 DEF Sequence!Put
  <2> QED BY <2>2, <2>3, <2>4 DEF Sequence!Next
<1>2. ASSUME NEW x \in Entries, Remove(x) PROVE ListInv' /\ Sequence!Next
  BY <1>2, RemoveShows
<1>3. ASSUME NEW i \in 1 .. MaxCells, RemoveAt(i) PROVE ListInv' /\ Sequence!Next
  <2>1. /\ i \in 1 .. used /\ gone' = data[i] /\ data' \in Moved(i)
        /\ used' = used - 1 /\ UNCHANGED <<cdata, cused, upward>>
    BY <1>0, <1>3 DEF RemoveAt
  <2>2. /\ data' \in Seq(Cell) /\ Len(data') = Len(data)
        /\ \A j \in 1 .. used - 1 :
             IF j < i THEN data'[j] = data[j] ELSE \E k \in j + 1 .. used : data'[j] = data[k]
        /\ upward => \A j \in 1 .. used - 1 : ~(j < i) => data'[j] = data[j + 1]
    BY <1>0, <2>1, MovedDown
  <2> QED BY <2>1, <2>2, CutShows
<1>4. CASE PopBack
  <2>1. /\ used \in 1 .. used /\ gone' = data[used] /\ used' = used - 1 /\ data' = data
        /\ UNCHANGED <<cdata, cused, upward>>
    BY <1>0, <1>4 DEF PopBack
  <2>2. \A j \in 1 .. used - 1 : j < used /\ data'[j] = data[j]
    BY <1>0, <2>1
  <2>3. data' \in Seq(Cell) /\ Len(data') = Len(data)
    BY <2>1
  <2> QED BY <2>1, <2>2, <2>3, CutShows
<1>5. CASE EmptyIt
  <2>1. data' = <<>> /\ used' = 0 /\ UNCHANGED <<cdata, cused, gone, upward>>
    BY <1>5 DEF EmptyIt
  <2>2. SubSeq(data', 1, used') = <<>>
    BY <2>1
  <2>3. data' \in Seq(Cell) /\ Len(data') = 0
    BY <2>1
  <2> QED BY <2>1, <2>2, <2>3 DEF Sequence!Clear, Sequence!Next
<1>6. CASE Copy \/ CopyFails
  BY <1>6, CopyShows
<1>7. CASE UNCHANGED listVars
  BY <1>7 DEF listVars, Sequence!vars
<1> QED BY <1>1, <1>2, <1>3, <1>4, <1>5, <1>6, <1>7 DEF ListNext

\* The array shows as a sequence, whatever pushes, pops, removals, growth and
\* copies it went through; where memcpy() does not copy upwards, as one of
\* which a cut spoils what is behind it and nothing else.
THEOREM ListImplementsSequence == ListSpec => ImplementsList
<1>1. ListInit => /\ SubSeq(data, 1, used) = <<>> /\ gone = Junk
                  /\ SubSeq(cdata, 1, cused) = <<>> /\ upward \in BOOLEAN
  BY DEF ListInit
<1>2. ListInv /\ [ListNext]_listVars => ListInv'
  BY ListStep
<1>3. ListInv /\ [ListNext]_listVars => [Sequence!Next]_(Sequence!vars)
  BY ListStep
<1> QED BY <1>1, <1>2, <1>3, ListInitInv, PTL
  DEF ListSpec, ImplementsList, Sequence!Spec, Sequence!Init
-----------------------------------------------------------------------------
(* The page allocator.                                                     *)

\* The free blocks of page p, when the blocks in owned are with callers.
Stacked(index, p, owned) ==
  /\ \A i, j \in DOMAIN index : index[i] = index[j] => i = j
  /\ {index[i] : i \in DOMAIN index} = {k \in Blocks : <<p, k>> \notin owned}

Page == [itemsize : Nat, index : Seq(Blocks)]

\* A caller's block is one of a page of the chain, and just what was asked
\* for; the rest of a page is on its stack.
PagesInv ==
  /\ pages \in Seq(Page)
  /\ DOMAIN held \subseteq (DOMAIN pages) \X Blocks
  /\ \A b \in DOMAIN held : held[b] = pages[b[1]].itemsize
  /\ \A p \in DOMAIN pages : Stacked(pages[p].index, p, DOMAIN held)

LEMMA PagesInvExact == PagesInv => BlocksExact
<1> SUFFICES ASSUME PagesInv PROVE BlocksExact
  OBVIOUS
<1>1. ASSUME NEW b \in DOMAIN held
      PROVE  b[1] \in DOMAIN pages /\ held[b] <= pages[b[1]].itemsize
  <2>1. b[1] \in DOMAIN pages /\ held[b] = pages[b[1]].itemsize
    BY DEF PagesInv
  <2>2. pages[b[1]] \in Page
    BY <2>1 DEF PagesInv
  <2>3. pages[b[1]].itemsize \in Nat
    BY <2>2 DEF Page
  <2> QED BY <2>1, <2>3
<1> QED BY <1>1 DEF PagesInv, BlocksExact, Stacked

LEMMA FreedStacked ==
  ASSUME NEW index \in Seq(Blocks), NEW p, NEW owned, NEW k \in Blocks,
         Stacked(index, p, owned), <<p, k>> \in owned
  PROVE  /\ Append(index, k) \in Seq(Blocks)
         /\ Stacked(Append(index, k), p, owned \ {<<p, k>>})
<1> DEFINE n == Len(index)
           longer == Append(index, k)
<1>1. /\ n \in Nat /\ DOMAIN index = 1 .. n /\ DOMAIN longer = 1 .. n + 1
      /\ \A i \in 1 .. n : longer[i] = index[i] /\ longer[n + 1] = k
      /\ longer \in Seq(Blocks) /\ longer[n + 1] = k
  OBVIOUS
<1> HIDE DEF longer, n
<1>2. \A i \in 1 .. n : index[i] # k
  BY <1>1 DEF Stacked
<1>3. \A i, j \in DOMAIN longer : longer[i] = longer[j] => i = j
  <2> SUFFICES ASSUME NEW i \in 1 .. n + 1, NEW j \in 1 .. n + 1, longer[i] = longer[j]
               PROVE  i = j
    BY <1>1
  <2>1. CASE i \in 1 .. n /\ j \in 1 .. n
    BY <1>1, <2>1 DEF Stacked
  <2>2. CASE i = n + 1 \/ j = n + 1
    BY <1>1, <1>2, <2>2
  <2> QED BY <1>1, <2>1, <2>2
<1>4. {longer[i] : i \in DOMAIN longer} = {index[i] : i \in DOMAIN index} \cup {k}
  <2>1. \A i \in 1 .. n + 1 : i \in 1 .. n \/ i = n + 1
    BY <1>1
  <2>2. \A i \in 1 .. n : i \in 1 .. n + 1
    BY <1>1
  <2>3. n + 1 \in 1 .. n + 1
    BY <1>1
  <2> QED BY <1>1, <2>1, <2>2, <2>3
<1>5. {k} \cup {b \in Blocks : <<p, b>> \notin owned}
        = {b \in Blocks : <<p, b>> \notin owned \ {<<p, k>>}}
  OBVIOUS
<1> QED BY <1>1, <1>3, <1>4, <1>5 DEF Stacked, longer

LEMMA TakenStacked ==
  ASSUME NEW index \in Seq(Blocks), NEW p, NEW owned,
         Stacked(index, p, owned), index # <<>>
  PROVE  /\ index[Len(index)] \in Blocks /\ Taken(index) \in Seq(Blocks)
         /\ Stacked(Taken(index), p, owned \cup {<<p, index[Len(index)]>>})
<1> DEFINE n == Len(index)
           k == index[n]
           rest == Taken(index)
<1>1. n \in Nat /\ n >= 1 /\ DOMAIN index = 1 .. n /\ k \in Blocks
  OBVIOUS
<1>2. \A i \in 1 .. n - 1 : index[i] \in Blocks
  BY <1>1
<1>3. /\ rest \in Seq(Blocks) /\ DOMAIN rest = 1 .. n - 1
      /\ \A i \in 1 .. n - 1 : rest[i] = index[i]
  <2>1. 1 \in Int /\ n - 1 \in Int
    BY <1>1
  <2>2. /\ rest \in Seq(Blocks)
        /\ Len(rest) = IF 1 <= n - 1 THEN n - 1 - 1 + 1 ELSE 0
        /\ \A i \in 1 .. n - 1 - 1 + 1 : rest[i] = index[1 + i - 1]
    BY <1>2, <2>1, SubSeqProperties DEF Taken
  <2> HIDE DEF rest, k, n
  <2>3. Len(rest) = n - 1 /\ n - 1 - 1 + 1 = n - 1
    BY <1>1, <2>2
  <2>4. ASSUME NEW i \in 1 .. n - 1 PROVE rest[i] = index[i]
    <3>1. 1 + i - 1 = i
      BY <1>1
    <3> QED BY <1>1, <2>2, <2>3, <3>1
  <2>5. DOMAIN rest = 1 .. n - 1
    BY <2>2, <2>3
  <2> QED BY <2>2, <2>4, <2>5
<1> HIDE DEF rest, k
<1>4. k = index[n]
  BY DEF k
<1> HIDE DEF n
<1>5. \A i \in 1 .. n - 1 : index[i] # k /\ i \in 1 .. n
  BY <1>1, <1>4 DEF Stacked
<1>6. \A i, j \in DOMAIN rest : rest[i] = rest[j] => i = j
  BY <1>1, <1>3, <1>5 DEF Stacked
<1>7. {rest[i] : i \in DOMAIN rest} = {index[i] : i \in DOMAIN index} \ {k}
  <2>1. \A i \in 1 .. n : i \in 1 .. n - 1 \/ i = n
    BY <1>1
  <2> QED BY <1>1, <1>3, <1>4, <1>5, <2>1
<1>8. {b \in Blocks : <<p, b>> \notin owned} \ {k}
        = {b \in Blocks : <<p, b>> \notin owned \cup {<<p, k>>}}
  OBVIOUS
<1> QED BY <1>1, <1>3, <1>6, <1>7, <1>8 DEF Stacked, rest, k, n

LEMMA FreshStacked ==
  ASSUME NEW p, NEW owned, \A k \in Blocks : <<p, k>> \notin owned, NEW size
  PROVE  /\ FreshPage(size).index \in Seq(Blocks) /\ FreshPage(size).index # <<>>
         /\ Stacked(FreshPage(size).index, p, owned)
<1> DEFINE index == FreshPage(size).index
<1>0. PageBlocks \in Nat /\ PageBlocks >= 1
  BY PagemanAssumption
<1>1. index = [i \in 1 .. PageBlocks |-> i - 1]
  BY DEF FreshPage
<1> HIDE DEF index
<1>2. \A i \in 1 .. PageBlocks : i - 1 \in Blocks /\ index[i] = i - 1
  BY <1>0, <1>1 DEF Blocks
<1>3. index \in [1 .. PageBlocks -> Blocks]
  BY <1>1, <1>2
<1>4. index \in Seq(Blocks) /\ DOMAIN index = 1 .. PageBlocks /\ index # <<>>
  BY <1>0, <1>3
<1>5. \A i, j \in DOMAIN index : index[i] = index[j] => i = j
  BY <1>0, <1>2, <1>4
<1>6. \A k \in Blocks : k + 1 \in 1 .. PageBlocks /\ (k + 1) - 1 = k
  BY <1>0 DEF Blocks
<1>7. {index[i] : i \in DOMAIN index} = Blocks
  BY <1>2, <1>4, <1>6
<1> QED BY <1>4, <1>5, <1>7 DEF Stacked, index

\* Neither operation disturbs the pages it leaves alone.
LEMMA OtherStacked ==
  ASSUME NEW index, NEW p, NEW owned, NEW after, Stacked(index, p, owned),
         \A k \in Blocks : <<p, k>> \in owned <=> <<p, k>> \in after
  PROVE  Stacked(index, p, after)
BY DEF Stacked

LEMMA AllocKeeps ==
  ASSUME PagesInv, NEW size \in Sizes, Alloc(size) PROVE PagesInv'
<1> DEFINE chain(p) == IF p \in DOMAIN pages THEN pages ELSE Append(pages, FreshPage(size))
<1>1. PICK p \in 1 .. Len(pages) + 1 :
        /\ Candidate(p) /\ Fits(chain(p)[p], size)
        /\ pages' = [chain(p) EXCEPT ![p].index = Taken(@)]
        /\ held' = Holding(p, chain(p)[p].index[Len(chain(p)[p].index)], size)
  BY DEF Alloc
<1> DEFINE c == chain(p)
           D == DOMAIN held
           index == c[p].index
           k == index[Len(index)]
<1>2. /\ pages' = [c EXCEPT ![p].index = Taken(@)]
      /\ held' = Holding(p, k, size) /\ c[p].itemsize = size
  BY <1>1 DEF Fits
<1>3. size \in Nat /\ Len(pages) \in Nat /\ DOMAIN pages = 1 .. Len(pages)
  BY PagemanAssumption DEF PagesInv
<1>4. /\ c \in Seq(Page) /\ p \in DOMAIN c /\ DOMAIN pages \subseteq DOMAIN c
      /\ \A r \in DOMAIN pages : c[r] = pages[r]
      /\ \A r \in DOMAIN c : Stacked(c[r].index, r, D)
      /\ index # <<>>
  <2>1. CASE p \in DOMAIN pages
    <3>1. c = pages
      BY <2>1
    <3>2. p # Len(pages) + 1 /\ index # <<>>
      BY <1>1, <1>3, <2>1 DEF Candidate
    <3> QED BY <2>1, <3>1, <3>2 DEF PagesInv
  <2>2. CASE p \notin DOMAIN pages
    <3>1. p = Len(pages) + 1 /\ c = Append(pages, FreshPage(size))
      <4>1. p \notin 1 .. Len(pages)
        BY <1>3, <2>2
      <4>2. p = Len(pages) + 1
        BY ONLY <1>3, <4>1, p \in 1 .. Len(pages) + 1
      <4> QED BY <2>2, <4>2
    <3>2. \A b \in Blocks : <<p, b>> \notin D
      BY <2>2 DEF PagesInv
    <3>3. /\ FreshPage(size).index \in Seq(Blocks) /\ FreshPage(size).index # <<>>
          /\ Stacked(FreshPage(size).index, p, D)
      BY <3>2, FreshStacked
    <3>4. FreshPage(size) \in Page
      BY <1>3, <3>3 DEF FreshPage, Page
    <3>5. pages \in Seq(Page)
      BY DEF PagesInv
    <3>6. /\ c \in Seq(Page) /\ DOMAIN c = 1 .. Len(pages) + 1 /\ c[p] = FreshPage(size)
          /\ \A r \in 1 .. Len(pages) : c[r] = pages[r]
      BY <3>1, <3>4, <3>5
    <3> HIDE DEF c
    <3>7. \A r \in 1 .. Len(pages) + 1 : r \in DOMAIN pages \/ r = p
      BY <1>3, <3>1
    <3>8. \A r \in DOMAIN pages : r \in 1 .. Len(pages) + 1
      BY <1>3
    <3>9. \A r \in DOMAIN pages : Stacked(pages[r].index, r, D)
      BY DEF PagesInv
    <3> QED BY <1>3, <3>3, <3>6, <3>7, <3>8, <3>9
  <2> QED BY <2>1, <2>2
<1> HIDE DEF c
<1>5. c[p] \in Page /\ index \in Seq(Blocks) /\ Stacked(index, p, D)
  <2>1. c[p] \in Page
    BY ONLY <1>4, c \in Seq(Page), p \in DOMAIN c
  <2>2. index \in Seq(Blocks)
    BY <2>1 DEF Page
  <2> QED BY <1>4, <2>1, <2>2
<1>6. /\ k \in Blocks /\ Taken(index) \in Seq(Blocks)
      /\ Stacked(Taken(index), p, D \cup {<<p, k>>})
  BY <1>4, <1>5, TakenStacked
<1>7. /\ DOMAIN pages' = DOMAIN c
      /\ pages'[p] = [c[p] EXCEPT !.index = Taken(index)]
      /\ \A r \in DOMAIN c : r # p => pages'[r] = c[r]
  BY <1>2, <1>4
<1>8. /\ pages'[p] \in Page /\ pages'[p].index = Taken(index)
      /\ pages'[p].itemsize = size
  BY <1>2, <1>5, <1>6, <1>7 DEF Page
<1>9. \A r \in DOMAIN c : r # p => pages'[r] \in Page
  BY <1>4, <1>7
<1>10. pages' \in Seq(Page)
  <2>1. DOMAIN c = 1 .. Len(c) /\ Len(c) \in Nat
    BY <1>4
  <2>2. pages' = [r \in 1 .. Len(c) |-> pages'[r]]
    BY <1>2, <1>7, <2>1
  <2>3. pages' \in [1 .. Len(c) -> Page]
    BY <1>7, <1>8, <1>9, <2>1, <2>2
  <2> QED BY <2>1, <2>3
<1> HIDE DEF k, index
<1>11. /\ DOMAIN held' = D \cup {<<p, k>>} /\ held'[<<p, k>>] = size
       /\ \A b \in D : b # <<p, k>> => held'[b] = held[b]
  BY <1>2 DEF Holding
<1>12. (DOMAIN held)' \subseteq (DOMAIN pages)' \X Blocks
  BY <1>4, <1>6, <1>7, <1>11 DEF PagesInv
<1>13. ASSUME NEW b \in DOMAIN held' PROVE held'[b] = pages'[b[1]].itemsize
  <2>1. CASE b = <<p, k>>
    BY <1>8, <1>11, <2>1
  <2>2. CASE b # <<p, k>>
    <3>1. /\ b \in D /\ held'[b] = held[b] /\ b[1] \in DOMAIN c
          /\ held[b] = c[b[1]].itemsize
      BY <1>4, <1>11, <2>2 DEF PagesInv
    <3> QED BY <1>2, <1>7, <1>8, <3>1
  <2> QED BY <2>1, <2>2
<1>14. ASSUME NEW r \in DOMAIN pages' PROVE Stacked(pages'[r].index, r, DOMAIN held')
  <2>1. CASE r = p
    BY <1>6, <1>8, <1>11, <2>1
  <2>2. CASE r # p
    <3>1. \A b \in Blocks : <<r, b>> \in D <=> <<r, b>> \in D \cup {<<p, k>>}
      BY <2>2
    <3>2. Stacked(c[r].index, r, D \cup {<<p, k>>})
      BY <1>4, <1>7, <3>1, OtherStacked
    <3> QED BY <1>7, <1>11, <2>2, <3>2
  <2> QED BY <2>1, <2>2
<1> QED BY <1>10, <1>12, <1>13, <1>14 DEF PagesInv

LEMMA FreeKeeps ==
  ASSUME PagesInv, NEW b \in DOMAIN held, Free(b) PROVE PagesInv'
<1> DEFINE D == DOMAIN held
           p == b[1]
           k == b[2]
           index == pages[p].index
<1>1. /\ p \in DOMAIN pages /\ k \in Blocks /\ b = <<p, k>>
      /\ pages[p] \in Page /\ pages \in Seq(Page)
  BY DEF PagesInv
<1>2. index \in Seq(Blocks) /\ Stacked(index, p, D)
  BY <1>1 DEF PagesInv, Page
<1> HIDE DEF index
<1>3. /\ Append(index, k) \in Seq(Blocks)
      /\ Stacked(Append(index, k), p, D \ {b})
  BY <1>1, <1>2, FreedStacked
<1>4. /\ DOMAIN pages' = DOMAIN pages
      /\ pages'[p] = [pages[p] EXCEPT !.index = Append(index, k)]
      /\ \A r \in DOMAIN pages : r # p => pages'[r] = pages[r]
  BY <1>1 DEF Free, index
<1>5. /\ pages'[p] \in Page /\ pages'[p].index = Append(index, k)
      /\ pages'[p].itemsize = pages[p].itemsize
  BY <1>1, <1>3, <1>4 DEF Page
<1>6. pages' \in Seq(Page)
  <2>1. DOMAIN pages = 1 .. Len(pages) /\ Len(pages) \in Nat
    BY <1>1
  <2>2. ASSUME NEW r \in DOMAIN pages PROVE pages'[r] \in Page
    <3>1. pages[r] \in Page
      BY <1>1, <2>1
    <3>2. CASE r = p
      BY <1>5, <3>2
    <3>3. CASE r # p
      BY <1>4, <3>1, <3>3
    <3> QED BY <3>2, <3>3
  <2>3. pages' = [r \in 1 .. Len(pages) |-> pages'[r]]
    BY <1>1, <1>4, <2>1 DEF Free
  <2>4. pages' \in [1 .. Len(pages) -> Page]
    BY <2>1, <2>2, <2>3
  <2> QED BY <2>1, <2>4
<1>7. DOMAIN held' = D \ {b} /\ \A c \in D \ {b} : held'[c] = held[c]
  BY DEF Free
<1>8. (DOMAIN held)' \subseteq (DOMAIN pages)' \X Blocks
  BY <1>4, <1>7 DEF PagesInv
<1>9. ASSUME NEW c \in DOMAIN held' PROVE held'[c] = pages'[c[1]].itemsize
  <2>1. c \in D /\ held'[c] = pages[c[1]].itemsize /\ c[1] \in DOMAIN pages
    BY <1>7 DEF PagesInv
  <2> QED BY <1>4, <1>5, <2>1
<1>10. ASSUME NEW r \in DOMAIN pages' PROVE Stacked(pages'[r].index, r, DOMAIN held')
  <2>1. CASE r = p
    BY <1>3, <1>5, <1>7, <2>1
  <2>2. CASE r # p
    <3>1. \A i \in Blocks : <<r, i>> \in D <=> <<r, i>> \in D \ {b}
      BY <1>1, <2>2
    <3>2. Stacked(pages[r].index, r, D)
      BY <1>4 DEF PagesInv
    <3>3. Stacked(pages[r].index, r, D \ {b})
      BY <3>1, <3>2, OtherStacked
    <3> QED BY <1>4, <1>7, <2>2, <3>3
  <2> QED BY <2>1, <2>2
<1> QED BY <1>6, <1>8, <1>9, <1>10 DEF PagesInv

\* No block of a page is handed out twice and none is lost, and each is as
\* large as its owner thinks, however pmalloc() and pmfree() alternate.
THEOREM NoBlockTwice == PageSpec => []BlocksExact
<1>1. PageInit => PagesInv
  BY DEF PageInit, PagesInv
<1>2. PagesInv /\ [PageNext]_pageVars => PagesInv'
  <2> SUFFICES ASSUME PagesInv, [PageNext]_pageVars PROVE PagesInv'
    OBVIOUS
  <2>1. CASE PageNext
    BY <2>1, AllocKeeps, FreeKeeps DEF PageNext
  <2>2. CASE UNCHANGED pageVars
    BY <2>2 DEF pageVars, PagesInv
  <2> QED BY <2>1, <2>2
<1> QED BY <1>1, <1>2, PagesInvExact, PTL DEF PageSpec
=============================================================================
