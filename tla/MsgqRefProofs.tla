--------------------------- MODULE MsgqRefProofs ----------------------------
(***************************************************************************)
(* The reference counter of a queue, for any number of threads and any     *)
(* width of the counter: what it counts, and that a queue whose counter    *)
(* began at one is deleted when its last handle goes and not before.       *)
(***************************************************************************)
EXTENDS MsgqRef, FiniteSetTheorems, TLAPS

-----------------------------------------------------------------------------
(* Arithmetic modulo a number.                                             *)

LEMMA Division ==
  ASSUME NEW x \in Int, NEW w \in Nat \ {0}
  PROVE  /\ x \div w \in Int /\ x % w \in 0 .. w - 1
         /\ x = w * (x \div w) + (x % w)
BY SMT

LEMMA RemainderUnique ==
  ASSUME NEW x \in Int, NEW w \in Nat \ {0},
         NEW q \in Int, NEW r \in 0 .. w - 1, x = w * q + r
  PROVE  x % w = r
<1> DEFINE d == x \div w
           m == x % w
<1>1. d \in Int /\ m \in 0 .. w - 1 /\ w * (d - q) = r - m
  BY Division
<1>2. CASE d > q
  <2>1. w * (d - q) >= w
    BY <1>1, <1>2
  <2> QED BY <2>1, <1>1
<1>3. CASE d < q
  <2>1. d - q <= -1
    BY <1>1, <1>3
  <2>2. w * (d - q) <= -w
    BY <2>1, <1>1
  <2> QED BY <2>2, <1>1
<1>4. CASE d = q
  BY <1>1, <1>4
<1> QED BY <1>1, <1>2, <1>3, <1>4

LEMMA AddToRemainder ==
  ASSUME NEW x \in Int, NEW w \in Nat \ {0}, NEW k \in Int
  PROVE  ((x % w) + k) % w = (x + k) % w
<1> DEFINE y == (x % w) + k
<1>1. /\ x \div w \in Int /\ x % w \in 0 .. w - 1
      /\ x = w * (x \div w) + (x % w)
  BY Division
<1>2. y \in Int
  BY <1>1
<1>3. /\ y \div w \in Int /\ y % w \in 0 .. w - 1
      /\ y = w * (y \div w) + (y % w)
  BY <1>2, Division
<1>4. x + k = w * (x \div w) + y
  BY <1>1
<1> HIDE DEF y
<1>5. x + k = w * ((x \div w) + (y \div w)) + (y % w)
  BY <1>1, <1>2, <1>3, <1>4
<1>6. (x + k) % w = y % w
  <2>1. x + k \in Int /\ (x \div w) + (y \div w) \in Int
    BY <1>1, <1>3
  <2> QED BY <2>1, <1>3, <1>5, RemainderUnique
<1> QED BY <1>6 DEF y

LEMMA SmallRemainder ==
  ASSUME NEW w \in Nat \ {0}, NEW r \in 0 .. w - 1
  PROVE  r % w = r
BY RemainderUnique, r = w * 0 + r
-----------------------------------------------------------------------------
(* The number of handles.                                                  *)

LEMMA Finite ==
  ASSUME RefTypeOK
  PROVE  /\ IsFiniteSet(own) /\ IsFiniteSet(Temps)
         /\ Cardinality(own) \in Nat /\ Cardinality(Temps) \in Nat
         /\ Cardinality(Users) \in Nat
         /\ Handles \in 0 .. 2 * Cardinality(Users)
<1>1. IsFiniteSet(Users) /\ Cardinality(Users) \in Nat
  BY MsgqRefAssumption, FS_AddElement, FS_CardinalityType DEF Users
<1>2. IsFiniteSet(own) /\ Cardinality(own) <= Cardinality(Users)
  BY <1>1, FS_Subset DEF RefTypeOK
<1>3. IsFiniteSet(Temps) /\ Cardinality(Temps) <= Cardinality(Users)
  BY <1>1, FS_Subset DEF Temps
<1>4. Cardinality(own) \in Nat /\ Cardinality(Temps) \in Nat
  BY <1>2, <1>3, FS_CardinalityType
<1> QED BY <1>1, <1>2, <1>3, <1>4 DEF Handles

\* A thread that goes from one place to another takes a temporary, gives it
\* up, or neither.
LEMMA TempsMore ==
  ASSUME RefTypeOK, NEW t \in Users, NEW to \in Temporary,
         pc[t] \notin Temporary, pc' = [pc EXCEPT ![t] = to]
  PROVE  Cardinality(Temps') = Cardinality(Temps) + 1
<1>1. Temps' = Temps \cup {t} /\ t \notin Temps
  BY DEF Temps, RefTypeOK
<1> QED BY <1>1, Finite, FS_AddElement

LEMMA TempsLess ==
  ASSUME RefTypeOK, NEW t \in Users, NEW to, to \notin Temporary,
         pc[t] \in Temporary, pc' = [pc EXCEPT ![t] = to]
  PROVE  Cardinality(Temps') = Cardinality(Temps) - 1
<1>1. Temps' = Temps \ {t} /\ t \in Temps
  BY DEF Temps, RefTypeOK
<1> QED BY <1>1, Finite, FS_RemoveElement

LEMMA TempsKept ==
  ASSUME RefTypeOK, NEW t \in Users, NEW to,
         pc[t] \in Temporary <=> to \in Temporary, pc' = [pc EXCEPT ![t] = to]
  PROVE  Temps' = Temps
BY DEF Temps, RefTypeOK

LEMMA OwnMore ==
  ASSUME RefTypeOK, NEW t \in Users, t \notin own, own' = own \cup {t}
  PROVE  Cardinality(own') = Cardinality(own) + 1
BY Finite, FS_AddElement

LEMMA OwnLess ==
  ASSUME RefTypeOK, NEW t \in own, own' = own \ {t}
  PROVE  Cardinality(own') = Cardinality(own) - 1
BY Finite, FS_RemoveElement

\* The counter moves with the handles.
LEMMA CountStep ==
  ASSUME RefTypeOK, CountsHandles, fresh' = fresh, NEW k \in Int,
         Handles' = Handles + k, refc' = (refc + k) % Wrap
  PROVE  CountsHandles' /\ refc' \in 0 .. Wrap - 1
<1>1. Wrap \in Nat \ {0} /\ fresh \in Int /\ Handles \in Int /\ refc \in Int
  BY MsgqRefAssumption, Finite DEF RefTypeOK
<1>2. fresh + Handles - 1 \in Int /\ refc + k \in Int
  BY <1>1
<1>3. refc' = (fresh + Handles - 1 + k) % Wrap
  BY <1>1, <1>2, AddToRemainder DEF CountsHandles
<1>4. fresh + Handles - 1 + k = fresh + (Handles + k) - 1
  BY <1>1
<1>5. refc' \in 0 .. Wrap - 1
  BY <1>1, <1>2, Division
<1> QED BY <1>3, <1>4, <1>5 DEF CountsHandles

\* From a sound fresh value the counter does not come round.
LEMMA CounterExact ==
  ASSUME RefTypeOK, CountsHandles, Sound
  PROVE  refc = fresh + Handles - 1
<1>1. /\ Wrap \in Nat \ {0} /\ fresh \in Nat /\ Cardinality(Users) \in Nat
      /\ Handles \in 0 .. 2 * Cardinality(Users)
  BY MsgqRefAssumption, Finite DEF RefTypeOK
<1>2. fresh + Handles - 1 \in 0 .. Wrap - 1
  BY <1>1 DEF Sound
<1> QED BY <1>1, <1>2, SmallRemainder DEF CountsHandles
-----------------------------------------------------------------------------
RefInv == RefTypeOK /\ CountsHandles /\ NoLeak

LEMMA InvInit == RefInit => RefInv
<1> SUFFICES ASSUME RefInit PROVE RefInv
  OBVIOUS
<1>1. Wrap \in Nat \ {0} /\ fresh \in 0 .. Wrap - 1
  BY MsgqRefAssumption DEF RefInit
<1>2. RefTypeOK
  BY <1>1 DEF RefInit, RefTypeOK, MaxDeletes, Users
<1>3. Temps = {} /\ own = {Owner}
  BY DEF RefInit, Temps, Temporary
<1>4. Handles = 1
  BY <1>3, FS_EmptySet, FS_Singleton DEF Handles
<1>5. CountsHandles
  BY <1>1, <1>4, SmallRemainder DEF CountsHandles, RefInit
<1> QED BY <1>2, <1>4, <1>5 DEF RefInv, NoLeak

\* A step that adds or takes a handle, or neither, keeps the count; and one
\* that takes one has its thread look at the counter.
LEMMA HandleStep ==
  ASSUME RefInv, NEW t \in Users, NEW to \in Temporary \cup Checking \cup {"idle", "found", "gone"},
         NEW k \in {-1, 0, 1},
         pc' = [pc EXCEPT ![t] = to], UNCHANGED <<fresh, deletes, listed>>,
         own' \subseteq Users,
         Handles' = Handles + k, refc' = (refc + k) % Wrap,
         k # 1 => to \in Checking \/ (k = 0 /\ pc[t] \notin Checking)
  PROVE  RefInv'
<1>1. CountsHandles' /\ refc' \in 0 .. Wrap - 1
  BY CountStep DEF RefInv
<1>2. RefTypeOK'
  BY <1>1 DEF RefInv, RefTypeOK, Temporary, Checking
<1>3. \A s \in Users : pc'[s] = IF s = t THEN to ELSE pc[s]
  BY DEF RefInv, RefTypeOK
<1>4. Handles \in Nat
  BY Finite DEF RefInv
<1>5. NoLeak'
  <2> SUFFICES ASSUME fresh = 1, Sound, Handles' = 0, deletes = 0
               PROVE  \E s \in Users : pc'[s] \in Checking
    BY DEF NoLeak, Sound
  <2>1. CASE to \in Checking
    BY <2>1, <1>3
  <2>2. CASE k = 0 /\ pc[t] \notin Checking
    BY <2>2, <1>3, <1>4 DEF RefInv, NoLeak
  <2>3. k # 1
    BY <1>4
  <2> QED BY <2>1, <2>2, <2>3
<1> QED BY <1>1, <1>2, <1>5 DEF RefInv

LEMMA InvNext == RefInv /\ [RefNext]_vars => RefInv'
<1> SUFFICES ASSUME RefInv, [RefNext]_vars PROVE RefInv'
  OBVIOUS
<1>0. /\ RefTypeOK /\ CountsHandles /\ NoLeak
      /\ Wrap \in Nat \ {0} /\ refc \in 0 .. Wrap - 1
      /\ Cardinality(own) \in Nat /\ Cardinality(Temps) \in Nat
      /\ own \subseteq Users /\ refc % Wrap = refc
  BY MsgqRefAssumption, Finite, SmallRemainder DEF RefInv, RefTypeOK
<1>1. ASSUME NEW t \in Users, Lookup(t) PROVE RefInv'
  <2>1. pc[t] = "idle" /\ pc' = [pc EXCEPT ![t] = "found"]
    BY <1>1 DEF Lookup, Goes
  <2>2. Temps' = Temps
    BY <1>0, <2>1, TempsKept DEF Temporary
  <2>3. own' = own
    BY <1>1 DEF Lookup
  <2>4. Handles' = Handles + 0
    BY <1>0, <2>2, <2>3 DEF Handles
  <2>5. refc' = (refc + 0) % Wrap /\ UNCHANGED <<fresh, deletes, listed>>
    BY <1>0, <1>1 DEF Lookup
  <2> QED BY <1>0, <2>1, <2>3, <2>4, <2>5, HandleStep DEF Temporary, Checking
<1>2. ASSUME NEW t \in Users, Attach(t) PROVE RefInv'
  <2>1. pc[t] = "found" /\ pc' = [pc EXCEPT ![t] = "holding"]
    BY <1>2 DEF Attach, Goes
  <2>2. Cardinality(Temps') = Cardinality(Temps) + 1
    BY <1>0, <2>1, TempsMore DEF Temporary
  <2>3. own' = own
    BY <1>2 DEF Attach
  <2>4. Handles' = Handles + 1
    BY <1>0, <2>2, <2>3 DEF Handles
  <2>5. refc' = (refc + 1) % Wrap /\ UNCHANGED <<fresh, deletes, listed>>
    BY <1>0, <1>2 DEF Attach, Count
  <2> QED BY <1>0, <2>1, <2>3, <2>4, <2>5, HandleStep DEF Temporary, Checking
<1>3. ASSUME NEW t \in Users, Drop(t) PROVE RefInv'
  <2>1. pc[t] = "holding" /\ pc' = [pc EXCEPT ![t] = "dropping"]
    BY <1>3 DEF Drop, Goes
  <2>2. Temps' = Temps
    BY <1>0, <2>1, TempsKept DEF Temporary
  <2>3. Cardinality(own') = Cardinality(own) - 1 /\ own' \subseteq Users
    BY <1>0, <1>3, OwnLess DEF Drop
  <2>4. Handles' = Handles + (-1)
    BY <1>0, <2>2, <2>3 DEF Handles
  <2>5. refc' = (refc + (-1)) % Wrap /\ UNCHANGED <<fresh, deletes, listed>>
    BY <1>0, <1>3 DEF Drop, Uncount
  <2> QED BY <1>0, <2>1, <2>3, <2>4, <2>5, HandleStep DEF Temporary, Checking
<1>4. ASSUME NEW t \in Users, Adopt(t) PROVE RefInv'
  <2>1. pc[t] \in {"holding", "adopting"} /\ pc' = [pc EXCEPT ![t] = "adopted"]
    BY <1>4 DEF Adopt, Goes
  <2>2. Temps' = Temps
    BY <1>0, <2>1, TempsKept DEF Temporary
  <2>3. Cardinality(own') = Cardinality(own) + 1 /\ own' \subseteq Users
    BY <1>0, <1>4, OwnMore DEF Adopt
  <2>4. Handles' = Handles + 1
    BY <1>0, <2>2, <2>3 DEF Handles
  <2>5. refc' = (refc + 1) % Wrap /\ UNCHANGED <<fresh, deletes, listed>>
    BY <1>0, <1>4 DEF Adopt, Count
  <2> QED BY <1>0, <2>1, <2>3, <2>4, <2>5, HandleStep DEF Temporary, Checking
<1>5. ASSUME NEW t \in Users, Release(t) PROVE RefInv'
  <2>1. pc[t] \in {"holding", "adopted"} /\ pc' = [pc EXCEPT ![t] = "leaving"]
    BY <1>5 DEF Release, Goes
  <2>2. Cardinality(Temps') = Cardinality(Temps) - 1
    BY <1>0, <2>1, TempsLess DEF Temporary
  <2>3. own' = own
    BY <1>5 DEF Release
  <2>4. Handles' = Handles + (-1)
    BY <1>0, <2>2, <2>3 DEF Handles
  <2>5. refc' = (refc + (-1)) % Wrap /\ UNCHANGED <<fresh, deletes, listed>>
    BY <1>0, <1>5 DEF Release, Uncount
  <2> QED BY <1>0, <2>1, <2>3, <2>4, <2>5, HandleStep DEF Temporary, Checking
<1>6. ASSUME NEW t \in Users, Move(t) PROVE RefInv'
  <2>1. pc[t] = "idle" /\ pc' = [pc EXCEPT ![t] = "leaving"]
    BY <1>6 DEF Move, Goes
  <2>2. Temps' = Temps
    BY <1>0, <2>1, TempsKept DEF Temporary
  <2>3. Cardinality(own') = Cardinality(own) - 1 /\ own' \subseteq Users
    BY <1>0, <1>6, OwnLess DEF Move
  <2>4. Handles' = Handles + (-1)
    BY <1>0, <2>2, <2>3 DEF Handles
  <2>5. refc' = (refc + (-1)) % Wrap /\ UNCHANGED <<fresh, deletes, listed>>
    BY <1>0, <1>6 DEF Move, Uncount
  <2> QED BY <1>0, <2>1, <2>3, <2>4, <2>5, HandleStep DEF Temporary, Checking
<1>7. CASE Exit
  <2>0. Owner \in Users
    BY DEF Users
  <2>1. CASE Owner \in own
    <3>1. pc[Owner] = "idle" /\ pc' = [pc EXCEPT ![Owner] = "exiting"]
      BY <1>7, <2>1 DEF Exit, Goes
    <3>2. Temps' = Temps
      BY <1>0, <2>0, <3>1, TempsKept DEF Temporary
    <3>3. Cardinality(own') = Cardinality(own) - 1 /\ own' \subseteq Users
      BY <1>0, <1>7, <2>1, OwnLess DEF Exit
    <3>4. Handles' = Handles + (-1)
      BY <1>0, <3>2, <3>3 DEF Handles
    <3>5. refc' = (refc + (-1)) % Wrap /\ UNCHANGED <<fresh, deletes, listed>>
      BY <1>0, <1>7, <2>1 DEF Exit, Uncount
    <3> QED BY <1>0, <2>0, <3>1, <3>3, <3>4, <3>5, HandleStep DEF Checking
  <2>2. CASE Owner \notin own
    <3>1. pc[Owner] = "idle" /\ pc' = [pc EXCEPT ![Owner] = "gone"]
      BY <1>7, <2>2 DEF Exit, Goes
    <3>2. Temps' = Temps
      BY <1>0, <2>0, <3>1, TempsKept DEF Temporary
    <3>3. own' = own /\ UNCHANGED <<fresh, deletes, listed>>
      BY <1>0, <1>7, <2>2 DEF Exit
    <3>4. Handles' = Handles + 0
      BY <1>0, <3>2, <3>3 DEF Handles
    <3>5. refc' = (refc + 0) % Wrap
      BY <1>0, <1>7, <2>2 DEF Exit
    <3> QED BY <1>0, <2>0, <3>1, <3>3, <3>4, <3>5, HandleStep DEF Checking
  <2> QED BY <2>1, <2>2
<1>8. ASSUME NEW t \in Users, Check(t) PROVE RefInv'
  <2>1. PICK to \in {"idle", "adopting", "gone"} :
          /\ pc' = [pc EXCEPT ![t] = to]
          /\ pc[t] \in Checking /\ (pc[t] \in Temporary <=> to \in Temporary)
    BY <1>8 DEF Check, Goes, Checking, Temporary
  <2>2. UNCHANGED <<fresh, refc, own>> /\ Temps' = Temps
    BY <1>0, <1>8, <2>1, TempsKept DEF Check
  <2>3. Handles' = Handles
    BY <2>2 DEF Handles
  <2>4. CountsHandles'
    BY <1>0, <2>2, <2>3 DEF CountsHandles
  <2>5. deletes' \in 0 .. MaxDeletes /\ listed' \in BOOLEAN
    <3>1. deletes \in 0 .. 2 /\ listed \in BOOLEAN
      BY <1>0 DEF RefTypeOK, MaxDeletes
    <3>2. (deletes < 2 /\ deletes' = deletes + 1) \/ deletes' = deletes
      BY <1>8 DEF Check, MaxDeletes
    <3>3. deletes' \in 0 .. 2
      BY <3>1, <3>2
    <3>4. listed' = FALSE \/ listed' = listed
      BY <1>8 DEF Check
    <3>5. listed' \in BOOLEAN
      BY <3>1, <3>4, Zenon
    <3> QED BY <3>3, <3>5 DEF MaxDeletes
  <2>6. pc' \in [Users -> {"idle", "found", "gone"} \cup Temporary \cup Checking]
    BY <1>0, <2>1 DEF RefTypeOK, Temporary
  <2>7. RefTypeOK'
    BY <1>0, <2>2, <2>5, <2>6 DEF RefTypeOK
  <2>8. ASSUME fresh = 1, Sound, Handles = 0 PROVE deletes' # 0
    <3>1. refc = 0
      BY <1>0, <2>8, CounterExact
    <3>2. deletes \in 0 .. 2
      BY <1>0 DEF RefTypeOK, MaxDeletes
    <3>3. deletes < 2 => deletes' = deletes + 1
      BY <1>8, <3>1 DEF Check, Deletes, MaxDeletes
    <3>4. ~(deletes < 2) => deletes' = deletes
      BY <1>8 DEF Check, MaxDeletes
    <3> QED BY <3>2, <3>3, <3>4
  <2>9. NoLeak'
    BY <2>2, <2>3, <2>8 DEF NoLeak, Sound
  <2> QED BY <2>4, <2>7, <2>9 DEF RefInv
<1>9. CASE UNCHANGED vars
  BY <1>0, <1>9 DEF vars, RefInv, RefTypeOK, CountsHandles, NoLeak, Handles, Temps, Sound
<1> QED BY <1>1, <1>2, <1>3, <1>4, <1>5, <1>6, <1>7, <1>8, <1>9 DEF RefNext

\* A deletion is a Check that finds zero, and then there is no handle.
LEMMA DeleteStep ==
  ASSUME RefInv, [RefNext]_vars, Sound, deletes' # deletes
  PROVE  Handles = 0
<1>1. PICK t \in Users : Check(t)
  BY DEF RefNext, vars, Exit, Lookup, Attach, Drop, Adopt, Release, Move
<1>2. refc = 0
  BY <1>1 DEF Check, Deletes
<1>3. 0 = fresh + Handles - 1
  BY <1>2, CounterExact DEF RefInv
<1> QED BY <1>3, Finite DEF RefInv, RefTypeOK, Sound

\* For any number of threads that signal the module, join it, leave it, and
\* for its own exit, in any order: the counter has counted the handles; a
\* queue is deleted only without handles; and, if its counter began at one,
\* it is deleted when it has none.
THEOREM RefCorrect ==
  RefSpec => [](RefTypeOK /\ CountsHandles /\ NoLeak) /\ DeletedUnheld
<1>1. RefInit => RefInv
  BY InvInit
<1>2. RefInv /\ [RefNext]_vars => RefInv'
  BY InvNext
<1>3. RefInv /\ [RefNext]_vars
        => [Sound /\ deletes' # deletes => Handles = 0]_vars
  BY DeleteStep
<1>4. RefInv => RefTypeOK /\ CountsHandles /\ NoLeak
  BY DEF RefInv
<1> QED BY <1>1, <1>2, <1>3, <1>4, PTL DEF RefSpec, DeletedUnheld

\* However attachments and detachments interleave, the counter has counted
\* every handle but the one it was created with.
THEOREM HandlesCounted == RefSpec => []CountsHandles
BY RefCorrect, PTL

\* A queue whose counter began at one is not left behind without a handle.
THEOREM QueuesNotLeaked == RefSpec => []NoLeak
BY RefCorrect, PTL
=============================================================================
