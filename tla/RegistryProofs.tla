--------------------------- MODULE RegistryProofs ---------------------------
(***************************************************************************)
(* Proofs about the message registry, for any queues, threads and names:   *)
(* the codes and the two kinds of roster, the packets, and then the C++    *)
(* objects over it, whose maps have to follow both.                        *)
(***************************************************************************)
EXTENDS PlusModule, TLAPS

\* Types, as far as the proofs need them.
RegTypeInv ==
  /\ code \in [Names -> Nat] /\ lastcode \in Nat
  /\ roster \in [Names -> Seq(Queues)]
  /\ subs \in [Queues -> Seq(Nat)]
  /\ pc \in [Threads -> {"idle", "subscribing", "unsubscribing", "asking", "notifying"}]
  /\ arg \in [Threads -> Nat]

\* A new code is not one that is in use.
CodesGiven == \A n \in Names : code[n] <= lastcode

RegInv == RegTypeInv /\ CodesGiven /\ RegistryExact
-----------------------------------------------------------------------------
(* The lists.                                                              *)

LEMMA ListAdded ==
  ASSUME NEW S, NEW list \in Seq(S), NEW x \in S, IsInjective(list)
  PROVE  /\ ListAdd(list, x) \in Seq(S)
         /\ IsInjective(ListAdd(list, x))
         /\ ToSet(ListAdd(list, x)) = ToSet(list) \cup {x}
<1>1. CASE Contains(list, x)
  BY <1>1 DEF ListAdd, Contains, ToSet
<1>2. CASE ~Contains(list, x)
  <2> DEFINE r == Append(list, x)
  <2>1. /\ r \in Seq(S) /\ Len(r) = Len(list) + 1 /\ DOMAIN r = 1 .. Len(list) + 1
        /\ \A i \in 1 .. Len(list) : r[i] = list[i]
        /\ r[Len(list) + 1] = x
    OBVIOUS
  <2>2. IsInjective(r)
    BY <1>2, <2>1 DEF IsInjective, Contains
  <2>3. ToSet(r) = ToSet(list) \cup {x}
    BY <2>1 DEF ToSet
  <2> QED BY <1>2, <2>1, <2>2, <2>3 DEF ListAdd
<1> QED BY <1>1, <1>2

LEMMA ListRemoved ==
  ASSUME NEW S, NEW list \in Seq(S), NEW x, IsInjective(list)
  PROVE  /\ ListRemove(list, x) \in Seq(S)
         /\ IsInjective(ListRemove(list, x))
         /\ ToSet(ListRemove(list, x)) = ToSet(list) \ {x}
<1>1. CASE ~Contains(list, x)
  BY <1>1 DEF ListRemove, Contains, ToSet
<1>2. CASE Contains(list, x)
  <2> DEFINE k == CHOOSE i \in DOMAIN list : list[i] = x
             m == [list EXCEPT ![k] = Last(list)]
             r == Front(m)
             n == Len(list)
  <2>1. k \in 1 .. n /\ list[k] = x /\ n \in Nat /\ n >= 1 /\ DOMAIN list = 1 .. n
    BY <1>2 DEF Contains
  <2> HIDE DEF k
  <2>2. m \in Seq(S) /\ Len(m) = n /\ m[k] = list[n]
        /\ \A i \in 1 .. n : i # k => m[i] = list[i]
    BY <2>1 DEF Last
  <2> HIDE DEF m
  <2>3. /\ r \in Seq(S) /\ Len(r) = n - 1 /\ DOMAIN r = 1 .. n - 1
        /\ \A i \in 1 .. n - 1 : r[i] = m[i]
    BY <2>1, <2>2 DEF Front
  <2>4. r = ListRemove(list, x)
    BY <1>2 DEF ListRemove, m, k
  <2> HIDE DEF r
  <2>5. \A i, j \in 1 .. n : list[i] = list[j] => i = j
    BY <2>1 DEF IsInjective
  <2>6. \A i \in 1 .. n - 1 : r[i] = (IF i = k THEN list[n] ELSE list[i])
    BY <2>1, <2>2, <2>3
  <2>7. IsInjective(r)
    BY <2>1, <2>3, <2>5, <2>6 DEF IsInjective
  <2>8. ASSUME NEW y PROVE y \in ToSet(r) <=> y \in ToSet(list) \ {x}
    <3>1. ASSUME y \in ToSet(r) PROVE y \in ToSet(list) \ {x}
      BY <3>1, <2>1, <2>3, <2>5, <2>6 DEF ToSet
    <3>2. ASSUME y \in ToSet(list) \ {x} PROVE y \in ToSet(r)
      <4>1. PICK i \in 1 .. n : list[i] = y /\ i # k
        BY <3>2, <2>1 DEF ToSet
      <4>2. CASE i = n
        BY <4>1, <4>2, <2>1, <2>3, <2>6 DEF ToSet
      <4>3. CASE i # n
        <5>0. n \in Nat /\ i \in Nat /\ 1 <= i /\ i <= n
          BY <2>1
        <5>1. i \in 1 .. n - 1
          BY ONLY <5>0, <4>3
        <5>2. r[i] = y /\ i \in DOMAIN r
          BY <5>1, <4>1, <2>3, <2>6
        <5> QED BY <5>2 DEF ToSet
      <4> QED BY <4>2, <4>3
    <3> QED BY <3>1, <3>2
  <2> QED BY <2>3, <2>4, <2>7, <2>8
<1> QED BY <1>1, <1>2

LEMMA ContainsInSet ==
  ASSUME NEW S, NEW list \in Seq(S), NEW x
  PROVE  Contains(list, x) <=> x \in ToSet(list)
BY DEF Contains, ToSet

LEMMA EmptyHasNone ==
  ASSUME NEW S, NEW list \in Seq(S)
  PROVE  list = <<>> <=> ToSet(list) = {}
<1>1. ASSUME list # <<>> PROVE list[1] \in ToSet(list)
  BY <1>1 DEF ToSet
<1> QED BY <1>1 DEF ToSet
-----------------------------------------------------------------------------
(* Messages are registered while somebody is subscribed.                   *)

LEMMA RegInitInv == RegistryInit => RegInv
BY DEF RegistryInit, RegInv, RegTypeInv, CodesGiven, RegistryExact, IsInjective

\* What subscribe and unsubscribe do to the codes and the messages' rosters.
Joins(t, n) ==
  /\ QueueOf[t] \in Queues
  /\ ~Contains(roster[n], QueueOf[t])
  /\ FindOrCreate(n)
  /\ roster' = [roster EXCEPT ![n] = Append(@, QueueOf[t])]

Leaves(t, n) ==
  /\ Contains(roster[n], QueueOf[t])
  /\ roster' = [roster EXCEPT ![n] = ListRemove(@, QueueOf[t])]
  /\ DeleteUnused(n)
  /\ UNCHANGED lastcode

LEMMA JoinsExact ==
  ASSUME RegInv, NEW t \in Threads, NEW n \in Names, Joins(t, n)
  PROVE  /\ roster'[n] \in Seq(Queues) /\ IsInjective(roster'[n])
         /\ ToSet(roster'[n]) = ToSet(roster[n]) \cup {QueueOf[t]}
         /\ roster' \in [Names -> Seq(Queues)]
         /\ \A m \in Names \ {n} : roster'[m] = roster[m] /\ code'[m] = code[m]
         /\ code' \in [Names -> Nat] /\ lastcode' \in Nat
         /\ code[n] # 0 => code'[n] = code[n] /\ lastcode' = lastcode
         /\ code[n] = 0 => code'[n] = lastcode + 1 /\ lastcode' = lastcode + 1
<1> USE DEF RegInv, RegTypeInv
<1> DEFINE q == QueueOf[t]
<1>1. q \in Queues
  BY DEF Joins
<1>2. roster'[n] = ListAdd(roster[n], q)
  BY DEF Joins, ListAdd
<1>3. IsInjective(roster[n]) /\ roster[n] \in Seq(Queues)
  BY DEF RegistryExact
<1>4. /\ ListAdd(roster[n], q) \in Seq(Queues)
      /\ IsInjective(ListAdd(roster[n], q))
      /\ ToSet(ListAdd(roster[n], q)) = ToSet(roster[n]) \cup {q}
  BY <1>1, <1>3, ListAdded
<1>5. roster' \in [Names -> Seq(Queues)] /\ \A m \in Names \ {n} : roster'[m] = roster[m]
  BY <1>1, <1>3 DEF Joins
<1>6. FindOrCreate(n)
  BY DEF Joins
<1>7. code \in [Names -> Nat] /\ lastcode \in Nat /\ n \in Names
  OBVIOUS
<1>8. CASE code[n] # 0
  <2>1. code' = code /\ lastcode' = lastcode
    BY <1>6, <1>8 DEF FindOrCreate
  <2> QED BY <1>2, <1>4, <1>5, <1>7, <1>8, <2>1
<1>9. CASE code[n] = 0
  <2>1. code' = [code EXCEPT ![n] = lastcode'] /\ lastcode' = lastcode + 1
    BY <1>6, <1>9 DEF FindOrCreate
  <2>2. lastcode' \in Nat
    BY ONLY <1>7, <2>1
  <2>3. /\ code' \in [Names -> Nat] /\ code'[n] = lastcode + 1
        /\ \A m \in Names \ {n} : code'[m] = code[m]
    BY ONLY <1>7, <2>1, <2>2
  <2> HIDE DEF RegInv, RegTypeInv
  <2> QED BY <1>2, <1>4, <1>5, <1>9, <2>1, <2>2, <2>3
<1> QED BY <1>8, <1>9

LEMMA LeavesExact ==
  ASSUME RegInv, NEW t \in Threads, NEW n \in Names, Leaves(t, n)
  PROVE  /\ roster'[n] \in Seq(Queues) /\ IsInjective(roster'[n])
         /\ ToSet(roster'[n]) = ToSet(roster[n]) \ {QueueOf[t]}
         /\ roster' \in [Names -> Seq(Queues)]
         /\ \A m \in Names \ {n} : roster'[m] = roster[m] /\ code'[m] = code[m]
         /\ code' \in [Names -> Nat]
         /\ code'[n] = IF roster'[n] = <<>> THEN 0 ELSE code[n]
<1> USE DEF RegInv, RegTypeInv
<1>1. IsInjective(roster[n]) /\ roster[n] \in Seq(Queues)
  BY DEF RegistryExact
<1>2. /\ ListRemove(roster[n], QueueOf[t]) \in Seq(Queues)
      /\ IsInjective(ListRemove(roster[n], QueueOf[t]))
      /\ ToSet(ListRemove(roster[n], QueueOf[t])) = ToSet(roster[n]) \ {QueueOf[t]}
  BY <1>1, ListRemoved
<1> QED BY <1>2 DEF Leaves, DeleteUnused

LEMMA JoinStep ==
  ASSUME RegInv, NEW t \in Threads, NEW n \in Names, Joins(t, n)
  PROVE  CodesGiven' /\ RegistryExact'
<1>1. /\ code \in [Names -> Nat] /\ lastcode \in Nat
      /\ \A m \in Names : code[m] <= lastcode
      /\ \A m \in Names : code[m] # 0 <=> roster[m] # <<>>
      /\ \A m \in Names : IsInjective(roster[m])
      /\ \A m, k \in Names : code[m] = code[k] /\ code[m] # 0 => m = k
  BY DEF RegInv, RegTypeInv, CodesGiven, RegistryExact
<1>2. /\ roster'[n] \in Seq(Queues) /\ IsInjective(roster'[n])
      /\ QueueOf[t] \in ToSet(roster'[n])
      /\ \A m \in Names \ {n} : roster'[m] = roster[m] /\ code'[m] = code[m]
      /\ code' \in [Names -> Nat] /\ lastcode' \in Nat
      /\ code[n] # 0 => code'[n] = code[n] /\ lastcode' = lastcode
      /\ code[n] = 0 => code'[n] = lastcode + 1 /\ lastcode' = lastcode + 1
  BY JoinsExact
<1>3. roster'[n] # <<>> /\ code'[n] # 0
  <2>1. roster'[n] # <<>>
    BY <1>2, EmptyHasNone
  <2> QED BY <2>1, <1>1, <1>2
<1>4. \A m \in Names : code'[m] <= lastcode'
  BY <1>1, <1>2
<1>5. \A m, k \in Names : code'[m] = code'[k] /\ code'[m] # 0 => m = k
  <2>1. CASE code[n] # 0
    BY <2>1, <1>1, <1>2
  <2>2. CASE code[n] = 0
    <3>1. \A m \in Names \ {n} : code'[m] < code'[n]
      BY <2>2, <1>1, <1>2
    <3> QED BY <3>1, <1>1, <1>2
  <2> QED BY <2>1, <2>2
<1>6. \A m \in Names : code'[m] # 0 <=> roster'[m] # <<>>
  BY <1>1, <1>2, <1>3
<1> QED BY <1>1, <1>2, <1>4, <1>5, <1>6 DEF CodesGiven, RegistryExact

LEMMA LeaveStep ==
  ASSUME RegInv, NEW t \in Threads, NEW n \in Names, Leaves(t, n)
  PROVE  CodesGiven' /\ RegistryExact'
<1>1. /\ code \in [Names -> Nat] /\ lastcode \in Nat
      /\ \A m \in Names : code[m] <= lastcode
      /\ \A m \in Names : code[m] # 0 <=> roster[m] # <<>>
      /\ \A m \in Names : IsInjective(roster[m])
      /\ \A m, k \in Names : code[m] = code[k] /\ code[m] # 0 => m = k
  BY DEF RegInv, RegTypeInv, CodesGiven, RegistryExact
<1>2. /\ IsInjective(roster'[n])
      /\ \A m \in Names \ {n} : roster'[m] = roster[m] /\ code'[m] = code[m]
      /\ code' \in [Names -> Nat]
      /\ code'[n] = IF roster'[n] = <<>> THEN 0 ELSE code[n]
  BY LeavesExact
<1>3. lastcode' = lastcode /\ code[n] # 0
  <2>1. roster[n] # <<>>
    BY DEF Leaves, Contains
  <2> QED BY <2>1, <1>1 DEF Leaves
<1>4. \A m \in Names : code'[m] <= lastcode'
  BY <1>1, <1>2, <1>3
<1>5. \A m, k \in Names : code'[m] = code'[k] /\ code'[m] # 0 => m = k
  BY <1>1, <1>2
<1>6. \A m \in Names : code'[m] # 0 <=> roster'[m] # <<>>
  BY <1>1, <1>2, <1>3
<1> QED BY <1>1, <1>2, <1>4, <1>5, <1>6 DEF CodesGiven, RegistryExact

\* A turn of send's loop ends the call or leaves the thread in it.
LEMMA SendTurn ==
  ASSUME NEW t \in Threads, PassOver(t) \/ PostOne(t)
  PROVE  /\ pc[t] \in {"asking", "notifying"}
         /\ UNCHANGED <<code, roster, subs, lastcode, order, exited>>
         /\ Goes(t, "idle", 0) \/ UNCHANGED <<pc, arg>>
<1>1. ASSUME NEW rest, GoesOn(t, rest)
      PROVE  /\ UNCHANGED <<code, roster, subs, lastcode, order, exited>>
             /\ Goes(t, "idle", 0) \/ UNCHANGED <<pc, arg>>
  BY <1>1 DEF GoesOn
<1> QED BY <1>1 DEF PassOver, PostOne

\* Which steps touch the codes and the messages' rosters.
LEMMA RegistrySteps ==
  ASSUME RegInv, [RegistryNext]_vars
  PROVE  \/ \E t \in Threads, n \in Names : Subscribe(t, n) \/ Unsubscribe(t, n)
         \/ UNCHANGED <<code, roster, lastcode>>
BY SendTurn DEF RegistryNext, vars, Send, Receive, Exit, Note, Unnote, UnsubscribeFails

LEMMA SubscribeJoins ==
  ASSUME NEW t, NEW n, Subscribe(t, n) PROVE Joins(t, n)
BY DEF Subscribe, CallsAttached, Joins

LEMMA UnsubscribeLeaves ==
  ASSUME NEW t, NEW n, Unsubscribe(t, n) PROVE Leaves(t, n)
BY DEF Unsubscribe, Leaves

\* The rest of the types, with what only the queues' lists need.
LEMMA RegTypeStep ==
  ASSUME RegInv, \A q \in Queues : IsInjective(subs[q]), [RegistryNext]_vars
  PROVE  RegTypeInv' /\ \A q \in Queues : IsInjective(subs'[q])
<1> DEFINE Goal == RegTypeInv' /\ \A q \in Queues : IsInjective(subs'[q])
<1> USE RegistryAssumption DEF RegInv, RegTypeInv, Goes
<1>1. ASSUME NEW t \in Threads, NEW n \in Names, Subscribe(t, n) PROVE Goal
  <2>1. /\ roster' \in [Names -> Seq(Queues)]
        /\ code' \in [Names -> Nat] /\ lastcode' \in Nat
    BY <1>1, SubscribeJoins, JoinsExact
  <2> QED BY <1>1, <2>1 DEF Subscribe
<1>2. ASSUME NEW t \in Threads, NEW n \in Names, Unsubscribe(t, n) PROVE Goal
  <2>1. roster' \in [Names -> Seq(Queues)] /\ code' \in [Names -> Nat]
    BY <1>2, UnsubscribeLeaves, LeavesExact
  <2> QED BY <1>2, <2>1 DEF Unsubscribe
<1>3. ASSUME NEW t \in Threads, Note(t) PROVE Goal
  <2>1. ASSUME QueueOf[t] \in Queues
        PROVE  /\ ListAdd(subs[QueueOf[t]], arg[t]) \in Seq(Nat)
               /\ IsInjective(ListAdd(subs[QueueOf[t]], arg[t]))
    BY <2>1, ListAdded
  <2>2. subs' \in [Queues -> Seq(Nat)] /\ \A q \in Queues : IsInjective(subs'[q])
    BY <1>3, <2>1 DEF Note
  <2> QED BY <1>3, <2>2 DEF Note
<1>4. ASSUME NEW t \in Threads, NEW c \in Codes, Unnote(t, c) PROVE Goal
  <2>0. QueueOf[t] \in Queues
    BY <1>4 DEF Unnote, CallsAttached
  <2>1. /\ ListRemove(subs[QueueOf[t]], c) \in Seq(Nat)
        /\ IsInjective(ListRemove(subs[QueueOf[t]], c))
    BY <2>0, ListRemoved
  <2>2. c \in Nat
    BY DEF Codes
  <2> QED BY <1>4, <2>0, <2>1, <2>2 DEF Unnote
<1>5. ASSUME NEW t \in Threads, NEW n \in Names, NEW rreq \in BOOLEAN, Send(t, n, rreq)
      PROVE  Goal
  BY <1>5 DEF Send
<1>6. ASSUME NEW t \in Threads, UnsubscribeFails(t) \/ Receive(t) PROVE Goal
  <2>1. CASE UnsubscribeFails(t)
    BY <2>1 DEF UnsubscribeFails
  <2>2. CASE Receive(t)
    BY <2>2 DEF Receive
  <2> QED BY <1>6, <2>1, <2>2
<1>9. ASSUME NEW t \in Threads, PassOver(t) \/ PostOne(t) PROVE Goal
  <2>1. /\ UNCHANGED <<code, roster, subs, lastcode>>
        /\ Goes(t, "idle", 0) \/ UNCHANGED <<pc, arg>>
    BY <1>9, SendTurn
  <2>2. CASE Goes(t, "idle", 0)
    BY <2>1, <2>2
  <2>3. CASE UNCHANGED <<pc, arg>>
    BY <2>1, <2>3
  <2> QED BY <2>1, <2>2, <2>3
<1>7. ASSUME NEW q \in MayExit, Exit(q) PROVE Goal
  BY <1>7 DEF Exit
<1>8. CASE UNCHANGED vars
  BY <1>8 DEF vars
<1> QED BY <1>1, <1>2, <1>3, <1>4, <1>5, <1>6, <1>7, <1>8, <1>9 DEF RegistryNext

FullInv == RegInv /\ \A q \in Queues : IsInjective(subs[q])

LEMMA FullInit == RegistryInit => FullInv
BY RegInitInv DEF RegistryInit, FullInv, IsInjective

LEMMA FullStep == FullInv /\ [RegistryNext]_vars => FullInv'
<1> SUFFICES ASSUME FullInv, [RegistryNext]_vars PROVE FullInv'
  OBVIOUS
<1>1. RegTypeInv' /\ \A q \in Queues : IsInjective(subs'[q])
  BY RegTypeStep DEF FullInv
<1>2. ASSUME NEW t \in Threads, NEW n \in Names, Subscribe(t, n) \/ Unsubscribe(t, n)
      PROVE  CodesGiven' /\ RegistryExact'
  BY <1>2, JoinStep, LeaveStep, SubscribeJoins, UnsubscribeLeaves DEF FullInv
<1>3. ASSUME UNCHANGED <<code, roster, lastcode>> PROVE CodesGiven' /\ RegistryExact'
  <2>1. code' = code /\ roster' = roster /\ lastcode' = lastcode
    BY <1>3
  <2>2. CodesGiven /\ RegistryExact
    BY DEF FullInv, RegInv
  <2> QED BY <2>1, <2>2 DEF CodesGiven, RegistryExact
<1> QED BY <1>1, <1>2, <1>3, RegistrySteps DEF FullInv, RegInv

\* A message is registered exactly while somebody is subscribed, under a code
\* of its own, and no queue is in its roster twice, whoever subscribes and
\* unsubscribes at once.
THEOREM RegistryCorrect == RegistrySpec => []RegistryExact
<1>1. FullInv => RegistryExact
  BY DEF FullInv, RegInv
<1> QED BY <1>1, FullInit, FullStep, PTL DEF RegistrySpec

\* The code of a message does not change under a subscriber that stays.
THEOREM IdsFixed == RegistrySpec => IdFixed
<1>1. ASSUME FullInv, [RegistryNext]_vars, NEW n \in Names, NEW q \in Queues,
             Contains(roster[n], q), Contains(roster'[n], q)
      PROVE  code'[n] = code[n]
  <2>1. roster[n] # <<>> /\ roster'[n] # <<>>
    BY <1>1 DEF Contains
  <2>2. code[n] # 0 /\ code \in [Names -> Nat]
    BY <1>1, <2>1 DEF FullInv, RegInv, RegTypeInv, RegistryExact
  <2>3. ASSUME NEW t \in Threads, NEW m \in Names, Subscribe(t, m)
        PROVE  code'[n] = code[n]
    BY <1>1, <2>2, <2>3, SubscribeJoins, JoinsExact DEF FullInv
  <2>4. ASSUME NEW t \in Threads, NEW m \in Names, Unsubscribe(t, m)
        PROVE  code'[n] = code[n]
    BY <2>1, <2>2, <2>4 DEF Unsubscribe, DeleteUnused
  <2> QED BY <1>1, <2>3, <2>4, RegistrySteps DEF FullInv
<1>2. FullInv /\ [RegistryNext]_vars
        => [\A n \in Names :
              (\E q \in Queues : Contains(roster[n], q) /\ Contains(roster'[n], q))
                => code'[n] = code[n]]_vars
  BY <1>1
<1> QED BY <1>2, FullInit, FullStep, PTL DEF RegistrySpec, IdFixed
-----------------------------------------------------------------------------
(* The packets, and every variable's type.                                 *)

LEMMA EndsOfList ==
  ASSUME NEW S, NEW list \in Seq(S)
  PROVE  /\ \A x \in S : /\ Append(list, x) \in Seq(S) /\ Append(list, x) # <<>>
                         /\ ToSet(Append(list, x)) = ToSet(list) \cup {x}
         /\ list # <<>> => /\ Head(list) \in S /\ Head(list) \in ToSet(list)
                           /\ Tail(list) \in Seq(S) /\ Len(Tail(list)) = Len(list) - 1
                           /\ ToSet(Tail(list)) \subseteq ToSet(list)
<1>1. ASSUME NEW x \in S
      PROVE  /\ Append(list, x) \in Seq(S) /\ Append(list, x) # <<>>
             /\ ToSet(Append(list, x)) = ToSet(list) \cup {x}
  <2> DEFINE r == Append(list, x)
  <2>1. /\ r \in Seq(S) /\ Len(r) = Len(list) + 1 /\ DOMAIN r = 1 .. Len(list) + 1
        /\ DOMAIN list = 1 .. Len(list) /\ Len(list) \in Nat
        /\ \A i \in 1 .. Len(list) : r[i] = list[i]
        /\ r[Len(list) + 1] = x
    OBVIOUS
  <2> HIDE DEF r
  <2>2. ToSet(r) = ToSet(list) \cup {x}
    BY <2>1 DEF ToSet
  <2>3. r # <<>>
    BY <2>1
  <2> QED BY <2>1, <2>2, <2>3 DEF r
<1>2. ASSUME list # <<>>
      PROVE  /\ Head(list) \in S /\ Head(list) \in ToSet(list)
             /\ Tail(list) \in Seq(S) /\ Len(Tail(list)) = Len(list) - 1
             /\ ToSet(Tail(list)) \subseteq ToSet(list)
  <2> DEFINE r == Tail(list)
  <2>1. /\ r \in Seq(S) /\ Len(r) = Len(list) - 1 /\ DOMAIN r = 1 .. Len(list) - 1
        /\ DOMAIN list = 1 .. Len(list) /\ Len(list) \in Nat \ {0}
        /\ \A i \in 1 .. Len(list) - 1 : r[i] = list[i + 1]
        /\ Head(list) = list[1] /\ list[1] \in S
    BY <1>2
  <2> HIDE DEF r
  <2>2. ToSet(r) \subseteq ToSet(list)
    BY <2>1 DEF ToSet
  <2>3. Head(list) \in ToSet(list)
    BY <2>1 DEF ToSet
  <2> QED BY <2>1, <2>2, <2>3 DEF r
<1> QED BY <1>1, <1>2

LEMMA StruckTyped ==
  ASSUME NEW S, NEW list \in Seq(S), NEW x PROVE Struck(list, x) \in Seq(S)
<1>1. CASE ~Contains(list, x)
  BY <1>1 DEF Struck
<1>2. CASE Contains(list, x)
  <2> DEFINE k == CHOOSE i \in DOMAIN list : list[i] = x
  <2>1. k \in 1 .. Len(list)
    BY <1>2 DEF Contains
  <2> HIDE DEF k
  <2>2. SubSeq(list, 1, k - 1) \in Seq(S) /\ SubSeq(list, k + 1, Len(list)) \in Seq(S)
    BY <2>1
  <2>3. SubSeq(list, 1, k - 1) \o SubSeq(list, k + 1, Len(list)) \in Seq(S)
    BY <2>2
  <2> QED BY <1>2, <2>3 DEF Struck, RemoveAt, k
<1> QED BY <1>1, <1>2

\* A thread that is in a call works with a code that was given out.
PacketsInv ==
  /\ RegistryTypeOK
  /\ \A t \in Threads : pc[t] # "idle" => arg[t] \in Codes

LEMMA PacketsInit == RegistryInit => PacketsInv
BY RegistryAssumption DEF RegistryInit, RegistryTypeOK, PacketsInv

\* Where a thread goes when it stays out of send.
LEMMA GoesTyped ==
  ASSUME RegistryTypeOK, \A u \in Threads : pc[u] # "idle" => arg[u] \in Codes,
         NEW t \in Threads, NEW c, NEW place,
         \/ place \in {"subscribing", "unsubscribing"} /\ c \in Codes
         \/ place = "idle" /\ c = 0,
         pc[t] \notin {"asking", "notifying"},
         Goes(t, place, c), UNCHANGED todo
  PROVE  /\ pc' \in [Threads -> {"idle", "subscribing", "unsubscribing", "asking", "notifying"}]
         /\ arg' \in [Threads -> Codes \cup {0}]
         /\ todo' \in [Threads -> Seq(Queues)]
         /\ \A u \in Threads : pc'[u] \in {"asking", "notifying"} <=> todo'[u] # <<>>
         /\ \A u \in Threads : pc'[u] # "idle" => arg'[u] \in Codes
BY DEF RegistryTypeOK, Goes

\* And in its loop: it goes on with what is left, or is done.
LEMMA LoopTyped ==
  ASSUME RegistryTypeOK, \A u \in Threads : pc[u] # "idle" => arg[u] \in Codes,
         NEW t \in Threads, NEW rest \in Seq(Queues),
         pc[t] \in {"asking", "notifying"}, GoesOn(t, rest)
  PROVE  /\ pc' \in [Threads -> {"idle", "subscribing", "unsubscribing", "asking", "notifying"}]
         /\ arg' \in [Threads -> Codes \cup {0}]
         /\ todo' \in [Threads -> Seq(Queues)]
         /\ \A u \in Threads : pc'[u] \in {"asking", "notifying"} <=> todo'[u] # <<>>
         /\ \A u \in Threads : pc'[u] # "idle" => arg'[u] \in Codes
<1> USE DEF RegistryTypeOK
<1>1. todo' = [todo EXCEPT ![t] = rest]
  BY DEF GoesOn
<1>2. CASE rest = <<>>
  <2>1. Goes(t, "idle", 0)
    BY <1>2 DEF GoesOn
  <2> QED BY <1>1, <1>2, <2>1 DEF Goes
<1>3. CASE rest # <<>>
  <2>1. UNCHANGED <<pc, arg>>
    BY <1>3 DEF GoesOn
  <2> QED BY <1>1, <1>3, <2>1
<1> QED BY <1>2, <1>3

LEMMA PacketsStep ==
  ASSUME FullInv, PacketsInv, [RegistryNext]_vars
  PROVE  PacketsInv'
<1> USE RegistryAssumption
<1>0. /\ RegistryTypeOK
      /\ \A t \in Threads : pc[t] # "idle" => arg[t] \in Codes
      /\ \A q \in Queues : IsInjective(subs[q])
      /\ \A n \in Names : IsInjective(roster[n]) /\ (code[n] # 0 <=> roster[n] # <<>>)
  BY DEF PacketsInv, FullInv, RegInv, RegistryExact
<1>1. ASSUME NEW t \in Threads, NEW n \in Names, Subscribe(t, n) PROVE PacketsInv'
  <2>1. QueueOf[t] \in Queues /\ roster[n] \in Seq(Queues) /\ order[n] \in Seq(Queues)
    BY <1>0, <1>1 DEF Subscribe, CallsAttached, RegistryTypeOK
  <2>2. /\ Append(roster[n], QueueOf[t]) \in Seq(Queues)
        /\ Append(order[n], QueueOf[t]) \in Seq(Queues)
    BY <2>1
  <2>3. /\ code' \in [Names -> Codes \cup {0}] /\ lastcode' \in Codes \cup {0}
        /\ code'[n] \in Codes
    <3>0. code \in [Names -> Codes \cup {0}] /\ lastcode \in Codes \cup {0}
      BY <1>0 DEF RegistryTypeOK
    <3>1. CASE code[n] # 0
      <4>1. UNCHANGED <<code, lastcode>>
        BY <1>1, <3>1 DEF Subscribe, FindOrCreate
      <4> QED BY <3>0, <3>1, <4>1
    <3>2. CASE code[n] = 0
      <4>1. /\ lastcode < MaxCode /\ lastcode' = lastcode + 1
            /\ code' = [code EXCEPT ![n] = lastcode']
        BY <1>1, <3>2 DEF Subscribe, FindOrCreate
      <4>2. lastcode' \in Codes
        BY <3>0, <4>1 DEF Codes
      <4> QED BY <3>0, <4>1, <4>2
    <3> QED BY <3>1, <3>2
  <2>4. /\ roster' \in [Names -> Seq(Queues)] /\ order' \in [Names -> Seq(Queues)]
        /\ UNCHANGED <<subs, inbox, exited, todo>>
        /\ pc[t] = "idle" /\ Goes(t, "subscribing", code'[n])
    BY <1>0, <1>1, <2>2 DEF Subscribe, CallsAttached, Calls, RegistryTypeOK
  <2> QED BY <1>0, <2>3, <2>4, GoesTyped DEF PacketsInv, RegistryTypeOK
<1>2. ASSUME NEW t \in Threads, NEW n \in Names, Unsubscribe(t, n) PROVE PacketsInv'
  <2>1. roster[n] \in Seq(Queues) /\ order[n] \in Seq(Queues) /\ IsInjective(roster[n])
    BY <1>0 DEF RegistryTypeOK
  <2>2. ListRemove(roster[n], QueueOf[t]) \in Seq(Queues)
    BY <2>1, ListRemoved
  <2>3. Struck(order[n], QueueOf[t]) \in Seq(Queues)
    BY <2>1, StruckTyped
  <2>4. /\ code' \in [Names -> Codes \cup {0}] /\ lastcode' = lastcode
        /\ roster' \in [Names -> Seq(Queues)] /\ order' \in [Names -> Seq(Queues)]
        /\ UNCHANGED <<subs, inbox, exited, todo>>
        /\ pc[t] = "unsubscribing" /\ Goes(t, "idle", 0)
    BY <1>0, <1>2, <2>2, <2>3 DEF Unsubscribe, DeleteUnused, RegistryTypeOK
  <2> QED BY <1>0, <2>4, GoesTyped DEF PacketsInv, RegistryTypeOK
<1>3. ASSUME NEW t \in Threads, Note(t) PROVE PacketsInv'
  <2>1. arg[t] \in Codes
    BY <1>0, <1>3 DEF Note, RegistryTypeOK
  <2>2. ASSUME QueueOf[t] \in Queues
        PROVE  ListAdd(subs[QueueOf[t]], arg[t]) \in Seq(Codes)
    BY <1>0, <2>1, <2>2, ListAdded DEF RegistryTypeOK
  <2>3. /\ subs' \in [Queues -> Seq(Codes)]
        /\ UNCHANGED <<code, roster, lastcode, order, inbox, exited, todo>>
        /\ pc[t] = "subscribing" /\ Goes(t, "idle", 0)
    BY <1>0, <1>3, <2>2 DEF Note, RegistryTypeOK
  <2> QED BY <1>0, <2>3, GoesTyped DEF PacketsInv, RegistryTypeOK
<1>4. ASSUME NEW t \in Threads, NEW c \in Codes, Unnote(t, c) PROVE PacketsInv'
  <2>1. /\ QueueOf[t] \in Queues /\ subs[QueueOf[t]] \in Seq(Codes)
        /\ IsInjective(subs[QueueOf[t]])
    BY <1>0, <1>4 DEF Unnote, CallsAttached, RegistryTypeOK
  <2>2. ListRemove(subs[QueueOf[t]], c) \in Seq(Codes)
    BY <2>1, ListRemoved
  <2>3. /\ subs' \in [Queues -> Seq(Codes)]
        /\ UNCHANGED <<code, roster, lastcode, order, inbox, exited, todo>>
        /\ pc[t] = "idle" /\ Goes(t, "unsubscribing", c)
    BY <1>0, <1>4, <2>2 DEF Unnote, CallsAttached, Calls, RegistryTypeOK
  <2> QED BY <1>0, <2>3, GoesTyped DEF PacketsInv, RegistryTypeOK
<1>5. ASSUME NEW t \in Threads, UnsubscribeFails(t) PROVE PacketsInv'
  <2>1. /\ UNCHANGED <<code, roster, subs, lastcode, order, inbox, exited, todo>>
        /\ pc[t] = "unsubscribing" /\ Goes(t, "idle", 0)
    BY <1>5 DEF UnsubscribeFails
  <2> QED BY <1>0, <2>1, GoesTyped DEF PacketsInv, RegistryTypeOK
<1>6. ASSUME NEW t \in Threads, NEW n \in Names, NEW rreq \in BOOLEAN, Send(t, n, rreq)
      PROVE  PacketsInv'
  <2> DEFINE place == IF rreq THEN "asking" ELSE "notifying"
  <2>1. /\ UNCHANGED <<code, roster, subs, lastcode, order, inbox, exited>>
        /\ todo' = [todo EXCEPT ![t] = roster[n]] /\ roster[n] # <<>>
        /\ code[n] \in Codes /\ roster[n] \in Seq(Queues)
        /\ pc' = [pc EXCEPT ![t] = place] /\ arg' = [arg EXCEPT ![t] = code[n]]
    BY <1>0, <1>6 DEF Send, Goes, RegistryTypeOK
  <2> QED BY <1>0, <2>1 DEF PacketsInv, RegistryTypeOK
<1>7. ASSUME NEW t \in Threads, PassOver(t) PROVE PacketsInv'
  <2>1. pc[t] \in {"asking", "notifying"} /\ todo[t] \in Seq(Queues) /\ todo[t] # <<>>
    BY <1>0, <1>7 DEF PassOver, RegistryTypeOK
  <2>2. Tail(todo[t]) \in Seq(Queues)
    BY <2>1
  <2>3. /\ UNCHANGED <<code, roster, subs, lastcode, order, inbox, exited>>
        /\ GoesOn(t, Tail(todo[t]))
    BY <1>7 DEF PassOver, GoesOn
  <2> QED BY <1>0, <2>1, <2>2, <2>3, LoopTyped DEF PacketsInv, RegistryTypeOK
<1>8. ASSUME NEW t \in Threads, PostOne(t) PROVE PacketsInv'
  <2> DEFINE q == Head(todo[t])
             p == [code |-> arg[t], from |-> ModuleOf[t]]
             P == [code : Codes, from : Queues]
  <2>1. /\ pc[t] \in {"asking", "notifying"} /\ todo[t] \in Seq(Queues) /\ todo[t] # <<>>
        /\ arg[t] \in Codes
    BY <1>0, <1>8 DEF PostOne, RegistryTypeOK
  <2>2. Tail(todo[t]) \in Seq(Queues) /\ q \in Queues /\ p \in P /\ <<>> \in Seq(Queues)
    BY <2>1
  <2>3. PICK rest \in Seq(Queues) : GoesOn(t, rest)
    BY <1>8, <2>2 DEF PostOne
  <2>4. inbox[q] \in Seq(P)
    BY <1>0, <2>2 DEF RegistryTypeOK
  <2>5. Append(inbox[q], p) \in Seq(P)
    <3> HIDE DEF P, p, q
    <3>1. \A x \in P : Append(inbox[q], x) \in Seq(P)
      BY <2>4, EndsOfList
    <3> QED BY <3>1, <2>2
  <2>6. inbox' \in [Queues -> Seq(P)]
    BY <1>0, <1>8, <2>2, <2>5 DEF PostOne, RegistryTypeOK
  <2>7. UNCHANGED <<code, roster, subs, lastcode, order, exited>>
    BY <2>3 DEF GoesOn
  <2> QED BY <1>0, <2>1, <2>3, <2>6, <2>7, LoopTyped DEF PacketsInv, RegistryTypeOK
<1>9. ASSUME NEW t \in Threads, Receive(t) PROVE PacketsInv'
  <2> DEFINE q == QueueOf[t]
             P == [code : Codes, from : Queues]
  <2>1. q \in Queues /\ inbox[q] \in Seq(P) /\ inbox[q] # <<>>
    BY <1>0, <1>9 DEF Receive, CallsAttached, RegistryTypeOK
  <2>2. Tail(inbox[q]) \in Seq(P)
    BY <2>1, EndsOfList
  <2>3. /\ inbox' \in [Queues -> Seq(P)]
        /\ UNCHANGED <<code, roster, subs, lastcode, pc, arg, todo, order, exited>>
    BY <1>0, <1>9, <2>1, <2>2 DEF Receive, RegistryTypeOK
  <2> QED BY <1>0, <2>3 DEF PacketsInv, RegistryTypeOK
<1>10. ASSUME NEW q \in MayExit, Exit(q) PROVE PacketsInv'
  BY <1>0, <1>10 DEF Exit, PacketsInv, RegistryTypeOK
<1>11. CASE UNCHANGED vars
  BY <1>0, <1>11 DEF vars, PacketsInv, RegistryTypeOK
<1> QED BY <1>1, <1>2, <1>3, <1>4, <1>5, <1>6, <1>7, <1>8, <1>9, <1>10, <1>11
        DEF RegistryNext

\* Codes, rosters, packets and what a call has in hand keep their types: in
\* particular a sender always has a queue left to post to.
THEOREM RegistryTypes == RegistrySpec => []RegistryTypeOK
<1>1. PacketsInv => RegistryTypeOK
  BY DEF PacketsInv
<1>2. FullInv /\ PacketsInv /\ [RegistryNext]_vars => PacketsInv'
  BY PacketsStep
<1> QED BY <1>1, <1>2, FullInit, PacketsInit, FullStep, PTL DEF RegistrySpec

-----------------------------------------------------------------------------
(* A queue's own list, whatever number of threads change it.              *)

\* The codes of the messages a queue receives.
Wanted(q) == {code[n] : n \in {m \in Names : Contains(roster[m], q)}}

\* A thread of queue q is between the two rosters, with code c.
Changes(q, c) ==
  \E t \in Threads :
    QueueOf[t] = q /\ arg[t] = c /\ pc[t] \in {"subscribing", "unsubscribing"}

\* A message that is missing from the list is about to be added to it, or to
\* go: subscribe enters the message's roster first, unsubscribe leaves it last.
ListsInv ==
  \A q \in Queues : \A c \in Wanted(q) : c \in ToSet(subs[q]) \/ Changes(q, c)

LEMMA WantedJoin ==
  ASSUME FullInv, NEW t \in Threads, NEW n \in Names, Joins(t, n), NEW q
  PROVE  Wanted(q)' = IF q = QueueOf[t] THEN Wanted(q) \cup {code'[n]} ELSE Wanted(q)
<1>1. /\ code \in [Names -> Nat] /\ roster \in [Names -> Seq(Queues)]
      /\ \A m \in Names : code[m] # 0 <=> roster[m] # <<>>
  BY DEF FullInv, RegInv, RegTypeInv, RegistryExact
<1>2. /\ ToSet(roster'[n]) = ToSet(roster[n]) \cup {QueueOf[t]}
      /\ roster' \in [Names -> Seq(Queues)]
      /\ \A m \in Names \ {n} : roster'[m] = roster[m] /\ code'[m] = code[m]
      /\ code[n] # 0 => code'[n] = code[n]
  BY JoinsExact DEF FullInv
<1>3. \A m \in Names : Contains(roster'[m], q) <=>
                         Contains(roster[m], q) \/ (m = n /\ q = QueueOf[t])
  BY <1>1, <1>2, ContainsInSet
<1>4. \A m \in Names : Contains(roster[m], q) => code'[m] = code[m]
  <2>1. Contains(roster[n], q) => roster[n] # <<>>
    BY DEF Contains
  <2> QED BY <2>1, <1>1, <1>2
<1> QED BY <1>3, <1>4 DEF Wanted

LEMMA WantedLeave ==
  ASSUME FullInv, NEW t \in Threads, NEW n \in Names, Leaves(t, n), NEW q
  PROVE  Wanted(q)' = IF q = QueueOf[t] THEN Wanted(q) \ {code[n]} ELSE Wanted(q)
<1>1. /\ code \in [Names -> Nat] /\ roster \in [Names -> Seq(Queues)]
      /\ \A m \in Names : code[m] # 0 <=> roster[m] # <<>>
      /\ \A m, k \in Names : code[m] = code[k] /\ code[m] # 0 => m = k
  BY DEF FullInv, RegInv, RegTypeInv, RegistryExact
<1>2. /\ ToSet(roster'[n]) = ToSet(roster[n]) \ {QueueOf[t]}
      /\ roster' \in [Names -> Seq(Queues)]
      /\ \A m \in Names \ {n} : roster'[m] = roster[m] /\ code'[m] = code[m]
      /\ code'[n] = IF roster'[n] = <<>> THEN 0 ELSE code[n]
  BY LeavesExact DEF FullInv
<1>3. \A m \in Names : Contains(roster'[m], q) <=>
                         Contains(roster[m], q) /\ ~(m = n /\ q = QueueOf[t])
  BY <1>1, <1>2, ContainsInSet
<1>4. \A m \in Names : Contains(roster'[m], q) => code'[m] = code[m]
  <2>1. Contains(roster'[n], q) => roster'[n] # <<>>
    BY DEF Contains
  <2> QED BY <2>1, <1>2
<1>5. \A m \in Names : Contains(roster[m], q) => code[m] # 0
  <2>1. \A m \in Names : Contains(roster[m], q) => roster[m] # <<>>
    BY DEF Contains
  <2> QED BY <2>1, <1>1
<1>6. CASE q # QueueOf[t]
  BY <1>3, <1>4, <1>6 DEF Wanted
<1>7. CASE q = QueueOf[t]
  <2>1. \A m \in Names : Contains(roster[m], q) /\ code[m] = code[n] => m = n
    BY <1>1, <1>5
  <2>2. \A m \in Names \ {n} : Contains(roster'[m], q) <=> Contains(roster[m], q)
    BY <1>3
  <2>3. ~Contains(roster'[n], q)
    BY <1>3, <1>7
  <2> QED BY <1>2, <1>7, <2>1, <2>2, <2>3 DEF Wanted
<1> QED BY <1>6, <1>7

LEMMA ListsInit == RegistryInit => ListsInv
<1> SUFFICES ASSUME RegistryInit, NEW q \in Queues PROVE Wanted(q) = {}
  BY DEF ListsInv
<1>1. \A n \in Names : ~Contains(roster[n], q)
  BY DEF RegistryInit, Contains
<1> QED BY <1>1 DEF Wanted

\* A thread that starts or ends a call, or sends, as the others' lists see it:
\* what it was changing has come true or is no longer wanted.
LEMMA ListsKept ==
  ASSUME FullInv, ListsInv, NEW t \in Threads,
         pc' = [pc EXCEPT ![t] = pc'[t]], arg' = [arg EXCEPT ![t] = arg'[t]],
         NEW q \in Queues, NEW c \in Wanted(q)',
         c \in Wanted(q) \/ Changes(q, c)',
         c \in ToSet(subs[q]) => c \in ToSet(subs'[q]) \/ Changes(q, c)',
         QueueOf[t] = q /\ arg[t] = c /\ pc[t] \in {"subscribing", "unsubscribing"}
           => c \in ToSet(subs'[q]) \/ Changes(q, c)'
  PROVE  c \in ToSet(subs'[q]) \/ Changes(q, c)'
<1> USE DEF FullInv, RegInv, RegTypeInv
<1>1. CASE c \in Wanted(q) /\ c \in ToSet(subs[q])
  BY <1>1
<1>2. CASE c \in Wanted(q) /\ Changes(q, c)
  <2>1. PICK u \in Threads :
          QueueOf[u] = q /\ arg[u] = c /\ pc[u] \in {"subscribing", "unsubscribing"}
    BY <1>2 DEF Changes
  <2>2. CASE u = t
    BY <2>1, <2>2
  <2>3. CASE u # t
    <3>1. pc'[u] = pc[u] /\ arg'[u] = arg[u]
      BY <2>3
    <3> QED BY <2>1, <3>1 DEF Changes
  <2> QED BY <2>2, <2>3
<1> QED BY <1>1, <1>2 DEF ListsInv

LEMMA ListsStep ==
  ASSUME FullInv, ListsInv, [RegistryNext]_vars
  PROVE  ListsInv'
<1> DEFINE Listed(q, c) == c \in ToSet(subs'[q]) \/ Changes(q, c)'
<1>0. /\ pc \in [Threads -> {"idle", "subscribing", "unsubscribing", "asking", "notifying"}]
      /\ arg \in [Threads -> Nat] /\ subs \in [Queues -> Seq(Nat)]
      /\ \A q \in Queues : IsInjective(subs[q])
  BY DEF FullInv, RegInv, RegTypeInv
<1>1. ASSUME NEW t \in Threads, NEW n \in Names, Subscribe(t, n),
             NEW q \in Queues, NEW c \in Wanted(q)'
      PROVE  Listed(q, c)
  <2>1. Wanted(q)' = IF q = QueueOf[t] THEN Wanted(q) \cup {code'[n]} ELSE Wanted(q)
    BY <1>1, SubscribeJoins, WantedJoin
  <2>2. /\ pc[t] = "idle" /\ pc' = [pc EXCEPT ![t] = "subscribing"]
        /\ arg' = [arg EXCEPT ![t] = code'[n]] /\ subs' = subs
    BY <1>1 DEF Subscribe, CallsAttached, Calls, Goes
  <2>3. pc'[t] = "subscribing" /\ arg'[t] = code'[n]
    BY <1>0, <2>2
  <2>4. c \in Wanted(q) \/ Changes(q, c)'
    BY <1>1, <2>1, <2>3 DEF Changes
  <2> QED BY <1>1, <2>2, <2>3, <2>4, ListsKept
<1>2. ASSUME NEW t \in Threads, NEW n \in Names, Unsubscribe(t, n),
             NEW q \in Queues, NEW c \in Wanted(q)'
      PROVE  Listed(q, c)
  <2>1. Wanted(q)' = IF q = QueueOf[t] THEN Wanted(q) \ {code[n]} ELSE Wanted(q)
    BY <1>2, UnsubscribeLeaves, WantedLeave
  <2>2. /\ code[n] = arg[t] /\ subs' = subs
        /\ pc' = [pc EXCEPT ![t] = "idle"] /\ arg' = [arg EXCEPT ![t] = 0]
    BY <1>2 DEF Unsubscribe, Goes
  <2>3. c \in Wanted(q) /\ ~(q = QueueOf[t] /\ c = arg[t])
    BY <1>2, <2>1, <2>2
  <2>4. pc' = [pc EXCEPT ![t] = pc'[t]] /\ arg' = [arg EXCEPT ![t] = arg'[t]]
    BY <1>0, <2>2
  <2> QED BY <1>2, <2>2, <2>3, <2>4, ListsKept
<1>3. ASSUME NEW t \in Threads, Note(t), NEW q \in Queues, NEW c \in Wanted(q)'
      PROVE  Listed(q, c)
  <2>1. /\ UNCHANGED <<code, roster>>
        /\ subs' = [subs EXCEPT ![QueueOf[t]] = ListAdd(@, arg[t])]
        /\ pc' = [pc EXCEPT ![t] = "idle"] /\ arg' = [arg EXCEPT ![t] = 0]
    BY <1>3 DEF Note, Goes
  <2>2. c \in Wanted(q)
    BY <1>3, <2>1 DEF Wanted
  <2>3. CASE q = QueueOf[t]
    <3>1. subs[q] \in Seq(Nat) /\ arg[t] \in Nat /\ IsInjective(subs[q])
      BY <1>0
    <3>2. subs'[q] = ListAdd(subs[q], arg[t])
      BY <1>0, <2>1, <2>3
    <3>3. ToSet(subs'[q]) = ToSet(subs[q]) \cup {arg[t]}
      BY <3>1, <3>2, ListAdded
    <3>4. pc' = [pc EXCEPT ![t] = pc'[t]] /\ arg' = [arg EXCEPT ![t] = arg'[t]]
      BY <1>0, <2>1
    <3> QED BY <1>3, <2>2, <3>3, <3>4, ListsKept
  <2>4. CASE q # QueueOf[t]
    <3>1. subs'[q] = subs[q]
      BY <1>0, <2>1, <2>4
    <3>2. pc' = [pc EXCEPT ![t] = pc'[t]] /\ arg' = [arg EXCEPT ![t] = arg'[t]]
      BY <1>0, <2>1
    <3> QED BY <1>3, <2>2, <2>4, <3>1, <3>2, ListsKept
  <2> QED BY <2>3, <2>4
<1>4. ASSUME NEW t \in Threads, NEW d \in Codes, Unnote(t, d),
             NEW q \in Queues, NEW c \in Wanted(q)'
      PROVE  Listed(q, c)
  <2>1. /\ pc[t] = "idle" /\ UNCHANGED <<code, roster>>
        /\ subs' = [subs EXCEPT ![QueueOf[t]] = ListRemove(@, d)]
        /\ pc' = [pc EXCEPT ![t] = "unsubscribing"] /\ arg' = [arg EXCEPT ![t] = d]
    BY <1>4 DEF Unnote, CallsAttached, Calls, Goes
  <2>2. c \in Wanted(q)
    BY <1>4, <2>1 DEF Wanted
  <2>3. pc' = [pc EXCEPT ![t] = pc'[t]] /\ arg' = [arg EXCEPT ![t] = arg'[t]]
    BY <1>0, <2>1
  <2>4. CASE q = QueueOf[t] /\ c = d
    BY <1>0, <2>1, <2>4 DEF Changes
  <2>5. CASE ~(q = QueueOf[t] /\ c = d)
    <3>1. c \in ToSet(subs[q]) => c \in ToSet(subs'[q])
      <4>1. CASE q = QueueOf[t]
        <5>1. subs'[q] = ListRemove(subs[q], d) /\ subs[q] \in Seq(Nat) /\ IsInjective(subs[q])
          BY <1>0, <2>1, <4>1
        <5>2. ToSet(subs'[q]) = ToSet(subs[q]) \ {d}
          BY <5>1, ListRemoved
        <5> QED BY <2>5, <4>1, <5>2
      <4>2. CASE q # QueueOf[t]
        BY <1>0, <2>1, <4>2
      <4> QED BY <4>1, <4>2
    <3> QED BY <1>4, <2>1, <2>2, <2>3, <3>1, ListsKept
  <2> QED BY <2>4, <2>5
<1>5. ASSUME NEW t \in Threads, UnsubscribeFails(t), NEW q \in Queues, NEW c \in Wanted(q)'
      PROVE  Listed(q, c)
  <2>1. /\ UNCHANGED <<code, roster, subs>>
        /\ pc' = [pc EXCEPT ![t] = "idle"] /\ arg' = [arg EXCEPT ![t] = 0]
    BY <1>5 DEF UnsubscribeFails, Goes
  <2>2. c \in Wanted(q)
    BY <1>5, <2>1 DEF Wanted
  <2>3. arg[t] \notin Wanted(QueueOf[t])
    BY <1>5 DEF UnsubscribeFails, Wanted
  <2>4. pc' = [pc EXCEPT ![t] = pc'[t]] /\ arg' = [arg EXCEPT ![t] = arg'[t]]
    BY <1>0, <2>1
  <2> QED BY <1>5, <2>1, <2>2, <2>3, <2>4, ListsKept
\* The rest changes neither rosters nor codes, and starts or ends sends only.
<1>6. ASSUME NEW t \in Threads,
             \/ \E n \in Names, rreq \in BOOLEAN : Send(t, n, rreq)
             \/ PassOver(t) \/ PostOne(t),
             NEW q \in Queues, NEW c \in Wanted(q)'
      PROVE  Listed(q, c)
  <2>1. /\ pc[t] \notin {"subscribing", "unsubscribing"}
        /\ pc' = [pc EXCEPT ![t] = pc'[t]] /\ arg' = [arg EXCEPT ![t] = arg'[t]]
        /\ UNCHANGED <<code, roster, subs>>
    <3>1. CASE \E n \in Names, rreq \in BOOLEAN : Send(t, n, rreq)
      BY <1>0, <3>1 DEF Send, Calls, Goes
    <3>2. CASE PassOver(t) \/ PostOne(t)
      <4>1. /\ pc[t] \in {"asking", "notifying"} /\ UNCHANGED <<code, roster, subs>>
            /\ Goes(t, "idle", 0) \/ UNCHANGED <<pc, arg>>
        BY <3>2, SendTurn
      <4> QED BY <1>0, <4>1 DEF Goes
    <3> QED BY <1>6, <3>1, <3>2
  <2>2. c \in Wanted(q)
    BY <1>6, <2>1 DEF Wanted
  <2> QED BY <1>6, <2>1, <2>2, ListsKept
<1>7. ASSUME UNCHANGED <<code, roster, subs, pc, arg>>, NEW q \in Queues, NEW c \in Wanted(q)'
      PROVE  Listed(q, c)
  <2>1. c \in Wanted(q)
    BY <1>7 DEF Wanted
  <2>2. Changes(q, c) => Changes(q, c)'
    BY <1>7 DEF Changes
  <2> QED BY <1>7, <2>1, <2>2 DEF ListsInv
<1>8. ASSUME NEW t \in Threads, Receive(t) PROVE UNCHANGED <<code, roster, subs, pc, arg>>
  BY <1>8 DEF Receive
<1>9. ASSUME NEW q \in MayExit, Exit(q) PROVE UNCHANGED <<code, roster, subs, pc, arg>>
  BY <1>9 DEF Exit
<1>10. ASSUME UNCHANGED vars PROVE UNCHANGED <<code, roster, subs, pc, arg>>
  BY <1>10 DEF vars
<1> SUFFICES ASSUME NEW q \in Queues, NEW c \in Wanted(q)' PROVE Listed(q, c)
  BY DEF ListsInv
<1> QED BY <1>1, <1>2, <1>3, <1>4, <1>5, <1>6, <1>7, <1>8, <1>9, <1>10 DEF RegistryNext

\* Whatever the threads of a queue subscribe and unsubscribe at once, the list
\* the queue keeps misses none of the messages whose rosters it is in, whenever
\* no call is between the two.
THEOREM ListsAgree == RegistrySpec => []RosterListsReceived
<1>1. ListsInv => RosterListsReceived
  BY DEF ListsInv, RosterListsReceived, Wanted, Changes
<1>2. FullInv /\ ListsInv /\ [RegistryNext]_vars => ListsInv'
  BY ListsStep
<1> QED BY <1>1, <1>2, FullInit, ListsInit, FullStep, PTL DEF RegistrySpec
-----------------------------------------------------------------------------
(* The C++ objects.                                                        *)

\* An object does not see what other threads do with its queue.
AloneOnQueue == \A t \in Wrapped, u \in Threads : QueueOf[u] = QueueOf[t] => u = t

\* The messages that the queue of thread t receives, and those among them that
\* its object has noted.
Mine(t) == {n \in Names : Contains(roster[n], QueueOf[t])}
Known(t) == IF pc[t] = "subscribing" THEN Mine(t) \ {called[t]} ELSE Mine(t)

ObjectInv(t) ==
  /\ DOMAIN rev[t] = Known(t) /\ DOMAIN fwd[t] = {code[n] : n \in Known(t)}
  /\ \A n \in Known(t) : rev[t][n] = code[n] /\ fwd[t][code[n]] = n
  /\ pc[t] = "subscribing" => called[t] \in Mine(t) /\ arg[t] = code[called[t]]

PlusInv ==
  /\ DOMAIN fwd = Wrapped /\ DOMAIN rev = Wrapped /\ DOMAIN called = Wrapped
  /\ DOMAIN handed = Wrapped
  /\ \A t \in Wrapped : ObjectInv(t)

\* What a queue receives has a code, and one of its own.
LEMMA MineCoded ==
  ASSUME FullInv, NEW t
  PROVE  /\ \A n \in Mine(t) : n \in Names /\ code[n] # 0 /\ code[n] \in Nat
         /\ \A m, n \in Mine(t) : code[m] = code[n] => m = n
<1>1. \A n \in Names : /\ code[n] \in Nat /\ (code[n] # 0 <=> roster[n] # <<>>)
                       /\ Contains(roster[n], QueueOf[t]) => roster[n] # <<>>
  BY DEF FullInv, RegInv, RegTypeInv, RegistryExact, Contains
<1>2. \A m, n \in Names : code[m] = code[n] /\ code[m] # 0 => m = n
  BY DEF FullInv, RegInv, RegistryExact
<1> QED BY <1>1, <1>2 DEF Mine

LEMMA MineJoin ==
  ASSUME FullInv, NEW u \in Threads, NEW n \in Names, Joins(u, n), NEW t
  PROVE  /\ Mine(t)' = IF QueueOf[t] = QueueOf[u] THEN Mine(t) \cup {n} ELSE Mine(t)
         /\ \A m \in Mine(t) : code'[m] = code[m]
<1>1. /\ ToSet(roster'[n]) = ToSet(roster[n]) \cup {QueueOf[u]}
      /\ roster' \in [Names -> Seq(Queues)]
      /\ \A m \in Names \ {n} : roster'[m] = roster[m] /\ code'[m] = code[m]
      /\ code[n] # 0 => code'[n] = code[n]
  BY JoinsExact DEF FullInv
<1>2. roster \in [Names -> Seq(Queues)]
  BY DEF FullInv, RegInv, RegTypeInv
<1>3. \A m \in Names : Contains(roster'[m], QueueOf[t]) <=>
        Contains(roster[m], QueueOf[t]) \/ (m = n /\ QueueOf[t] = QueueOf[u])
  BY <1>1, <1>2, ContainsInSet
<1> QED BY <1>1, <1>3, MineCoded DEF Mine

LEMMA MineLeave ==
  ASSUME FullInv, NEW u \in Threads, NEW n \in Names, Leaves(u, n), NEW t
  PROVE  /\ Mine(t)' = IF QueueOf[t] = QueueOf[u] THEN Mine(t) \ {n} ELSE Mine(t)
         /\ \A m \in Mine(t)' : code'[m] = code[m]
<1>1. /\ ToSet(roster'[n]) = ToSet(roster[n]) \ {QueueOf[u]}
      /\ roster' \in [Names -> Seq(Queues)]
      /\ \A m \in Names \ {n} : roster'[m] = roster[m] /\ code'[m] = code[m]
      /\ code'[n] = IF roster'[n] = <<>> THEN 0 ELSE code[n]
  BY LeavesExact DEF FullInv
<1>2. roster \in [Names -> Seq(Queues)]
  BY DEF FullInv, RegInv, RegTypeInv
<1>3. \A m \in Names : Contains(roster'[m], QueueOf[t]) <=>
        Contains(roster[m], QueueOf[t]) /\ ~(m = n /\ QueueOf[t] = QueueOf[u])
  BY <1>1, <1>2, ContainsInSet
<1>4. Contains(roster'[n], QueueOf[t]) => roster'[n] # <<>>
  BY DEF Contains
<1> QED BY <1>1, <1>3, <1>4 DEF Mine

\* An object whose thread does nothing, and whose messages keep their codes.
LEMMA ObjectStands ==
  ASSUME NEW t \in Wrapped, ObjectInv(t),
         pc'[t] = "subscribing" <=> pc[t] = "subscribing",
         pc[t] = "subscribing" => arg'[t] = arg[t],
         called'[t] = called[t], fwd'[t] = fwd[t], rev'[t] = rev[t],
         Mine(t)' = Mine(t), \A n \in Mine(t) : code'[n] = code[n]
  PROVE  ObjectInv(t)'
<1>1. Known(t)' = Known(t) /\ Known(t) \subseteq Mine(t)
  BY DEF Known
<1> QED BY <1>1 DEF ObjectInv

\* What thread u does, as far as the other threads' objects see it.
Acts(u) ==
  \/ \E n \in Names : Subscribe(u, n) \/ Unsubscribe(u, n)
  \/ /\ UNCHANGED <<code, roster>>
     /\ pc' = [pc EXCEPT ![u] = pc'[u]] /\ arg' = [arg EXCEPT ![u] = arg'[u]]

LEMMA CallsAct ==
  ASSUME RegistryTypeOK, NEW u \in Threads,
         \/ \E n \in Names : \/ Subscribe(u, n) \/ Unsubscribe(u, n)
                             \/ \E rreq \in BOOLEAN : Send(u, n, rreq)
         \/ \E c : Unnote(u, c)
         \/ Note(u) \/ UnsubscribeFails(u) \/ PassOver(u) \/ PostOne(u) \/ Receive(u)
  PROVE  Acts(u)
<1> USE DEF RegistryTypeOK
<1>1. CASE PassOver(u) \/ PostOne(u)
  <2>1. /\ UNCHANGED <<code, roster>>
        /\ Goes(u, "idle", 0) \/ UNCHANGED <<pc, arg>>
    BY <1>1, SendTurn
  <2>2. CASE Goes(u, "idle", 0)
    BY <2>1, <2>2 DEF Goes, Acts
  <2>3. CASE UNCHANGED <<pc, arg>>
    BY <2>1, <2>3 DEF Acts
  <2> QED BY <2>1, <2>2, <2>3
<1>2. CASE Receive(u)
  BY <1>2 DEF Receive, Acts
<1>3. CASE Note(u) \/ UnsubscribeFails(u)
  BY <1>3 DEF Note, UnsubscribeFails, Goes, Acts
<1>4. ASSUME NEW c, Unnote(u, c) PROVE Acts(u)
  BY <1>4 DEF Unnote, Goes, Acts
<1>5. ASSUME NEW n \in Names, NEW rreq \in BOOLEAN, Send(u, n, rreq) PROVE Acts(u)
  BY <1>5 DEF Send, Goes, Acts
<1> QED BY <1>1, <1>2, <1>3, <1>4, <1>5 DEF Acts

LEMMA OthersObjects ==
  ASSUME AloneOnQueue, FullInv, PacketsInv, PlusInv, NEW u \in Threads, Acts(u),
         NEW t \in Wrapped, t # u,
         called'[t] = called[t], fwd'[t] = fwd[t], rev'[t] = rev[t]
  PROVE  ObjectInv(t)'
<1>1. ObjectInv(t) /\ QueueOf[t] # QueueOf[u] /\ t \in Threads
  BY PlusAssumption DEF PlusInv, AloneOnQueue
<1>2. RegistryTypeOK
  BY DEF PacketsInv
<1>3. ASSUME NEW n \in Names, Subscribe(u, n) PROVE ObjectInv(t)'
  <2>1. Mine(t)' = Mine(t) /\ \A m \in Mine(t) : code'[m] = code[m]
    BY <1>1, <1>3, SubscribeJoins, MineJoin
  <2>2. pc'[t] = pc[t] /\ arg'[t] = arg[t]
    BY <1>1, <1>2, <1>3 DEF Subscribe, Goes, RegistryTypeOK
  <2> QED BY <1>1, <2>1, <2>2, ObjectStands
<1>4. ASSUME NEW n \in Names, Unsubscribe(u, n) PROVE ObjectInv(t)'
  <2>1. Mine(t)' = Mine(t) /\ \A m \in Mine(t) : code'[m] = code[m]
    BY <1>1, <1>4, UnsubscribeLeaves, MineLeave
  <2>2. pc'[t] = pc[t] /\ arg'[t] = arg[t]
    BY <1>1, <1>2, <1>4 DEF Unsubscribe, Goes, RegistryTypeOK
  <2> QED BY <1>1, <2>1, <2>2, ObjectStands
<1>5. ASSUME UNCHANGED <<code, roster>>,
             pc' = [pc EXCEPT ![u] = pc'[u]], arg' = [arg EXCEPT ![u] = arg'[u]]
      PROVE  ObjectInv(t)'
  <2>1. Mine(t)' = Mine(t) /\ \A m \in Mine(t) : code'[m] = code[m]
    BY <1>5 DEF Mine
  <2>2. pc'[t] = pc[t] /\ arg'[t] = arg[t]
    BY <1>1, <1>2, <1>5 DEF RegistryTypeOK
  <2> QED BY <1>1, <2>1, <2>2, ObjectStands
<1> QED BY <1>3, <1>4, <1>5 DEF Acts

LEMMA PlusInitInv == PlusInit => PlusInv
<1> SUFFICES ASSUME PlusInit PROVE PlusInv
  OBVIOUS
<1>1. ASSUME NEW t \in Wrapped PROVE ObjectInv(t)
  <2>1. /\ fwd[t] = Nothing /\ rev[t] = Nothing /\ pc[t] = "idle"
        /\ \A n \in Names : roster[n] = <<>>
    BY PlusAssumption DEF PlusInit, RegistryInit
  <2>2. Mine(t) = {}
    BY <2>1 DEF Mine, Contains
  <2>3. Known(t) = {} /\ DOMAIN Nothing = {}
    BY <2>1, <2>2 DEF Known, Nothing
  <2> QED BY <2>1, <2>3 DEF ObjectInv
<1> QED BY <1>1 DEF PlusInit, PlusInv

\* A name that an object has mapped has the code it is mapped to.
LEMMA NamesMapped ==
  ASSUME FullInv, PacketsInv, PlusInv, NEW t \in Wrapped, pc[t] = "idle",
         NEW n \in DOMAIN rev[t]
  PROVE  n \in Names /\ rev[t][n] = code[n] /\ code[n] \in Codes
<1>1. ObjectInv(t)
  BY DEF PlusInv
<1>2. n \in Mine(t) /\ rev[t][n] = code[n]
  BY <1>1 DEF ObjectInv, Known
<1> QED BY <1>2, MineCoded DEF PacketsInv, RegistryTypeOK

\* Every step of a module with an object is one of the library or none.
LEMMA PlusStepRegistry ==
  ASSUME FullInv, PacketsInv, PlusInv, [PlusNext]_<<vars, plusVars>>
  PROVE  [RegistryNext]_vars
<1> USE PlusAssumption DEF RegistryNext
<1>1. ASSUME NEW t \in Wrapped, NEW n \in Names, PlusUnsubscribeName(t, n)
      PROVE  RegistryNext
  BY <1>1, NamesMapped DEF PlusUnsubscribeName, Free, Calls
<1>2. ASSUME NEW t \in Wrapped, NEW n \in Names,
             PlusSubscribe(t, n) \/ PlusUnsubscribed(t, n) \/ PlusSend(t, n)
      PROVE  RegistryNext
  BY <1>2 DEF PlusSubscribe, PlusUnsubscribed, PlusSend
<1>3. ASSUME NEW t \in Wrapped, NEW n \in Names, PlusSendName(t, n) PROVE RegistryNext
  BY <1>3 DEF PlusSendName
<1>4. ASSUME NEW t \in Wrapped, NEW c \in Codes, PlusUnsubscribe(t, c)
      PROVE  RegistryNext
  BY <1>4 DEF PlusUnsubscribe
<1>5. ASSUME NEW t \in Wrapped,
             PlusSubscribed(t) \/ PlusNotUnsubscribed(t) \/ PlusPostOne(t) \/ HandMessage(t)
      PROVE  RegistryNext
  BY <1>5 DEF PlusSubscribed, PlusNotUnsubscribed, PlusPostOne, HandMessage
<1>6. ASSUME NEW t \in Wrapped, Run(t) \/ Quit(t) PROVE UNCHANGED vars
  BY <1>6 DEF Run, Quit
<1>7. ASSUME NEW t \in Threads, Plain(t) PROVE RegistryNext
  BY <1>7 DEF Plain
<1>8. ASSUME NEW q \in MayExit, PlusExit(q) PROVE RegistryNext
  BY <1>8 DEF PlusExit
<1>9. CASE UNCHANGED <<vars, plusVars>>
  BY <1>9
<1> QED BY <1>1, <1>2, <1>3, <1>4, <1>5, <1>6, <1>7, <1>8, <1>9 DEF PlusNext

\* The acting thread's own object: a subscription, in two steps.
LEMMA SubscribeObject ==
  ASSUME FullInv, PacketsInv, PlusInv, NEW t \in Wrapped, NEW n \in Names,
         PlusSubscribe(t, n)
  PROVE  ObjectInv(t)'
<1>1. /\ ObjectInv(t) /\ t \in Threads /\ Known(t) = Mine(t)
      /\ pc[t] = "idle" /\ pc'[t] = "subscribing" /\ arg'[t] = code'[n]
      /\ called'[t] = n /\ fwd' = fwd /\ rev' = rev
  BY PlusAssumption DEF PlusInv, PacketsInv, RegistryTypeOK, PlusSubscribe, Subscribe,
                        CallsAttached, Calls, Goes, Known
<1>2. /\ Mine(t)' = Mine(t) \cup {n} /\ \A m \in Mine(t) : code'[m] = code[m]
  BY <1>1, SubscribeJoins, MineJoin DEF PlusSubscribe
<1>3. n \notin Mine(t)
  BY DEF PlusSubscribe, Subscribe, Mine
<1>4. Known(t)' = Mine(t)
  BY <1>1, <1>2, <1>3 DEF Known
<1> QED BY <1>1, <1>2, <1>4 DEF ObjectInv

LEMMA SubscribedObject ==
  ASSUME FullInv, PacketsInv, PlusInv, NEW t \in Wrapped, PlusSubscribed(t)
  PROVE  ObjectInv(t)'
<1>1. /\ ObjectInv(t) /\ t \in Threads
      /\ pc[t] = "subscribing" /\ pc'[t] = "idle" /\ UNCHANGED <<code, roster>>
      /\ fwd'[t] = With(fwd[t], arg[t], called[t])
      /\ rev'[t] = With(rev[t], called[t], arg[t])
  BY PlusAssumption DEF PlusInv, PacketsInv, RegistryTypeOK, PlusSubscribed, Note, Goes
<1>2. /\ called[t] \in Mine(t) /\ arg[t] = code[called[t]]
      /\ Known(t) = Mine(t) \ {called[t]}
  BY <1>1 DEF ObjectInv, Known
<1>3. Mine(t)' = Mine(t)
  BY <1>1 DEF Mine
<1>4. Known(t)' = Known(t) \cup {called[t]}
  BY <1>1, <1>2, <1>3 DEF Known
<1>7. /\ DOMAIN fwd'[t] = {arg[t]} \cup DOMAIN fwd[t] /\ fwd'[t][arg[t]] = called[t]
      /\ \A k \in DOMAIN fwd[t] : k # arg[t] => fwd'[t][k] = fwd[t][k]
  BY <1>1 DEF With
<1>8. /\ DOMAIN rev'[t] = {called[t]} \cup DOMAIN rev[t] /\ rev'[t][called[t]] = arg[t]
      /\ \A k \in DOMAIN rev[t] : k # called[t] => rev'[t][k] = rev[t][k]
  BY <1>1 DEF With
<1>5. /\ DOMAIN rev'[t] = Known(t)'
      /\ DOMAIN fwd'[t] = {code[m] : m \in Known(t)'}
  <2>1. DOMAIN rev'[t] = Known(t)'
    BY <1>1, <1>4, <1>8 DEF ObjectInv
  <2>2. DOMAIN fwd'[t] = {code[called[t]]} \cup {code[m] : m \in Known(t)}
    BY <1>1, <1>2, <1>7 DEF ObjectInv
  <2>3. DOMAIN fwd'[t] = {code[m] : m \in Known(t) \cup {called[t]}}
    BY <2>2
  <2> QED BY <1>4, <2>1, <2>3
<1>6. ASSUME NEW m \in Known(t)' PROVE rev'[t][m] = code[m] /\ fwd'[t][code[m]] = m
  <2>1. CASE m = called[t]
    BY <2>1, <1>2, <1>7, <1>8
  <2>2. CASE m # called[t]
    <3>1. m \in Known(t) /\ m \in Mine(t) /\ m \in DOMAIN rev[t] /\ code[m] \in DOMAIN fwd[t]
      BY <2>2, <1>1, <1>2, <1>4 DEF ObjectInv
    <3>2. code[m] # arg[t]
      BY <2>2, <3>1, <1>2, MineCoded
    <3> QED BY <2>2, <3>1, <3>2, <1>1, <1>7, <1>8 DEF ObjectInv
  <2> QED BY <2>1, <2>2
<1> QED BY <1>1, <1>5, <1>6 DEF ObjectInv

\* The library has struck the queue out of the roster.
LEMMA UnsubscribedObject ==
  ASSUME FullInv, PacketsInv, PlusInv, NEW t \in Wrapped, NEW n \in Names,
         PlusUnsubscribed(t, n)
  PROVE  ObjectInv(t)'
<1>1. /\ ObjectInv(t) /\ t \in Threads
      /\ pc[t] = "unsubscribing" /\ pc'[t] = "idle" /\ arg[t] = code[n]
      /\ fwd'[t] = Except(fwd[t], arg[t])
      /\ rev'[t] = Except(rev[t], fwd[t][arg[t]])
      /\ n \in Mine(t)
  BY PlusAssumption DEF PlusInv, PacketsInv, RegistryTypeOK, PlusUnsubscribed,
                        Unsubscribe, Goes, Mine
<1>2. /\ Mine(t)' = Mine(t) \ {n} /\ \A m \in Mine(t)' : code'[m] = code[m]
  BY <1>1, UnsubscribeLeaves, MineLeave DEF PlusUnsubscribed
<1>3. Known(t) = Mine(t) /\ Known(t)' = Mine(t) \ {n}
  BY <1>1, <1>2 DEF Known
<1>4. fwd[t][arg[t]] = n
  BY <1>1, <1>3 DEF ObjectInv
<1>5. \A m \in Mine(t) \ {n} : code[m] # code[n]
  BY <1>1, MineCoded
<1>9. /\ DOMAIN rev'[t] = DOMAIN rev[t] \ {n} /\ DOMAIN fwd'[t] = DOMAIN fwd[t] \ {code[n]}
      /\ \A k \in DOMAIN rev[t] \ {n} : rev'[t][k] = rev[t][k]
      /\ \A k \in DOMAIN fwd[t] \ {code[n]} : fwd'[t][k] = fwd[t][k]
  BY <1>1, <1>4 DEF Except
<1>6. DOMAIN rev'[t] = Known(t)'
  BY <1>1, <1>3, <1>9 DEF ObjectInv
<1>7. DOMAIN fwd'[t] = {code'[m] : m \in Known(t)'}
  <2>1. DOMAIN fwd'[t] = {code[m] : m \in Mine(t)} \ {code[n]}
    BY <1>1, <1>3, <1>9 DEF ObjectInv
  <2> QED BY <2>1, <1>2, <1>3, <1>5
<1>8. ASSUME NEW m \in Known(t)' PROVE rev'[t][m] = code'[m] /\ fwd'[t][code'[m]] = m
  <2>1. m \in Known(t) /\ m # n /\ code'[m] = code[m] /\ code[m] # code[n]
    BY <1>2, <1>3, <1>5
  <2>2. /\ m \in DOMAIN rev[t] \ {n} /\ code[m] \in DOMAIN fwd[t] \ {arg[t]}
        /\ rev[t][m] = code[m] /\ fwd[t][code[m]] = m
    BY <1>1, <2>1 DEF ObjectInv
  <2>3. rev'[t][m] = rev[t][m]
    BY <1>1, <2>2, <1>9
  <2>4. fwd'[t][code[m]] = fwd[t][code[m]]
    BY <1>1, <2>2, <1>9
  <2> QED BY <2>1, <2>2, <2>3, <2>4
<1> QED BY <1>1, <1>6, <1>7, <1>8 DEF ObjectInv

LEMMA PlusStep ==
  ASSUME AloneOnQueue, FullInv, PacketsInv, PlusInv, [PlusNext]_<<vars, plusVars>>
  PROVE  PlusInv'
<1> USE PlusAssumption
<1>0. RegistryTypeOK /\ \A t \in Wrapped : ObjectInv(t) /\ t \in Threads
  BY DEF PacketsInv, PlusInv
\* The thread that acts, and what its step leaves of the other objects.
<1>1. ASSUME NEW u \in Wrapped, Acts(u), ObjectInv(u)',
             DOMAIN fwd' = Wrapped, DOMAIN rev' = Wrapped, DOMAIN called' = Wrapped,
             DOMAIN handed' = Wrapped,
             \A t \in Wrapped : t # u => /\ called'[t] = called[t]
                                         /\ fwd'[t] = fwd[t] /\ rev'[t] = rev[t]
      PROVE  PlusInv'
  BY <1>0, <1>1, OthersObjects DEF PlusInv
<1>2. ASSUME NEW t \in Wrapped, NEW n \in Names, PlusSubscribe(t, n) PROVE PlusInv'
  <2>1. Acts(t) /\ ObjectInv(t)'
    BY <1>2, SubscribeObject DEF PlusSubscribe, Acts
  <2> QED BY <1>1, <1>2, <2>1 DEF PlusSubscribe, PlusInv
<1>3. ASSUME NEW t \in Wrapped, NEW n \in Names, PlusUnsubscribed(t, n) PROVE PlusInv'
  <2>1. Acts(t) /\ ObjectInv(t)'
    BY <1>3, UnsubscribedObject DEF PlusUnsubscribed, Acts
  <2> QED BY <1>1, <1>3, <2>1 DEF PlusUnsubscribed, PlusInv
<1>4. ASSUME NEW t \in Wrapped, PlusSubscribed(t) PROVE PlusInv'
  <2>1. Acts(t) /\ ObjectInv(t)'
    BY <1>0, <1>4, SubscribedObject, CallsAct DEF PlusSubscribed
  <2> QED BY <1>1, <1>4, <2>1 DEF PlusSubscribed, PlusInv
\* Steps that leave the maps alone: also those of threads without an object.
<1>5. ASSUME NEW u \in Threads, Acts(u), UNCHANGED <<code, roster, fwd, rev, called>>,
             DOMAIN handed' = Wrapped,
             \A t \in Wrapped : t = u => pc[t] # "subscribing" /\ pc'[t] # "subscribing"
      PROVE  PlusInv'
  <2>1. ASSUME NEW t \in Wrapped PROVE ObjectInv(t)'
    <3>1. CASE t # u
      BY <1>5, <3>1, OthersObjects
    <3>2. CASE t = u
      <4>1. Mine(t)' = Mine(t)
        BY <1>5 DEF Mine
      <4> QED BY <1>0, <1>5, <3>2, <4>1, ObjectStands
    <3> QED BY <3>1, <3>2
  <2> QED BY <1>5, <2>1 DEF PlusInv
<1>6. ASSUME NEW t \in Wrapped, NEW c, Unnote(t, c), UNCHANGED plusVars PROVE PlusInv'
  <2>1. Acts(t) /\ UNCHANGED <<code, roster>>
    BY <1>0, <1>6, CallsAct DEF Unnote
  <2>2. pc[t] # "subscribing" /\ pc'[t] # "subscribing"
    BY <1>0, <1>6 DEF Unnote, CallsAttached, Calls, Goes, RegistryTypeOK
  <2> QED BY <1>0, <1>5, <1>6, <2>1, <2>2 DEF plusVars, PlusInv
<1>7. ASSUME NEW t \in Wrapped, NEW n \in Names, Send(t, n, FALSE), UNCHANGED plusVars
      PROVE  PlusInv'
  <2>1. Acts(t) /\ UNCHANGED <<code, roster>>
    BY <1>0, <1>7, CallsAct DEF Send
  <2>2. pc[t] # "subscribing" /\ pc'[t] # "subscribing"
    BY <1>0, <1>7 DEF Send, Calls, Goes, RegistryTypeOK
  <2> QED BY <1>0, <1>5, <1>7, <2>1, <2>2 DEF plusVars, PlusInv
<1>8. ASSUME NEW t \in Wrapped, PlusNotUnsubscribed(t) PROVE PlusInv'
  <2>1. Acts(t) /\ UNCHANGED <<code, roster>>
    BY <1>0, <1>8, CallsAct DEF PlusNotUnsubscribed, UnsubscribeFails
  <2>2. pc[t] # "subscribing" /\ pc'[t] # "subscribing"
    BY <1>0, <1>8 DEF PlusNotUnsubscribed, UnsubscribeFails, Goes, RegistryTypeOK
  <2> QED BY <1>0, <1>5, <1>8, <2>1, <2>2 DEF PlusNotUnsubscribed, plusVars, PlusInv
<1>9. ASSUME NEW t \in Wrapped, PlusPostOne(t) PROVE PlusInv'
  <2>0. PassOver(t) \/ PostOne(t)
    BY <1>9 DEF PlusPostOne
  <2>1. /\ pc[t] \in {"asking", "notifying"} /\ UNCHANGED <<code, roster>>
        /\ Goes(t, "idle", 0) \/ UNCHANGED <<pc, arg>>
    BY <1>0, <2>0, SendTurn
  <2>2. pc[t] # "subscribing" /\ pc'[t] # "subscribing"
    BY <1>0, <2>1 DEF Goes, RegistryTypeOK
  <2>3. Acts(t)
    BY <1>0, <2>0, CallsAct
  <2> QED BY <1>0, <1>5, <1>9, <2>1, <2>2, <2>3 DEF PlusPostOne, plusVars, PlusInv
<1>10. ASSUME NEW t \in Wrapped, HandMessage(t) PROVE PlusInv'
  <2>1. Acts(t) /\ UNCHANGED <<code, roster>> /\ pc' = pc /\ pc[t] = "idle"
    BY <1>0, <1>10, CallsAct DEF HandMessage, Receive, CallsAttached, Calls
  <2>2. DOMAIN handed' = Wrapped /\ UNCHANGED <<fwd, rev, called>>
    BY <1>10 DEF HandMessage, PlusInv
  <2> QED BY <1>0, <1>5, <2>1, <2>2
<1>11. ASSUME NEW t \in Threads, Plain(t) PROVE PlusInv'
  <2>1. Acts(t) /\ t \notin Wrapped /\ UNCHANGED plusVars
    BY <1>0, <1>11, CallsAct DEF Plain
  <2>2. \A u \in Wrapped : ObjectInv(u)'
    BY <2>1, OthersObjects DEF plusVars
  <2> QED BY <2>1, <2>2 DEF plusVars, PlusInv
<1>12. ASSUME UNCHANGED <<code, roster, pc, arg, fwd, rev, called, handed>> PROVE PlusInv'
  <2>1. ASSUME NEW t \in Wrapped PROVE ObjectInv(t)'
    <3>1. Mine(t)' = Mine(t)
      BY <1>12 DEF Mine
    <3> QED BY <1>0, <1>12, <3>1, ObjectStands
  <2> QED BY <1>12, <2>1 DEF PlusInv
<1>13. ASSUME NEW t \in Wrapped, Run(t) \/ Quit(t) PROVE PlusInv'
  BY <1>12, <1>13 DEF Run, Quit, vars
<1>14. ASSUME NEW q \in MayExit, PlusExit(q) PROVE PlusInv'
  BY <1>12, <1>14 DEF PlusExit, Exit, plusVars
<1>15. CASE UNCHANGED <<vars, plusVars>>
  BY <1>12, <1>15 DEF vars, plusVars
<1>16. ASSUME NEW t \in Wrapped, NEW n \in Names, PlusUnsubscribeName(t, n) PROVE PlusInv'
  BY <1>6, <1>16 DEF PlusUnsubscribeName
<1>17. ASSUME NEW t \in Wrapped, NEW c \in Codes, PlusUnsubscribe(t, c) PROVE PlusInv'
  BY <1>6, <1>17 DEF PlusUnsubscribe
<1>18. ASSUME NEW t \in Wrapped, NEW n \in Names, PlusSend(t, n) \/ PlusSendName(t, n)
       PROVE  PlusInv'
  BY <1>7, <1>18 DEF PlusSend, PlusSendName
<1> QED BY <1>2, <1>3, <1>4, <1>8, <1>9, <1>10, <1>11, <1>13, <1>14, <1>15, <1>16, <1>17,
           <1>18 DEF PlusNext

\* A queue of an object gets shorter only when the object takes a message.
LEMMA TakersHand ==
  ASSUME AloneOnQueue, PacketsInv, [PlusNext]_<<vars, plusVars>>, NEW t \in Wrapped,
         Len(inbox'[QueueOf[t]]) < Len(inbox[QueueOf[t]])
  PROVE  HandMessage(t)
<1> USE PlusAssumption, RegistryAssumption
<1> DEFINE q == QueueOf[t]
           P == [code : Codes, from : Queues]
<1>0. /\ RegistryTypeOK /\ inbox[q] \in Seq(P) /\ t \in Threads /\ q \in Queues
      /\ inbox \in [Queues -> Seq(P)]
  BY DEF PacketsInv, RegistryTypeOK
<1>1. inbox' # inbox
  BY <1>0
<1>2. ASSUME NEW u \in Threads, PostOne(u) PROVE FALSE
  <2>1. Head(todo[u]) \in Queues /\ arg[u] \in Codes
    BY <1>2 DEF PostOne, PacketsInv, RegistryTypeOK
  <2>2. \/ inbox'[q] = inbox[q]
        \/ inbox'[q] = Append(inbox[q], [code |-> arg[u], from |-> ModuleOf[u]])
    BY <1>0, <1>2, <2>1 DEF PostOne
  <2>3. [code |-> arg[u], from |-> ModuleOf[u]] \in P
    BY <2>1
  <2> QED BY <1>0, <2>2, <2>3
<1>3. ASSUME NEW u \in Threads, Receive(u) PROVE u = t
  <2>1. CASE QueueOf[u] = q
    BY <1>0, <2>1 DEF AloneOnQueue
  <2>2. CASE QueueOf[u] # q
    <3>1. inbox'[q] = inbox[q]
      BY <1>0, <1>3, <2>2 DEF Receive
    <3> QED BY <1>0, <3>1
  <2> QED BY <2>1, <2>2
<1>4. ASSUME NEW u \in Wrapped, HandMessage(u) PROVE u = t
  BY <1>3, <1>4 DEF HandMessage
<1>5. ASSUME NEW u \in Threads, Plain(u) PROVE FALSE
  <2>1. CASE Receive(u)
    BY <1>3, <1>5, <2>1 DEF Plain
  <2>2. CASE UNCHANGED inbox
    BY <1>1, <2>2
  <2> QED BY <1>2, <1>5, <2>1, <2>2
          DEF Plain, Subscribe, Unsubscribe, Send, Unnote, Note, UnsubscribeFails, PassOver
<1>6. ASSUME NEW u \in Wrapped, NEW n \in Names,
             \/ PlusSubscribe(u, n) \/ PlusUnsubscribeName(u, n) \/ PlusUnsubscribed(u, n)
             \/ PlusSend(u, n) \/ PlusSendName(u, n)
      PROVE  UNCHANGED inbox
  BY <1>6 DEF PlusSubscribe, PlusUnsubscribeName, PlusUnsubscribed, PlusSend, PlusSendName,
              Subscribe, Unsubscribe, Send, Unnote
<1>7. ASSUME NEW u \in Wrapped,
             \/ PlusSubscribed(u) \/ PlusNotUnsubscribed(u) \/ Run(u) \/ Quit(u)
             \/ \E c : PlusUnsubscribe(u, c)
      PROVE  UNCHANGED inbox
  BY <1>7 DEF PlusSubscribed, PlusNotUnsubscribed, Run, Quit, PlusUnsubscribe, Note,
              UnsubscribeFails, Unnote, vars
<1>8. ASSUME NEW u \in Wrapped, PlusPostOne(u) PROVE FALSE
  BY <1>1, <1>2, <1>8 DEF PlusPostOne, PassOver
<1>9. ASSUME (\E r \in MayExit : PlusExit(r)) \/ UNCHANGED <<vars, plusVars>>
      PROVE  UNCHANGED inbox
  BY <1>9 DEF PlusExit, Exit, vars
<1> QED BY <1>1, <1>4, <1>5, <1>6, <1>7, <1>8, <1>9 DEF PlusNext
-----------------------------------------------------------------------------
LEMMA PlusKeeps ==
  ASSUME AloneOnQueue
  PROVE  PlusSpec => [](FullInv /\ PacketsInv /\ PlusInv)
<1>1. PlusInit => FullInv /\ PacketsInv
  BY FullInit, PacketsInit DEF PlusInit
<1>2. FullInv /\ PacketsInv /\ PlusInv /\ [PlusNext]_<<vars, plusVars>>
        => (FullInv /\ PacketsInv)'
  <2> SUFFICES ASSUME FullInv, PacketsInv, PlusInv, [PlusNext]_<<vars, plusVars>>
               PROVE  FullInv' /\ PacketsInv'
    OBVIOUS
  <2>1. [RegistryNext]_vars
    BY PlusStepRegistry
  <2> QED BY <2>1, FullStep, PacketsStep
<1>3. FullInv /\ PacketsInv /\ PlusInv /\ [PlusNext]_<<vars, plusVars>> => PlusInv'
  BY PlusStep
<1> QED BY <1>1, <1>2, <1>3, PlusInitInv, PTL DEF PlusSpec

\* Whatever module objects do, the library sees one of its own calls or none:
\* all that is proved of RegistrySpec holds with objects on it.
THEOREM WrapperUsesRegistry == ASSUME AloneOnQueue PROVE PlusSpec => RegistrySpec
<1>1. PlusInit => RegistryInit
  BY DEF PlusInit
<1>2. FullInv /\ PacketsInv /\ PlusInv /\ [PlusNext]_<<vars, plusVars>>
        => [RegistryNext]_vars
  BY PlusStepRegistry
<1> QED BY <1>1, <1>2, PlusKeeps, PTL DEF PlusSpec, RegistrySpec

\* Where an object's thread has its queue to itself, its two maps are inverse to each
\* other and are its queue's subscriptions under the library's codes, between
\* its calls, whatever the other modules do to the same messages meanwhile.
THEOREM MapsFollow == ASSUME AloneOnQueue PROVE PlusSpec => []MapsMirror
<1>1. PlusInv => MapsMirror
  <2> SUFFICES ASSUME PlusInv, NEW t \in Wrapped, pc[t] \notin {"subscribing", "unsubscribing"}
               PROVE  /\ DOMAIN rev[t] = {n \in Names : Contains(roster[n], QueueOf[t])}
                      /\ \A n \in DOMAIN rev[t] : rev[t][n] = code[n]
                      /\ DOMAIN fwd[t] = {code[n] : n \in DOMAIN rev[t]}
                      /\ \A c \in DOMAIN fwd[t] : code[fwd[t][c]] = c
    BY DEF MapsMirror
  <2>1. ObjectInv(t) /\ Known(t) = Mine(t)
    BY DEF PlusInv, Known
  <2> QED BY <2>1 DEF ObjectInv, Mine
<1> QED BY <1>1, PlusKeeps, PTL

\* The handler gets exactly the messages that its module is subscribed to when
\* it takes them, by name: no late packet, no former code, no other's name.
THEOREM HandlersCalledByName == ASSUME AloneOnQueue PROVE PlusSpec => HandedByName
<1>1. FullInv /\ PacketsInv /\ PlusInv /\ [PlusNext]_<<vars, plusVars>>
        => [\A t \in Wrapped :
              LET q == QueueOf[t]
                  c == Head(inbox[q]).code
                  current == {n \in Names : code[n] = c /\ Contains(roster[n], q)}
              IN Len(inbox'[q]) < Len(inbox[q]) =>
                   IF current = {} THEN handed'[t] = Nothing
                   ELSE handed'[t] \in current \X {c}]_<<vars, plusVars>>
  <2> SUFFICES ASSUME FullInv, PacketsInv, PlusInv, [PlusNext]_<<vars, plusVars>>,
                      NEW t \in Wrapped,
                      Len(inbox'[QueueOf[t]]) < Len(inbox[QueueOf[t]])
               PROVE  LET q == QueueOf[t]
                          c == Head(inbox[q]).code
                          current == {n \in Names : code[n] = c /\ Contains(roster[n], q)}
                      IN IF current = {} THEN handed'[t] = Nothing
                         ELSE handed'[t] \in current \X {c}
    OBVIOUS
  <2> DEFINE c == Head(inbox[QueueOf[t]]).code
             current == {n \in Names : code[n] = c /\ Contains(roster[n], QueueOf[t])}
  <2>1. HandMessage(t)
    BY TakersHand
  <2>2. handed'[t] = IF c \in DOMAIN fwd[t] THEN <<fwd[t][c], c>> ELSE Nothing
    BY <2>1 DEF HandMessage, PlusInv
  <2>3. ObjectInv(t) /\ Known(t) = Mine(t) /\ current = {n \in Mine(t) : code[n] = c}
    BY <2>1 DEF HandMessage, Receive, CallsAttached, Calls, PlusInv, Known, Mine
  <2>4. ASSUME c \in DOMAIN fwd[t] PROVE fwd[t][c] \in current
    BY <2>3, <2>4 DEF ObjectInv
  <2>5. ASSUME c \notin DOMAIN fwd[t] PROVE current = {}
    BY <2>3, <2>5 DEF ObjectInv
  <2> HIDE DEF c, current
  <2>6. IF current = {} THEN handed'[t] = Nothing ELSE handed'[t] \in current \X {c}
    BY <2>2, <2>4, <2>5
  <2> QED BY <2>6 DEF c, current
<1> QED BY <1>1, PlusKeeps, PTL DEF PlusSpec, HandedByName
=============================================================================
