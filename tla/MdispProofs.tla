---------------------------- MODULE MdispProofs -----------------------------
(***************************************************************************)
(* Proofs about the dispatchers, for any modules, threads, and choice of   *)
(* who sends what to whom: a request is in one place at a time, its answer *)
(* is its own and is not read while it is written, and an exiting module   *)
(* leaves nobody blocked.                                                  *)
(***************************************************************************)
EXTENDS Mdisp, FiniteSetTheorems, TLAPS

\* The notes that occur: a sender's, or nobody's.
Genuine == {Nobody} \cup [from : Disps, serial : {0, 1}]

TypeInv ==
  /\ MdispTypeOK
  /\ packets \in [Modules -> Seq(Genuine)]
  /\ blocked \in [Disps -> Genuine]

\* What a thread has while it is somewhere in the library.
ThreadInv ==
  \A d \in Disps :
    /\ pc[d] \in Sending => target[d] \in Modules
    /\ pc[d] \in {"peeking", "unblocking"} => queue[d] \in Modules
    /\ pc[d] = "peeking" => blocked[d] = Nobody
    /\ pc[d] \in Leaving => blocked[d] # Nobody
    /\ pc[d] = "exited" /\ d \in Modules => blocked[d] = Nobody

\* The request of s is the i-th packet of q.
At(s, q, i) == q \in Modules /\ i \in 1 .. Len(packets[q]) /\ packets[q][i].from = s

Held(s, d) == d \in Disps /\ blocked[d].from = s

\* OnePlace, without counting.
PlaceInv ==
  \A s \in Disps :
    /\ reps[s] \in {0, 1}
    /\ reps[s] = 1 => pc[s] = "awaiting"
    /\ \A q, i : At(s, q, i) =>
         /\ pc[s] = "awaiting" /\ reps[s] = 0
         /\ \A d : ~Held(s, d)
         /\ \A r, j : At(s, r, j) => r = q /\ j = i
    /\ \A d : Held(s, d) =>
         /\ pc[s] = "awaiting" /\ reps[s] = 0
         /\ \A e : Held(s, e) => e = d
    /\ pc[s] = "awaiting" =>
         reps[s] = 1 \/ (\E d : Held(s, d)) \/ (\E q, i : At(s, q, i))

\* A note names its sender's latest request, and so does an answer.
AnswerInv ==
  \A s \in Disps :
    /\ \A q, i : At(s, q, i) => packets[q][i].serial = serial[s]
    /\ \A d : Held(s, d) =>
         /\ blocked[d].serial = serial[s]
         /\ pc[d] \in Leaving => repd[s] = blocked[d]
    /\ reps[s] = 1 => repd[s] = [from |-> s, serial |-> serial[s]]

MdispInv == TypeInv /\ ThreadInv /\ PlaceInv /\ AnswerInv
-----------------------------------------------------------------------------
LEMMA Members ==
  /\ None \notin Disps /\ Modules \subseteq Disps /\ Threads \subseteq Disps
  /\ Genuine \subseteq Notes /\ Nobody \in Genuine
  /\ \A n \in Genuine : n # Nobody <=> n.from \in Disps
  /\ \A n \in Genuine : n # Nobody => n = [from |-> n.from, serial |-> n.serial]
BY MdispAssumption DEF Disps, Genuine, Notes, Nobody

LEMMA MdispInitInv == MdispInit => MdispInv
<1> SUFFICES ASSUME MdispInit PROVE MdispInv
  OBVIOUS
<1> USE Members DEF MdispInit
<1>1. TypeInv
  BY DEF TypeInv, MdispTypeOK
<1>2. ThreadInv
  BY DEF ThreadInv, Sending, Leaving
<1>3. \A s \in Disps : (\A q, i : ~At(s, q, i)) /\ (\A d : ~Held(s, d))
  BY DEF At, Held, Nobody
<1>4. PlaceInv
  BY <1>3 DEF PlaceInv
<1>5. AnswerInv
  BY <1>3 DEF AnswerInv
<1> QED BY <1>1, <1>2, <1>4, <1>5 DEF MdispInv

LEMMA QueuedNamed ==
  AnswerInv =>
    \A s \in Disps : \A q, i : At(s, q, i) => packets[q][i].serial = serial[s]
BY DEF AnswerInv

\* A step that moves no request, and no thread into or out of waitex(), keeps
\* them where they are.
LEMMA Unmoved ==
  ASSUME PlaceInv, AnswerInv,
         UNCHANGED <<packets, blocked, repd, reps, serial>>,
         \A s \in Disps : pc'[s] = "awaiting" <=> pc[s] = "awaiting",
         \A s \in Disps : pc'[s] \in Leaving => pc[s] \in Leaving
  PROVE  PlaceInv' /\ AnswerInv'
<1>1. \A s, q, i : At(s, q, i)' <=> At(s, q, i)
  BY DEF At
<1>2. \A s, d : Held(s, d)' <=> Held(s, d)
  BY DEF Held
<1>3. PlaceInv'
  BY <1>1, <1>2 DEF PlaceInv
<1>4. AnswerInv'
  BY <1>1, <1>2 DEF AnswerInv, Held
<1> QED BY <1>3, <1>4

-----------------------------------------------------------------------------
\* One lemma for each step.
LEMMA SignalStep ==
  ASSUME MdispInv, NEW q \in Modules, Signal(q)
  PROVE  MdispInv'
<1> USE Members DEF MdispInv, Signal
<1>1. TypeInv'
  BY DEF TypeInv, MdispTypeOK
<1>2. ThreadInv'
  BY DEF ThreadInv
<1> QED BY <1>1, <1>2, Unmoved

LEMMA AttachStep ==
  ASSUME MdispInv, NEW d \in Disps, NEW q \in Modules, Attach(d, q)
  PROVE  MdispInv'
<1> USE Members DEF MdispInv, Attach
<1>1. TypeInv'
  BY DEF TypeInv, MdispTypeOK
<1>2. ThreadInv'
  BY DEF ThreadInv, TypeInv, MdispTypeOK
<1> QED BY <1>1, <1>2, Unmoved

LEMMA NotifyStep ==
  ASSUME MdispInv, NEW d \in Disps, NEW q \in Modules, Notify(d, q)
  PROVE  MdispInv'
<1> USE Members DEF MdispInv, Notify, Enter
<1>1. TypeInv'
  BY DEF TypeInv, MdispTypeOK, Sending
<1>2. ThreadInv'
  BY DEF ThreadInv, TypeInv, MdispTypeOK, Sending, Leaving
<1>3. PlaceInv' /\ AnswerInv'
  BY Unmoved DEF TypeInv, MdispTypeOK, Leaving
<1> QED BY <1>1, <1>2, <1>3

LEMMA AskStep ==
  ASSUME MdispInv, NEW d \in Disps, NEW q \in Modules, Ask(d, q)
  PROVE  MdispInv'
<1> USE Members DEF MdispInv, Ask, Enter
<1>1. TypeInv'
  <2>1. /\ repd' \in [Disps -> Notes] /\ target' \in [Disps -> Modules \cup {None}]
        /\ serial' \in [Disps -> {0, 1}]
    <3>1. serial[d] \in {0, 1} /\ 1 - serial[d] \in {0, 1}
      BY DEF TypeInv, MdispTypeOK
    <3>2. serial' \in [Disps -> {0, 1}]
      BY <3>1 DEF TypeInv, MdispTypeOK
    <3>3. Nobody \in Notes
      OBVIOUS
    <3>4. repd' \in [Disps -> Notes]
      BY <3>3 DEF TypeInv, MdispTypeOK
    <3> QED BY <3>2, <3>4 DEF TypeInv, MdispTypeOK
  <2>2. pc' \in [Disps -> {"running", "awaiting", "peeking", "exited"}
                           \cup Sending \cup Leaving]
    BY DEF TypeInv, MdispTypeOK, Sending
  <2> QED BY <2>1, <2>2 DEF TypeInv, MdispTypeOK
<1>2. ThreadInv'
  BY DEF ThreadInv, TypeInv, MdispTypeOK, Sending, Leaving
<1>3. /\ pc[d] = "running" /\ pc'[d] = "asking"
      /\ \A s \in Disps : s # d => /\ pc'[s] = pc[s] /\ repd'[s] = repd[s]
                                   /\ serial'[s] = serial[s]
      /\ UNCHANGED <<packets, blocked, reps>>
  BY DEF TypeInv, MdispTypeOK
<1>4. \A q1, i : ~At(d, q1, i)
  BY <1>3 DEF PlaceInv
<1>5. (\A e : ~Held(d, e)) /\ reps[d] = 0
  BY <1>3 DEF PlaceInv
<1>6. \A s, q1, i : At(s, q1, i)' <=> At(s, q1, i)
  BY <1>3 DEF At
<1>7. \A s, e : Held(s, e)' <=> Held(s, e)
  BY <1>3 DEF Held
<1>8. PlaceInv'
  BY <1>3, <1>4, <1>5, <1>6, <1>7 DEF PlaceInv
<1>9. \A s \in Disps : s # d =>
        /\ \A q1, i : At(s, q1, i) => packets[q1][i].serial = serial[s]
        /\ \A e : Held(s, e) =>
             /\ blocked[e].serial = serial[s]
             /\ pc'[e] \in Leaving => repd[s] = blocked[e]
        /\ reps[s] = 1 => repd[s] = [from |-> s, serial |-> serial[s]]
  BY <1>3 DEF AnswerInv, Held, Leaving
<1>10. AnswerInv'
  BY <1>3, <1>4, <1>5, <1>6, <1>7, <1>9 DEF AnswerInv
<1> QED BY <1>1, <1>2, <1>8, <1>10

LEMMA PostStep ==
  ASSUME MdispInv, NEW d \in Disps, PostOne(d)
  PROVE  MdispInv'
<1> USE Members DEF MdispInv
<1> DEFINE q == target[d]
           p == IF pc[d] = "asking" THEN [from |-> d, serial |-> serial[d]]
                                    ELSE Nobody
<1>1. /\ q \in Modules /\ p \in Genuine
      /\ packets[q] \in Seq(Genuine) /\ packets \in [Modules -> Seq(Genuine)]
  BY DEF PostOne, ThreadInv, TypeInv, MdispTypeOK, Genuine
<1>2. /\ packets'[q] = Append(packets[q], p)
      /\ \A r \in Modules : r # q => packets'[r] = packets[r]
      /\ packets' \in [Modules -> Seq(Genuine)]
      /\ UNCHANGED <<queue, sigs, blocked, repd, reps, serial>>
  BY <1>1 DEF PostOne
<1>3. /\ Len(packets[q]) \in Nat /\ Len(packets'[q]) = Len(packets[q]) + 1
      /\ packets'[q][Len(packets[q]) + 1] = p
      /\ \A i \in 1 .. Len(packets[q]) : packets'[q][i] = packets[q][i]
  BY <1>1, <1>2
<1>4. TypeInv'
  BY <1>2 DEF PostOne, Enter, TypeInv, MdispTypeOK, Sending
<1>5. ThreadInv'
  BY <1>2 DEF PostOne, Enter, ThreadInv, TypeInv, MdispTypeOK, Sending, Leaving
<1>6. \A s \in Disps : \A r, i :
        At(s, r, i)' <=> \/ At(s, r, i)
                         \/ r = q /\ i = Len(packets[q]) + 1 /\ p.from = s
  <2> SUFFICES ASSUME NEW s \in Disps, NEW r, NEW i
               PROVE  At(s, r, i)' <=>
                        \/ At(s, r, i)
                        \/ r = q /\ i = Len(packets[q]) + 1 /\ p.from = s
    OBVIOUS
  <2>1. CASE r = q
    BY <1>1, <1>2, <1>3, <2>1 DEF At
  <2>2. CASE r # q
    BY <1>2, <2>2 DEF At
  <2> QED BY <2>1, <2>2
<1>7. \A s, e : Held(s, e)' <=> Held(s, e)
  BY <1>2 DEF Held
<1>8. /\ pc[d] \in Sending
      /\ pc'[d] = IF pc[d] = "asking" THEN "awaiting" ELSE "running"
      /\ \A s \in Disps : s # d => pc'[s] = pc[s]
  BY DEF PostOne, Enter, TypeInv, MdispTypeOK
<1>9. \A r, i : At(d, r, i) => pc[d] = "awaiting"
  BY DEF PlaceInv
<1>10. /\ \A r, i : ~At(d, r, i)
       /\ (\A e : ~Held(d, e)) /\ reps[d] = 0
  BY <1>8, <1>9 DEF PlaceInv, Sending
<1>11. \A s, r, i : At(s, r, i) => packets'[r][i] = packets[r][i]
  BY <1>2, <1>3 DEF At
<1>12. CASE pc[d] = "asking"
  <2>1. \A s \in Disps : p.from = s <=> s = d
    BY <1>12
  <2>0. PICK r0 \in Modules, i0 \in Nat : r0 = q /\ i0 = Len(packets[q]) + 1
    BY <1>1, <1>3
  <2>2. /\ \A r, i : At(d, r, i)' <=> r = r0 /\ i = i0
        /\ At(d, r0, i0)'
        /\ \A e : ~Held(d, e)'
        /\ pc'[d] = "awaiting" /\ reps'[d] = 0
    BY <1>2, <1>6, <1>7, <1>8, <1>10, <1>12, <2>0, <2>1
  <2>3. \A s \in Disps : s # d =>
          /\ pc'[s] = pc[s] /\ reps'[s] = reps[s]
          /\ \A r, i : At(s, r, i)' <=> At(s, r, i)
    BY <1>2, <1>6, <1>8, <2>1
  <2>4. PlaceInv'
    <3> SUFFICES ASSUME NEW s \in Disps PROVE PlaceInv!(s)'
      BY DEF PlaceInv
    <3>1. CASE s = d
      BY <1>7, <2>2, <3>1 DEF PlaceInv
    <3>2. CASE s # d
      BY <1>7, <2>3, <3>2 DEF PlaceInv
    <3> QED BY <3>1, <3>2
  <2>5. packets'[r0][i0].serial = serial'[d]
    BY <1>2, <1>3, <1>12, <2>0
  <2>6. \A e \in Disps : pc'[e] \in Leaving => pc[e] \in Leaving
    BY <1>8, <1>12 DEF Leaving
  <2>7. AnswerInv'
    <3>1. \A s \in Disps : \A r, i : At(s, r, i)' => packets'[r][i].serial = serial'[s]
      <4> SUFFICES ASSUME NEW s \in Disps, NEW r, NEW i, At(s, r, i)'
                   PROVE  packets'[r][i].serial = serial'[s]
        OBVIOUS
      <4>1. CASE s = d
        BY <2>2, <2>5, <4>1
      <4>2. CASE s # d
        <5>1. At(s, r, i)
          BY <2>3, <4>2
        <5>2. packets[r][i].serial = serial[s]
          BY <5>1, QueuedNamed
        <5>3. packets'[r][i] = packets[r][i]
          BY <5>1, <1>11
        <5> QED BY <1>2, <5>2, <5>3
      <4> QED BY <4>1, <4>2
    <3>2. \A s \in Disps : \A e : Held(s, e)' =>
            /\ blocked'[e].serial = serial'[s]
            /\ pc'[e] \in Leaving => repd'[s] = blocked'[e]
      BY <1>2, <1>7, <2>6 DEF AnswerInv, Held
    <3>3. \A s \in Disps :
            reps'[s] = 1 => repd'[s] = [from |-> s, serial |-> serial'[s]]
      BY <1>2 DEF AnswerInv
    <3> QED BY <3>1, <3>2, <3>3 DEF AnswerInv
  <2> QED BY <1>4, <1>5, <2>4, <2>7
<1>13. CASE pc[d] # "asking"
  <2>1. \A s \in Disps : p.from # s
    BY <1>13 DEF Nobody
  <2>2. PlaceInv'
    BY <1>2, <1>6, <1>7, <1>8, <1>10, <1>13, <2>1 DEF PlaceInv
  <2>3. AnswerInv'
    BY <1>2, <1>6, <1>7, <1>8, <1>10, <1>11, <1>13, <2>1
       DEF AnswerInv, Leaving, Held
  <2> QED BY <1>4, <1>5, <2>2, <2>3
<1> QED BY <1>12, <1>13

LEMMA ReturnStep ==
  ASSUME MdispInv, NEW d \in Disps, Return(d)
  PROVE  /\ MdispInv'
         /\ repd[d] = [from |-> d, serial |-> serial[d]]
<1> USE Members DEF MdispInv, Return, Enter
<1>1. reps[d] = 1
  BY DEF PlaceInv
<1>2. TypeInv'
  BY <1>1 DEF TypeInv, MdispTypeOK
<1>3. ThreadInv'
  BY DEF ThreadInv, TypeInv, MdispTypeOK, Sending, Leaving
<1>4. /\ pc[d] = "awaiting" /\ pc'[d] = "running" /\ reps'[d] = 0
      /\ \A s \in Disps : s # d => pc'[s] = pc[s] /\ reps'[s] = reps[s]
      /\ UNCHANGED <<packets, blocked, repd, serial>>
  BY <1>1 DEF TypeInv, MdispTypeOK
<1>5. (\A q, i : ~At(d, q, i)) /\ (\A e : ~Held(d, e))
  BY <1>1 DEF PlaceInv
<1>6. \A s, q, i : At(s, q, i)' <=> At(s, q, i)
  BY <1>4 DEF At
<1>7. \A s, e : Held(s, e)' <=> Held(s, e)
  BY <1>4 DEF Held
<1>8. PlaceInv'
  BY <1>4, <1>5, <1>6, <1>7 DEF PlaceInv
<1>9. AnswerInv'
  BY <1>4, <1>5, <1>6, <1>7 DEF AnswerInv, Held, Leaving
<1> QED BY <1>1, <1>2, <1>3, <1>8, <1>9 DEF AnswerInv

\* The sender that a thread is about to answer is told about by nobody else.
LEMMA Answerable ==
  ASSUME MdispInv, NEW d \in Disps, blocked[d] # Nobody, NEW s, s = blocked[d].from
  PROVE  /\ s \in Disps /\ pc[s] = "awaiting" /\ reps[s] = 0
         /\ blocked[d] = [from |-> s, serial |-> serial[s]]
         /\ \A e \in Disps : blocked[e].from = s => e = d
         /\ \A q, i : ~At(s, q, i)
<1>1. s \in Disps /\ blocked[d] = [from |-> s, serial |-> blocked[d].serial]
  BY Members DEF MdispInv, TypeInv
<1>2. Held(s, d)
  BY DEF Held
<1>3. blocked[d].serial = serial[s]
  BY <1>1, <1>2 DEF MdispInv, AnswerInv
<1>4. pc[s] = "awaiting" /\ reps[s] = 0 /\ \A e : Held(s, e) => e = d
  BY <1>1, <1>2 DEF MdispInv, PlaceInv
<1>5. \A q, i : ~At(s, q, i)
  BY <1>1, <1>2 DEF MdispInv, PlaceInv
<1> QED BY <1>1, <1>3, <1>4, <1>5 DEF Held

\* Storing an answer, on the way into msg_reply, moves no request.
LEMMA StoreStep ==
  ASSUME MdispInv, NEW d \in Disps, pc[d] = "running", blocked[d] # Nobody,
         NEW place \in Leaving,
         place = "unblocking" => queue[d] \in Modules,
         repd' = [repd EXCEPT ![blocked[d].from] = blocked[d]],
         pc' = [pc EXCEPT ![d] = place],
         UNCHANGED <<queue, packets, sigs, target, blocked, reps, serial>>
  PROVE  MdispInv'
<1> USE Members
<1> DEFINE s0 == blocked[d].from
<1>1. /\ s0 \in Disps /\ reps[s0] = 0
      /\ blocked[d] = [from |-> s0, serial |-> serial[s0]]
      /\ \A e \in Disps : blocked[e].from = s0 => e = d
      /\ \A q, i : ~At(s0, q, i)
  BY Answerable
<1>2. TypeInv'
  BY <1>1 DEF MdispInv, TypeInv, MdispTypeOK
<1>3. ThreadInv'
  BY DEF MdispInv, ThreadInv, TypeInv, MdispTypeOK, Sending, Leaving
<1>4. /\ pc'[d] = place /\ place # "awaiting"
      /\ \A s \in Disps : s # d => pc'[s] = pc[s]
      /\ repd'[s0] = blocked[d]
      /\ \A s \in Disps : s # s0 => repd'[s] = repd[s]
  BY <1>1 DEF MdispInv, TypeInv, MdispTypeOK, Leaving
<1>5. /\ \A s, q, i : At(s, q, i)' <=> At(s, q, i)
      /\ \A s, e : Held(s, e)' <=> Held(s, e)
  BY DEF At, Held
<1>6. \A s \in Disps : pc'[s] = "awaiting" <=> pc[s] = "awaiting"
  BY <1>4
<1>7. PlaceInv'
  BY <1>5, <1>6 DEF MdispInv, PlaceInv
<1>8. ASSUME NEW s \in Disps, NEW e, Held(s, e)'
      PROVE  /\ blocked'[e].serial = serial'[s]
             /\ pc'[e] \in Leaving => repd'[s] = blocked'[e]
  <2>1. Held(s, e) /\ e \in Disps /\ blocked[e].from = s
    BY <1>5, <1>8 DEF Held
  <2>2. /\ blocked[e].serial = serial[s]
        /\ pc[e] \in Leaving => repd[s] = blocked[e]
    BY <2>1 DEF MdispInv, AnswerInv
  <2>3. CASE e = d
    BY <1>4, <2>1, <2>2, <2>3
  <2>4. CASE e # d
    BY <1>1, <1>4, <2>1, <2>2, <2>4
  <2> QED BY <2>3, <2>4
<1>9. \A s \in Disps : reps'[s] = 1 => repd'[s] = [from |-> s, serial |-> serial'[s]]
  BY <1>1, <1>4 DEF MdispInv, AnswerInv
<1>10. \A s \in Disps : \A q, i : At(s, q, i)' => packets'[q][i].serial = serial'[s]
  <2>1. \A s \in Disps : \A q, i : At(s, q, i) => packets[q][i].serial = serial[s]
    BY QueuedNamed DEF MdispInv
  <2> QED BY <1>5, <2>1
<1>11. AnswerInv'
  BY <1>8, <1>9, <1>10 DEF AnswerInv
<1> QED BY <1>2, <1>3, <1>7, <1>11 DEF MdispInv

LEMMA ReplyStep ==
  ASSUME MdispInv, NEW d \in Disps, Reply(d)
  PROVE  MdispInv'
BY StoreStep DEF Reply, Store, Enter, Leaving

LEMMA ReceiveStep ==
  ASSUME MdispInv, NEW d \in Disps, Receive(d)
  PROVE  MdispInv'
<1>1. queue[d] \in Modules
  BY DEF MdispInv, TypeInv, MdispTypeOK, Receive
<1>2. CASE blocked[d] = Nobody
  <2> USE <1>2, Members DEF MdispInv, Receive, Enter
  <2>1. TypeInv'
    BY DEF TypeInv, MdispTypeOK
  <2>2. ThreadInv'
    BY <1>1 DEF ThreadInv, TypeInv, MdispTypeOK, Sending, Leaving
  <2>3. PlaceInv' /\ AnswerInv'
    BY Unmoved DEF TypeInv, MdispTypeOK, Leaving
  <2> QED BY <2>1, <2>2, <2>3
<1>3. CASE blocked[d] # Nobody
  BY <1>1, <1>3, StoreStep DEF Receive, Store, Enter, Leaving
<1> QED BY <1>2, <1>3

LEMMA ExitStep ==
  ASSUME MdispInv, NEW d \in Disps, Exit(d)
  PROVE  MdispInv'
<1>1. CASE d \in Modules /\ blocked[d] # Nobody
  BY <1>1, StoreStep DEF Exit, Store, Enter, Leaving
<1>2. CASE ~(d \in Modules /\ blocked[d] # Nobody)
  <2> USE <1>2, Members DEF MdispInv, Exit, Enter
  <2>1. TypeInv'
    BY DEF TypeInv, MdispTypeOK
  <2>2. ThreadInv'
    BY DEF ThreadInv, TypeInv, MdispTypeOK, Sending, Leaving
  <2>3. PlaceInv' /\ AnswerInv'
    BY Unmoved DEF TypeInv, MdispTypeOK, Leaving
  <2> QED BY <2>1, <2>2, <2>3
<1> QED BY <1>1, <1>2

LEMMA ServeNothingStep ==
  ASSUME MdispInv, NEW d \in Disps, ServeNothing(d) \/ ServeSignal(d)
  PROVE  MdispInv'
<1> USE Members DEF MdispInv, ServeNothing, ServeSignal, Enter
<1>1. queue[d] \in Modules
  BY DEF ThreadInv
<1>2. TypeInv'
  <2>1. sigs' \in [Modules -> Nat]
    <3>1. sigs[queue[d]] \in Nat
      BY <1>1 DEF TypeInv, MdispTypeOK
    <3>2. sigs \in [Modules -> Nat]
      BY DEF TypeInv, MdispTypeOK
    <3>3. CASE ServeNothing(d)
      BY <3>2, <3>3
    <3>4. CASE ServeSignal(d)
      <4>1. sigs[queue[d]] - 1 \in Nat
        BY <3>1, <3>4
      <4> QED BY <3>2, <3>4, <4>1
    <3> QED BY <3>3, <3>4
  <2> QED BY <2>1 DEF TypeInv, MdispTypeOK
<1>3. ThreadInv'
  BY DEF ThreadInv, TypeInv, MdispTypeOK, Sending, Leaving
<1>4. PlaceInv' /\ AnswerInv'
  BY Unmoved DEF TypeInv, MdispTypeOK, Leaving
<1> QED BY <1>2, <1>3, <1>4

LEMMA AnnounceStep ==
  ASSUME MdispInv, NEW d \in Disps, Announce(d)
  PROVE  MdispInv'
<1> USE Members
<1> DEFINE s0 == blocked[d].from
<1>0. /\ pc[d] \in Leaving /\ pc[d] \in {"replying", "unblocking", "dismissing"}
      /\ blocked[d] # Nobody
  BY DEF Announce, Leaving, MdispInv, ThreadInv
<1>1. /\ s0 \in Disps /\ reps[s0] = 0 /\ pc[s0] = "awaiting"
      /\ blocked[d] = [from |-> s0, serial |-> serial[s0]]
      /\ \A e \in Disps : blocked[e].from = s0 => e = d
      /\ \A q, i : ~At(s0, q, i)
  BY <1>0, Answerable
<1>2. /\ pc'[d] = After(pc[d]) /\ After(pc[d]) \in {"running", "peeking", "exited"}
      /\ \A s \in Disps : s # d => pc'[s] = pc[s]
      /\ pc' \in [Disps -> {"running", "awaiting", "peeking", "exited"}
                             \cup Sending \cup Leaving]
      /\ pc'[d] = "peeking" => pc[d] = "unblocking"
  BY <1>0 DEF Announce, After, Enter, MdispInv, TypeInv, MdispTypeOK
<1>3. /\ blocked'[d] = Nobody
      /\ \A e \in Disps : e # d => blocked'[e] = blocked[e]
      /\ blocked' \in [Disps -> Genuine]
      /\ reps'[s0] = 1
      /\ \A s \in Disps : s # s0 => reps'[s] = reps[s]
      /\ reps' \in [Disps -> Nat]
      /\ UNCHANGED <<queue, packets, sigs, target, repd, serial>>
  BY <1>1 DEF Announce, MdispInv, TypeInv, MdispTypeOK
<1>4. TypeInv'
  BY <1>2, <1>3 DEF MdispInv, TypeInv, MdispTypeOK
<1>5. ThreadInv'
  BY <1>0, <1>2, <1>3 DEF MdispInv, ThreadInv, Sending, Leaving
<1>6. /\ \A s, q, i : At(s, q, i)' <=> At(s, q, i)
      /\ \A s \in Disps : \A e : Held(s, e)' <=> Held(s, e) /\ e # d
  BY <1>3 DEF At, Held, Nobody
<1>7. \A s \in Disps : s # s0 => ~Held(s, d)
  BY DEF Held
<1>8. PlaceInv'
  <2> SUFFICES ASSUME NEW s \in Disps PROVE PlaceInv!(s)'
    BY DEF PlaceInv
  <2>1. CASE s = s0
    <3>1. (\A e : ~Held(s, e)') /\ (\A q, i : ~At(s, q, i)')
      BY <1>1, <1>6, <2>1 DEF Held
    <3>2. pc'[s] = "awaiting" /\ reps'[s] = 1
      BY <1>0, <1>1, <1>2, <1>3, <2>1 DEF Leaving
    <3> QED BY <3>1, <3>2
  <2>2. CASE s # s0
    <3>1. \A e : Held(s, e)' <=> Held(s, e)
      BY <1>6, <1>7, <2>2
    <3>2. (pc'[s] = "awaiting" <=> pc[s] = "awaiting") /\ reps'[s] = reps[s]
      BY <1>0, <1>2, <1>3, <2>2 DEF Leaving
    <3> QED BY <1>6, <3>1, <3>2 DEF MdispInv, PlaceInv
  <2> QED BY <2>1, <2>2
<1>9. repd[s0] = blocked[d]
  <2>1. Held(s0, d)
    BY DEF Held
  <2> QED BY <1>0, <1>1, <2>1 DEF MdispInv, AnswerInv
<1>10. \A s \in Disps : \A q, i : At(s, q, i)' => packets'[q][i].serial = serial'[s]
  <2>1. \A s \in Disps : \A q, i : At(s, q, i) => packets[q][i].serial = serial[s]
    BY QueuedNamed DEF MdispInv
  <2> QED BY <1>3, <1>6, <2>1
<1>11. ASSUME NEW s \in Disps, NEW e, Held(s, e)'
       PROVE  /\ blocked'[e].serial = serial'[s]
              /\ pc'[e] \in Leaving => repd'[s] = blocked'[e]
  <2>1. Held(s, e) /\ e # d /\ e \in Disps
    BY <1>6, <1>11 DEF Held
  <2>2. /\ blocked[e].serial = serial[s]
        /\ pc[e] \in Leaving => repd[s] = blocked[e]
    BY <2>1 DEF MdispInv, AnswerInv
  <2> QED BY <1>2, <1>3, <2>1, <2>2
<1>12. \A s \in Disps : reps'[s] = 1 => repd'[s] = [from |-> s, serial |-> serial'[s]]
  BY <1>1, <1>3, <1>9 DEF MdispInv, AnswerInv
<1>13. AnswerInv'
  BY <1>10, <1>11, <1>12 DEF AnswerInv
<1> QED BY <1>4, <1>5, <1>8, <1>13 DEF MdispInv

\* Taking the first of the packets moves the others up.
LEMMA Shifted ==
  ASSUME NEW S, NEW f \in Seq(S), f # <<>>
  PROVE  /\ Head(f) = f[1] /\ Head(f) \in S
         /\ Len(f) \in Nat /\ 1 \in 1 .. Len(f)
         /\ Tail(f) \in Seq(S) /\ Len(Tail(f)) = Len(f) - 1
         /\ \A i \in 1 .. Len(Tail(f)) : Tail(f)[i] = f[i + 1] /\ i + 1 \in 1 .. Len(f)
         /\ \A i \in 1 .. Len(f) : i # 1 => i - 1 \in 1 .. Len(Tail(f))
OBVIOUS

\* What a receive does to the requests.
LEMMA Served ==
  ASSUME MdispInv, NEW d \in Disps, ServePacket(d), NEW q, q = queue[d],
         NEW n, n = Head(packets[q])
  PROVE  /\ q \in Modules /\ n \in Genuine /\ n = packets[q][1] /\ blocked[d] = Nobody
         /\ packets' \in [Modules -> Seq(Genuine)]
         /\ \A s \in Disps : At(s, q, 1) <=> n.from = s
         /\ \A s \in Disps : \A r, i :
              At(s, r, i)' => \E j : At(s, r, j) /\ packets'[r][i] = packets[r][j]
                                     /\ IF r = q THEN j = i + 1 /\ i \in Nat \ {0}
                                                 ELSE j = i
         /\ \A s \in Disps : \A r, i : At(s, r, i) /\ ~(r = q /\ i = 1) => \E j : At(s, r, j)'
<1> USE Members
<1>1. q \in Modules /\ blocked[d] = Nobody
  BY DEF MdispInv, ThreadInv, ServePacket
<1>2. packets[q] \in Seq(Genuine) /\ packets[q] # <<>>
  BY <1>1 DEF MdispInv, TypeInv, ServePacket
<1>3. /\ packets'[q] = Tail(packets[q])
      /\ \A r \in Modules : r # q => packets'[r] = packets[r]
  BY <1>1 DEF ServePacket, MdispInv, TypeInv
<1>4. /\ n = packets[q][1] /\ n \in Genuine /\ 1 \in 1 .. Len(packets[q])
      /\ packets'[q] \in Seq(Genuine)
      /\ \A i \in 1 .. Len(packets'[q]) :
           packets'[q][i] = packets[q][i + 1] /\ i + 1 \in 1 .. Len(packets[q])
      /\ \A i \in 1 .. Len(packets[q]) : i # 1 => i - 1 \in 1 .. Len(packets'[q])
  BY <1>2, <1>3, Shifted
<1>5. packets' \in [Modules -> Seq(Genuine)]
  BY <1>1, <1>3, <1>4 DEF ServePacket, MdispInv, TypeInv
<1>6. \A s \in Disps : At(s, q, 1) <=> n.from = s
  BY <1>1, <1>4 DEF At
<1>7. ASSUME NEW s \in Disps, NEW r, NEW i, At(s, r, i)'
      PROVE  \E j : At(s, r, j) /\ packets'[r][i] = packets[r][j]
                    /\ IF r = q THEN j = i + 1 /\ i \in Nat \ {0} ELSE j = i
  <2>1. CASE r = q
    <3>1. i \in 1 .. Len(packets'[q]) /\ packets'[q][i].from = s
      BY <1>7, <2>1 DEF At
    <3>2. At(s, q, i + 1) /\ packets'[q][i] = packets[q][i + 1]
      BY <1>1, <1>4, <3>1 DEF At
    <3>3. i \in Nat \ {0}
      BY <1>4, <3>1
    <3> QED BY <2>1, <3>2, <3>3
  <2>2. CASE r # q
    <3>1. At(s, r, i) /\ packets'[r][i] = packets[r][i]
      BY <1>3, <1>7, <2>2 DEF At
    <3> QED BY <2>2, <3>1
  <2> QED BY <2>1, <2>2
<1>8. ASSUME NEW s \in Disps, NEW r, NEW i, At(s, r, i), ~(r = q /\ i = 1)
      PROVE  \E j : At(s, r, j)'
  <2>1. CASE r = q
    <3>1. i \in 1 .. Len(packets[q]) /\ i # 1 /\ packets[q][i].from = s
      BY <1>8, <2>1 DEF At
    <3>2. i - 1 \in 1 .. Len(packets'[q]) /\ packets'[q][i - 1].from = s
      <4>1. i - 1 \in 1 .. Len(packets'[q]) /\ (i - 1) + 1 = i
        BY <1>4, <3>1
      <4> QED BY <1>4, <3>1, <4>1
    <3> QED BY <1>1, <2>1, <3>2 DEF At
  <2>2. CASE r # q
    BY <1>3, <1>8, <2>2 DEF At
  <2> QED BY <2>1, <2>2
<1> QED BY <1>1, <1>4, <1>5, <1>6, <1>7, <1>8

LEMMA ServePacketStep ==
  ASSUME MdispInv, NEW d \in Disps, ServePacket(d)
  PROVE  MdispInv'
<1> USE Members
<1>0. PICK q, n : q = queue[d] /\ n = Head(packets[q])
  OBVIOUS
<1>1. /\ q \in Modules /\ n \in Genuine /\ n = packets[q][1] /\ blocked[d] = Nobody
      /\ packets' \in [Modules -> Seq(Genuine)]
      /\ \A s \in Disps : At(s, q, 1) <=> n.from = s
  BY <1>0, Served
<1>2. \A s \in Disps : \A r, i :
        At(s, r, i)' => \E j : At(s, r, j) /\ packets'[r][i] = packets[r][j]
                               /\ IF r = q THEN j = i + 1 /\ i \in Nat \ {0}
                                           ELSE j = i
  BY <1>0, Served
<1>3. \A s \in Disps : \A r, i : At(s, r, i) /\ ~(r = q /\ i = 1) => \E j : At(s, r, j)'
  BY <1>0, Served
<1>4. /\ pc[d] = "peeking" /\ pc'[d] = "running"
      /\ \A s \in Disps : s # d => pc'[s] = pc[s]
      /\ blocked'[d] = n
      /\ \A e \in Disps : e # d => blocked'[e] = blocked[e]
      /\ UNCHANGED <<queue, sigs, target, repd, reps, serial>>
  BY <1>0 DEF ServePacket, Enter, MdispInv, TypeInv, MdispTypeOK
<1>5. TypeInv'
  <2>1. packets' \in [Modules -> Seq(Notes)]
    <3>1. \A r \in Modules : packets'[r] \in Seq(Genuine)
      BY <1>1
    <3>2. \A r \in Modules : packets'[r] \in Seq(Notes)
      BY <3>1
    <3> QED BY <1>1, <3>2
  <2>2. blocked' \in [Disps -> Genuine] /\ blocked' \in [Disps -> Notes]
    BY <1>0, <1>1 DEF ServePacket, MdispInv, TypeInv, MdispTypeOK
  <2>3. pc' \in [Disps -> {"running", "awaiting", "peeking", "exited"}
                           \cup Sending \cup Leaving]
    BY DEF ServePacket, Enter, MdispInv, TypeInv, MdispTypeOK
  <2> QED BY <1>1, <1>4, <2>1, <2>2, <2>3 DEF MdispInv, TypeInv, MdispTypeOK
<1>6. ThreadInv'
  BY <1>4 DEF MdispInv, ThreadInv, Sending, Leaving
<1>7. \A s \in Disps : \A e : Held(s, e)' <=> Held(s, e) \/ (e = d /\ n.from = s)
  BY <1>1, <1>4 DEF Held, Nobody
<1>8. PlaceInv'
  <2> SUFFICES ASSUME NEW s \in Disps PROVE PlaceInv!(s)'
    BY DEF PlaceInv
  <2>0. /\ pc'[s] = "awaiting" <=> pc[s] = "awaiting"
        /\ reps'[s] = reps[s]
    BY <1>4
  <2>1. CASE n.from = s
    <3>1. At(s, q, 1)
      BY <1>1, <2>1
    <3>2. /\ pc[s] = "awaiting" /\ reps[s] = 0 /\ (\A e : ~Held(s, e))
          /\ \A r, j : At(s, r, j) => r = q /\ j = 1
      BY <3>1 DEF MdispInv, PlaceInv
    <3>3. \A r, i : ~At(s, r, i)'
      BY <1>2, <3>2
    <3>4. \A e : Held(s, e)' <=> e = d
      BY <1>7, <2>1, <3>2
    <3> QED BY <2>0, <3>2, <3>3, <3>4
  <2>2. CASE n.from # s
    <3>1. ~At(s, q, 1)
      BY <1>1, <2>2
    <3>2. \A e : Held(s, e)' <=> Held(s, e)
      BY <1>7, <2>2
    <3>3. (\E r, i : At(s, r, i)) => (\E r, i : At(s, r, i)')
      BY <1>3, <3>1
    <3>4. ASSUME NEW r, NEW i, At(s, r, i)'
          PROVE  /\ pc[s] = "awaiting" /\ reps[s] = 0 /\ (\A e : ~Held(s, e))
                 /\ \A t, k : At(s, t, k)' => t = r /\ k = i
      <4>1. PICK j : At(s, r, j) /\ (IF r = q THEN j = i + 1 /\ i \in Nat \ {0}
                                              ELSE j = i)
        BY <1>2, <3>4
      <4>2. /\ pc[s] = "awaiting" /\ reps[s] = 0 /\ (\A e : ~Held(s, e))
            /\ \A t, k : At(s, t, k) => t = r /\ k = j
        BY <4>1 DEF MdispInv, PlaceInv
      <4>3. ASSUME NEW t, NEW k, At(s, t, k)' PROVE t = r /\ k = i
        <5>1. PICK l : At(s, t, l) /\ (IF t = q THEN l = k + 1 /\ k \in Nat \ {0}
                                                ELSE l = k)
          BY <1>2, <4>3
        <5> QED BY <4>1, <4>2, <5>1
      <4> QED BY <4>2, <4>3
    <3>5. /\ reps[s] \in {0, 1} /\ (reps[s] = 1 => pc[s] = "awaiting")
          /\ \A e : Held(s, e) => /\ pc[s] = "awaiting" /\ reps[s] = 0
                                  /\ \A f : Held(s, f) => f = e
          /\ pc[s] = "awaiting" =>
               reps[s] = 1 \/ (\E e : Held(s, e)) \/ (\E r, i : At(s, r, i))
      BY DEF MdispInv, PlaceInv
    <3> QED BY <2>0, <3>2, <3>3, <3>4, <3>5
  <2> QED BY <2>1, <2>2
<1>9. ASSUME NEW s \in Disps, NEW r, NEW i, At(s, r, i)'
      PROVE  packets'[r][i].serial = serial'[s]
  <2>1. PICK j : At(s, r, j) /\ packets'[r][i] = packets[r][j]
    BY <1>2, <1>9
  <2>2. packets[r][j].serial = serial[s]
    BY <2>1, QueuedNamed DEF MdispInv
  <2> QED BY <1>4, <2>1, <2>2
<1>10. ASSUME NEW s \in Disps, NEW e, Held(s, e)'
       PROVE  /\ blocked'[e].serial = serial'[s]
              /\ pc'[e] \in Leaving => repd'[s] = blocked'[e]
  <2>1. CASE e = d /\ n.from = s
    <3>1. At(s, q, 1)
      BY <1>1, <2>1
    <3>2. packets[q][1].serial = serial[s]
      BY <3>1, QueuedNamed DEF MdispInv
    <3> QED BY <1>1, <1>4, <2>1, <3>2 DEF Leaving
  <2>2. CASE Held(s, e) /\ e # d
    <3>1. /\ blocked[e].serial = serial[s] /\ e \in Disps
          /\ pc[e] \in Leaving => repd[s] = blocked[e]
      BY <2>2 DEF MdispInv, AnswerInv, Held
    <3> QED BY <1>4, <2>2, <3>1
  <2>3. ~Held(s, d)
    BY <1>1 DEF Held, Nobody
  <2> QED BY <1>7, <1>10, <2>1, <2>2, <2>3
<1>11. AnswerInv'
  <2>1. \A s \in Disps : reps'[s] = 1 => repd'[s] = [from |-> s, serial |-> serial'[s]]
    BY <1>4 DEF MdispInv, AnswerInv
  <2> QED BY <1>9, <1>10, <2>1 DEF AnswerInv
<1> QED BY <1>5, <1>6, <1>8, <1>11 DEF MdispInv

\* A step of any dispatchers, whether or not a program restricts who sends
\* what to whom and who exits.
AnyStep ==
  \/ \E q \in Modules : Signal(q)
  \/ \E d \in Disps, q \in Modules : Attach(d, q) \/ Ask(d, q) \/ Notify(d, q)
  \/ \E d \in Disps : PostOne(d) \/ Return(d) \/ Reply(d) \/ Receive(d) \/ Exit(d)
                        \/ Announce(d) \/ ServePacket(d) \/ ServeSignal(d)
                        \/ ServeNothing(d)

LEMMA NextIsAny == [MdispNext]_vars => [AnyStep]_vars
<1>1. /\ MayAttach \subseteq Disps \X Modules /\ MayAsk \subseteq Disps \X Modules
      /\ MayNotify \subseteq Disps \X Modules /\ MayExit \subseteq Disps
  BY MdispAssumption, Members
<1>2. ASSUME NEW a \in Disps \X Modules,
             Attach(a[1], a[2]) \/ Ask(a[1], a[2]) \/ Notify(a[1], a[2])
      PROVE  AnyStep
  BY <1>2 DEF AnyStep
<1> QED BY <1>1, <1>2 DEF MdispNext, AnyStep

LEMMA MdispStep == MdispInv /\ [AnyStep]_vars => MdispInv'
<1> SUFFICES ASSUME MdispInv, [AnyStep]_vars PROVE MdispInv'
  OBVIOUS
<1> USE Members
<1>1. ASSUME NEW q \in Modules, Signal(q) PROVE MdispInv'
  BY <1>1, SignalStep
<1>2. ASSUME NEW d \in Disps, NEW q \in Modules,
             Attach(d, q) \/ Ask(d, q) \/ Notify(d, q)
      PROVE  MdispInv'
  BY <1>2, AttachStep, AskStep, NotifyStep
<1>3. ASSUME NEW d \in Disps,
             \/ PostOne(d) \/ Return(d) \/ Reply(d) \/ Receive(d) \/ Exit(d)
             \/ Announce(d) \/ ServePacket(d) \/ ServeSignal(d) \/ ServeNothing(d)
      PROVE  MdispInv'
  BY <1>3, PostStep, ReturnStep, ReplyStep, ReceiveStep, ExitStep, AnnounceStep,
     ServePacketStep, ServeNothingStep
<1>4. CASE UNCHANGED vars
  <2>1. TypeInv' /\ ThreadInv'
    BY <1>4 DEF vars, MdispInv, TypeInv, MdispTypeOK, ThreadInv
  <2>2. PlaceInv' /\ AnswerInv'
    BY <1>4, Unmoved DEF vars, MdispInv
  <2> QED BY <2>1, <2>2 DEF MdispInv
<1> QED BY <1>1, <1>2, <1>3, <1>4 DEF AnyStep
-----------------------------------------------------------------------------
\* What Queued and Holders collect.
LEMMA Collected ==
  /\ \A s, q, i : At(s, q, i) => <<q, i>> \in Queued(s)
  /\ \A s : \A x \in Queued(s) : \E q, i : x = <<q, i>> /\ At(s, q, i)
  /\ \A s, d : d \in Holders(s) <=> Held(s, d)
BY DEF Queued, Holders, At, Held

\* A request that is somewhere is there alone.
LEMMA Places ==
  ASSUME MdispInv, NEW s \in Disps
  PROVE  \/ pc[s] # "awaiting" /\ reps[s] = 0 /\ Queued(s) = {} /\ Holders(s) = {}
         \/ /\ pc[s] = "awaiting" /\ reps[s] = 1
            /\ Queued(s) = {} /\ Holders(s) = {}
         \/ /\ pc[s] = "awaiting" /\ reps[s] = 0 /\ Queued(s) = {}
            /\ \E d : Held(s, d) /\ Holders(s) = {d}
         \/ /\ pc[s] = "awaiting" /\ reps[s] = 0 /\ Holders(s) = {}
            /\ \E q, i : At(s, q, i) /\ Queued(s) = {<<q, i>>}
<1> USE Collected DEF MdispInv
<1>1. CASE \E q, i : At(s, q, i)
  <2>1. PICK q, i : At(s, q, i)
    BY <1>1
  <2>2. /\ pc[s] = "awaiting" /\ reps[s] = 0 /\ (\A d : ~Held(s, d))
        /\ \A r, j : At(s, r, j) => r = q /\ j = i
    BY <2>1 DEF PlaceInv
  <2>3. Queued(s) = {<<q, i>>}
    BY <2>1, <2>2
  <2>4. Holders(s) = {}
    BY <2>2
  <2> QED BY <2>1, <2>2, <2>3, <2>4
<1>2. CASE \E d : Held(s, d)
  <2>1. PICK d : Held(s, d)
    BY <1>2
  <2>2. /\ pc[s] = "awaiting" /\ reps[s] = 0 /\ (\A e : Held(s, e) => e = d)
        /\ \A q, i : ~At(s, q, i)
    BY <2>1 DEF PlaceInv
  <2>3. Queued(s) = {} /\ Holders(s) = {d}
    BY <2>1, <2>2
  <2> QED BY <2>1, <2>2, <2>3
<1>3. CASE (\A q, i : ~At(s, q, i)) /\ (\A d : ~Held(s, d))
  <2>1. Queued(s) = {} /\ Holders(s) = {}
    BY <1>3
  <2> QED BY <1>3, <2>1 DEF PlaceInv
<1> QED BY <1>1, <1>2, <1>3

LEMMA OnePlaceFollows == MdispInv => OnePlace
<1> SUFFICES ASSUME MdispInv, NEW s \in Disps
             PROVE  Cardinality(Queued(s)) + Cardinality(Holders(s)) + reps[s]
                      = IF pc[s] = "awaiting" THEN 1 ELSE 0
  BY DEF OnePlace
<1>1. /\ \A x : Cardinality({x}) = 1
      /\ Cardinality({}) = 0
  BY FS_EmptySet, FS_Singleton
<1>2. reps[s] = 0 \/ reps[s] = 1
  BY Places
<1>3. CASE Queued(s) = {} /\ Holders(s) = {}
  <2>1. reps[s] = IF pc[s] = "awaiting" THEN 1 ELSE 0
    BY <1>3, Places
  <2>2. Cardinality(Queued(s)) = 0 /\ Cardinality(Holders(s)) = 0
    BY <1>1, <1>3
  <2> QED BY <1>2, <2>1, <2>2
<1>4. CASE \E x : Queued(s) = {x} /\ Holders(s) = {}
  <2>1. pc[s] = "awaiting" /\ reps[s] = 0
    BY <1>4, Places
  <2>2. Cardinality(Queued(s)) = 1 /\ Cardinality(Holders(s)) = 0
    BY <1>1, <1>4
  <2> QED BY <2>1, <2>2
<1>5. CASE \E x : Queued(s) = {} /\ Holders(s) = {x}
  <2>1. pc[s] = "awaiting" /\ reps[s] = 0
    BY <1>5, Places
  <2>2. Cardinality(Queued(s)) = 0 /\ Cardinality(Holders(s)) = 1
    BY <1>1, <1>5
  <2> QED BY <2>1, <2>2
<1> QED BY <1>3, <1>4, <1>5, Places

LEMMA AnswerStep ==
  ASSUME MdispInv, [AnyStep]_vars, NEW s \in Disps,
         repd'[s] # repd[s], repd'[s] # Nobody
  PROVE  pc[s] = "awaiting" /\ reps[s] = 0
<1> USE Members
<1>1. ASSUME NEW d \in Disps, Reply(d) \/ Receive(d) \/ Exit(d)
      PROVE  pc[s] = "awaiting" /\ reps[s] = 0
  <2>1. blocked[d] # Nobody /\ repd' = [repd EXCEPT ![blocked[d].from] = blocked[d]]
    BY <1>1 DEF Reply, Receive, Exit, Store
  <2>2. s = blocked[d].from
    BY <2>1 DEF MdispInv, TypeInv, MdispTypeOK
  <2> QED BY <2>1, <2>2, Answerable
<1>2. ASSUME NEW d \in Disps, NEW q, Ask(d, q) PROVE FALSE
  BY <1>2 DEF Ask, MdispInv, TypeInv, MdispTypeOK
<1>3. repd' # repd
  OBVIOUS
<1> QED BY <1>1, <1>2, <1>3
        DEF AnyStep, vars, Signal, Attach, Notify, PostOne, Return, Announce,
            ServePacket, ServeSignal, ServeNothing

\* Whoever sends what to whom, and however serving, answering, joining and
\* exiting interleave: a request is queued once, held by one thread or
\* answered once, and none of it is left when its sender goes on, so that the
\* raw pointers to dispatchers in packets and in `blocked' are good; and a
\* module's main thread never exits without an answer to whom it holds.
THEOREM MdispCorrect ==
  MdispSpec => [](MdispTypeOK /\ OnePlace /\ ModuleExitAnswers)
<1>1. MdispInv => MdispTypeOK /\ OnePlace /\ ModuleExitAnswers
  BY OnePlaceFollows, Members DEF MdispInv, TypeInv, ThreadInv, ModuleExitAnswers
<1> QED BY <1>1, MdispInitInv, NextIsAny, MdispStep, PTL DEF MdispSpec

\* The variables keep to their values: counts stay counts, a thread is in one
\* of the places of the code, packets name dispatchers.
THEOREM MdispTypes == MdispSpec => []MdispTypeOK
BY MdispCorrect, PTL

\* Before a module's main thread is gone it has answered whomever it held.
THEOREM ModulesAnswerOnExit == MdispSpec => []ModuleExitAnswers
BY MdispCorrect, PTL

\* A send never returns with the answer to an earlier request.
THEOREM AnswersAreOwn == MdispSpec => OwnAnswer
<1>1. MdispInv /\ [AnyStep]_vars =>
        [\A d \in Disps : Return(d) =>
           repd[d] = [from |-> d, serial |-> serial[d]]]_vars
  BY ReturnStep
<1> QED BY <1>1, MdispInitInv, NextIsAny, MdispStep, PTL DEF MdispSpec, OwnAnswer

\* msg_reply writes the answer without the sender's mutex, and still never
\* while the sender may be reading one.
THEOREM AnswersNotTorn == MdispSpec => AnswerNotTorn
<1>1. MdispInv /\ [AnyStep]_vars =>
        [\A s \in Disps : repd'[s] # repd[s] /\ repd'[s] # Nobody
           => pc[s] = "awaiting" /\ reps[s] = 0]_vars
  BY AnswerStep
<1> QED BY <1>1, MdispInitInv, NextIsAny, MdispStep, PTL DEF MdispSpec, AnswerNotTorn
-----------------------------------------------------------------------------
\* Where the place of a request puts it in Rendezvous.
StageInv ==
  \A s \in Disps :
    /\ reps[s] = 1 => Stage(s) = <<"answered", None>>
    /\ \A d : Held(s, d) => Stage(s) = <<"held", d>>
    /\ \A q, i : At(s, q, i) => Stage(s) = <<"queued", q>>
    /\ pc[s] # "awaiting" => Stage(s) = <<"idle", None>>

Stages == [c \in Disps |-> Stage(c)]

LEMMA StageFollows == MdispInv => StageInv
<1> SUFFICES ASSUME MdispInv, NEW s \in Disps PROVE StageInv!(s)
  BY DEF StageInv
<1> USE Collected
<1>1. reps[s] = 1 => Stage(s) = <<"answered", None>>
  BY DEF Stage
<1>2. ASSUME NEW d, Held(s, d) PROVE Stage(s) = <<"held", d>>
  <2>1. reps[s] = 0 /\ Holders(s) = {d}
    BY <1>2 DEF MdispInv, PlaceInv
  <2> QED BY <2>1 DEF Stage
<1>3. ASSUME NEW q, NEW i, At(s, q, i) PROVE Stage(s) = <<"queued", q>>
  <2>1. /\ reps[s] = 0 /\ (\A d : ~Held(s, d))
        /\ \A r, j : At(s, r, j) => r = q /\ j = i
    BY <1>3 DEF MdispInv, PlaceInv
  <2>2. Holders(s) = {} /\ Queued(s) = {<<q, i>>}
    BY <1>3, <2>1
  <2>3. PICK x : x = (CHOOSE y \in Queued(s) : TRUE)
    OBVIOUS
  <2>4. x = <<q, i>>
    BY <2>2, <2>3
  <2>5. x[1] = q
    BY <2>4
  <2>6. Stage(s) = <<"queued", x[1]>>
    BY <2>1, <2>2, <2>3 DEF Stage
  <2> QED BY <2>5, <2>6
<1>4. pc[s] # "awaiting" => Stage(s) = <<"idle", None>>
  BY Places DEF Stage
<1> QED BY <1>1, <1>2, <1>3, <1>4

\* One request moves and the others stay: a step of Rendezvous.
LEMMA OneMoves ==
  ASSUME NEW s0 \in Disps, NEW to,
         Stage(s0)' = to, \A s \in Disps : s # s0 => Stage(s)' = Stage(s)
  PROVE  Stages' = [Stages EXCEPT ![s0] = to]
BY DEF Stages

\* What the dispatchers and queues hold decides it.
LEMMA StageStays ==
  ASSUME UNCHANGED <<packets, blocked, reps>>
  PROVE  \A s : Stage(s)' = Stage(s)
BY DEF Stage, Queued, Holders

LEMMA ReturnRefines ==
  ASSUME MdispInv, StageInv, StageInv', NEW d \in Disps, Return(d)
  PROVE  /\ Stages[d] = <<"answered", None>>
         /\ Stages' = [Stages EXCEPT ![d] = <<"idle", None>>]
<1>1. /\ pc'[d] = "running" /\ reps[d] = 1
      /\ \A s \in Disps : s # d => reps'[s] = reps[s]
      /\ UNCHANGED <<packets, blocked>>
  BY DEF Return, Enter, MdispInv, TypeInv, MdispTypeOK, PlaceInv
<1>2. Stage(d) = <<"answered", None>> /\ Stage(d)' = <<"idle", None>>
  BY <1>1 DEF StageInv
<1>3. \A s \in Disps : s # d => Stage(s)' = Stage(s)
  BY <1>1 DEF Stage, Queued, Holders
<1> QED BY <1>2, <1>3, OneMoves DEF Stages

LEMMA AnnounceRefines ==
  ASSUME MdispInv, StageInv, StageInv', NEW d \in Disps, Announce(d)
  PROVE  \E c \in Disps :
           /\ Stages[c] = <<"held", d>>
           /\ Stages' = [Stages EXCEPT ![c] = <<"answered", None>>]
<1>1. blocked[d] # Nobody /\ pc[d] # "awaiting"
  BY DEF Announce, Leaving, MdispInv, ThreadInv
<1>2. PICK s0 : s0 = blocked[d].from
  OBVIOUS
<1>3. s0 \in Disps /\ reps[s0] = 0 /\ Held(s0, d)
  BY <1>1, <1>2, Answerable DEF Held
<1>4. /\ reps'[s0] = 1
      /\ \A s \in Disps : s # s0 => reps'[s] = reps[s]
      /\ blocked'[d] = Nobody
      /\ \A e \in Disps : e # d => blocked'[e] = blocked[e]
      /\ UNCHANGED packets
  BY <1>2, <1>3 DEF Announce, MdispInv, TypeInv, MdispTypeOK
<1>5. Stage(s0) = <<"held", d>> /\ Stage(s0)' = <<"answered", None>>
  BY <1>3, <1>4 DEF StageInv
<1>6. ASSUME NEW s \in Disps, s # s0 PROVE Stage(s)' = Stage(s)
  <2>1. Holders(s)' = Holders(s)
    <3>1. \A e \in Disps : blocked'[e].from = s <=> blocked[e].from = s
      BY <1>2, <1>4, <1>6, Members DEF Nobody
    <3> QED BY <3>1 DEF Holders
  <2>2. Queued(s)' = Queued(s) /\ reps'[s] = reps[s]
    BY <1>4, <1>6 DEF Queued
  <2> QED BY <2>1, <2>2 DEF Stage
<1> QED BY <1>3, <1>5, <1>6, OneMoves DEF Stages

\* Requests that stay in the queue they are in, and elsewhere, keep the stage.
LEMMA StageKept ==
  ASSUME MdispInv, MdispInv', StageInv, StageInv', NEW s \in Disps,
         reps'[s] = reps[s], pc'[s] = "awaiting" <=> pc[s] = "awaiting",
         \A d : Held(s, d) => Held(s, d)',
         \A q, i : At(s, q, i) => \E j : At(s, q, j)'
  PROVE  Stage(s)' = Stage(s)
<1>1. CASE \E d : Held(s, d)
  <2>1. PICK d : Held(s, d)
    BY <1>1
  <2> QED BY <2>1 DEF StageInv
<1>2. CASE \E q, i : At(s, q, i)
  <2>1. PICK q, i : At(s, q, i)
    BY <1>2
  <2>2. PICK j : At(s, q, j)'
    BY <2>1
  <2>3. Stage(s) = <<"queued", q>>
    BY <2>1 DEF StageInv
  <2>4. Stage(s)' = <<"queued", q>>
    BY <2>2 DEF StageInv
  <2> QED BY <2>3, <2>4
<1>3. CASE pc[s] # "awaiting"
  BY <1>3 DEF StageInv
<1>4. CASE reps[s] = 1
  BY <1>4 DEF StageInv
<1> QED BY <1>1, <1>2, <1>3, <1>4 DEF MdispInv, PlaceInv

LEMMA PostRefines ==
  ASSUME MdispInv, MdispInv', StageInv, StageInv', NEW d \in Disps, PostOne(d)
  PROVE  \/ UNCHANGED Stages
         \/ \E q \in Modules :
              /\ Stages[d] = <<"idle", None>>
              /\ Stages' = [Stages EXCEPT ![d] = <<"queued", q>>]
<1>0. PICK q, p : /\ q = target[d]
                  /\ p = IF pc[d] = "asking" THEN [from |-> d, serial |-> serial[d]]
                                             ELSE Nobody
  OBVIOUS
<1>1. q \in Modules /\ packets[q] \in Seq(Genuine)
  BY <1>0 DEF PostOne, MdispInv, ThreadInv, TypeInv
<1>2. /\ packets'[q] = Append(packets[q], p)
      /\ \A r \in Modules : r # q => packets'[r] = packets[r]
      /\ UNCHANGED <<blocked, reps>>
  BY <1>0, <1>1 DEF PostOne, MdispInv, TypeInv
<1>3. /\ Len(packets[q]) \in Nat /\ Len(packets'[q]) = Len(packets[q]) + 1
      /\ packets'[q][Len(packets[q]) + 1] = p
      /\ \A i \in 1 .. Len(packets[q]) : packets'[q][i] = packets[q][i]
  BY <1>1, <1>2
<1>4. \A s, r, i : At(s, r, i) => At(s, r, i)'
  <2> SUFFICES ASSUME NEW s, NEW r, NEW i, At(s, r, i) PROVE At(s, r, i)'
    OBVIOUS
  <2>1. CASE r = q
    BY <1>3, <2>1 DEF At
  <2>2. CASE r # q
    BY <1>2, <2>2 DEF At
  <2> QED BY <2>1, <2>2
<1>5. \A s, e : Held(s, e) => Held(s, e)'
  BY <1>2 DEF Held
<1>6. /\ pc[d] \in Sending
      /\ pc'[d] = IF pc[d] = "asking" THEN "awaiting" ELSE "running"
      /\ \A s \in Disps : s # d => pc'[s] = pc[s]
  BY DEF PostOne, Enter, MdispInv, TypeInv, MdispTypeOK
<1>7. \A s \in Disps : s # d => Stage(s)' = Stage(s)
  BY <1>2, <1>4, <1>5, <1>6, StageKept
<1>8. CASE pc[d] = "asking"
  <2>1. Stage(d) = <<"idle", None>>
    BY <1>8 DEF StageInv
  <2>3. PICK i \in Nat : i = Len(packets[q]) + 1
    BY <1>3
  <2>4. At(d, q, i)'
    BY <1>0, <1>1, <1>3, <1>8, <2>3 DEF At
  <2>5. Stage(d)' = <<"queued", q>>
    BY <2>4 DEF StageInv
  <2> QED BY <1>1, <1>7, <2>1, <2>5, OneMoves DEF Stages
<1>9. CASE pc[d] # "asking"
  <2>1. Stage(d)' = Stage(d)
    BY <1>2, <1>4, <1>5, <1>6, <1>9, StageKept DEF Sending
  <2> QED BY <1>7, <2>1 DEF Stages
<1> QED BY <1>8, <1>9

LEMMA ServeRefines ==
  ASSUME MdispInv, MdispInv', StageInv, StageInv', NEW d \in Disps, ServePacket(d)
  PROVE  \/ UNCHANGED Stages
         \/ \E c \in Disps, q \in Modules :
              /\ Stages[c] = <<"queued", q>>
              /\ Stages' = [Stages EXCEPT ![c] = <<"held", d>>]
<1>0. PICK q, n : q = queue[d] /\ n = Head(packets[q])
  OBVIOUS
<1>1. /\ q \in Modules /\ n \in Genuine /\ blocked[d] = Nobody
      /\ \A s \in Disps : At(s, q, 1) <=> n.from = s
      /\ \A s \in Disps : \A r, i : At(s, r, i) /\ ~(r = q /\ i = 1) => \E j : At(s, r, j)'
  BY <1>0, Served
<1>2. /\ pc[d] = "peeking" /\ pc'[d] = "running"
      /\ \A s \in Disps : s # d => pc'[s] = pc[s]
      /\ blocked'[d] = n
      /\ \A e \in Disps : e # d => blocked'[e] = blocked[e]
      /\ UNCHANGED reps
  BY <1>0 DEF ServePacket, Enter, MdispInv, TypeInv, MdispTypeOK
<1>3. \A s \in Disps : \A e : Held(s, e) => Held(s, e)'
  BY <1>1, <1>2, Members DEF Held, Nobody
<1>4. ASSUME NEW s \in Disps, n.from # s PROVE Stage(s)' = Stage(s)
  <2>1. ~At(s, q, 1)
    BY <1>1, <1>4
  <2>2. \A r, i : At(s, r, i) => \E j : At(s, r, j)'
    BY <1>1, <2>1
  <2>3. pc'[s] = "awaiting" <=> pc[s] = "awaiting"
    BY <1>2
  <2> QED BY <1>2, <1>3, <2>2, <2>3, StageKept
<1>5. CASE n.from \in Disps
  <2>1. PICK c \in Disps : c = n.from
    BY <1>5
  <2>2. At(c, q, 1) /\ Held(c, d)'
    BY <1>1, <1>2, <2>1 DEF Held
  <2>3. Stage(c) = <<"queued", q>>
    BY <2>2 DEF StageInv
  <2>4. Stage(c)' = <<"held", d>>
    BY <2>2 DEF StageInv
  <2>5. \A s \in Disps : s # c => Stage(s)' = Stage(s)
    BY <1>4, <2>1
  <2> QED BY <1>1, <2>3, <2>4, <2>5, OneMoves DEF Stages
<1>6. CASE n.from \notin Disps
  BY <1>4, <1>6 DEF Stages
<1> QED BY <1>5, <1>6

LEMMA MdispStepRefines ==
  ASSUME MdispInv, MdispInv', StageInv, StageInv', [AnyStep]_vars
  PROVE  [Meeting!Next]_Stages
<1> USE DEF Meeting!Next, Meeting!Progress, Stages
<1>1. ASSUME NEW d \in Disps, PostOne(d) PROVE [Meeting!Next]_Stages
  BY <1>1, PostRefines DEF Meeting!Call, Meeting!Moves
<1>2. ASSUME NEW d \in Disps, ServePacket(d) PROVE [Meeting!Next]_Stages
  BY <1>2, ServeRefines DEF Meeting!Accept, Meeting!Moves
<1>3. ASSUME NEW d \in Disps, Announce(d) PROVE [Meeting!Next]_Stages
  BY <1>3, AnnounceRefines DEF Meeting!Answer, Meeting!Moves
<1>4. ASSUME NEW d \in Disps, Return(d) PROVE [Meeting!Next]_Stages
  BY <1>4, ReturnRefines DEF Meeting!Return, Meeting!Moves
<1>5. CASE UNCHANGED <<packets, blocked, reps>>
  BY <1>5, StageStays
<1> QED BY <1>1, <1>2, <1>3, <1>4, <1>5
        DEF AnyStep, vars, Signal, Attach, Ask, Notify, Reply, Receive, Exit,
            ServeSignal, ServeNothing

LEMMA MeetingInit == MdispInit => Meeting!Init
<1> SUFFICES ASSUME MdispInit PROVE Meeting!Init
  OBVIOUS
<1>1. StageInv
  BY MdispInitInv, StageFollows
<1>2. \A s \in Disps : Stage(s) = <<"idle", None>>
  BY <1>1 DEF MdispInit, StageInv
<1> QED BY <1>2 DEF Meeting!Init

LEMMA StageStep == MdispInv /\ [AnyStep]_vars => [Meeting!Next]_Stages
<1>1. MdispInv' => StageInv'
  BY StageFollows, PTL
<1> QED BY <1>1, MdispStep, StageFollows, MdispStepRefines

\* A request is taken from the one queue it was sent to, by one receiver; that
\* receiver and no other answers it, once; then its sender returns.  This is
\* the safety part of ImplementsRendezvous.
THEOREM MdispImplementsRendezvous == MdispSpec => Meeting!Spec
BY MeetingInit, MdispInitInv, NextIsAny, MdispStep, StageStep, PTL
   DEF MdispSpec, Meeting!Spec, Stages
=============================================================================
