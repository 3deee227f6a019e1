----------------------------- MODULE DataProofs -----------------------------
(***************************************************************************)
(* Proofs about the algorithms on values, for every length of a word, a    *)
(* message and a command line: times add up, packets hold what they are    *)
(* built from, and the option parser reads the words in their order and    *)
(* keeps them.                                                             *)
(***************************************************************************)
EXTENDS StockProofs, Ftspec, Packet, GetOpt, FiniteSetTheorems

-----------------------------------------------------------------------------
(* Times.                                                                  *)

LEMMA Division ==
  ASSUME NEW x \in Int, NEW n \in Nat \ {0}
  PROVE  x \div n \in Int /\ x % n \in 0 .. n - 1 /\ x = n * (x \div n) + (x % n)
OBVIOUS

LEMMA OneRemainder ==
  ASSUME NEW n \in Nat \ {0}, NEW q \in Int, NEW z \in 0 .. n - 1
  PROVE  (n * q + z) % n = z
<1> DEFINE y == n * q + z
           d == y \div n
           r == y % n
<1>1. y \in Int /\ d \in Int /\ r \in 0 .. n - 1 /\ y = n * d + r
  BY Division
<1>2. n * (q - d) = r - z
  BY <1>1
<1> HIDE DEF y, d, r
<1>3. q - d < 1
  <2> SUFFICES ASSUME q - d >= 1 PROVE FALSE
    BY <1>1
  <2>1. n * (q - d) >= n
    BY <1>1
  <2> QED BY <1>1, <1>2, <2>1
<1>4. q - d > -1
  <2> SUFFICES ASSUME q - d <= -1 PROVE FALSE
    BY <1>1
  <2>1. n * (q - d) <= -n
    BY <1>1
  <2> QED BY <1>1, <1>2, <2>1
<1>5. q - d = 0
  BY <1>1, <1>3, <1>4
<1>6. n * (q - d) = 0
  BY <1>5
<1> QED BY <1>1, <1>2, <1>6 DEF r, y

\* A digit below one that wraps around wraps around with it.
LEMMA WrapBelow ==
  ASSUME NEW w \in Nat \ {0}, NEW s \in Nat \ {0}, NEW x \in Int, NEW r \in 0 .. s - 1
  PROVE  (x % w) * s + r = (x * s + r) % (w * s)
<1> DEFINE q == x \div w
           m == x % w
<1>1. q \in Int /\ m \in 0 .. w - 1 /\ x = w * q + m
  BY Division
<1> HIDE DEF q, m
<1>2. w * s \in Nat \ {0}
  OBVIOUS
<1>3. m * s <= (w - 1) * s /\ m * s >= 0
  BY <1>1
<1>4. m * s + r \in 0 .. w * s - 1
  BY <1>1, <1>2, <1>3
<1>5. x * s + r = (w * s) * q + (m * s + r)
  BY <1>1
<1>6. ((w * s) * q + (m * s + r)) % (w * s) = m * s + r
  BY <1>1, <1>2, <1>4, OneRemainder
<1> QED BY <1>5, <1>6 DEF m

\* The fields are the digits of the time.
Normal == [sec : 0 .. Wrap32 - 1, msec : 0 .. Second - 1]

LEMMA TimeOf ==
  ASSUME NEW sec \in Int, NEW msec \in 0 .. Second - 1
  PROVE  /\ Time(sec, msec) \in Normal
         /\ Value(Time(sec, msec)) = (sec * Second + msec) % Span
<1>0. Second \in Nat \ {0} /\ Wrap32 \in Nat \ {0}
  BY FtspecAssumption
<1>1. sec % Wrap32 \in 0 .. Wrap32 - 1
  BY <1>0, Division
<1>2. (sec % Wrap32) * Second + msec = (sec * Second + msec) % (Wrap32 * Second)
  BY <1>0, WrapBelow
<1> QED BY <1>1, <1>2 DEF Time, Normal, Value, Span

LEMMA SmallTime ==
  ASSUME NEW ms \in 0 .. Wrap32 - 1
  PROVE  FromMsec(ms) \in Normal /\ Value(FromMsec(ms)) = ms /\ Of(ms) \in Normal
<1>0. Second \in Nat \ {0} /\ Wrap32 \in Nat \ {0} /\ ms \in Int
  BY FtspecAssumption
<1> DEFINE q == ms \div Second
           r == ms % Second
<1>1. q \in Int /\ r \in 0 .. Second - 1 /\ ms = Second * q + r
  BY <1>0, Division
<1>2. FromMsec(ms) = Time(q, r)
  BY DEF FromMsec
<1> HIDE DEF q, r
<1>3. /\ FromMsec(ms) \in Normal
      /\ Value(FromMsec(ms)) = ms % Span
  BY <1>0, <1>1, <1>2, TimeOf
<1>4. Span \in Nat \ {0} /\ Wrap32 <= Span
  BY <1>0 DEF Span
<1>5. ms \in 0 .. Span - 1 /\ ms = Span * 0 + ms
  BY <1>0, <1>4
<1>6. ms % Span = ms
  BY <1>4, <1>5, OneRemainder
<1> QED BY <1>3, <1>6, FtspecAssumption DEF Of, Normal

LEMMA SumValue ==
  ASSUME NEW a \in Normal, NEW b \in Normal
  PROVE  Plus(a, b) \in Normal /\ Value(Plus(a, b)) = (Value(a) + Value(b)) % Span
<1>0. Second \in Nat \ {0} /\ Wrap32 \in Nat \ {0}
  BY FtspecAssumption
<1> DEFINE m == a.msec + b.msec
           q == m \div Second
           r == m % Second
           sec == a.sec + b.sec + q
<1>1. /\ m \in Int /\ a.sec \in Int /\ b.sec \in Int
      /\ a.msec \in Int /\ b.msec \in Int
  BY DEF Normal
<1>2. q \in Int /\ r \in 0 .. Second - 1 /\ m = Second * q + r
  BY <1>0, <1>1, Division
<1>3. Plus(a, b) = Time(sec, r)
  BY DEF Plus
<1> HIDE DEF q, r
<1>4. sec * Second + r = Value(a) + Value(b)
  <2>1. sec * Second = a.sec * Second + b.sec * Second + Second * q
    BY <1>0, <1>1, <1>2
  <2>2. a.sec * Second \in Int /\ b.sec * Second \in Int /\ Second * q \in Int
    BY <1>0, <1>1, <1>2
  <2> HIDE DEF sec
  <2> QED BY <1>1, <1>2, <2>1, <2>2 DEF Value
<1>5. sec \in Int
  BY <1>1, <1>2
<1> HIDE DEF sec
<1> QED BY <1>2, <1>3, <1>4, <1>5, TimeOf

LEMMA DifferenceValue ==
  ASSUME NEW a \in Normal, NEW b \in Normal
  PROVE  Minus(a, b) \in Normal /\ Value(Minus(a, b)) = (Value(a) - Value(b)) % Span
<1>0. Second \in Nat \ {0} /\ Wrap32 \in Nat \ {0}
  BY FtspecAssumption
<1>1. /\ a.sec \in Int /\ b.sec \in Int
      /\ a.msec \in 0 .. Second - 1 /\ b.msec \in 0 .. Second - 1
  BY DEF Normal
<1>2. CASE a.msec < b.msec
  <2> DEFINE sec == a.sec - b.sec - 1
             msec == a.msec + Second - b.msec
  <2>1. Minus(a, b) = Time(sec, msec)
    BY <1>2 DEF Minus
  <2>2. sec \in Int /\ msec \in 0 .. Second - 1
    BY <1>0, <1>1, <1>2
  <2>3. sec * Second + msec = Value(a) - Value(b)
    BY <1>0, <1>1 DEF Value
  <2> HIDE DEF sec, msec
  <2> QED BY <2>1, <2>2, <2>3, TimeOf
<1>3. CASE ~(a.msec < b.msec)
  <2> DEFINE sec == a.sec - b.sec
             msec == a.msec - b.msec
  <2>1. Minus(a, b) = Time(sec, msec)
    BY <1>3 DEF Minus
  <2>2. sec \in Int /\ msec \in 0 .. Second - 1
    BY <1>0, <1>1, <1>3
  <2>3. sec * Second + msec = Value(a) - Value(b)
    BY <1>0, <1>1 DEF Value
  <2> HIDE DEF sec, msec
  <2> QED BY <2>1, <2>2, <2>3, TimeOf
<1> QED BY <1>2, <1>3

\* Comparing digit by digit is comparing.
LEMMA BeforeIsLess ==
  ASSUME NEW a \in Normal, NEW b \in Normal
  PROVE  Before(a, b) <=> Value(a) < Value(b)
<1>0. /\ Second \in Nat \ {0} /\ a.sec \in Int /\ b.sec \in Int
      /\ a.msec \in 0 .. Second - 1 /\ b.msec \in 0 .. Second - 1
  BY FtspecAssumption DEF Normal
<1>1. ASSUME NEW x \in Int, NEW y \in Int, x < y PROVE x * Second + Second <= y * Second
  <2>1. y - x >= 1
    BY <1>1
  <2>2. (y - x) * Second >= Second
    BY <1>0, <1>1, <2>1
  <2>3. (y - x) * Second = y * Second - x * Second
    BY <1>0
  <2>4. x * Second \in Int /\ y * Second \in Int
    BY <1>0
  <2> QED BY <1>0, <2>2, <2>3, <2>4
<1>2. a.sec * Second \in Int /\ b.sec * Second \in Int
  BY <1>0
<1>3. CASE a.sec < b.sec
  <2>1. a.sec * Second + Second <= b.sec * Second
    BY <1>0, <1>1, <1>3
  <2> QED BY <1>0, <1>2, <1>3, <2>1 DEF Before, Value
<1>4. CASE b.sec < a.sec
  <2>1. b.sec * Second + Second <= a.sec * Second
    BY <1>0, <1>1, <1>4
  <2> QED BY <1>0, <1>2, <1>4, <2>1 DEF Before, Value
<1>5. CASE a.sec = b.sec
  BY <1>0, <1>2, <1>5 DEF Before, Value
<1> QED BY <1>0, <1>3, <1>4, <1>5

TimeInv == ts \in Normal /\ Value(ts) = elapsed

\* After any sums and differences the object stands for the time it should,
\* in normal form, and is before another one when that time is.
THEOREM TimesAddUp == TimeSpec => []TimeExact
<1>1. TimeInit => TimeInv
  BY FtspecAssumption DEF TimeInit, TimeInv, Normal, Value
<1>2. TimeInv /\ [TimeNext]_timeVars => TimeInv'
  <2> SUFFICES ASSUME TimeInv, [TimeNext]_timeVars PROVE TimeInv'
    OBVIOUS
  <2>1. ASSUME NEW ms \in 0 .. Wrap32 - 1, Assign(ms) PROVE TimeInv'
    BY <2>1, SmallTime DEF Assign, TimeInv, Value
  <2>2. ASSUME NEW ms \in 0 .. Wrap32 - 1, Increase(ms) PROVE TimeInv'
    BY <2>2, SmallTime, SumValue DEF Increase, TimeInv, Value
  <2>3. ASSUME NEW ms \in 0 .. Wrap32 - 1, Decrease(ms) PROVE TimeInv'
    BY <2>3, SmallTime, DifferenceValue DEF Decrease, TimeInv, Value
  <2>4. CASE UNCHANGED timeVars
    BY <2>4 DEF timeVars, TimeInv, Value
  <2> QED BY <2>1, <2>2, <2>3, <2>4 DEF TimeNext
<1>3. TimeInv => TimeExact
  <2> SUFFICES ASSUME TimeInv PROVE TimeExact
    OBVIOUS
  <2>1. ASSUME NEW ms \in 0 .. Wrap32 - 1
        PROVE  Before(ts, Of(ms)) <=> elapsed < Value(Of(ms))
    BY SmallTime, BeforeIsLess DEF TimeInv
  <2>2. ts.msec \in 0 .. Second - 1 /\ Value(ts) = elapsed
    BY DEF TimeInv, Normal
  <2> QED BY <2>1, <2>2 DEF TimeExact
<1> QED BY <1>1, <1>2, <1>3, PTL DEF TimeSpec
-----------------------------------------------------------------------------
(* Packets.                                                                *)

\* A pointer goes from piece to piece.
LEMMA PassingIs ==
  ASSUME NEW from \in Nat, NEW size \in Seq(Nat)
  PROVE  /\ Passing(from, size) \in [0 .. Len(size) -> Nat]
         /\ Passing(from, size)[0] = from
         /\ \A i \in 1 .. Len(size) :
              Passing(from, size)[i] = Passing(from, size)[i - 1] + size[i]
<1> DEFINE n == Len(size)
           Goes(t, k) == /\ t \in [0 .. k -> Nat] /\ t[0] = from
                         /\ \A i \in 1 .. k : t[i] = t[i - 1] + size[i]
           T == {k \in Nat : k <= n => \E t \in [0 .. k -> Nat] : Goes(t, k)}
<1>0. n \in Nat /\ \A i \in 1 .. n : size[i] \in Nat
  OBVIOUS
<1>1. 0 \in T
  <2> DEFINE t == [i \in 0 .. 0 |-> from]
  <2>1. Goes(t, 0)
    OBVIOUS
  <2> QED BY <2>1
<1>2. ASSUME NEW k \in Nat, k \in T PROVE k + 1 \in T
  <2> HIDE DEF Goes, n
  <2> SUFFICES ASSUME k + 1 <= n PROVE \E t \in [0 .. k + 1 -> Nat] : Goes(t, k + 1)
    OBVIOUS
  <2>0. k <= n
    BY <1>0
  <2>1. PICK t \in [0 .. k -> Nat] : Goes(t, k)
    BY <1>2, <2>0
  <2> USE DEF Goes
  <2> DEFINE u == [i \in 0 .. k + 1 |-> IF i = k + 1 THEN t[k] + size[k + 1] ELSE t[i]]
  <2>2. k + 1 \in 1 .. n /\ size[k + 1] \in Nat /\ t[k] \in Nat
    BY <1>0, <2>1
  <2>3. ASSUME NEW i \in 0 .. k + 1 PROVE u[i] \in Nat
    <3>1. CASE i = k + 1
      BY <2>2, <3>1
    <3>2. CASE i # k + 1
      <4>1. i \in 0 .. k
        BY <3>2
      <4> QED BY <2>1, <3>2, <4>1
    <3> QED BY <3>1, <3>2
  <2>4. u \in [0 .. k + 1 -> Nat] /\ u[0] = from
    BY <2>1, <2>3
  <2>5. ASSUME NEW i \in 1 .. k + 1 PROVE u[i] = u[i - 1] + size[i]
    <3>1. i - 1 \in 0 .. k /\ i - 1 # k + 1 /\ u[i - 1] = t[i - 1]
      OBVIOUS
    <3>2. CASE i = k + 1
      BY <3>1, <3>2
    <3>3. CASE i # k + 1
      <4>1. i \in 1 .. k /\ i \in 0 .. k + 1
        BY <3>3
      <4>2. t[i] = t[i - 1] + size[i]
        BY <2>1, <4>1
      <4> QED BY <3>1, <3>3, <4>1, <4>2
    <3> QED BY <3>2, <3>3
  <2> HIDE DEF u
  <2> QED BY <2>4, <2>5
<1>3. n \in T
  <2> HIDE DEF T
  <2> QED BY <1>0, <1>1, <1>2, SetInduction
<1>4. PICK t \in [0 .. n -> Nat] : Goes(t, n)
  BY <1>0, <1>3
<1>5. t = [i \in 0 .. n |-> IF i = 0 THEN from ELSE t[i - 1] + size[i]]
  BY <1>0, <1>4
<1> DEFINE r == Passing(from, size)
<1>6. r = CHOOSE f : f = [i \in 0 .. n |-> IF i = 0 THEN from ELSE f[i - 1] + size[i]]
  BY DEF Passing
<1>7. r = [i \in 0 .. n |-> IF i = 0 THEN from ELSE r[i - 1] + size[i]]
  <2> HIDE DEF r, n
  <2> QED BY <1>5, <1>6
<1> HIDE DEF r
<1>8. r[0] = from /\ \A i \in 1 .. n : r[i] = r[i - 1] + size[i]
  BY <1>0, <1>7
<1> DEFINE U == {k \in Nat : k <= n => r[k] \in Nat}
<1>9. 0 \in U
  BY <1>8
<1>10. ASSUME NEW k \in Nat, k \in U PROVE k + 1 \in U
  <2> SUFFICES ASSUME k + 1 <= n PROVE r[k + 1] \in Nat
    OBVIOUS
  <2>1. k + 1 \in 1 .. n /\ (k + 1) - 1 = k /\ r[k] \in Nat
    BY <1>0, <1>10
  <2>2. r[k + 1] = r[k] + size[k + 1] /\ size[k + 1] \in Nat
    BY <1>0, <1>8, <2>1
  <2> QED BY <2>1, <2>2
<1>11. Nat \subseteq U
  <2> HIDE DEF U
  <2> QED BY <1>9, <1>10, SetInduction
<1>12. \A k \in 0 .. n : r[k] \in Nat
  BY <1>0, <1>11
<1>13. r \in [0 .. n -> Nat]
  <2>1. DOMAIN r = 0 .. n
    BY <1>7
  <2>2. r = [i \in 0 .. n |-> r[i]]
    BY <1>7, <2>1
  <2> QED BY <1>12, <2>2
<1> QED BY <1>8, <1>13 DEF r

LEMMA PassingShift ==
  ASSUME NEW from \in Nat, NEW size \in Seq(Nat), NEW i \in 0 .. Len(size)
  PROVE  Passing(from, size)[i] = from + Passing(0, size)[i]
<1> DEFINE n == Len(size)
           r == Passing(from, size)
           z == Passing(0, size)
           T == {k \in Nat : k <= n => r[k] = from + z[k]}
<1>0. n \in Nat /\ \A k \in 1 .. n : size[k] \in Nat
  OBVIOUS
<1>1. /\ r[0] = from /\ \A k \in 1 .. n : r[k] = r[k - 1] + size[k]
      /\ z[0] = 0 /\ \A k \in 1 .. n : z[k] = z[k - 1] + size[k]
      /\ \A k \in 0 .. n : r[k] \in Nat /\ z[k] \in Nat
  <2>1. r \in [0 .. n -> Nat] /\ r[0] = from /\ \A k \in 1 .. n : r[k] = r[k - 1] + size[k]
    BY PassingIs
  <2>2. z \in [0 .. n -> Nat] /\ z[0] = 0 /\ \A k \in 1 .. n : z[k] = z[k - 1] + size[k]
    BY PassingIs
  <2> HIDE DEF r, z, n
  <2> QED BY <2>1, <2>2
<1> HIDE DEF r, z, n
<1>2. 0 \in T
  BY <1>1
<1>3. ASSUME NEW k \in Nat, k \in T PROVE k + 1 \in T
  <2> SUFFICES ASSUME k + 1 <= n PROVE r[k + 1] = from + z[k + 1]
    OBVIOUS
  <2>1. k + 1 \in 1 .. n /\ (k + 1) - 1 = k /\ k \in 0 .. n /\ r[k] = from + z[k]
    BY <1>0, <1>3
  <2>2. r[k + 1] = r[k] + size[k + 1] /\ z[k + 1] = z[k] + size[k + 1]
    BY <1>1, <2>1
  <2> QED BY <1>0, <1>1, <2>1, <2>2
<1>4. Nat \subseteq T
  <2> HIDE DEF T
  <2> QED BY <1>2, <1>3, SetInduction
<1> QED BY <1>0, <1>4 DEF r, z, n

LEMMA Nondecreasing ==
  ASSUME NEW m \in Nat, NEW edge \in [0 .. m -> Nat],
         \A k \in 1 .. m : edge[k - 1] <= edge[k],
         NEW i \in 0 .. m, NEW j \in 0 .. m, i <= j
  PROVE  edge[i] <= edge[j]
<1> DEFINE T == {d \in Nat : i + d <= m => edge[i] <= edge[i + d]}
<1>1. 0 \in T
  OBVIOUS
<1>2. ASSUME NEW d \in Nat, d \in T PROVE d + 1 \in T
  <2> SUFFICES ASSUME i + (d + 1) <= m PROVE edge[i] <= edge[i + (d + 1)]
    OBVIOUS
  <2>1. /\ i + (d + 1) \in 1 .. m /\ (i + (d + 1)) - 1 = i + d
        /\ i + d \in 0 .. m /\ i + (d + 1) \in 0 .. m
    OBVIOUS
  <2>2. edge[i + d] <= edge[i + (d + 1)]
    BY <2>1
  <2>3. edge[i] <= edge[i + d]
    BY <1>2, <2>1
  <2>4. edge[i] \in Nat /\ edge[i + d] \in Nat /\ edge[i + (d + 1)] \in Nat
    BY <2>1
  <2> QED BY <2>2, <2>3, <2>4
<1>3. Nat \subseteq T
  <2> HIDE DEF T
  <2> QED BY <1>1, <1>2, SetInduction
<1>4. j - i \in Nat /\ i + (j - i) = j
  OBVIOUS
<1>5. j - i \in T
  <2> HIDE DEF T
  <2> QED BY <1>3, <1>4
<1> QED BY <1>4, <1>5

\* Pieces that lie one after another, each with what it holds.
Pieces(edge, what, m) ==
  {Field(edge[k - 1], edge[k] - edge[k - 1], what[k]) : k \in 1 .. m}

Laid(edge, m) ==
  m \in Nat /\ edge \in [0 .. m -> Nat] /\ edge[0] = 0
    /\ \A k \in 1 .. m : edge[k - 1] <= edge[k]

\* What empty pieces in one place hold is the same.
Alike(edge, what, m) ==
  \A j, k \in 1 .. m :
    edge[j - 1] = edge[k - 1] /\ edge[j] = edge[k] => what[j] = what[k]

LEMMA PieceIs ==
  ASSUME NEW m, NEW edge, Laid(edge, m), NEW what, NEW f \in Pieces(edge, what, m)
  PROVE  \E k \in 1 .. m :
           /\ f.at = edge[k - 1] /\ f.size = edge[k] - edge[k - 1] /\ f.what = what[k]
           /\ f.at + f.size = edge[k] /\ f = Field(edge[k - 1], edge[k] - edge[k - 1], what[k])
           /\ edge[k] \in Nat /\ edge[k - 1] \in Nat
<1>1. PICK k \in 1 .. m : f = Field(edge[k - 1], edge[k] - edge[k - 1], what[k])
  BY DEF Pieces
<1>2. k \in 0 .. m /\ k - 1 \in 0 .. m
  BY <1>1 DEF Laid
<1>3. edge[k] \in Nat /\ edge[k - 1] \in Nat
  BY <1>2 DEF Laid
<1> QED BY <1>1, <1>3 DEF Field

LEMMA PiecesFit ==
  ASSUME NEW m, NEW edge, Laid(edge, m), NEW what,
         packet = [size |-> edge[m], fields |-> Pieces(edge, what, m)]
  PROVE  PacketFits
<1>0. /\ packet.fields = Pieces(edge, what, m) /\ packet.size = edge[m] /\ edge[m] \in Nat
      /\ m \in Nat /\ edge \in [0 .. m -> Nat] /\ edge[0] = 0
      /\ \A k \in 1 .. m : edge[k - 1] <= edge[k]
  BY DEF Laid
<1>1. ASSUME NEW f \in packet.fields
      PROVE  /\ f.at + f.size <= packet.size
             /\ \A g \in packet.fields \ {f} :
                  f.at + f.size <= g.at \/ g.at + g.size <= f.at
  <2>1. PICK k \in 1 .. m :
          /\ f.at = edge[k - 1] /\ f.at + f.size = edge[k]
          /\ f = Field(edge[k - 1], edge[k] - edge[k - 1], what[k])
    <3>1. f \in Pieces(edge, what, m)
      BY <1>0
    <3> QED BY <3>1, PieceIs
  <2>2. edge[k] <= edge[m]
    <3>1. k \in 0 .. m /\ m \in 0 .. m /\ k <= m
      BY <1>0
    <3> QED BY <1>0, <3>1, Nondecreasing
  <2>3. ASSUME NEW g \in packet.fields \ {f}
        PROVE  f.at + f.size <= g.at \/ g.at + g.size <= f.at
    <3>1. PICK j \in 1 .. m :
            /\ g.at = edge[j - 1] /\ g.at + g.size = edge[j]
            /\ g = Field(edge[j - 1], edge[j] - edge[j - 1], what[j])
      <4>1. g \in Pieces(edge, what, m)
        BY <1>0
      <4> QED BY <4>1, PieceIs
    <3>2. j # k
      BY <2>1, <3>1
    <3>3. j \in 0 .. m /\ k \in 0 .. m /\ j - 1 \in 0 .. m /\ k - 1 \in 0 .. m
      BY <1>0
    <3>4. CASE k < j
      <4>1. k <= j - 1
        BY <1>0, <3>4
      <4>2. edge[k] <= edge[j - 1]
        BY <1>0, <3>3, <4>1, Nondecreasing
      <4> QED BY <2>1, <3>1, <4>2
    <3>5. CASE j < k
      <4>1. j <= k - 1
        BY <1>0, <3>5
      <4>2. edge[j] <= edge[k - 1]
        BY <1>0, <3>3, <4>1, Nondecreasing
      <4> QED BY <2>1, <3>1, <4>2
    <3> QED BY <3>2, <3>4, <3>5
  <2> QED BY <1>0, <2>1, <2>2, <2>3
<1>2. ASSUME NEW byte \in 0 .. packet.size - 1
      PROVE  \E f \in packet.fields : f.at <= byte /\ byte < f.at + f.size
  <2> DEFINE T == {k \in 0 .. m : byte < edge[k]}
  <2>1. m \in T /\ T \subseteq Nat
    BY <1>0
  <2>2. PICK k \in T : \A j \in T : k <= j
    <3> HIDE DEF T
    <3> QED BY <2>1, LeastElement
  <2>3. byte < edge[k] /\ k \in 1 .. m
    BY <1>0, <2>2
  <2>4. k - 1 \in 0 .. m /\ ~(k <= k - 1) /\ edge[k - 1] \in Nat /\ edge[k] \in Nat
    BY <1>0, <2>3
  <2>5. ~(byte < edge[k - 1])
    BY <2>2, <2>4
  <2> DEFINE f == Field(edge[k - 1], edge[k] - edge[k - 1], what[k])
  <2>6. f \in packet.fields
    BY <1>0, <2>3 DEF Pieces
  <2>7. f.at = edge[k - 1] /\ f.at + f.size = edge[k]
    BY <2>4 DEF Field
  <2> HIDE DEF f
  <2> QED BY <1>0, <2>3, <2>4, <2>5, <2>6, <2>7
<1> QED BY <1>1, <1>2 DEF PacketFits

LEMMA PieceRead ==
  ASSUME NEW m, NEW edge, Laid(edge, m), NEW what, Alike(edge, what, m),
         packet.fields = Pieces(edge, what, m),
         NEW k \in 1 .. m, NEW at, NEW size,
         at = edge[k - 1], size = edge[k] - edge[k - 1]
  PROVE  Read(at, size) = what[k]
<1> DEFINE there == {f \in packet.fields : f.at = at /\ f.size = size}
<1>1. Field(at, size, what[k]) \in there
  BY DEF Pieces, Field
<1>2. ASSUME NEW f \in there PROVE f.what = what[k]
  <2>1. PICK j \in 1 .. m :
          /\ f.at = edge[j - 1] /\ f.size = edge[j] - edge[j - 1] /\ f.what = what[j]
          /\ edge[j] \in Nat /\ edge[j - 1] \in Nat
    BY PieceIs
  <2>2. k \in 0 .. m
    BY DEF Laid
  <2>3. edge[k] \in Nat /\ edge[k - 1] = edge[j - 1]
    BY <1>2, <2>1, <2>2 DEF Laid
  <2>4. edge[k] = edge[j]
    BY <1>2, <2>1, <2>3
  <2> QED BY <2>1, <2>3, <2>4 DEF Alike
<1>3. Read(at, size) = (CHOOSE f \in there : TRUE).what
  BY <1>1 DEF Read
<1> HIDE DEF there
<1> QED BY <1>1, <1>2, <1>3

\* The edges of the fields of a packet with n attachments: size, sender, info,
\* the n vectors and the n attachments; and what is in between.
FieldCount(info) == 3 + 2 * Len(info.attv)

Edge(info) ==
  [k \in 0 .. FieldCount(info) |->
     IF k = 0 THEN 0 ELSE IF k = 1 THEN 4 ELSE IF k = 2 THEN 8
     ELSE IF k <= 3 + Len(info.attv) THEN VecAt + VecSize * (k - 3)
     ELSE Passing(VecAt + VecSize * Len(info.attv), Lengths(info.attv))
            [k - (3 + Len(info.attv))]]

What(info, sender) ==
  [k \in 1 .. FieldCount(info) |->
     IF k = 1 THEN PutInt(Need(info)) ELSE IF k = 2 THEN PutPtr(sender)
     ELSE IF k = 3 THEN <<info.id, Len(info.attv)>>
     ELSE IF k <= 3 + Len(info.attv) THEN info.attv[k - 3].size
     ELSE info.attv[k - (3 + Len(info.attv))].data]

LEMMA InfoIs ==
  ASSUME NEW info \in Infos
  PROVE  /\ info = [id |-> info.id, attv |-> info.attv]
         /\ info.attv \in Seq(Attachment) /\ Len(info.attv) \in Nat
         /\ DOMAIN info.attv = 1 .. Len(info.attv)
         /\ \A i \in 1 .. Len(info.attv) :
              /\ info.attv[i] = [data |-> info.attv[i].data, size |-> info.attv[i].size]
              /\ info.attv[i].size \in Nat
              /\ info.attv[i].size = 0 => info.attv[i].data = "nothing"
         /\ Lengths(info.attv) \in Seq(Nat) /\ Len(Lengths(info.attv)) = Len(info.attv)
         /\ \A i \in 1 .. Len(info.attv) : Lengths(info.attv)[i] = info.attv[i].size
<1>1. info \in [id : Codes, attv : Seq(Attachment)]
  BY PacketAssumption
<1>2. /\ info = [id |-> info.id, attv |-> info.attv]
      /\ info.attv \in Seq(Attachment) /\ Len(info.attv) \in Nat
      /\ DOMAIN info.attv = 1 .. Len(info.attv)
  BY <1>1
<1>3. \A i \in 1 .. Len(info.attv) : info.attv[i] \in Attachment
  BY <1>2
<1>4. \A i \in 1 .. Len(info.attv) :
        /\ info.attv[i] = [data |-> info.attv[i].data, size |-> info.attv[i].size]
        /\ info.attv[i].size \in Nat
        /\ info.attv[i].size = 0 => info.attv[i].data = "nothing"
  BY <1>3 DEF Attachment
<1>5. Lengths(info.attv) \in [1 .. Len(info.attv) -> Nat]
  BY <1>4 DEF Lengths
<1> QED BY <1>2, <1>4, <1>5 DEF Lengths

\* What there is in a packet.
LEMMA Places ==
  ASSUME NEW n \in Nat, NEW k \in 1 .. 3 + 2 * n
  PROVE  k \in {1, 2, 3} \/ \E i \in 1 .. n : k = 3 + i \/ k = 3 + n + i
<1>1. CASE k <= 3
  BY <1>1
<1>2. CASE k > 3 /\ k <= 3 + n
  <2>1. k - 3 \in 1 .. n /\ k = 3 + (k - 3)
    BY <1>2
  <2> QED BY <2>1
<1>3. CASE k > 3 + n
  <2>1. k - (3 + n) \in 1 .. n /\ k = 3 + n + (k - (3 + n))
    BY <1>3
  <2> QED BY <2>1
<1> QED BY <1>1, <1>2, <1>3

LEMMA EdgeIs ==
  ASSUME NEW info \in Infos
  PROVE  LET n == Len(info.attv)
             e == Edge(info)
         IN
         /\ n \in Nat /\ Laid(e, FieldCount(info)) /\ FieldCount(info) = 3 + 2 * n
         /\ e[0] = 0 /\ e[1] = 4 /\ e[2] = 8 /\ e[3] = VecAt
         /\ \A i \in 1 .. n :
              /\ e[(3 + i) - 1] = VecAt + VecSize * (i - 1)
              /\ e[3 + i] - e[(3 + i) - 1] = VecSize
              /\ e[(3 + n + i) - 1] = DataAt(info, i)
              /\ e[3 + n + i] - e[(3 + n + i) - 1] = info.attv[i].size
         /\ e[3 + 2 * n] = VecAt + VecSize * n + Total(info.attv)
<1> DEFINE n == Len(info.attv)
           e == Edge(info)
           m == 3 + 2 * n
           s == Lengths(info.attv)
           V == VecAt + VecSize * n
           c == Passing(V, s)
<1>1. n \in Nat /\ s \in Seq(Nat) /\ Len(s) = n /\ \A i \in 1 .. n : s[i] = info.attv[i].size
  BY InfoIs
<1>2. VecAt \in Nat /\ VecAt > 8 /\ VecSize \in Nat /\ VecSize >= 1
  BY PacketAssumption DEF VecAt
<1>3. \A i \in 0 .. n : VecSize * i \in Nat
  BY <1>1, <1>2
<1>4. V \in Nat
  BY <1>1, <1>2, <1>3
<1>5. c \in [0 .. n -> Nat] /\ c[0] = V /\ \A i \in 1 .. n : c[i] = c[i - 1] + s[i]
  BY <1>1, <1>4, PassingIs
<1>6. c[n] = V + Total(info.attv)
  <2>1. Total(info.attv) = Passing(0, s)[n]
    BY DEF Total
  <2>2. n \in 0 .. Len(s)
    BY <1>1
  <2> QED BY <1>1, <1>4, <2>1, <2>2, PassingShift
<1>7. e = [k \in 0 .. m |->
             IF k = 0 THEN 0 ELSE IF k = 1 THEN 4 ELSE IF k = 2 THEN 8
             ELSE IF k <= 3 + n THEN VecAt + VecSize * (k - 3) ELSE c[k - (3 + n)]]
  BY DEF Edge, FieldCount
<1>0. n = Len(info.attv) /\ FieldCount(info) = 3 + 2 * n
  BY DEF FieldCount
<1>8. \A i \in 1 .. n : DataAt(info, i) = c[i - 1]
  BY DEF DataAt
<1>9. \A i \in 1 .. n : s[i] \in Nat
  BY <1>1
<1> HIDE DEF c, s, V, n, e
<1>10. /\ e[0] = 0 /\ e[1] = 4 /\ e[2] = 8
       /\ \A i \in 0 .. n : 3 + i \in 0 .. m /\ e[3 + i] = VecAt + VecSize * i
       /\ \A i \in 1 .. n : 3 + n + i \in 0 .. m /\ e[3 + n + i] = c[i]
  <2>1. 0 \in 0 .. m /\ 1 \in 0 .. m /\ 2 \in 0 .. m
    BY <1>1
  <2>2. ASSUME NEW i \in 0 .. n PROVE 3 + i \in 0 .. m /\ e[3 + i] = VecAt + VecSize * i
    <3>1. 3 + i \in 0 .. m /\ 3 + i > 2 /\ 3 + i <= 3 + n /\ (3 + i) - 3 = i
      BY <1>1
    <3> QED BY <1>7, <3>1
  <2>3. ASSUME NEW i \in 1 .. n PROVE 3 + n + i \in 0 .. m /\ e[3 + n + i] = c[i]
    <3>1. /\ 3 + n + i \in 0 .. m /\ 3 + n + i > 2 /\ ~(3 + n + i <= 3 + n)
          /\ (3 + n + i) - (3 + n) = i
      BY <1>1
    <3> QED BY <1>7, <3>1
  <2> QED BY <1>7, <2>1, <2>2, <2>3
<1>11. e[3] = VecAt
  <2>1. 0 \in 0 .. n /\ 3 + 0 = 3 /\ VecSize * 0 = 0
    BY <1>1, <1>2
  <2>2. e[3 + 0] = VecAt + VecSize * 0
    BY <1>10, <2>1
  <2> QED BY <1>2, <2>1, <2>2
<1>12. \A i \in 0 .. n : e[3 + n + i] = c[i]
  <2>1. e[3 + n] = c[0]
    BY <1>1, <1>5, <1>10 DEF V
  <2> QED BY <1>1, <1>10, <2>1
<1>13. ASSUME NEW i \in 1 .. n
       PROVE  /\ e[(3 + i) - 1] = VecAt + VecSize * (i - 1)
              /\ e[3 + i] - e[(3 + i) - 1] = VecSize
  <2>1. i - 1 \in 0 .. n /\ i \in 0 .. n /\ (3 + i) - 1 = 3 + (i - 1)
    BY <1>1
  <2>2. e[3 + (i - 1)] = VecAt + VecSize * (i - 1) /\ e[3 + i] = VecAt + VecSize * i
    BY <1>10, <2>1
  <2>3. VecSize * i = VecSize * (i - 1) + VecSize
    BY <1>1, <1>2
  <2> QED BY <1>2, <1>3, <2>1, <2>2, <2>3
<1>14. ASSUME NEW i \in 1 .. n
       PROVE  /\ e[(3 + n + i) - 1] = DataAt(info, i)
              /\ e[3 + n + i] - e[(3 + n + i) - 1] = info.attv[i].size
              /\ e[(3 + n + i) - 1] <= e[3 + n + i]
  <2>1. i - 1 \in 0 .. n /\ i \in 0 .. n /\ (3 + n + i) - 1 = 3 + n + (i - 1)
    BY <1>1
  <2>2. e[(3 + n + i) - 1] = c[i - 1] /\ e[3 + n + i] = c[i]
    BY <1>12, <2>1
  <2>3. c[i] = c[i - 1] + s[i] /\ c[i - 1] \in Nat /\ s[i] \in Nat
    BY <1>5, <1>9, <2>1
  <2> QED BY <1>1, <1>8, <2>2, <2>3
<1>15. ASSUME NEW k \in 0 .. m
       PROVE  k \in {0, 1, 2} \/ \E i \in 0 .. n : k = 3 + i \/ k = 3 + n + i
  <2>1. CASE k > 2 /\ k <= 3 + n
    <3>1. k - 3 \in 0 .. n /\ k = 3 + (k - 3)
      BY <1>1, <2>1
    <3> QED BY <3>1
  <2>2. CASE k > 3 + n
    <3>1. k - (3 + n) \in 0 .. n /\ k = 3 + n + (k - (3 + n))
      BY <1>1, <2>2
    <3> QED BY <3>1
  <2> QED BY <1>1, <2>1, <2>2
<1>16. ASSUME NEW k \in 0 .. m PROVE e[k] \in Nat
  <2>1. CASE k \in {0, 1, 2}
    BY <1>10, <2>1
  <2>2. ASSUME NEW i \in 0 .. n, k = 3 + i PROVE e[k] \in Nat
    <3>1. VecSize * i \in Nat /\ e[3 + i] = VecAt + VecSize * i
      BY <1>3, <1>10
    <3> DEFINE d == VecSize * i
    <3>2. d \in Nat /\ e[3 + i] = VecAt + d
      BY <3>1
    <3> HIDE DEF d
    <3> QED BY <1>2, <2>2, <3>2
  <2>3. ASSUME NEW i \in 0 .. n, k = 3 + n + i PROVE e[k] \in Nat
    BY <1>5, <1>12, <2>3
  <2> QED BY <1>15, <2>1, <2>2, <2>3
<1>17. e \in [0 .. m -> Nat]
  <2>1. e = [k \in 0 .. m |-> e[k]]
    BY <1>7
  <2> QED BY <1>16, <2>1
<1>18. ASSUME NEW k \in 1 .. m PROVE e[k - 1] <= e[k]
  <2>1. CASE k = 1 \/ k = 2 \/ k = 3
    BY <1>2, <1>10, <1>11, <2>1
  <2>2. ASSUME NEW i \in 1 .. n, k = 3 + i PROVE e[k - 1] <= e[k]
    <3>1. e[k] \in Nat /\ e[k - 1] \in Nat
      <4>1. k \in 0 .. m /\ k - 1 \in 0 .. m
        BY <1>1
      <4> QED BY <1>17, <4>1
    <3> QED BY <1>2, <1>13, <2>2, <3>1
  <2>3. ASSUME NEW i \in 1 .. n, k = 3 + n + i PROVE e[k - 1] <= e[k]
    BY <1>14, <2>3
  <2>4. k \in {1, 2, 3} \/ \E i \in 1 .. n : k = 3 + i \/ k = 3 + n + i
    BY <1>1, Places
  <2> QED BY <2>1, <2>2, <2>3, <2>4
<1>19. FieldCount(info) = m /\ m \in Nat
  BY <1>0, <1>1
<1>20. e[m] = V + Total(info.attv)
  <2>1. m = 3 + n + n /\ n \in 0 .. n
    BY <1>1
  <2>2. e[3 + n + n] = c[n]
    BY <1>12, <2>1
  <2> QED BY <1>6, <2>1, <2>2
<1>21. Laid(e, m)
  BY <1>10, <1>17, <1>18, <1>19 DEF Laid
<1> QED BY <1>1, <1>10, <1>11, <1>13, <1>14, <1>19, <1>20, <1>21 DEF V, n, e

\* The build that putint() and putptr() are made for: a size and an address
\* have four bytes, and so have what is written in them.
FourByteBuild ==
  /\ SizeT = 4 /\ PtrSize = 4
  /\ \A p \in Senders : p < Base * (Base * (Base * Base))
  /\ \A info \in Infos : Need(info) < Base * (Base * (Base * Base))

LEMMA ShiftIs ==
  ASSUME NEW v \in Nat
  PROVE  /\ Base \in Nat /\ Base > 1
         /\ Shift(v) \in Nat /\ v % Base \in 0 .. Base - 1
         /\ v = Base * Shift(v) + (v % Base)
         /\ \A k \in Nat : v < Base * k => Shift(v) < k
<1>1. Base \in Nat /\ Base > 1
  BY PacketAssumption
<1> DEFINE a == v \div Base
           r == v % Base
<1>2. a \in Int /\ r \in 0 .. Base - 1 /\ v = Base * a + r
  BY <1>1, Division
<1> HIDE DEF a, r
<1>3. a \in Nat
  <2> SUFFICES ASSUME a <= -1 PROVE FALSE
    BY <1>2
  <2>1. Base * a <= -Base
    BY <1>1, <1>2
  <2> QED BY <1>1, <1>2, <2>1
<1>4. ASSUME NEW k \in Nat, v < Base * k PROVE a < k
  <2> SUFFICES ASSUME a >= k PROVE FALSE
    BY <1>2
  <2>1. Base * a >= Base * k
    BY <1>1, <1>3
  <2> QED BY <1>1, <1>2, <1>3, <1>4, <2>1
<1> QED BY <1>1, <1>2, <1>3, <1>4 DEF a, r, Shift

\* What was written in four bytes is read back, if it fits in four bytes.
LEMMA GetPut ==
  ASSUME NEW v \in Nat, v < Base * (Base * (Base * Base))
  PROVE  GetInt(PutInt(v)) = v
<1> DEFINE a == Shift(v)
           b == Shift(a)
           c == Shift(b)
<1>1. Base \in Nat /\ Base > 1 /\ Base * Base \in Nat /\ Base * (Base * Base) \in Nat
  BY PacketAssumption
<1>2. a \in Nat /\ v = Base * a + (v % Base) /\ v % Base \in Nat /\ a < Base * (Base * Base)
  BY <1>1, ShiftIs
<1>3. b \in Nat /\ a = Base * b + (a % Base) /\ a % Base \in Nat /\ b < Base * Base
  <2> HIDE DEF a
  <2>1. /\ b \in Nat /\ a = Base * b + (a % Base) /\ a % Base \in Nat
        /\ \A k \in Nat : a < Base * k => b < k
    BY <1>2, ShiftIs
  <2>2. b < Base * Base
    BY <1>1, <1>2, <2>1
  <2> QED BY <2>1, <2>2
<1>4. c \in Nat /\ b = Base * c + (b % Base) /\ b % Base \in Nat /\ c < Base
  <2> HIDE DEF b
  <2>1. /\ c \in Nat /\ b = Base * c + (b % Base) /\ b % Base \in Nat
        /\ \A k \in Nat : b < Base * k => c < k
    BY <1>3, ShiftIs
  <2> QED BY <1>1, <1>3, <2>1
<1>5. c % Base = c
  <2> HIDE DEF c
  <2>1. Base \in Nat \ {0} /\ 0 \in Int /\ c \in 0 .. Base - 1
    BY <1>1, <1>4
  <2>2. (Base * 0 + c) % Base = c
    BY <2>1, OneRemainder
  <2>3. Base * 0 + c = c
    BY <2>1
  <2> QED BY <2>2, <2>3
<1>6. PutInt(v) = <<c % Base, b % Base, a % Base, v % Base>>
  BY DEF PutInt
<1>7. GetInt(PutInt(v))
        = (((c % Base) * Base + (b % Base)) * Base + (a % Base)) * Base + (v % Base)
  BY <1>6 DEF GetInt
<1> HIDE DEF a, b, c
<1> DEFINE rv == v % Base
           ra == a % Base
           rb == b % Base
<1>8. /\ v = Base * a + rv /\ a = Base * b + ra /\ b = Base * c + rb
      /\ rv \in Nat /\ ra \in Nat /\ rb \in Nat
      /\ GetInt(PutInt(v)) = ((c * Base + rb) * Base + ra) * Base + rv
  BY <1>2, <1>3, <1>4, <1>5, <1>7
<1> HIDE DEF rv, ra, rb
<1>9. c * Base + rb = b
  BY <1>1, <1>4, <1>8
<1>10. b * Base + ra = a
  BY <1>1, <1>3, <1>8
<1>11. a * Base + rv = v
  BY <1>1, <1>2, <1>8
<1> QED BY <1>8, <1>9, <1>10, <1>11

LEMMA WhatIs ==
  ASSUME NEW info \in Infos, NEW sender
  PROVE  LET n == Len(info.attv)
             w == What(info, sender)
         IN
         /\ w[1] = PutInt(Need(info)) /\ w[2] = PutPtr(sender) /\ w[3] = <<info.id, n>>
         /\ \A i \in 1 .. n :
              /\ 3 + i \in 1 .. FieldCount(info) /\ w[3 + i] = info.attv[i].size
              /\ 3 + n + i \in 1 .. FieldCount(info) /\ w[3 + n + i] = info.attv[i].data
         /\ {1, 2, 3} \subseteq 1 .. FieldCount(info)
<1> DEFINE n == Len(info.attv)
           w == What(info, sender)
           m == 3 + 2 * n
<1>1. n \in Nat /\ FieldCount(info) = m
  BY InfoIs DEF FieldCount
<1>2. w = [k \in 1 .. m |->
             IF k = 1 THEN PutInt(Need(info)) ELSE IF k = 2 THEN PutPtr(sender)
             ELSE IF k = 3 THEN <<info.id, n>>
             ELSE IF k <= 3 + n THEN info.attv[k - 3].size
             ELSE info.attv[k - (3 + n)].data]
  BY <1>1 DEF What
<1>3. 1 \in 1 .. m /\ 2 \in 1 .. m /\ 3 \in 1 .. m
  BY <1>1
<1>4. ASSUME NEW i \in 1 .. n
      PROVE  /\ 3 + i \in 1 .. m /\ w[3 + i] = info.attv[i].size
             /\ 3 + n + i \in 1 .. m /\ w[3 + n + i] = info.attv[i].data
  <2>1. 3 + i \in 1 .. m /\ 3 + i > 3 /\ 3 + i <= 3 + n /\ (3 + i) - 3 = i
    BY <1>1
  <2>2. /\ 3 + n + i \in 1 .. m /\ 3 + n + i > 3 /\ ~(3 + n + i <= 3 + n)
        /\ (3 + n + i) - (3 + n) = i
    BY <1>1
  <2>3. w[3 + i] = info.attv[i].size
    BY <1>2, <2>1
  <2>4. w[3 + n + i] = info.attv[i].data
    BY <1>2, <2>2
  <2> QED BY <2>1, <2>2, <2>3, <2>4
<1> QED BY <1>1, <1>2, <1>3, <1>4

\* What the constructor writes lies one after another.
LEMMA WrittenIs ==
  ASSUME NEW info \in Infos, NEW sender
  PROVE  Written(info, sender) = Pieces(Edge(info), What(info, sender), FieldCount(info))
<1> DEFINE n == Len(info.attv)
           e == Edge(info)
           w == What(info, sender)
           m == FieldCount(info)
           P == Pieces(e, w, m)
<1>0. n = Len(info.attv) /\ e = Edge(info) /\ w = What(info, sender) /\ m = FieldCount(info)
  OBVIOUS
<1>1. /\ n \in Nat /\ m = 3 + 2 * n
      /\ e[0] = 0 /\ e[1] = 4 /\ e[2] = 8 /\ e[3] = VecAt
      /\ \A i \in 1 .. n :
           /\ e[(3 + i) - 1] = VecAt + VecSize * (i - 1)
           /\ e[3 + i] - e[(3 + i) - 1] = VecSize
           /\ e[(3 + n + i) - 1] = DataAt(info, i)
           /\ e[3 + n + i] - e[(3 + n + i) - 1] = info.attv[i].size
  BY EdgeIs
<1>2. /\ w[1] = PutInt(Need(info)) /\ w[2] = PutPtr(sender) /\ w[3] = <<info.id, n>>
      /\ \A i \in 1 .. n :
           /\ 3 + i \in 1 .. m /\ w[3 + i] = info.attv[i].size
           /\ 3 + n + i \in 1 .. m /\ w[3 + n + i] = info.attv[i].data
      /\ {1, 2, 3} \subseteq 1 .. m
  BY WhatIs
<1>3. VecAt - 8 = InfoSize /\ DOMAIN info.attv = 1 .. n
  BY <1>0, PacketAssumption, InfoIs DEF VecAt
<1> HIDE DEF n, e, w, m
<1> DEFINE Piece(k) == Field(e[k - 1], e[k] - e[k - 1], w[k])
<1>4. P = {Piece(k) : k \in 1 .. m}
  BY DEF Pieces
<1>5. Written(info, sender) =
        {Field(0, 4, PutInt(Need(info))), Field(4, 4, PutPtr(sender)),
         Field(8, InfoSize, <<info.id, n>>)}
        \cup {Field(VecAt + VecSize * (i - 1), VecSize, info.attv[i].size) : i \in 1 .. n}
        \cup {Field(DataAt(info, i), info.attv[i].size, info.attv[i].data) : i \in 1 .. n}
  BY <1>0, <1>3 DEF Written
<1> HIDE DEF P
<1>6. /\ Piece(1) = Field(0, 4, PutInt(Need(info)))
      /\ Piece(2) = Field(4, 4, PutPtr(sender))
      /\ Piece(3) = Field(8, InfoSize, <<info.id, n>>)
  BY <1>1, <1>2, <1>3
<1>7. \A i \in 1 .. n :
        /\ Piece(3 + i) = Field(VecAt + VecSize * (i - 1), VecSize, info.attv[i].size)
        /\ Piece(3 + n + i) = Field(DataAt(info, i), info.attv[i].size, info.attv[i].data)
  BY <1>1, <1>2
<1>8. \A k \in 1 .. m :
        k \in {1, 2, 3} \/ \E i \in 1 .. n : k = 3 + i \/ k = 3 + n + i
  BY <1>1, Places
<1> HIDE DEF Piece
<1>9. Written(info, sender) \subseteq P
  BY <1>2, <1>4, <1>5, <1>6, <1>7
<1>10. P \subseteq Written(info, sender)
  BY <1>4, <1>5, <1>6, <1>7, <1>8
<1> QED BY <1>0, <1>9, <1>10 DEF P

\* Only attachments may be empty, and empty attachments hold the same.
LEMMA WhatIsAlike ==
  ASSUME NEW info \in Infos, NEW sender
  PROVE  Alike(Edge(info), What(info, sender), FieldCount(info))
<1> DEFINE n == Len(info.attv)
           e == Edge(info)
           w == What(info, sender)
           m == FieldCount(info)
<1>0. n = Len(info.attv) /\ e = Edge(info) /\ w = What(info, sender) /\ m = FieldCount(info)
  OBVIOUS
<1>1. /\ n \in Nat /\ Laid(e, m) /\ m = 3 + 2 * n
      /\ e[0] = 0 /\ e[1] = 4 /\ e[2] = 8 /\ e[3] = VecAt
      /\ \A i \in 1 .. n :
           /\ e[3 + i] - e[(3 + i) - 1] = VecSize
           /\ e[3 + n + i] - e[(3 + n + i) - 1] = info.attv[i].size
  BY EdgeIs
<1>2. \A i \in 1 .. n : w[3 + n + i] = info.attv[i].data
  BY WhatIs
<1>3. \A i \in 1 .. n : info.attv[i].size = 0 => info.attv[i].data = "nothing"
  BY InfoIs
<1> HIDE DEF n, e, w, m
<1>4. VecAt > 8 /\ VecSize > 0 /\ VecAt \in Nat /\ VecSize \in Nat
  BY PacketAssumption DEF VecAt
<1>5. \A k \in 1 .. m :
        k \in {1, 2, 3} \/ \E i \in 1 .. n : k = 3 + i \/ k = 3 + n + i
  BY <1>1, Places
<1>6. /\ m \in Nat /\ e \in [0 .. m -> Nat]
      /\ \A k \in 1 .. m : e[k - 1] \in Nat /\ e[k] \in Nat /\ e[k - 1] <= e[k]
  BY <1>1 DEF Laid
<1>7. ASSUME NEW k \in 1 .. m, e[k - 1] = e[k] PROVE w[k] = "nothing"
  <2>1. e[k] - e[k - 1] = 0
    BY <1>6, <1>7
  <2>2. k \notin {1, 2, 3}
    BY <1>1, <1>4, <1>7
  <2>3. PICK i \in 1 .. n : k = 3 + i \/ k = 3 + n + i
    BY <1>5, <2>2
  <2>4. CASE k = 3 + i
    <3>1. e[k] - e[k - 1] = VecSize
      BY <1>1, <2>4
    <3> QED BY <1>4, <2>1, <3>1
  <2>5. CASE k = 3 + n + i
    <3>1. e[k] - e[k - 1] = info.attv[i].size /\ w[k] = info.attv[i].data
      BY <1>1, <1>2, <2>5
    <3> QED BY <1>3, <2>1, <3>1
  <2> QED BY <2>3, <2>4, <2>5
<1>8. ASSUME NEW j \in 1 .. m, NEW k \in 1 .. m, j < k, e[j - 1] = e[k - 1], e[j] = e[k]
      PROVE  w[j] = w[k]
  <2>1. j \in 0 .. m /\ k - 1 \in 0 .. m /\ j <= k - 1
    BY <1>6, <1>8
  <2>2. e[j] <= e[k - 1]
    BY <1>6, <2>1, Nondecreasing
  <2>3. e[j - 1] = e[j] /\ e[k - 1] = e[k]
    BY <1>6, <1>8, <2>2
  <2> QED BY <1>7, <2>3
<1>9. ASSUME NEW j \in 1 .. m, NEW k \in 1 .. m, e[j - 1] = e[k - 1], e[j] = e[k]
      PROVE  w[j] = w[k]
  <2>1. j < k \/ k < j \/ j = k
    OBVIOUS
  <2> QED BY <1>8, <1>9, <2>1
<1>10. Alike(e, w, m)
  BY <1>9 DEF Alike
<1> QED BY <1>0, <1>10

\* What a packet is made of.
PacketOf(info, sender) == [size |-> Need(info), fields |-> Written(info, sender)]

LEMMA NeedIs ==
  ASSUME FourByteBuild, NEW info \in Infos
  PROVE  /\ Need(info) \in Nat
         /\ Need(info) = VecAt + VecSize * Len(info.attv) + Total(info.attv)
<1>1. Total(info.attv) \in Nat
  <2>1. /\ Lengths(info.attv) \in Seq(Nat) /\ Len(info.attv) \in Nat
        /\ Len(Lengths(info.attv)) = Len(info.attv)
    BY InfoIs
  <2>2. Passing(0, Lengths(info.attv)) \in [0 .. Len(info.attv) -> Nat]
    BY <2>1, PassingIs
  <2> QED BY <2>1, <2>2 DEF Total
<1>2. VecSize * Len(info.attv) \in Nat
  BY PacketAssumption, InfoIs
<1>3. InfoSize \in Nat
  BY PacketAssumption
<1> DEFINE t == Total(info.attv)
           v == VecSize * Len(info.attv)
<1>4. Need(info) = 4 + 4 + InfoSize + t + v /\ VecAt + v + t = 4 + 4 + InfoSize + v + t
  BY DEF Need, FourByteBuild, VecAt
<1>5. t \in Nat /\ v \in Nat
  BY <1>1, <1>2
<1> SUFFICES Need(info) \in Nat /\ Need(info) = VecAt + v + t
  OBVIOUS
<1> HIDE DEF t, v
<1> QED BY <1>3, <1>4, <1>5

LEMMA PacketFitsOf ==
  ASSUME FourByteBuild, NEW info \in Infos, NEW sender, packet = PacketOf(info, sender)
  PROVE  PacketFits
<1> DEFINE e == Edge(info)
           w == What(info, sender)
           m == FieldCount(info)
<1>1. /\ Laid(e, m) /\ m = 3 + 2 * Len(info.attv)
      /\ e[3 + 2 * Len(info.attv)] = VecAt + VecSize * Len(info.attv) + Total(info.attv)
  BY EdgeIs
<1>2. Written(info, sender) = Pieces(e, w, m)
  BY WrittenIs
<1>3. Need(info) = e[m]
  BY <1>1, NeedIs
<1>4. packet = [size |-> e[m], fields |-> Pieces(e, w, m)]
  BY <1>2, <1>3 DEF PacketOf
<1> HIDE DEF e, w, m
<1> QED BY <1>1, <1>4, PiecesFit

\* What is read where the constructor wrote.
LEMMA PacketRead ==
  ASSUME NEW info \in Infos, NEW sender, packet.fields = Written(info, sender)
  PROVE  /\ Read(0, 4) = PutInt(Need(info)) /\ Read(4, 4) = PutPtr(sender)
         /\ Read(8, InfoSize) = <<info.id, Len(info.attv)>>
         /\ \A i \in 1 .. Len(info.attv) :
              /\ Read(VecAt + VecSize * (i - 1), VecSize) = info.attv[i].size
              /\ Read(DataAt(info, i), info.attv[i].size) = info.attv[i].data
<1> DEFINE n == Len(info.attv)
           e == Edge(info)
           w == What(info, sender)
           m == FieldCount(info)
<1>1. /\ n \in Nat /\ Laid(e, m) /\ m = 3 + 2 * n
      /\ e[0] = 0 /\ e[1] = 4 /\ e[2] = 8 /\ e[3] = VecAt
      /\ \A i \in 1 .. n :
           /\ e[(3 + i) - 1] = VecAt + VecSize * (i - 1)
           /\ e[3 + i] - e[(3 + i) - 1] = VecSize
           /\ e[(3 + n + i) - 1] = DataAt(info, i)
           /\ e[3 + n + i] - e[(3 + n + i) - 1] = info.attv[i].size
  BY EdgeIs
<1>2. /\ w[1] = PutInt(Need(info)) /\ w[2] = PutPtr(sender) /\ w[3] = <<info.id, n>>
      /\ \A i \in 1 .. n :
           /\ 3 + i \in 1 .. m /\ w[3 + i] = info.attv[i].size
           /\ 3 + n + i \in 1 .. m /\ w[3 + n + i] = info.attv[i].data
      /\ {1, 2, 3} \subseteq 1 .. m
  BY WhatIs
<1>3. packet.fields = Pieces(e, w, m)
  BY WrittenIs
<1>4. Alike(e, w, m)
  BY WhatIsAlike
<1>5. VecAt - 8 = InfoSize
  BY PacketAssumption DEF VecAt
<1> SUFFICES /\ Read(0, 4) = PutInt(Need(info)) /\ Read(4, 4) = PutPtr(sender)
             /\ Read(8, InfoSize) = <<info.id, n>>
             /\ \A i \in 1 .. n :
                  /\ Read(VecAt + VecSize * (i - 1), VecSize) = info.attv[i].size
                  /\ Read(DataAt(info, i), info.attv[i].size) = info.attv[i].data
  OBVIOUS
<1> HIDE DEF n, e, w, m
<1>6. \A k \in 1 .. m : Read(e[k - 1], e[k] - e[k - 1]) = w[k]
  BY <1>1, <1>3, <1>4, PieceRead
<1>7. /\ Read(e[0], e[1] - e[0]) = w[1] /\ Read(e[1], e[2] - e[1]) = w[2]
      /\ Read(e[2], e[3] - e[2]) = w[3]
  <2>1. 1 \in 1 .. m /\ 2 \in 1 .. m /\ 3 \in 1 .. m /\ 1 - 1 = 0 /\ 2 - 1 = 1 /\ 3 - 1 = 2
    BY <1>2
  <2> QED BY <1>6, <2>1
<1>8. ASSUME NEW i \in 1 .. n
      PROVE  /\ Read(VecAt + VecSize * (i - 1), VecSize) = info.attv[i].size
             /\ Read(DataAt(info, i), info.attv[i].size) = info.attv[i].data
  <2>1. Read(e[(3 + i) - 1], e[3 + i] - e[(3 + i) - 1]) = w[3 + i]
    BY <1>2, <1>6
  <2>2. Read(e[(3 + n + i) - 1], e[3 + n + i] - e[(3 + n + i) - 1]) = w[3 + n + i]
    BY <1>2, <1>6
  <2> QED BY <1>1, <1>2, <2>1, <2>2
<1>9. e[1] - e[0] = 4 /\ e[2] - e[1] = 4 /\ e[3] - e[2] = InfoSize
  BY <1>1, <1>5
<1> QED BY <1>1, <1>2, <1>7, <1>8, <1>9

\* The block is what the constructor made of what was sent, and what was
\* mapped, if anything was, is what was sent.
PacketInv ==
  \/ packet = Null /\ seen = Unset
  \/ \E info \in Infos, sender \in Senders :
       /\ sent = [info |-> info, sender |-> sender]
       /\ packet = PacketOf(info, sender)
       /\ seen \in {Unset, sent}

LEMMA MapStep ==
  ASSUME FourByteBuild, NEW info \in Infos, NEW sender \in Senders,
         packet = PacketOf(info, sender), MapPacket
  PROVE  seen' = [info |-> info, sender |-> sender] /\ packet' = packet /\ sent' = sent
<1> DEFINE n == Len(info.attv)
           head == Read(8, InfoSize)
           size == [i \in 1 .. head[2] |-> Read(VecAt + VecSize * (i - 1), VecSize)]
           at == Passing(VecAt + VecSize * head[2], size)
<1>1. packet.fields = Written(info, sender)
  BY DEF PacketOf
<1>2. /\ Read(4, 4) = PutPtr(sender) /\ head = <<info.id, n>>
      /\ \A i \in 1 .. n :
           /\ Read(VecAt + VecSize * (i - 1), VecSize) = info.attv[i].size
           /\ Read(DataAt(info, i), info.attv[i].size) = info.attv[i].data
  BY <1>1, PacketRead
<1>3. head[1] = info.id /\ head[2] = n
  BY <1>2
<1>4. seen' = [info |-> [id |-> head[1],
                         attv |-> [i \in 1 .. head[2] |->
                           [data |-> Read(at[i - 1], size[i]), size |-> size[i]]]],
               sender |-> GetPtr(Read(4, 4))]
  BY DEF MapPacket
<1>5. size = Lengths(info.attv)
  BY <1>2, <1>3 DEF Lengths
<1>6. \A i \in 1 .. n : at[i - 1] = DataAt(info, i) /\ size[i] = info.attv[i].size
  <2>1. at = Passing(VecAt + VecSize * n, Lengths(info.attv))
    BY <1>3, <1>5
  <2> HIDE DEF at, size
  <2>2. \A i \in 1 .. n : size[i] = info.attv[i].size
    BY <1>5, InfoIs
  <2> QED BY <2>1, <2>2 DEF DataAt
<1>7. GetPtr(Read(4, 4)) = sender
  <2>1. sender \in Nat /\ sender < Base * (Base * (Base * Base))
    BY PacketAssumption DEF FourByteBuild
  <2>2. GetInt(PutInt(sender)) = sender
    BY <2>1, GetPut
  <2> QED BY <1>2, <2>2 DEF GetPtr, PutPtr
<1> HIDE DEF at, size, head
<1>8. [i \in 1 .. n |-> [data |-> Read(at[i - 1], size[i]), size |-> size[i]]] = info.attv
  <2>1. /\ info.attv \in Seq(Attachment) /\ DOMAIN info.attv = 1 .. n
        /\ \A i \in 1 .. n :
             info.attv[i] = [data |-> info.attv[i].data, size |-> info.attv[i].size]
    BY InfoIs
  <2>2. info.attv = [i \in 1 .. n |-> info.attv[i]]
    BY <2>1
  <2>3. \A i \in 1 .. n : [data |-> Read(at[i - 1], size[i]), size |-> size[i]] = info.attv[i]
    BY <1>2, <1>6, <2>1
  <2> QED BY <2>2, <2>3
<1>9. info = [id |-> info.id, attv |-> info.attv]
  BY InfoIs
<1>10. packet' = packet /\ sent' = sent
  BY DEF MapPacket
<1> HIDE DEF n
<1> QED BY <1>3, <1>4, <1>7, <1>8, <1>9, <1>10

LEMMA CloneStep ==
  ASSUME FourByteBuild, NEW info \in Infos, NEW sender \in Senders,
         packet = PacketOf(info, sender), Clone
  PROVE  packet' = packet
<1>1. packet.fields = Written(info, sender) /\ packet.size = Need(info)
  BY DEF PacketOf
<1>2. Need(info) \in Nat /\ Need(info) < Base * (Base * (Base * Base))
  BY NeedIs DEF FourByteBuild
<1>3. GetInt(Read(0, 4)) = packet.size
  <2>1. Read(0, 4) = PutInt(Need(info))
    BY <1>1, PacketRead
  <2> QED BY <1>1, <1>2, <2>1, GetPut
<1>4. packet' = [size |-> packet.size,
                 fields |-> {f \in packet.fields : f.at + f.size <= packet.size}]
  BY <1>3 DEF Clone
<1>5. {f \in packet.fields : f.at + f.size <= packet.size} = packet.fields
  BY PacketFitsOf DEF PacketFits
<1>6. packet = [size |-> packet.size, fields |-> packet.fields]
  BY DEF PacketOf
<1> QED BY <1>4, <1>5, <1>6

LEMMA PacketStep == FourByteBuild /\ PacketInv /\ [PacketNext]_packetVars => PacketInv'
<1> SUFFICES ASSUME FourByteBuild, PacketInv, [PacketNext]_packetVars PROVE PacketInv'
  OBVIOUS
<1>1. ASSUME NEW info \in Infos, NEW sender \in Senders, Build(info, sender)
      PROVE  PacketInv'
  <2>1. /\ sent' = [info |-> info, sender |-> sender]
        /\ packet' = PacketOf(info, sender)
        /\ seen' \in {Unset, sent'}
    BY <1>1 DEF Build, PacketOf
  <2> QED BY <2>1 DEF PacketInv
<1>2. CASE MapPacket
  <2>1. packet # Null
    BY <1>2 DEF MapPacket
  <2>2. PICK info \in Infos, sender \in Senders :
          /\ sent = [info |-> info, sender |-> sender]
          /\ packet = PacketOf(info, sender)
    BY <2>1 DEF PacketInv
  <2>3. seen' = [info |-> info, sender |-> sender] /\ packet' = packet /\ sent' = sent
    BY <1>2, <2>2, MapStep
  <2> QED BY <2>2, <2>3 DEF PacketInv, PacketOf, Need, Written
<1>3. CASE Clone
  <2>1. packet # Null /\ seen' = seen /\ sent' = sent
    BY <1>3 DEF Clone
  <2>2. PICK info \in Infos, sender \in Senders :
          /\ sent = [info |-> info, sender |-> sender]
          /\ packet = PacketOf(info, sender) /\ seen \in {Unset, sent}
    BY <2>1 DEF PacketInv
  <2>3. packet' = packet
    BY <1>3, <2>2, CloneStep
  <2> QED BY <2>1, <2>2, <2>3 DEF PacketInv
<1>4. CASE Discard
  BY <1>4 DEF Discard, PacketInv, Null
<1>5. CASE UNCHANGED packetVars
  BY <1>5 DEF packetVars, PacketInv
<1> QED BY <1>1, <1>2, <1>3, <1>4, <1>5 DEF PacketNext

LEMMA PacketInvFits == FourByteBuild /\ PacketInv => PacketFits
<1> SUFFICES ASSUME FourByteBuild, PacketInv PROVE PacketFits
  OBVIOUS
<1>1. CASE packet = Null
  <2>1. packet.fields = {} /\ packet.size = 0
    BY <1>1 DEF Null
  <2>2. 0 .. packet.size - 1 = {}
    BY <2>1
  <2> QED BY <2>1, <2>2 DEF PacketFits
<1>2. CASE packet # Null
  BY <1>2, PacketFitsOf DEF PacketInv
<1> QED BY <1>1, <1>2

\* In a build whose sizes and addresses have four bytes, the fields of every
\* packet, of any number of attachments of any size, lie in the block that the
\* constructor asked for, apart, and fill it.
THEOREM PacketsFit == ASSUME FourByteBuild PROVE PacketSpec => []PacketFits
<1>1. PacketInit => PacketInv
  BY DEF PacketInit, PacketInv
<1>2. PacketInv /\ [PacketNext]_packetVars => PacketInv'
  BY PacketStep
<1>3. PacketInv => PacketFits
  BY PacketInvFits
<1> QED BY <1>1, <1>2, <1>3, PTL DEF PacketSpec

\* In such a build, what a receiver maps, from the packet or from a clone, is
\* what was sent: each attachment with its length, and whom to unblock.
THEOREM PacketsCarry == ASSUME FourByteBuild PROVE PacketSpec => []PacketCarries
<1>1. PacketInit => PacketInv
  BY DEF PacketInit, PacketInv
<1>2. PacketInv => PacketCarries
  BY DEF PacketInv, PacketCarries
<1>3. PacketInv /\ [PacketNext]_packetVars => PacketInv'
  BY PacketStep
<1> QED BY <1>1, <1>2, <1>3, PTL DEF PacketSpec
-----------------------------------------------------------------------------
(* gcd(): it ends, divides both of its arguments and is a sum of multiples *)
(* of them.                                                                *)

Divides(d, x) == \E k \in Int : x = d * k

LEMMA DividesSum ==
  ASSUME NEW d \in Int, NEW x \in Int, NEW y \in Int, Divides(d, x), Divides(d, y)
  PROVE  Divides(d, x + y) /\ Divides(d, x - y)
<1>1. PICK k \in Int : x = d * k
  BY DEF Divides
<1>2. PICK l \in Int : y = d * l
  BY DEF Divides
<1>3. x + y = d * (k + l) /\ x - y = d * (k - l) /\ k + l \in Int /\ k - l \in Int
  BY <1>1, <1>2
<1> QED BY <1>3 DEF Divides

LEMMA DividesTimes ==
  ASSUME NEW d \in Int, NEW x \in Int, NEW z \in Int, Divides(d, x)
  PROVE  Divides(d, x * z)
<1>1. PICK k \in Int : x = d * k
  BY DEF Divides
<1>2. x * z = d * (k * z) /\ k * z \in Int
  BY <1>1
<1> QED BY <1>2 DEF Divides

\* A divisor of a positive number is at most that.
LEMMA DividesBound ==
  ASSUME NEW d \in Nat \ {0}, NEW x \in Nat \ {0}, Divides(d, x)
  PROVE  d <= x
<1>1. PICK k \in Int : x = d * k
  BY DEF Divides
<1>2. k >= 1
  <2> SUFFICES ASSUME k <= 0 PROVE FALSE
    BY <1>1
  <2>1. d * k <= 0
    BY <1>1
  <2> QED BY <1>1, <2>1
<1>3. d * k >= d
  BY <1>2
<1> QED BY <1>1, <1>3

\* A number below a divisor of it is zero.
LEMMA DividesZero ==
  ASSUME NEW d \in Nat \ {0}, NEW x \in 0 .. d - 1, Divides(d, x)
  PROVE  x = 0
BY DividesBound

LEMMA DividesRemainder ==
  ASSUME NEW x \in Int, NEW d \in Nat \ {0}
  PROVE  (x % d = 0) <=> Divides(d, x)
<1> DEFINE q == x \div d
<1>1. q \in Int /\ x % d \in 0 .. d - 1 /\ x = d * q + (x % d)
  BY Division
<1> HIDE DEF q
<1>2. ASSUME x % d = 0 PROVE Divides(d, x)
  <2>1. x = d * q
    BY <1>1, <1>2
  <2> QED BY <1>1, <2>1 DEF Divides
<1>3. ASSUME Divides(d, x) PROVE x % d = 0
  <2>1. PICK k \in Int : x = d * k
    BY <1>3 DEF Divides
  <2>2. 0 \in 0 .. d - 1 /\ d * k + 0 = x
    BY <2>1
  <2> QED BY <2>1, <2>2, OneRemainder
<1> QED BY <1>2, <1>3

CommonDivisors(a, b) == {d \in Nat \ {0} : Divides(d, a) /\ Divides(d, b)}

Greatest(a, b) ==
  CHOOSE d \in CommonDivisors(a, b) : \A e \in CommonDivisors(a, b) : e <= d

\* What the loop goes on with has the same divisors.
LEMMA EuclidStep ==
  ASSUME NEW b \in Nat \ {0}, NEW a \in Nat
  PROVE  /\ a % b = 0 => Greatest(a, b) = b
         /\ a % b # 0 => Greatest(a, b) = Greatest(b, a % b)
<1> DEFINE q == a \div b
           r == a % b
<1>1. q \in Int /\ r \in 0 .. b - 1 /\ a = b * q + r
  BY Division
<1> HIDE DEF q
<1>2. ASSUME r = 0 PROVE Greatest(a, b) = b
  <2>1. Divides(b, b) /\ Divides(b, a)
    <3>1. b = b * 1
      OBVIOUS
    <3>2. a = b * q
      BY <1>1, <1>2
    <3> QED BY <1>1, <3>1, <3>2 DEF Divides
  <2>2. b \in CommonDivisors(a, b)
    BY <2>1 DEF CommonDivisors
  <2>3. \A e \in CommonDivisors(a, b) : e <= b
    BY DividesBound DEF CommonDivisors
  <2> DEFINE g == Greatest(a, b)
  <2>4. g \in CommonDivisors(a, b) /\ \A e \in CommonDivisors(a, b) : e <= g
    BY <2>2, <2>3 DEF Greatest
  <2> HIDE DEF g
  <2>5. g <= b /\ b <= g /\ g \in Nat
    BY <2>2, <2>3, <2>4 DEF CommonDivisors
  <2> QED BY <2>5 DEF g
<1>3. CommonDivisors(a, b) = CommonDivisors(b, r)
  <2>1. ASSUME NEW d \in Nat \ {0}, Divides(d, b)
        PROVE  Divides(d, a) <=> Divides(d, r)
    <3>1. Divides(d, b * q) /\ b * q \in Int
      <4>1. d \in Int /\ b \in Int /\ q \in Int
        BY <1>1
      <4>2. Divides(d, b * q)
        BY <2>1, <4>1, DividesTimes
      <4> QED BY <4>1, <4>2
    <3> HIDE DEF r
    <3>2. Divides(d, a) => Divides(d, a - b * q)
      BY <1>1, <3>1, DividesSum
    <3>3. Divides(d, r) => Divides(d, r + b * q)
      BY <1>1, <3>1, DividesSum
    <3>4. a - b * q = r /\ r + b * q = a
      BY <1>1, <3>1
    <3> QED BY <3>2, <3>3, <3>4
  <2> HIDE DEF r
  <2> QED BY <2>1 DEF CommonDivisors
<1>4. Greatest(a, b) = Greatest(b, r)
  BY <1>3 DEF Greatest
<1> QED BY <1>2, <1>4

LEMMA GcdIs ==
  ASSUME NEW b \in Nat \ {0}, NEW a \in Nat
  PROVE  gcd[b][a] = IF a % b = 0 THEN b ELSE gcd[a % b][b]
<1> DEFINE f == [y \in Nat \ {0} |-> [x \in Nat |-> Greatest(x, y)]]
<1>1. ASSUME NEW y \in Nat \ {0}, NEW x \in Nat
      PROVE  /\ x % y # 0 => x % y \in Nat \ {0}
             /\ Greatest(x, y) = IF x % y = 0 THEN y ELSE f[x % y][y]
  <2>1. x % y \in 0 .. y - 1
    BY Division
  <2>2. x % y # 0 => f[x % y][y] = Greatest(y, x % y)
    BY <2>1
  <2> QED BY <2>1, <2>2, EuclidStep
<1>2. f = [y \in Nat \ {0} |-> [x \in Nat |-> IF x % y = 0 THEN y ELSE f[x % y][y]]]
  <2> DEFINE h == [y \in Nat \ {0} |-> [x \in Nat |-> IF x % y = 0 THEN y ELSE f[x % y][y]]]
  <2>1. ASSUME NEW y \in Nat \ {0} PROVE f[y] = h[y]
    BY <1>1
  <2> QED BY <2>1
<1> HIDE DEF f
<1>3. gcd = [y \in Nat \ {0} |-> [x \in Nat |-> IF x % y = 0 THEN y ELSE gcd[x % y][y]]]
  BY <1>2 DEF gcd
<1> QED BY <1>3

\* What gcd() returns of two positive numbers, or of zero and one.
GcdOf(a, b, g) ==
  /\ g \in 1 .. b /\ Divides(g, a) /\ Divides(g, b)
  /\ \E u, v \in Int : g = u * a + v * b

LEMMA GcdCorrect ==
  ASSUME NEW b \in Nat \ {0}, NEW a \in Nat
  PROVE  GcdOf(a, b, gcd[b][a])
<1> DEFINE U == {y \in Nat \ {0} : \E x \in Nat : ~ GcdOf(x, y, gcd[y][x])}
<1> SUFFICES ASSUME U # {} PROVE FALSE
  OBVIOUS
<1>1. PICK y \in U : \A z \in U : y <= z
  <2>1. U \subseteq Nat
    OBVIOUS
  <2> HIDE DEF U
  <2> QED BY <2>1, LeastElement
<1>2. PICK x \in Nat : ~ GcdOf(x, y, gcd[y][x])
  BY <1>1
<1> DEFINE q == x \div y
           r == x % y
<1>3. y \in Nat \ {0} /\ q \in Int /\ r \in 0 .. y - 1 /\ x = y * q + r
  <2>1. y \in Nat \ {0} /\ x \in Int
    BY <1>1, <1>2
  <2> QED BY <2>1, Division
<1>4. gcd[y][x] = IF r = 0 THEN y ELSE gcd[r][y]
  BY <1>2, <1>3, GcdIs
<1>5. CASE r = 0
  <2>1. Divides(y, x)
    BY <1>2, <1>3, <1>5, DividesRemainder
  <2>2. y = y * 1 /\ y = 0 * x + 1 * y
    BY <1>2, <1>3
  <2>3. Divides(y, y) /\ \E u, v \in Int : y = u * x + v * y
    <3>1. 0 \in Int /\ 1 \in Int
      OBVIOUS
    <3>2. Divides(y, y)
      BY <2>2, <3>1 DEF Divides
    <3> QED BY <2>2, <3>1, <3>2
  <2>4. gcd[y][x] = y /\ y \in 1 .. y
    BY <1>3, <1>4, <1>5
  <2> HIDE DEF q, r
  <2> QED BY <1>2, <2>1, <2>3, <2>4 DEF GcdOf
<1>6. CASE r # 0
  <2> DEFINE g == gcd[r][y]
  <2> HIDE DEF q, r
  <2>1. r \in Nat \ {0} /\ ~ (y <= r)
    BY <1>3, <1>6
  <2>2. GcdOf(y, r, g)
    BY <1>1, <1>3, <2>1
  <2>3. PICK u \in Int, v \in Int : g = u * y + v * r
    BY <2>2 DEF GcdOf
  <2>4. g \in 1 .. r /\ Divides(g, y) /\ Divides(g, r) /\ g \in Int
    BY <1>3, <2>2 DEF GcdOf
  <2> HIDE DEF g
  <2>5. Divides(g, y * q) /\ y * q \in Int
    <3>1. g \in Int /\ y \in Int /\ q \in Int
      BY <1>3, <2>4
    <3>2. Divides(g, y * q)
      BY <2>4, <3>1, DividesTimes
    <3> QED BY <3>1, <3>2
  <2>6. Divides(g, x)
    <3>1. r \in Int /\ x = y * q + r
      BY <1>3
    <3> HIDE DEF q, r
    <3>2. Divides(g, y * q + r)
      BY <2>4, <2>5, <3>1, DividesSum
    <3> QED BY <3>1, <3>2
  <2>7. g = v * x + (u - v * q) * y /\ u - v * q \in Int
    <3>1. v * x = v * (y * q) + v * r
      BY <1>2, <1>3, <2>3
    <3>2. (u - v * q) * y = u * y - v * (y * q)
      BY <1>3, <2>3
    <3> QED BY <1>2, <1>3, <2>3, <3>1, <3>2
  <2>8. g \in 1 .. y
    BY <1>3, <2>4
  <2>9. gcd[y][x] = g
    BY <1>4, <1>6 DEF g
  <2>10. \E s, t \in Int : g = s * x + t * y
    BY <2>3, <2>7
  <2> QED BY <1>2, <2>4, <2>6, <2>8, <2>9, <2>10 DEF GcdOf
<1> QED BY <1>5, <1>6

LEMMA SameRemainder ==
  ASSUME NEW n \in Nat \ {0}, NEW x \in Int, NEW y \in Int
  PROVE  /\ x % n = y % n <=> Divides(n, x - y)
         /\ y \in 0 .. n - 1 => y % n = y
<1> DEFINE q == x \div n
           s == y \div n
           r == y % n
<1>1. q \in Int /\ x % n \in 0 .. n - 1 /\ x = n * q + (x % n)
  BY Division
<1>2. s \in Int /\ r \in 0 .. n - 1 /\ y = n * s + r
  BY Division
<1> HIDE DEF q, s, r
<1>3. ASSUME x % n = r PROVE Divides(n, x - y)
  <2>1. x - y = n * (q - s) /\ q - s \in Int
    BY <1>1, <1>2, <1>3
  <2> QED BY <1>1, <1>2, <2>1 DEF Divides
<1>4. ASSUME Divides(n, x - y) PROVE x % n = r
  <2>1. PICK k \in Int : x - y = n * k
    BY <1>4 DEF Divides
  <2>2. x = n * (k + s) + r /\ k + s \in Int
    BY <1>2, <2>1
  <2> QED BY <1>2, <2>2, OneRemainder
<1>5. ASSUME y \in 0 .. n - 1 PROVE y % n = y
  <2>1. n * 0 + y = y /\ 0 \in Int
    OBVIOUS
  <2> QED BY <1>5, <2>1, OneRemainder
<1> QED BY <1>3, <1>4, <1>5 DEF r

\* The places of a cycle, counted from where the blocks begin: the first block
\* has a words, the second b, and each turn goes b further, modulo a + b.
Spot(a, b, i, j) == (a + i + j * b) % (a + b)

\* Where a turn goes from place x.
Onward(a, b, x) == IF x >= a THEN x - a ELSE x + b

LEMMA SpotSteps ==
  ASSUME NEW a \in Nat \ {0}, NEW b \in Nat \ {0}, NEW i \in Nat, NEW j \in Nat
  PROVE  /\ Spot(a, b, i, j) \in 0 .. a + b - 1
         /\ Divides(a + b, (a + i + j * b) - Spot(a, b, i, j))
         /\ Spot(a, b, i, j + 1) = Onward(a, b, Spot(a, b, i, j))
<1> DEFINE n == a + b
           c == a + i + j * b
           x == c % n
           q == c \div n
<1>1. n \in Nat \ {0} /\ c \in Int /\ a + i + (j + 1) * b = c + b
  OBVIOUS
<1>2. x \in 0 .. n - 1 /\ q \in Int /\ c = n * q + x
  <2> HIDE DEF n, c
  <2> QED BY <1>1, Division
<1>3. Spot(a, b, i, j) = x /\ Spot(a, b, i, j + 1) = (c + b) % n
  BY <1>1 DEF Spot
<1>4. n = a + b
  OBVIOUS
<1> HIDE DEF n, c, x, q
<1>5. c - x = n * q
  BY <1>1, <1>2
<1>6. Divides(n, c - x)
  BY <1>2, <1>5 DEF Divides
<1>7. CASE x >= a
  <2>1. x - a \in 0 .. n - 1
    BY <1>2, <1>4, <1>7
  <2>2. (c + b) - (x - a) = n * (q + 1) /\ q + 1 \in Int
    BY <1>1, <1>2, <1>4, <1>5
  <2>3. Divides(n, (c + b) - (x - a))
    BY <2>2 DEF Divides
  <2>4. c + b \in Int /\ x - a \in Int
    BY <1>1, <2>1
  <2>5. (c + b) % n = x - a
    BY <1>1, <2>1, <2>3, <2>4, SameRemainder
  <2> QED BY <1>2, <1>3, <1>4, <1>6, <1>7, <2>5 DEF Onward, n, c
<1>8. CASE x < a
  <2>1. x + b \in 0 .. n - 1
    BY <1>2, <1>4, <1>8
  <2>2. (c + b) - (x + b) = c - x
    BY <1>1, <1>2
  <2>3. Divides(n, (c + b) - (x + b))
    BY <1>6, <2>2
  <2>4. c + b \in Int /\ x + b \in Int
    BY <1>1, <2>1
  <2>5. (c + b) % n = x + b
    BY <1>1, <2>1, <2>3, <2>4, SameRemainder
  <2>6. ~(x >= a)
    BY <1>2, <1>8
  <2> QED BY <1>2, <1>3, <1>4, <1>6, <2>5, <2>6 DEF Onward, n, c
<1> QED BY <1>2, <1>7, <1>8

\* A cycle comes back to where it began after so many turns,
LEMMA CycleCloses ==
  ASSUME NEW a \in Nat \ {0}, NEW b \in Nat \ {0}, NEW g, GcdOf(a, b, g),
         NEW len, len = (a + b) \div g, NEW i \in 0 .. g - 1
  PROVE  /\ len \in Nat \ {0} /\ a + b = g * len /\ Divides(g, a + b)
         /\ Spot(a, b, i, 0) = a + i /\ Spot(a, b, i, len) = a + i
<1> DEFINE n == a + b
<1>1. /\ g \in 1 .. b /\ Divides(g, a) /\ Divides(g, b) /\ g \in Nat \ {0}
      /\ n \in Nat \ {0} /\ n = a + b
  BY DEF GcdOf
<1> HIDE DEF n
<1>2. Divides(g, n)
  BY <1>1, DividesSum
<1>3. len \in Int /\ n % g \in 0 .. g - 1 /\ n = g * len + (n % g)
  <2>1. n \div g \in Int /\ n % g \in 0 .. g - 1 /\ n = g * (n \div g) + (n % g)
    <3>1. n \in Int
      BY <1>1
    <3> QED BY <1>1, <3>1, Division
  <2>2. len = n \div g
    BY DEF n
  <2> QED BY <2>1, <2>2
<1>4. n % g = 0
  BY <1>1, <1>2, DividesRemainder
<1>5. n = g * len
  BY <1>1, <1>3, <1>4
<1>6. len \in Nat \ {0}
  <2> SUFFICES ASSUME len <= 0 PROVE FALSE
    BY <1>3
  <2>1. g * len <= 0
    BY <1>1, <1>3
  <2> QED BY <1>1, <1>5, <2>1
<1>7. a + i \in 0 .. n - 1 /\ a + i \in Int
  BY <1>1
<1>8. Spot(a, b, i, 0) = a + i
  <2>1. a + i + 0 * b = a + i
    OBVIOUS
  <2>2. (a + i) % n = a + i
    BY <1>1, <1>7, SameRemainder
  <2> QED BY <1>1, <2>1, <2>2 DEF Spot
<1>9. Spot(a, b, i, len) = a + i
  <2>1. PICK k \in Int : b = g * k
    BY <1>1 DEF Divides
  <2>2. len * b = n * k
    <3>1. len * (g * k) = (g * len) * k
      BY <1>1, <1>3, <2>1
    <3> QED BY <1>5, <2>1, <3>1
  <2> DEFINE c == a + i + len * b
  <2>3. c \in Int /\ c - (a + i) = n * k
    BY <1>1, <1>3, <2>2
  <2>4. Divides(n, c - (a + i))
    BY <2>3 DEF Divides
  <2> HIDE DEF c
  <2>5. c % n = a + i
    BY <1>1, <1>7, <2>3, <2>4, SameRemainder
  <2> QED BY <1>1, <2>5 DEF Spot, c
<1> QED BY <1>1, <1>2, <1>5, <1>6, <1>8, <1>9

\* stays among the places that leave remainder i when b is added,
LEMMA CycleClass ==
  ASSUME NEW a \in Nat \ {0}, NEW b \in Nat \ {0}, NEW g, GcdOf(a, b, g),
         NEW i \in 0 .. g - 1, NEW j \in Nat
  PROVE  (Spot(a, b, i, j) + b) % g = i
<1> DEFINE n == a + b
           x == Spot(a, b, i, j)
           c == a + i + j * b
<1>1. g \in Nat \ {0} /\ g \in Int /\ Divides(g, a) /\ Divides(g, b)
  BY DEF GcdOf
<1>2. x \in 0 .. n - 1 /\ Divides(n, c - x)
  <2>1. i \in Nat
    BY <1>1
  <2>2. Spot(a, b, i, j) \in 0 .. a + b - 1
    BY <2>1, SpotSteps
  <2>3. Divides(a + b, (a + i + j * b) - Spot(a, b, i, j))
    BY <2>1, SpotSteps
  <2> QED BY <2>2, <2>3
<1>3. n \in Int /\ c \in Int /\ x \in Int
  BY <1>1, <1>2
<1>4. Divides(g, n)
  BY <1>1, DividesSum
<1>5. Divides(g, c - x)
  <2>1. PICK k \in Int : c - x = n * k
    BY <1>2 DEF Divides
  <2> HIDE DEF n, c, x
  <2>2. Divides(g, n * k)
    BY <1>1, <1>3, <1>4, DividesTimes
  <2> QED BY <2>1, <2>2
<1>6. Divides(g, j * b) /\ j * b \in Int
  <2>1. b \in Int /\ j \in Int /\ b * j = j * b
    OBVIOUS
  <2>2. Divides(g, b * j)
    BY <1>1, <2>1, DividesTimes
  <2> QED BY <2>1, <2>2
<1> DEFINE d == j * b
<1>7. c = a + i + d /\ d \in Int /\ Divides(g, d)
  BY <1>6
<1> HIDE DEF n, c, x, d
<1>8. Divides(g, a + d) /\ Divides(g, (a + d) + b)
  <2>1. a + d \in Int /\ Divides(g, a + d)
    BY <1>1, <1>7, DividesSum
  <2> QED BY <1>1, <2>1, DividesSum
<1>9. Divides(g, ((a + d) + b) - (c - x))
  <2>1. (a + d) + b \in Int /\ c - x \in Int
    BY <1>3, <1>7
  <2> QED BY <1>1, <1>5, <1>8, <2>1, DividesSum
<1>10. ((a + d) + b) - (c - x) = (x + b) - i
  BY <1>1, <1>3, <1>7
<1>11. (x + b) % g = i
  <2>1. x + b \in Int /\ i \in Int
    BY <1>1, <1>3
  <2> QED BY <1>1, <1>9, <1>10, <2>1, SameRemainder
<1> QED BY <1>11 DEF x

\* does not come by a place twice
LEMMA CycleApart ==
  ASSUME NEW a \in Nat \ {0}, NEW b \in Nat \ {0}, NEW g, GcdOf(a, b, g),
         NEW len, len = (a + b) \div g, NEW i \in 0 .. g - 1,
         NEW j \in 1 .. len, NEW k \in 1 .. len, j < k
  PROVE  Spot(a, b, i, j) # Spot(a, b, i, k)
<1> DEFINE n == a + b
           d == k - j
<1>1. g \in Nat \ {0} /\ len \in Nat \ {0} /\ n = g * len
  <2>1. g \in Nat \ {0}
    BY DEF GcdOf
  <2> QED BY <2>1, CycleCloses
<1>2. PICK u \in Int, v \in Int : g = u * a + v * b
  BY DEF GcdOf
<1> SUFFICES ASSUME Spot(a, b, i, j) = Spot(a, b, i, k) PROVE FALSE
  OBVIOUS
<1>3. n \in Nat \ {0} /\ n = a + b
  OBVIOUS
<1>4. d \in 1 .. len - 1
  BY <1>1
<1>5. Divides(n, d * b)
  <2> DEFINE c == a + i + k * b
             e == a + i + j * b
  <2>1. i \in Nat /\ j \in Nat /\ k \in Nat
    BY <1>1
  <2>2. c \in Int /\ e \in Int /\ c - e = d * b
    BY <2>1
  <2>3. c % n = e % n
    BY DEF Spot
  <2> HIDE DEF c, e, n, d
  <2> QED BY <1>3, <2>2, <2>3, SameRemainder
<1> HIDE DEF n, d
<1>6. Divides(n, (d * b) * (v - u))
  <2>1. n \in Int /\ d * b \in Int /\ v - u \in Int
    BY <1>2, <1>3, <1>4
  <2> QED BY <1>5, <2>1, DividesTimes
<1>7. Divides(n, n * (d * u)) /\ n * (d * u) \in Int
  <2>1. d * u \in Int
    BY <1>2, <1>4
  <2> QED BY <1>3, <2>1 DEF Divides
<1>8. d * g = n * (d * u) + (d * b) * (v - u)
  <2>1. d * g = d * (u * a) + d * (v * b)
    BY <1>2, <1>4
  <2>2. n * (d * u) = d * (u * a) + d * (u * b)
    BY <1>2, <1>3, <1>4
  <2>3. (d * b) * (v - u) = d * (v * b) - d * (u * b)
    BY <1>2, <1>4
  <2>4. d * (u * a) \in Int /\ d * (u * b) \in Int /\ d * (v * b) \in Int
    BY <1>2, <1>4
  <2> QED BY <2>1, <2>2, <2>3, <2>4
<1>9. Divides(n, d * g)
  <2>1. (d * b) * (v - u) \in Int /\ n \in Int
    BY <1>2, <1>3, <1>4
  <2>2. Divides(n, n * (d * u) + (d * b) * (v - u))
    BY <1>6, <1>7, <2>1, DividesSum
  <2> QED BY <1>8, <2>2
<1>10. d * g \in Nat \ {0} /\ d * g < n
  <2>1. d * g >= g
    BY <1>1, <1>4
  <2>2. d * g <= (len - 1) * g
    BY <1>1, <1>4
  <2>3. (len - 1) * g = n - g
    BY <1>1
  <2> QED BY <1>1, <1>3, <1>4, <2>1, <2>2, <2>3
<1> QED BY <1>3, <1>9, <1>10, DividesBound

\* and comes by all of those.
LEMMA CycleComplete ==
  ASSUME NEW a \in Nat \ {0}, NEW b \in Nat \ {0}, NEW g, GcdOf(a, b, g),
         NEW len, len = (a + b) \div g, NEW i \in 0 .. g - 1,
         NEW y \in 0 .. a + b - 1, (y + b) % g = i
  PROVE  \E k \in 1 .. len : Spot(a, b, i, k) = y
<1> DEFINE n == a + b
<1>1. g \in Nat \ {0} /\ len \in Nat \ {0} /\ n = g * len
  <2>1. g \in Nat \ {0}
    BY DEF GcdOf
  <2> QED BY <2>1, CycleCloses
<1>2. PICK u \in Int, v \in Int : g = u * a + v * b
  BY DEF GcdOf
<1>3. n \in Nat \ {0} /\ n = a + b /\ y \in 0 .. n - 1 /\ i \in Nat
  OBVIOUS
<1>4. PICK m \in Int : (y + b) - i = g * m
  <2>1. y + b \in Int /\ g \in Nat \ {0}
    BY <1>1
  <2>2. y + b = g * ((y + b) \div g) + ((y + b) % g) /\ (y + b) \div g \in Int
    BY <2>1, Division
  <2> QED BY <2>1, <2>2
<1> DEFINE w == m - len
           z == (v - u) * w
           k == IF z % len = 0 THEN len ELSE z % len
<1>5. y - a - i = g * w /\ w \in Int /\ z \in Int
  <2>1. g * w = g * m - n
    BY <1>1, <1>4
  <2>2. w \in Int /\ v - u \in Int
    BY <1>1, <1>2, <1>4
  <2>3. z \in Int
    BY <2>2
  <2>4. y - a - i = (y + b) - i - n
    BY <1>3
  <2>5. n \in Int /\ g * m \in Int
    BY <1>1, <1>3, <1>4
  <2> HIDE DEF n, w, z
  <2> QED BY <1>4, <2>1, <2>2, <2>3, <2>4, <2>5
<1>6. PICK t \in Int : z - k = len * t
  <2> DEFINE q == z \div len
  <2>1. q \in Int /\ z % len \in 0 .. len - 1 /\ z = len * q + (z % len)
    BY <1>1, <1>5, Division
  <2> HIDE DEF z, q
  <2>2. CASE z % len = 0
    <3>1. k = len /\ z = len * q /\ q - 1 \in Int
      BY <1>1, <2>1, <2>2
    <3>2. len * (q - 1) = len * q - len
      <4>1. len \in Int /\ q \in Int
        BY <1>1, <2>1
      <4> HIDE DEF n, k
      <4> QED BY <4>1
    <3> HIDE DEF k
    <3>3. z - k = len * (q - 1)
      BY <3>1, <3>2
    <3> QED BY <3>1, <3>3
  <2>3. CASE z % len # 0
    <3>1. z - k = len * q
      BY <1>1, <2>1, <2>3
    <3> QED BY <2>1, <3>1
  <2> QED BY <2>2, <2>3
<1>7. k \in 1 .. len
  <2>1. z % len \in 0 .. len - 1
    BY <1>1, <1>5, Division
  <2> HIDE DEF z
  <2> QED BY <1>1, <2>1
<1>8. PICK r \in Int : b = g * r
  BY DEF GcdOf, Divides
<1>9. z = (v - u) * w
  OBVIOUS
<1> HIDE DEF n, w, z, k
<1> DEFINE c == a + i + k * b
<1>10. c - y = n * (-(t * r) - u * w)
  <2>1. g * w = (u * w) * a + (v * w) * b
    BY <1>2, <1>5
  <2>2. z * b = (v * w) * b - (u * w) * b
    BY <1>2, <1>5, <1>9
  <2>3. k * b = z * b - (len * t) * b
    <3>1. k = z - len * t /\ len * t \in Int
      BY <1>1, <1>5, <1>6, <1>7
    <3> DEFINE e == len * t
    <3>2. k = z - e /\ e \in Int
      BY <3>1
    <3> HIDE DEF e
    <3>3. k * b = z * b - e * b
      BY <1>5, <3>2
    <3> QED BY <3>3 DEF e
  <2>4. (len * t) * b = n * (t * r)
    <3>1. (len * t) * (g * r) = (g * len) * (t * r)
      BY <1>1, <1>6, <1>8
    <3> QED BY <1>1, <1>8, <3>1
  <2>5. n * (u * w) = (u * w) * a + (u * w) * b
    BY <1>2, <1>3, <1>5
  <2>6. n * (-(t * r) - u * w) = -(n * (t * r)) - n * (u * w)
    BY <1>2, <1>3, <1>5, <1>6, <1>8
  <2>7. c - y = k * b - g * w
    BY <1>3, <1>5, <1>7
  <2> DEFINE U == (u * w) * a
             V == (v * w) * b
             W == (u * w) * b
             X == n * (t * r)
             Y == n * (u * w)
  <2>8. U \in Int /\ V \in Int /\ W \in Int /\ X \in Int /\ Y \in Int
    BY <1>2, <1>3, <1>5, <1>6, <1>8
  <2>9. /\ g * w = U + V /\ z * b = V - W /\ k * b = z * b - X /\ Y = U + W
        /\ n * (-(t * r) - u * w) = -X - Y
    BY <2>1, <2>2, <2>3, <2>4, <2>5, <2>6
  <2> HIDE DEF U, V, W, X, Y
  <2> QED BY <2>7, <2>8, <2>9
<1>11. c \in Int /\ -(t * r) - u * w \in Int
  BY <1>2, <1>3, <1>5, <1>6, <1>7, <1>8
<1>12. Divides(n, c - y)
  BY <1>10, <1>11 DEF Divides
<1> HIDE DEF c
<1>13. c % n = y
  <2>1. y \in Int
    BY <1>3
  <2> QED BY <1>3, <1>11, <1>12, <2>1, SameRemainder
<1>14. Spot(a, b, i, k) = y
  BY <1>3, <1>13 DEF Spot, c
<1> QED BY <1>7, <1>14

-----------------------------------------------------------------------------
(* permute_args(): for any two blocks, the cycles of swaps exchange them.  *)

\* What begins somewhere and goes on step by step goes on for ever.
Stays(D, x, F) == x \in D /\ \A j \in Nat : \A d \in D : F[j][d] \in D

GoesOn(f, D, x, F) ==
  f \in [Nat -> D] /\ f[0] = x /\ \A j \in Nat : f[j + 1] = F[j][f[j]]

LEMMA Iterates ==
  ASSUME NEW D, NEW x, NEW F, Stays(D, x, F)
  PROVE  \E f : GoesOn(f, D, x, F)
<1>0. x \in D /\ \A j \in Nat : \A d \in D : F[j][d] \in D
  BY DEF Stays
<1> DEFINE Goes(t, k) == /\ t \in [0 .. k -> D] /\ t[0] = x
                         /\ \A j \in 0 .. k - 1 : t[j + 1] = F[j][t[j]]
           T == {k \in Nat : \E t \in [0 .. k -> D] : Goes(t, k)}
<1>1. 0 \in T
  <2> DEFINE t == [j \in 0 .. 0 |-> x]
  <2>1. Goes(t, 0)
    BY <1>0
  <2> QED BY <2>1
<1>2. ASSUME NEW k \in Nat, k \in T PROVE k + 1 \in T
  <2>1. PICK t \in [0 .. k -> D] : Goes(t, k)
    BY <1>2
  <2> DEFINE u == [j \in 0 .. k + 1 |-> IF j = k + 1 THEN F[k][t[k]] ELSE t[j]]
  <2>2. t[k] \in D /\ F[k][t[k]] \in D
    BY <1>0
  <2>3. ASSUME NEW j \in 0 .. k + 1 PROVE u[j] \in D
    <3>1. CASE j = k + 1
      BY <2>2, <3>1
    <3>2. CASE j # k + 1
      <4>1. j \in 0 .. k
        BY <3>2
      <4> QED BY <3>2, <4>1
    <3> QED BY <3>1, <3>2
  <2>4. u \in [0 .. k + 1 -> D] /\ u[0] = x
    BY <2>1, <2>3
  <2>5. ASSUME NEW j \in 0 .. (k + 1) - 1 PROVE u[j + 1] = F[j][u[j]]
    <3>1. j \in 0 .. k + 1 /\ j # k + 1 /\ j + 1 \in 0 .. k + 1 /\ u[j] = t[j]
      OBVIOUS
    <3>2. CASE j = k
      BY <3>1, <3>2
    <3>3. CASE j # k
      <4>1. j \in 0 .. k - 1 /\ j + 1 # k + 1
        BY <3>3
      <4>2. t[j + 1] = F[j][t[j]]
        BY <2>1, <4>1
      <4> QED BY <3>1, <4>1, <4>2
    <3> QED BY <3>2, <3>3
  <2> HIDE DEF u
  <2> QED BY <2>4, <2>5
<1>3. Nat \subseteq T
  <2> HIDE DEF T
  <2> QED BY <1>1, <1>2, SetInduction
<1>4. ASSUME NEW k \in Nat, NEW t, Goes(t, k), NEW u, Goes(u, k + 1)
      PROVE  t[k] = u[k]
  <2> DEFINE S == {j \in Nat : j <= k => t[j] = u[j]}
  <2>1. 0 \in S
    BY <1>4
  <2>2. ASSUME NEW j \in Nat, j \in S PROVE j + 1 \in S
    <3> SUFFICES ASSUME j + 1 <= k PROVE t[j + 1] = u[j + 1]
      OBVIOUS
    <3>1. j \in 0 .. k - 1 /\ j \in 0 .. (k + 1) - 1 /\ t[j] = u[j]
      BY <2>2
    <3> QED BY <1>4, <3>1
  <2>3. Nat \subseteq S
    <3> HIDE DEF S
    <3> QED BY <2>1, <2>2, SetInduction
  <2> QED BY <2>3
<1> DEFINE chain == [k \in Nat |-> CHOOSE t \in [0 .. k -> D] : Goes(t, k)]
           f == [k \in Nat |-> chain[k][k]]
<1>5. ASSUME NEW k \in Nat PROVE Goes(chain[k], k)
  <2> HIDE DEF Goes
  <2> QED BY <1>3
<1>6. f[0] = x
  <2>1. Goes(chain[0], 0)
    <3> HIDE DEF chain, Goes
    <3> QED BY <1>5
  <2> HIDE DEF chain
  <2> QED BY <2>1
<1>7. ASSUME NEW k \in Nat PROVE f[k] \in D
  <2>1. Goes(chain[k], k)
    BY <1>5
  <2> HIDE DEF chain
  <2> QED BY <2>1
<1>8. ASSUME NEW k \in Nat PROVE f[k + 1] = F[k][f[k]]
  <2>1. Goes(chain[k], k) /\ Goes(chain[k + 1], k + 1)
    <3>1. k + 1 \in Nat
      OBVIOUS
    <3> HIDE DEF chain, Goes
    <3> QED BY <1>5, <3>1
  <2>2. chain[k][k] = chain[k + 1][k]
    <3> HIDE DEF chain, Goes
    <3> QED BY <1>4, <2>1
  <2>3. k \in 0 .. (k + 1) - 1
    OBVIOUS
  <2>4. chain[k + 1][k + 1] = F[k][chain[k + 1][k]]
    <3> HIDE DEF chain
    <3> QED BY <2>1, <2>3
  <2> QED BY <2>2, <2>4
<1>9. f \in [Nat -> D]
  BY <1>7
<1> HIDE DEF f
<1> QED BY <1>6, <1>8, <1>9 DEF GoesOn

\* An array of arguments that has the places from start to opt_end.
Array(A, D, start, end, opt_end) ==
  /\ A = [y \in D |-> A[y]] /\ start .. opt_end - 1 \subseteq D
  /\ start \in Int /\ end \in Int /\ opt_end \in Int /\ start < end /\ end < opt_end

\* Where a turn goes from there.
TurnTo(start, end, opt_end, p) ==
  IF p >= end THEN p - (end - start) ELSE p + (opt_end - end)

LEMMA SwapIs ==
  ASSUME NEW D, NEW X, NEW A \in [D -> X], NEW i \in D, NEW j \in D
  PROVE  /\ Swap(A, i, j) \in [D -> X]
         /\ Swap(A, i, j) = [y \in D |-> IF y = j THEN A[i] ELSE IF y = i THEN A[j] ELSE A[y]]
BY DEF Swap

LEMMA TurnsGo ==
  ASSUME NEW start, NEW end, NEW opt_end, NEW D, NEW A, Array(A, D, start, end, opt_end),
         NEW c \in start .. opt_end - 1,
         NEW T, T = Turns(start, end, opt_end, c, A)
  PROVE  /\ T[0] = [pos |-> c, args |-> A]
         /\ \A j \in Nat :
              LET pos == TurnTo(start, end, opt_end, T[j].pos)
              IN T[j + 1] = [pos |-> pos, args |-> Swap(T[j].args, pos, c)]
<1> DEFINE R == start .. opt_end - 1
           X == {A[y] : y \in D}
           S == [pos : R, args : [D -> X]]
           N(p) == TurnTo(start, end, opt_end, p)
           F == [j \in Nat |-> [b \in S |-> [pos |-> N(b.pos), args |-> Swap(b.args, N(b.pos), c)]]]
           x == [pos |-> c, args |-> A]
<1>1. A \in [D -> X] /\ R \subseteq D /\ c \in R
  BY DEF Array
<1>2. \A p \in R : N(p) \in R
  BY DEF TurnTo, Array
<1>3. x \in S
  BY <1>1
<1>4. ASSUME NEW b \in S
      PROVE  [pos |-> N(b.pos), args |-> Swap(b.args, N(b.pos), c)] \in S
  <2> HIDE DEF N, R, X
  <2>1. N(b.pos) \in R /\ b.args \in [D -> X]
    BY <1>2
  <2>2. Swap(b.args, N(b.pos), c) \in [D -> X]
    BY <1>1, <2>1, SwapIs
  <2> QED BY <2>1, <2>2
<1>5. \A j \in Nat : \A b \in S : F[j][b] \in S
  <2> HIDE DEF S, N
  <2> QED BY <1>4
<1>6. PICK f : GoesOn(f, S, x, F)
  <2> HIDE DEF S, F, x
  <2>1. Stays(S, x, F)
    BY <1>3, <1>5 DEF Stays
  <2> QED BY <2>1, Iterates
<1>7. ASSUME NEW j \in Nat
      PROVE  f[j + 1] = [pos |-> N(f[j].pos), args |-> Swap(f[j].args, N(f[j].pos), c)]
  <2>1. f \in [Nat -> S] /\ f[j + 1] = F[j][f[j]]
    <3> HIDE DEF S, F, x
    <3> QED BY <1>6 DEF GoesOn
  <2> HIDE DEF S, N
  <2> QED BY <2>1
<1> DEFINE Rec(t) == [j \in Nat |->
             IF j = 0 THEN x
             ELSE [pos |-> N(t[j - 1].pos), args |-> Swap(t[j - 1].args, N(t[j - 1].pos), c)]]
<1>8. f = Rec(f)
  <2> HIDE DEF S, N, x
  <2>1. ASSUME NEW j \in Nat PROVE f[j] = Rec(f)[j]
    <3>1. CASE j = 0
      BY <1>6, <3>1 DEF GoesOn
    <3>2. CASE j # 0
      <4>1. j - 1 \in Nat /\ (j - 1) + 1 = j
        BY <3>2
      <4> QED BY <1>7, <3>2, <4>1
    <3> QED BY <3>1, <3>2
  <2>2. f = [j \in Nat |-> f[j]]
    BY <1>6 DEF GoesOn
  <2> HIDE DEF F
  <2> QED BY <2>1, <2>2
<1>9. T = CHOOSE t : t = Rec(t)
  BY DEF Turns, TurnTo
<1>10. T = Rec(T)
  <2> HIDE DEF Rec
  <2> QED BY <1>8, <1>9
<1>11. T[0] = x
  BY <1>10
<1>12. ASSUME NEW j \in Nat
       PROVE  T[j + 1] = [pos |-> N(T[j].pos), args |-> Swap(T[j].args, N(T[j].pos), c)]
  <2> HIDE DEF N, x
  <2>1. j + 1 \in Nat /\ j + 1 # 0 /\ (j + 1) - 1 = j
    OBVIOUS
  <2> QED BY <1>10, <2>1
<1> QED BY <1>11, <1>12

\* Where the word comes from that an exchange of the blocks brings to y.
Origin(start, end, opt_end, y) ==
  IF y < start + (opt_end - end) THEN y + (end - start) ELSE y - (opt_end - end)

\* Which cycle passes by place y.
CycleOf(start, end, opt_end, g, y) == ((y - start) + (opt_end - end)) % g

\* One cycle brings the words of its places where they belong, and leaves the
\* others.
LEMMA CycleMoves ==
  ASSUME NEW start, NEW end, NEW opt_end, NEW D, NEW A, Array(A, D, start, end, opt_end),
         NEW g, GcdOf(end - start, opt_end - end, g),
         NEW len, len = (opt_end - start) \div g, NEW i \in 0 .. g - 1
  PROVE  LET O(y) == Origin(start, end, opt_end, y)
             C(y) == CycleOf(start, end, opt_end, g, y)
         IN
         /\ Turns(start, end, opt_end, end + i, A)[len].args =
              [y \in D |-> IF y \in start .. opt_end - 1 /\ C(y) = i THEN A[O(y)] ELSE A[y]]
         /\ \A y \in start .. opt_end - 1 :
              C(y) = i => O(y) \in start .. opt_end - 1 /\ C(O(y)) = i
<1> DEFINE a == end - start
           b == opt_end - end
           R == start .. opt_end - 1
           c == end + i
           T == Turns(start, end, opt_end, c, A)
           p(j) == start + Spot(a, b, i, j)
           O(y) == Origin(start, end, opt_end, y)
           C(y) == CycleOf(start, end, opt_end, g, y)
<1>1. /\ start \in Int /\ end \in Int /\ opt_end \in Int /\ R \subseteq D
      /\ A = [y \in D |-> A[y]]
  BY DEF Array
<1>2. a \in Nat \ {0} /\ b \in Nat \ {0} /\ a + b = opt_end - start
  BY DEF Array
<1>3. g \in 1 .. b /\ g \in Nat \ {0} /\ i \in Nat
  BY DEF GcdOf
<1>4. c \in R
  BY <1>1, <1>2, <1>3
<1>5. /\ T[0] = [pos |-> c, args |-> A]
      /\ \A j \in Nat :
           T[j + 1] = [pos |-> TurnTo(start, end, opt_end, T[j].pos),
                       args |-> Swap(T[j].args, TurnTo(start, end, opt_end, T[j].pos), c)]
  <2>1. T = Turns(start, end, opt_end, c, A)
    OBVIOUS
  <2> HIDE DEF T, c
  <2> QED BY <1>4, <2>1, TurnsGo
<1>6. /\ len \in Nat \ {0} /\ Spot(a, b, i, 0) = a + i /\ Spot(a, b, i, len) = a + i
  <2>1. len = (a + b) \div g /\ GcdOf(a, b, g)
    BY <1>2
  <2> HIDE DEF a, b
  <2> QED BY <1>2, <2>1, CycleCloses
<1>7. ASSUME NEW j \in Nat
      PROVE  /\ p(j) \in R /\ p(j + 1) = TurnTo(start, end, opt_end, p(j))
             /\ O(p(j + 1)) = p(j) /\ C(p(j)) = i
  <2> DEFINE x == Spot(a, b, i, j)
  <2>1. x \in 0 .. a + b - 1 /\ Spot(a, b, i, j + 1) = Onward(a, b, x)
    <3> HIDE DEF a, b
    <3> QED BY <1>2, <1>3, SpotSteps
  <2>2. (x + b) % g = i
    <3>1. GcdOf(a, b, g)
      OBVIOUS
    <3> HIDE DEF a, b
    <3> QED BY <1>2, <3>1, CycleClass
  <2>3. p(j) = start + x /\ p(j + 1) = start + Onward(a, b, x)
    BY <2>1
  <2>4. x \in Int
    BY <1>2, <2>1
  <2> HIDE DEF x
  <2>5. p(j) \in R /\ p(j + 1) = TurnTo(start, end, opt_end, p(j))
    BY <1>1, <1>2, <2>1, <2>3, <2>4 DEF TurnTo, Onward
  <2>6. O(p(j + 1)) = p(j)
    BY <1>1, <1>2, <2>1, <2>3, <2>4 DEF Origin, Onward
  <2>7. C(p(j)) = i
    <3>1. p(j) - start = x
      BY <1>1, <2>3, <2>4
    <3> QED BY <2>2, <3>1 DEF CycleOf
  <2> QED BY <2>5, <2>6, <2>7
<1>8. p(0) = c /\ p(len) = c
  BY <1>1, <1>2, <1>3, <1>6
<1>9. \A j, k \in 1 .. len : j # k => p(j) # p(k)
  <2>1. ASSUME NEW j \in 1 .. len, NEW k \in 1 .. len, j < k PROVE p(j) # p(k)
    <3>1. len = (a + b) \div g /\ GcdOf(a, b, g)
      BY <1>2
    <3>2. Spot(a, b, i, j) # Spot(a, b, i, k)
      <4> HIDE DEF a, b
      <4> QED BY <1>2, <2>1, <3>1, CycleApart
    <3>3. Spot(a, b, i, j) \in Int /\ Spot(a, b, i, k) \in Int
      <4> HIDE DEF a, b
      <4>1. j \in Nat /\ k \in Nat
        BY <1>6
      <4>2. \A t \in Nat : Spot(a, b, i, t) \in 0 .. a + b - 1
        BY <1>2, <1>3, SpotSteps
      <4>3. a \in Int /\ b \in Int
        BY <1>2
      <4> QED BY <4>1, <4>2, <4>3
    <3> HIDE DEF a, b
    <3> QED BY <1>1, <3>2, <3>3
  <2> HIDE DEF p
  <2>2. ASSUME NEW j \in 1 .. len, NEW k \in 1 .. len, j # k PROVE p(j) # p(k)
    <3>1. j < k \/ k < j
      BY <1>6, <2>2
    <3> QED BY <2>1, <3>1
  <2> QED BY <2>2
<1>10. ASSUME NEW y \in R, C(y) = i PROVE \E k \in 1 .. len : p(k) = y
  <2> DEFINE x == y - start
  <2>1. x \in 0 .. a + b - 1 /\ (x + b) % g = i
    BY <1>1, <1>2, <1>10 DEF CycleOf
  <2>2. len = (a + b) \div g /\ GcdOf(a, b, g)
    BY <1>2
  <2>3. \E k \in 1 .. len : Spot(a, b, i, k) = x
    <3> HIDE DEF a, b, x
    <3> QED BY <1>2, <2>1, <2>2, CycleComplete
  <2>4. start + x = y
    BY <1>1
  <2> QED BY <2>3, <2>4
<1> HIDE DEF a, b, R, c, T, p, O, C
\* After j turns the word that was at j is at the cycle's beginning.
<1> DEFINE Shown(j) ==
             [y \in D |-> IF y = c THEN A[p(j)]
                          ELSE IF \E k \in 1 .. j : y = p(k) THEN A[O(y)] ELSE A[y]]
           G == {j \in Nat : j < len => T[j] = [pos |-> p(j), args |-> Shown(j)]}
<1>11. 0 \in G
  <2>1. Shown(0) = [y \in D |-> A[y]]
    BY <1>8
  <2> HIDE DEF Shown
  <2> QED BY <1>1, <1>5, <1>8, <2>1
<1>12. ASSUME NEW j \in Nat, j \in G PROVE j + 1 \in G
  <2> SUFFICES ASSUME j + 1 < len
               PROVE  T[j + 1] = [pos |-> p(j + 1), args |-> Shown(j + 1)]
    OBVIOUS
  <2> DEFINE q == p(j + 1)
             B == Shown(j)
  <2>1. T[j].pos = p(j) /\ T[j].args = B
    BY <1>6, <1>12
  <2>2. T[j + 1] = [pos |-> q, args |-> Swap(B, q, c)]
    <3> HIDE DEF B
    <3> QED BY <1>5, <1>7, <2>1
  <2>3. q \in D /\ c \in D /\ q # c /\ O(q) = p(j)
    <3>1. j + 1 \in 1 .. len /\ len \in 1 .. len /\ j + 1 # len /\ j + 1 \in Nat
      BY <1>6
    <3> HIDE DEF q
    <3>2. p(j + 1) # p(len)
      BY <1>9, <3>1
    <3> QED BY <1>1, <1>4, <1>7, <1>8, <3>1, <3>2 DEF q
  <2>4. ~ \E k \in 1 .. j : q = p(k)
    <3>1. \A k \in 1 .. j : k \in 1 .. len /\ j + 1 \in 1 .. len /\ k # j + 1
      BY <1>6
    <3> QED BY <1>9, <3>1
  <2>5. Swap(B, q, c) = [y \in D |-> IF y = c THEN B[q] ELSE IF y = q THEN B[c] ELSE B[y]]
    BY <2>3 DEF Swap
  <2>6. B[q] = A[q] /\ B[c] = A[p(j)]
    BY <2>3, <2>4
  <2>7. ASSUME NEW y \in D
        PROVE  (\E k \in 1 .. j + 1 : y = p(k)) <=> (y = q \/ \E k \in 1 .. j : y = p(k))
    <3>1. 1 .. j + 1 = (1 .. j) \cup {j + 1}
      OBVIOUS
    <3> QED BY <3>1
  <2>8. ASSUME NEW y \in D PROVE Swap(B, q, c)[y] = Shown(j + 1)[y]
    <3>1. CASE y = c
      BY <2>3, <2>5, <2>6, <3>1
    <3>2. CASE y = q
      BY <2>3, <2>5, <2>6, <2>7, <3>2
    <3>3. CASE y # c /\ y # q
      <4>1. B[y] = IF \E k \in 1 .. j : y = p(k) THEN A[O(y)] ELSE A[y]
        BY <3>3
      <4>2. Shown(j + 1)[y] = IF \E k \in 1 .. j : y = p(k) THEN A[O(y)] ELSE A[y]
        BY <2>7, <3>3
      <4> HIDE DEF B, Shown, q
      <4> QED BY <2>5, <3>3, <4>1, <4>2
    <3> QED BY <3>1, <3>2, <3>3
  <2>9. Swap(B, q, c) = Shown(j + 1)
    <3> DEFINE S == Swap(B, q, c)
    <3>1. S = [y \in D |-> S[y]]
      BY <2>5
    <3> HIDE DEF S
    <3> QED BY <2>8, <3>1 DEF S
  <2> HIDE DEF B, q, Shown
  <2> QED BY <2>2, <2>9 DEF q
<1>13. Nat \subseteq G
  <2> HIDE DEF G
  <2> QED BY <1>11, <1>12, SetInduction
<1> DEFINE j == len - 1
<1>14. j \in Nat /\ j < len /\ j + 1 = len
  BY <1>6
<1>15. T[j] = [pos |-> p(j), args |-> Shown(j)]
  <2> HIDE DEF Shown, j
  <2> QED BY <1>13, <1>14
<1> HIDE DEF G, j
<1>16. T[len].args = Swap(Shown(j), c, c)
  <2>1. TurnTo(start, end, opt_end, p(j)) = c
    BY <1>7, <1>8, <1>14
  <2>2. T[j].pos = p(j) /\ T[j].args = Shown(j)
    BY <1>15
  <2> DEFINE B == Shown(j)
  <2> HIDE DEF Shown, B
  <2>3. T[j].pos = p(j) /\ T[j].args = B
    BY <2>2 DEF B
  <2>4. T[j + 1] = [pos |-> c, args |-> Swap(B, c, c)]
    BY <1>5, <1>14, <2>1, <2>3
  <2> QED BY <1>14, <2>4 DEF B
<1>17. Swap(Shown(j), c, c) = Shown(j)
  BY <1>1, <1>4 DEF Swap
<1>18. O(c) = p(j)
  BY <1>7, <1>8, <1>14
<1>19. ASSUME NEW y \in D
       PROVE  (y \in R /\ C(y) = i) <=> (y = c \/ \E k \in 1 .. j : y = p(k))
  <2>1. \A k \in 1 .. len : k \in Nat /\ (k = len \/ k \in 1 .. j)
    BY <1>14
  <2>2. (y \in R /\ C(y) = i) <=> \E k \in 1 .. len : p(k) = y
    BY <1>7, <1>10, <2>1
  <2>3. (\E k \in 1 .. len : p(k) = y) <=> (y = c \/ \E k \in 1 .. j : y = p(k))
    <3>1. \A k \in 1 .. j : k \in 1 .. len
      BY <1>14
    <3>2. len \in 1 .. len
      BY <1>6
    <3> QED BY <1>8, <2>1, <3>1, <3>2
  <2> QED BY <2>2, <2>3
<1>20. Shown(j) = [y \in D |-> IF y \in R /\ C(y) = i THEN A[O(y)] ELSE A[y]]
  <2>1. ASSUME NEW y \in D
        PROVE  Shown(j)[y] = IF y \in R /\ C(y) = i THEN A[O(y)] ELSE A[y]
    BY <1>18, <1>19
  <2>2. Shown(j) = [y \in D |-> Shown(j)[y]]
    OBVIOUS
  <2> HIDE DEF Shown
  <2> QED BY <2>1, <2>2
<1>21. ASSUME NEW y \in R, C(y) = i PROVE O(y) \in R /\ C(O(y)) = i
  <2>1. PICK k \in 1 .. len : p(k) = y
    BY <1>10, <1>21
  <2>2. k - 1 \in Nat /\ (k - 1) + 1 = k
    BY <1>6
  <2>3. O(y) = p(k - 1)
    BY <1>7, <2>1, <2>2
  <2> QED BY <1>7, <2>2, <2>3
<1>22. T[len].args = [y \in D |-> IF y \in R /\ C(y) = i THEN A[O(y)] ELSE A[y]]
  <2> HIDE DEF Shown
  <2> QED BY <1>16, <1>17, <1>20
<1> QED BY <1>21, <1>22 DEF R, O, C, T, c

\* permute_args() exchanges the two blocks and keeps the order in each, and
\* the rest of the arguments, whatever the lengths of the blocks are.
THEOREM BlocksExchanged ==
  ASSUME NEW start, NEW end, NEW opt_end, NEW D, NEW A, Array(A, D, start, end, opt_end)
  PROVE  Permuted(start, end, opt_end, A) =
           [y \in D |-> IF y \in start .. opt_end - 1
                        THEN A[Origin(start, end, opt_end, y)] ELSE A[y]]
<1> DEFINE a == end - start
           b == opt_end - end
           g == gcd[b][a]
           len == (opt_end - start) \div g
           R == start .. opt_end - 1
           O(y) == Origin(start, end, opt_end, y)
           C(y) == CycleOf(start, end, opt_end, g, y)
           Part(i) == [y \in D |-> IF y \in R /\ C(y) < i THEN A[O(y)] ELSE A[y]]
           f == [i \in 0 .. g |-> Part(i)]
           Once(B, i) == Turns(start, end, opt_end, end + i - 1, B)[len].args
           Rec(h) == [i \in 0 .. g |-> IF i = 0 THEN A ELSE Once(h[i - 1], i)]
           h == CHOOSE h : h = Rec(h)
<1>1. /\ start \in Int /\ end \in Int /\ opt_end \in Int /\ R \subseteq D
      /\ A = [y \in D |-> A[y]] /\ start < end /\ end < opt_end
  BY DEF Array
<1>2. a \in Nat \ {0} /\ b \in Nat \ {0}
  BY <1>1
<1>3. GcdOf(a, b, g) /\ g \in Nat \ {0}
  <2> HIDE DEF a, b
  <2>1. GcdOf(a, b, g)
    BY <1>2, GcdCorrect
  <2> QED BY <2>1 DEF GcdOf
<1>4. Permuted(start, end, opt_end, A) = h[g]
  BY DEF Permuted
<1>5. ASSUME NEW y \in R PROVE C(y) \in 0 .. g - 1
  <2>1. (y - start) + b \in Int
    BY <1>1
  <2> HIDE DEF b, g
  <2> QED BY <1>3, <2>1, Division DEF CycleOf, b
<1>6. Part(0) = A
  <2>1. ASSUME NEW y \in D PROVE ~(y \in R /\ C(y) < 0)
    <3> HIDE DEF R, C, g
    <3> QED BY <1>3, <1>5
  <2>2. Part(0) = [y \in D |-> A[y]]
    <3> HIDE DEF R, C, O
    <3> QED BY <2>1
  <2> QED BY <1>1, <2>2
<1>7. ASSUME NEW i \in 1 .. g PROVE Part(i) = Once(Part(i - 1), i)
  <2> DEFINE B == Part(i - 1)
             k == i - 1
  <2>1. k \in 0 .. g - 1 /\ end + i - 1 = end + k
    BY <1>1, <1>3
  <2>2. Array(B, D, start, end, opt_end)
    BY <1>1 DEF Array
  <2>3. /\ Turns(start, end, opt_end, end + k, B)[len].args =
             [y \in D |-> IF y \in R /\ C(y) = k THEN B[O(y)] ELSE B[y]]
        /\ \A y \in R : C(y) = k => O(y) \in R /\ C(O(y)) = k
    <3>1. GcdOf(end - start, opt_end - end, g)
      BY <1>3
    <3>2. len = (opt_end - start) \div g
      OBVIOUS
    <3> HIDE DEF g, len, B, k
    <3> QED BY <2>1, <2>2, <3>1, <3>2, CycleMoves
  <2>4. Once(B, i) = [y \in D |-> IF y \in R /\ C(y) = k THEN B[O(y)] ELSE B[y]]
    <3> HIDE DEF g, len, B, R, C, O
    <3> QED BY <2>1, <2>3
  <2>5. ASSUME NEW y \in D
        PROVE  (IF y \in R /\ C(y) = k THEN B[O(y)] ELSE B[y]) = Part(i)[y]
    <3>1. y \in R => C(y) \in 0 .. g - 1
      BY <1>5
    <3>2. k \in Int /\ i \in Int /\ k = i - 1
      BY <1>3, <2>1
    <3>3. CASE y \in R /\ C(y) = k
      <4>1. O(y) \in R /\ C(O(y)) = k
        BY <2>3, <3>3
      <4> HIDE DEF R, C, O, g
      <4>2. B[O(y)] = A[O(y)]
        BY <1>1, <3>2, <4>1
      <4>3. Part(i)[y] = A[O(y)]
        BY <3>2, <3>3
      <4> QED BY <3>3, <4>2, <4>3
    <3>4. CASE ~(y \in R /\ C(y) = k)
      <4> HIDE DEF R, C, O, g
      <4>1. (y \in R /\ C(y) < k) <=> (y \in R /\ C(y) < i)
        BY <1>3, <3>1, <3>2, <3>4
      <4>2. B[y] = Part(i)[y]
        BY <4>1
      <4> HIDE DEF B, Part
      <4> QED BY <3>4, <4>2
    <3> QED BY <3>3, <3>4
  <2>6. Part(i) = [y \in D |-> Part(i)[y]]
    <3> HIDE DEF R, C, O
    <3> QED OBVIOUS
  <2> HIDE DEF Part, R, C, O, B, Once
  <2> QED BY <2>4, <2>5, <2>6 DEF B
<1> HIDE DEF a, b, g, len, O, C, R, Part, Once
<1>8. f = Rec(f)
  <2>1. ASSUME NEW i \in 0 .. g PROVE f[i] = Rec(f)[i]
    <3>1. CASE i = 0
      BY <1>6, <3>1
    <3>2. CASE i # 0
      <4>1. i \in 1 .. g /\ i - 1 \in 0 .. g
        BY <1>3, <3>2
      <4>2. f[i] = Once(Part(i - 1), i) /\ f[i - 1] = Part(i - 1)
        BY <1>7, <4>1
      <4> QED BY <3>2, <4>2
    <3> QED BY <3>1, <3>2
  <2> QED BY <2>1
<1>9. h = Rec(h)
  <2> HIDE DEF Rec, f
  <2> QED BY <1>8
<1> HIDE DEF h
<1> DEFINE T == {i \in Nat : i <= g => h[i] = Part(i)}
<1>10. 0 \in T
  <2>1. 0 \in 0 .. g
    BY <1>3
  <2> QED BY <1>6, <1>9, <2>1
<1>11. ASSUME NEW i \in Nat, i \in T PROVE i + 1 \in T
  <2> SUFFICES ASSUME i + 1 <= g PROVE h[i + 1] = Part(i + 1)
    OBVIOUS
  <2>1. i + 1 \in 1 .. g /\ i + 1 \in 0 .. g /\ (i + 1) - 1 = i /\ i <= g /\ i + 1 # 0
    BY <1>3
  <2>2. h[i + 1] = Once(h[i], i + 1)
    BY <1>9, <2>1
  <2>3. Part(i + 1) = Once(Part(i), i + 1)
    BY <1>7, <2>1
  <2> QED BY <1>11, <2>1, <2>2, <2>3
<1>12. h[g] = Part(g)
  <2>1. Nat \subseteq T
    <3> HIDE DEF T
    <3> QED BY <1>10, <1>11, SetInduction
  <2> QED BY <1>3, <2>1
<1>13. Part(g) = [y \in D |-> IF y \in R THEN A[O(y)] ELSE A[y]]
  <2>1. \A y \in D : (y \in R /\ C(y) < g) <=> y \in R
    BY <1>3, <1>5
  <2> QED BY <2>1 DEF Part
<1> QED BY <1>4, <1>12, <1>13 DEF R, O

-----------------------------------------------------------------------------
(* getopt().                                                               *)

\* The words that were skipped, if any, lie before the one at hand, and if
\* options were found since, so do they.
BlocksInv ==
  \/ nonopt_start = -1 /\ nonopt_end = -1
  \/ /\ nonopt_start \in 1 .. optind - 1
     /\ \/ nonopt_end = -1
        \/ /\ nonopt_end \in nonopt_start + 1 .. optind
           /\ nonopt_end < optind \/ place # <<>>

\* argv is a permutation of the words.
WordsInv ==
  /\ argv \in [1 .. Len(words) -> 1 .. Len(words)]
  /\ \A n \in 1 .. Len(words) : \E y \in 1 .. Len(words) : argv[y] = n

ParserInv ==
  /\ words \in Seq(Seq(Chars)) /\ place \in Seq(Chars)
  /\ optind \in 1 .. Len(words) + 1
  /\ ~done /\ place # <<>> => optind <= Len(words)
  /\ WordsInv /\ BlocksInv

\* A step that leaves the words where they are.
LEMMA WordsStay ==
  ASSUME WordsInv, UNCHANGED <<words, argv>>
  PROVE  WordsInv'
BY DEF WordsInv

\* What is left to show of a step.
LEMMA ParserParts ==
  ASSUME ParserInv, words' = words, place' \in Seq(Chars),
         optind' \in 1 .. Len(words) + 1,
         ~done' /\ place' # <<>> => optind' <= Len(words),
         WordsInv', BlocksInv'
  PROVE  ParserInv'
<1>1. words' \in Seq(Seq(Chars)) /\ Len(words') = Len(words)
  BY DEF ParserInv
<1> QED BY <1>1 DEF ParserInv

LEMMA ExchangeKeepsWords ==
  ASSUME ParserInv, NEW start, NEW end, NEW opt_end,
         start \in 1 .. Len(words), end \in start + 1 .. Len(words) + 1,
         opt_end \in end + 1 .. Len(words) + 1,
         argv' = Permuted(start, end, opt_end, argv), words' = words
  PROVE  WordsInv'
<1> DEFINE D == 1 .. Len(words)
           R == start .. opt_end - 1
           O(y) == Origin(start, end, opt_end, y)
           Goal(y) == IF y < end THEN y + (opt_end - end) ELSE y - (end - start)
<1>1. Len(words) \in Nat /\ argv \in [D -> D] /\ (\A n \in D : \E y \in D : argv[y] = n)
  <2>1. words \in Seq(Seq(Chars)) /\ WordsInv
    BY DEF ParserInv
  <2>2. Len(words) \in Nat
    BY <2>1
  <2> QED BY <2>1, <2>2 DEF WordsInv
<1>2. /\ start \in Int /\ end \in Int /\ opt_end \in Int /\ start < end /\ end < opt_end
      /\ R \subseteq D
  BY <1>1
<1>3. Array(argv, D, start, end, opt_end)
  BY <1>1, <1>2 DEF Array
<1>4. argv' = [y \in D |-> IF y \in R THEN argv[O(y)] ELSE argv[y]]
  <2> HIDE DEF D
  <2> QED BY <1>3, BlocksExchanged
<1>5. \A y \in R : O(y) \in R /\ Goal(y) \in R /\ O(Goal(y)) = y
  BY <1>2 DEF Origin
<1> HIDE DEF D, R, O, Goal
<1>6. argv' \in [D -> D]
  BY <1>1, <1>2, <1>4, <1>5
<1>7. ASSUME NEW n \in D PROVE \E y \in D : argv'[y] = n
  <2>1. PICK y \in D : argv[y] = n
    BY <1>1
  <2>2. CASE y \in R
    <3>1. Goal(y) \in R /\ Goal(y) \in D /\ O(Goal(y)) = y
      BY <1>2, <1>5, <2>2
    <3>2. argv'[Goal(y)] = n
      BY <1>4, <2>1, <3>1
    <3> QED BY <3>1, <3>2
  <2>3. CASE y \notin R
    BY <1>4, <2>1, <2>3
  <2> QED BY <2>2, <2>3
<1> QED BY <1>6, <1>7 DEF WordsInv, D

LEMMA ParserInitInv == GetOptInit => ParserInv
<1> SUFFICES ASSUME GetOptInit PROVE ParserInv
  OBVIOUS
<1>1. words \in Seq(Seq(Chars))
  BY GetOptAssumption DEF GetOptInit, GetOptStart
<1>2. /\ argv = [i \in 1 .. Len(words) |-> i] /\ optind = 1 /\ place = <<>>
      /\ nonopt_start = -1 /\ nonopt_end = -1
  BY DEF GetOptInit, GetOptStart
<1> QED BY <1>1, <1>2 DEF ParserInv, WordsInv, BlocksInv

\* The word at hand.
LEMMA WordIs ==
  ASSUME ParserInv, optind <= Len(argv)
  PROVE  /\ Len(argv) = Len(words) /\ Len(words) \in Nat /\ optind \in 1 .. Len(words)
         /\ Word \in Seq(Chars)
<1>1. Len(words) \in Nat /\ Len(argv) = Len(words)
  <2>1. words \in Seq(Seq(Chars)) /\ argv \in [1 .. Len(words) -> 1 .. Len(words)]
    BY DEF ParserInv, WordsInv
  <2>2. Len(words) \in Nat
    BY <2>1
  <2>3. DOMAIN argv = 1 .. Len(words)
    BY <2>1
  <2> QED BY <2>1, <2>2
<1>2. optind \in 1 .. Len(words)
  BY <1>1 DEF ParserInv
<1>3. argv[optind] \in 1 .. Len(words)
  BY <1>2 DEF ParserInv, WordsInv
<1> QED BY <1>1, <1>2, <1>3 DEF ParserInv, Word

LEMMA ParserStep == ParserInv /\ [GetOptNext]_getoptVars => ParserInv'
<1> SUFFICES ASSUME ParserInv, [GetOptNext]_getoptVars PROVE ParserInv'
  OBVIOUS
<1> DEFINE n == Len(words)
<1>0. /\ n \in Nat /\ Len(argv) = n /\ words \in Seq(Seq(Chars)) /\ place \in Seq(Chars)
      /\ optind \in 1 .. n + 1 /\ (~done /\ place # <<>> => optind <= n)
      /\ WordsInv /\ BlocksInv
  <2>1. words \in Seq(Seq(Chars)) /\ argv \in [1 .. n -> 1 .. n]
    BY DEF ParserInv, WordsInv
  <2>2. n \in Nat
    BY <2>1
  <2>3. Len(argv) = n
    BY <2>1, <2>2
  <2> QED BY <2>1, <2>2, <2>3 DEF ParserInv
<1>1. CASE EndOfArgs
  <2>1. place = <<>> /\ place' = place /\ words' = words /\ done' = TRUE /\ optind = n + 1
    BY <1>0, <1>1 DEF EndOfArgs, Scanning
  <2>2. nonopt_start' = -1 /\ nonopt_end' = -1
    BY <1>1 DEF EndOfArgs, ForgetSkipped
  <2>3. CASE nonopt_end # -1
    <3>1. argv' = Permuted(nonopt_start, nonopt_end, optind, argv) /\ optind' = optind - Skipped
      BY <1>1, <2>3 DEF EndOfArgs, permute_args
    <3>2. /\ nonopt_start \in 1 .. n /\ nonopt_end \in nonopt_start + 1 .. n + 1
          /\ optind \in nonopt_end + 1 .. n + 1
      BY <1>0, <2>1, <2>3 DEF ParserInv, BlocksInv
    <3>3. WordsInv'
      BY <2>1, <3>1, <3>2, ExchangeKeepsWords
    <3>4. optind' \in 1 .. n + 1
      BY <1>0, <3>1, <3>2 DEF Skipped
    <3>5. BlocksInv'
      BY <2>2 DEF BlocksInv
    <3> QED BY <1>0, <2>1, <3>3, <3>4, <3>5, ParserParts
  <2>4. CASE nonopt_end = -1
    <3>1. argv' = argv /\ optind' = IF nonopt_start # -1 THEN nonopt_start ELSE optind
      BY <1>1, <2>4 DEF EndOfArgs
    <3>2. optind' \in 1 .. n + 1
      BY <1>0, <3>1 DEF ParserInv, BlocksInv
    <3>3. BlocksInv'
      BY <2>2 DEF BlocksInv
    <3>4. WordsInv'
      BY <1>0, <2>1, <3>1, WordsStay
    <3> QED BY <1>0, <2>1, <3>2, <3>3, <3>4, ParserParts
  <2> QED BY <2>3, <2>4
<1>2. CASE NonOptionInOrder
  <2>1. /\ optind \in 1 .. n /\ optind' = optind + 1 /\ place = <<>>
        /\ UNCHANGED <<words, argv, place, nonopt_start, nonopt_end, done>>
    BY <1>0, <1>2 DEF NonOptionInOrder, AtNonOption, Scanning
  <2>2. BlocksInv'
    BY <1>0, <2>1 DEF BlocksInv
  <2>3. WordsInv'
    BY <1>0, <2>1, WordsStay
  <2>4. optind' \in 1 .. n + 1
    BY <1>0, <2>1
  <2> QED BY <1>0, <2>1, <2>2, <2>3, <2>4, ParserParts
<1>3. CASE NonOptionStops
  <2>1. UNCHANGED <<words, argv, optind, place, nonopt_start, nonopt_end>> /\ done'
    BY <1>3 DEF NonOptionStops
  <2>2. BlocksInv'
    BY <1>0, <2>1 DEF BlocksInv
  <2>3. WordsInv'
    BY <1>0, <2>1, WordsStay
  <2> QED BY <1>0, <2>1, <2>2, <2>3, ParserParts
<1>4. CASE NonOptionSkipped
  <2>1. /\ optind \in 1 .. n /\ optind' = optind + 1 /\ place = <<>>
        /\ UNCHANGED <<words, place, done>>
    BY <1>0, <1>4 DEF NonOptionSkipped, AtNonOption, Scanning
  <2>2. CASE nonopt_start # -1 /\ nonopt_end # -1
    <3>1. /\ argv' = Permuted(nonopt_start, nonopt_end, optind, argv)
          /\ nonopt_start' = optind - Skipped /\ nonopt_end' = -1
      BY <1>4, <2>2 DEF NonOptionSkipped, permute_args
    <3>2. /\ nonopt_start \in 1 .. n /\ nonopt_end \in nonopt_start + 1 .. n + 1
          /\ optind \in nonopt_end + 1 .. n + 1
      BY <1>0, <2>1, <2>2 DEF ParserInv, BlocksInv
    <3>3. WordsInv'
      BY <2>1, <3>1, <3>2, ExchangeKeepsWords
    <3>4. nonopt_start' \in 1 .. optind' - 1
      BY <1>0, <2>1, <3>1, <3>2 DEF Skipped
    <3>5. BlocksInv'
      BY <3>1, <3>4 DEF BlocksInv
    <3>6. optind' \in 1 .. n + 1
      BY <1>0, <2>1
    <3> QED BY <1>0, <2>1, <3>3, <3>5, <3>6, ParserParts
  <2>3. CASE ~(nonopt_start # -1 /\ nonopt_end # -1)
    <3>1. /\ nonopt_start' = IF nonopt_start = -1 THEN optind ELSE nonopt_start
          /\ UNCHANGED <<argv, nonopt_end>>
      BY <1>4, <2>3 DEF NonOptionSkipped
    <3>2. nonopt_end' = -1 /\ nonopt_start' \in 1 .. optind' - 1
      BY <1>0, <2>1, <2>3, <3>1 DEF ParserInv, BlocksInv
    <3>3. BlocksInv'
      BY <3>2 DEF BlocksInv
    <3>4. WordsInv'
      BY <1>0, <2>1, <3>1, WordsStay
    <3>5. optind' \in 1 .. n + 1
      BY <1>0, <2>1
    <3> QED BY <1>0, <2>1, <3>3, <3>4, <3>5, ParserParts
  <2> QED BY <2>2, <2>3
<1>5. CASE DashDash
  <2>1. /\ optind \in 1 .. n /\ place = <<>> /\ Word \in Seq(Chars)
        /\ UNCHANGED words /\ done' = TRUE /\ place' = SubSeq(Word, 3, Len(Word))
    BY <1>0, <1>5, WordIs DEF DashDash, AtOption, Scanning
  <2>2. nonopt_start' = -1 /\ nonopt_end' = -1
    BY <1>5 DEF DashDash, ForgetSkipped
  <2>3. place' \in Seq(Chars)
    BY <2>1
  <2>4. CASE OptionsBegin # -1
    <3>1. /\ argv' = Permuted(nonopt_start, OptionsBegin, optind + 1, argv)
          /\ optind' = optind + 1 - (OptionsBegin - nonopt_start)
      BY <1>5, <2>4 DEF DashDash
    <3>2. /\ nonopt_start \in 1 .. n /\ OptionsBegin \in nonopt_start + 1 .. n + 1
          /\ optind + 1 \in OptionsBegin + 1 .. n + 1
      BY <1>0, <2>1, <2>4 DEF ParserInv, BlocksInv, OptionsBegin
    <3>3. WordsInv'
      BY <2>1, <3>1, <3>2, ExchangeKeepsWords
    <3>4. optind' \in 1 .. n + 1
      BY <1>0, <3>1, <3>2
    <3>5. BlocksInv'
      BY <2>2 DEF BlocksInv
    <3> QED BY <1>0, <2>1, <2>3, <3>3, <3>4, <3>5, ParserParts
  <2>5. CASE OptionsBegin = -1
    <3>1. optind' = optind + 1 /\ argv' = argv
      BY <1>5, <2>5 DEF DashDash
    <3>2. BlocksInv'
      BY <2>2 DEF BlocksInv
    <3>3. WordsInv'
      BY <1>0, <2>1, <3>1, WordsStay
    <3>4. optind' \in 1 .. n + 1
      BY <1>0, <2>1, <3>1
    <3> QED BY <1>0, <2>1, <2>3, <3>2, <3>3, <3>4, ParserParts
  <2> QED BY <2>4, <2>5
<1>6. CASE Letters
  <2>1. /\ optind \in 1 .. n /\ place = <<>> /\ Word \in Seq(Chars) /\ Len(Word) > 1
        /\ nonopt_end' = OptionsBegin /\ place' = Tail(Word)
        /\ UNCHANGED <<words, argv, optind, nonopt_start, done>>
    BY <1>0, <1>6, WordIs DEF Letters, AtOption, Scanning, IsOption
  <2>2. place' \in Seq(Chars) /\ place' # <<>>
    BY <2>1
  <2>3. BlocksInv'
    BY <1>0, <2>1, <2>2 DEF ParserInv, BlocksInv, OptionsBegin
  <2>4. WordsInv'
    BY <1>0, <2>1, WordsStay
  <2>5. optind' \in 1 .. n + 1 /\ optind' <= n
    BY <1>0, <2>1
  <2> QED BY <1>0, <2>1, <2>2, <2>3, <2>4, <2>5, ParserParts
<1>7. CASE PlainLetter
  <2>1. /\ ~done /\ place # <<>> /\ place' = Tail(place)
        /\ optind' = IF Tail(place) = <<>> THEN optind + 1 ELSE optind
        /\ UNCHANGED <<words, argv, nonopt_start, nonopt_end, done>>
    BY <1>7 DEF PlainLetter, AtLetter, NextWordIf
  <2>2. place' \in Seq(Chars) /\ optind <= n
    BY <1>0, <2>1 DEF ParserInv
  <2>3. /\ optind' \in optind .. n + 1
        /\ (optind' = optind + 1 \/ place' # <<>>)
        /\ (place' # <<>> => optind' <= n)
    BY <1>0, <2>1, <2>2
  <2>4. BlocksInv'
    <3>1. CASE nonopt_start = -1 /\ nonopt_end = -1
      BY <2>1, <3>1 DEF BlocksInv
    <3>2. CASE nonopt_start \in 1 .. optind - 1 /\ nonopt_end = -1
      <4>1. nonopt_start' \in 1 .. optind' - 1 /\ nonopt_end' = -1
        BY <1>0, <2>1, <2>3, <3>2
      <4> QED BY <4>1 DEF BlocksInv
    <3>3. CASE nonopt_start \in 1 .. optind - 1 /\ nonopt_end \in nonopt_start + 1 .. optind
      <4>1. /\ nonopt_start' \in 1 .. optind' - 1
            /\ nonopt_end' \in nonopt_start' + 1 .. optind'
        BY <1>0, <2>1, <2>3, <3>3
      <4>2. nonopt_end' < optind' \/ place' # <<>>
        BY <1>0, <2>1, <2>3, <3>3
      <4> QED BY <4>1, <4>2 DEF BlocksInv
    <3> QED BY <1>0, <3>1, <3>2, <3>3 DEF BlocksInv
  <2>5. WordsInv'
    BY <1>0, <2>1, WordsStay
  <2>6. optind' \in 1 .. n + 1
    BY <1>0, <2>3
  <2> QED BY <1>0, <2>1, <2>2, <2>3, <2>4, <2>5, <2>6, ParserParts
<1>8. CASE LetterWithArg
  <2>1. /\ ~done /\ place # <<>> /\ place' = <<>>
        /\ UNCHANGED <<words, argv, nonopt_start, nonopt_end, done>>
    BY <1>8 DEF LetterWithArg, AtLetter
  <2>2. optind <= n
    BY <1>0, <2>1 DEF ParserInv
  <2>3. optind' = optind + 1 \/ (optind' = optind + 2 /\ optind # n)
    BY <1>0, <1>8 DEF LetterWithArg
  <2>4. optind' \in optind + 1 .. n + 1
    BY <1>0, <2>2, <2>3
  <2>5. BlocksInv'
    BY <1>0, <2>1, <2>4 DEF BlocksInv
  <2>6. WordsInv'
    BY <1>0, <2>1, WordsStay
  <2>7. optind' \in 1 .. n + 1 /\ place' \in Seq(Chars)
    BY <1>0, <2>1, <2>4
  <2> QED BY <1>0, <2>1, <2>5, <2>6, <2>7, ParserParts
<1>9. CASE UNCHANGED getoptVars
  BY <1>9 DEF getoptVars, ParserInv, BlocksInv, WordsInv
<1> QED BY <1>1, <1>2, <1>3, <1>4, <1>5, <1>6, <1>7, <1>8, <1>9 DEF GetOptNext

\* Whatever the command line and the option string, gcd() is not asked for a
\* block of no words: whenever there is a block of skipped words with an end,
\* it has words in it, and options follow it.
THEOREM NoEmptyBlocks == GetOptSpec => []BlocksNotEmpty
<1>1. ParserInv => BlocksNotEmpty
  BY DEF ParserInv, BlocksInv, BlocksNotEmpty
<1> QED BY <1>1, ParserInitInv, ParserStep, PTL DEF GetOptSpec

\* And after any number of permutations argv has each word once.
THEOREM NoWordLost == GetOptSpec => []WordsInv
<1>1. ParserInv => WordsInv
  BY DEF ParserInv
<1> QED BY <1>1, ParserInitInv, ParserStep, PTL DEF GetOptSpec

-----------------------------------------------------------------------------
(* The reading of a command line, as a function of where it is read from.  *)

\* A property that every number from L on has, and every number whose
\* successor has it, is one of all numbers.
LEMMA Descent ==
  ASSUME NEW S, NEW L \in Nat, \A k \in Nat : k >= L => k \in S,
         \A k \in Nat : k + 1 \in S => k \in S
  PROVE  Nat \subseteq S
<1> DEFINE T == {m \in Nat : \A k \in Nat : k + m >= L => k \in S}
<1>1. 0 \in T
  OBVIOUS
<1>2. ASSUME NEW m \in Nat, m \in T PROVE m + 1 \in T
  <2> SUFFICES ASSUME NEW k \in Nat, k + (m + 1) >= L PROVE k \in S
    OBVIOUS
  <2>1. k + 1 \in Nat /\ (k + 1) + m >= L
    OBVIOUS
  <2>2. k + 1 \in S
    BY <1>2, <2>1
  <2> QED BY <2>2
<1>3. Nat \subseteq T
  <2> HIDE DEF T
  <2> QED BY <1>1, <1>2, SetInduction
<1>4. L \in T
  BY <1>3
<1> QED BY <1>4

\* A function that is defined at each number from its value at the next one,
\* and from L on without it, exists.
Descends(X, F, L) ==
  /\ F \in [Nat -> [X -> X]] /\ L \in Nat
  /\ \A k \in Nat : k >= L => \A x, y \in X : F[k][x] = F[k][y]

LEMMA DescentDefines ==
  ASSUME NEW X, NEW F, NEW L, Descends(X, F, L), NEW x0 \in X
  PROVE  \E g \in [Nat -> X] : \A k \in Nat : g[k] = F[k][g[k + 1]]
<1> USE DEF Descends
<1> DEFINE Good(g, m) == \A k \in Nat : k + m >= L => g[k] = F[k][g[k + 1]]
           T == {m \in Nat : \E g \in [Nat -> X] : Good(g, m)}
<1>1. 0 \in T
  <2> DEFINE g == [k \in Nat |-> F[k][x0]]
  <2>1. g \in [Nat -> X]
    OBVIOUS
  <2>2. ASSUME NEW k \in Nat, k >= L PROVE g[k] = F[k][g[k + 1]]
    <3>1. k + 1 \in Nat /\ g[k + 1] \in X /\ g[k] = F[k][x0]
      BY <2>1
    <3> HIDE DEF g
    <3> QED BY <2>2, <3>1
  <2> HIDE DEF g
  <2> QED BY <2>1, <2>2
<1>2. ASSUME NEW m \in Nat, m \in T PROVE m + 1 \in T
  <2>1. PICK g \in [Nat -> X] : Good(g, m)
    BY <1>2
  <2>2. CASE m + 1 > L
    <3>1. Good(g, m + 1)
      BY <2>1, <2>2
    <3> QED BY <3>1
  <2>3. CASE m + 1 <= L
    <3> DEFINE j == L - (m + 1)
               h == [g EXCEPT ![j] = F[j][g[j + 1]]]
    <3>1. j \in Nat /\ j + 1 \in Nat
      BY <2>3
    <3>2. h \in [Nat -> X] /\ h[j] = F[j][g[j + 1]] /\ \A k \in Nat : k # j => h[k] = g[k]
      BY <2>1, <3>1
    <3>3. ASSUME NEW k \in Nat, k + (m + 1) >= L PROVE h[k] = F[k][h[k + 1]]
      <4>1. k + 1 \in Nat /\ k + 1 # j /\ k >= j
        BY <3>3
      <4>2. h[k + 1] = g[k + 1]
        BY <3>2, <4>1
      <4>3. k # j => g[k] = F[k][g[k + 1]]
        BY <2>1, <3>1, <4>1
      <4> HIDE DEF h, j
      <4> QED BY <3>2, <4>2, <4>3
    <3> HIDE DEF h, j
    <3> QED BY <3>2, <3>3
  <2> QED BY <2>2, <2>3
<1>3. L \in T
  <2> HIDE DEF T
  <2> QED BY <1>1, <1>2, SetInduction
<1>4. PICK g \in [Nat -> X] : Good(g, L)
  BY <1>3
<1>5. \A k \in Nat : g[k] = F[k][g[k + 1]]
  BY <1>4
<1> QED BY <1>5

\* What getopt() returns, and what is to come.
Returns == [ret : Chars \cup {"?", ":", "1"}, optarg : Seq(Chars) \cup {NoArg}]

Readings == [opts : Seq(Returns), operands : Seq(Nat)]

LineOK ==
  /\ words \in Seq(Seq(Chars))
  /\ \A c \in DOMAIN options.arg : options.arg[c] \in {"no", "yes", "maybe"}

LEMMA LettersTake == ASSUME LineOK, NEW c PROVE Takes(c) \in {"unknown", "no", "yes", "maybe"}
BY DEF LineOK, Takes

LEMMA WordTyped ==
  ASSUME LineOK, NEW i \in 1 .. Len(words)
  PROVE  words[i] \in Seq(Chars) /\ Len(words[i]) \in Nat
<1>1. words[i] \in Seq(Chars)
  BY DEF LineOK
<1> QED BY <1>1

LEMMA RestTyped ==
  ASSUME NEW w \in Seq(Chars), NEW k \in 1 .. Len(w)
  PROVE  /\ SubSeq(w, k + 1, Len(w)) \in Seq(Chars)
         /\ Len(SubSeq(w, k + 1, Len(w))) = Len(w) - k
         /\ w[k] \in Chars
OBVIOUS

\* One option more.
Prefix(r, next) == [next EXCEPT !.opts = <<r>> \o @]

LEMMA PrefixTyped ==
  ASSUME NEW r \in Returns, NEW next \in Readings
  PROVE  /\ Prefix(r, next) \in Readings
         /\ Prefix(r, next).opts = <<r>> \o next.opts
         /\ Prefix(r, next).operands = next.operands
<1>1. next.opts \in Seq(Returns) /\ <<r>> \in Seq(Returns)
  BY DEF Readings
<1>2. <<r>> \o next.opts \in Seq(Returns)
  BY <1>1
<1> DEFINE v == <<r>> \o next.opts
<1>3. Prefix(r, next) = [next EXCEPT !.opts = v]
  BY DEF Prefix
<1>4. v \in Seq(Returns)
  BY <1>2
<1> HIDE DEF v
<1>5. [next EXCEPT !.opts = v] \in Readings /\ [next EXCEPT !.opts = v].opts = v
      /\ [next EXCEPT !.opts = v].operands = next.operands
  BY <1>4 DEF Readings
<1> QED BY <1>3, <1>5 DEF v

\* The reading of a word, case by case.
LEMMA ReadEnd ==
  ASSUME LineOK, NEW i \in Nat, NEW k \in Nat \ {0}, NEW on, NEW next, NEW over, i > Len(words)
  PROVE  Follow(i, k, on, next, over) = Nothing
<1>1. Len(words) \in Nat
  BY DEF LineOK
<1> QED BY <1>1 DEF Follow

LEMMA ReadOperand ==
  ASSUME LineOK, NEW i \in 1 .. Len(words), NEW on, NEW next, NEW over, ~IsOption(words[i])
  PROVE  Follow(i, 1, on, next, over) =
           IF IN_ORDER THEN Prefix(INORDER(words[i]), next)
           ELSE IF PERMUTE THEN [next EXCEPT !.operands = <<i>> \o @]
           ELSE [opts |-> <<>>, operands |-> [x \in 1 .. Len(words) - i + 1 |-> i + x - 1]]
<1>1. Len(words) \in Nat /\ i <= Len(words) /\ ~(i > Len(words))
  BY DEF LineOK
<1> QED BY <1>1 DEF Follow, Prefix

LEMMA ReadOption ==
  ASSUME LineOK, NEW i \in 1 .. Len(words), NEW on, NEW next, NEW over, IsOption(words[i])
  PROVE  Follow(i, 1, on, next, over) =
           IF words[i][2] = "-"
           THEN [opts |-> <<>>,
                 operands |-> [x \in 1 .. Len(words) - (i + 1) + 1 |-> (i + 1) + x - 1]]
           ELSE on
<1>1. Len(words) \in Nat /\ i <= Len(words) /\ ~(i > Len(words))
  BY DEF LineOK
<1> QED BY <1>1 DEF Follow

LEMMA ReadPast ==
  ASSUME LineOK, NEW i \in 1 .. Len(words), NEW k \in Nat, k > 1, k > Len(words[i]),
         NEW on, NEW next, NEW over
  PROVE  Follow(i, k, on, next, over) = next
<1>1. Len(words) \in Nat /\ i <= Len(words) /\ ~(i > Len(words)) /\ k # 1
  BY DEF LineOK
<1>2. ~(k <= Len(words[i]))
  BY WordTyped
<1> QED BY <1>1, <1>2 DEF Follow

\* What is to come from a letter on, r, given the letter, the rest of its word,
\* and what comes after it.
LetterReads(r, c, rest, i, on, next, over) ==
  /\ Takes(c) = "unknown" => r = Prefix(BADCH, on)
  /\ Takes(c) = "no" => r = Prefix([ret |-> c, optarg |-> NoArg], on)
  /\ Takes(c) \in {"yes", "maybe"} /\ rest # <<>> =>
       r = Prefix([ret |-> c, optarg |-> rest], next)
  /\ Takes(c) = "maybe" /\ rest = <<>> => r = Prefix([ret |-> c, optarg |-> NoArg], next)
  /\ Takes(c) = "yes" /\ rest = <<>> =>
       r = IF i = Len(words) THEN Prefix(BADARG, next)
           ELSE Prefix([ret |-> c, optarg |-> words[i + 1]], over)

LEMMA ReadLetter ==
  ASSUME LineOK, NEW i \in 1 .. Len(words), NEW k \in 2 .. Len(words[i]),
         NEW on, NEW next, NEW over
  PROVE  LetterReads(Follow(i, k, on, next, over), words[i][k],
                     SubSeq(words[i], k + 1, Len(words[i])), i, on, next, over)
<1>1. /\ Len(words) \in Nat /\ i <= Len(words) /\ ~(i > Len(words))
      /\ Len(words[i]) \in Nat
  BY WordTyped DEF LineOK
<1>2. k # 1 /\ k > 1 /\ k <= Len(words[i]) /\ ~(k > Len(words[i]))
  BY <1>1
<1> QED BY <1>1, <1>2 DEF Follow, Prefix, LetterReads

LEMMA NothingTyped == Nothing \in Readings
<1>1. <<>> \in Seq(Returns) /\ <<>> \in Seq(Nat)
  OBVIOUS
<1> QED BY <1>1 DEF Nothing, Readings

LEMMA ReturnsTyped ==
  /\ BADCH \in Returns /\ BADARG \in Returns
  /\ \A w \in Seq(Chars) : INORDER(w) \in Returns
  /\ \A c \in Chars : \A arg \in Seq(Chars) \cup {NoArg} : [ret |-> c, optarg |-> arg] \in Returns
BY DEF BADCH, BADARG, INORDER, Returns

LEMMA OperandTyped ==
  ASSUME NEW next \in Readings, NEW i \in Nat
  PROVE  /\ [next EXCEPT !.operands = <<i>> \o @] \in Readings
         /\ [next EXCEPT !.operands = <<i>> \o @].opts = next.opts
         /\ [next EXCEPT !.operands = <<i>> \o @].operands = <<i>> \o next.operands
<1>1. next.operands \in Seq(Nat) /\ <<i>> \in Seq(Nat)
  BY DEF Readings
<1> DEFINE v == <<i>> \o next.operands
<1>2. v \in Seq(Nat)
  BY <1>1
<1>3. [next EXCEPT !.operands = <<i>> \o @] = [next EXCEPT !.operands = v]
  OBVIOUS
<1> HIDE DEF v
<1>4. [next EXCEPT !.operands = v] \in Readings /\ [next EXCEPT !.operands = v].operands = v
      /\ [next EXCEPT !.operands = v].opts = next.opts
  BY <1>2 DEF Readings
<1> QED BY <1>3, <1>4 DEF v

LEMMA FollowTyped ==
  ASSUME LineOK, NEW i \in 1 .. Len(words) + 2, NEW k \in Nat \ {0},
         NEW on, NEW next, NEW over,
         i <= Len(words) => next \in Readings,
         i < Len(words) => over \in Readings,
         i <= Len(words) /\ k <= Len(words[i]) => on \in Readings
  PROVE  Follow(i, k, on, next, over) \in Readings
<1> DEFINE n == Len(words)
           w == words[i]
           c == w[k]
           rest == SubSeq(w, k + 1, Len(w))
<1>1. n \in Nat
  BY DEF LineOK
<1>2. CASE i > n
  BY <1>1, <1>2, ReadEnd, NothingTyped
<1>3. CASE i <= n /\ k = 1 /\ ~IsOption(w)
  <2>1. i \in 1 .. n /\ w \in Seq(Chars)
    BY <1>1, <1>3, WordTyped
  <2> DEFINE from == [x \in 1 .. n - i + 1 |-> i + x - 1]
  <2>2. from \in Seq(Nat)
    <3>1. n - i + 1 \in Nat /\ from \in [1 .. n - i + 1 -> Nat]
      BY <1>1, <2>1
    <3> QED BY <3>1
  <2>3. Follow(i, k, on, next, over) =
          IF IN_ORDER THEN Prefix(INORDER(w), next)
          ELSE IF PERMUTE THEN [next EXCEPT !.operands = <<i>> \o @]
          ELSE [opts |-> <<>>, operands |-> from]
    BY <1>3, <2>1, ReadOperand
  <2>4. Prefix(INORDER(w), next) \in Readings
    BY <1>3, <2>1, PrefixTyped, ReturnsTyped
  <2>5. [next EXCEPT !.operands = <<i>> \o @] \in Readings
    BY <1>3, OperandTyped
  <2>6. [opts |-> <<>>, operands |-> from] \in Readings
    <3> HIDE DEF from
    <3>1. <<>> \in Seq(Returns)
      OBVIOUS
    <3> QED BY <2>2, <3>1 DEF Readings
  <2> HIDE DEF from
  <2> QED BY <2>3, <2>4, <2>5, <2>6
<1>4. CASE i <= n /\ k = 1 /\ IsOption(w)
  <2>1. i \in 1 .. n /\ w \in Seq(Chars)
    BY <1>1, <1>4, WordTyped
  <2> DEFINE from == [x \in 1 .. n - (i + 1) + 1 |-> (i + 1) + x - 1]
  <2>2. from \in Seq(Nat)
    <3>1. n - (i + 1) + 1 \in Nat /\ from \in [1 .. n - (i + 1) + 1 -> Nat]
      BY <1>1, <2>1
    <3> QED BY <3>1
  <2>3. Follow(i, k, on, next, over) =
          IF w[2] = "-" THEN [opts |-> <<>>, operands |-> from] ELSE on
    BY <1>4, <2>1, ReadOption
  <2>4. on \in Readings
    BY <1>4, <2>1 DEF IsOption
  <2>5. [opts |-> <<>>, operands |-> from] \in Readings
    <3> HIDE DEF from
    <3>1. <<>> \in Seq(Returns)
      OBVIOUS
    <3> QED BY <2>2, <3>1 DEF Readings
  <2> HIDE DEF from
  <2> QED BY <2>3, <2>4, <2>5
<1>5. CASE i <= n /\ k > 1 /\ k > Len(w)
  <2>1. i \in 1 .. n
    BY <1>1, <1>5
  <2> QED BY <1>5, <2>1, ReadPast
<1>6. CASE i <= n /\ k > 1 /\ k <= Len(w)
  <2>1. i \in 1 .. n /\ w \in Seq(Chars) /\ Len(w) \in Nat /\ next \in Readings
    BY <1>1, <1>6, WordTyped
  <2>2. k \in 2 .. Len(w) /\ k \in 1 .. Len(w)
    BY <1>6, <2>1
  <2>3. c \in Chars /\ rest \in Seq(Chars) /\ on \in Readings
    BY <1>6, <2>1, <2>2, RestTyped
  <2>4. /\ [ret |-> c, optarg |-> NoArg] \in Returns
        /\ [ret |-> c, optarg |-> rest] \in Returns
    BY <2>3, ReturnsTyped
  <2>5. i # n => i + 1 \in 1 .. n /\ over \in Readings
                  /\ [ret |-> c, optarg |-> words[i + 1]] \in Returns
    <3> SUFFICES ASSUME i # n PROVE /\ i + 1 \in 1 .. n /\ over \in Readings
                                    /\ [ret |-> c, optarg |-> words[i + 1]] \in Returns
      OBVIOUS
    <3>1. i + 1 \in 1 .. n /\ i < n
      BY <1>1, <2>1
    <3>2. words[i + 1] \in Seq(Chars)
      BY <3>1, WordTyped
    <3> QED BY <2>3, <3>1, <3>2, ReturnsTyped
  <2>6. /\ Prefix(BADCH, on) \in Readings
        /\ Prefix([ret |-> c, optarg |-> NoArg], on) \in Readings
        /\ Prefix([ret |-> c, optarg |-> rest], next) \in Readings
        /\ Prefix([ret |-> c, optarg |-> NoArg], next) \in Readings
        /\ Prefix(BADARG, next) \in Readings
        /\ i # n => Prefix([ret |-> c, optarg |-> words[i + 1]], over) \in Readings
    BY <2>1, <2>3, <2>4, <2>5, PrefixTyped, ReturnsTyped
  <2> DEFINE r == Follow(i, k, on, next, over)
  <2>7. LetterReads(r, c, rest, i, on, next, over)
    BY <2>1, <2>2, ReadLetter
  <2>8. Takes(c) \in {"unknown", "no", "yes", "maybe"}
    BY LettersTake
  <2> HIDE DEF c, rest, r
  <2>9. r \in Readings
    BY <2>6, <2>7, <2>8 DEF LetterReads
  <2> QED BY <2>9 DEF r
<1>7. i <= n => Len(w) \in Nat
  <2>1. i <= n => i \in 1 .. n
    BY <1>1
  <2> QED BY <2>1, WordTyped
<1> QED BY <1>1, <1>2, <1>3, <1>4, <1>5, <1>6, <1>7

\* Behind the letters of a word, what comes from the next letter on is not
\* asked for.
LEMMA BehindWord ==
  ASSUME LineOK, NEW i \in 1 .. Len(words) + 2, NEW k \in Nat \ {0},
         i <= Len(words) => k > Len(words[i]),
         NEW x, NEW y, NEW next, NEW over
  PROVE  Follow(i, k, x, next, over) = Follow(i, k, y, next, over)
<1>1. Len(words) \in Nat
  BY DEF LineOK
<1>2. CASE i > Len(words)
  BY <1>1, <1>2, ReadEnd
<1>3. CASE i <= Len(words) /\ k > 1
  <2>1. i \in 1 .. Len(words) /\ k > Len(words[i]) /\ k \in Nat
    BY <1>1, <1>3
  <2> QED BY <1>3, <2>1, ReadPast
<1>4. CASE i <= Len(words) /\ k = 1
  <2>1. i \in 1 .. Len(words) /\ k > Len(words[i])
    BY <1>1, <1>4
  <2>2. Len(words[i]) \in Nat
    BY <2>1, WordTyped
  <2>3. ~IsOption(words[i])
    BY <1>4, <2>1, <2>2 DEF IsOption
  <2>4. \A z : Follow(i, 1, z, next, over) =
                  IF IN_ORDER THEN Prefix(INORDER(words[i]), next)
                  ELSE IF PERMUTE THEN [next EXCEPT !.operands = <<i>> \o @]
                  ELSE [opts |-> <<>>,
                        operands |-> [z1 \in 1 .. Len(words) - i + 1 |-> i + z1 - 1]]
    BY <2>1, <2>3, ReadOperand
  <2> QED BY <1>4, <2>4
<1> QED BY <1>1, <1>2, <1>3, <1>4

FromOne == Nat \ {0}

Row(g, i, next, over) ==
  /\ g \in [FromOne -> Readings]
  /\ \A k \in FromOne : g[k] = Follow(i, k, g[k + 1], next, over)

\* A word can be read, from any of its letters on, given what follows it.
LEMMA WordReads ==
  ASSUME LineOK, NEW i \in 1 .. Len(words) + 2, NEW next, NEW over,
         i <= Len(words) => next \in Readings, i < Len(words) => over \in Readings
  PROVE  \E g : Row(g, i, next, over)
<1> DEFINE F == [j \in Nat |-> [x \in Readings |-> Follow(i, j + 1, x, next, over)]]
           L == IF i <= Len(words) THEN Len(words[i]) ELSE 0
<1>1. F \in [Nat -> [Readings -> Readings]]
  <2> SUFFICES ASSUME NEW j \in Nat, NEW x \in Readings
               PROVE  Follow(i, j + 1, x, next, over) \in Readings
    OBVIOUS
  <2>1. j + 1 \in Nat \ {0}
    OBVIOUS
  <2> QED BY <2>1, FollowTyped
<1>2. L \in Nat
  <2>1. CASE i <= Len(words)
    <3>1. i \in 1 .. Len(words)
      BY <2>1 DEF LineOK
    <3> QED BY <2>1, <3>1, WordTyped
  <2> QED BY <2>1
<1>3. ASSUME NEW j \in Nat, j >= L, NEW x \in Readings, NEW y \in Readings
      PROVE  F[j][x] = F[j][y]
  <2>1. j + 1 \in Nat \ {0} /\ (i <= Len(words) => j + 1 > Len(words[i]))
    BY <1>2, <1>3
  <2>2. Follow(i, j + 1, x, next, over) = Follow(i, j + 1, y, next, over)
    BY <2>1, BehindWord
  <2> QED BY <2>2
<1>4. PICK f \in [Nat -> Readings] : \A j \in Nat : f[j] = F[j][f[j + 1]]
  <2> HIDE DEF F, L
  <2>1. \A j \in Nat : j >= L => \A x, y \in Readings : F[j][x] = F[j][y]
    BY <1>3
  <2>2. Nothing \in Readings
    BY NothingTyped
  <2>3. Descends(Readings, F, L)
    BY <1>1, <1>2, <2>1 DEF Descends
  <2> QED BY <2>2, <2>3, DescentDefines
<1> DEFINE g == [k \in FromOne |-> f[k - 1]]
<1>5. g \in [FromOne -> Readings]
  BY DEF FromOne
<1>6. ASSUME NEW k \in FromOne PROVE g[k] = Follow(i, k, g[k + 1], next, over)
  <2>1. /\ k - 1 \in Nat /\ k \in Nat /\ k + 1 \in FromOne
        /\ (k + 1) - 1 = k /\ (k - 1) + 1 = k
    BY DEF FromOne
  <2>2. g[k] = f[k - 1] /\ g[k + 1] = f[k] /\ f[k] \in Readings
    BY <2>1
  <2>3. f[k - 1] = F[k - 1][f[k]]
    BY <1>4, <2>1
  <2>4. F[k - 1][f[k]] = Follow(i, k, f[k], next, over)
    BY <2>1, <2>2
  <2> QED BY <2>2, <2>3, <2>4
<1> HIDE DEF g
<1>7. Row(g, i, next, over)
  BY <1>5, <1>6 DEF Row
<1> QED BY <1>7

\* A reading of the whole line exists, so that ReadFrom is one.
LEMMA ReadIs ==
  ASSUME LineOK
  PROVE  \A i \in 1 .. Len(words) + 2 : \A k \in FromOne :
           ReadFrom[i][k] = Follow(i, k, ReadFrom[i][k + 1], ReadFrom[i + 1][1], ReadFrom[i + 2][1])
<1> DEFINE n == Len(words)
           D == 1 .. n + 2
           Step(h, i, k) == Follow(i, k, h[i][k + 1], h[i + 1][1], h[i + 2][1])
           Good(h, m) == \A i \in D : i + m > n + 2 => \A k \in FromOne : h[i][k] = Step(h, i, k)
           T == {m \in Nat : m <= n + 2 =>
                               \E h \in [D -> [FromOne -> Readings]] : Good(h, m)}
<1>0. n \in Nat /\ D = 1 .. n + 2
  BY DEF LineOK
<1>1. 0 \in T
  <2> DEFINE h == [i \in D |-> [k \in FromOne |-> Nothing]]
  <2>1. h \in [D -> [FromOne -> Readings]]
    BY NothingTyped
  <2>2. \A i \in D : ~(i + 0 > n + 2)
    BY <1>0
  <2>3. Good(h, 0)
    BY <2>2
  <2> HIDE DEF h, Good
  <2> QED BY <2>1, <2>3
<1>2. ASSUME NEW m \in Nat, m \in T PROVE m + 1 \in T
  <2> SUFFICES ASSUME m + 1 <= n + 2
               PROVE  \E h \in [D -> [FromOne -> Readings]] : Good(h, m + 1)
    OBVIOUS
  <2>1. PICK h \in [D -> [FromOne -> Readings]] : Good(h, m)
    BY <1>0, <1>2
  <2> DEFINE j == n + 2 - m
  <2>2. j \in D /\ j \in Int
    BY <1>0
  <2>3. 1 \in FromOne
    BY DEF FromOne
  <2>4. j <= n => /\ j + 1 \in D /\ j + 2 \in D
                  /\ h[j + 1][1] \in Readings /\ h[j + 2][1] \in Readings
    <3> SUFFICES ASSUME j <= n PROVE /\ j + 1 \in D /\ j + 2 \in D
                                     /\ h[j + 1][1] \in Readings /\ h[j + 2][1] \in Readings
      OBVIOUS
    <3>1. j + 1 \in D /\ j + 2 \in D
      BY <1>0, <2>2
    <3> HIDE DEF j, D
    <3> QED BY <2>1, <2>3, <3>1
  <2>5. PICK g \in [FromOne -> Readings] :
               \A k \in FromOne : g[k] = Follow(j, k, g[k + 1], h[j + 1][1], h[j + 2][1])
    <3> DEFINE next == h[j + 1][1]
               over == h[j + 2][1]
    <3>1. j \in 1 .. Len(words) + 2 /\ (j <= Len(words) => next \in Readings)
          /\ (j < Len(words) => over \in Readings)
      BY <1>0, <2>2, <2>4
    <3> HIDE DEF j, next, over
    <3>2. \E g : Row(g, j, next, over)
      BY <3>1, WordReads
    <3> QED BY <3>2 DEF next, over, Row
  <2> DEFINE h2 == [h EXCEPT ![j] = g]
  <2>6. /\ h2 \in [D -> [FromOne -> Readings]] /\ h2[j] = g
        /\ \A i \in D : i # j => h2[i] = h[i]
    <3> HIDE DEF j, D
    <3> QED BY <2>1, <2>2, <2>5
  <2>7. ASSUME NEW i \in D, i + (m + 1) > n + 2, NEW k \in FromOne
        PROVE  h2[i][k] = Step(h2, i, k)
    <3>1. i \in Int /\ i >= j
      BY <1>0, <2>7
    <3>2. CASE i > n
      <4>1. \A x, y, z : Follow(i, k, x, y, z) = Nothing
        <5>1. i \in Nat /\ k \in Nat \ {0}
          BY <1>0, <3>1 DEF FromOne
        <5> QED BY <3>2, <5>1, ReadEnd
      <4>2. CASE i = j
        BY <2>5, <2>6, <4>1, <4>2
      <4>3. CASE i # j
        <5>1. i + m > n + 2
          BY <1>0, <2>2, <3>1, <4>3
        <5>2. h[i][k] = Step(h, i, k)
          BY <2>1, <5>1
        <5> QED BY <2>6, <4>1, <4>3, <5>2
      <4> QED BY <4>2, <4>3
    <3>3. CASE i <= n
      <4>1. i + 1 \in D /\ i + 2 \in D /\ i + 1 # j /\ i + 2 # j
        BY <1>0, <2>2, <3>1, <3>3
      <4>2. h2[i + 1] = h[i + 1] /\ h2[i + 2] = h[i + 2]
        BY <2>6, <4>1
      <4>3. CASE i = j
        <5> HIDE DEF j, h2
        <5> QED BY <2>5, <2>6, <4>2, <4>3
      <4>4. CASE i # j
        <5>1. i + m > n + 2
          BY <1>0, <2>2, <3>1, <4>4
        <5>2. h[i][k] = Step(h, i, k)
          BY <2>1, <5>1
        <5>3. h2[i] = h[i]
          BY <2>6, <4>4
        <5> HIDE DEF j, h2
        <5> QED BY <4>2, <5>2, <5>3
      <4> QED BY <4>3, <4>4
    <3> QED BY <1>0, <3>1, <3>2, <3>3
  <2>8. Good(h2, m + 1)
    <3> HIDE DEF h2, Step, D
    <3> QED BY <2>7
  <2> HIDE DEF h2, Good
  <2> QED BY <2>6, <2>8
<1>3. n + 2 \in T
  <2>1. Nat \subseteq T
    <3> HIDE DEF T
    <3> QED BY <1>1, <1>2, SetInduction
  <2> HIDE DEF T
  <2> QED BY <1>0, <2>1
<1>4. PICK h \in [D -> [FromOne -> Readings]] : Good(h, n + 2)
  BY <1>0, <1>3
<1> DEFINE Rec(r) == [i \in D |-> [k \in FromOne |-> Step(r, i, k)]]
<1>5. h = Rec(h)
  <2>1. ASSUME NEW i \in D PROVE h[i] = Rec(h)[i]
    <3>1. i + (n + 2) > n + 2
      BY <1>0
    <3>2. \A k \in FromOne : h[i][k] = Step(h, i, k)
      BY <1>4, <3>1
    <3>3. h[i] = [k \in FromOne |-> h[i][k]]
      BY <1>4
    <3> HIDE DEF Step, D
    <3>4. h[i] = [k \in FromOne |-> Step(h, i, k)]
      BY <3>2, <3>3
    <3> QED BY <3>4
  <2>2. h = [i \in D |-> h[i]]
    BY <1>4
  <2> HIDE DEF D, Step
  <2> QED BY <2>1, <2>2
<1>6. ReadFrom = CHOOSE r : r = Rec(r)
  BY DEF ReadFrom, FromOne
<1>7. ReadFrom = Rec(ReadFrom)
  <2> HIDE DEF Rec
  <2> QED BY <1>5, <1>6
<1> HIDE DEF Step
<1>8. \A i \in D : \A k \in FromOne : ReadFrom[i][k] = Step(ReadFrom, i, k)
  BY <1>7
<1> QED BY <1>8 DEF Step

LEMMA ReadTyped ==
  ASSUME LineOK
  PROVE  \A i \in 1 .. Len(words) + 2 : \A k \in FromOne : ReadFrom[i][k] \in Readings
<1> DEFINE n == Len(words)
           D == 1 .. n + 2
           Fine(i) == i \in D => \A k \in FromOne : ReadFrom[i][k] \in Readings
           S == {i \in Nat : Fine(i) /\ Fine(i + 1)}
<1>0. n \in Nat /\ n + 1 \in Nat /\ D = 1 .. n + 2
  BY DEF LineOK
<1>1. ASSUME NEW i \in Int, i > n PROVE Fine(i)
  <2> SUFFICES ASSUME i \in D, NEW k \in FromOne PROVE ReadFrom[i][k] \in Readings
    OBVIOUS
  <2>1. ReadFrom[i][k] = Follow(i, k, ReadFrom[i][k + 1], ReadFrom[i + 1][1], ReadFrom[i + 2][1])
    BY ReadIs
  <2>2. i \in Nat /\ k \in Nat \ {0}
    BY <1>0, <1>1 DEF FromOne
  <2> QED BY <1>1, <2>1, <2>2, ReadEnd, NothingTyped
<1>2. ASSUME NEW i \in Nat, i + 1 \in S PROVE i \in S
  <2>1. Fine(i + 1) /\ Fine(i + 2) /\ (i + 1) + 1 = i + 2
    BY <1>2
  <2> SUFFICES ASSUME i \in D PROVE \A k \in FromOne : ReadFrom[i][k] \in Readings
    BY <2>1
  <2>2. CASE i > n
    BY <1>1, <2>2
  <2>3. CASE i <= n
    <3> DEFINE U == {k \in Nat : k \in FromOne => ReadFrom[i][k] \in Readings}
               L == Len(words[i]) + 1
    <3>1. /\ i \in 1 .. n /\ i + 1 \in D /\ i + 2 \in D /\ 1 \in FromOne /\ L \in Nat
          /\ Len(words[i]) \in Nat
      <4>1. i \in 1 .. n /\ i + 1 \in D /\ i + 2 \in D /\ 1 \in FromOne
        BY <1>0, <2>3 DEF FromOne
      <4>2. Len(words[i]) \in Nat
        BY <4>1, WordTyped
      <4> QED BY <4>1, <4>2
    <3>2. ReadFrom[i + 1][1] \in Readings /\ ReadFrom[i + 2][1] \in Readings
      BY <2>1, <3>1
    <3>3. ASSUME NEW k \in FromOne, k <= Len(words[i]) => ReadFrom[i][k + 1] \in Readings
          PROVE  ReadFrom[i][k] \in Readings
      <4>1. ReadFrom[i][k] = Follow(i, k, ReadFrom[i][k + 1], ReadFrom[i + 1][1], ReadFrom[i + 2][1])
        BY ReadIs
      <4>2. k \in Nat \ {0}
        BY DEF FromOne
      <4>3. Follow(i, k, ReadFrom[i][k + 1], ReadFrom[i + 1][1], ReadFrom[i + 2][1]) \in Readings
        BY <3>2, <3>3, <4>2, FollowTyped
      <4> QED BY <4>1, <4>3
    <3>4. ASSUME NEW k \in Nat, k >= L PROVE k \in U
      <4>1. ~(k <= Len(words[i]))
        BY <3>1, <3>4
      <4> QED BY <3>3, <4>1
    <3>5. ASSUME NEW k \in Nat, k + 1 \in U PROVE k \in U
      <4>1. k + 1 \in FromOne
        BY DEF FromOne
      <4> QED BY <3>3, <3>5, <4>1
    <3>6. Nat \subseteq U
      <4> HIDE DEF U, L
      <4> QED BY <3>1, <3>4, <3>5, Descent
    <3> QED BY <3>6 DEF FromOne
  <2> QED BY <1>0, <2>2, <2>3
<1>3. \A i \in Nat : i >= n + 1 => i \in S
  <2> SUFFICES ASSUME NEW i \in Nat, i >= n + 1 PROVE Fine(i) /\ Fine(i + 1)
    OBVIOUS
  <2>1. i \in Int /\ i > n /\ i + 1 \in Int /\ i + 1 > n
    BY <1>0
  <2> HIDE DEF Fine, n
  <2> QED BY <1>1, <2>1
<1>4. Nat \subseteq S
  <2> HIDE DEF S
  <2> QED BY <1>0, <1>2, <1>3, Descent
<1>5. ASSUME NEW i \in D PROVE Fine(i)
  <2>1. i \in Nat
    BY <1>0
  <2> HIDE DEF Fine, D
  <2> QED BY <1>4, <2>1
<1> QED BY <1>5

LEMMA ReadStays ==
  ASSUME words' = words, options' = options
  PROVE  ReadFrom' = ReadFrom
BY DEF ReadFrom, Follow, Takes, IN_ORDER, PERMUTE, BADARG, IsOption, BADCH, NoArg, INORDER, Nothing
-----------------------------------------------------------------------------
(* What is left of the order of the words.                                 *)

Rises(f, a, b) == \A p, q \in a .. b : p < q => f[p] < f[q]

Arguments(n, f) == n \in Nat /\ f \in [1 .. n -> 1 .. n]

\* A piece of the argument vector.
LEMMA ArgsPieceIs ==
  ASSUME NEW n, NEW f, Arguments(n, f), NEW a \in 1 .. n + 1, NEW b \in a - 1 .. n
  PROVE  /\ SubSeq(f, a, b) \in Seq(Nat) /\ Len(SubSeq(f, a, b)) = b - a + 1
         /\ \A j \in 1 .. b - a + 1 : SubSeq(f, a, b)[j] = f[a + j - 1]
<1>1. a \in Int /\ b \in Int /\ a - 1 <= b /\ \A i \in a .. b : f[i] \in Nat
  BY DEF Arguments
<1>2. /\ SubSeq(f, a, b) \in Seq(Nat)
      /\ Len(SubSeq(f, a, b)) = IF a <= b THEN b - a + 1 ELSE 0
      /\ \A i \in 1 .. b - a + 1 : SubSeq(f, a, b)[i] = f[a + i - 1]
  BY <1>1, SubSeqProperties
<1> QED BY <1>1, <1>2

\* Pieces with the same in them are the same.
LEMMA SamePiece ==
  ASSUME NEW n, NEW f, Arguments(n, f), NEW a \in 1 .. n + 1, NEW b \in a - 1 .. n,
         NEW g, Arguments(n, g), NEW c \in 1 .. n + 1, NEW d \in c - 1 .. n,
         b - a = d - c, \A p \in a .. b : f[p] = g[p + (c - a)]
  PROVE  SubSeq(f, a, b) = SubSeq(g, c, d)
<1> DEFINE s == SubSeq(f, a, b)
           t == SubSeq(g, c, d)
<1>1. s \in Seq(Nat) /\ Len(s) = b - a + 1 /\ \A j \in 1 .. b - a + 1 : s[j] = f[a + j - 1]
  BY ArgsPieceIs
<1>2. t \in Seq(Nat) /\ Len(t) = d - c + 1 /\ \A j \in 1 .. d - c + 1 : t[j] = g[c + j - 1]
  BY ArgsPieceIs
<1>3. a \in Int /\ b \in Int /\ c \in Int /\ d \in Int
  BY DEF Arguments
<1> HIDE DEF s, t
<1>4. ASSUME NEW j \in 1 .. Len(s) PROVE s[j] = t[j]
  <2>1. /\ j \in 1 .. b - a + 1 /\ j \in 1 .. d - c + 1 /\ a + j - 1 \in a .. b
        /\ (a + j - 1) + (c - a) = c + j - 1
    BY <1>1, <1>3
  <2> QED BY <1>1, <1>2, <2>1
<1>5. Len(s) = Len(t)
  BY <1>1, <1>2
<1>6. s = t
  BY <1>1, <1>2, <1>4, <1>5, SeqEqual
<1> QED BY <1>6 DEF s, t

\* A piece of words that have not been moved.
LEMMA OwnPiece ==
  ASSUME NEW n, NEW f, Arguments(n, f), NEW a \in 1 .. n + 1,
         \A p \in a .. n : f[p] = p
  PROVE  SubSeq(f, a, n) = [x \in 1 .. n - a + 1 |-> a + x - 1]
<1> DEFINE s == SubSeq(f, a, n)
           t == [x \in 1 .. n - a + 1 |-> a + x - 1]
<1>0. n \in Nat /\ n \in a - 1 .. n /\ a \in Int
  BY DEF Arguments
<1>1. s \in Seq(Nat) /\ Len(s) = n - a + 1 /\ \A j \in 1 .. n - a + 1 : s[j] = f[a + j - 1]
  BY <1>0, ArgsPieceIs
<1>2. n - a + 1 \in Nat /\ t \in [1 .. n - a + 1 -> Nat]
  BY <1>0
<1>3. t \in Seq(Nat) /\ Len(t) = n - a + 1
  BY <1>2
<1>4. ASSUME NEW j \in 1 .. n - a + 1 PROVE s[j] = t[j]
  <2>1. a + j - 1 \in a .. n /\ t[j] = a + j - 1
    BY <1>0
  <2> QED BY <1>1, <2>1
<1> HIDE DEF s, t
<1>5. s = t
  BY <1>1, <1>3, <1>4, SeqEqual
<1> QED BY <1>5 DEF s, t

\* Options and skipped words in their order, and the rest where it was.
Sorted(n, f, start, end) ==
  /\ Arguments(n, f)
  /\ start \in 1 .. n /\ end \in start + 1 .. n + 1
  /\ Rises(f, 1, start - 1) /\ Rises(f, start, end - 1)
  /\ \A p \in end .. n : f[p] = p
  /\ \A p \in 1 .. end - 1 : f[p] < end

\* What an exchange makes of f: the skipped words begin at mid.
Exchanged(n, f, start, end, o, g, mid) ==
  /\ Sorted(n, g, mid, o)
  /\ SubSeq(g, mid, o - 1) = SubSeq(f, start, end - 1)
  /\ Rises(g, 1, mid - 1)

\* Options found behind the skipped words join those before.
LEMMA ExchangeKeepsOrder ==
  ASSUME NEW n, NEW f, NEW start, NEW end, NEW o, Sorted(n, f, start, end),
         o \in end + 1 .. n + 1
  PROVE  Exchanged(n, f, start, end, o, Permuted(start, end, o, f), start + (o - end))
<1> DEFINE g == Permuted(start, end, o, f)
           mid == start + (o - end)
           D == 1 .. n
           O(y) == Origin(start, end, o, y)
<1>1. /\ n \in Nat /\ start \in Int /\ end \in Int /\ o \in Int /\ mid \in Int
      /\ 1 <= start /\ start < end /\ end < o /\ o <= n + 1 /\ f \in [D -> D]
  BY DEF Sorted, Arguments
<1>2. Array(f, D, start, end, o)
  BY <1>1 DEF Array
<1>3. g = [y \in D |-> IF y \in start .. o - 1 THEN f[O(y)] ELSE f[y]]
  <2> HIDE DEF D
  <2> QED BY <1>2, BlocksExchanged
<1>4. \A y \in start .. mid - 1 : g[y] = y + (end - start)
  <2> SUFFICES ASSUME NEW y \in start .. mid - 1 PROVE g[y] = y + (end - start)
    OBVIOUS
  <2>1. y \in D /\ y \in start .. o - 1 /\ O(y) = y + (end - start) /\ O(y) \in end .. n
    BY <1>1 DEF Origin
  <2>2. g[y] = f[O(y)]
    BY <1>3, <2>1
  <2> QED BY <2>1, <2>2 DEF Sorted
<1>5. \A y \in mid .. o - 1 : g[y] = f[y - (o - end)] /\ y - (o - end) \in start .. end - 1
  <2> SUFFICES ASSUME NEW y \in mid .. o - 1
               PROVE  g[y] = f[y - (o - end)] /\ y - (o - end) \in start .. end - 1
    OBVIOUS
  <2>1. y \in D /\ y \in start .. o - 1 /\ O(y) = y - (o - end)
    BY <1>1 DEF Origin
  <2>2. g[y] = f[O(y)]
    BY <1>3, <2>1
  <2> QED BY <1>1, <2>1, <2>2
<1>6. \A y \in D : y \notin start .. o - 1 => g[y] = f[y]
  BY <1>3
<1>7. \A y \in start .. o - 1 : O(y) \in D
  BY <1>1 DEF Origin
<1>8. Arguments(n, g)
  <2>1. \A y \in D : g[y] \in D
    BY <1>1, <1>3, <1>7
  <2> HIDE DEF O
  <2>2. g \in [D -> D]
    BY <1>3, <2>1
  <2> QED BY <1>1, <2>2 DEF Arguments
<1> HIDE DEF g, O
<1>9. /\ Rises(f, 1, start - 1) /\ Rises(f, start, end - 1)
      /\ (\A p \in end .. n : f[p] = p) /\ (\A p \in 1 .. end - 1 : f[p] < end)
      /\ (\A p \in D : f[p] \in Int)
  BY <1>1 DEF Sorted
<1>10. Rises(g, 1, mid - 1)
  <2> SUFFICES ASSUME NEW p \in 1 .. mid - 1, NEW q \in 1 .. mid - 1, p < q
               PROVE  g[p] < g[q]
    BY DEF Rises
  <2>1. CASE q < start
    <3>1. p \in 1 .. start - 1 /\ q \in 1 .. start - 1 /\ g[p] = f[p] /\ g[q] = f[q]
      BY <1>1, <1>6, <2>1
    <3> QED BY <1>9, <3>1 DEF Rises
  <2>2. CASE p < start /\ q >= start
    <3>1. g[p] = f[p] /\ f[p] < end /\ f[p] \in Int
      BY <1>1, <1>6, <1>9, <2>2
    <3>2. g[q] = q + (end - start)
      BY <1>1, <1>4, <2>2
    <3> QED BY <1>1, <2>2, <3>1, <3>2
  <2>3. CASE p >= start
    <3>1. g[p] = p + (end - start) /\ g[q] = q + (end - start)
      BY <1>1, <1>4, <2>3
    <3> QED BY <1>1, <3>1
  <2> QED BY <1>1, <2>1, <2>2, <2>3
<1>11. Rises(g, mid, o - 1)
  <2> SUFFICES ASSUME NEW p \in mid .. o - 1, NEW q \in mid .. o - 1, p < q
               PROVE  g[p] < g[q]
    BY DEF Rises
  <2> DEFINE x == p - (o - end)
             y == q - (o - end)
  <2>1. /\ g[p] = f[x] /\ g[q] = f[y] /\ x \in start .. end - 1 /\ y \in start .. end - 1
        /\ x < y
    BY <1>1, <1>5
  <2> HIDE DEF x, y
  <2> QED BY <1>9, <2>1 DEF Rises
<1>12. \A p \in o .. n : g[p] = p
  BY <1>1, <1>6, <1>9
<1>13. ASSUME NEW p \in 1 .. o - 1 PROVE g[p] < o
  <2>1. CASE p < start
    <3>1. g[p] = f[p] /\ f[p] < end /\ f[p] \in Int
      BY <1>1, <1>6, <1>9, <2>1
    <3> QED BY <1>1, <3>1
  <2>2. CASE p \in start .. mid - 1
    BY <1>1, <1>4, <2>2
  <2>3. CASE p \in mid .. o - 1
    <3> DEFINE x == p - (o - end)
    <3>1. g[p] = f[x] /\ x \in start .. end - 1
      BY <1>5, <2>3
    <3> HIDE DEF x
    <3>2. f[x] < end /\ f[x] \in Int
      BY <1>1, <1>9, <3>1
    <3> QED BY <1>1, <3>1, <3>2
  <2> QED BY <1>1, <2>1, <2>2, <2>3
<1>14. mid \in 1 .. n /\ o \in mid + 1 .. n + 1
  BY <1>1
<1>15. Sorted(n, g, mid, o)
  <2>1. Rises(g, 1, mid - 1) /\ Rises(g, mid, o - 1)
    BY <1>10, <1>11
  <2> HIDE DEF mid
  <2> QED BY <1>8, <1>12, <1>13, <1>14, <2>1 DEF Sorted
<1>16. SubSeq(g, mid, o - 1) = SubSeq(f, start, end - 1)
  <2>1. Arguments(n, f)
    BY DEF Sorted
  <2>2. /\ start \in 1 .. n + 1 /\ end - 1 \in start - 1 .. n
        /\ mid \in 1 .. n + 1 /\ o - 1 \in mid - 1 .. n
        /\ (end - 1) - start = (o - 1) - mid
    BY <1>1
  <2>3. ASSUME NEW p \in start .. end - 1 PROVE f[p] = g[p + (mid - start)]
    <3> DEFINE y == p + (mid - start)
    <3>1. y \in mid .. o - 1 /\ y - (o - end) = p
      BY <1>1
    <3> HIDE DEF y
    <3>2. g[y] = f[p]
      BY <1>5, <3>1
    <3> QED BY <3>2 DEF y
  <2> HIDE DEF mid
  <2>4. SubSeq(f, start, end - 1) = SubSeq(g, mid, o - 1)
    BY <1>8, <2>1, <2>2, <2>3, SamePiece
  <2> QED BY <2>4
<1> QED BY <1>10, <1>15, <1>16 DEF g, Exchanged

-----------------------------------------------------------------------------
(* getopt() returns what the line says.                                    *)

Untouched == \A p \in 1 .. Len(words) : argv[p] = p

\* Where the skipped words end, and what they are.
SkipEnd == IF nonopt_end = -1 THEN optind ELSE nonopt_end

Skips == IF nonopt_start = -1 THEN <<>> ELSE SubSeq(argv, nonopt_start, SkipEnd - 1)

\* The letter at hand, and what is to come from it on.
At == IF place = <<>> THEN 1 ELSE Len(words[optind]) - Len(place) + 1

Rest == ReadFrom[optind][At]

OrderInv ==
  /\ nonopt_start = -1 => Untouched
  /\ nonopt_start # -1 =>
       /\ PERMUTE
       /\ place # <<>> => nonopt_end # -1
       /\ Sorted(Len(words), argv, nonopt_start, SkipEnd)

PlaceInv ==
  place # <<>> =>
    /\ At \in 2 .. Len(words[optind])
    /\ place = SubSeq(words[optind], At, Len(words[optind]))

ReadInv ==
  /\ returned \in Seq(Returns)
  /\ Reading.opts = returned \o Rest.opts
  /\ Reading.operands = Skips \o Rest.operands

DoneInv ==
  /\ returned = Reading.opts
  /\ Rises(argv, 1, optind - 1)
  /\ SubSeq(argv, optind, Len(words)) = Reading.operands

CourseInv ==
  /\ ParserInv /\ LineOK
  /\ ~done => OrderInv /\ PlaceInv /\ ReadInv
  /\ done => DoneInv

\* What holds wherever the parser stands.
LEMMA Standing ==
  ASSUME CourseInv, ~done
  PROVE  /\ LineOK /\ OrderInv /\ PlaceInv /\ ReadInv
         /\ Len(words) \in Nat /\ Arguments(Len(words), argv) /\ Len(argv) = Len(words)
         /\ optind \in 1 .. Len(words) + 1
         /\ \A p \in optind .. Len(words) : argv[p] = p
         /\ nonopt_start = -1 => nonopt_end = -1
         /\ nonopt_start # -1 => nonopt_start \in 1 .. SkipEnd - 1 /\ SkipEnd \in 2 .. optind
         /\ nonopt_end # -1 /\ place = <<>> => nonopt_end < optind
         /\ Skips \in Seq(Nat)
<1> DEFINE n == Len(words)
<1>1. /\ LineOK /\ OrderInv /\ PlaceInv /\ ReadInv /\ WordsInv /\ BlocksInv
      /\ optind \in 1 .. n + 1
  BY DEF CourseInv, ParserInv
<1>2. n \in Nat
  BY <1>1 DEF LineOK
<1>3. Arguments(n, argv)
  BY <1>1, <1>2 DEF WordsInv, Arguments
<1>4. Len(argv) = n
  <2>1. argv \in [1 .. n -> 1 .. n]
    BY <1>3 DEF Arguments
  <2> HIDE DEF n
  <2> QED BY <1>2, <2>1
<1>5. nonopt_start = -1 => nonopt_end = -1
  BY <1>1, <1>2 DEF BlocksInv
<1>6. nonopt_start # -1 => nonopt_start \in 1 .. SkipEnd - 1 /\ SkipEnd \in 2 .. optind
  BY <1>1, <1>2 DEF BlocksInv, SkipEnd
<1>7. \A p \in optind .. n : argv[p] = p
  <2> SUFFICES ASSUME NEW p \in optind .. n PROVE argv[p] = p
    OBVIOUS
  <2>1. CASE nonopt_start = -1
    <3>1. p \in 1 .. n
      BY <1>1, <1>2
    <3> QED BY <1>1, <2>1, <3>1 DEF OrderInv, Untouched
  <2>2. CASE nonopt_start # -1
    <3>1. p \in SkipEnd .. n
      BY <1>1, <1>2, <1>6, <2>2
    <3> QED BY <1>1, <2>2, <3>1 DEF OrderInv, Sorted
  <2> QED BY <2>1, <2>2
<1>8. Skips \in Seq(Nat)
  <2>1. CASE nonopt_start = -1
    <3>1. <<>> \in Seq(Nat)
      OBVIOUS
    <3> QED BY <2>1, <3>1 DEF Skips
  <2>2. CASE nonopt_start # -1
    <3>1. nonopt_start \in 1 .. n + 1 /\ SkipEnd - 1 \in nonopt_start - 1 .. n
      BY <1>1, <1>2, <1>6, <2>2
    <3>2. SubSeq(argv, nonopt_start, SkipEnd - 1) \in Seq(Nat)
      BY <1>3, <3>1, ArgsPieceIs
    <3> QED BY <2>2, <3>2 DEF Skips
  <2> QED BY <2>1, <2>2
<1>9. nonopt_end # -1 /\ place = <<>> => nonopt_end < optind
  BY <1>1 DEF BlocksInv
<1> QED BY <1>1, <1>2, <1>3, <1>4, <1>5, <1>6, <1>7, <1>8, <1>9

\* The reading where a word begins.
LEMMA ReadAt ==
  ASSUME LineOK, NEW i \in 1 .. Len(words) + 2, NEW k \in Nat \ {0}
  PROVE  /\ ReadFrom[i][k] = Follow(i, k, ReadFrom[i][k + 1], ReadFrom[i + 1][1], ReadFrom[i + 2][1])
         /\ ReadFrom[i][k] \in Readings
BY ReadIs, ReadTyped DEF FromOne

\* One option more has been returned.
LEMMA ReturnOne ==
  ASSUME ReadInv, NEW r \in Returns, NEW later \in Readings, Rest = Prefix(r, later),
         returned' = Append(returned, r), UNCHANGED <<words, options>>,
         Rest' = later, Skips' = Skips
  PROVE  ReadInv'
<1>1. /\ returned \in Seq(Returns) /\ Reading.opts = returned \o Rest.opts
      /\ Reading.operands = Skips \o Rest.operands
  BY DEF ReadInv
<1>2. Rest.opts = <<r>> \o later.opts /\ Rest.operands = later.operands
  BY PrefixTyped
<1>3. later.opts \in Seq(Returns) /\ <<r>> \in Seq(Returns)
  BY DEF Readings
<1>4. returned' = returned \o <<r>> /\ returned' \in Seq(Returns)
  BY <1>1, AppendIsConcat, AppendProperties
<1>5. (returned \o <<r>>) \o later.opts = returned \o (<<r>> \o later.opts)
  <2> DEFINE t == <<r>>
             u == later.opts
  <2>1. t \in Seq(Returns) /\ u \in Seq(Returns)
    BY <1>3
  <2> HIDE DEF t, u
  <2>2. (returned \o t) \o u = returned \o (t \o u)
    BY <1>1, <2>1, ConcatAssociative
  <2> QED BY <2>2 DEF t, u
<1>6. Reading' = Reading
  BY ReadStays DEF Reading
<1>7. Reading.opts = returned' \o later.opts
  BY <1>1, <1>2, <1>4, <1>5
<1>8. Reading.operands = Skips' \o later.operands
  BY <1>1, <1>2
<1> QED BY <1>4, <1>6, <1>7, <1>8 DEF ReadInv

\* A step that leaves the skipped words alone.
LEMMA SkipsStay ==
  ASSUME OrderInv, UNCHANGED <<words, options, argv, nonopt_start>>,
         nonopt_start # -1 => nonopt_end' # -1 /\ SkipEnd' = SkipEnd
  PROVE  OrderInv' /\ Skips' = Skips
<1>2. Skips' = Skips
  BY DEF Skips
<1>3. PERMUTE' = PERMUTE
  BY DEF PERMUTE
<1>4. nonopt_start = -1 => Untouched'
  BY DEF OrderInv, Untouched
<1>5. nonopt_start # -1 => Sorted(Len(words), argv, nonopt_start, SkipEnd)'
  BY DEF OrderInv, Sorted, Rises, Arguments
<1> QED BY <1>2, <1>3, <1>4, <1>5 DEF OrderInv

LEMMA DoneIs ==
  ASSUME UNCHANGED <<words, options>>, returned' = Reading.opts,
         Rises(argv', 1, optind' - 1),
         SubSeq(argv', optind', Len(words)) = Reading.operands
  PROVE  DoneInv'
<1>1. Reading' = Reading
  BY ReadStays DEF Reading
<1> QED BY <1>1 DEF DoneInv, Rises

\* Nothing more to come: what was returned is all of it.
LEMMA NoMoreOptions ==
  ASSUME ReadInv, Rest.opts = <<>>
  PROVE  Reading.opts = returned
<1>1. returned \in Seq(Returns)
  BY DEF ReadInv
<1>2. returned \o <<>> = returned
  BY <1>1, ConcatEmptySeq
<1> QED BY <1>2 DEF ReadInv

LEMMA EndReads ==
  ASSUME CourseInv, ~done, EndOfArgs
  PROVE  DoneInv'
<1> DEFINE n == Len(words)
<1>1. /\ place = <<>> /\ optind > Len(argv)
      /\ UNCHANGED <<words, options, returned>>
  BY DEF EndOfArgs, Scanning
<1>2. /\ LineOK /\ OrderInv /\ ReadInv /\ n \in Nat /\ Arguments(n, argv)
      /\ optind = n + 1 /\ Skips \in Seq(Nat)
  BY <1>1, Standing
<1>3. Rest = Nothing
  <2>1. optind \in 1 .. Len(words) + 2 /\ 1 \in Nat \ {0} /\ optind \in Nat
        /\ optind > Len(words)
    BY <1>2
  <2>2. ReadFrom[optind][1] = Follow(optind, 1, ReadFrom[optind][1 + 1], ReadFrom[optind + 1][1],
                                 ReadFrom[optind + 2][1])
    BY <1>2, <2>1, ReadAt
  <2>3. ReadFrom[optind][1] = Nothing
    BY <1>2, <2>1, <2>2, ReadEnd
  <2> QED BY <1>1, <2>3 DEF Rest, At
<1>4. Reading.opts = returned
  BY <1>2, <1>3, NoMoreOptions DEF Nothing
<1>5. Reading.operands = Skips
  <2>1. Skips \o <<>> = Skips
    BY <1>2, ConcatEmptySeq
  <2> QED BY <1>2, <1>3, <2>1 DEF ReadInv, Nothing
<1>6. Rises(argv', 1, optind' - 1) /\ SubSeq(argv', optind', n) = Skips
  <2>1. CASE nonopt_start = -1
    <3>1. nonopt_end = -1
      BY <2>1, Standing
    <3>2. argv' = argv /\ optind' = n + 1
      BY <1>2, <2>1, <3>1 DEF EndOfArgs
    <3>3. \A p \in 1 .. n : argv[p] = p
      BY <1>2, <2>1 DEF OrderInv, Untouched
    <3>4. Rises(argv', 1, optind' - 1)
      BY <1>2, <3>2, <3>3 DEF Rises
    <3>5. SubSeq(argv', optind', n) = <<>>
      BY <1>2, <3>2, SubSeqEmpty
    <3> QED BY <2>1, <3>4, <3>5 DEF Skips
  <2>2. CASE nonopt_start # -1 /\ nonopt_end = -1
    <3>1. argv' = argv /\ optind' = nonopt_start
      BY <1>2, <2>2 DEF EndOfArgs
    <3>2. SkipEnd = n + 1
      BY <1>2, <2>2 DEF SkipEnd
    <3>3. Rises(argv, 1, nonopt_start - 1)
      BY <1>2, <2>2 DEF OrderInv, Sorted
    <3>4. Skips = SubSeq(argv, nonopt_start, n)
      BY <1>2, <2>2, <3>2 DEF Skips
    <3> QED BY <3>1, <3>3, <3>4
  <2>3. CASE nonopt_start # -1 /\ nonopt_end # -1
    <3>1. SkipEnd = nonopt_end /\ Sorted(n, argv, nonopt_start, nonopt_end)
      BY <1>2, <2>3 DEF OrderInv, SkipEnd
    <3>2. argv' = Permuted(nonopt_start, nonopt_end, optind, argv)
          /\ optind' = optind - (nonopt_end - nonopt_start)
      BY <2>3 DEF EndOfArgs, permute_args, Skipped
    <3>3. optind \in nonopt_end + 1 .. n + 1 /\ nonopt_end \in Int /\ nonopt_start \in Int
      BY <1>1, <1>2, <2>3, <3>1, Standing
    <3>4. optind' = nonopt_start + (optind - nonopt_end) /\ optind - 1 = n
      BY <1>2, <3>2, <3>3
    <3>5. /\ SubSeq(argv', optind', optind - 1) = SubSeq(argv, nonopt_start, nonopt_end - 1)
          /\ Rises(argv', 1, optind' - 1)
      <4>1. Exchanged(n, argv, nonopt_start, nonopt_end, optind, argv', optind')
        <5> HIDE DEF n
        <5> QED BY <3>1, <3>2, <3>3, <3>4, ExchangeKeepsOrder
      <4> QED BY <4>1 DEF Exchanged
    <3> QED BY <2>3, <3>1, <3>4, <3>5 DEF Skips
  <2> QED BY <2>1, <2>2, <2>3
<1> QED BY <1>1, <1>4, <1>5, <1>6, DoneIs

\* The word at hand is where it was.
LEMMA AtWord ==
  ASSUME CourseInv, ~done, place = <<>>, optind <= Len(argv)
  PROVE  /\ optind \in 1 .. Len(words) /\ Word = words[optind] /\ words[optind] \in Seq(Chars)
         /\ Rest = ReadFrom[optind][1]
         /\ optind + 1 \in 1 .. Len(words) + 1
         /\ ReadFrom[optind + 1][1] \in Readings /\ ReadFrom[optind][2] \in Readings
         /\ ReadFrom[optind][1] = Follow(optind, 1, ReadFrom[optind][2], ReadFrom[optind + 1][1],
                                     ReadFrom[optind + 2][1])
<1>1. /\ LineOK /\ Len(words) \in Nat /\ optind \in 1 .. Len(words)
      /\ \A p \in optind .. Len(words) : argv[p] = p
  BY Standing
<1>2. argv[optind] = optind /\ Word = words[optind]
  BY <1>1 DEF Word
<1>3. words[optind] \in Seq(Chars)
  BY <1>1, WordTyped
<1>4. Rest = ReadFrom[optind][1]
  BY DEF Rest, At
<1>5. /\ optind \in 1 .. Len(words) + 2 /\ optind + 1 \in 1 .. Len(words) + 2
      /\ optind + 1 \in 1 .. Len(words) + 1 /\ 1 \in Nat \ {0} /\ 2 \in Nat \ {0} /\ 1 + 1 = 2
  BY <1>1
<1>6. ReadFrom[optind + 1][1] \in Readings /\ ReadFrom[optind][2] \in Readings
  BY <1>1, <1>5, ReadAt
<1>7. ReadFrom[optind][1] = Follow(optind, 1, ReadFrom[optind][1 + 1], ReadFrom[optind + 1][1],
                               ReadFrom[optind + 2][1])
  BY <1>1, <1>5, ReadAt
<1> QED BY <1>1, <1>2, <1>3, <1>4, <1>5, <1>6, <1>7

LEMMA InOrderReads ==
  ASSUME CourseInv, ~done, NonOptionInOrder
  PROVE  OrderInv' /\ PlaceInv' /\ ReadInv'
<1>1. /\ place = <<>> /\ optind <= Len(argv) /\ ~IsOption(Word) /\ IN_ORDER
      /\ optind' = optind + 1 /\ returned' = Append(returned, INORDER(Word))
      /\ UNCHANGED <<words, options, argv, place, nonopt_start, nonopt_end>>
  BY DEF NonOptionInOrder, AtNonOption, Scanning, Return
<1>2. LineOK /\ OrderInv /\ ReadInv
  BY Standing
<1>3. nonopt_start = -1
  BY <1>1, <1>2 DEF OrderInv, PERMUTE, IN_ORDER
<1>4. OrderInv' /\ Skips' = Skips
  BY <1>1, <1>2, <1>3, SkipsStay
<1>5. PlaceInv'
  BY <1>1 DEF PlaceInv
<1>6. Rest = Prefix(INORDER(Word), ReadFrom[optind + 1][1])
  <2>1. ~IsOption(words[optind])
    BY <1>1, AtWord
  <2>2. ReadFrom[optind][1] = Prefix(INORDER(words[optind]), ReadFrom[optind + 1][1])
    BY <1>1, <1>2, <2>1, AtWord, ReadOperand
  <2> QED BY <1>1, <2>2, AtWord
<1>7. Rest' = ReadFrom[optind + 1][1]
  BY <1>1, ReadStays DEF Rest, At
<1>8. INORDER(Word) \in Returns /\ ReadFrom[optind + 1][1] \in Readings
  BY <1>1, AtWord, ReturnsTyped
<1>9. ReadInv'
  BY <1>1, <1>2, <1>4, <1>6, <1>7, <1>8, ReturnOne
<1> QED BY <1>4, <1>5, <1>9

LEMMA StopReads ==
  ASSUME CourseInv, ~done, NonOptionStops
  PROVE  DoneInv'
<1> DEFINE n == Len(words)
           own == [x \in 1 .. n - optind + 1 |-> optind + x - 1]
<1>1. /\ place = <<>> /\ optind <= Len(argv) /\ ~IsOption(Word) /\ ~IN_ORDER /\ ~PERMUTE
      /\ UNCHANGED <<words, options, argv, optind, returned>>
  BY DEF NonOptionStops, AtNonOption, Scanning
<1>2. LineOK /\ OrderInv /\ ReadInv /\ n \in Nat /\ Arguments(n, argv) /\ nonopt_start = -1
  BY <1>1, Standing DEF OrderInv
<1>3. optind \in 1 .. n /\ optind \in 1 .. n + 1
  BY <1>1, <1>2, AtWord
<1>4. \A p \in 1 .. n : argv[p] = p
  BY <1>2 DEF OrderInv, Untouched
<1>5. Rest = [opts |-> <<>>, operands |-> own]
  <2>1. ~IsOption(words[optind])
    BY <1>1, AtWord
  <2>2. ReadFrom[optind][1] = [opts |-> <<>>, operands |-> own]
    BY <1>1, <1>2, <2>1, AtWord, ReadOperand
  <2> QED BY <1>1, <2>2, AtWord
<1>6. SubSeq(argv, optind, n) = own /\ SubSeq(argv, optind, n) \in Seq(Nat)
  <2>1. \A p \in optind .. n : argv[p] = p
    BY <1>3, <1>4
  <2>2. n \in optind - 1 .. n
    BY <1>2, <1>3
  <2> QED BY <1>2, <1>3, <2>1, <2>2, OwnPiece, ArgsPieceIs
<1> HIDE DEF own
<1>7. Reading.opts = returned
  BY <1>2, <1>5, NoMoreOptions
<1>8. Reading.operands = own
  <2>1. Skips = <<>> /\ Rest.operands = own
    BY <1>2, <1>5 DEF Skips
  <2>2. <<>> \o own = own
    BY <1>6, ConcatEmptySeq
  <2> QED BY <1>2, <2>1, <2>2 DEF ReadInv
<1>9. Rises(argv, 1, optind - 1)
  BY <1>2, <1>3, <1>4 DEF Rises
<1> QED BY <1>1, <1>6, <1>7, <1>8, <1>9, DoneIs

\* One more word is skipped.
LEMMA SortedGrows ==
  ASSUME NEW n, NEW f, NEW start, NEW end, Sorted(n, f, start, end), end <= n
  PROVE  Sorted(n, f, start, end + 1) /\ SubSeq(f, start, end) = SubSeq(f, start, end - 1) \o <<end>>
<1>1. /\ n \in Nat /\ f \in [1 .. n -> 1 .. n] /\ start \in 1 .. n /\ end \in start + 1 .. n
      /\ Rises(f, 1, start - 1) /\ Rises(f, start, end - 1)
      /\ (\A p \in end .. n : f[p] = p) /\ (\A p \in 1 .. end - 1 : f[p] < end)
  BY DEF Sorted, Arguments
<1>2. f[end] = end
  BY <1>1
<1>3. Rises(f, start, end)
  <2> SUFFICES ASSUME NEW p \in start .. end, NEW q \in start .. end, p < q
               PROVE  f[p] < f[q]
    BY DEF Rises
  <2>1. CASE q = end
    <3>1. p \in 1 .. end - 1
      BY <1>1, <2>1
    <3> QED BY <1>1, <1>2, <2>1, <3>1
  <2>2. CASE q # end
    <3>1. p \in start .. end - 1 /\ q \in start .. end - 1
      BY <1>1, <2>2
    <3> QED BY <1>1, <3>1 DEF Rises
  <2> QED BY <2>1, <2>2
<1>4. \A p \in 1 .. end : f[p] < end + 1
  <2> SUFFICES ASSUME NEW p \in 1 .. end PROVE f[p] < end + 1
    OBVIOUS
  <2>1. CASE p = end
    BY <1>1, <1>2, <2>1
  <2>2. CASE p # end
    <3>1. p \in 1 .. end - 1 /\ f[p] \in Int
      BY <1>1, <2>2
    <3> QED BY <1>1, <3>1
  <2> QED BY <2>1, <2>2
<1>5. Sorted(n, f, start, end + 1)
  <2>1. end + 1 \in start + 1 .. n + 1 /\ (end + 1) - 1 = end
        /\ \A p \in end + 1 .. n : f[p] = p
    BY <1>1
  <2> QED BY <1>1, <1>3, <1>4, <2>1 DEF Sorted, Arguments
<1>6. SubSeq(f, start, end) = SubSeq(f, start, end - 1) \o <<end>>
  <2>1. f \in Seq(Nat) /\ Len(f) = n
    BY <1>1
  <2>2. start \in 1 .. Len(f) /\ end \in start .. Len(f)
    BY <1>1, <2>1
  <2>3. SubSeq(f, start, end) = SubSeq(f, start, end - 1) \o <<f[end]>>
    BY <2>1, <2>2, SubSeqRecursiveSecond
  <2> QED BY <1>2, <2>3
<1> QED BY <1>5, <1>6

LEMMA SkippedReads ==
  ASSUME CourseInv, ~done, NonOptionSkipped
  PROVE  OrderInv' /\ PlaceInv' /\ ReadInv'
<1> DEFINE n == Len(words)
           later == ReadFrom[optind + 1][1]
<1>1. /\ place = <<>> /\ optind <= Len(argv) /\ ~IsOption(Word) /\ PERMUTE
      /\ optind' = optind + 1
      /\ UNCHANGED <<words, options, place, returned>>
  BY DEF NonOptionSkipped, AtNonOption, Scanning
<1>2. /\ LineOK /\ OrderInv /\ ReadInv /\ n \in Nat /\ Arguments(n, argv) /\ optind \in 1 .. n
      /\ Skips \in Seq(Nat) /\ later \in Readings
  BY <1>1, Standing, AtWord
<1>3. PlaceInv'
  BY <1>1 DEF PlaceInv
<1>4. Rest.opts = later.opts /\ Rest.operands = <<optind>> \o later.operands
  <2>1. ~IsOption(words[optind]) /\ ~IN_ORDER
    BY <1>1, AtWord DEF IN_ORDER, PERMUTE
  <2>2. ReadFrom[optind][1] = [later EXCEPT !.operands = <<optind>> \o @]
    <3> DEFINE on == ReadFrom[optind][2]
               over == ReadFrom[optind + 2][1]
    <3>1. ReadFrom[optind][1] = Follow(optind, 1, on, later, over) /\ optind \in 1 .. Len(words)
      BY <1>1, AtWord
    <3> HIDE DEF on, over, later
    <3>2. Follow(optind, 1, on, later, over) = [later EXCEPT !.operands = <<optind>> \o @]
      BY <1>1, <1>2, <2>1, <3>1, ReadOperand
    <3> QED BY <3>1, <3>2
  <2>3. Rest = [later EXCEPT !.operands = <<optind>> \o @]
    BY <1>1, <2>2, AtWord
  <2>4. optind \in Nat
    BY <1>2
  <2> HIDE DEF later
  <2> QED BY <1>2, <2>3, <2>4, OperandTyped
<1>5. Rest' = later
  BY <1>1, ReadStays DEF Rest, At
<1>6. /\ nonopt_start' \in Nat /\ nonopt_end' = -1
      /\ Sorted(n, argv', nonopt_start', optind + 1)
      /\ SubSeq(argv', nonopt_start', optind) = Skips \o <<optind>>
  <2>1. CASE nonopt_start = -1
    <3>1. nonopt_end = -1
      BY <2>1, Standing
    <3>2. argv' = argv /\ nonopt_start' = optind /\ nonopt_end' = -1
      BY <2>1, <3>1 DEF NonOptionSkipped
    <3>3. \A p \in 1 .. n : argv[p] = p
      BY <1>2, <2>1 DEF OrderInv, Untouched
    <3>4. Sorted(n, argv, optind, optind + 1)
      BY <1>2, <3>3 DEF Sorted, Rises
    <3>5. SubSeq(argv, optind, optind) = <<optind>>
      <4>1. argv \in Seq(Nat) /\ Len(argv) = n
        BY <1>2 DEF Arguments
      <4>2. optind \in 1 .. Len(argv) /\ optind \in optind .. Len(argv)
        BY <1>2, <4>1
      <4>3. SubSeq(argv, optind, optind) = SubSeq(argv, optind, optind - 1) \o <<argv[optind]>>
        BY <4>1, <4>2, SubSeqRecursiveSecond
      <4>4. SubSeq(argv, optind, optind - 1) = <<>>
        BY <4>2, SubSeqEmpty
      <4>5. <<>> \o <<optind>> = <<optind>>
        OBVIOUS
      <4> QED BY <1>2, <3>3, <4>3, <4>4, <4>5
    <3>6. Skips \o <<optind>> = <<optind>>
      BY <1>2, <2>1 DEF Skips
    <3>7. optind \in Nat
      BY <1>2
    <3>8. /\ nonopt_start' = optind /\ nonopt_end' = -1
          /\ argv' = argv
      BY <3>2
    <3>9. Sorted(n, argv', nonopt_start', optind + 1)
      BY ONLY <3>4, <3>8
    <3>10. SubSeq(argv', nonopt_start', optind) = Skips \o <<optind>>
      BY ONLY <3>5, <3>6, <3>8
    <3> QED BY <3>7, <3>8, <3>9, <3>10
  <2>2. CASE nonopt_start # -1 /\ nonopt_end = -1
    <3>1. argv' = argv /\ nonopt_start' = nonopt_start /\ nonopt_end' = -1
      BY <2>2 DEF NonOptionSkipped
    <3>2. SkipEnd = optind
      BY <2>2 DEF SkipEnd
    <3>3. Sorted(n, argv, nonopt_start, optind)
      BY <1>2, <2>2, <3>2 DEF OrderInv
    <3>4. optind <= n /\ nonopt_start \in Nat
      BY <1>2, <3>3 DEF Sorted
    <3>5. Skips = SubSeq(argv, nonopt_start, optind - 1)
      BY <2>2, <3>2 DEF Skips
    <3> HIDE DEF n
    <3> QED BY <3>1, <3>3, <3>4, <3>5, SortedGrows
  <2>3. CASE nonopt_start # -1 /\ nonopt_end # -1
    <3>1. SkipEnd = nonopt_end /\ Sorted(n, argv, nonopt_start, nonopt_end)
      BY <1>2, <2>3 DEF OrderInv, SkipEnd
    <3>2. argv' = Permuted(nonopt_start, nonopt_end, optind, argv)
          /\ nonopt_start' = optind - (nonopt_end - nonopt_start) /\ nonopt_end' = -1
      BY <2>3 DEF NonOptionSkipped, permute_args, Skipped
    <3>3. optind \in nonopt_end + 1 .. n + 1 /\ nonopt_end \in Int /\ nonopt_start \in Int
          /\ nonopt_start >= 1
      BY <1>1, <1>2, <2>3, <3>1, Standing
    <3>4. nonopt_start' = nonopt_start + (optind - nonopt_end) /\ optind <= n
          /\ nonopt_start' \in Nat
      BY <1>2, <3>2, <3>3
    <3>5. Exchanged(n, argv, nonopt_start, nonopt_end, optind, argv', nonopt_start')
      <4> HIDE DEF n
      <4> QED BY <3>1, <3>2, <3>3, <3>4, ExchangeKeepsOrder
    <3>6. Skips = SubSeq(argv, nonopt_start, nonopt_end - 1)
      BY <2>3, <3>1 DEF Skips
    <3> HIDE DEF n
    <3>7. Sorted(n, argv', nonopt_start', optind)
          /\ SubSeq(argv', nonopt_start', optind - 1) = Skips
      BY <3>5, <3>6 DEF Exchanged
    <3>8. /\ Sorted(n, argv', nonopt_start', optind + 1)
          /\ SubSeq(argv', nonopt_start', optind)
               = SubSeq(argv', nonopt_start', optind - 1) \o <<optind>>
      BY <3>4, <3>7, SortedGrows
    <3> QED BY <3>2, <3>4, <3>7, <3>8
  <2> QED BY <2>1, <2>2, <2>3
<1>7. SkipEnd' = optind + 1 /\ nonopt_start' # -1
  BY <1>1, <1>6 DEF SkipEnd
<1>8. OrderInv'
  <2>1. PERMUTE'
    BY <1>1 DEF PERMUTE
  <2>2. place' = <<>>
    BY <1>1
  <2>3. Sorted(Len(words), argv, nonopt_start, SkipEnd)'
    BY <1>1, <1>6, <1>7 DEF Sorted, Rises, Arguments
  <2> QED BY <1>7, <2>1, <2>2, <2>3 DEF OrderInv
<1>9. Skips' = Skips \o <<optind>>
  <2>1. (optind + 1) - 1 = optind
    BY <1>2
  <2> QED BY <1>6, <1>7, <2>1 DEF Skips
<1>10. ReadInv'
  <2> DEFINE t == <<optind>>
             u == later.operands
  <2>1. t \in Seq(Nat) /\ u \in Seq(Nat)
    BY <1>2 DEF Readings
  <2> HIDE DEF t, u
  <2>2. (Skips \o t) \o u = Skips \o (t \o u)
    BY <1>2, <2>1, ConcatAssociative
  <2>3. Reading.operands = Skips' \o later.operands
    BY <1>2, <1>4, <1>9, <2>2 DEF ReadInv, t, u
  <2>4. Reading' = Reading
    BY <1>1, ReadStays DEF Reading
  <2>5. Reading.opts = returned' \o later.opts /\ returned' \in Seq(Returns)
    BY <1>1, <1>2, <1>4 DEF ReadInv
  <2> HIDE DEF later
  <2> QED BY <1>5, <2>3, <2>4, <2>5 DEF ReadInv
<1> QED BY <1>3, <1>8, <1>10

LEMMA DashesRead ==
  ASSUME CourseInv, ~done, DashDash
  PROVE  DoneInv'
<1> DEFINE n == Len(words)
           own == [x \in 1 .. n - (optind + 1) + 1 |-> (optind + 1) + x - 1]
<1>1. /\ place = <<>> /\ optind <= Len(argv) /\ IsOption(Word) /\ Word[2] = "-"
      /\ UNCHANGED <<words, options, returned>>
  BY DEF DashDash, AtOption, Scanning
<1>2. /\ LineOK /\ OrderInv /\ ReadInv /\ n \in Nat /\ Arguments(n, argv)
      /\ optind \in 1 .. n /\ optind + 1 \in 1 .. n + 1 /\ Skips \in Seq(Nat)
  BY <1>1, Standing, AtWord
<1>3. Rest = [opts |-> <<>>, operands |-> own]
  <2> DEFINE on == ReadFrom[optind][2]
             next == ReadFrom[optind + 1][1]
             over == ReadFrom[optind + 2][1]
  <2>1. /\ ReadFrom[optind][1] = Follow(optind, 1, on, next, over) /\ optind \in 1 .. Len(words)
        /\ IsOption(words[optind]) /\ words[optind][2] = "-" /\ Rest = ReadFrom[optind][1]
    BY <1>1, AtWord
  <2> HIDE DEF on, next, over
  <2>2. Follow(optind, 1, on, next, over) = [opts |-> <<>>, operands |-> own]
    BY <1>2, <2>1, ReadOption
  <2> QED BY <2>1, <2>2
<1>4. Reading.opts = returned
  BY <1>2, <1>3, NoMoreOptions
<1>5. Reading.operands = Skips \o own
  BY <1>2, <1>3 DEF ReadInv
<1>6. Rises(argv', 1, optind' - 1) /\ SubSeq(argv', optind', n) = Skips \o own
  <2>1. CASE nonopt_start = -1
    <3>1. nonopt_end = -1
      BY <2>1, Standing
    <3>2. argv' = argv /\ optind' = optind + 1
      BY <2>1, <3>1 DEF DashDash, OptionsBegin
    <3>3. \A p \in 1 .. n : argv[p] = p
      BY <1>2, <2>1 DEF OrderInv, Untouched
    <3>4. Rises(argv', 1, optind' - 1)
      BY <1>2, <3>2, <3>3 DEF Rises
    <3>5. SubSeq(argv, optind + 1, n) = own /\ own \in Seq(Nat)
      <4>1. \A p \in optind + 1 .. n : argv[p] = p
        BY <1>2, <3>3
      <4>2. n \in (optind + 1) - 1 .. n
        BY <1>2
      <4> QED BY <1>2, <4>1, <4>2, OwnPiece, ArgsPieceIs
    <3> HIDE DEF own
    <3>6. Skips \o own = own
      BY <2>1, <3>5, ConcatEmptySeq DEF Skips
    <3> QED BY <3>2, <3>4, <3>5, <3>6
  <2>2. CASE nonopt_start # -1
    <3>1. OptionsBegin = SkipEnd /\ Sorted(n, argv, nonopt_start, SkipEnd)
      BY <1>2, <2>2 DEF OrderInv, SkipEnd, OptionsBegin
    <3>2. SkipEnd \in 2 .. optind /\ nonopt_start \in Int /\ SkipEnd \in Int
      BY <1>2, <2>2, Standing
    <3>3. argv' = Permuted(nonopt_start, SkipEnd, optind + 1, argv)
          /\ optind' = optind + 1 - (SkipEnd - nonopt_start)
      BY <1>2, <3>1, <3>2 DEF DashDash
    <3>4. optind' = nonopt_start + ((optind + 1) - SkipEnd) /\ (optind + 1) - 1 = optind
          /\ optind + 1 \in SkipEnd + 1 .. n + 1
      BY <1>2, <3>2, <3>3
    <3>5. Exchanged(n, argv, nonopt_start, SkipEnd, optind + 1, argv', optind')
      <4> HIDE DEF n
      <4> QED BY <3>1, <3>3, <3>4, ExchangeKeepsOrder
    <3>6. /\ Rises(argv', 1, optind' - 1) /\ Arguments(n, argv')
          /\ SubSeq(argv', optind', optind) = SubSeq(argv, nonopt_start, SkipEnd - 1)
          /\ \A p \in optind + 1 .. n : argv'[p] = p
          /\ optind' \in 1 .. n /\ optind' <= optind
      BY <3>2, <3>4, <3>5, <1>2 DEF Exchanged, Sorted
    <3>7. SubSeq(argv', optind', optind) = Skips
      BY <2>2, <3>6 DEF Skips
    <3>8. SubSeq(argv', optind + 1, n) = own
      BY <1>2, <3>6, OwnPiece
    <3>9. SubSeq(argv', optind', optind) \o SubSeq(argv', optind + 1, n) = SubSeq(argv', optind', n)
      <4> DEFINE f == argv'
                 a == optind'
      <4>0. f \in [1 .. n -> 1 .. n] /\ a \in 1 .. n /\ a <= optind /\ n \in Nat
        BY <1>2, <3>6 DEF Arguments
      <4> HIDE DEF f, a, n
      <4>1. f \in Seq(Nat) /\ Len(f) = n
        BY <4>0
      <4>2. a \in 1 .. Len(f) + 1 /\ optind \in a - 1 .. Len(f) /\ n \in optind .. Len(f)
        BY <1>2, <4>0, <4>1 DEF n
      <4>3. SubSeq(f, a, optind) \o SubSeq(f, optind + 1, n) = SubSeq(f, a, n)
        BY <4>1, <4>2, ConcatAdjacentSubSeq
      <4> QED BY <4>3 DEF f, a
    <3> QED BY <3>6, <3>7, <3>8, <3>9
  <2> QED BY <2>1, <2>2
<1> HIDE DEF own
<1> QED BY <1>1, <1>4, <1>5, <1>6, DoneIs

LEMMA TailOfWord ==
  ASSUME NEW w \in Seq(Chars), Len(w) > 1
  PROVE  Tail(w) = SubSeq(w, 2, Len(w)) /\ Len(Tail(w)) = Len(w) - 1 /\ Tail(w) # <<>>
<1>1. w # <<>> /\ Len(w) \in Nat
  OBVIOUS
<1>2. Tail(w) = SubSeq(w, 2, Len(w))
  BY <1>1, TailIsSubSeq
<1>3. Len(Tail(w)) = Len(w) - 1
  BY <1>1, HeadTailProperties
<1>4. Tail(w) # <<>>
  <2> DEFINE t == Tail(w)
  <2>1. Len(t) = Len(w) - 1
    BY <1>3
  <2>2. Len(t) # 0
    BY <1>1, <2>1
  <2> HIDE DEF t
  <2>3. t # <<>>
    BY <2>2
  <2> QED BY <2>3 DEF t
<1> QED BY <1>2, <1>3, <1>4

LEMMA LettersRead ==
  ASSUME CourseInv, ~done, Letters
  PROVE  OrderInv' /\ PlaceInv' /\ ReadInv'
<1> DEFINE w == words[optind]
<1>1. /\ place = <<>> /\ optind <= Len(argv) /\ IsOption(Word) /\ Word[2] # "-"
      /\ nonopt_end' = OptionsBegin /\ place' = Tail(Word)
      /\ UNCHANGED <<words, options, argv, optind, nonopt_start, returned>>
  BY DEF Letters, AtOption, Scanning
<1>2. /\ LineOK /\ OrderInv /\ ReadInv /\ Len(words) \in Nat
      /\ optind \in 1 .. Len(words) /\ w \in Seq(Chars) /\ Word = w
  BY <1>1, Standing, AtWord
<1>3. Len(w) \in Nat /\ Len(w) > 1
  BY <1>1, <1>2 DEF IsOption
<1>4. /\ place' = SubSeq(w, 2, Len(w)) /\ Len(place') = Len(w) - 1 /\ place' # <<>>
  <2> HIDE DEF w
  <2>1. /\ Tail(w) = SubSeq(w, 2, Len(w)) /\ Len(Tail(w)) = Len(w) - 1 /\ Tail(w) # <<>>
    BY <1>2, <1>3, TailOfWord
  <2> QED BY <1>1, <1>2, <2>1
<1>5. At' = 2
  BY <1>1, <1>3, <1>4 DEF At
<1>6. PlaceInv'
  <2>1. words'[optind'] = w /\ 2 \in 2 .. Len(w)
    BY <1>1, <1>3
  <2> HIDE DEF w
  <2> QED BY <1>4, <1>5, <2>1 DEF PlaceInv
<1>7. Rest = ReadFrom[optind][2]
  <2> DEFINE on == ReadFrom[optind][2]
             next == ReadFrom[optind + 1][1]
             over == ReadFrom[optind + 2][1]
  <2>1. /\ ReadFrom[optind][1] = Follow(optind, 1, on, next, over) /\ optind \in 1 .. Len(words)
        /\ IsOption(words[optind]) /\ words[optind][2] # "-" /\ Rest = ReadFrom[optind][1]
    BY <1>1, AtWord
  <2> HIDE DEF on, next, over
  <2>2. Follow(optind, 1, on, next, over) = on
    BY <1>2, <2>1, ReadOption
  <2> QED BY <2>1, <2>2 DEF on
<1>8. Rest' = Rest
  BY <1>1, <1>5, <1>7, ReadStays DEF Rest
<1>9. OrderInv' /\ Skips' = Skips
  <2>1. nonopt_start # -1 => nonopt_end' # -1 /\ SkipEnd' = SkipEnd
    <3>1. optind # -1 /\ optind' = optind
      BY <1>1, <1>2
    <3>2. nonopt_end' = OptionsBegin
      BY <1>1
    <3> QED BY <3>1, <3>2 DEF SkipEnd, OptionsBegin
  <2> QED BY <1>1, <1>2, <2>1, SkipsStay
<1>10. Reading' = Reading
  BY <1>1, ReadStays DEF Reading
<1> QED BY <1>1, <1>2, <1>6, <1>8, <1>9, <1>10 DEF ReadInv

\* The letter at hand.
LEMMA AtTheLetter ==
  ASSUME CourseInv, ~done, place # <<>>
  PROVE  LET w == words[optind]
         IN /\ optind \in 1 .. Len(words) /\ w \in Seq(Chars) /\ At \in 2 .. Len(w)
            /\ Head(place) = w[At] /\ w[At] \in Chars
            /\ Tail(place) = SubSeq(w, At + 1, Len(w))
            /\ Tail(place) \in Seq(Chars) /\ Len(Tail(place)) = Len(w) - At
            /\ Len(w) \in Nat
<1> DEFINE w == words[optind]
<1>1. /\ LineOK /\ PlaceInv /\ Len(words) \in Nat /\ optind \in 1 .. Len(words) + 1
      /\ optind <= Len(words)
  BY Standing DEF CourseInv, ParserInv
<1>2. optind \in 1 .. Len(words)
  BY <1>1
<1>3. w \in Seq(Chars) /\ Len(w) \in Nat
  BY <1>1, <1>2, WordTyped
<1>4. At \in 2 .. Len(w) /\ place = SubSeq(w, At, Len(w))
  BY <1>1 DEF PlaceInv
<1> HIDE DEF w
<1>5. At \in 1 .. Len(w) /\ Len(w) \in At .. Len(w)
  BY <1>3, <1>4
<1>6. Head(place) = w[At] /\ Tail(place) = SubSeq(w, At + 1, Len(w))
  BY <1>3, <1>4, <1>5, HeadTailOfSubSeq
<1>7. /\ SubSeq(w, At + 1, Len(w)) \in Seq(Chars)
      /\ Len(SubSeq(w, At + 1, Len(w))) = Len(w) - At /\ w[At] \in Chars
  BY <1>3, <1>5, RestTyped
<1> QED BY <1>2, <1>3, <1>4, <1>6, <1>7 DEF w

\* What is to come from it on.
LEMMA RestReads ==
  ASSUME CourseInv, ~done, place # <<>>
  PROVE  /\ LetterReads(Rest, Head(place), Tail(place), optind, ReadFrom[optind][At + 1],
                        ReadFrom[optind + 1][1], ReadFrom[optind + 2][1])
         /\ ReadFrom[optind][At + 1] \in Readings /\ ReadFrom[optind + 1][1] \in Readings
         /\ ReadFrom[optind + 2][1] \in Readings
<1> DEFINE on == ReadFrom[optind][At + 1]
           next == ReadFrom[optind + 1][1]
           over == ReadFrom[optind + 2][1]
<1>1. LineOK /\ Len(words) \in Nat /\ optind \in 1 .. Len(words)
      /\ At \in 2 .. Len(words[optind])
      /\ Head(place) = words[optind][At]
      /\ Tail(place) = SubSeq(words[optind], At + 1, Len(words[optind]))
  BY Standing, AtTheLetter
<1>2. /\ optind \in 1 .. Len(words) + 2 /\ optind + 1 \in 1 .. Len(words) + 2
      /\ optind + 2 \in 1 .. Len(words) + 2
      /\ At \in Nat \ {0} /\ At + 1 \in Nat \ {0} /\ 1 \in Nat \ {0}
  BY <1>1
<1>3. on \in Readings /\ next \in Readings /\ over \in Readings
  BY <1>1, <1>2, ReadAt
<1>4. ReadFrom[optind][At] = Follow(optind, At, on, next, over)
  BY <1>1, <1>2, ReadAt
<1> HIDE DEF on, next, over
<1>5. LetterReads(Follow(optind, At, on, next, over), words[optind][At],
                  SubSeq(words[optind], At + 1, Len(words[optind])), optind, on, next, over)
  BY <1>1, ReadLetter
<1>6. LetterReads(Rest, Head(place), Tail(place), optind, on, next, over)
  BY <1>1, <1>4, <1>5 DEF Rest
<1> QED BY <1>3, <1>6 DEF on, next, over

LEMMA PlainReads ==
  ASSUME CourseInv, ~done, PlainLetter
  PROVE  OrderInv' /\ PlaceInv' /\ ReadInv'
<1> DEFINE w == words[optind]
           on == ReadFrom[optind][At + 1]
           c == Head(place)
           r == IF Takes(c) = "unknown" THEN BADCH ELSE [ret |-> c, optarg |-> NoArg]
<1>1. /\ place # <<>> /\ Takes(c) \in {"unknown", "no"} /\ place' = Tail(place)
      /\ optind' = IF Tail(place) = <<>> THEN optind + 1 ELSE optind
      /\ returned' = Append(returned, r)
      /\ UNCHANGED <<words, options, argv, nonopt_start, nonopt_end>>
  BY DEF PlainLetter, AtLetter, NextWordIf, Return
<1>2. /\ LineOK /\ OrderInv /\ ReadInv /\ Len(words) \in Nat
      /\ optind \in 1 .. Len(words) /\ w \in Seq(Chars) /\ At \in 2 .. Len(w) /\ c \in Chars
      /\ place' = SubSeq(w, At + 1, Len(w)) /\ Len(place') = Len(w) - At /\ Len(w) \in Nat
  BY <1>1, Standing, AtTheLetter
<1>3. OrderInv' /\ Skips' = Skips
  <2>1. nonopt_start # -1 => nonopt_end' # -1 /\ SkipEnd' = SkipEnd
    BY <1>1, <1>2 DEF SkipEnd, OrderInv
  <2> QED BY <1>1, <1>2, <2>1, SkipsStay
<1>4. Rest = Prefix(r, on) /\ on \in Readings
  BY <1>1, RestReads DEF LetterReads
<1>5. r \in Returns
  BY <1>2, ReturnsTyped
<1> HIDE DEF r, c
<1>6. PlaceInv' /\ Rest' = on
  <2>1. CASE place' = <<>>
    <3>1. At = Len(w) /\ optind' = optind + 1 /\ At' = 1
      BY <1>1, <1>2, <2>1 DEF At
    <3>2. Rest' = ReadFrom[optind + 1][1]
      BY <1>1, <3>1, ReadStays DEF Rest
    <3> DEFINE next == ReadFrom[optind + 1][1]
               over == ReadFrom[optind + 2][1]
               on2 == ReadFrom[optind][(At + 1) + 1]
               k == At + 1
    <3>3. optind \in 1 .. Len(words) + 2 /\ k \in Nat \ {0} /\ k \in Nat /\ k > 1
          /\ k > Len(words[optind])
      BY <1>2, <3>1
    <3>4. ReadFrom[optind][k] = Follow(optind, k, on2, next, over)
      BY <1>2, <3>3, ReadAt
    <3> HIDE DEF next, over, on2, k
    <3>5. Follow(optind, k, on2, next, over) = next
      BY <1>2, <3>3, ReadPast
    <3>6. on = next
      BY <3>4, <3>5 DEF k
    <3> QED BY <2>1, <3>2, <3>6 DEF PlaceInv, next
  <2>2. CASE place' # <<>>
    <3>1. optind' = optind /\ At' = At + 1
      BY <1>1, <1>2, <2>2 DEF At
    <3>2. At + 1 \in 2 .. Len(w)
      <4>1. Len(place') # 0
        BY <1>2, <2>2
      <4> QED BY <1>2, <4>1
    <3>3. Rest' = on
      BY <1>1, <3>1, ReadStays DEF Rest
    <3>4. PlaceInv'
      BY <1>1, <1>2, <3>1, <3>2 DEF PlaceInv
    <3> QED BY <3>3, <3>4
  <2> QED BY <2>1, <2>2
<1> HIDE DEF on
<1>7. ReadInv'
  BY <1>1, <1>2, <1>3, <1>4, <1>5, <1>6, ReturnOne
<1> QED BY <1>3, <1>6, <1>7

LEMMA ArgReads ==
  ASSUME CourseInv, ~done, LetterWithArg
  PROVE  OrderInv' /\ PlaceInv' /\ ReadInv'
<1> DEFINE next == ReadFrom[optind + 1][1]
           over == ReadFrom[optind + 2][1]
           c == Head(place)
           rest == Tail(place)
           arg(a) == [ret |-> c, optarg |-> a]
<1>1. /\ place # <<>> /\ Takes(c) \in {"yes", "maybe"} /\ place' = <<>>
      /\ UNCHANGED <<words, options, argv, nonopt_start, nonopt_end>>
  BY DEF LetterWithArg, AtLetter
<1>2. /\ LineOK /\ OrderInv /\ ReadInv /\ Len(words) \in Nat /\ Len(argv) = Len(words)
      /\ optind \in 1 .. Len(words) /\ c \in Chars /\ rest \in Seq(Chars)
      /\ \A p \in optind .. Len(words) : argv[p] = p
  BY <1>1, Standing, AtTheLetter
<1>3. OrderInv' /\ Skips' = Skips
  <2>1. nonopt_start # -1 => nonopt_end' # -1 /\ SkipEnd' = SkipEnd
    BY <1>1, <1>2 DEF SkipEnd, OrderInv
  <2> QED BY <1>1, <1>2, <2>1, SkipsStay
<1>4. PlaceInv' /\ At' = 1
  BY <1>1 DEF PlaceInv, At
<1>5. next \in Readings /\ over \in Readings
  BY <1>1, RestReads
<1>6. optind' = optind + 1 => Rest' = next
  BY <1>1, <1>4, ReadStays DEF Rest
<1>7. optind' = optind + 2 => Rest' = over
  BY <1>1, <1>4, ReadStays DEF Rest
<1>8. /\ rest # <<>> => Rest = Prefix(arg(rest), next)
      /\ Takes(c) = "maybe" /\ rest = <<>> => Rest = Prefix(arg(NoArg), next)
      /\ Takes(c) = "yes" /\ rest = <<>> =>
           Rest = IF optind = Len(words) THEN Prefix(BADARG, next)
                  ELSE Prefix(arg(words[optind + 1]), over)
  BY <1>1, RestReads DEF LetterReads
<1>9. /\ arg(rest) \in Returns /\ arg(NoArg) \in Returns /\ BADARG \in Returns
      /\ optind # Len(words) => arg(words[optind + 1]) \in Returns
                                /\ argv[optind + 1] = optind + 1
  <2>1. arg(rest) \in Returns /\ arg(NoArg) \in Returns /\ BADARG \in Returns
    BY <1>2, ReturnsTyped
  <2>2. ASSUME optind # Len(words)
        PROVE  arg(words[optind + 1]) \in Returns /\ argv[optind + 1] = optind + 1
    <3>1. optind + 1 \in 1 .. Len(words) /\ optind + 1 \in optind .. Len(words)
      BY <1>2, <2>2
    <3>2. words[optind + 1] \in Seq(Chars)
      BY <1>2, <3>1, WordTyped
    <3> QED BY <1>2, <3>1, <3>2, ReturnsTyped
  <2> QED BY <2>1, <2>2
<1>10. \/ /\ rest # <<>> /\ returned' = Append(returned, arg(rest)) /\ optind' = optind + 1
       \/ /\ rest = <<>> /\ Takes(c) = "maybe" /\ returned' = Append(returned, arg(NoArg))
          /\ optind' = optind + 1
       \/ /\ rest = <<>> /\ Takes(c) = "yes" /\ optind = Len(words)
          /\ returned' = Append(returned, BADARG) /\ optind' = optind + 1
       \/ /\ rest = <<>> /\ Takes(c) = "yes" /\ optind # Len(words)
          /\ returned' = Append(returned, arg(words[argv[optind + 1]]))
          /\ optind' = optind + 2
  BY <1>2 DEF LetterWithArg, Return
<1>11. \E r \in Returns, later \in Readings :
          Rest = Prefix(r, later) /\ returned' = Append(returned, r) /\ Rest' = later
  <2> HIDE DEF next, over, c, rest, arg
  <2>1. CASE rest # <<>> /\ returned' = Append(returned, arg(rest)) /\ optind' = optind + 1
    BY <1>5, <1>6, <1>8, <1>9, <2>1
  <2>2. CASE /\ rest = <<>> /\ Takes(c) = "maybe"
             /\ returned' = Append(returned, arg(NoArg)) /\ optind' = optind + 1
    BY <1>5, <1>6, <1>8, <1>9, <2>2
  <2>3. CASE /\ rest = <<>> /\ Takes(c) = "yes" /\ optind = Len(words)
             /\ returned' = Append(returned, BADARG) /\ optind' = optind + 1
    BY <1>5, <1>6, <1>8, <1>9, <2>3
  <2>4. CASE /\ rest = <<>> /\ Takes(c) = "yes" /\ optind # Len(words)
             /\ returned' = Append(returned, arg(words[argv[optind + 1]]))
             /\ optind' = optind + 2
    BY <1>5, <1>7, <1>8, <1>9, <2>4
  <2> QED BY <1>10, <2>1, <2>2, <2>3, <2>4
<1>12. ReadInv'
  BY <1>1, <1>2, <1>3, <1>11, ReturnOne
<1> QED BY <1>3, <1>4, <1>12

-----------------------------------------------------------------------------
LEMMA CourseInitInv == GetOptInit => CourseInv
<1> SUFFICES ASSUME GetOptInit PROVE CourseInv
  OBVIOUS
<1>1. PICK l \in Lines, o \in OptStrings : GetOptStart(l, o)
  BY DEF GetOptInit
<1>2. /\ words = l /\ options = o /\ argv = [i \in 1 .. Len(words) |-> i]
      /\ optind = 1 /\ place = <<>> /\ nonopt_start = -1 /\ nonopt_end = -1
      /\ returned = <<>> /\ done = FALSE
  BY <1>1 DEF GetOptStart
<1>3. LineOK
  BY <1>2, GetOptAssumption DEF LineOK
<1>4. ParserInv
  BY ParserInitInv
<1>5. OrderInv /\ PlaceInv
  BY <1>2 DEF OrderInv, PlaceInv, Untouched
<1>6. ReadInv
  <2> DEFINE r == ReadFrom[1][1]
  <2>1. 1 \in 1 .. Len(words) + 2 /\ 1 \in Nat \ {0}
    BY <1>3 DEF LineOK
  <2>2. r \in Readings
    BY <1>3, <2>1, ReadAt
  <2>3. Rest = r /\ Reading = r /\ Skips = <<>>
    BY <1>2 DEF Rest, At, Reading, Skips
  <2> HIDE DEF r
  <2>4. r.opts \in Seq(Returns) /\ r.operands \in Seq(Nat)
    BY <2>2 DEF Readings
  <2>5. <<>> \o r.opts = r.opts /\ <<>> \o r.operands = r.operands
    BY <2>4, ConcatEmptySeq
  <2>6. <<>> \in Seq(Returns)
    OBVIOUS
  <2> QED BY <1>2, <2>3, <2>5, <2>6 DEF ReadInv
<1> QED BY <1>2, <1>3, <1>4, <1>5, <1>6 DEF CourseInv

\* The options, and where the parser stands, when nothing happens.
LEMMA CourseStays ==
  ASSUME CourseInv, ParserInv', UNCHANGED getoptVars
  PROVE  CourseInv'
<1>1. /\ UNCHANGED <<words, options, argv, optind, place, nonopt_start, nonopt_end>>
      /\ UNCHANGED <<returned, done>>
  BY DEF getoptVars
<1>2. ReadFrom' = ReadFrom
  BY <1>1, ReadStays
<1>3. At' = At
  BY <1>1 DEF At
<1>4. Rest' = Rest /\ Reading' = Reading
  BY <1>1, <1>2, <1>3 DEF Rest, Reading
<1>5. SkipEnd' = SkipEnd /\ Skips' = Skips
  BY <1>1 DEF SkipEnd, Skips
<1>6. LineOK' <=> LineOK
  BY <1>1 DEF LineOK
<1>7. OrderInv' <=> OrderInv
  BY <1>1, <1>5 DEF OrderInv, Untouched, PERMUTE, Sorted, Rises, Arguments
<1>8. PlaceInv' <=> PlaceInv
  BY <1>1, <1>3 DEF PlaceInv
<1>9. ReadInv' <=> ReadInv
  BY <1>1, <1>4, <1>5 DEF ReadInv
<1>10. DoneInv' <=> DoneInv
  BY <1>1, <1>4 DEF DoneInv, Rises
<1> QED BY <1>1, <1>6, <1>7, <1>8, <1>9, <1>10 DEF CourseInv

LEMMA CourseStep == CourseInv /\ [GetOptNext]_getoptVars => CourseInv'
<1> SUFFICES ASSUME CourseInv, [GetOptNext]_getoptVars PROVE CourseInv'
  OBVIOUS
<1>1. ParserInv'
  BY ParserStep DEF CourseInv
<1>2. ASSUME UNCHANGED <<words, options>> PROVE LineOK'
  BY <1>2 DEF CourseInv, LineOK
<1>3. CASE EndOfArgs
  <2>1. ~done /\ done' /\ UNCHANGED <<words, options>>
    BY <1>3 DEF EndOfArgs, Scanning
  <2> QED BY <1>1, <1>2, <1>3, <2>1, EndReads DEF CourseInv
<1>4. CASE NonOptionInOrder
  <2>1. ~done /\ ~done' /\ UNCHANGED <<words, options>>
    BY <1>4 DEF NonOptionInOrder, AtNonOption, Scanning
  <2> QED BY <1>1, <1>2, <1>4, <2>1, InOrderReads DEF CourseInv
<1>5. CASE NonOptionStops
  <2>1. ~done /\ done' /\ UNCHANGED <<words, options>>
    BY <1>5 DEF NonOptionStops, AtNonOption, Scanning
  <2> QED BY <1>1, <1>2, <1>5, <2>1, StopReads DEF CourseInv
<1>6. CASE NonOptionSkipped
  <2>1. ~done /\ ~done' /\ UNCHANGED <<words, options>>
    BY <1>6 DEF NonOptionSkipped, AtNonOption, Scanning
  <2> QED BY <1>1, <1>2, <1>6, <2>1, SkippedReads DEF CourseInv
<1>7. CASE DashDash
  <2>1. ~done /\ done' /\ UNCHANGED <<words, options>>
    BY <1>7 DEF DashDash, AtOption, Scanning
  <2> QED BY <1>1, <1>2, <1>7, <2>1, DashesRead DEF CourseInv
<1>8. CASE Letters
  <2>1. ~done /\ ~done' /\ UNCHANGED <<words, options>>
    BY <1>8 DEF Letters, AtOption, Scanning
  <2> QED BY <1>1, <1>2, <1>8, <2>1, LettersRead DEF CourseInv
<1>9. CASE PlainLetter
  <2>1. ~done /\ ~done' /\ UNCHANGED <<words, options>>
    BY <1>9 DEF PlainLetter, AtLetter
  <2> QED BY <1>1, <1>2, <1>9, <2>1, PlainReads DEF CourseInv
<1>10. CASE LetterWithArg
  <2>1. ~done /\ ~done' /\ UNCHANGED <<words, options>>
    BY <1>10 DEF LetterWithArg, AtLetter
  <2> QED BY <1>1, <1>2, <1>10, <2>1, ArgReads DEF CourseInv
<1>11. CASE UNCHANGED getoptVars
  BY <1>1, <1>11, CourseStays
<1> QED BY <1>3, <1>4, <1>5, <1>6, <1>7, <1>8, <1>9, <1>10, <1>11 DEF GetOptNext

LEMMA CourseHolds == GetOptSpec => []CourseInv
BY CourseInitInv, CourseStep, PTL DEF GetOptSpec

LEMMA CourseEnds == CourseInv => ParseExact
<1> SUFFICES ASSUME CourseInv, done PROVE ParseExact
  BY DEF ParseExact
<1> DEFINE n == Len(words)
           s == SubSeq(argv, 1, optind - 1)
<1>1. DoneInv /\ WordsInv /\ n \in Nat /\ optind \in 1 .. n + 1
  <2>1. DoneInv /\ LineOK /\ ParserInv
    BY DEF CourseInv
  <2>2. n \in Nat
    BY <2>1 DEF LineOK
  <2> QED BY <2>1, <2>2 DEF ParserInv
<1>2. Arguments(n, argv)
  BY <1>1 DEF WordsInv, Arguments
<1>3. Len(argv) = n /\ DOMAIN argv = 1 .. n
  <2>1. argv \in [1 .. n -> 1 .. n] /\ n \in Nat
    BY <1>1, <1>2 DEF Arguments
  <2> HIDE DEF n
  <2> QED BY <2>1
<1>4. returned = Reading.opts /\ SubSeq(argv, optind, Len(argv)) = Reading.operands
  BY <1>1, <1>3 DEF DoneInv
<1>5. Increasing(s)
  <2>1. 1 \in 1 .. n + 1 /\ optind - 1 \in 1 - 1 .. n
    BY <1>1
  <2>2. /\ s \in Seq(Nat) /\ Len(s) = optind - 1
        /\ \A j \in 1 .. optind - 1 : s[j] = argv[j]
    <3>1. /\ SubSeq(argv, 1, optind - 1) \in Seq(Nat)
          /\ Len(SubSeq(argv, 1, optind - 1)) = (optind - 1) - 1 + 1
          /\ \A j \in 1 .. (optind - 1) - 1 + 1 : SubSeq(argv, 1, optind - 1)[j] = argv[1 + j - 1]
      <4> HIDE DEF n
      <4> QED BY <1>2, <2>1, ArgsPieceIs
    <3>2. (optind - 1) - 1 + 1 = optind - 1 /\ \A j \in 1 .. optind - 1 : 1 + j - 1 = j
      BY <1>1
    <3> HIDE DEF n
    <3> QED BY <3>1, <3>2
  <2> HIDE DEF s
  <2>3. DOMAIN s = 1 .. optind - 1
    BY <2>2
  <2> QED BY <1>1, <2>2, <2>3 DEF Increasing, DoneInv, Rises
<1>6. {argv[i] : i \in DOMAIN argv} = 1 .. n
  BY <1>1, <1>3 DEF WordsInv
<1> QED BY <1>4, <1>5, <1>6 DEF ParseExact

\* Whatever the command line and the option string: when getopt() has returned
\* -1 it has returned the options of the line with their arguments, in order,
\* the operands are at the end of argv in their order, and no word is lost.
THEOREM ParsesExactly == GetOptSpec => []ParseExact
BY CourseHolds, CourseEnds, PTL
=============================================================================
