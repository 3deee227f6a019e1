------------------------------- MODULE Ftspec -------------------------------
(***************************************************************************)
(* funs::ftspec of trunk/util/ftspec.cc: a time in seconds and             *)
(* milliseconds, both unsigned, added to, subtracted from and compared.    *)
(***************************************************************************)
EXTENDS Integers

CONSTANTS Second,   \* milliseconds in a second (1000)
          Wrap32,   \* unsigned int is modulo this (2^32)
          Now       \* what gettime() returns

ASSUME FtspecAssumption ==
  /\ Second \in Nat \ {0} /\ Wrap32 \in Nat \ {0}
  /\ Now \in [sec : 0 .. Wrap32 - 1, msec : 0 .. Second - 1]

VARIABLES ts,      \* the object
          elapsed  \* ghost: the milliseconds it should stand for

timeVars == <<ts, elapsed>>

Time(sec, msec) == [sec |-> sec % Wrap32, msec |-> msec]

\* operator = (unsigned int).
FromMsec(ms) == Time(ms \div Second, ms % Second)

\* ftspec(unsigned int), also where a number is added: all ones mean now.
Of(ms) == IF ms = Wrap32 - 1 THEN Now ELSE FromMsec(ms)

TimeInit == ts = Now /\ elapsed = Now.sec * Second + Now.msec

\* Mutant: the carry is left in the milliseconds.
PlusNoCarry(a, b) == Time(a.sec + b.sec, (a.msec + b.msec) % Second)

\* operator +=.
Plus(a, b) ==
  Time(a.sec + b.sec + (a.msec + b.msec) \div Second, (a.msec + b.msec) % Second)

\* operator -=, with a borrow.
Minus(a, b) ==
  IF a.msec < b.msec THEN Time(a.sec - b.sec - 1, a.msec + Second - b.msec)
  ELSE Time(a.sec - b.sec, a.msec - b.msec)

\* operator <, and operator > the other way round.
Before(a, b) == a.sec < b.sec \/ (a.sec = b.sec /\ a.msec < b.msec)

Value(a) == a.sec * Second + a.msec

Span == Wrap32 * Second

Assign(ms) == ts' = FromMsec(ms) /\ elapsed' = ms

Increase(ms) == ts' = Plus(ts, Of(ms)) /\ elapsed' = (elapsed + Value(Of(ms))) % Span

Decrease(ms) == ts' = Minus(ts, Of(ms)) /\ elapsed' = (elapsed - Value(Of(ms))) % Span

TimeNext == \E ms \in 0 .. Wrap32 - 1 : Assign(ms) \/ Increase(ms) \/ Decrease(ms)

TimeSpec == TimeInit /\ [][TimeNext]_timeVars
-----------------------------------------------------------------------------
\* Carries and borrows are right: after any sums and differences the object
\* stands for the time it should, modulo its width, in normal form, and is
\* before another one when that time is.
TimeExact ==
  /\ ts.msec \in 0 .. Second - 1 /\ Value(ts) = elapsed
  /\ \A ms \in 0 .. Wrap32 - 1 : Before(ts, Of(ms)) <=> elapsed < Value(Of(ms))
=============================================================================
