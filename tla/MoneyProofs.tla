----------------------------- MODULE MoneyProofs -----------------------------
(***************************************************************************)
(* What pkg/money computes, for every width: arithmetic that is exact or   *)
(* refused, and texts that read back as the amounts they were written for. *)
(***************************************************************************)
EXTENDS Money, TLAPS

\* Add returns the sum if an int64 can hold it and ErrOverflow otherwise; the test that
\* decides does not itself overflow (money.go 229-247).
THEOREM AddIsExact ==
    ASSUME NEW a \in Int64, NEW b \in Int64
    PROVE  Add(a, b) = IF a + b \in Int64 THEN Ok(a + b) ELSE Failed("ErrOverflow")
<1>1. MaxInt \in Nat /\ a \in Int /\ b \in Int /\ MinInt = -MaxInt - 1
  BY MoneyAssumption DEF Int64, MinInt
<1>2. a \in -MaxInt - 1..MaxInt /\ b \in -MaxInt - 1..MaxInt
  BY <1>1 DEF Int64
<1>3. CASE b > 0
  <2>1. Wrapped(MaxInt - b) = MaxInt - b
    BY <1>1, <1>2, <1>3 DEF Wrapped, MinInt
  <2>2. a > MaxInt - b <=> a + b \notin Int64
    BY <1>1, <1>2, <1>3 DEF Int64
  <2>3. a + b \in Int64 => Wrapped(a + b) = a + b
    BY <1>1, <1>2 DEF Wrapped, Int64
  <2> QED
    BY <1>1, <1>3, <2>1, <2>2, <2>3 DEF Add
<1>4. CASE b < 0
  <2>1. Wrapped(MinInt - b) = MinInt - b
    BY <1>1, <1>2, <1>4 DEF Wrapped, MinInt
  <2>2. a < MinInt - b <=> a + b \notin Int64
    BY <1>1, <1>2, <1>4 DEF Int64
  <2>3. a + b \in Int64 => Wrapped(a + b) = a + b
    BY <1>1, <1>2 DEF Wrapped, Int64
  <2> QED
    BY <1>1, <1>4, <2>1, <2>2, <2>3 DEF Add
<1>5. CASE b = 0
  BY <1>1, <1>2, <1>5 DEF Add, Wrapped, Int64
<1> QED
  BY <1>1, <1>3, <1>4, <1>5

\* The same of Sub (money.go 249-266).
THEOREM SubIsExact ==
    ASSUME NEW a \in Int64, NEW b \in Int64
    PROVE  Sub(a, b) = IF a - b \in Int64 THEN Ok(a - b) ELSE Failed("ErrOverflow")
<1>1. MaxInt \in Nat /\ a \in Int /\ b \in Int /\ MinInt = -MaxInt - 1
  BY MoneyAssumption DEF Int64, MinInt
<1>2. a \in -MaxInt - 1..MaxInt /\ b \in -MaxInt - 1..MaxInt
  BY <1>1 DEF Int64
<1>3. CASE b > 0
  <2>1. Wrapped(MinInt + b) = MinInt + b
    BY <1>1, <1>2, <1>3 DEF Wrapped, MinInt
  <2>2. a < MinInt + b <=> a - b \notin Int64
    BY <1>1, <1>2, <1>3 DEF Int64
  <2>3. a - b \in Int64 => Wrapped(a - b) = a - b
    BY <1>1, <1>2 DEF Wrapped, Int64
  <2> QED
    BY <1>1, <1>3, <2>1, <2>2, <2>3 DEF Sub
<1>4. CASE b < 0
  <2>1. Wrapped(MaxInt + b) = MaxInt + b
    BY <1>1, <1>2, <1>4 DEF Wrapped, MinInt
  <2>2. a > MaxInt + b <=> a - b \notin Int64
    BY <1>1, <1>2, <1>4 DEF Int64
  <2>3. a - b \in Int64 => Wrapped(a - b) = a - b
    BY <1>1, <1>2 DEF Wrapped, Int64
  <2> QED
    BY <1>1, <1>4, <2>1, <2>2, <2>3 DEF Sub
<1>5. CASE b = 0
  BY <1>1, <1>2, <1>5 DEF Sub, Wrapped, Int64
<1> QED
  BY <1>1, <1>3, <1>4, <1>5

\* Quotient and remainder by 100 give the number back.
LEMMA Centavos ==
    ASSUME NEW n \in Nat
    PROVE  /\ n \div 100 \in Nat /\ n % 100 \in 0..99
           /\ n = (n \div 100) * 100 + (n % 100)
OBVIOUS

\* The text FormattedAmount writes for an amount reads back as that amount, for every int64
\* but the least one, whose text Parse refuses (money.go 68-171, 199-220).
THEOREM ParseInvertsFormat ==
    ASSUME NEW u \in Int64
    PROVE  Parse(FormattedAmount(u)) =
              IF u = MinInt THEN Failed("ErrOverflow") ELSE Ok(u)
<1> DEFINE n == Magnitude(u)
           q == n \div 100
           r == n % 100
           t == FormattedAmount(u)
<1>1. MaxInt \in Nat /\ u \in Int /\ MinInt = -MaxInt - 1 /\ u \in -MaxInt - 1..MaxInt
  BY MoneyAssumption DEF Int64, MinInt
<1>2. n \in Nat /\ (u = MinInt => n = MaxInt + 1) /\ (u # MinInt => n <= MaxInt)
  BY <1>1 DEF Magnitude
<1>3. q \in Nat /\ r \in 0..99 /\ n = q * 100 + r
  BY <1>2, Centavos
<1>4. /\ t.negative = (u < 0) /\ t.script = "digits" /\ t.whole = q /\ t.dots = 1
      /\ t.fracScript = "digits" /\ t.frac = r /\ t.fracLen = 2
  BY DEF FormattedAmount
<1>5. FracUnits(t) = r
  BY <1>4 DEF FracUnits
<1>6. u = IF u < 0 THEN -n ELSE n
  BY <1>1 DEF Magnitude
<1>7. /\ MaxInt \div 100 \in Nat /\ MaxInt % 100 \in 0..99
      /\ MaxInt = (MaxInt \div 100) * 100 + (MaxInt % 100)
  BY <1>1, Centavos
<1> HIDE DEF n, q, r, t
<1>8. CASE u # MinInt
  <2>1. ~(q > MaxInt \div 100)
    BY <1>1, <1>2, <1>3, <1>7, <1>8
  <2>2. ~(q * 100 > MaxInt - r)
    BY <1>1, <1>2, <1>3, <1>8
  <2>3. Valued(t) = u
    BY <1>1, <1>2, <1>3, <1>4, <1>5, <1>6 DEF Valued
  <2>4. Parse(t) = Ok(u)
    BY <1>4, <1>5, <2>1, <2>2, <2>3 DEF Parse
  <2> QED
    BY <1>8, <2>4 DEF t
<1>9. CASE u = MinInt
  <2>1. q > MaxInt \div 100 \/ q * 100 > MaxInt - r
    BY <1>1, <1>2, <1>3, <1>9
  <2>2. Parse(t) = Failed("ErrOverflow")
    BY <1>4, <1>5, <2>1 DEF Parse
  <2> QED
    BY <1>9, <2>2 DEF t
<1> QED
  BY <1>8, <1>9

\* A text of digits with at most two decimals is read as its value exactly when the amount
\* without the sign is at most MaxInt, and refused as an overflow otherwise.  The one value
\* that fits and is refused is MinInt, whose amount without the sign does not (money.go
\* 68-171).
THEOREM ParseIsExact ==
    ASSUME NEW t \in Text, t.script = "digits", t.dots \in {0, 1},
           t.dots = 1 => t.fracScript = "digits" /\ t.fracLen \in {1, 2},
           FracUnits(t) \in 0..99
    PROVE  Parse(t) = IF t.whole * 100 + FracUnits(t) <= MaxInt THEN Ok(Valued(t))
                      ELSE Failed("ErrOverflow")
<1> DEFINE q == t.whole
           r == FracUnits(t)
<1>1. MaxInt \in Nat /\ q \in Nat /\ r \in 0..99
  BY MoneyAssumption DEF Text
<1>2. /\ MaxInt \div 100 \in Nat /\ MaxInt % 100 \in 0..99
      /\ MaxInt = (MaxInt \div 100) * 100 + (MaxInt % 100)
  BY <1>1, Centavos
<1> HIDE DEF q, r
<1>3. q > MaxInt \div 100 => q * 100 + r > MaxInt
  BY <1>1, <1>2
<1>4. q * 100 > MaxInt - r <=> ~(q * 100 + r <= MaxInt)
  BY <1>1
<1> QED
  BY <1>1, <1>3, <1>4 DEF Parse, q, r
=============================================================================
