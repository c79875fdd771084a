-------------------------------- MODULE Money --------------------------------
(***************************************************************************)
(* pkg/money: an amount is an int64 number of centavos.  Add, Sub and      *)
(* Negate refuse what does not fit; Parse reads a decimal text, and        *)
(* FormattedAmount writes one.  The width is a parameter.                  *)
(*                                                                         *)
(* Left out: currencies (both operands of an operation come from wallets   *)
(* or requests of one currency), Compare, JSON around the text.            *)
(***************************************************************************)
EXTENDS Integers

CONSTANT MaxInt  \* math.MaxInt64

ASSUME MoneyAssumption == MaxInt \in Nat

MinInt == -MaxInt - 1
Int64 == MinInt..MaxInt

\* Go integers wrap around; no sum or difference of two int64 wraps twice.
Wrapped(x) == IF x > MaxInt THEN x - 2 * (MaxInt + 1)
              ELSE IF x < MinInt THEN x + 2 * (MaxInt + 1)
              ELSE x

\* A result and an error; with an error goes the zero Money.
Ok(n) == [err |-> "nil", amount |-> n]
Failed(err) == [err |-> err, amount |-> 0]

-----------------------------------------------------------------------------
(* Arithmetic.  Every operand of a comparison is an int64 expression too.  *)

\* The sum whose overflow nobody looks at.
AddWrapping(a, b) == Ok(Wrapped(a + b))

Add(a, b) ==
    IF \/ b > 0 /\ a > Wrapped(MaxInt - b)
       \/ b < 0 /\ a < Wrapped(MinInt - b)
    THEN Failed("ErrOverflow")
    ELSE Ok(Wrapped(a + b))

Sub(a, b) ==
    IF \/ b < 0 /\ a > Wrapped(MaxInt + b)
       \/ b > 0 /\ a < Wrapped(MinInt + b)
    THEN Failed("ErrOverflow")
    ELSE Ok(Wrapped(a - b))

Negate(a) == IF a = MinInt THEN Failed("ErrOverflow") ELSE Ok(Wrapped(-a))

-----------------------------------------------------------------------------
(* Texts.                                                                  *)

\* What stands before or after the dot: nothing, decimal digits, digits of another script
\* (unicode.IsDigit accepts them, strconv.ParseInt does not), something with an e or E, or
\* anything else.
Script == {"empty", "digits", "foreign", "exponent", "other"}

\* An amount as it is sent: a sign, the numeral before the dot, the number of dots, and the
\* numeral after the first dot with its length in bytes.
Text == [negative : BOOLEAN, script : Script, whole : Nat, dots : Nat,
         fracScript : Script, frac : Nat, fracLen : Nat]

\* "2.5" is two and fifty centavos.
FracUnits(t) == IF t.dots = 0 THEN 0 ELSE IF t.fracLen = 1 THEN 10 * t.frac ELSE t.frac

Valued(t) == IF t.negative THEN -(t.whole * 100 + FracUnits(t)) ELSE t.whole * 100 + FracUnits(t)

\* The tests in the order of the source.  The first of them, for an e or E, is over the
\* whole text, so an exponent is told before the number of decimals is.
Parse(t) ==
    IF \/ t.dots > 1 \/ t.script \in {"empty", "exponent", "other"}
       \/ t.dots = 1 /\ t.fracScript = "exponent"
    THEN Failed("ErrInvalidAmount")
    ELSE IF t.script = "foreign" \/ t.whole > MaxInt \div 100 THEN Failed("ErrOverflow")
    ELSE IF t.dots = 1 /\ t.fracLen > 2 THEN Failed("ErrExceededScale")
    ELSE IF t.dots = 1 /\ t.fracScript # "digits" THEN Failed("ErrInvalidAmount")
    ELSE IF t.whole * 100 > MaxInt - FracUnits(t) THEN Failed("ErrOverflow")
    ELSE Ok(Valued(t))

\* The absolute value of MinInt has a literal of its own.
Magnitude(u) == IF u < 0 THEN -u ELSE u

\* "%d.%d": five centavos become "0.5".
FormattedUnpadded(u) ==
    [negative |-> u < 0, script |-> "digits", whole |-> Magnitude(u) \div 100, dots |-> 1,
     fracScript |-> "digits", frac |-> Magnitude(u) % 100,
     fracLen |-> IF Magnitude(u) % 100 < 10 THEN 1 ELSE 2]

FormattedAmount(u) ==
    [negative |-> u < 0, script |-> "digits", whole |-> Magnitude(u) \div 100, dots |-> 1,
     fracScript |-> "digits", frac |-> Magnitude(u) % 100, fracLen |-> 2]
=============================================================================
