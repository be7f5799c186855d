----------------------------- MODULE TargetMath -----------------------------
(***************************************************************************)
(* Targets: the compact nBits form of the network target                   *)
(* (src/core/target.c), the share target of a difficulty                   *)
(* (src/core/difficulty.c) and the comparison of a hash with a target.     *)
(*                                                                         *)
(* A target and a hash are little-endian arrays of Size digits in base     *)
(* Base: 32 and 256 in the code.  The arithmetic does not depend on the    *)
(* two numbers, which are constants because TLC's integers have 31 bits.   *)
(***************************************************************************)
EXTENDS Integers

CONSTANTS Base,       \* the values of a byte
          Size,       \* TARGET_SIZE
          Precision   \* significant bits of a long double

ASSUME BaseAssumption == Base \in Nat /\ Base > 1 /\ Base % 2 = 0
ASSUME SizeAssumption == Size \in Nat /\ Size >= 6
ASSUME PrecisionAssumption == Precision \in Nat \ {0}

\* b to the n-th power.
Power(b, n) ==
    LET Times[i \in 0..n] == IF i = 0 THEN 1 ELSE b * Times[i - 1]
    IN  Times[n]

Index == 0 .. Size - 1
Zero == [i \in Index |-> 0]

\* From the most significant byte down, the first difference decides.  The
\* other walks the array from the wrong end.
BugMeetsTarget(h, t) ==
    \A i \in Index : (\A j \in 0 .. i - 1 : h[j] = t[j]) => h[i] <= t[i]
MeetsTarget(h, t) ==
    \A i \in Index : (\A j \in i + 1 .. Size - 1 : h[j] = t[j]) => h[i] <= t[i]

-----------------------------------------------------------------------------
\* nbits is an exponent byte over three bytes, of which the top bit is a sign.
HalfMantissa == Power(Base, 3) \div 2

\* Three bytes of n at `offset', the rest zero.
PlacedAt(n, offset) ==
    [i \in Index |-> IF i \in offset .. offset + 2 THEN (n \div Power(Base, i - offset)) % Base
                                                 ELSE 0]

\* Up to exponent 3 the mantissa is shifted down, above it is moved up.
Unpacked(mantissa, exponent) ==
    IF exponent <= 3 THEN PlacedAt(mantissa \div Power(Base, 3 - exponent), 0)
                     ELSE PlacedAt(mantissa, exponent - 3)

\* [ok, target]: the return value and what is left in target[].
BitsToTarget(exponent, low) ==
    LET mantissa == low % HalfMantissa
        negative == low >= HalfMantissa
        fits == exponent <= Size /\ (exponent - 3) + 2 < Size
        ok == ~ negative /\ (mantissa = 0 \/ exponent <= 3 \/ fits)
    IN  [ok |-> ok, target |-> IF ok /\ mantissa # 0 THEN Unpacked(mantissa, exponent) ELSE Zero]

-----------------------------------------------------------------------------
\* A difficulty is num/den: a double is a fraction, den = 0 gives +inf for a
\* positive num and NaN for 0/0.
Nearest(a, b) == (2 * a + b) \div (2 * b)

\* The difficulty-1 target: 0xffff, 26 bytes up.
Diff1 == (Power(Base, 2) - 1) * Power(Base, Size - 6)

\* A long double has Precision significant bits, so the quotient is a multiple
\* of a power of two g that grows with it.  In units of 2^-Precision.
Ulp == Power(2, Precision)
Quotient(n, d) ==
    LET Doubled[p \in 1 .. 2*n + 1] == IF n < d * p THEN p ELSE Doubled[2*p]
        g == Doubled[1]
    IN  g * Nearest(n * Ulp, d * g)

Place(i) == Ulp * Power(Base, i)

\* floor(value / place), and 255 at most.
BugDigit(value, i) == (value \div Place(i)) % Base
Digit(value, i) ==
    LET digit == value \div Place(i) IN IF digit > Base - 1 THEN Base - 1 ELSE digit

\* The digits are taken from the top; each step removes what it took.  Where the
\* difficulty is not positive, or not a number, target[] stays as it was.
DifficultyToTarget(num, den, target) ==
    LET Left[i \in Index] ==
            IF i = Size - 1 THEN Quotient(Diff1 * den, num)
            ELSE LET value == Left[i + 1] IN value - Digit(value, i + 1) * Place(i + 1)
    IN  IF num > 0 THEN [ok |-> TRUE, target |-> [i \in Index |-> Digit(Left[i], i)]]
                   ELSE [ok |-> FALSE, target |-> target]
=============================================================================
