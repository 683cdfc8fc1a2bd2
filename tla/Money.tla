--------------------------------- MODULE Money ---------------------------------
(***************************************************************************)
(* Exact amounts in cents: how a price is read from the number in a        *)
(* request, kept in a NUMERIC(12,2) column, multiplied, added and shown.   *)
(*                                                                         *)
(* A number is the text of a JSON number, taken apart: its sign, its       *)
(* digits without the point and leading zeros, how many of them follow the *)
(* point, its exponent, and with how many digits the exponent is written.  *)
(* The size of the column and the width of the word are parameters:        *)
(* 10^12 - 1 and 2^63 in the program.                                      *)
(***************************************************************************)
EXTENDS Integers, FiniteSets, FiniteSetsExt

CONSTANTS
    MaxAmountDigits,    \* digits of MaxAmount in cents
    MaxAmount,          \* the largest amount the column holds
    Word,               \* an int64 lies in -Word..(Word - 1)
    MaxExponentDigits,  \* digits an exponent may be written with, 9 in the program
    LongestNumber       \* bound on the digits of a number, before and behind the point

\* The powers of ten, as a function so that they can be proved about.
Power10[k \in Nat] == IF k = 0 THEN 1 ELSE 10 * Power10[k - 1]

ASSUME MaxAmountAssumption == MaxAmount \in Nat \ {0}
ASSUME MaxAmountDigitsAssumption ==
    MaxAmountDigits \in Nat /\ MaxAmount = Power10[MaxAmountDigits] - 1
ASSUME WordAssumption == Word \in Nat /\ Word > 2 * MaxAmount
ASSUME NumberAssumption == MaxExponentDigits \in Nat \ {0} /\ LongestNumber \in Nat

\* The largest exponent that can be written with the digits allowed.
MaxExponent == Power10[MaxExponentDigits] - 1

\* An amount that fits the column is shorter than the longest number, and the
\* longest number cannot make up for an exponent beyond the largest: 10^9 - 1
\* in the program, so the text of a number has less than 10^9 - 9 digits.
ASSUME LengthAssumption ==
    /\ 2 <= MaxAmountDigits /\ MaxAmountDigits <= LongestNumber
    /\ LongestNumber < MaxExponent
    /\ LongestNumber + MaxAmountDigits <= MaxExponent + 3
-----------------------------------------------------------------------------
Accepted(c) == [ok |-> TRUE, cents |-> c, why |-> "none"]

Rejected(why) == [ok |-> FALSE, cents |-> 0, why |-> why]

Magnitude(c) == IF c < 0 THEN -c ELSE c

\* What an int64 operation leaves of an integer.
Wrap(x) == ((x + Word) % (2 * Word)) - Word

\* What a number is taken into.  exponentDigits counts the digits the exponent
\* is written with, zeros in front included; it is 0 if there is none.
JSONNumbers ==
    {n \in [negative : BOOLEAN, digits : 0..(Power10[LongestNumber] - 1),
            decimals : 0..LongestNumber, exponent : Int, exponentDigits : Nat] :
        Magnitude(n.exponent) < Power10[n.exponentDigits]}

\* The exponent is refused by the length of its text, not by its value.
ExponentTooLong(n) == n.exponentDigits > MaxExponentDigits

DigitCount(d) == Cardinality({k \in 0..(LongestNumber - 1) : Power10[k] <= d})

\* Zeros at the end of the digits that stand behind the point.
TrailingZeros(d, scale) == Max({j \in 0..scale : d % Power10[j] = 0} \cup {0})

\* Faulty variant: decimals beyond the second are dropped.
ParseTruncating(n) ==
    LET scale  == n.decimals - n.exponent
        cut    == IF scale > 2 THEN scale - 2 ELSE 0
        digits == n.digits \div Power10[cut]
    IN  IF ExponentTooLong(n) THEN Rejected("invalid")
        ELSE IF digits = 0 THEN Accepted(0)
        ELSE IF DigitCount(digits) + 2 - (scale - cut) > MaxAmountDigits
             THEN Rejected("out of range")
        ELSE Accepted((IF n.negative THEN -1 ELSE 1) * digits * Power10[2 - (scale - cut)])

\* Zeros behind the point are trimmed; what is left must have at most two
\* decimals and, in cents, at most MaxAmountDigits digits.
Parse(n) ==
    LET cut    == TrailingZeros(n.digits, n.decimals - n.exponent)
        digits == n.digits \div Power10[cut]
        scale  == n.decimals - n.exponent - cut
    IN  IF ExponentTooLong(n) THEN Rejected("invalid")
        ELSE IF n.digits = 0 THEN Accepted(0)
        ELSE IF scale > 2 THEN Rejected("too many decimals")
        ELSE IF DigitCount(digits) + 2 - scale > MaxAmountDigits THEN Rejected("out of range")
        ELSE Accepted((IF n.negative THEN -1 ELSE 1) * digits * Power10[2 - scale])

\* Faulty variant: the cents are written without the leading zero.
MarshalUnpadded(c) ==
    LET whole    == Magnitude(c) \div 100
        fraction == Magnitude(c) % 100
        places   == IF fraction = 0 THEN 0 ELSE IF fraction % 10 = 0 \/ fraction < 10 THEN 1 ELSE 2
        behind   == IF fraction % 10 = 0 THEN fraction \div 10 ELSE fraction
    IN  [negative |-> c < 0, digits |-> whole * Power10[places] + behind,
         decimals |-> places, exponent |-> 0, exponentDigits |-> 0]

\* The shortest exact decimal form: the whole units, and the cents behind the
\* point without zeros at the end.
MarshalJSON(c) ==
    LET whole    == Magnitude(c) \div 100
        fraction == Magnitude(c) % 100
        places   == IF fraction = 0 THEN 0 ELSE IF fraction % 10 = 0 THEN 1 ELSE 2
        behind   == IF fraction % 10 = 0 THEN fraction \div 10 ELSE fraction
    IN  [negative |-> c < 0, digits |-> whole * Power10[places] + behind,
         decimals |-> places, exponent |-> 0, exponentDigits |-> 0]

\* The column's value as mantissa and exponent, and back.  Driver and
\* database may move the exponent, so a whole amount comes back with none.
NumericFromCents(c) == [int |-> c, exp |-> -2]

Stored(n) == IF n.int % 100 = 0 THEN {n, [int |-> n.int \div 100, exp |-> 0]} ELSE {n}

CentsFromNumeric(n) ==
    LET shift == n.exp + 2
        cents == IF shift >= 0 THEN n.int * Power10[shift] ELSE n.int \div Power10[-shift]
    IN  IF shift < 0 /\ n.int % Power10[-shift] # 0 THEN Rejected("too many decimals")
        ELSE IF Magnitude(cents) > MaxAmount THEN Rejected("out of range")
        ELSE Accepted(cents)

Validate(c) == Magnitude(c) <= MaxAmount

\* Faulty variant: the product is checked after it was computed.
MulQuantityThenCheck(c, quantity) ==
    IF quantity <= 0 THEN Rejected("quantity")
    ELSE IF ~ Validate(c) \/ ~ Validate(Wrap(c * quantity)) THEN Rejected("out of range")
    ELSE Accepted(Wrap(c * quantity))

\* The bound is checked by a division, before multiplying.
MulQuantity(c, quantity) ==
    IF quantity <= 0 THEN Rejected("quantity")
    ELSE IF ~ Validate(c) THEN Rejected("out of range")
    ELSE IF c # 0 /\ quantity > MaxAmount \div Magnitude(c) THEN Rejected("out of range")
    ELSE Accepted(Wrap(c * quantity))

\* Both operands are bounded first; the sum is checked as the word holds it.
Add(a, b) ==
    IF Validate(a) /\ Validate(b) /\ Validate(Wrap(a + b))
    THEN Accepted(Wrap(a + b)) ELSE Rejected("out of range")
-----------------------------------------------------------------------------
(* The reference: the number as a fraction, without any word or column.    *)

\* n is exactly c cents.
Denotes(n, c) ==
    LET shift == n.exponent - n.decimals + 2
    IN  /\ IF shift >= 0
           THEN Magnitude(c) % Power10[shift] = 0 /\ Magnitude(c) \div Power10[shift] = n.digits
           ELSE n.digits % Power10[-shift] = 0 /\ n.digits \div Power10[-shift] = Magnitude(c)
        /\ c > 0 => ~ n.negative
        /\ c < 0 => n.negative

\* Some amount that fits the column is exactly n.
Representable(n) ==
    LET shift == n.exponent - n.decimals + 2
    IN  IF shift >= 0
        THEN n.digits = 0 \/ (shift <= MaxAmountDigits /\ n.digits <= MaxAmount \div Power10[shift])
        ELSE n.digits % Power10[-shift] = 0 /\ n.digits \div Power10[-shift] <= MaxAmount

\* The exponent would have the same value with one digit less.
ZeroPadded(n) ==
    n.exponentDigits > 1 /\ Magnitude(n.exponent) < Power10[n.exponentDigits - 1]
=============================================================================
