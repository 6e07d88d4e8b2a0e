------------------------------ MODULE Currency ------------------------------
(***************************************************************************)
(* anonpay/currency/value.go: amounts as nine bit floating point values     *)
(* (four bits of mantissa, five of exponent) and a shift bit for special    *)
(* values, their stochastic rounding and their two byte wire format.        *)
(*                                                                         *)
(* A value travels: it is made from an amount (Exact, Rounded, MustSpecial), *)
(* formatted (BlindBytes), parsed (ParseCurrencyFromBlindBytes) and read     *)
(* (Amount).  Amounts are counted in quarters, to have fractions, and the    *)
(* rounding factor is k / Grid for k in 0 .. Grid - 1, as RandFloat64 draws  *)
(* it with a grid of 2^53.                                                   *)
(***************************************************************************)
EXTENDS Integers, FiniteSetsExt

CONSTANTS MaxExponent,  \* 31 in the code: the largest biased exponent
          Grid,         \* 2^53 in the code: how finely randomFactor is drawn
          Amounts       \* bound: the amounts looked at, in quarters

ASSUME CurrencyAssumption ==
    /\ MaxExponent \in 1 .. 31
    /\ Grid \in Nat \ {0}
    /\ Amounts \subseteq Nat

MaxAmount == 31 * 2^(MaxExponent - 1)

\* bits.Len64 and bits.TrailingZeros64 of an amount below 2^31.
Len64(a) == Cardinality({k \in 0 .. 30 : 2^k <= a})
TrailingZeros64(a) == Cardinality({k \in 1 .. 30 : a % 2^k = 0})

Value == [shift : BOOLEAN, value : 0 .. 16 * (MaxExponent + 1) - 1]

Plain(v) == [shift |-> FALSE, value |-> v]
Failed   == [shift |-> FALSE, value |-> -1]  \* an error was returned instead

\* Mutated form: the exponent is not biased.
createExactUnsafeUnbiased(a) ==
    IF a < 16 THEN Plain(a)
    ELSE IF Len64(a) - TrailingZeros64(a) > 5 \/ Len64(a) - 4 > MaxExponent THEN Failed
    ELSE Plain((Len64(a) - 5) * 16 + ((a \div 2^(Len64(a) - 5)) % 16))

createExactUnsafe(a) ==
    IF a < 16 THEN Plain(a)
    ELSE IF Len64(a) - TrailingZeros64(a) > 5 \/ Len64(a) - 4 > MaxExponent THEN Failed
    ELSE Plain((Len64(a) - 4) * 16 + ((a \div 2^(Len64(a) - 5)) % 16))

Exact(a) == IF a < 0 \/ a > MaxAmount THEN Failed ELSE createExactUnsafe(a)

\* Amount: -1 stands for ErrNotAnAmount.
Amount(c) ==
    IF c.shift THEN -1
    ELSE IF c.value \div 16 = 0 THEN c.value
    ELSE ((c.value % 16) + 16) * 2^(c.value \div 16 - 1)

\* Mutated form: the upper candidate is one unit too far.
BoundsTooWide(q) ==
    LET floor == q \div 4
        ceil  == (q + 3) \div 4
        unit  == 2^(Len64(floor) - 5)
    IN IF ceil <= 32 THEN [lower |-> floor, upper |-> ceil]
       ELSE [lower |-> (floor \div unit) * unit, upper |-> (floor \div unit + 2) * unit]

\* The two candidates Rounded chooses from, for q quarters.
Bounds(q) ==
    LET floor == q \div 4
        ceil  == (q + 3) \div 4
        unit  == 2^(Len64(floor) - 5)
    IN IF ceil <= 32 THEN [lower |-> floor, upper |-> ceil]
       ELSE [lower |-> (floor \div unit) * unit, upper |-> (floor \div unit + 1) * unit]

\* Mutated form: rounds to the lower candidate too rarely.
RoundedUpOften(q, k) ==
    LET b == Bounds(q)
    IN IF q > 4 * MaxAmount THEN Failed
       ELSE IF q % 4 = 0 /\ b.lower * 4 = q THEN createExactUnsafe(b.lower)
       ELSE IF k * 4 * (b.upper - b.lower) > Grid * (q - 4 * b.lower)
            THEN createExactUnsafe(b.upper)
            ELSE createExactUnsafe(b.lower)

\* roundingFactor > lowerProbability, cross-multiplied.
Rounded(q, k) ==
    LET b == Bounds(q)
    IN IF q > 4 * MaxAmount THEN Failed
       ELSE IF q % 4 = 0 /\ b.lower * 4 = q THEN createExactUnsafe(b.lower)
       ELSE IF k * 4 * (b.upper - b.lower) > Grid * (4 * b.upper - q)
            THEN createExactUnsafe(b.upper)
            ELSE createExactUnsafe(b.lower)

BlindBytes(c) ==
    <<2 * ((c.value \div 256) % 2) + (IF c.shift THEN 1 ELSE 0), c.value % 256>>

\* Mutated forms: the ninth bit is dropped; the shift bit is taken for it.
ParseCurrencyFromBlindBytesShort(b) ==
    IF b[1] > 3 THEN Failed ELSE [shift |-> b[1] = 1, value |-> b[2]]
ParseCurrencyFromBlindBytesWrongBit(b) ==
    IF b[1] > 3 THEN Failed
    ELSE [shift |-> b[1] = 1, value |-> b[2] + (IF b[1] % 2 = 1 THEN 256 ELSE 0)]

ParseCurrencyFromBlindBytes(b) ==
    IF b[1] > 3 THEN Failed
    ELSE [shift |-> b[1] = 1,
          value |-> b[2] + (IF (b[1] \div 2) % 2 = 1 THEN 256 ELSE 0)]
-----------------------------------------------------------------------------
VARIABLES phase,   \* how far the value has travelled
          amount,  \* the amount it was made from, in quarters
          made,    \* the Value made from it
          wire,    \* its two bytes
          parsed   \* the Value parsed from them

vars == <<phase, amount, made, wire, parsed>>

Init ==
    /\ phase = "start" /\ amount \in Amounts
    /\ made = Plain(0) /\ wire = <<0, 0>> /\ parsed = Plain(0)

Make(c) ==
    /\ phase = "start"
    /\ phase' = IF c = Failed THEN "error" ELSE "made"
    /\ made' = c
    /\ UNCHANGED <<amount, wire, parsed>>

MakeRounded == \E k \in 0 .. Grid - 1 : Make(Rounded(amount, k))

MakeExact == amount % 4 = 0 /\ Make(Exact(amount \div 4))

\* MustSpecial panics on an error; it is used for constants only.
MakeSpecial ==
    /\ amount % 4 = 0
    /\ Exact(amount \div 4) # Failed
    /\ Make([Exact(amount \div 4) EXCEPT !.shift = TRUE])

Format ==
    /\ phase = "made"
    /\ phase' = "sent" /\ wire' = BlindBytes(made)
    /\ UNCHANGED <<amount, made, parsed>>

Parse ==
    /\ phase = "sent"
    /\ LET c == ParseCurrencyFromBlindBytes(wire)
       IN phase' = (IF c = Failed THEN "error" ELSE "received") /\ parsed' = c
    /\ UNCHANGED <<amount, made, wire>>

Next == MakeRounded \/ MakeExact \/ MakeSpecial \/ Format \/ Parse

Spec == Init /\ [][Next]_vars
-----------------------------------------------------------------------------
\* Reference: the amounts that some value stands for.
Representable == {Amount(Plain(v)) : v \in 0 .. 16 * (MaxExponent + 1) - 1}

TypeOK ==
    /\ phase \in {"start", "made", "sent", "received", "error"}
    /\ amount \in Amounts
    /\ {made, parsed} \subseteq Value \cup {Failed}

\* The format is canonical: values are ordered as the amounts they stand for,
\* and Exact finds the one value of each amount (createExactUnsafe, Amount).
Canonical ==
    phase = "made" /\ ~made.shift =>
        /\ Exact(Amount(made)) = made
        /\ made.value > 0 => Amount(Plain(made.value - 1)) < Amount(made)

\* Rounded gives one of the two representable neighbours of the amount, so the
\* amount itself when that is representable, and it fails only above the
\* largest one.
RoundedToNeighbour ==
    /\ phase = "made" /\ ~made.shift =>
        Amount(made) \in {Max({a \in Representable : 4 * a <= amount}),
                          Min({a \in Representable : 4 * a >= amount})}
    /\ phase = "start" /\ amount <= 4 * MaxAmount =>
        \A k \in 0 .. Grid - 1 : Rounded(amount, k) # Failed

\* An amount that is not a special value arrives as the amount it was.
AmountArrives ==
    phase = "received" /\ ~made.shift => parsed = made /\ Amount(parsed) >= 0

\* Over all rounding factors the rounded amounts average to the amount, up to
\* one step of the grid ("guaranteed to be fair and unbiased over the long run").
Unbiased ==
    phase = "start" /\ amount <= 4 * MaxAmount =>
        LET total == MapThenSumSet(LAMBDA k : Amount(Rounded(amount, k)), 0 .. Grid - 1)
            error == Grid * amount - 4 * total
            step  == 4 * (Bounds(amount).upper - Bounds(amount).lower)
        IN -step <= error /\ error <= step

\* The format is faithful: values stay in their two bytes, are canonical, and
\* amounts survive it (createExactUnsafe, BlindBytes and its parser).
FormatFaithful == TypeOK /\ Canonical /\ AmountArrives

\* Rounding goes to a neighbour and is fair (Rounded).
RoundedFairly == RoundedToNeighbour /\ Unbiased
=============================================================================
