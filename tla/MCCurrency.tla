----------------------------- MODULE MCCurrency -----------------------------
(* Instances of Currency for TLC. *)
EXTENDS Currency

Around(a, unit) == {4 * a + d : d \in {-4, -1, 0, 1, 20, 4 * unit, 8 * unit + 1}}

\* Every quarter below 72, where representable amounts come to be two and four
\* apart, and amounts around each power of two up to beyond the largest.
Boundaries ==
    (0 .. 288) \cup UNION {Around(2^e, 2^(e - 5)) : e \in 6 .. 21} \cup Around(MaxAmount, 1)
=============================================================================
