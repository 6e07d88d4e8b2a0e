----------------------------- MODULE MCPayments -----------------------------
(* Instances of Payments for TLC. *)
EXTENDS Payments, TLC

CONSTANTS c1, c2, c3, c4, n1, n2

\* The calls of c1 and c2 present one credit, those of c3 and c4 another.
TwoCredits == [c \in Calls |-> IF c \in {c1, c2} THEN n1 ELSE n2]
OneCredit  == [c \in Calls |-> n1]

KindsOf(k1, k2, k3, k4) ==
    [c \in Calls |-> (c1 :> k1 @@ c2 :> k2 @@ c3 :> k3 @@ c4 :> k4)[c]]

MixedKinds == KindsOf("exchange", "spend", "deposit", "deposit")
WebAndBank == KindsOf("spend", "manifests", "deposit", "deposit")
=============================================================================
