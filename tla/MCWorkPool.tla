----------------------------- MODULE MCWorkPool -----------------------------
(* Instances of WorkPool for TLC. *)
EXTENDS WorkPool, TLC

CONSTANTS j1, j2, w1, w2, w3, s1, s2, s3

\* The calls of ScaleWorkers: up to three, down to two and down to one.
UpAndDown == [s \in Scalers |-> IF s = s1 THEN 3 ELSE IF s = s2 THEN 2 ELSE 1]
=============================================================================
