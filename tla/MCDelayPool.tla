---------------------------- MODULE MCDelayPool ----------------------------
(* Instances of DelayPool for TLC. *)
EXTENDS DelayPool, TLC

CONSTANTS i1, i2, i3

\* No two items have the same delay.
MixedDelays == [i \in Items |-> (i1 :> 0 @@ i2 :> 1 @@ i3 :> 2)[i]]
=============================================================================
