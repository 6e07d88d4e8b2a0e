---------------------------- MODULE CreditLedger ----------------------------
(***************************************************************************)
(* What the payment system promises of a credit, whatever the network does: *)
(* one call redeems it, once and for good, and only that call may be given  *)
(* what the credit pays for.  (anonpay/anonpay.go, NonceLocker: "Must       *)
(* ensure nonces can only be consumed once.")                               *)
(***************************************************************************)
CONSTANTS Nonces, Calls, CreditOf, Nobody

VARIABLES redeemer,  \* who redeemed the credit, or Nobody
          granted    \* the calls that were given what they paid for

Init == /\ redeemer = [n \in Nonces |-> Nobody]
        /\ granted = {}

Redeem(c) == /\ redeemer[CreditOf[c]] = Nobody
             /\ redeemer' = [redeemer EXCEPT ![CreditOf[c]] = c]
             /\ UNCHANGED granted

Grant(c) == /\ redeemer[CreditOf[c]] = c
            /\ granted' = granted \cup {c}
            /\ UNCHANGED redeemer

Next == \E c \in Calls : Redeem(c) \/ Grant(c)

Spec == Init /\ [][Next]_<<redeemer, granted>>
=============================================================================
