------------------------------ MODULE MCWallet ------------------------------
EXTENDS Wallet

CONSTANTS c1, c2, small

\* Two payments that share a batch; one payment while a service call fails or
\* the context of Close ends; one payment of less than the prefetch amount.
MCScenarios ==
    {[calls |-> {c1, c2}, faults |-> 0, hard |-> FALSE],
     [calls |-> {c1}, faults |-> 1, hard |-> TRUE],
     [calls |-> {small}, faults |-> 0, hard |-> FALSE]}

MCCallers  == {c1, c2, small}
MCAmountOf == [c \in MCCallers |-> IF c = small THEN 1 ELSE 2]
MCBatches  == 1 .. 1
MCSteps    == DOMAIN WalletOutputs
=============================================================================
