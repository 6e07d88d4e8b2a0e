---------------------------- MODULE MCBlindBank ----------------------------
(* Instances of BlindBank for TLC. *)
EXTENDS BlindBank, TLC

CONSTANTS a1, a2, c1, c2, c3, c4

Req(m, v) == [msg |-> m, amount |-> v]
Withdraw(a, reqs) == [kind |-> "withdraw", account |-> a, reqs |-> reqs]
Deposit(a, n, v) == [kind |-> "deposit", account |-> a, credit |-> n, amount |-> v]

\* One credit deposited into two accounts, and a withdrawal from each.
Racing ==
    [c \in Calls |-> (c1 :> Deposit(a1, 1, 4)
                   @@ c2 :> Deposit(a2, 1, 4)
                   @@ c3 :> [kind |-> "full", account |-> a1]
                   @@ c4 :> Withdraw(a2, <<Req(1, 1), Req(2, 2)>>))[c]]

\* With two bits of mantissa: 7 and 9 are not representable.
TwoBits == {0, 1, 2, 3, 4, 5, 6, 8, 10, 12}
=============================================================================
