----------------------------- MODULE NonceClock -----------------------------
(***************************************************************************)
(* The time stamped into a credit's nonce, from its creation to its use:    *)
(* anonpay/nonce.go (SafeNonceTimestamp, IsExpiredAt), the wait in          *)
(* anonpay/blind_signing.go (finalize), and the wallet's idea of when a     *)
(* credit expires (creditStack.ExpiresIn in transfer/local.go, used by      *)
(* pipeline/prefetch_withdraw.go).                                          *)
(*                                                                         *)
(* One credit; time is a number of seconds.  randomFactor is any value of   *)
(* [0, 1), so inside a period the next one may always be chosen, and at its *)
(* first second never.                                                      *)
(***************************************************************************)
EXTENDS Integers

CONSTANTS Quantum,   \* NonceTimeQuantizationSeconds (an hour)
          SafeTime,  \* NonceMinimumSafeTimeSeconds (30 s)
          Skew,      \* NonceMaxClockSkewSeconds (30 s)
          Lifespan,  \* NonceLifespanSeconds (a day and two quanta)
          MaxExpiry, \* PrefetchWithdraw.MaxExpiryDuration
          MaxTime    \* bound: the last second

ASSUME NonceClockAssumption ==
    /\ Quantum \in Nat \ {0} /\ Skew \in Nat /\ MaxExpiry \in Nat
    /\ MaxTime \in Nat /\ MaxTime >= 3 * Quantum
    /\ SafeTime \in 0 .. Quantum - 1
    /\ Lifespan \in Nat /\ Lifespan >= 2 * Quantum

VARIABLES now,       \* the client's clock
          credit,    \* how far the credit is
          timestamp, \* Nonce.Timestamp
          unsafe,    \* Nonce.UnsafeIncrement
          wakeAt     \* the end of the sleep in finalize

vars == <<now, credit, timestamp, unsafe, wakeAt>>

TypeOK ==
    /\ now \in 0 .. MaxTime
    /\ credit \in {"none", "unsigned", "sleeping", "held", "accepted", "expired", "returned"}
    /\ timestamp \in Nat /\ timestamp % Quantum = 0 /\ wakeAt \in Nat
    /\ unsafe \in BOOLEAN

RoundDownNonceTimestamp(t) == (t \div Quantum) * Quantum

\* Mutated form: only the lower limit allows for skew.
IsExpiredAtNoSkew(t, server) ==
    \/ t < RoundDownNonceTimestamp(server)
    \/ t > RoundDownNonceTimestamp(server + Lifespan + Skew)

IsExpiredAt(t, server) ==
    \/ t < RoundDownNonceTimestamp(server - Skew)
    \/ t > RoundDownNonceTimestamp(server + Lifespan + Skew)

ExpiresIn == timestamp - now + Lifespan

Init ==
    /\ now \in 2 * Quantum .. 3 * Quantum - 1
    /\ credit = "none" /\ timestamp = 0 /\ unsafe = FALSE /\ wakeAt = 0

Tick ==
    /\ now < MaxTime
    /\ now' = now + 1
    /\ UNCHANGED <<credit, timestamp, unsafe, wakeAt>>

\* Mutated forms: an early increment is not marked; nothing is rounded.
SafeNonceTimestampUnmarked(next) ==
    LET period == RoundDownNonceTimestamp(now) IN
    /\ next => now > period
    /\ timestamp' = IF next THEN period + Quantum ELSE period
    /\ unsafe' = FALSE

SafeNonceTimestampUnrounded(next) ==
    /\ timestamp' = IF next THEN now + Quantum ELSE now
    /\ unsafe' = FALSE

\* RandomNonce's timestamp: this period, or the next one.
SafeNonceTimestamp(next) ==
    LET period == RoundDownNonceTimestamp(now) IN
    /\ next => now > period
    /\ timestamp' = IF next THEN period + Quantum ELSE period
    /\ unsafe' = (next /\ now - period < SafeTime)

Create ==
    /\ credit = "none"
    /\ \E next \in BOOLEAN : SafeNonceTimestamp(next)
    /\ credit' = "unsigned"
    /\ UNCHANGED <<now, wakeAt>>

\* finalize: an unsafe nonce sleeps until the safe time of the current period.
Finalize ==
    /\ credit = "unsigned"
    /\ credit' = IF unsafe THEN "sleeping" ELSE "held"
    /\ wakeAt' = IF unsafe THEN RoundDownNonceTimestamp(now) + SafeTime ELSE wakeAt
    /\ UNCHANGED <<now, timestamp, unsafe>>

Wake ==
    /\ credit = "sleeping" /\ now >= wakeAt
    /\ credit' = "held"
    /\ UNCHANGED <<now, timestamp, unsafe, wakeAt>>

\* The credit is presented to a locker whose clock is off by skew.
Present(skew) ==
    /\ credit = "held" /\ ExpiresIn > MaxExpiry
    /\ credit' = IF IsExpiredAt(timestamp, now + skew) THEN "expired" ELSE "accepted"
    /\ UNCHANGED <<now, timestamp, unsafe, wakeAt>>

\* PrefetchWithdraw's expiration timer: the wallet sends the credit back.
Return ==
    /\ credit = "held" /\ ExpiresIn <= MaxExpiry
    /\ credit' = "returned"
    /\ UNCHANGED <<now, timestamp, unsafe, wakeAt>>

Next ==
    \/ Tick \/ Create \/ Finalize \/ Wake \/ Return
    \/ \E skew \in -Skew .. Skew : Present(skew)

Spec == Init /\ [][Next]_vars
-----------------------------------------------------------------------------
\* A credit whose timestamp is ahead of the clock is never held in the first
\* seconds of a period, when few others can have one (SafeNonceTimestamp,
\* case 3 of its comment; the wait in finalize).
NotIdentifiable ==
    credit = "held" /\ timestamp > RoundDownNonceTimestamp(now) =>
        now - RoundDownNonceTimestamp(now) >= SafeTime

\* A locker whose clock is off by no more than the skew accepts a credit at
\* least to the end of the period in its timestamp, whether the timestamp was
\* moved to the next period or not.
AcceptedInItsPeriod ==
    \A skew \in -Skew .. Skew :
        credit = "held" /\ now < timestamp + Quantum => ~IsExpiredAt(timestamp, now + skew)

\* Every timestamp is that of a whole period, and one of the next period does
\* not give its owner away (RandomNonce, finalize).
StampIsSafe == TypeOK /\ NotIdentifiable
=============================================================================
