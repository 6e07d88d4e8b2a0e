---------------------------- MODULE NonceLocker ----------------------------
(***************************************************************************)
(* The in-memory nonce locker ("credithole") of                            *)
(* anonpay/noncelocking/inmem/nonce_locker.go.                             *)
(*                                                                         *)
(* Every operation runs under the locker's mutex, so it is one atomic step *)
(* here.  The Go map of stored nonces is a total function: a nonce that is *)
(* not in the map has status "FREE".  A ticket is eight random bytes, drawn *)
(* fresh by LockNonce; it is modelled by the identity of the caller that   *)
(* was given it.  ConsumeNonce and ReleaseNonce take a ticket and, as in   *)
(* the code, never compare it with the stored one.                         *)
(***************************************************************************)
CONSTANTS Nonces,    \* the nonces of the credits in circulation
          Tickets,   \* what LockNonce may hand out
          NoTicket   \* the ticket of a nonce that is not stored

ASSUME NoTicketAssumption == NoTicket \notin Tickets

VARIABLES nonces,    \* NonceLocker.nonces
          expired    \* the nonces for which IsExpiredAt(time.Now()) holds

lockerVars == <<nonces, expired>>

Status == {"FREE", "LOCKED", "CONSUMED"}

StoredNonce == [status : Status, ticket : Tickets \cup {NoTicket}]

Absent == [status |-> "FREE", ticket |-> NoTicket]

LockerTypeOK ==
    /\ nonces \in [Nonces -> StoredNonce]
    /\ expired \subseteq Nonces

LockerInit ==
    /\ nonces = [n \in Nonces |-> Absent]
    /\ expired = {}
-----------------------------------------------------------------------------
(* What each operation answers in the current state. *)

\* Mutated form: only a locked nonce is refused.
LockResultForgetsConsumed(n) ==
    IF n \in expired THEN "InputError"
    ELSE IF nonces[n].status = "LOCKED" THEN "ErrNonceLocked" ELSE "ok"

\* Mutated form: only a consumed nonce is refused.
LockResultForgetsLocked(n) ==
    IF n \in expired THEN "InputError"
    ELSE IF nonces[n].status = "CONSUMED" THEN "ErrNonceConsumed" ELSE "ok"

LockResult(n) ==
    IF n \in expired THEN "InputError"
    ELSE CASE nonces[n].status = "LOCKED"   -> "ErrNonceLocked"
           [] nonces[n].status = "CONSUMED" -> "ErrNonceConsumed"
           [] OTHER                         -> "ok"

\* ConsumeNonce and ReleaseNonce answer alike: an error that says there is no
\* lock, ErrNonceConsumed, or success.  Neither looks at the expiry.
UnlockResult(n) ==
    CASE nonces[n].status = "FREE"     -> "NoLock"
      [] nonces[n].status = "CONSUMED" -> "ErrNonceConsumed"
      [] OTHER                         -> "ok"

(* What each operation does to the map; an error leaves it alone. *)

LockNonce(n, t) ==
    nonces' = IF LockResult(n) = "ok"
              THEN [nonces EXCEPT ![n] = [status |-> "LOCKED", ticket |-> t]]
              ELSE nonces

\* Mutated form: the ticket of a consumed nonce is overwritten.
ConsumeNonceAlways(n, t) ==
    nonces' = [nonces EXCEPT ![n] = [status |-> "CONSUMED", ticket |-> t]]

ConsumeNonce(n, t) ==
    nonces' = IF UnlockResult(n) = "ok"
              THEN [nonces EXCEPT ![n] = [status |-> "CONSUMED", ticket |-> t]]
              ELSE nonces

\* Mutated form: the entry is deleted whatever its status is.
ReleaseNonceAlways(n, t) == nonces' = [nonces EXCEPT ![n] = Absent]

ReleaseNonce(n, t) ==
    nonces' = IF UnlockResult(n) = "ok"
              THEN [nonces EXCEPT ![n] = Absent]
              ELSE nonces

\* Time passes and the nonce leaves the window that IsExpiredAt accepts.
Expire(n) ==
    /\ n \notin expired
    /\ expired' = expired \cup {n}
    /\ UNCHANGED nonces
=============================================================================
