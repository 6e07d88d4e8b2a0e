--------------------------- MODULE PaymentsProofs ---------------------------
(***************************************************************************)
(* Proofs about Payments, for any number of calls and credits, any number   *)
(* of attempts, and a locker that may answer late, twice or never.          *)
(***************************************************************************)
EXTENDS Payments, TLAPS

USE NoTicketAssumption, PaymentsAssumption

\* The locker's answer that a call has paid, or is about to learn that it has.
Paid(c) ==
    \/ pc[c] \in {"committed", "ok"}
    \/ pc[c] = "consume" /\ rpc[c].reply = "ok"

\* The strengthening: whoever has paid is the one that consumed the nonce.
PaidIsConsumed ==
    \A c \in Calls : Paid(c) =>
        nonces[CreditOf[c]] = [status |-> "CONSUMED", ticket |-> c]

Inv == TypeOK /\ PaidIsConsumed
-----------------------------------------------------------------------------
(* The locker's operations. *)

\* An executed attempt keeps the map a map of stored nonces.
LEMMA ServeType ==
    ASSUME NEW m \in Attempts, LockerTypeOK, Serve(m)
    PROVE  nonces' \in [Nonces -> StoredNonce]
<1> DEFINE n == CreditOf[m.call]
<1>0. n \in Nonces /\ m.call \in Tickets /\ m.op \in Ops
  BY DEF Attempts
<1>1. CASE m.op = "lock"
  BY <1>0, <1>1 DEF Serve, LockNonce, LockerTypeOK, StoredNonce, Status
<1>2. CASE m.op = "consume"
  BY <1>0, <1>2 DEF Serve, ConsumeNonce, LockerTypeOK, StoredNonce, Status
<1>3. CASE m.op = "release"
  BY <1>0, <1>3 DEF Serve, ReleaseNonce, LockerTypeOK, StoredNonce, Status, Absent
<1> QED
  BY <1>0, <1>1, <1>2, <1>3 DEF Ops

\* No operation changes a consumed nonce.
LEMMA ServeKeepsConsumed ==
    ASSUME NEW m \in Attempts, LockerTypeOK, Serve(m),
           NEW n \in Nonces, nonces[n].status = "CONSUMED"
    PROVE  nonces'[n] = nonces[n]
<1>0. CreditOf[m.call] \in Nonces /\ m.op \in Ops
  BY DEF Attempts
<1>1. CASE m.op = "lock"
  BY <1>0, <1>1 DEF Serve, LockNonce, LockResult, LockerTypeOK
<1>2. CASE m.op = "consume"
  BY <1>0, <1>2 DEF Serve, ConsumeNonce, UnlockResult, LockerTypeOK
<1>3. CASE m.op = "release"
  BY <1>0, <1>3 DEF Serve, ReleaseNonce, UnlockResult, LockerTypeOK
<1> QED
  BY <1>0, <1>1, <1>2, <1>3 DEF Ops

\* The caller of a consume that is answered ok has consumed the nonce.
LEMMA ServeConsumes ==
    ASSUME NEW m \in Attempts, LockerTypeOK, Serve(m),
           m.op = "consume", AnswerTo(m) = "ok"
    PROVE  nonces'[CreditOf[m.call]] = [status |-> "CONSUMED", ticket |-> m.call]
BY DEF Attempts, Serve, ConsumeNonce, AnswerTo, LockerTypeOK

\* Only a consume can make a nonce consumed, and only the caller's own.
LEMMA ServeRedeems ==
    ASSUME NEW m \in Attempts, LockerTypeOK, Serve(m),
           NEW n \in Nonces, nonces[n].status # "CONSUMED", nonces'[n].status = "CONSUMED"
    PROVE  /\ n = CreditOf[m.call]
           /\ nonces' = [nonces EXCEPT ![n] = [status |-> "CONSUMED", ticket |-> m.call]]
<1>0. CreditOf[m.call] \in Nonces /\ m.op \in Ops
  BY DEF Attempts
<1>1. CASE m.op = "lock"
  BY <1>0, <1>1 DEF Serve, LockNonce, LockerTypeOK, StoredNonce
<1>2. CASE m.op = "consume"
  BY <1>0, <1>2 DEF Serve, ConsumeNonce, LockerTypeOK, StoredNonce
<1>3. CASE m.op = "release"
  BY <1>0, <1>3 DEF Serve, ReleaseNonce, LockerTypeOK, StoredNonce, Absent
<1> QED
  BY <1>0, <1>1, <1>2, <1>3 DEF Ops
-----------------------------------------------------------------------------
(* What the steps of a handler do, whichever action takes them. *)

\* A handler's step of call c leaves the locker and the other calls alone, and
\* c is paid after it only if c was paid before it.
LEMMA HandleStep ==
    ASSUME TypeOK, NEW c \in Calls, Handle(c)
    PROVE  /\ TypeOK'
           /\ UNCHANGED lockerVars
           /\ \A d \in Calls \ {c} : pc'[d] = pc[d] /\ rpc'[d] = rpc[d]
           /\ Paid(c)' => Paid(c)
           /\ pc'[c] = "ok" => pc[c] \in {"committed", "ok"}
<1> USE DEF TypeOK
<1>1. ASSUME NEW op \in Ops, Invoke(c, op), UNCHANGED <<lockerVars, cancelled>>, served' \subseteq Calls
      PROVE  /\ TypeOK'
             /\ \A d \in Calls \ {c} : pc'[d] = pc[d] /\ rpc'[d] = rpc[d]
             /\ ~Paid(c)'
             /\ pc'[c] # "ok"
  BY <1>1 DEF Invoke, LockerTypeOK, lockerVars, PC, Ops, Outcomes, Attempts, Paid
<1>2. ASSUME NEW l \in PC, Goto(c, l), UNCHANGED <<lockerVars, cancelled>>, served' \subseteq Calls
      PROVE  /\ TypeOK'
             /\ \A d \in Calls \ {c} : pc'[d] = pc[d] /\ rpc'[d] = rpc[d]
             /\ Paid(c)' => l \in {"committed", "ok"}
             /\ pc'[c] = l
  BY <1>2 DEF Goto, LockerTypeOK, lockerVars, Paid
<1>3. ASSUME OpFails(c), UNCHANGED <<lockerVars, cancelled>>, served' \subseteq Calls
      PROVE  /\ TypeOK'
             /\ \A d \in Calls \ {c} : pc'[d] = pc[d] /\ rpc'[d] = rpc[d]
             /\ ~Paid(c)'
             /\ pc'[c] # "ok"
  BY <1>1, <1>2, <1>3 DEF OpFails, Ops, PC, Outcomes
<1>4. CASE Begin(c)
  BY <1>1, <1>4 DEF Begin, Ops
<1>5. CASE Refuse(c)
  BY <1>2, <1>5 DEF Refuse, PC, Outcomes
<1>6. CASE Return(c)
  <2> USE <1>6 DEF Return
  <2>1. CASE rpc[c].reply # "ok"
    BY <1>3, <2>1
  <2>2. CASE rpc[c].reply = "ok" /\ pc[c] = "lock"
    BY <1>2, <2>2 DEF PC
  <2>3. CASE rpc[c].reply = "ok" /\ pc[c] = "consume"
    BY <1>2, <2>3 DEF PC, Paid
  <2>4. CASE rpc[c].reply = "ok" /\ pc[c] = "release"
    BY <1>2, <2>4 DEF PC, Outcomes
  <2> QED
    BY <2>1, <2>2, <2>3, <2>4 DEF Ops
<1>7. CASE Retry(c)
  BY <1>7 DEF Retry, LockerTypeOK, lockerVars, Attempts, Paid, Ops
<1>8. CASE GiveUp(c)
  BY <1>3, <1>8 DEF GiveUp
<1>9. CASE DepositCommits(c) \/ EndResponse(c)
  BY <1>1, <1>2, <1>9 DEF DepositCommits, EndResponse, Commit, Ops, PC, Outcomes
<1>10. CASE Sign(c) \/ SignFails(c)
  BY <1>1, <1>10 DEF Sign, SignFails, Ops
<1>11. CASE StartResponse(c)
  BY <1>11 DEF StartResponse, LockerTypeOK, lockerVars, Paid
<1>12. CASE ProxyError(c)
  BY <1>1, <1>2, <1>12 DEF ProxyError, Rollback, Ops, PC, Outcomes
<1>13. CASE AbortResponse(c)
  BY <1>2, <1>13 DEF AbortResponse, PC, Outcomes
<1>14. CASE Complete(c)
  BY <1>2, <1>14 DEF Complete, PC, Outcomes, Paid
<1>15. CASE RefundFails(c)
  BY <1>2, <1>15 DEF RefundFails, PC, Outcomes
<1> QED
  BY <1>4, <1>5, <1>6, <1>7, <1>8, <1>9, <1>10, <1>11, <1>12, <1>13, <1>14, <1>15 DEF Handle
-----------------------------------------------------------------------------
\* Nobody has paid at the start (all calls idle, all nonces absent).
LEMMA InitInv == Init => Inv
BY DEF Init, Inv, TypeOK, LockerInit, LockerTypeOK, Absent, StoredNonce, Status,
       PC, PaidIsConsumed, Paid

\* An attempt that executes makes at most its own caller paid.
LEMMA ExecuteInv ==
    ASSUME Inv, NEW m \in inflight, Execute(m)
    PROVE  Inv'
<1> USE DEF Inv, TypeOK
<1>1. m \in Attempts /\ m.call \in Calls /\ m.op \in Ops /\ CreditOf[m.call] \in Nonces
  BY DEF Attempts
<1>2. AnswerTo(m) \in Answers
  BY <1>1 DEF AnswerTo, LockResult, UnlockResult, Answers
<1>3. TypeOK'
  <2>1. LockerTypeOK'
    BY <1>1, ServeType DEF Execute, LockerTypeOK
  <2>2. rpc' \in [Calls -> [try : 1 .. MaxTries, reply : Answers \cup {"none"}]]
    BY <1>1, <1>2 DEF Execute
  <2> QED
    BY <2>1, <2>2 DEF Execute
<1>4. PaidIsConsumed'
  <2> SUFFICES ASSUME NEW c \in Calls, Paid(c)'
               PROVE  nonces'[CreditOf[c]] = [status |-> "CONSUMED", ticket |-> c]
    BY DEF PaidIsConsumed
  <2>1. CASE Paid(c)
    <3>1. nonces[CreditOf[c]] = [status |-> "CONSUMED", ticket |-> c] /\ CreditOf[c] \in Nonces
      BY <2>1 DEF PaidIsConsumed
    <3> QED
      BY <1>1, <3>1, ServeKeepsConsumed DEF Execute
  <2>2. CASE ~Paid(c)
    <3>1. c = m.call /\ m.op = "consume" /\ AnswerTo(m) = "ok"
      BY <1>1, <2>2 DEF Paid, Execute, Awaits
    <3> QED
      BY <1>1, <3>1, ServeConsumes DEF Execute
  <2> QED
    BY <2>1, <2>2
<1> QED
  BY <1>3, <1>4

\* A step of a handler keeps the invariant: it does not touch the locker.
LEMMA HandleInv ==
    ASSUME Inv, NEW c \in Calls, Handle(c)
    PROVE  Inv'
<1>1. TypeOK'
  BY HandleStep DEF Inv
<1>2. PaidIsConsumed'
  BY HandleStep DEF Inv, PaidIsConsumed, Paid, lockerVars
<1> QED
  BY <1>1, <1>2 DEF Inv

\* The invariant is inductive: every action of Next, and stuttering, keep it.
LEMMA NextInv == Inv /\ [Next]_vars => Inv'
<1> SUFFICES ASSUME Inv, [Next]_vars PROVE Inv'
  OBVIOUS
<1>1. ASSUME NEW c \in Calls, Handle(c) PROVE Inv'
  BY <1>1, HandleInv
<1>2. ASSUME NEW m \in inflight, Execute(m) PROVE Inv'
  BY <1>2, ExecuteInv
<1>3. ASSUME NEW c \in Calls, Cancel(c) PROVE Inv'
  BY <1>3 DEF Inv, TypeOK, LockerTypeOK, PaidIsConsumed, Paid, Cancel, lockerVars
<1>4. ASSUME NEW n \in Nonces, ExpireNonce(n) PROVE Inv'
  BY <1>4 DEF Inv, TypeOK, LockerTypeOK, PaidIsConsumed, Paid, ExpireNonce, Expire, callVars
<1>5. CASE UNCHANGED vars
  BY <1>5 DEF Inv, TypeOK, LockerTypeOK, PaidIsConsumed, Paid, vars
<1> QED
  BY <1>1, <1>2, <1>3, <1>4, <1>5 DEF Next, Rest

\* The inductive invariant: types, and whoever has paid consumed the nonce.
THEOREM Invariance == Spec => []Inv
BY InitInv, NextInv, PTL DEF Spec
-----------------------------------------------------------------------------
\* Every variable keeps its type in every state (all calls, all retries).
THEOREM TypeCorrect == Spec => []TypeOK
<1>1. Inv => TypeOK
  BY DEF Inv
<1> QED
  BY <1>1, Invariance, PTL

\* A credit is never spent twice: of all the deposits, exchanges and requests
\* that present it at most one succeeds, however many there are and however
\* late their attempts execute at the locker.
THEOREM SpendOnce == Spec => []NoDoubleSpend
<1>1. Inv => NoDoubleSpend
  <2> SUFFICES ASSUME Inv, NEW c \in Granted, NEW d \in Granted, CreditOf[c] = CreditOf[d]
               PROVE  c = d
    BY DEF NoDoubleSpend
  <2>1. /\ nonces[CreditOf[c]] = [status |-> "CONSUMED", ticket |-> c]
        /\ nonces[CreditOf[d]] = [status |-> "CONSUMED", ticket |-> d]
    BY DEF Inv, PaidIsConsumed, Paid, Granted
  <2>2. [status |-> "CONSUMED", ticket |-> c].ticket = [status |-> "CONSUMED", ticket |-> d].ticket
    BY <2>1
  <2> QED
    BY <2>2
<1> QED
  BY <1>1, Invariance, PTL

\* No action changes an entry of the locker that is consumed.
LEMMA NextKeepsConsumed ==
    ASSUME Inv, [Next]_vars, NEW n \in Nonces, nonces[n].status = "CONSUMED"
    PROVE  nonces'[n] = nonces[n]
<1>1. ASSUME NEW c \in Calls, Handle(c) PROVE nonces' = nonces
  BY <1>1, HandleStep DEF Inv, lockerVars
<1>2. ASSUME NEW m \in inflight, Execute(m) PROVE nonces'[n] = nonces[n]
  BY <1>2, ServeKeepsConsumed DEF Inv, TypeOK, Execute
<1>3. ASSUME NEW c \in Calls, Cancel(c) PROVE nonces' = nonces
  BY <1>3 DEF Cancel, lockerVars
<1>4. ASSUME NEW k \in Nonces, ExpireNonce(k) PROVE nonces' = nonces
  BY <1>4 DEF ExpireNonce, Expire
<1>5. CASE UNCHANGED vars
  BY <1>5 DEF vars
<1> QED
  BY <1>1, <1>2, <1>3, <1>4, <1>5 DEF Next, Rest

\* A consumed nonce is never released, and keeps the ticket it was consumed
\* with: Release after Consume, a late Release and a second Consume are inert.
THEOREM ConsumedForGood == Spec => ConsumedIsFinal
<1>1. Inv /\ [Next]_vars =>
        [\A n \in Nonces : nonces[n].status = "CONSUMED" => nonces'[n] = nonces[n]]_vars
  BY NextKeepsConsumed
<1> QED
  BY <1>1, Invariance, PTL DEF Spec, ConsumedIsFinal
-----------------------------------------------------------------------------
(* The refinement: Redeem is the Consume that succeeds at the locker, Grant  *)
(* is the handler's last step; every other step stutters.                    *)

\* The initial states map to the initial state of the ledger.
LEMMA InitLedger == Init => Ledger!Init
BY DEF Init, LockerInit, Absent, Ledger!Init, Redeemer, Granted

\* An attempt that executes is a Redeem by its caller, or a stutter.
LEMMA ExecuteRefines ==
    ASSUME Inv, NEW m \in inflight, Execute(m)
    PROVE  Ledger!Redeem(m.call) \/ UNCHANGED <<Redeemer, Granted>>
<1> USE DEF Inv, TypeOK
<1>1. m \in Attempts /\ m.call \in Calls /\ CreditOf[m.call] \in Nonces /\ Serve(m)
  BY DEF Attempts, Execute
<1>2. Granted' = Granted
  BY DEF Granted, Execute
<1>3. \A n \in Nonces : nonces[n].status = "CONSUMED" => nonces'[n] = nonces[n]
  BY <1>1, ServeKeepsConsumed
<1>4. CASE \A n \in Nonces : nonces'[n].status = "CONSUMED" => nonces[n].status = "CONSUMED"
  BY <1>2, <1>3, <1>4 DEF Redeemer
<1>5. ASSUME NEW n \in Nonces, nonces[n].status # "CONSUMED", nonces'[n].status = "CONSUMED"
      PROVE  Ledger!Redeem(m.call)
  <2>1. /\ n = CreditOf[m.call]
        /\ nonces' = [nonces EXCEPT ![n] = [status |-> "CONSUMED", ticket |-> m.call]]
    BY <1>1, <1>5, ServeRedeems
  <2>2. Redeemer' = [Redeemer EXCEPT ![n] = m.call]
    BY <2>1 DEF Redeemer, LockerTypeOK
  <2>3. Redeemer[n] = NoTicket
    BY <1>5 DEF Redeemer
  <2> QED
    BY <1>2, <2>1, <2>2, <2>3 DEF Ledger!Redeem
<1> QED
  BY <1>4, <1>5

\* A handler's step is a Grant (Complete) or a stutter of the ledger.
LEMMA HandleRefines ==
    ASSUME Inv, NEW c \in Calls, Handle(c)
    PROVE  Ledger!Grant(c) \/ UNCHANGED <<Redeemer, Granted>>
<1> USE DEF Inv
<1>1. /\ nonces' = nonces
      /\ \A d \in Calls \ {c} : pc'[d] = pc[d]
      /\ pc'[c] = "ok" => pc[c] \in {"committed", "ok"}
  BY HandleStep DEF lockerVars
<1>2. Redeemer' = Redeemer
  BY <1>1 DEF Redeemer
<1>3. CASE pc'[c] = "ok"
  <2>1. Granted' = Granted \cup {c}
    BY <1>1, <1>3 DEF Granted
  <2>2. nonces[CreditOf[c]] = [status |-> "CONSUMED", ticket |-> c] /\ CreditOf[c] \in Nonces
    BY <1>1, <1>3 DEF PaidIsConsumed, Paid
  <2> QED
    BY <1>2, <2>1, <2>2 DEF Ledger!Grant, Redeemer
<1>4. CASE pc'[c] # "ok" /\ pc[c] # "ok"
  BY <1>1, <1>2, <1>4 DEF Granted
<1>5. pc[c] # "ok"
  BY DEF Handle, Begin, Refuse, Return, Retry, GiveUp, DepositCommits, Sign, SignFails,
         StartResponse, EndResponse, ProxyError, AbortResponse, Complete, RefundFails, Ops
<1> QED
  BY <1>3, <1>4, <1>5

\* Every step of the system is a step of the ledger or a stutter.
LEMMA NextRefines ==
    ASSUME Inv, [Next]_vars
    PROVE  [Ledger!Next]_<<Redeemer, Granted>>
<1>1. ASSUME NEW c \in Calls, Handle(c) PROVE [Ledger!Next]_<<Redeemer, Granted>>
  BY <1>1, HandleRefines DEF Ledger!Next
<1>2. ASSUME NEW m \in inflight, Execute(m) PROVE [Ledger!Next]_<<Redeemer, Granted>>
  <2>1. m.call \in Calls
    BY DEF Inv, TypeOK, Attempts
  <2> QED
    BY <1>2, <2>1, ExecuteRefines DEF Ledger!Next
<1>3. ASSUME NEW c \in Calls, Cancel(c) PROVE UNCHANGED <<Redeemer, Granted>>
  BY <1>3 DEF Cancel, lockerVars, Redeemer, Granted
<1>4. ASSUME NEW n \in Nonces, ExpireNonce(n) PROVE UNCHANGED <<Redeemer, Granted>>
  BY <1>4 DEF ExpireNonce, Expire, callVars, Redeemer, Granted
<1>5. CASE UNCHANGED vars
  BY <1>5 DEF vars, Redeemer, Granted
<1> QED
  BY <1>1, <1>2, <1>3, <1>4, <1>5 DEF Next, Rest

\* The locker, its HTTP client with late and repeated attempts, and the four
\* handlers implement the abstract ledger of credits.
THEOREM ImplementsLedger == Spec => LedgerSpec
<1>1. Inv /\ [Next]_vars => [Ledger!Next]_<<Redeemer, Granted>>
  BY NextRefines
<1> QED
  BY <1>1, InitLedger, Invariance, PTL DEF Spec, LedgerSpec, Ledger!Spec
-----------------------------------------------------------------------------
(* A locker that answers every attempt (~Lossy).  Then a lock does belong to *)
(* the call that works under it, which the properties below rest on.        *)

\* The call's ticket is in its nonce's entry.
Holds(c)       == nonces[CreditOf[c]] = [status |-> "LOCKED", ticket |-> c]
HasConsumed(c) == nonces[CreditOf[c]] = [status |-> "CONSUMED", ticket |-> c]

\* A ticket is written only to the entry of its own call's credit.
EntryOK(n) ==
    nonces[n].status # "FREE" => nonces[n].ticket \in Calls /\ CreditOf[nonces[n].ticket] = n

\* A call has one attempt under way.  It is waited for unless the call was
\* cancelled, and one that will consume or release finds the call's own lock.
AttemptsOK(c) ==
    \A m \in inflight : m.call = c =>
        /\ \A k \in inflight : k.call = c => k = m
        /\ m.try = 1 /\ rpc[c].reply = "none"
        /\ m.op # "lock" => Holds(c)
        /\ m.op = "release" => c \notin served
        /\ \/ pc[c] = m.op
           \/ c \in cancelled /\ pc[c] = "error"
           \/ c \in cancelled /\ pc[c] = "release" /\ m.op = "consume"

\* Where a call is while it holds its lock ...
HoldsWhile(c) ==
    \/ pc[c] = "lock" /\ rpc[c].reply = "ok"
    \/ pc[c] = "open"
    \/ pc[c] \in {"consume", "release"} /\ rpc[c].reply = "none"
    \/ c \in cancelled
    \/ KindOf[c] = "spend" /\ c \in served

\* ... and once it has consumed its credit.
ConsumedWhile(c) ==
    \/ pc[c] \in {"consume", "committed", "ok"}
    \/ c \in cancelled
    \/ pc[c] = "error" /\ KindOf[c] = "spend"

CallOK(c) ==
    /\ rpc[c].try = 1 /\ rpc[c].reply # "NoLock"
    /\ pc[c] = "lock" /\ rpc[c].reply = "ok" => Holds(c)
    /\ pc[c] = "open" => Holds(c)
    /\ pc[c] = "consume" => (rpc[c].reply = "none" /\ Holds(c)) \/ rpc[c].reply = "ok"
    /\ pc[c] = "release" /\ c \notin cancelled =>
         (rpc[c].reply = "none" /\ Holds(c)) \/ rpc[c].reply = "ok"
    /\ Holds(c) => HoldsWhile(c)
    /\ HasConsumed(c) => ConsumedWhile(c)
    /\ c \in served => KindOf[c] \in {"spend", "manifests"} /\ (Holds(c) \/ HasConsumed(c))
    /\ c \in served /\ pc[c] = "release" => c \in cancelled
    /\ KindOf[c] = "deposit" /\ c \notin cancelled => pc[c] # "release"

Reliable ==
    /\ \A n \in Nonces : EntryOK(n)
    /\ \A c \in Calls : CallOK(c) /\ AttemptsOK(c)

\* At the start no call holds or waits for anything.
LEMMA InitReliable == Init => Reliable
BY DEF Init, LockerInit, Absent, Reliable, EntryOK, CallOK, AttemptsOK, Holds, HasConsumed

\* A handler's step keeps what holds of its own call ...
LEMMA HandleOwn ==
    ASSUME ~Lossy, Inv, Reliable, NEW c \in Calls, Handle(c)
    PROVE  CallOK(c)' /\ AttemptsOK(c)'
<1> USE DEF Inv, TypeOK
<1>1. /\ nonces' = nonces /\ cancelled' = cancelled
      /\ CallOK(c) /\ AttemptsOK(c)
  BY HandleStep DEF lockerVars, Reliable, Handle, Begin, Refuse, Return, Retry, GiveUp,
        DepositCommits, Sign, SignFails, StartResponse, EndResponse, ProxyError,
        AbortResponse, Complete, RefundFails
<1>2. \A m \in inflight : m.op \in Ops
  BY DEF Attempts
<1> USE DEF HoldsWhile, ConsumedWhile, Holds, HasConsumed, Ops
<1>4. CASE Begin(c)
  BY <1>1, <1>2, <1>4 DEF Begin, Invoke, CallOK, AttemptsOK
<1>5. CASE Refuse(c)
  BY <1>1, <1>2, <1>5 DEF Refuse, Goto, CallOK, AttemptsOK, Ops
<1>6. CASE Return(c)
  <2> USE <1>6 DEF Return, Goto, CallOK, AttemptsOK
  <2>1. CASE rpc[c].reply # "ok"
    BY <1>1, <1>2, <2>1 DEF OpFails, Ops
  <2>2. CASE rpc[c].reply = "ok" /\ pc[c] = "lock"
    BY <1>1, <1>2, <2>2
  <2>3. CASE rpc[c].reply = "ok" /\ pc[c] = "consume"
    BY <1>1, <1>2, <2>3
  <2>4. CASE rpc[c].reply = "ok" /\ pc[c] = "release"
    BY <1>1, <1>2, <2>4
  <2> QED
    BY <2>1, <2>2, <2>3, <2>4 DEF Ops
<1>7. CASE Retry(c)
  BY <1>1, <1>7 DEF Retry, CallOK
<1>8. CASE GiveUp(c)
  BY <1>1, <1>2, <1>8 DEF GiveUp, OpFails, Invoke, Goto, CallOK, AttemptsOK, Ops
<1>9. CASE DepositCommits(c) \/ EndResponse(c)
  BY <1>1, <1>2, <1>9 DEF DepositCommits, EndResponse, Commit, Invoke, Goto, CallOK, AttemptsOK, Ops
<1>10. CASE Sign(c) \/ SignFails(c)
  BY <1>1, <1>2, <1>10 DEF Sign, SignFails, Invoke, CallOK, AttemptsOK, Ops
<1>11. CASE StartResponse(c)
  BY <1>1, <1>2, <1>11 DEF StartResponse, CallOK, AttemptsOK, Ops
<1>12. CASE ProxyError(c)
  BY <1>1, <1>2, <1>12 DEF ProxyError, Rollback, Invoke, Goto, CallOK, AttemptsOK, Ops
<1>13. CASE AbortResponse(c)
  BY <1>1, <1>2, <1>13 DEF AbortResponse, Goto, CallOK, AttemptsOK, Ops
<1>14. CASE Complete(c)
  BY <1>1, <1>2, <1>14 DEF Complete, Goto, CallOK, AttemptsOK, Ops
<1>15. CASE RefundFails(c)
  BY <1>1, <1>2, <1>15 DEF RefundFails, Goto, CallOK, AttemptsOK, Ops
<1> QED
  BY <1>4, <1>5, <1>6, <1>7, <1>8, <1>9, <1>10, <1>11, <1>12, <1>13, <1>14, <1>15 DEF Handle

\* ... and leaves the other calls, their attempts and the locker alone.
LEMMA HandleReliable ==
    ASSUME ~Lossy, Inv, Reliable, NEW c \in Calls, Handle(c)
    PROVE  Reliable'
<1>1. /\ nonces' = nonces
      /\ \A d \in Calls \ {c} : pc'[d] = pc[d] /\ rpc'[d] = rpc[d]
  BY HandleStep DEF Inv, lockerVars
<1>2. /\ cancelled' = cancelled
      /\ \A d \in Calls \ {c} : d \in served' <=> d \in served
      /\ \A m \in inflight' \ inflight : m.call = c
      /\ inflight \subseteq inflight'
  <2>1. CASE Begin(c) \/ Sign(c) \/ SignFails(c) \/ Retry(c) \/ StartResponse(c)
    BY <2>1 DEF Begin, Sign, SignFails, Retry, StartResponse, Invoke
  <2>2. CASE Refuse(c) \/ AbortResponse(c) \/ Complete(c) \/ RefundFails(c)
    BY <2>2 DEF Refuse, AbortResponse, Complete, RefundFails, Goto
  <2>3. CASE Return(c) \/ GiveUp(c)
    <3>1. OpFails(c) \/ Goto(c, "open") \/ Goto(c, "committed") \/ Goto(c, "error")
      BY <2>3 DEF Return, GiveUp, Ops
    <3>2. UNCHANGED <<cancelled, served>>
      BY <2>3 DEF Return, GiveUp
    <3>3. OpFails(c) => Invoke(c, "release") \/ Goto(c, "error")
      BY DEF OpFails
    <3> QED
      BY <3>1, <3>2, <3>3 DEF Invoke, Goto
  <2>4. CASE DepositCommits(c) \/ EndResponse(c) \/ ProxyError(c)
    BY <2>4 DEF DepositCommits, EndResponse, ProxyError, Commit, Rollback, Invoke, Goto
  <2> QED
    BY <2>1, <2>2, <2>3, <2>4 DEF Handle
<1>3. ASSUME NEW d \in Calls \ {c} PROVE CallOK(d)' /\ AttemptsOK(d)'
  BY <1>1, <1>2 DEF Reliable, CallOK, AttemptsOK, Holds, HasConsumed, HoldsWhile, ConsumedWhile
<1>4. \A n \in Nonces : EntryOK(n)'
  BY <1>1 DEF Reliable, EntryOK
<1> QED
  BY <1>3, <1>4, HandleOwn DEF Reliable

\* What executing an attempt does to the entry of its nonce.
LEMMA ServeWrites ==
    ASSUME Inv, NEW m \in inflight, Execute(m), NEW n, n = CreditOf[m.call]
    PROVE  \/ nonces' = nonces /\ AnswerTo(m) # "ok"
           \/ /\ AnswerTo(m) = "ok"
              /\ m.op = "lock" /\ nonces[n].status = "FREE" /\ n \notin expired
              /\ nonces' = [nonces EXCEPT ![n] = [status |-> "LOCKED", ticket |-> m.call]]
           \/ /\ AnswerTo(m) = "ok"
              /\ m.op = "consume" /\ nonces[n].status = "LOCKED"
              /\ nonces' = [nonces EXCEPT ![n] = [status |-> "CONSUMED", ticket |-> m.call]]
           \/ /\ AnswerTo(m) = "ok"
              /\ m.op = "release" /\ nonces[n].status = "LOCKED"
              /\ nonces' = [nonces EXCEPT ![n] = Absent]
<1>1. m \in Attempts /\ n \in Nonces /\ m.op \in Ops /\ nonces[n].status \in Status
  BY DEF Inv, TypeOK, LockerTypeOK, StoredNonce, Attempts
<1>2. CASE m.op = "lock"
  BY <1>1, <1>2 DEF Execute, Serve, LockNonce, LockResult, AnswerTo, Status
<1>3. CASE m.op = "consume"
  BY <1>1, <1>3 DEF Execute, Serve, ConsumeNonce, UnlockResult, AnswerTo, Status
<1>4. CASE m.op = "release"
  BY <1>1, <1>4 DEF Execute, Serve, ReleaseNonce, UnlockResult, AnswerTo, Status
<1> QED
  BY <1>1, <1>2, <1>3, <1>4 DEF Ops

\* An attempt that executes finds its call's own lock, or a free nonce.
LEMMA ExecuteReliable ==
    ASSUME ~Lossy, Inv, Reliable, NEW m \in inflight, Execute(m)
    PROVE  Reliable'
<1> DEFINE c == m.call
           n == CreditOf[c]
<1> USE DEF Inv, TypeOK
<1>1. /\ m \in Attempts /\ c \in Calls /\ m.op \in Ops /\ n \in Nonces
      /\ CallOK(c) /\ AttemptsOK(c) /\ EntryOK(n)
      /\ nonces \in [Nonces -> StoredNonce] /\ nonces[n].status \in Status
  BY DEF Attempts, Reliable, LockerTypeOK, StoredNonce
<1>2. /\ pc' = pc /\ cancelled' = cancelled /\ served' = served /\ inflight' = inflight \ {m}
      /\ \A d \in Calls \ {c} : rpc'[d] = rpc[d]
      /\ rpc'[c].try = 1
      /\ rpc'[c].reply = IF pc[c] = m.op THEN AnswerTo(m) ELSE "none"
  BY <1>1 DEF Execute, Awaits, AttemptsOK, CallOK
<1>3. \A k \in inflight' : k.call # c
  BY <1>1, <1>2 DEF AttemptsOK
<1>4. AnswerTo(m) \in Answers
  BY <1>1 DEF AnswerTo, LockResult, UnlockResult, Answers
<1>5. /\ m.op # "lock" => Holds(c) /\ AnswerTo(m) = "ok"
      /\ m.op = "lock" => AnswerTo(m) # "NoLock"
  BY <1>1 DEF AttemptsOK, Holds, AnswerTo, UnlockResult, LockResult
<1>6. ASSUME NEW k \in Nonces PROVE EntryOK(k)'
  BY <1>1, ServeWrites DEF EntryOK, Reliable, Absent
<1>7. CallOK(c)'
  <2> USE DEF CallOK, HoldsWhile, ConsumedWhile, Holds, HasConsumed
  <2>1. CASE AnswerTo(m) # "ok"
    <3>1. nonces' = nonces /\ m.op = "lock" /\ AnswerTo(m) # "NoLock"
      BY <1>5, <2>1, ServeWrites
    <3> QED
      BY <1>1, <1>2, <2>1, <3>1 DEF AttemptsOK
  <2>2. CASE m.op = "lock" /\ AnswerTo(m) = "ok"
    BY <1>1, <1>2, <1>5, <2>2, ServeWrites DEF AttemptsOK
  <2>3. CASE m.op = "consume"
    BY <1>1, <1>2, <1>5, <2>3, ServeWrites DEF AttemptsOK
  <2>4. CASE m.op = "release"
    BY <1>1, <1>2, <1>5, <2>4, ServeWrites DEF AttemptsOK, Absent
  <2> QED
    BY <1>1, <2>1, <2>2, <2>3, <2>4 DEF Ops
<1>8. ASSUME NEW d \in Calls \ {c} PROVE CallOK(d)' /\ AttemptsOK(d)'
  <2>1. CallOK(d) /\ AttemptsOK(d) /\ CreditOf[d] \in Nonces
    BY DEF Reliable
  <2>2. (Holds(d)' <=> Holds(d)) /\ (HasConsumed(d)' <=> HasConsumed(d))
    BY <1>1, <1>5, ServeWrites DEF Holds, HasConsumed, EntryOK, Absent
  <2> QED
    BY <1>2, <2>1, <2>2 DEF CallOK, AttemptsOK, HoldsWhile, ConsumedWhile
<1>9. AttemptsOK(c)'
  BY <1>3 DEF AttemptsOK
<1> QED
  BY <1>6, <1>7, <1>8, <1>9 DEF Reliable

\* Reliable is inductive relative to Inv.
LEMMA NextReliable ==
    ASSUME ~Lossy, Inv, Reliable, [Next]_vars
    PROVE  Reliable'
<1>1. ASSUME NEW c \in Calls, Handle(c) PROVE Reliable'
  BY <1>1, HandleReliable
<1>2. ASSUME NEW m \in inflight, Execute(m) PROVE Reliable'
  BY <1>2, ExecuteReliable
<1> USE DEF Reliable, EntryOK, CallOK, AttemptsOK, HoldsWhile, ConsumedWhile, Holds, HasConsumed
<1>3. ASSUME NEW c \in Calls, Cancel(c) PROVE Reliable'
  BY <1>3 DEF Cancel, lockerVars
<1>4. ASSUME NEW n \in Nonces, ExpireNonce(n) PROVE Reliable'
  BY <1>4 DEF ExpireNonce, Expire, callVars
<1>5. CASE UNCHANGED vars
  BY <1>5 DEF vars
<1> QED
  BY <1>1, <1>2, <1>3, <1>4, <1>5 DEF Next, Rest

\* With a locker that answers, Reliable holds in every state.
THEOREM ReliableInvariance ==
    ASSUME ~Lossy
    PROVE  Spec => []Reliable
<1>1. Inv /\ Reliable /\ [Next]_vars => Reliable'
  BY NextReliable
<1> QED
  BY <1>1, InitReliable, Invariance, PTL DEF Spec

\* With a locker that answers, an open transaction owns its lock, and a lock
\* whose call has ended is that of a cancelled call or of a response that
\* broke off: no error path of Processor, Exchanger or the handlers forgets it.
THEOREM LocksFollowCalls ==
    ASSUME ~Lossy
    PROVE  Spec => []LockFollowsCall
<1>1. Reliable /\ Inv => HoldsItsLock
  BY DEF Reliable, CallOK, Holds, HoldsItsLock
<1>2. Reliable /\ Inv => NoLeakedLock
  <2> SUFFICES ASSUME Reliable, Inv, NEW n \in Nonces, nonces[n].status = "LOCKED",
                      Ended(nonces[n].ticket)
               PROVE  LET c == nonces[n].ticket
                      IN c \in cancelled \/ (KindOf[c] = "spend" /\ c \in served)
    BY DEF NoLeakedLock
  <2>1. nonces[n].ticket \in Calls /\ CreditOf[nonces[n].ticket] = n
    BY DEF Reliable, EntryOK
  <2>2. Holds(nonces[n].ticket)
    BY <2>1 DEF Holds, Inv, TypeOK, LockerTypeOK, StoredNonce
  <2> QED
    BY <2>1, <2>2 DEF Reliable, CallOK, HoldsWhile, Ended, Outcomes
<1> QED
  BY <1>1, <1>2, ReliableInvariance, Invariance, PTL DEF LockFollowsCall

\* With a locker that answers, a credit buys at most one response, started or
\* complete, although the response is sent before the commit.
THEOREM OneResponsePerCredit ==
    ASSUME ~Lossy
    PROVE  Spec => []ServedOnce
<1>1. Reliable /\ Inv => ServedOnce
  <2> SUFFICES ASSUME Reliable, Inv, NEW c \in served, NEW d \in served, CreditOf[c] = CreditOf[d]
               PROVE  c = d
    BY DEF ServedOnce
  <2>1. \A e \in served : Holds(e) \/ HasConsumed(e)
    BY DEF Reliable, Inv, TypeOK, CallOK
  <2>2. ASSUME NEW e \in served PROVE nonces[CreditOf[e]].ticket = e
    <3>1. CASE Holds(e)
      BY <3>1 DEF Holds
    <3>2. CASE HasConsumed(e)
      BY <3>2 DEF HasConsumed
    <3> QED
      BY <2>1, <3>1, <3>2
  <2> QED
    BY <2>2
<1> QED
  BY <1>1, ReliableInvariance, Invariance, PTL
-----------------------------------------------------------------------------
(* Racing deposits. *)

\* All calls that present n are deposits that nobody has cancelled.
Racing(n) == \A c \in Calls : CreditOf[c] = n => KindOf[c] = "deposit" /\ c \notin cancelled

\* A call that was turned away was so by another one's ticket, which stays.
RaceOn ==
    /\ expired = {}
    /\ \A c \in Calls :
          /\ Racing(CreditOf[c])
          /\ \/ pc[c] = "error"
             \/ pc[c] = "lock" /\ rpc[c].reply \notin {"none", "ok"}
          => nonces[CreditOf[c]].status # "FREE"

\* No deposit in a race releases, so a nonce that was taken stays taken.
LEMMA NextRaceOn ==
    ASSUME ~Lossy, MayExpire = {}, Inv, Reliable, RaceOn, [Next]_vars
    PROVE  RaceOn'
<1> USE DEF Inv, TypeOK, RaceOn
<1>1. ASSUME NEW c \in Calls, Handle(c) PROVE RaceOn'
  <2>1. /\ nonces' = nonces /\ expired' = expired /\ cancelled' = cancelled
        /\ \A d \in Calls \ {c} : pc'[d] = pc[d] /\ rpc'[d] = rpc[d]
    BY <1>1, HandleStep DEF lockerVars, Handle, Begin, Refuse, Return, Retry, GiveUp,
         DepositCommits, Sign, SignFails, StartResponse, EndResponse, ProxyError,
         AbortResponse, Complete, RefundFails
  <2>2. ASSUME Racing(CreditOf[c]),
               pc'[c] = "error" \/ (pc'[c] = "lock" /\ rpc'[c].reply \notin {"none", "ok"})
        PROVE  nonces[CreditOf[c]].status # "FREE"
    <3>1. KindOf[c] = "deposit" /\ c \notin cancelled /\ CallOK(c)
      BY <2>2 DEF Racing, Reliable
    <3>2. CASE Return(c) \/ GiveUp(c) \/ Retry(c)
      BY <2>2, <3>1, <3>2 DEF Return, GiveUp, Retry, OpFails, Invoke, Goto, Ops, CallOK
    <3>3. CASE Begin(c) \/ Refuse(c) \/ DepositCommits(c) \/ Complete(c) \/ RefundFails(c)
      BY <2>2, <3>1, <3>3 DEF Begin, Refuse, DepositCommits, Complete, RefundFails, Commit,
         Invoke, Goto
    <3>4. CASE StartResponse(c) \/ EndResponse(c) \/ ProxyError(c) \/ AbortResponse(c)
               \/ Sign(c) \/ SignFails(c)
      BY <3>1, <3>4 DEF StartResponse, EndResponse, ProxyError, AbortResponse, Sign, SignFails, CallOK
    <3> QED
      BY <1>1, <3>2, <3>3, <3>4 DEF Handle
  <2> QED
    BY <2>1, <2>2 DEF Racing
<1>2. ASSUME NEW m \in inflight, Execute(m) PROVE RaceOn'
  <2> DEFINE c == m.call
             n == CreditOf[c]
  <2>1. /\ m \in Attempts /\ c \in Calls /\ m.op \in Ops /\ n \in Nonces
        /\ CallOK(c) /\ AttemptsOK(c) /\ nonces \in [Nonces -> StoredNonce]
    BY DEF Attempts, Reliable, LockerTypeOK
  <2>2. /\ pc' = pc /\ cancelled' = cancelled /\ expired' = expired
        /\ \A d \in Calls \ {c} : rpc'[d] = rpc[d]
        /\ pc[c] = "lock" /\ rpc'[c].reply # rpc[c].reply => m.op = "lock" /\ rpc'[c].reply = AnswerTo(m)
    BY <1>2, <2>1 DEF Execute, Awaits
  <2>3. ASSUME Racing(n) PROVE m.op # "release"
    BY <2>1, <2>3 DEF Racing, AttemptsOK, CallOK
  <2>4. \A k \in Nonces : Racing(k) /\ nonces[k].status # "FREE" => nonces'[k].status # "FREE"
    BY <1>2, <2>1, <2>3, ServeWrites
  <2>5. m.op = "lock" /\ AnswerTo(m) # "ok" => nonces'[n].status # "FREE"
    BY <1>2, <2>1, ServeWrites DEF AnswerTo, LockResult, StoredNonce, Status
  <2> QED
    BY <2>1, <2>2, <2>4, <2>5 DEF Racing
<1>3. ASSUME NEW c \in Calls, Cancel(c) PROVE RaceOn'
  BY <1>3 DEF Cancel, lockerVars, Racing
<1>4. ASSUME NEW n \in Nonces, ExpireNonce(n) PROVE RaceOn'
  BY <1>4 DEF ExpireNonce
<1>5. CASE UNCHANGED vars
  BY <1>5 DEF vars, Racing
<1> QED
  BY <1>1, <1>2, <1>3, <1>4, <1>5 DEF Next, Rest

\* With a locker that answers and credits that do not expire meanwhile, racing
\* deposits do not all fail, and one that fails has not consumed its credit.
THEOREM DepositsAreSettled ==
    ASSUME ~Lossy, MayExpire = {}
    PROVE  Spec => []DepositsSettle
<1>1. Init => RaceOn
  BY DEF Init, LockerInit, RaceOn
<1>2. Inv /\ Reliable /\ RaceOn /\ [Next]_vars => RaceOn'
  BY NextRaceOn
<1>3. Inv /\ Reliable => DepositAllOrNothing
  BY DEF Reliable, CallOK, HasConsumed, ConsumedWhile, DepositAllOrNothing
<1>4. Inv /\ Reliable /\ RaceOn => RaceHasWinner
  <2> SUFFICES ASSUME Inv, Reliable, RaceOn, NEW n \in Nonces,
                      \A c \in Calls : CreditOf[c] = n =>
                          KindOf[c] = "deposit" /\ c \notin cancelled /\ Ended(c),
                      NEW d \in Calls, CreditOf[d] = n, pc[d] # "refused"
               PROVE  \E c \in Calls : CreditOf[c] = n /\ pc[c] = "ok"
    BY DEF RaceHasWinner, Granted
  <2>1. CASE pc[d] = "ok"
    BY <2>1
  <2>2. CASE pc[d] = "error"
    <3> DEFINE t == nonces[n].ticket
    <3>1. nonces[n].status \in {"LOCKED", "CONSUMED"} /\ nonces[n] \in StoredNonce
      BY <2>2 DEF RaceOn, Racing, Inv, TypeOK, LockerTypeOK, StoredNonce, Status
    <3>2. t \in Calls /\ CreditOf[t] = n
      BY <3>1 DEF Reliable, EntryOK
    <3>3. CallOK(t) /\ Ended(t) /\ KindOf[t] = "deposit" /\ t \notin cancelled
      BY <3>2 DEF Reliable
    <3>4. Holds(t) \/ HasConsumed(t)
      BY <3>1, <3>2 DEF Holds, HasConsumed, StoredNonce
    <3>5. pc[t] = "ok"
      BY <3>3, <3>4 DEF CallOK, HoldsWhile, ConsumedWhile, Ended, Outcomes
    <3> QED
      BY <3>2, <3>5
  <2> QED
    BY <2>1, <2>2 DEF Ended, Outcomes
<1> QED
  BY <1>1, <1>2, <1>3, <1>4, ReliableInvariance, Invariance, PTL DEF Spec, DepositsSettle
=============================================================================
