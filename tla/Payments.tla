------------------------------ MODULE Payments ------------------------------
(***************************************************************************)
(* Everything that redeems an anonymous credit, over the HTTP nonce locker: *)
(*   - Processor.BeginTransaction / Commit / CommitWithUnspend / Rollback   *)
(*     (anonpay/processor.go) and Exchanger.Exchange (anonpay/exchanger.go);*)
(*   - their callers: Bank.Deposit and Bank.Exchange                        *)
(*     (anonpay/banking/inmem/bank.go), and the router's proxy and compute- *)
(*     manifests handlers (router/http_handler.go);                         *)
(*   - the locker's HTTP client with its retries                            *)
(*     (anonpay/noncelocking/httpapi/client.go, httpretry/httpretry.go).    *)
(*                                                                         *)
(* A call is one request that presents a credit.  Calls run concurrently    *)
(* and share the locker.  Every attempt of a remote operation is a message: *)
(* it executes at most once, at any time after it was sent, even when the   *)
(* caller has retried or given up in the meantime.  A reply that is lost is *)
(* an attempt that executes after its caller stopped listening to it.       *)
(***************************************************************************)
EXTENDS NonceLocker, Naturals

CONSTANTS Calls,      \* the requests that present a credit
          KindOf,     \* Calls -> Kinds: the handler that serves the call
          CreditOf,   \* Calls -> Nonces: the nonce of the credit it presents
          MaxTries,   \* bound: attempts of one remote operation
          Lossy,      \* whether attempts may time out, be late or be lost
          MayCancel,  \* the calls whose request context may be cancelled
          MayExpire   \* the nonces that may expire while the calls run

Kinds == {"deposit", "exchange", "spend", "manifests"}

ASSUME PaymentsAssumption ==
    /\ Tickets = Calls
    /\ KindOf \in [Calls -> Kinds]
    /\ CreditOf \in [Calls -> Nonces]
    /\ MaxTries \in Nat \ {0}
    /\ Lossy \in BOOLEAN
    /\ MayCancel \subseteq Calls
    /\ MayExpire \subseteq Nonces

VARIABLES pc,         \* where the call's handler is
          rpc,        \* the attempt it waits for, and the answer to it
          inflight,   \* attempts sent and not yet executed by the locker
          cancelled,  \* the calls whose context is cancelled
          served      \* the calls whose response has started to be sent

callVars == <<pc, rpc, inflight, cancelled, served>>
vars == <<nonces, expired, pc, rpc, inflight, cancelled, served>>

Ops      == {"lock", "consume", "release"}
Outcomes == {"ok", "error", "refused"}
PC       == {"idle", "open", "committed"} \cup Ops \cup Outcomes
Answers  == {"ok", "InputError", "ErrNonceLocked", "ErrNonceConsumed", "NoLock"}

Attempts == [call : Calls, op : Ops, try : 1 .. MaxTries]

TypeOK ==
    /\ LockerTypeOK
    /\ pc \in [Calls -> PC]
    /\ rpc \in [Calls -> [try : 1 .. MaxTries, reply : Answers \cup {"none"}]]
    /\ inflight \subseteq Attempts
    /\ cancelled \subseteq MayCancel
    /\ served \subseteq Calls

Init ==
    /\ LockerInit
    /\ pc = [c \in Calls |-> "idle"]
    /\ rpc = [c \in Calls |-> [try |-> 1, reply |-> "none"]]
    /\ inflight = {}
    /\ cancelled = {}
    /\ served = {}
-----------------------------------------------------------------------------
(* The remote locker. *)

\* The call moves to waiting for op and sends the first attempt.  With a
\* cancelled context http.Client.Do fails before anything is sent.
Invoke(c, op) ==
    /\ pc' = [pc EXCEPT ![c] = op]
    /\ rpc' = [rpc EXCEPT ![c] = [try |-> 1, reply |-> "none"]]
    /\ inflight' = IF c \in cancelled THEN inflight
                   ELSE inflight \cup {[call |-> c, op |-> op, try |-> 1]}

Goto(c, l) ==
    /\ pc' = [pc EXCEPT ![c] = l]
    /\ rpc' = [rpc EXCEPT ![c] = [try |-> 1, reply |-> "none"]]
    /\ UNCHANGED inflight

Serve(m) ==
    LET n == CreditOf[m.call] IN
    CASE m.op = "lock"    -> LockNonce(n, m.call)
      [] m.op = "consume" -> ConsumeNonce(n, m.call)
      [] m.op = "release" -> ReleaseNonce(n, m.call)

AnswerTo(m) ==
    IF m.op = "lock" THEN LockResult(CreditOf[m.call])
                     ELSE UnlockResult(CreditOf[m.call])

Awaits(m) ==
    /\ pc[m.call] = m.op
    /\ rpc[m.call] = [try |-> m.try, reply |-> "none"]

\* The locker's handler runs an attempt; the answer reaches the caller only
\* if the caller still waits for this very attempt.
Execute(m) ==
    /\ m \in inflight
    /\ inflight' = inflight \ {m}
    /\ Serve(m)
    /\ rpc' = IF Awaits(m) THEN [rpc EXCEPT ![m.call].reply = AnswerTo(m)] ELSE rpc
    /\ UNCHANGED <<expired, pc, cancelled, served>>

\* Mutated form: no bound on the attempts.
RetryUnbounded(c) ==
    /\ pc[c] \in Ops
    /\ c \notin cancelled
    /\ rpc[c].reply = "NoLock" \/ (Lossy /\ rpc[c].reply = "none")
    /\ rpc' = [rpc EXCEPT ![c] = [try |-> @.try + 1, reply |-> "none"]]
    /\ inflight' = inflight \cup {[call |-> c, op |-> pc[c], try |-> rpc[c].try + 1]}
    /\ UNCHANGED <<lockerVars, pc, cancelled, served>>

\* A 5xx is retried (NoLock is the only one), a timed out attempt too.
Retry(c) ==
    /\ pc[c] \in Ops
    /\ rpc[c].try < MaxTries
    /\ c \notin cancelled
    /\ rpc[c].reply = "NoLock" \/ (Lossy /\ rpc[c].reply = "none")
    /\ rpc' = [rpc EXCEPT ![c] = [try |-> @.try + 1, reply |-> "none"]]
    /\ inflight' = inflight \cup {[call |-> c, op |-> pc[c], try |-> rpc[c].try + 1]}
    /\ UNCHANGED <<lockerVars, pc, cancelled, served>>

\* Mutated forms: a failed lock is released too; a failed Release is tried
\* again from the start.
OpFailsReleasesForeignLock(c) ==
    IF pc[c] \in {"lock", "consume"} THEN Invoke(c, "release") ELSE Goto(c, "error")
OpFailsReleasesForever(c) ==
    IF pc[c] \in {"consume", "release"} THEN Invoke(c, "release") ELSE Goto(c, "error")

\* What the handler does when a remote operation returns an error: a failed
\* lock ends the call; a failed Consume is followed by a Release in
\* Transaction.Commit and by nothing in Exchanger.Exchange.
OpFails(c) ==
    IF pc[c] = "consume" /\ KindOf[c] # "exchange"
    THEN Invoke(c, "release")
    ELSE Goto(c, "error")

\* The operation returns without an answer: cancelled context, a permanent
\* network error, or a backoff that is over while the last answer was a 5xx.
GiveUp(c) ==
    /\ pc[c] \in Ops
    /\ Lossy \/ c \in cancelled \/ rpc[c].reply = "NoLock"
    /\ OpFails(c)
    /\ UNCHANGED <<lockerVars, cancelled, served>>

\* The operation returns the locker's answer.
Return(c) ==
    /\ pc[c] \in Ops
    /\ rpc[c].reply \notin {"none", "NoLock"}
    /\ IF rpc[c].reply # "ok" THEN OpFails(c)
       ELSE CASE pc[c] = "lock"    -> Goto(c, "open")
              [] pc[c] = "consume" -> Goto(c, "committed")
              [] pc[c] = "release" -> Goto(c, "error")
    /\ UNCHANGED <<lockerVars, cancelled, served>>
-----------------------------------------------------------------------------
(* Transactions. *)

\* BeginTransaction / Exchange: the credit verifies, its nonce is locked.
Begin(c) ==
    /\ pc[c] = "idle"
    /\ Invoke(c, "lock")
    /\ UNCHANGED <<lockerVars, cancelled, served>>

\* Wrong value or signature, or no candidate node: refused before the lock.
Refuse(c) ==
    /\ pc[c] = "idle"
    /\ Goto(c, "refused")
    /\ UNCHANGED <<lockerVars, cancelled, served>>

\* Transaction.Commit: with a finished context it returns at once, and the
\* Rollback that follows returns without a Release too.
Commit(c) == IF c \in cancelled THEN Goto(c, "error") ELSE Invoke(c, "consume")

\* Transaction.Rollback of a transaction that was not committed.
Rollback(c) == IF c \in cancelled THEN Goto(c, "error") ELSE Invoke(c, "release")

\* Bank.Deposit commits as soon as the transaction is open.
DepositCommits(c) ==
    /\ pc[c] = "open" /\ KindOf[c] = "deposit"
    /\ Commit(c)
    /\ UNCHANGED <<lockerVars, cancelled, served>>

\* Exchanger.Exchange: BlindSign succeeds and the old credit is consumed ...
Sign(c) ==
    /\ pc[c] = "open" /\ KindOf[c] = "exchange"
    /\ Invoke(c, "consume")
    /\ UNCHANGED <<lockerVars, cancelled, served>>

\* ... or it fails and the lock is released.
SignFails(c) ==
    /\ pc[c] = "open" /\ KindOf[c] = "exchange"
    /\ Invoke(c, "release")
    /\ UNCHANGED <<lockerVars, cancelled, served>>

\* The first bytes of the response go to the client, before any commit.
StartResponse(c) ==
    /\ pc[c] = "open" /\ KindOf[c] \in {"spend", "manifests"}
    /\ c \notin served
    /\ served' = served \cup {c}
    /\ UNCHANGED <<lockerVars, pc, rpc, inflight, cancelled>>

\* EOF of the node's response (or the end of the manifests handler).
EndResponse(c) ==
    /\ pc[c] = "open" /\ c \in served
    /\ Commit(c)
    /\ UNCHANGED <<lockerVars, cancelled, served>>

\* Mutated form: the Rollback after the proxy is forgotten.
ProxyErrorKeepsLock(c) ==
    /\ pc[c] = "open" /\ KindOf[c] = "spend" /\ c \notin served
    /\ Goto(c, "error")
    /\ UNCHANGED <<lockerVars, cancelled, served>>

\* ReverseProxy got no response from the node: 502, then Rollback.
ProxyError(c) ==
    /\ pc[c] = "open" /\ KindOf[c] = "spend" /\ c \notin served
    /\ Rollback(c)
    /\ UNCHANGED <<lockerVars, cancelled, served>>

\* Mutated form: the Rollback is deferred, so a panic does not skip it.
AbortResponseReleases(c) ==
    /\ pc[c] = "open" /\ KindOf[c] = "spend" /\ c \in served
    /\ Rollback(c)
    /\ UNCHANGED <<lockerVars, cancelled, served>>

\* The response breaks off, or the refund trailer cannot be parsed:
\* ReverseProxy panics with ErrAbortHandler past the Rollback.
AbortResponse(c) ==
    /\ pc[c] = "open" /\ KindOf[c] = "spend" /\ c \in served
    /\ Goto(c, "error")
    /\ UNCHANGED <<lockerVars, cancelled, served>>

\* After the commit: the account is credited, the signature is returned, or
\* the response ends with the refund, if any, in its trailer.
Complete(c) ==
    /\ pc[c] = "committed"
    /\ Goto(c, "ok")
    /\ UNCHANGED <<lockerVars, cancelled, served>>

\* Mutated form: a deposit, too, may fail after its commit.
RefundFailsForAny(c) ==
    /\ pc[c] = "committed"
    /\ Goto(c, "error")
    /\ UNCHANGED <<lockerVars, cancelled, served>>

\* CommitWithUnspend committed and then fails to issue the refund.
RefundFails(c) ==
    /\ pc[c] = "committed" /\ KindOf[c] = "spend"
    /\ Goto(c, "error")
    /\ UNCHANGED <<lockerVars, cancelled, served>>

Cancel(c) ==
    /\ c \in MayCancel \ cancelled
    /\ pc[c] \notin Outcomes
    /\ cancelled' = cancelled \cup {c}
    /\ UNCHANGED <<lockerVars, pc, rpc, inflight, served>>

ExpireNonce(n) ==
    /\ n \in MayExpire
    /\ Expire(n)
    /\ UNCHANGED callVars

Ended(c) == pc[c] \in Outcomes

\* Every request was answered and nothing is in flight: the model rests.
Rest ==
    /\ \A c \in Calls : Ended(c)
    /\ inflight = {}
    /\ UNCHANGED vars
-----------------------------------------------------------------------------
Handle(c) ==
    \/ Begin(c) \/ Refuse(c) \/ Return(c) \/ Retry(c) \/ GiveUp(c)
    \/ DepositCommits(c) \/ Sign(c) \/ SignFails(c)
    \/ StartResponse(c) \/ EndResponse(c) \/ ProxyError(c) \/ AbortResponse(c)
    \/ Complete(c) \/ RefundFails(c)

Next ==
    \/ \E c \in Calls : Handle(c) \/ Cancel(c)
    \/ \E m \in inflight : Execute(m)
    \/ \E n \in Nonces : ExpireNonce(n)
    \/ Rest

Spec == Init /\ [][Next]_vars

\* Handlers run on goroutines of their own and never wait for one another;
\* a reliable locker answers every attempt it was sent.
Fairness ==
    /\ \A c \in Calls : WF_vars(Handle(c))
    /\ WF_vars(\E m \in inflight : Execute(m))

FairSpec == Spec /\ Fairness
-----------------------------------------------------------------------------
(* Properties that hold whatever the network does. *)

Granted == {c \in Calls : pc[c] = "ok"}

\* A credit pays once: of all the deposits, exchanges and requests that
\* present it, at most one succeeds, although the locker never compares
\* tickets and attempts may execute late (Processor.Commit, Exchange).
NoDoubleSpend ==
    \A c, d \in Granted : CreditOf[c] = CreditOf[d] => c = d

\* A consumed nonce stays consumed by the call that consumed it: no late
\* Consume, no late or deferred Release changes it (ConsumeNonce, ReleaseNonce).
ConsumedIsFinal ==
    [][\A n \in Nonces : nonces[n].status = "CONSUMED" => nonces'[n] = nonces[n]]_vars

Redeemer == [n \in Nonces |->
                IF nonces[n].status = "CONSUMED" THEN nonces[n].ticket ELSE NoTicket]

Ledger == INSTANCE CreditLedger
            WITH redeemer <- Redeemer, granted <- Granted, Nobody <- NoTicket

\* The locker with its clients implements the abstract ledger of credits.
LedgerSpec == Ledger!Spec
-----------------------------------------------------------------------------
(* Properties of a locker that answers every attempt in time (~Lossy). *)

\* While a transaction is open its nonce is locked under its own ticket.
HoldsItsLock ==
    \A c \in Calls : pc[c] = "open" =>
        nonces[CreditOf[c]] = [status |-> "LOCKED", ticket |-> c]

\* A credit never buys two responses, not even partial ones, although the
\* response is sent before the commit, may break off, and cancelled requests
\* skip the Rollback (newProxyHandler, newComputeManifestsHandler).
ServedOnce ==
    \A c, d \in served : CreditOf[c] = CreditOf[d] => c = d

\* Every request that presents a credit is answered.
EveryCallEnds == \A c \in Calls : pc[c] # "idle" ~> Ended(c)

\* Only a cancelled request and a response that broke off leave their lock
\* behind: every other path consumes or releases it (Commit, Rollback, Exchange).
NoLeakedLock ==
    \A n \in Nonces : nonces[n].status = "LOCKED" =>
        LET c == nonces[n].ticket
        IN ~Ended(c) \/ c \in cancelled \/ (KindOf[c] = "spend" /\ c \in served)

\* Deposits of one credit that race do not fail all together: once they
\* have all ended, one of those that got as far as the locker succeeded.
RaceHasWinner ==
    \A n \in Nonces :
        LET racers == {c \in Calls : CreditOf[c] = n}
        IN (/\ \A c \in racers : KindOf[c] = "deposit" /\ c \notin cancelled /\ Ended(c)
            /\ \E c \in racers : pc[c] # "refused")
           => \E c \in racers : c \in Granted

\* A deposit that fails has not consumed its credit: "Must fail or complete all
\* deposited credits" (blind_bank_contract.go). It takes a locker that answers:
\* see the README for the retry of a Consume whose answer was lost.
DepositAllOrNothing ==
    \A c \in Calls \ cancelled : pc[c] = "error" /\ KindOf[c] = "deposit" =>
        nonces[CreditOf[c]] # [status |-> "CONSUMED", ticket |-> c]

\* A lock belongs to the call that works under it and is gone when the call is:
\* the two halves of what Processor promises its callers.
LockFollowsCall == HoldsItsLock /\ NoLeakedLock

\* Deposits are settled: of those that race one wins, and one that fails has
\* left the credit as it was (Bank.Deposit, Transaction.Commit).
DepositsSettle == RaceHasWinner /\ DepositAllOrNothing
=============================================================================
