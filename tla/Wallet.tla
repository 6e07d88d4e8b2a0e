------------------------------- MODULE Wallet -------------------------------
(***************************************************************************)
(* anonpay/wallet: the wallet's pipeline of credit transfers, the payments  *)
(* made from it and its shutdown.                                           *)
(*                                                                         *)
(* source --> accounts --> batches of credits --> payments --> results      *)
(*    ^           ^------- consolidated <------------------------|          *)
(*    |-- on shutdown everything flows back to the source                   *)
(*                                                                         *)
(* A process is a step of the pipeline together with the steps that only    *)
(* forward to it (filters, maps, combined inputs, the intents of a          *)
(* transfer), and a transfer other than to a payment happens at once: this  *)
(* only removes slots in which a value                                      *)
(* may wait.  Amounts are small enough for every amount to be an exact      *)
(* currency value, so that a full withdrawal rounds nothing.                *)
(***************************************************************************)
EXTENDS Pipeline, Functions

CONSTANTS Callers,         \* the calls of BeginPayment
          AmountOf,        \* Callers -> the amount each asks for
          Funds,           \* what the source holds at first
          SourceAmount, PrefetchAmount,
          Batches,         \* bound: bank batches alive at one time
          MaxParallel,     \* MaxParallelBankBatches; other transfers run one by one
          Scenarios        \* bound: who calls, how many service calls may fail and
                           \* whether the context of Close may end

ASSUME WalletAssumption ==
    /\ IsFiniteSet(Callers) /\ IsFiniteSet(Batches)
    /\ AmountOf \in [Callers -> 1 .. PrefetchAmount]
    /\ SourceAmount \in Nat /\ PrefetchAmount \in 1 .. SourceAmount
    /\ Funds \in Nat /\ MaxParallel \in Nat \ {0}
    /\ Scenarios \subseteq [calls : SUBSET Callers, faults : Nat, hard : BOOLEAN]

Sides     == {"A", "R"}    \* ConsolidateAccounts and ConsolidateResults
Transfers == {"source", "split", "pay", "consolidateA", "consolidateR", "return"}
Dedupes   == {"dedupeBatches", "dedupeA", "dedupeR"}
TransferOf(x) == IF x = "A" THEN "consolidateA" ELSE "consolidateR"
DedupeOf(x)   == IF x = "A" THEN "dedupeA" ELSE "dedupeR"
DoneOf(x)     == IF x = "A" THEN "doneA" ELSE "doneR"

\* The topology of NewWalletSteps.  "withdrawable" is closed by the step
\* "route", "requests" and "results" by Close; FilterFullAccounts writes
\* "provide" without registering it.
WalletOutputs ==
    [root |-> {"signal"}, empties |-> {"empty"}, source |-> {"full"},
     route |-> {"toSource"}, split |-> {"batches", "toConsolidate"},
     requests |-> {"payIntents", "remaining"}, pay |-> {"paid"},
     dedupeBatches |-> {"batchesToConsolidate"},
     consolidateA |-> {"doneA"}, dedupeA |-> {"provide"},
     consolidateR |-> {"doneR"}, dedupeR |-> {"provide"}, return |-> {}]

ASSUME WalletTopology ==
    Steps = DOMAIN WalletOutputs /\ OutputsOf = WalletOutputs /\ Root = "root"

Channels == (UNION Range(WalletOutputs)) \cup {"withdrawable", "requests", "results"}

VARIABLES paying,    \* the intents PaymentRequestTransfer processes
          funds,     \* what the source holds
          credits,   \* Batches -> the credits left in the batch
          used,      \* the batches that are alive
          serving,   \* CreateIntents of PrefetchWithdraw: its batch and index
          reqsSeen,  \* it has seen the requests closed
          signalSeen,\* RouteAccounts has seen the signal
          virtual,   \* Sides -> virtualBalance
          accounts,  \* Sides -> the balances of the accounts consolidated into
          reps,      \* Dedupes -> the groups of repeated results so far
          caller,    \* Callers -> where the payment is
          holds,     \* Callers -> the amount in the caller's hands
          wg,        \* paymentsWG
          spent,     \* what was paid
          closer,    \* the goroutine in Close
          faults,    \* service calls that may still fail
          mayHard    \* the context of Close may end

ctxVars    == <<st, graceful, hard>>
sideVars   == <<virtual, accounts>>
batchVars  == <<credits, used>>
flowVars   == <<serving, reqsSeen, signalSeen>>
storeVars  == <<paying, funds, batchVars, flowVars, sideVars, reps>>
callerVars == <<caller, holds, wg, spent>>
outerVars  == <<callerVars, closer, faults, mayHard>>
vars == <<st, pend, graceful, hard, paying, funds, credits, used, serving, reqsSeen,
          signalSeen, virtual, accounts, reps, caller, holds, wg, spent, closer, faults, mayHard>>

CallerPC == {"idle", "sending", "waiting", "dangling", "paying", "returning",
             "refused", "gaveup", "errored", "done"}

\* Values that travel: an account and its balance, a batch, a repeated batch,
\* a payment result, an intent to pay from a repeated batch.
Account(n)          == [kind |-> "account", amount |-> n]
Batch(b)            == [kind |-> "batch", batch |-> b]
Result(n)           == [kind |-> "result", amount |-> n]
Rep(b, i, last)     == [kind |-> "rep", batch |-> b, index |-> i, last |-> last]
PayIntent(rep, c)   == [kind |-> "pay", rep |-> rep, req |-> c, stage |-> "new"]

\* What a withdrawable holds: Balance().
Balance(v) == IF v.kind = "batch" THEN credits[v.batch] * PrefetchAmount ELSE v.amount

\* Nothing is served: no batch is held.
Idle == [batch |-> {}, index |-> 0, size |-> 0]

Inputs == closer \in {"closing", "closed"}  \* Close has closed requests and results

\* Whether a receive from c finds it closed.
Closed(c) ==
    CASE c \in {"requests", "results"} -> Inputs
      [] c = "withdrawable" -> signalSeen \/ ~Running("route")
      [] OTHER -> ClosedByPipeline(c)

TypeOK ==
    /\ PipeTypeOK(Channels)
    /\ DOMAIN reps = Dedupes /\ Cardinality(paying) <= MaxParallel
    /\ funds \in 0 .. Funds /\ spent \in 0 .. Funds
    /\ credits \in [Batches -> Nat] /\ used \subseteq Batches
    /\ serving.batch \subseteq used /\ Cardinality(serving.batch) <= 1
    /\ reqsSeen \in BOOLEAN /\ signalSeen \in BOOLEAN
    /\ virtual \in [Sides -> Nat] /\ accounts \in [Sides -> Seq(Nat)]
    /\ caller \in [Callers -> CallerPC] /\ holds \in [Callers -> Nat]
    /\ wg \in Nat
    /\ closer \in {"open", "waiting", "closing", "closed"}
    /\ faults \in Nat /\ mayHard \in BOOLEAN

\* wallet.New
Init ==
    /\ RunPipeline([s \in Steps |-> IF s = "empties" THEN <<Send("empty", Account(0))>> ELSE <<>>])
    /\ paying = {}
    /\ funds = Funds /\ spent = 0
    /\ credits = [b \in Batches |-> 0] /\ used = {}
    /\ serving = Idle /\ reqsSeen = FALSE /\ signalSeen = FALSE
    /\ virtual = [x \in Sides |-> 0] /\ accounts = [x \in Sides |-> <<0>>]
    /\ reps = [d \in Dedupes |-> <<>>]
    /\ holds = [c \in Callers |-> 0] /\ wg = 0 /\ closer = "open"
    /\ \E now \in Scenarios :
          /\ caller = [c \in Callers |-> IF c \in now.calls THEN "idle" ELSE "done"]
          /\ faults = now.faults /\ mayHard = now.hard
-----------------------------------------------------------------------------
(* Steps in general *)

\* A ParallelStep claims a slot before it receives, and frees it once the
\* output of the job is sent.
PaySlot == Running("pay") /\ Cardinality(paying) + Len(pend["pay"]) < MaxParallel

\* The inputs of a step that exits when they are all closed.
InputsOf ==
    [source |-> {"empty"}, split |-> {"withdrawable"},
     pay |-> {"payIntents"}, dedupeBatches |-> {"remaining", "paid"},
     consolidateA |-> {"toConsolidate", "batchesToConsolidate"}, dedupeA |-> {"doneA"},
     consolidateR |-> {"results"}, dedupeR |-> {"doneR"},
     return |-> {"batchesToConsolidate", "toSource"}]

InputsClosed(s) == \A c \in InputsOf[s] : Closed(c)

\* Every input is closed, nothing is in hand: the step returns nil.
Exit(s) ==
    /\ s \in DOMAIN InputsOf /\ Ready(s) /\ InputsClosed(s)
    /\ s = "pay" => paying = {}
    /\ s \in Dedupes => reps[s] = <<>>
    /\ Finish(s)
    /\ UNCHANGED <<storeVars, outerVars>>

\* A job that hands a credit to its caller cannot be cancelled.
Offered == {j \in paying : j.stage = "offered"}

\* A call to the bank or the source fails: what t has received is lost and the
\* step fails.
TransferFails(t) ==
    /\ faults > 0 /\ faults' = faults - 1
    /\ \/ t = "pay" /\ Running(t) /\ paying # Offered /\ Offered = {}
          /\ FailStep(t) /\ paying' = {} /\ UNCHANGED funds
       \/ /\ t # "pay" /\ Ready(t)
          /\ \E c \in InputsOf[t] : \E w \in Senders(c) :
                pend' = [pend EXCEPT ![w] = Tail(@)]
          /\ st' = [st EXCEPT ![t] = "err"]
          /\ graceful' = IF graceful = "open" THEN "failed" ELSE graceful
          /\ funds' \in {funds} \cup (IF t = "source" /\ funds >= SourceAmount
                                      THEN {funds - SourceAmount} ELSE {})
          /\ UNCHANGED <<hard, paying>>
    /\ UNCHANGED <<batchVars, flowVars, sideVars, reps, callerVars, closer, mayHard>>

RootStep ==
    /\ RootReturns
    /\ UNCHANGED <<storeVars, outerVars>>
-----------------------------------------------------------------------------
(* ProvideAccounts *)

\* ProduceEmptyAccountsUntilClose always has an empty account to offer; the
\* account it holds when the signal is closed is dropped.
Empties == IF ClosedByPipeline("signal") THEN <<>> ELSE <<Send("empty", Account(0))>>

StopEmpty ==
    /\ Running("empties") /\ Closed("signal")
    /\ st' = [st EXCEPT !["empties"] = "ok"]
    /\ pend' = [pend EXCEPT !["empties"] = <<>>]
    /\ UNCHANGED <<graceful, hard, storeVars, outerVars>>

\* An optimistic withdrawal: without funds the transfer is nil and filtered out.
FromSource ==
    /\ "empties" \in Senders("empty") /\ Ready("source")
    /\ LET enough == funds >= SourceAmount
       IN /\ funds' = IF enough THEN funds - SourceAmount ELSE funds
          /\ pend' = [pend EXCEPT !["empties"] = Empties,
                        !["source"] = IF enough THEN <<Send("full", Account(SourceAmount))>>
                                      ELSE <<>>]
    /\ UNCHANGED <<ctxVars, paying, batchVars, flowVars, sideVars, reps, outerVars>>

\* RouteAccounts: after the signal, and when low, an account goes to the source.
Route(w) ==
    /\ Ready("route")
    /\ Move(w, "route",
            <<Send(IF signalSeen \/ Offer(w).amount < SourceAmount
                   THEN "toSource" ELSE "withdrawable", Offer(w))>>)
    /\ UNCHANGED <<ctxVars, storeVars, outerVars>>

\* It closes withdrawableAccounts when it sees the signal.
RouteSignal ==
    /\ Ready("route") /\ Closed("signal") /\ ~signalSeen
    /\ signalSeen' = TRUE
    /\ UNCHANGED <<st, pend, graceful, hard, paying, funds, batchVars, serving, reqsSeen, sideVars, reps, outerVars>>

\* Mutated form: the signal ends the step although accounts still arrive.
RouteExitsEarly ==
    /\ Ready("route") /\ signalSeen
    /\ Finish("route")
    /\ UNCHANGED <<storeVars, outerVars>>

RouteExit ==
    /\ Ready("route") /\ signalSeen /\ Closed("provide") /\ Closed("full")
    /\ Finish("route")
    /\ UNCHANGED <<storeVars, outerVars>>
-----------------------------------------------------------------------------
(* PrefetchWithdraw *)

\* Mutated form: the account is not passed on, whatever is left in it.
SplitDropsRest(w) ==
    /\ Ready("split") /\ used # Batches
    /\ LET b == CHOOSE b \in Batches \ used : TRUE
       IN /\ used' = used \cup {b}
          /\ credits' = [credits EXCEPT ![b] = Offer(w).amount \div PrefetchAmount]
          /\ Move(w, "split", <<Send("batches", Batch(b))>>)
    /\ UNCHANGED <<ctxVars, paying, funds, flowVars, sideVars, reps, outerVars>>

\* FilterLowAccounts passes a low account on; any other becomes a batch of
\* credits and is passed on if something is left.
SplitAccount(w) ==
    /\ Ready("split") /\ used # Batches
    /\ LET b    == CHOOSE b \in Batches \ used : TRUE
           n    == Offer(w).amount
           rest == n % PrefetchAmount
           left == IF rest > 0 THEN <<Send("toConsolidate", Account(rest))>> ELSE <<>>
       IN IF n < PrefetchAmount
          THEN Move(w, "split", left) /\ UNCHANGED batchVars
          ELSE /\ used' = used \cup {b}
               /\ credits' = [credits EXCEPT ![b] = n \div PrefetchAmount]
               /\ Move(w, "split", left \o <<Send("batches", Batch(b))>>)
    /\ UNCHANGED <<ctxVars, paying, funds, flowVars, sideVars, reps, outerVars>>

\* CreateIntents takes a batch, and passes it on at once when there are no
\* more requests.
TakeBatch(w) ==
    /\ Ready("requests") /\ serving = Idle
    /\ LET b == Offer(w).batch
       IN IF reqsSeen
          THEN /\ Move(w, "requests", <<Send("remaining", Rep(b, 0, TRUE))>>)
               /\ UNCHANGED serving
          ELSE /\ Move(w, "requests", <<>>)
               /\ serving' = [batch |-> {b}, index |-> 0, size |-> credits[b]]
    /\ UNCHANGED <<ctxVars, paying, funds, batchVars, reqsSeen, signalSeen, sideVars, reps, outerVars>>

\* A request for the batch in hand: an intent for one of its credits.
TakeRequest(c) ==
    /\ caller[c] = "sending" /\ ~Inputs
    /\ Ready("requests") /\ serving # Idle
    /\ LET b    == CHOOSE b \in serving.batch : TRUE
           last == serving.index = serving.size - 1
       IN /\ Emit("requests",
                  <<Send("payIntents", PayIntent(Rep(b, serving.index, last), c))>>)
          /\ serving' = IF last THEN Idle ELSE [serving EXCEPT !.index = @ + 1]
    /\ caller' = [caller EXCEPT ![c] = "waiting"]
    /\ UNCHANGED <<ctxVars, paying, funds, batchVars, reqsSeen, signalSeen, sideVars, reps, holds, wg, spent, closer, faults, mayHard>>

\* The batch is about to expire, or the requests are closed: the rest of the
\* batch is passed on as the last repetition.
EndBatch ==
    /\ Ready("requests") /\ serving # Idle
    /\ LET b == CHOOSE b \in serving.batch : TRUE
       IN Emit("requests", <<Send("remaining", Rep(b, serving.index, TRUE))>>)
    /\ serving' = Idle
    /\ reqsSeen' \in IF Inputs THEN BOOLEAN ELSE {FALSE}
    /\ UNCHANGED <<ctxVars, paying, funds, batchVars, signalSeen, sideVars, reps, outerVars>>

\* No batch will come any more: a request fails.  Fail does not wait: the
\* caller may not be at its select yet and then never hears of it.
FailRequest(c) ==
    /\ caller[c] = "sending" /\ ~Inputs
    /\ Ready("requests") /\ serving = Idle /\ Closed("batches")
    /\ \E answer \in {"errored", "waiting"} : caller' = [caller EXCEPT ![c] = answer]
    /\ UNCHANGED <<pipeVars, storeVars, holds, wg, spent, closer, faults, mayHard>>

RequestsExit ==
    /\ Ready("requests") /\ serving = Idle /\ Closed("batches") /\ Closed("requests")
    /\ Finish("requests")
    /\ UNCHANGED <<storeVars, outerVars>>

TakePayIntent(w) ==
    /\ PaySlot
    /\ pend' = [pend EXCEPT ![w] = Tail(@)]
    /\ paying' = paying \cup {Offer(w)}
    /\ UNCHANGED <<ctxVars, funds, batchVars, flowVars, sideVars, reps, outerVars>>

\* creditStack.withdraw: one credit of exactly the amount of the batch.
WithdrawCredit(j) ==
    /\ Running("pay") /\ j.stage = "new"
    /\ credits[j.rep.batch] > 0 /\ AmountOf[j.req] = PrefetchAmount
    /\ credits' = [credits EXCEPT ![j.rep.batch] = @ - 1]
    /\ paying' = (paying \ {j}) \cup {[j EXCEPT !.stage = "offered"]}
    /\ UNCHANGED <<pipeVars, funds, used, flowVars, sideVars, reps, outerVars>>

\* The stack cannot: the withdrawal was not optimistic and the step fails,
\* the request is not answered.
WithdrawRefused(j) ==
    /\ Running("pay") /\ j.stage = "new" /\ Offered = {}
    /\ credits[j.rep.batch] = 0 \/ AmountOf[j.req] # PrefetchAmount
    /\ FailStep("pay") /\ paying' = {}
    /\ UNCHANGED <<funds, batchVars, flowVars, sideVars, reps, outerVars>>

\* PaymentRequest.deposit hands the credit to the caller, or to the goroutine
\* that waits for a caller who gave up and cancels the payment.
Answer(j) ==
    /\ Running("pay") /\ j.stage = "offered" /\ caller[j.req] \in {"waiting", "dangling"}
    /\ caller' = [caller EXCEPT ![j.req] = IF @ = "waiting" THEN "paying" ELSE "returning"]
    /\ holds' = [holds EXCEPT ![j.req] = PrefetchAmount]
    /\ paying' = paying \ {j}
    /\ Emit("pay", <<Send("paid", j.rep)>>)
    /\ UNCHANGED <<ctxVars, funds, batchVars, flowVars, sideVars, reps, wg, spent, closer, faults, mayHard>>

Group(groups, k) == IF k \in DOMAIN groups THEN groups[k] ELSE [seen |-> {}, len |-> 0]
Without(groups, k) == Restrict(groups, DOMAIN groups \ {k})
With(groups, k, group) ==
    [i \in DOMAIN groups \cup {k} |-> IF i = k THEN group ELSE groups[i]]

\* RepResults.Add
AddRep(group, index, last) ==
    [seen |-> group.seen \cup {index}, len |-> IF last THEN index + 1 ELSE group.len]

\* Mutated form: the last repetition completes the group.
CompleteOnLast(group) == group.len # 0

\* RepResults.Complete
Complete(group) == group.len # 0 /\ Cardinality(group.seen) = group.len

\* DedupeBatches: a batch is passed on when all its repetitions are back.
DedupeBatch(w) ==
    /\ Ready("dedupeBatches")
    /\ LET rep   == Offer(w)
           b     == rep.batch
           group == AddRep(Group(reps["dedupeBatches"], b), rep.index, rep.last)
       IN IF ~Complete(group)
          THEN /\ reps' = [reps EXCEPT !["dedupeBatches"] = With(@, b, group)]
               /\ Move(w, "dedupeBatches", <<>>)
               /\ UNCHANGED used
          ELSE /\ reps' = [reps EXCEPT !["dedupeBatches"] = Without(@, b)]
               /\ IF credits[b] > 0
                  THEN /\ Move(w, "dedupeBatches", <<Send("batchesToConsolidate", Batch(b))>>)
                       /\ UNCHANGED used
                  ELSE Move(w, "dedupeBatches", <<>>) /\ used' = used \ {b}
    /\ UNCHANGED <<ctxVars, paying, funds, credits, flowVars, sideVars, outerVars>>

\* The batches whose group never completed, once the inputs are closed.
FlushBatch(b) ==
    /\ Ready("dedupeBatches") /\ InputsClosed("dedupeBatches")
    /\ b \in DOMAIN reps["dedupeBatches"]
    /\ reps' = [reps EXCEPT !["dedupeBatches"] = Without(@, b)]
    /\ IF credits[b] > 0
       THEN Emit("dedupeBatches", <<Send("batchesToConsolidate", Batch(b))>>) /\ UNCHANGED used
       ELSE UNCHANGED pend /\ used' = used \ {b}
    /\ UNCHANGED <<ctxVars, paying, funds, credits, flowVars, sideVars, outerVars>>
-----------------------------------------------------------------------------
(* ConsolidateAccounts and ConsolidateResults *)

\* A full withdrawal of v, which is gone afterwards.
Emptied(v) ==
    IF v.kind = "batch"
    THEN used' = used \ {v.batch} /\ credits' = [credits EXCEPT ![v.batch] = 0]
    ELSE UNCHANGED batchVars

\* CreateIntents and ConsolidateTransfer: v goes into the current account of
\* side x, the last value to do so when the virtual balance is reached.
Fills(x, v) == virtual[x] + Balance(v) >= SourceAmount

Deposit(x, v) ==
    LET k == Len(accounts[x])
        filled == [accounts[x] EXCEPT ![k] = @ + Balance(v)]
    IN /\ virtual' = [virtual EXCEPT ![x] = IF Fills(x, v) THEN 0 ELSE @ + Balance(v)]
       /\ accounts' = [accounts EXCEPT ![x] = IF Fills(x, v) THEN Append(filled, 0) ELSE filled]
       /\ Emptied(v)

DoneWith(x, v) ==
    <<Send(DoneOf(x), [kind |-> "done", to |-> Len(accounts[x]), last |-> Fills(x, v)])>>

\* ConsolidateAccounts: FilterFullAccounts passes a full account on; batches
\* and low accounts are consolidated.
ConsolidateAccount(w) ==
    /\ Ready("consolidateA")
    /\ LET v == Offer(w)
       IN IF v.kind = "account" /\ v.amount >= SourceAmount
          THEN Move(w, "consolidateA", <<Send("provide", v)>>) /\ UNCHANGED <<batchVars, sideVars>>
          ELSE Move(w, "consolidateA", DoneWith("A", v)) /\ Deposit("A", v)
    /\ UNCHANGED <<ctxVars, paying, funds, flowVars, reps, outerVars>>

\* ConsolidateResults receives from the callers; complete() then releases the
\* wait group.  The withdrawal from a result exchanges its credit.
TakeResult(c) ==
    /\ caller[c] = "returning" /\ ~Inputs /\ Ready("consolidateR")
    /\ Emit("consolidateR", DoneWith("R", Result(holds[c])))
    /\ Deposit("R", Result(holds[c]))
    /\ caller' = [caller EXCEPT ![c] = "done"] /\ holds' = [holds EXCEPT ![c] = 0]
    /\ wg' = wg - 1
    /\ UNCHANGED <<ctxVars, paying, funds, flowVars, reps, spent, closer, faults, mayHard>>

\* The exchange of the credit fails: the caller is done, the credit is lost.
ResultFails(c) ==
    /\ caller[c] = "returning" /\ ~Inputs /\ Ready("consolidateR")
    /\ faults > 0 /\ faults' = faults - 1
    /\ FailStep("consolidateR")
    /\ caller' = [caller EXCEPT ![c] = "done"] /\ holds' = [holds EXCEPT ![c] = 0]
    /\ wg' = wg - 1
    /\ UNCHANGED <<storeVars, spent, closer, mayHard>>

\* The index every repetition of an account gets: lastGroupIndex stays 0.
GroupIndex == 1

\* DedupeAccounts
DedupeAccount(x, w) ==
    /\ Ready(DedupeOf(x))
    /\ LET d     == DedupeOf(x)
           k     == Offer(w).to
           group == AddRep(Group(reps[d], k), GroupIndex, Offer(w).last)
       IN IF ~Complete(group)
          THEN /\ reps' = [reps EXCEPT ![d] = With(@, k, group)]
               /\ Move(w, d, <<>>) /\ UNCHANGED accounts
          ELSE /\ reps' = [reps EXCEPT ![d] = Without(@, k)]
               /\ Move(w, d, <<Send("provide", Account(accounts[x][k]))>>)
               /\ accounts' = [accounts EXCEPT ![x][k] = 0]
    /\ UNCHANGED <<ctxVars, paying, funds, batchVars, flowVars, virtual, outerVars>>

\* Mutated form: the accounts that are not full are left behind.
FlushNothing(x, k) ==
    /\ Ready(DedupeOf(x)) /\ InputsClosed(DedupeOf(x)) /\ k \in DOMAIN reps[DedupeOf(x)]
    /\ reps' = [reps EXCEPT ![DedupeOf(x)] = Without(@, k)]
    /\ UNCHANGED <<pipeVars, paying, funds, batchVars, flowVars, sideVars, outerVars>>

\* The accounts that are not complete when the inputs are closed.
FlushAccount(x, k) ==
    /\ Ready(DedupeOf(x)) /\ InputsClosed(DedupeOf(x)) /\ k \in DOMAIN reps[DedupeOf(x)]
    /\ reps' = [reps EXCEPT ![DedupeOf(x)] = Without(@, k)]
    /\ Emit(DedupeOf(x), <<Send("provide", Account(accounts[x][k]))>>)
    /\ accounts' = [accounts EXCEPT ![x][k] = 0]
    /\ UNCHANGED <<ctxVars, paying, funds, batchVars, flowVars, virtual, outerVars>>
-----------------------------------------------------------------------------
(* ReturnToSource *)

\* CombineInputs and SourceTransfers; it competes with ConsolidateAccounts for
\* the batches.
ToSource(w) ==
    /\ Ready("return")
    /\ funds' = funds + Balance(Offer(w))
    /\ Emptied(Offer(w))
    /\ Move(w, "return", <<>>)
    /\ UNCHANGED <<ctxVars, paying, flowVars, sideVars, reps, outerVars>>
-----------------------------------------------------------------------------
(* Payments *)

SetCaller(c, from, to) == caller[c] \in from /\ caller' = [caller EXCEPT ![c] = to]

\* closeMu is held by Close until it returns; then BeginPayment is refused.
BeginPayment(c) ==
    /\ \/ closer = "open" /\ SetCaller(c, {"idle"}, "sending") /\ wg' = wg + 1
       \/ closer = "closed" /\ SetCaller(c, {"idle"}, "refused") /\ UNCHANGED wg
    /\ UNCHANGED <<pipeVars, storeVars, holds, spent, closer, faults, mayHard>>

\* Mutated form: a caller who gives up is not waited for.
GiveUpUncounted(c) ==
    /\ \/ SetCaller(c, {"sending"}, "gaveup") /\ wg' = wg - 1
       \/ SetCaller(c, {"waiting"}, "dangling") /\ wg' = wg - 1
    /\ UNCHANGED <<pipeVars, storeVars, holds, spent, closer, faults, mayHard>>

\* The context of BeginPayment is done: before the request is taken nothing
\* happened, afterwards waitForDanglingResponse takes over.
GiveUp(c) ==
    /\ \/ SetCaller(c, {"sending"}, "gaveup") /\ wg' = wg - 1
       \/ SetCaller(c, {"waiting"}, "dangling") /\ UNCHANGED wg
    /\ UNCHANGED <<pipeVars, storeVars, holds, spent, closer, faults, mayHard>>

\* Success without a refund.
Success(c) ==
    /\ SetCaller(c, {"paying"}, "done") /\ wg' = wg - 1
    /\ spent' = spent + holds[c] /\ holds' = [holds EXCEPT ![c] = 0]
    /\ UNCHANGED <<pipeVars, storeVars, closer, faults, mayHard>>

\* Success with a refund of n, or Cancel when nothing was spent.
Refund(c, n) ==
    /\ SetCaller(c, {"paying"}, "returning")
    /\ n \in 1 .. holds[c]
    /\ spent' = spent + (holds[c] - n) /\ holds' = [holds EXCEPT ![c] = n]
    /\ UNCHANGED <<pipeVars, storeVars, wg, closer, faults, mayHard>>
-----------------------------------------------------------------------------
(* Close *)

BeginClose ==
    /\ closer = "open" /\ closer' = "waiting"
    /\ UNCHANGED <<pipeVars, storeVars, callerVars, faults, mayHard>>

\* paymentsWG.Wait, close(requests), close(results), pipeline.Close
CloseInputs ==
    /\ closer = "waiting" /\ wg = 0 /\ closer' = "closing"
    /\ ClosePipeline
    /\ UNCHANGED <<storeVars, callerVars, faults, mayHard>>

\* The context of Close ends while the steps shut down.
CloseContextDone ==
    /\ mayHard /\ closer = "closing" /\ ~AllReturned /\ Offered = {}
    /\ HardCancel /\ paying' = {}
    /\ UNCHANGED <<funds, batchVars, flowVars, sideVars, reps, outerVars>>

EndClose ==
    /\ closer = "closing" /\ AllReturned /\ closer' = "closed"
    /\ UNCHANGED <<pipeVars, storeVars, callerVars, faults, mayHard>>

Step(s) ==
    \/ Exit(s)
    \/ s = "root" /\ RootStep
    \/ s = "empties" /\ StopEmpty
    \/ s = "source" /\ FromSource
    \/ s = "route" /\ ((\E w \in Senders("provide") \cup Senders("full") : Route(w)) \/ RouteSignal \/ RouteExit)
    \/ s = "split" /\ \E w \in Senders("withdrawable") : SplitAccount(w)
    \/ s = "requests" /\ \/ \E w \in Senders("batches") : TakeBatch(w)
                         \/ \E c \in Callers : TakeRequest(c) \/ FailRequest(c)
                         \/ EndBatch \/ RequestsExit
    \/ s = "pay" /\ \/ \E w \in Senders("payIntents") : TakePayIntent(w)
                    \/ \E j \in paying : WithdrawCredit(j) \/ WithdrawRefused(j) \/ Answer(j)
    \/ s = "dedupeBatches" /\ \/ \E w \in Senders("remaining") \cup Senders("paid") : DedupeBatch(w)
                              \/ \E b \in Batches : FlushBatch(b)
    \/ s = "consolidateA" /\ \E w \in Senders("toConsolidate") \cup Senders("batchesToConsolidate") :
                                 ConsolidateAccount(w)
    \/ s = "consolidateR" /\ \E c \in Callers : TakeResult(c)
    \/ s = "return" /\ \E w \in Senders("toSource") \cup Senders("batchesToConsolidate") : ToSource(w)
    \/ \E x \in Sides :
         \/ s = DedupeOf(x) /\ \/ \E w \in Senders(DoneOf(x)) : DedupeAccount(x, w)
                               \/ \E k \in DOMAIN reps[s] : FlushAccount(x, k)

Payment(c) ==
    \/ BeginPayment(c) \/ GiveUp(c) \/ Success(c)
    \/ \E n \in 1 .. PrefetchAmount : Refund(c, n)

Close == BeginClose \/ CloseInputs \/ EndClose

Next ==
    \/ \E s \in Steps : Step(s)
    \/ \E t \in Transfers : TransferFails(t)
    \/ \E c \in Callers : Payment(c) \/ ResultFails(c)
    \/ Close \/ CloseContextDone

\* Goroutines are scheduled; a caller's context ends or it completes its
\* payment, as BeginPayment demands; a begun Close goes on.
Fairness ==
    /\ \A s \in Steps : WF_vars(Step(s))
    /\ \A c \in Callers : WF_vars(GiveUp(c) \/ Success(c))
    /\ WF_vars(CloseInputs \/ EndClose)

Spec == Init /\ [][Next]_vars /\ Fairness
-----------------------------------------------------------------------------
(* Properties *)

\* What a value on its way holds itself; the credits of a batch are counted
\* where they are.
InHands(v) ==
    CASE v.kind \in {"account", "result"} -> v.amount
      [] v.kind = "pay" /\ v.stage = "offered" -> PrefetchAmount
      [] OTHER -> 0

\* The sum of f over a finite set: how many units its members have.
Units(f, S) == UNION {{x} \X (1 .. f[x]) : x \in S}
Sum(f, S)   == Cardinality(Units(f, S))

\* What a step is about to send, what the jobs of the payments hold, and what
\* the batches are worth.
Load(q)      == Sum([i \in DOMAIN q |-> InHands(q[i].val)], DOMAIN q)
Carried      == Sum([s \in Steps |-> Load(pend[s])], Steps)
InJobs       == Sum([j \in paying |-> InHands(j)], paying)
InBatches    == Sum([b \in Batches |-> credits[b] * PrefetchAmount], Batches)
InAccounts(x) == Sum(accounts[x], DOMAIN accounts[x])
InCallers    == Sum(holds, Callers)

\* Everything the wallet, its callers and the source hold.
Total ==
    funds + spent + Carried + InJobs + InBatches + InAccounts("A") + InAccounts("R") + InCallers

Sound == ~Failed /\ ~hard

\* Credits are neither lost nor made up while the pipeline has not failed, whatever
\* the order in which accounts, batches, repetitions and results pass through
\* the steps (transfer.go, prefetch_withdraw.go, consolidate.go); after a
\* failure they may be lost but are never made up.
CreditsConserved == Total <= Funds /\ (Sound => Total = Funds)

\* When Close returns and no step failed, nothing is left in the wallet: what
\* was not spent is back at the source (wallet.go Close, return_to_source.go).
EverythingReturned == closer = "closed" /\ Sound => funds + spent = Funds

\* Nobody is about to send on a closed channel, which panics: neither a step
\* on a channel it shares, writes unregistered or closes by hand, nor a payment
\* on the inputs that Close closes (pipeline.go manyDone, wallet.go 281-285).
NoSendOnClosed ==
    /\ \A s \in Steps : Running(s) /\ pend[s] # <<>> => ~Closed(Head(pend[s]).ch)
    /\ \A c \in Callers : caller[c] \in {"sending", "dangling", "returning"} => ~Inputs

\* A batch is passed on only when every repetition of it is back, and with
\* credits in it: no payment is served from a batch that another step empties
\* (RepResults, DedupeBatches).
BatchPassedOnce ==
    \A s \in Steps : Running(s) /\ pend[s] # <<>> =>
        LET v == Offer(s)
        IN v.kind = "batch" /\ Head(pend[s]).ch # "batches" =>
            /\ credits[v.batch] > 0
            /\ \A j \in paying : j.rep.batch # v.batch
            /\ \A w \in Senders("payIntents") \cup Senders("paid") \cup Senders("remaining") :
                  Offer(w).kind = "rep" => Offer(w).batch # v.batch

\* Close returns once the callers are done, if no step failed: the cyclic
\* pipeline drains in whatever state the signal finds it.
CloseReturns == closer = "waiting" ~> (closer = "closed" \/ ~Sound)

\* Nobody sends on a closed channel, and each batch is passed on once and with
\* something in it (Pipeline, prefetch_withdraw.go).
ChannelsSound == TypeOK /\ NoSendOnClosed /\ BatchPassedOnce

\* Credits are conserved, and all of them back at the source when an orderly
\* Close returns.
NothingLost == CreditsConserved /\ EverythingReturned
=============================================================================
