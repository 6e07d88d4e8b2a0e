# OpenPCC in TLA+

OpenPCC lets a client send a request to a compute node without telling anybody
who asks. The client pays with *anonymous credits*: blind-signed tokens that a
bank issues against an account and that a router redeems against nobody in
particular. This directory specifies the parts of the program that decide
whether money is lost or spent twice and whether something that was promised
happens at all, model-checks them with TLC, and proves the central results with
TLAPS. All paths below are relative to `src/`.

## 1. Inventory

### Redeeming a credit

* **Nonce locker ("credithole")**, `anonpay/noncelocking`. State: a map from
  nonce to LOCKED or CONSUMED with a ticket, under one mutex, behind an HTTP API.
  Operations: lock, consume, release. A nonce that is outside of its validity
  window is refused. Consume and release take the ticket of the lock and never
  compare it. Hard: the HTTP client retries (`httpretry`), so an operation may
  execute more than once, or after the caller has gone.
* **Processor and exchanger**, `anonpay/processor.go`, `exchanger.go`. A
  transaction locks the nonce (BeginTransaction), and consumes it (Commit,
  CommitWithUnspend) or releases it (Rollback). The state is in the locker; the
  processor keeps one flag per transaction. Hard: cancelled contexts, a Consume
  whose answer is lost.
* **Their callers**: `Bank.Deposit`, `Bank.Exchange`, and the router's proxy and
  compute-manifests handlers (`router/http_handler.go`). The proxy streams the
  response to the client *before* it commits, at the response's EOF.
  Correct when: a credit pays at most once; a failed call leaves the credit
  usable; every request ends.
* **Nonces**, `anonpay/nonce.go`, `blind_signing.go`. The timestamp in a nonce is
  rounded, moved at random to the next period, and checked by a server with a
  clock of its own. Correct when: an early increment does not identify its owner;
  a credit is accepted for its lifespan.

### The bank

* **Accounts**, `anonpay/banking/inmem/bank.go` behind `banking/httpapi`. State:
  balances, histories and recorded rounding differences, under one RWMutex.
  Operations: WithdrawBatch, WithdrawFullUnblinded, Deposit, Exchange, Balance.
  Hard: retries and late attempts; a deposit commits the credit and takes the
  mutex later, and a Commit may fail although the locker has consumed the nonce.
  Correct when: books balance, no account is overdrawn, a client is told of what
  happened.
* **Currency**, `anonpay/currency/value.go`. Pure: amounts as nine-bit floating
  point values, unbiased stochastic rounding, a two-byte format.

### Building blocks of the wallet

* **Delay pool**, `delay/pool.go`. A heap of items with the time at which they
  may leave, a processor goroutine, blocking Add, two ways to close. Hard: two
  one-place notification channels, a processor that sleeps on a timer, closing
  while somebody sends. Correct when: no item leaves early, no wakeup is lost,
  every call returns.
* **Worker pool**, `work/pool.go`. Goroutines that take jobs from a channel;
  ScaleWorkers, AddJob, Close. Hard: two atomic counters that trail the
  goroutines and that Close compares. Correct when: Close returns, and only
  after every accepted job has run.
* **Pipelines**, `work/pipeline.go`, `pipeline_steps.go`, `io.go`. Steps connected
  by channels that several steps may write to and that the last of them closes; the
  first error stops the whole; Close drains or, when its context ends, cancels.
* **Wallet**, `anonpay/wallet`. One cyclic pipeline that takes accounts from the source,
  withdraws batches of credits ahead of time, hands credits to payments, consolidates
  change and, on Close, sends everything back. Hard: callers who give up while a
  credit is on its way to them, transfers that fail half way, a shutdown that must
  drain a cycle. Correct when: money is neither lost nor made up, nobody writes to a
  closed channel, Close returns.

### Router, client and the rest

* **Router state**, `router/state`, `router/health`, `router/*.go`. Each router keeps
  agents by event index and a health history per node, merges events and whole
  states received by gossip, routes to nodes that grade well, and evaluates each
  node again in the background until it is evicted. Hard: merges in any order and
  after an eviction, two kinds of evidence for a node, checks under way while the
  state changes. Correct when: merges never go back, what is routed to is in the
  state and graded, a node that is gone is forgotten.
* **Gossip and the ring**, `app/gossip`, `router/ring.go`. Routers find one another over
  memberlist, cut messages in chunks that travel by UDP and put them together again,
  and divide the health checks by positions on a ring. Correct when: a handled message
  is one that was sent, once; every node has one checker among routers that know the
  same nodes; the rings come to agree.
* **Application runner**, `app/run.go`, `multi_app.go`. Runs the parts of a process side by
  side; a failing part or a signal stops all of them, with a time limit. Correct
  when: the process ends, with the right code.
* **Client**, `client.go`, node finders, `auth/client`, `main/` (C API). A request asks for a
  payment and for verified nodes side by side, sends to the router, and collects the
  refund from the trailer when the body ends or is closed. State: the cache of nodes by
  tags, the badge, handles of clients, responses and streams, the wallet's wait group.
  Hard: either half of a request failing while the other is under way, bodies closed by
  another thread than the reader's, a client destroyed under its requests.
* **Key rotation and gateway**, `keyrotation`, `gateway`. Periods of keys that overlap; the
  client picks one for life.
* **Compute node and TPM**, `cmd/mem-compute`, `tpm`, `attestation/attest`. A node makes a
  key that the TPM uses only while its registers are what they were, persists it,
  certifies it, quotes the registers, collects evidence, and opens requests. State:
  the TPM's registers, handles, NV index and sessions. mem-compute has its TPM in its
  own memory (`main.go:39`): all of it is gone with the process, and nothing in the
  repository restarts one that exited. Hard: registers that change between two steps,
  commands that fail while the node goes on serving.
* **Attestation**, `attestation/verify`. What a client demands of the evidence.
* **Transparency**, `transparency`. Statements signed into a public log, and a store of
  bundles in files. Hard: a store without locks, used by several processes.
* Auth configuration, HTTP formats, encodings, telemetry.

`PROJECT.json` lists every component with its sources and status, and the hazards
with the line at which each bites.

## 2. Modules

| Module | Models | State |
| --- | --- | --- |
| `NonceLocker` | the in-memory locker | `nonces` (the map), `expired` (what IsExpiredAt says) |
| `Payments` | transactions, their four callers, the locker's retrying client | per call: `pc`, `rpc`; the network `inflight`; `cancelled`, `served` |
| `CreditLedger` | abstract: what the system promises of a credit | `redeemer`, `granted` |
| `NonceClock` | the timestamp of one nonce from creation to use | the clock, the credit's stage, its timestamp, the sleep in finalize |
| `BlindBank` | accounts behind the retrying HTTP client | balances, commits not yet credited (`crediting`), Consumes that nobody waits for (`late`), credits that reach no account (`stranded`), what was signed, client states |
| `Currency` | values, rounding, wire format | one value on its way from amount to amount |
| `DelayPool` | the pool with its Adds, processor, closer and reader | heap, notification slots, one program counter per goroutine |
| `WorkPool` | workers, AddJob, ScaleWorkers, Close | one program counter per goroutine, the queue, the idle counter, the mutex; `overdrawn`, a history of the calls that were to stop every worker |
| `NodeState` | what one router knows: merging, grading, evaluation, eviction | none: operations on a router's record (`agents`, `health`, `routing`, `pending`, `up`) |
| `RouterCluster` | agents on the nodes, routers, their broadcasts, exchanges of states, checks and background evaluations | the clock, a record per router and per agent, messages on their way, checks under way |
| `Pipeline` | channels with several writers, failing and cancelled pipelines | what each step is about to send, which steps are done, how the pipeline ended |
| `Wallet` | all steps of the wallet's pipeline, payments, Close | accounts, batches, payments on their way, callers, the closer |
| `KeyRotation` | periods, the client's and the gateway's choice of a key | none: operators |
| `NodeFinder` | the cached and the simple node finder, the auth client's badge | cache, badge, one find per caller |
| `Client` | creation, requests, payments, refunds, the C API's handles, destruction | one record per request, the wait group, the wallet and whether its pipeline works (`pipe`), one program counter per destroyer |
| `Transparency` | statements, signer, importer, finders, the file store | the log, the files, one program counter per process |
| `ComputeNode` | the node's set up, evidence and requests on its TPM | the machine, its TPM, the process, one record per request |
| `Attestation` | the verifiers and a client that fetches, verifies and sends | none of its own |
| `Gossip` | App, delegate, broadcaster, receiver, ring | members and ring of each router, packets on their way, received chunks |
| `AppRunner` | Run, Multi, groupApp and their applications | one program counter per goroutine, contexts |
| `RouterProcess` | the two together | which of the two runs |
| `PaymentsProofs`, `BlindBankProofs`, `NonceClockProofs`, `DelayPoolProofs`, `WorkPoolProofs`, `RouterClusterProofs`, `RouterProcessProofs`, `WalletProofs` | theorems about the module each is named after (section 4) | |

`Payments` extends `NonceLocker`: an attempt of a remote operation is a member of
`inflight`, and `Execute` runs one of the locker's operations on it, so each of
them is one atomic step, as the mutex makes it. `BlindBank` uses the abstraction
that `Payments` is shown to implement: redeeming a credit is one step that
happens once. In a lossy run Deposit may be told that its Commit failed, and the locker
execute the Consume all the same (`CommitFails`, `ConsumesLate`; `bank.go:191-194`). `RouterCluster` extends `NodeState`: the manager's mutex makes each of
its operations one step, so each is a function of the router's record, and the
delay pool behind the background evaluations is the number `pending` of entries a
node has in it (its capacity is unlimited, so Add does not block). `Wallet` extends
`Pipeline`; `Client` extends `NodeFinder` and `KeyRotation`, and knows of the wallet what `Wallet` shows of it: a payment that was
asked for is answered as long as the pipeline works, and with an error or not at all once
it is broken; an error does not release the wait group (`payment.go:58-60`), and Close
waits for the wait group. `Attestation` extends
`ComputeNode`, which extends `Transparency`: the image manifest a client looks up is
one of the store's statements. `RouterProcess` extends `Gossip` and `AppRunner`; a behaviour
of it is one of either, since an application's Run and Shutdown are all they share. `MC*` modules define the instances.

How code becomes actions:

* A goroutine is a program counter. A step is what happens between two points at
  which another goroutine can be seen: a remote call, a channel operation, an
  unlock, an atomic counter. `WorkPool` keeps `idleWorkers.Add(-1)` and
  `workers.Add(-1)` as steps of their own because `Close` reads both counters.
* A remote call is an attempt in flight. It executes at most once, at any time
  after it was sent, whether or not the caller has meanwhile retried or given up.
  This covers lost requests (it executes never), lost answers (it executes and
  nobody listens), and late and reordered ones.
* A `select` is a disjunction: Go picks any ready case.
* Contexts are cancelled at any moment (`Cancel`, the `MayCancel` constants).
* Cryptography is its verdict. A signature is the value it stands for; blinding is
  left out. Error values are kept as far as callers tell them apart (`AnswerTo`:
  only NoLock is a 5xx and therefore retried).

What the larger modules abstract:

* `Wallet`: a process is a step together with the steps that only forward to it, which
  removes slots in which a value may wait and nothing else. A transfer moves its amount
  in one step, or fails before or after it; one to a payment is in two, because the
  caller may go in between. Amounts are exact currency values. Counters are left out.
* `Client`: a remote call ends well, badly, or with an answer that cannot be decoded.
  A tag is what it has between its "|" signs, so that the cache's key, which joins tags
  with one, is what the code makes it. The periods of keys are free, as the gateway's are.
  Reading a body is reaching its end or not.
* `ComputeNode`: the attested registers are those of the boot and the one that the node
  extends. A policy is the register values it was made from, a key is its number and
  its policy. The TPM is external: it refuses a key whose policy is not met, and
  counts the changes of its registers. A command that fails during the set up ends the
  process, whose TPM a new start or boot finds empty (`Reboot`; nothing obliges it to
  happen); one that fails in a request refuses that request only.
* `Attestation`: each attestor and each verifier is an operator of its own, over the set
  of pieces; a piece verifies or not (`host.untrusted`), or is not there
  (`host.missing`). An event log has the digests that are replayed, the data that the
  root is read from, and a secure boot field; the three need not agree (`host.told`).
* `Transparency`: a bundle is the number of its log entry, and a signature its identity.
  Creating a file and filling it are two steps, with crashes in between.
* `Gossip`: memberlist tells a member of others sooner or later, may take a live one for
  dead, loses, repeats and reorders packets. A join tries the first `MaxPeersToJoin` of the
  addresses and reaches any of the live ones among them. At most `MaxStopped` routers stop,
  some with an error of memberlist that skips the wait for their handlers. Positions on the ring are numbers; that no
  two virtual nodes share one, and no two compute nodes, is assumed (`PositionsDistinct`,
  `NodesDistinct`): they are 32-bit checksums. A list of positions is therefore sorted by
  sorting its set.
* `AppRunner`: applications return when they like, with or without an error.

Each property that a run lists is a conjunction of named parts, or a single one. In
each module `TypeOK` is the type invariant, and it is checked as a part of one of them.
Operators `F...` that precede a definition `F` and are used nowhere (many say "Mutated
form") are no part of the specification. Each is a plausible mistake in `F`;
substituted for it, TLC refutes the property that `PROJECT.json` pairs it with.

## 3. Runs

| Run | Properties | Instance |
| --- | --- | --- |
| `payments_lossy` | whatever the network does, `NoDoubleSpend`, `ConsumedIsFinal`, `TypeOK`, and the refinement `LedgerSpec` | an exchange and a proxied request with one credit, two attempts each, loss, expiry, cancellation |
| `payments_reliable` | over a locker that answers: `LockFollowsCall` (an open transaction owns its lock; no error path leaves one), `ServedOnce`, `DepositsSettle` (one of racing deposits wins; a failed one has not consumed), `EveryCallEnds` | four calls, two credits, all handler kinds but exchange, cancellation of one |
| `nonce_clock` | `StampIsSafe` (an early increment is hidden), `AcceptedInItsPeriod` | period 6, safe time 2, skew 1, every start second |
| `blind_bank` | `AccountsSound` (books balance; a credit is redeemed once; a deposit that is reported done is on its account), `NothingForFree` | a credit deposited twice, a full withdrawal, a batch; two accounts, two attempts each, lossy |
| `currency` | `FormatFaithful` (canonical, round trip), `RoundedFairly` (to a neighbour, unbiased) | exponents up to 17, 8 rounding factors |
| `delay_pool` | `CapacityShared` (bound, no lost wakeup), `CloseIsClean` (nobody sends on the closed output; only ready items are lost), `NeverEarly`, `ItemsPass`, `CloseReturns` | capacity 1, three items with delays 0, 1, 2, both closes |
| `work_pool` | `JobsAccounted` (accepted jobs have run when Close returns), `CloseReturns`, `PoolGoesOn` (only calls that race stop every worker; unless one has, scaling returns and jobs run) | three workers, two jobs, a buffer of one, three calls of ScaleWorkers: to three, to two, to one |
| `router_cluster` | `RoutingFollows` (routing and evaluations follow the state), `MergesAgree`, `NeverGoesBack`, `GoneIsForgotten` | two routers, one node with two events and two instants of checks, one exchange of states, messages lost, late and reordered |
| `wallet` | `NothingLost` (conserved; all back at the source after Close), `ChannelsSound` (no send on a closed channel; a batch is passed on once), `CloseReturns` | funds 5 in one source account, prefetched credits of 2; two payers; or one payer with a failing call and a Close cut short; or one who asks for less than the prefetch amount |
| `client` | `RequestFits` (nodes have the tags asked for, as the cache spells them; the badge is known), `PaymentsAccounted` (wait group exact, payments end, refunds collected, a destroyed client has settled), `CallsReturn` (unless the wallet's pipeline broke) | one request beside the user interface while time passes; two requests with tags of the same spelling; one response read, streamed and destroyed while two callers destroy the client; two requests racing a destroyer; in the last two the pipeline may break |
| `attestation` | `AttestationExact` (what is accepted is sealed to what was attested and opens only there; honest nodes are accepted), `NodeKeepsCount` (sessions are kept only after a refusal or a failure; sequence numbers), `BundlesSound` (found is signed, signed once, stored stays) | fourteen machines, through two failing commands, two boots, a loaded model and two requests, with pieces missing, unverifiable or telling another story than the registers; ten assignments of sign, import, find and list to three processes, in turn or racing |
| `router_process` | `GossipSound` (messages whole and once; one checker per node among routers that know the same nodes, whichever these are), `RingsAgree` (or the network is split and nobody looks for the others), `ExitIsRight`, `ProcessEnds` | the default threshold of one; three routers, of which two may stop and one is taken for dead once, with a member of an older cluster; or two, one sending a message of three bytes and an empty one in chunks of at most two; two applications |

Why the bounds are enough. In the payment runs a violation needs two calls on one
nonce and one attempt that is late: two tries give every attempt a successor to be
confused with, and two calls per credit give every lock a rival. In `nonce_clock`
only the order of 0 < SafeTime < Quantum and Skew < SafeTime matters, and all
starting seconds of a period are tried. `currency` uses 17 exponents because the
ninth bit is needed from exponent 16 on, and looks at every quarter below 72 and
at both sides of each power of two; the grid of 8 stands for 2^53. In `delay_pool`
capacity 1 with three Adds has a blocked Add behind a blocked Add; three different
delays make a new item come before, between and after the ones in the heap. In
`work_pool` the pool grows and is shrunk twice, in any order and while it is closed, so that
the second shrinking call counts workers that the first one told to stop. In `blind_bank`
(1,599,744 states) one credit is deposited into two accounts, the second of which does not
exist yet, with two attempts each, any of them late and any Commit failing. In
`router_cluster` nodes do not influence each other but for which are new in a merge;
two events give every event a later one to be overtaken by, two checks at different
instants give histories an order to lose, an age of 1 and a clock to 3 let everything
that was ever said grow too old. Agents post to one router, so the other hears only
by broadcast and exchange. Times are nanoseconds: no two checks have the same one.
In `wallet` five is two prefetched credits and a rest, so that a split leaves something
behind; two payers draw on one batch, and each lasts while the other returns its change.
Faults and a second payer are not combined: a fault fails the pipeline, which ends the
properties' premise. In `client` the cache holds one entry, so that two tag sets evict
each other, two tag sets are spelled alike, and of three keys two overlap, the later one
ending first, and one is not active yet. In `attestation` two failing commands per node
put one before and one after any step, and leak the one session that the TPM has; two
boots put another image between any two steps; numbers of two digits in base two carry
and overflow. In `router_process` three routers of which two stop leave any of them alone
with the old member, and the first two of three addresses leave one router that nobody
joins by itself; three bytes in chunks of one or two come cut in two ways; one checker is
asked for over every set of nodes. The largest runs are `blind_bank`, `client` (368,953
states, about three minutes), `attestation` (289,158), `work_pool` (238,983) and
`router_process` (226,334, over two minutes).

Fairness. `Payments`: each handler runs on a goroutine of its own and a locker that
is reachable answers, so weak fairness of each handler and of executing attempts;
nothing is assumed fair in the lossy runs. `DelayPool`: runnable goroutines run,
time passes, and the reader of Output keeps reading, which Close's documentation
demands; *calling* Add or Close is never assumed. `WorkPool`: runnable goroutines
run and jobs return; Close is not assumed to be called. `RouterCluster`: time passes,
and the delay pool hands out every entry (which `delay_pool` checks as
`ItemComesOut`); nothing is assumed of agents, checkers or messages. `Wallet`: steps go
on, a caller completes its payment or gives up, which BeginPayment demands, and a begun
Close goes on. `Client`: every remote call has a timeout, so it ends; the wallet answers
payments as long as its pipeline works, which `wallet` checks, and nothing is assumed of a
broken one; users destroy the responses they get. `Attestation`: nothing is assumed fair.
`RouterProcess`: join loops tick and in the end reach the live addresses they try,
memberlist spreads what it knows, to the old member too, and finds out who is gone;
goroutines go on, and an application
that was told to shut down returns; the time limit of Run is not relied upon.

### Observations

The models show where the code parts with its comments. The properties say what does
hold; TLC gives a counterexample to the stronger statement when it is put in their place.

* **A deposit can fail after it consumed the credit** (`processor.go:117`): the
  answer to Consume is lost, the retry is answered ErrNonceConsumed, Commit
  reports an error. The contract (`blind_bank_contract.go:46`) says deposits fail or
  complete. `DepositAllOrNothing` with the constants of `payments_lossy` and deposits; in
  `BlindBank` such credits are `stranded`, and `AccountsSound` says that nothing else
  keeps a redeemed credit from its account.
* **A credit lives for its period, not for its lifespan** (`nonce.go:80`): IsExpiredAt
  does not subtract the lifespan from the clock, while the wallet adds it. In
  `nonce_clock` the credit reaches "expired".
* **A close drops items the processor popped** (`delay/pool.go:317`): one after the other,
  as long as they are ready. `CloseIsClean` allows just these.
* **A router can panic when it hears of a check before the agent**
  (`node_evaluation.go:67`): a node without an agent that grades ok makes the
  evaluator follow a nil pointer; the caller's comment (`manager.go:185`) says nil is
  fine. In `router_cluster` such a router goes down (`up`).
* **Two ScaleWorkers in a row can stop the last worker** (`work/pool.go:109`), since a
  worker that was told to stop counts until it has left. The second call then waits for
  ever with the mutex, or leaves a pool that runs nothing. `PoolGoesOn` without
  `overdrawn` is refuted; `OnlyRacesOverdraw` says what it takes.
* **Destroying a client can hang whatever WalletCloseTimeout says** (`config.go:69`
  against `wallet.go:281`). An error answered to a payment is returned without
  paymentsWG.Done (`payment.go:58-60`, `71-73`, `82-84`), and after a failed pipeline
  payments are answered so or not at all: Close waits for them without regard for its
  context. `CallsReturn` without its exception for a broken pipeline is refuted.
* **Nodes may be checked by nobody, or twice.** The ring's query (`ring.go:100`) goes
  through the nodes that the *asking router* knows (`cluster_member.go:220-221`) and moves
  by at most one position per node, so that the checker of a node depends on which others
  are known. With positions 1 (A) and 3 (B), a node at 7 that A knows alone and that B
  knows beside one at 4 is checked by neither. A lost broadcast is enough. `OneChecker`
  therefore speaks of routers that know the same nodes, for every set of them.
* **A network can stay split** (`app/gossip/app.go:170`). The join loop stops at
  PeerDiscoveryThreshold members, one by default (`gossip/config.go:51`), and a member of
  an older cluster counts: r3 knows the old member only, r2 leaves, and r1 finds nobody
  at the addresses it tries. Two pairs stay apart in the same way. `RingsAgree` without
  `SplitForGood` is refuted.
* **Acceptance does not show what was booted** (`eventlog.go:104-131`). The registers are
  replayed from the digests of the events, the root hash is read from the data of an event,
  and the two are never compared; secureBoot is a field beside the log that nothing signs
  (`eventlog.go:52`, `88-89`). `AcceptedIsSealed` speaks of a released image and of secure
  boot only for logs whose data are what was measured (`LogTells`), and of the quoted
  registers for all.

In the payment system: a withdrawal can debit and deliver
nothing, since the transfer ID is not looked at and a repeated attempt debits again
(`bank.go:62`, against the contract's "Must fail or complete all requests"); the books
balance all the same. Rollback with a cancelled context does
not release, and no lock times out (`processor.go:143`; this is why `NoLeakedLock`
excepts cancelled calls). A late Release frees the lock of another transaction,
since tickets are not compared; a third may then lock the nonce too
(`nonce_locker.go:152`), yet `NoDoubleSpend` holds. A special value with its ninth
bit set loses its shift bit in parsing (`value.go:236`). An item leaves the delay
pool's heap before it is taken out, so the pool may hold one more than its capacity
(`pool.go:299`), and one notification stands for several freed places, so a second
blocked Add may wait longer than it must (`pool.go:325`). AddJob may send on a
closed channel and panic (`work/pool.go:166`, `AddPanics`).

In the router: a heartbeat that arrives after its node was evicted brings the node
back until it is too old again, which is why `GoneIsForgotten` is about the end and
not about the moment of the shutdown. A node known by its health alone is graded
unknown once its checks are old and is then kept for ever. When a merge brings new
agents, nodes of which only the health is new are not scheduled for evaluation
(`router.go:271`), which is why `AgentsAreReevaluated` speaks of agents.
`knownNodeCount` counts a node once for its health and once for its agent
(`manager.go:177`). Histories are never trimmed (the checker's MaxAge is not used).
Two histories that hold checks of the same nanosecond in a different order merge
to one that holds them twice (`history.go:137`).

In the wallet: the index of the loop at `consolidate.go:175` is never increased, so
consolidated accounts come out at the shutdown only. BeginPayment accepts an amount below
the prefetched one, and the pipeline then fails on it, which is why `CloseReturns` excepts
failed pipelines. Close holds a mutex on which BeginPayment then waits
without regard for its context. `pipeline_steps.go:225` looks at the wrong error.
FilterFullAccounts writes to an output it did not register.

In the client: cache keys join tags with "|", so the entries of tags that contain one can
collide (`cached_node_finder.go:85`), although the comment at `cached_node_finder.go:36-37`
says "Each unique tag combination gets its own cache entry"; `NodesFit` says what holds. The
cache ignores maxNodes. The client keeps the most recently activated of the keys that are active when it is
created. That need not be the one that ends last: the gateway's keys have any ActiveFrom
and ActiveUntil (`gateway.go:43-52`), and AddDate(0, 6, 0) (`keyrotation/period.go:58`) takes
31 August to 3 March and 1 September to 1 March. An
answer from a node that was no candidate cancels a credit that was spent. A refund
header that cannot be parsed leaves the payment open, and Close hangs (the instance has
an honest router). A garbled badge is stored empty. When the router fails the whole
credit is taken back though it may have been spent. `keypairs.go:128` uses one seed for
every key. Setting default tags assigns before it validates. A destroy whose Close
fails keeps its handle.

In attestation: two signers of one statement race to two log entries, and the second
overwrites the first (`caching_signer.go:86`; `SignedOnce` speaks of signers in turn). A
crash between creating and filling a file leaves an empty one, which the caching signer
returns unverified and which makes every list fail (`fs_store.go:66`). GPU evidence is
optional. A session of the TPM leaks with every error of PolicyPCR (`tpm.go:683-685`),
also when the registers have changed, and then for every request; and when the cleanup
fails, whose error is joined to a variable that is not returned
(`router_com_lib.go:455-459`). The node serves on: `SessionsReleased` says that there are
no other leaks. Evidence without an event log, secure boot field or public key makes the
verifier follow a nil pointer (`prod.go:287-296`, `eventlog.go:52`; `Panics`).
`tdx_tee.go` follows a pointer before it looks at the error; TDXCollateral of the
verifier is never called.

In gossip: memberlist asks for broadcasts once per peer, so each chunk goes to one peer
only and a message of several chunks rarely arrives whole; `receiver.cleanup` is never
called; an empty message is dropped as malformed. The ring's query moves by at most one
position per node, so a node is not checked by its nearest router. Two
virtual nodes at one position would make routers disagree, and so would two compute nodes,
which the unstable sort of a map's keys may put in either order (`ring.go:118`). A Leave or
Shutdown of memberlist that fails makes Run return without waiting for its handlers
(`app.go:122-134`). In the runner: SingleFuncApp forgets a Shutdown that comes before its Run, and Multi then
waits for ever; Run panics when an application ends after the time limit
(`run.go:64`, `PanicsOnlyWhenSlow`).

## 4. Proofs

Each `*Proofs` module proves, for every value of the constants that its module's named
assumptions allow, properties that a run checks on an instance.

| Module | Theorem | Property | Under |
| --- | --- | --- | --- |
| `PaymentsProofs` | `TypeCorrect`, `SpendOnce`, `ConsumedForGood` | `TypeOK`, `NoDoubleSpend`, `ConsumedIsFinal` | any network |
| | `ImplementsLedger` | `LedgerSpec` | any network |
| | `LocksFollowCalls`, `OneResponsePerCredit` | `LockFollowsCall`, `ServedOnce` | `~Lossy` |
| | `DepositsAreSettled` | `DepositsSettle` | `~Lossy`, no nonce expires |
| `BlindBankProofs` | `BooksAlwaysBalance`, `NothingIsFree` | `AccountsSound`, `NothingForFree` | any network, Commits that fail included |
| `NonceClockProofs` | `StampsAreSafe`, `AcceptedToTheEnd` | `StampIsSafe`, `AcceptedInItsPeriod` | |
| `DelayPoolProofs` | `CapacityIsShared`, `ClosesCleanly`, `NothingIsEarly` | `CapacityShared`, `CloseIsClean`, `NeverEarly` | |
| `WorkPoolProofs` | `CountersAreBounded` | `TypeOK` | |
| | `ClosesAfterEveryJob`, `RacesOverdraw` | `JobsAccounted`, `OnlyRacesOverdraw` (a part of `PoolGoesOn`) | |
| `RouterClusterProofs` | `RoutingFollowsState`, `RoutersAgree`, `RoutersNeverGoBack` | `RoutingFollows`, `MergesAgree`, `NeverGoesBack` | |
| `RouterProcessProofs` | `ExitCodeIsRight`, `GossipIsSound` | `ExitIsRight`, `GossipSound` | |
| `WalletProofs` | `WalletInvariance` | `Inv`, the inductive invariant | |
| | `NothingIsLost`, `ChannelsAreSound` | `NothingLost`, `ChannelsSound` | |

### Payments

`NoDoubleSpend` is not inductive. The strengthening is `Inv`: `TypeOK` and
`PaidIsConsumed`, which says that a call that has paid (it is past its commit, or it
has ended well, or the answer "ok" to its Consume is waiting for it) has its own
ticket in a CONSUMED entry. Since an entry holds one ticket, two calls with one
credit cannot both have paid. The only step that makes a call pay is the execution
of a Consume on a LOCKED nonce, which writes that call's ticket; and no operation
changes a CONSUMED entry (`ServeKeepsConsumed`), which is also all of
`ConsumedForGood`. No lemma needs that the *lock* belongs to the call, which is
false once attempts are late: this is how the code is safe without comparing
tickets. The refinement maps the calls that ended well to `granted` and the ticket of a
consumed nonce to its `redeemer`.

Over a locker that answers (`~Lossy`, as in `payments_reliable`) the lock does belong to
the call. `Reliable` says which entry of the map each point of a handler goes with, and
that an attempt in flight is the one its caller waits for. `LocksFollowCalls` and
`OneResponsePerCredit` follow. The hypothesis is needed: with late attempts a Release
frees somebody else's lock (see Observations). `DepositsAreSettled` also needs that no
nonce expires: if the lock is refused as expired, a race has no winner.

### BlindBank

The inductive invariant adds to `BooksBalance` that what is to be credited or stranded was
redeemed, once and not both, by deposits, and that a locker that answers strands nothing
(`Promised`); that a client which was told, or is about to be, that its deposit is done has it on
its account (`Told`); and that what a client was given or has an answer for was signed
(`Covered`). The books are sums over all accounts and
calls. A sum is the number of pairs of a member and one of its units, so that the
library's theorems on cardinality give the two lemmas that are needed: what one more
member adds, and how a sum changes in one place. Every execution at the bank is shown
to be one of a few things (a refusal or a Commit that fails, a withdrawal of v that signs for
w, a redemption that is to be credited, one that is stranded, the crediting of an account); the
sums are then done once for each.

### NonceClock

Rounding is a division. The lemmas say that two starts of periods less than a period apart
are in order, and that the start of the period never falls behind. The invariant bounds
the timestamp by the next period, and says of each stage of a credit why a timestamp of
the next period is hidden there: it was drawn in the safe time, or finalize sleeps until it.

### DelayPool and WorkPool

`DelayPool`: `Stages` ties the closer's program counter to the flags and to who has an
item in hand; `Ready` and `Located` say that what was taken from the heap was due, and
that what is not due is in the heap, with the closer, delivered or returned; `Waiting`
makes `NoLostWakeup` inductive: only a limited pool makes an Add wait, and the processor
of a limited pool notifies after every pop.

`WorkPool`: `IdleCounted` relates the idle counter to the goroutines, exactly until the
queue is closed and as two bounds afterwards, because workers that return at a closed
queue do not count down. `JobsPlaced` says where an accepted job is. That Close finds
them all run needs a worker that was not told to stop (`Staffed`), which there is unless a
call was to stop them all (`overdrawn`). `RacesOverdraw` says that such a call counted
workers that another one's signal had not taken out yet: its target is one at least, so
without them it leaves one.

### RouterCluster

That two routers agree on an event by its index is not inductive: it says nothing of
events that are under way, in a state that is being sent, or in a check whose result is
not back. The invariant is that there are functions `stamp` and `made`, the
history of the world, such that every event heard of anywhere has the time with which
its agent stamped it, and every check in any history, message or result is the one made
at its instant (`Agrees`); a step that makes an event or a check extends them (`StoryGrows`).
The operations of `NodeState` are proved sound for any set of events and checks closed
under this (`EventSound`, `CheckSound`, `OtherSound`, `BackgroundSound`), so that a step of the
cluster is one citation.

The histories are data of any length. `MergeHistory` is a recursive function; that one
exists that satisfies its equation, and that merging ordered histories gives an ordered
one with the checks of both, is proved by least counterexample (`Least`, from the
well-foundedness of < on Nat): what cannot fail first does not fail. This takes the place
of the library's induction theorems, whose parameter is an operator. That
no two checks of a node share an instant, on which order rests, is built into the model
(`StartCheck`; what two such checks do is an observation above).

### RouterProcess

`GroupFollows`, `RunInOrder` and `CodeSoFar` say that each goroutine of the runner is ahead
of the one that waits for it, and that the exit code is what was sent on the channel so far.

For the gossip network, any routers, positions, messages and sizes of chunks:

* `RingsFit`: the ring of a router is `RingOf` the routers in it, whatever came and went
  before. It is inductive because `AddRouter` and `RemoveRouter` take `RingOf(R)` to
  `RingOf(R \cup {q})` and `RingOf(R \ {q})` (`RingAdds`, `RingRemoves`, `RingFold`); this is
  where the order of the positions and the owners that are deleted with them matter.
  Routers with the same members therefore have the same ring; for any set of nodes that they
  ask about, the index of the query stays inside it (`IndexInRing`) and the nodes are listed
  once each (`NodesListed`), which gives `OneChecker`.
* `CutsFit`: there are offsets at which each message is cut, such that every packet is
  the part between two of them, the final one ends with the message, and a broadcaster has
  what is left after the last. The offsets are a history that no variable keeps, so the
  invariant says that they exist; a chunk adds one (`CutOnce`).
* `ReceiversFit`, `HandledFits`: a receiver has chunks that were sent, and what was handled
  is complete with the receiver, so that the next copy of a chunk is dropped. A complete
  message is the concatenation of its cuts (`WholeMessage`, `CutsJoin`).

The fold over joining routers, the index of the query and the concatenation of the chunks
are recursive functions. That they exist and what they compute is proved by least
counterexample, as for the histories above.

### Wallet

The theorems hold for any funds, amounts, callers, number of batches and of payments at a
time, with services that fail, callers who give up and a Close that is cut short. Both
properties need to know where everything is at any moment; `Inv` says it in parts:

* `Slots`, `Order`: what each step may be about to send, that a step that has returned
  has nothing to send, and in which order the steps of the cycle return. With the graph of
  the pipeline (`WalletTopology`, from which `StepNames` computes who writes which channel)
  this gives `ChannelsSound`: a channel is closed after its last writer has returned.
* `Counted`, `JobsFit`: the wait group is the number of callers who are not done, and the
  payments at work are at most `MaxParallel`.
* `Unique`, `Repetitions`, `Apart`: a batch is in one place. CreateIntents hands it out
  repeatedly, and DedupeBatches passes it on when as many repetitions have come back as the
  last one says. That it does not do so early, nor twice, needs that no repetition is under way
  twice or both out and back, and that none has an index beyond the last one's.
* `Reached`, `LeftEmpty`: an account that money was consolidated into is known to the dedupe
  step, or its name is on the way there; a step that returned without an error has left
  nothing behind. This is what `NothingLost` needs when Close has returned.
* `CreditsConserved`: the total over the source, the batches, the accounts that are passed
  on, the accounts consolidated into and the callers, plus what was spent, is what there was
  at first. Each action is shown to be one of a few moves (from one place to another, out of
  a queue, into it), and the sums are done once for each move.

### Assumptions

Those named in the modules, which TLC evaluates in the runs: tickets are fresh per lock
(`PaymentsAssumption`); the bank's accounts and calls, the delay pool's items, the workers and
the wallet's callers and batches are finitely many, since they are summed up or counted; the safe time is less than a period,
a credit lives for two of them at least (both are constants of the code), and the bound on
the clock of `NonceClock` is three at least; a payment asks for no more than the
prefetched amount and a source account has at least that much (`WalletAssumption`: `BeginPayment`
and `New` refuse anything else), and the wallet's pipeline is the one that
`New` builds (`WalletTopology`). Routers and compute nodes are finitely many, at distinct
positions, and a router has at least one (`GossipAssumption`, `PositionsDistinct`, `NodesDistinct`).

### Only model-checked

Liveness (`EveryCallEnds`, `ItemsPass`, `CloseReturns`, `PoolGoesOn`, `GoneIsForgotten`,
`CallsReturn`, `RingsAgree`, `ProcessEnds`), since fairness and ENABLED are
beyond the prover. `Attestation` (`NodeKeepsCount`,
`BundlesSound`, `AttestationExact`), whose modules use RECURSIVE operators. `Currency`, whose
values are found by recursion over bits, and `Client` (`RequestFits`, `PaymentsAccounted`), whose
proofs are not written.

## 5. Not modelled

Cryptography (blind signatures, HPKE, certificate chains, key derivation) beyond its
verdicts; the TPM and memberlist beyond what the code relies on; encodings other than
currency's, the chunks' and the cache key's; generated code (a fifth of the lines);
configuration, options and command lines; telemetry; the shuffle of nodes, counters and
status; the other in-memory services, which wire these components up; test fixtures. The
wall-clock duration of backoffs is abstracted to "any number of attempts up to the
bound, then give up". The file store is the only state that outlives its process, and its
crashes are modelled. A compute node that is started anew finds an empty TPM, while clients
still have the evidence of the old one; locker and bank keep their state in memory, so a
restart is a new system. The router's choice of a node for a request only reads; `knownNodeCount` is read by
tests only.

## 6. Plan

Done: all modules above, and the proofs of section 4: every invariant of the modules that
have a `*Proofs` module is a theorem. What is left to prove, in this order:
`PaymentsAccounted` and `RequestFits` of `Client`; `AttestationExact` of `Attestation`, after
its recursive operators are rewritten as functions; `FormatFaithful` of `Currency`.
