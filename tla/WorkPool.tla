------------------------------ MODULE WorkPool ------------------------------
(***************************************************************************)
(* work/pool.go: a pool of workers that can be scaled up and down.          *)
(*                                                                         *)
(* Actors: the workers, one goroutine in AddJob per job, the callers of     *)
(* ScaleWorkers and one caller of Close.  The counters workers and          *)
(* idleWorkers are atomics that trail the goroutines they count: a worker   *)
(* counts until its deferred workers.Add(-1), after wg.Done().              *)
(***************************************************************************)
EXTENDS Integers, Sequences, FiniteSets

CONSTANTS Jobs,
          Workers,    \* bound: the goroutines the pool may ever start
          Starting,   \* the workers NewPool starts
          QueueLen,   \* maxOpenJobs: 0 hands every job over directly
          Scalers,    \* the calls of ScaleWorkers
          TargetOf,   \* Scalers -> the total each asks for
          MayCancel   \* the jobs whose AddJob may be cancelled

ASSUME WorkPoolAssumption ==
    /\ IsFiniteSet(Workers)
    /\ Starting \subseteq Workers /\ Starting # {}
    /\ QueueLen \in Nat
    /\ TargetOf \in [Scalers -> Nat \ {0}]
    /\ MayCancel \subseteq Jobs

VARIABLES worker,   \* Workers -> where its goroutine is
          idle,     \* idleWorkers
          adder,    \* Jobs -> the goroutine in AddJob
          queue,    \* the buffer of jobQueue
          running,  \* Workers -> the job it processes, a set of at most one
          ran,      \* the jobs that were processed
          scaler,   \* Scalers -> where the call is
          diff,     \* Scalers -> its local diff
          closer,   \* the goroutine in Close
          seenIdle, \* what its IdleWorkers() returned
          mu,       \* who holds p.mu
          overdrawn \* history: the calls that were to stop every worker there was

vars == <<worker, idle, adder, queue, running, ran, scaler, diff, closer, seenIdle, mu, overdrawn>>

\* "loop": before idleWorkers.Add(1); "select": idle; "got", "told": it has
\* received a job or a scale down signal and still counts as idle; "stopping":
\* out of the loop; "leaving": after wg.Done(), before workers.Add(-1).
WorkerPC == {"off", "loop", "select", "got", "busy", "told", "stopping", "leaving"}

TypeOK ==
    /\ worker \in [Workers -> WorkerPC]
    /\ idle \in 0 .. Cardinality(Workers)
    /\ adder \in [Jobs -> {"idle", "checked", "accepted", "refused", "panicked"}]
    /\ queue \in Seq(Jobs) /\ Len(queue) <= QueueLen
    /\ running \in [Workers -> SUBSET Jobs]
    /\ ran \subseteq Jobs
    /\ scaler \in [Scalers -> {"idle", "scaling", "done"}]
    /\ diff \in [Scalers -> Int]
    /\ closer \in {"open", "polling", "comparing", "waiting", "closed"}
    /\ seenIdle \in Nat
    /\ mu \subseteq Scalers \cup {"closer"}
    /\ overdrawn \subseteq Scalers

Init ==
    /\ worker = [w \in Workers |-> IF w \in Starting THEN "loop" ELSE "off"]
    /\ idle = 0
    /\ adder = [j \in Jobs |-> "idle"]
    /\ queue = <<>>
    /\ running = [w \in Workers |-> {}]
    /\ ran = {}
    /\ scaler = [s \in Scalers |-> "idle"]
    /\ diff = [s \in Scalers |-> 0]
    /\ closer = "open" /\ seenIdle = 0 /\ mu = {} /\ overdrawn = {}

\* What the atomic p.workers and the WaitGroup p.wg hold.
WorkerCount == Cardinality({w \in Workers : worker[w] # "off"})
WaitCount   == Cardinality({w \in Workers : worker[w] \notin {"off", "leaving"}})

\* The workers that were told to stop and still count, and those that were not.
Leaving    == {"told", "stopping", "leaving"}
StaffCount == Cardinality({w \in Workers : worker[w] \in {"loop", "select", "got", "busy"}})

Cancelled   == closer # "open"                  \* closeCtx
QueueClosed == closer \in {"waiting", "closed"} \* close(p.jobQueue) was called
-----------------------------------------------------------------------------
(* Workers *)

SetWorker(w, label) == worker' = [worker EXCEPT ![w] = label]

Idle(w) ==
    /\ worker[w] = "loop"
    /\ SetWorker(w, "select")
    /\ idle' = idle + 1
    /\ UNCHANGED <<adder, queue, running, ran, scaler, diff, closer, seenIdle, mu, overdrawn>>

Take(w) ==
    /\ worker[w] = "select" /\ queue # <<>>
    /\ SetWorker(w, "got")
    /\ running' = [running EXCEPT ![w] = {Head(queue)}]
    /\ queue' = Tail(queue)
    /\ UNCHANGED <<idle, adder, ran, scaler, diff, closer, seenIdle, mu, overdrawn>>

\* Mutated form: a worker with a job still counts as idle.
NotIdleForgotten(w) ==
    /\ \/ worker[w] = "got" /\ SetWorker(w, "busy")
       \/ worker[w] = "told" /\ SetWorker(w, "stopping")
    /\ UNCHANGED <<idle, adder, queue, running, ran, scaler, diff, closer, seenIdle, mu, overdrawn>>

\* idleWorkers.Add(-1)
NotIdle(w) ==
    /\ \/ worker[w] = "got" /\ SetWorker(w, "busy")
       \/ worker[w] = "told" /\ SetWorker(w, "stopping")
    /\ idle' = idle - 1
    /\ UNCHANGED <<adder, queue, running, ran, scaler, diff, closer, seenIdle, mu, overdrawn>>

Process(w) ==
    /\ worker[w] = "busy"
    /\ SetWorker(w, "loop")
    /\ ran' = ran \cup running[w]
    /\ running' = [running EXCEPT ![w] = {}]
    /\ UNCHANGED <<idle, adder, queue, scaler, diff, closer, seenIdle, mu, overdrawn>>

\* The queue is closed and drained: the worker returns (and stays "idle").
LeaveOnClose(w) ==
    /\ worker[w] = "select" /\ QueueClosed /\ queue = <<>>
    /\ SetWorker(w, "stopping")
    /\ UNCHANGED <<idle, adder, queue, running, ran, scaler, diff, closer, seenIdle, mu, overdrawn>>

Leave(w) ==
    /\ \/ worker[w] = "stopping" /\ SetWorker(w, "leaving")
       \/ worker[w] = "leaving" /\ SetWorker(w, "off")
    /\ UNCHANGED <<idle, adder, queue, running, ran, scaler, diff, closer, seenIdle, mu, overdrawn>>
-----------------------------------------------------------------------------
(* AddJob: the check of closeCtx, then the select. *)

SetAdder(j, label) == adder' = [adder EXCEPT ![j] = label]

AddCheck(j) ==
    /\ adder[j] = "idle"
    /\ SetAdder(j, IF Cancelled THEN "refused" ELSE "checked")
    /\ UNCHANGED <<worker, idle, queue, running, ran, scaler, diff, closer, seenIdle, mu, overdrawn>>

\* closeCtx.Done() or the caller's own context.
AddRefused(j) ==
    /\ adder[j] = "checked"
    /\ Cancelled \/ j \in MayCancel
    /\ SetAdder(j, "refused")
    /\ UNCHANGED <<worker, idle, queue, running, ran, scaler, diff, closer, seenIdle, mu, overdrawn>>

AddQueued(j) ==
    /\ adder[j] = "checked" /\ ~QueueClosed /\ Len(queue) < QueueLen
    /\ SetAdder(j, "accepted")
    /\ queue' = Append(queue, j)
    /\ UNCHANGED <<worker, idle, running, ran, scaler, diff, closer, seenIdle, mu, overdrawn>>

\* The job goes straight to a worker that is waiting for one.
AddHandedOver(j, w) ==
    /\ adder[j] = "checked" /\ ~QueueClosed /\ queue = <<>>
    /\ worker[w] = "select"
    /\ SetAdder(j, "accepted") /\ SetWorker(w, "got")
    /\ running' = [running EXCEPT ![w] = {j}]
    /\ UNCHANGED <<idle, queue, ran, scaler, diff, closer, seenIdle, mu, overdrawn>>

\* A send on a closed channel that the select picks panics.
AddPanics(j) ==
    /\ adder[j] = "checked" /\ QueueClosed
    /\ SetAdder(j, "panicked")
    /\ UNCHANGED <<worker, idle, queue, running, ran, scaler, diff, closer, seenIdle, mu, overdrawn>>
-----------------------------------------------------------------------------
(* ScaleWorkers: holds p.mu from the count to the last worker. *)

\* Mutated form: the count is off by one.
ScaleStartMiscounts(s) ==
    /\ scaler[s] = "idle" /\ mu = {} /\ ~Cancelled
    /\ scaler' = [scaler EXCEPT ![s] = "scaling"]
    /\ diff' = [diff EXCEPT ![s] = TargetOf[s] - WorkerCount - 1]
    /\ mu' = {s}
    /\ overdrawn' = IF StaffCount + diff'[s] < 1 THEN overdrawn \cup {s} ELSE overdrawn
    /\ UNCHANGED <<worker, idle, adder, queue, running, ran, closer, seenIdle>>

ScaleStart(s) ==
    /\ scaler[s] = "idle" /\ mu = {}
    /\ IF Cancelled
       THEN scaler' = [scaler EXCEPT ![s] = "done"] /\ UNCHANGED <<diff, mu, overdrawn>>
       ELSE /\ scaler' = [scaler EXCEPT ![s] = "scaling"]
            /\ diff' = [diff EXCEPT ![s] = TargetOf[s] - WorkerCount]
            /\ mu' = {s}
            /\ overdrawn' = IF StaffCount + diff'[s] < 1 THEN overdrawn \cup {s} ELSE overdrawn
    /\ UNCHANGED <<worker, idle, adder, queue, running, ran, closer, seenIdle>>

StartWorker(s, w) ==
    /\ scaler[s] = "scaling" /\ diff[s] > 0
    /\ worker[w] = "off"
    /\ SetWorker(w, "loop")
    /\ diff' = [diff EXCEPT ![s] = @ - 1]
    /\ UNCHANGED <<idle, adder, queue, running, ran, scaler, closer, seenIdle, mu, overdrawn>>

\* Mutated forms: a worker that has a job is stopped; the loop counts the
\* wrong way.
StopWorkerWithJob(s, w) ==
    /\ scaler[s] = "scaling" /\ diff[s] < 0
    /\ worker[w] \in {"select", "got"}
    /\ SetWorker(w, "told")
    /\ diff' = [diff EXCEPT ![s] = @ + 1]
    /\ UNCHANGED <<idle, adder, queue, running, ran, scaler, closer, seenIdle, mu, overdrawn>>
StopWorkerAway(s, w) ==
    /\ scaler[s] = "scaling" /\ diff[s] < 0
    /\ worker[w] = "select"
    /\ SetWorker(w, "told")
    /\ diff' = [diff EXCEPT ![s] = @ - 1]
    /\ UNCHANGED <<idle, adder, queue, running, ran, scaler, closer, seenIdle, mu, overdrawn>>

\* The send on scaleDown meets a worker in its select.
StopWorker(s, w) ==
    /\ scaler[s] = "scaling" /\ diff[s] < 0
    /\ worker[w] = "select"
    /\ SetWorker(w, "told")
    /\ diff' = [diff EXCEPT ![s] = @ + 1]
    /\ UNCHANGED <<idle, adder, queue, running, ran, scaler, closer, seenIdle, mu, overdrawn>>

ScaleEnd(s) ==
    /\ scaler[s] = "scaling" /\ diff[s] = 0
    /\ scaler' = [scaler EXCEPT ![s] = "done"]
    /\ mu' = {}
    /\ UNCHANGED <<worker, idle, adder, queue, running, ran, diff, closer, seenIdle, overdrawn>>
-----------------------------------------------------------------------------
(* Close: cancels, polls the two counters, closes the queue, waits. *)

CloseStart ==
    /\ closer = "open" /\ mu = {}
    /\ closer' = "polling" /\ mu' = {"closer"}
    /\ UNCHANGED <<worker, idle, adder, queue, running, ran, scaler, diff, seenIdle, overdrawn>>

ClosePolls ==
    /\ closer = "polling"
    /\ seenIdle' = idle
    /\ closer' = "comparing"
    /\ UNCHANGED <<worker, idle, adder, queue, running, ran, scaler, diff, mu, overdrawn>>

\* Mutated form: waits for more idle workers than there are.
CloseComparesStrictly ==
    /\ closer = "comparing"
    /\ closer' = IF seenIdle <= WorkerCount THEN "polling" ELSE "waiting"
    /\ UNCHANGED <<worker, idle, adder, queue, running, ran, scaler, diff, seenIdle, mu, overdrawn>>

CloseCompares ==
    /\ closer = "comparing"
    /\ closer' = IF seenIdle < WorkerCount THEN "polling" ELSE "waiting"
    /\ UNCHANGED <<worker, idle, adder, queue, running, ran, scaler, diff, seenIdle, mu, overdrawn>>

\* Mutated form: Close returns without p.wg.Wait().
CloseEndsEarly ==
    /\ closer = "waiting"
    /\ closer' = "closed" /\ mu' = {}
    /\ UNCHANGED <<worker, idle, adder, queue, running, ran, scaler, diff, seenIdle, overdrawn>>

CloseEnds ==
    /\ closer = "waiting" /\ WaitCount = 0
    /\ closer' = "closed" /\ mu' = {}
    /\ UNCHANGED <<worker, idle, adder, queue, running, ran, scaler, diff, seenIdle, overdrawn>>
-----------------------------------------------------------------------------
Work(w)  == Idle(w) \/ Take(w) \/ NotIdle(w) \/ Process(w) \/ LeaveOnClose(w) \/ Leave(w)
Add(j)   == AddCheck(j) \/ AddRefused(j) \/ AddQueued(j) \/ AddPanics(j)
            \/ \E w \in Workers : AddHandedOver(j, w)
Scale(s) == ScaleStart(s) \/ ScaleEnd(s)
            \/ \E w \in Workers : StartWorker(s, w) \/ StopWorker(s, w)
Close    == CloseStart \/ ClosePolls \/ CloseCompares \/ CloseEnds

Rest == closer = "closed" /\ UNCHANGED vars

Next ==
    \/ \E w \in Workers : Work(w)
    \/ \E j \in Jobs : Add(j)
    \/ \E s \in Scalers : Scale(s)
    \/ Close
    \/ Rest

\* Every goroutine that can run does; CloseStart stays optional, and the jobs'
\* Process() returns (a property of the jobs, assumed here).
Fairness ==
    /\ \A w \in Workers : WF_vars(Work(w))
    /\ \A j \in Jobs : WF_vars(Add(j))
    /\ \A s \in Scalers : WF_vars(Scale(s))
    /\ WF_vars(ClosePolls \/ CloseCompares \/ CloseEnds)

Spec == Init /\ [][Next]_vars
FairSpec == Spec /\ Fairness
-----------------------------------------------------------------------------
\* ScaleWorkers counts workers that were told to stop and have not left yet.  A
\* call that counts too many of them stops every worker there is: it then waits for
\* ever with the mutex, or leaves a pool that runs nothing.  That takes another
\* scaling whose workers are still on their way out.
OnlyRacesOverdraw ==
    [][overdrawn' # overdrawn => \E w \in Workers : worker[w] \in Leaving]_vars

\* Unless a call has stopped every worker, Close returns only after every job that
\* AddJob accepted has been processed, those accepted while it was closing included
\* (buffered and handed over).
AcceptedJobsRun ==
    closer = "closed" /\ overdrawn = {} => \A j \in Jobs : adder[j] = "accepted" => j \in ran

\* Close returns, once it has the mutex.
CloseReturns == closer = "polling" ~> closer = "closed"

\* ScaleWorkers, which holds the pool's mutex while it waits for a worker to
\* take its signal, returns, so that Close gets the mutex: unless it is, or comes
\* after, a call that stops every worker.
ScaleReturns ==
    \A s \in Scalers : scaler[s] = "scaling" ~> scaler[s] = "done" \/ overdrawn # {}

\* A job that AddJob accepted is processed, whoever closes the pool and however
\* many scale it, unless one of them has stopped every worker.
JobsSettle ==
    \A j \in Jobs : adder[j] = "accepted" ~> j \in ran \/ overdrawn # {}

\* The counters are those of the goroutines, and Close has waited for every
\* accepted job (Close).
JobsAccounted == TypeOK /\ AcceptedJobsRun

\* Scaling ends and accepted jobs run as long as no two calls of ScaleWorkers
\* shrink the pool at the same time (ScaleWorkers).
PoolGoesOn == OnlyRacesOverdraw /\ ScaleReturns /\ JobsSettle
=============================================================================
