--------------------------- MODULE WorkPoolProofs ---------------------------
(***************************************************************************)
(* Proofs about WorkPool, for any number of jobs, workers and calls of      *)
(* ScaleWorkers, and any length of the queue.                               *)
(***************************************************************************)
EXTENDS WorkPool, FiniteSetTheorems, TLAPS

USE DEF WorkerPC

\* The workers whose goroutine is at one of the labels, and how many they are.
At(f, labels)    == {w \in Workers : f[w] \in labels}
Count(f, labels) == Cardinality(At(f, labels))

CountedIdle == {"select", "got", "told"}            \* between Add(1) and Add(-1)
NotWorking  == WorkerPC \ {"loop", "busy"}
Staff       == {"loop", "select", "got", "busy"}    \* was not told to stop
Gone        == Leaving

\* The types, without the bound on the idle counter.
BasicType ==
    /\ worker \in [Workers -> WorkerPC]
    /\ idle \in Int
    /\ adder \in [Jobs -> {"idle", "checked", "accepted", "refused", "panicked"}]
    /\ queue \in Seq(Jobs) /\ Len(queue) <= QueueLen
    /\ running \in [Workers -> SUBSET Jobs]
    /\ ran \subseteq Jobs
    /\ scaler \in [Scalers -> {"idle", "scaling", "done"}]
    /\ diff \in [Scalers -> Int]
    /\ closer \in {"open", "polling", "comparing", "waiting", "closed"}
    /\ seenIdle \in Nat
    /\ mu \subseteq Scalers \cup {"closer"}
    /\ overdrawn \subseteq Scalers

\* The mutex: one call scales at a time, and none once Close has started.
OneScales ==
    \A s \in Scalers : scaler[s] = "scaling" => mu = {s} /\ closer = "open"

\* idleWorkers is exact until the queue is closed; from then on the workers that
\* return without Add(-1) stay in it.
IdleCounted ==
    /\ ~QueueClosed => idle = Count(worker, CountedIdle)
    /\ QueueClosed => Count(worker, CountedIdle) <= idle /\ idle <= Count(worker, NotWorking)

\* An accepted job is in the queue, with a worker, or done.
JobsPlaced ==
    \A j \in Jobs : adder[j] = "accepted" =>
        \/ j \in ran
        \/ \E n \in 1 .. Len(queue) : queue[n] = j
        \/ \E w \in Workers : j \in running[w] /\ worker[w] \in {"got", "busy"}

Drained == QueueClosed /\ queue = <<>>

\* As long as no call was to stop every worker: until the queue is closed and
\* empty the pool has a worker that was not told to stop, and a call that scales
\* leaves one when it is done.
ScalesWell(s) == scaler[s] = "scaling" => Count(worker, Staff) + diff[s] >= 1
Staffed ==
    overdrawn = {} /\ ~Drained => At(worker, Staff) # {} /\ \A s \in Scalers : ScalesWell(s)

Inv == BasicType /\ OneScales /\ IdleCounted /\ JobsPlaced
-----------------------------------------------------------------------------
\* Sets of workers are finite and at most all of them.
LEMMA CountBounds ==
    ASSUME NEW f, NEW L
    PROVE  /\ IsFiniteSet(At(f, L)) /\ Count(f, L) \in Nat
           /\ Count(f, L) <= Cardinality(Workers) /\ Cardinality(Workers) \in Nat
           /\ Count(f, L) = 0 <=> At(f, L) = {}
           /\ \A K : K \subseteq L => Count(f, K) <= Count(f, L)
<1>1. IsFiniteSet(Workers) /\ At(f, L) \subseteq Workers
  BY WorkPoolAssumption DEF At
<1>2. IsFiniteSet(At(f, L)) /\ Cardinality(At(f, L)) <= Cardinality(Workers)
  BY <1>1, FS_Subset
<1>3. ASSUME NEW K, K \subseteq L PROVE Cardinality(At(f, K)) <= Cardinality(At(f, L))
  BY <1>2, <1>3, FS_Subset DEF At
<1> QED
  BY <1>1, <1>2, <1>3, FS_CardinalityType, FS_EmptySet DEF Count

\* What one worker's step from one label to another does to a count.
LEMMA MoveCount ==
    ASSUME worker \in [Workers -> WorkerPC], NEW w \in Workers, NEW to \in WorkerPC,
           SetWorker(w, to), NEW L
    PROVE  /\ worker[w] \in L /\ to \in L       => At(worker', L) = At(worker, L) /\ Count(worker', L) = Count(worker, L)
           /\ worker[w] \notin L /\ to \notin L => At(worker', L) = At(worker, L) /\ Count(worker', L) = Count(worker, L)
           /\ worker[w] \in L /\ to \notin L    => Count(worker', L) = Count(worker, L) - 1
           /\ worker[w] \notin L /\ to \in L    => Count(worker', L) = Count(worker, L) + 1
<1>1. IsFiniteSet(At(worker, L)) /\ worker' = [worker EXCEPT ![w] = to]
  BY CountBounds DEF SetWorker
<1>2. ASSUME worker[w] \in L, to \notin L PROVE Count(worker', L) = Count(worker, L) - 1
  <2>1. At(worker', L) = At(worker, L) \ {w} /\ w \in At(worker, L)
    BY <1>1, <1>2 DEF At
  <2> QED
    BY <1>1, <2>1, FS_RemoveElement DEF Count
<1>3. ASSUME worker[w] \notin L, to \in L PROVE Count(worker', L) = Count(worker, L) + 1
  <2>1. At(worker', L) = At(worker, L) \cup {w} /\ w \notin At(worker, L)
    BY <1>1, <1>3 DEF At
  <2> QED
    BY <1>1, <2>1, FS_AddElement DEF Count
<1>4. (worker[w] \in L <=> to \in L) => At(worker', L) = At(worker, L)
  BY <1>1 DEF At
<1> QED
  BY <1>2, <1>3, <1>4 DEF Count

\* The same for the idle counter, its upper bound and the staff.
LEMMA MoveCounts ==
    ASSUME worker \in [Workers -> WorkerPC], NEW w \in Workers, NEW to \in WorkerPC,
           SetWorker(w, to), NEW L \in {CountedIdle, NotWorking, Staff}
    PROVE  Count(worker', L) = IF worker[w] \in L
                               THEN IF to \in L THEN Count(worker, L) ELSE Count(worker, L) - 1
                               ELSE IF to \in L THEN Count(worker, L) + 1 ELSE Count(worker, L)
<1>2. CASE worker[w] \in L
  BY <1>2, MoveCount
<1>3. CASE worker[w] \notin L
  BY <1>3, MoveCount
<1> QED
  BY <1>2, <1>3

\* Which label is in which of the sets.
LEMMA Labels ==
    /\ "off" \in WorkerPC /\ "off" \notin CountedIdle /\ "off" \in NotWorking /\ "off" \notin Staff
    /\ "loop" \in WorkerPC /\ "loop" \notin CountedIdle /\ "loop" \notin NotWorking /\ "loop" \in Staff
    /\ "select" \in WorkerPC /\ "select" \in CountedIdle /\ "select" \in NotWorking /\ "select" \in Staff
    /\ "got" \in WorkerPC /\ "got" \in CountedIdle /\ "got" \in NotWorking /\ "got" \in Staff
    /\ "busy" \in WorkerPC /\ "busy" \notin CountedIdle /\ "busy" \notin NotWorking /\ "busy" \in Staff
    /\ "told" \in WorkerPC /\ "told" \in CountedIdle /\ "told" \in NotWorking /\ "told" \notin Staff
    /\ "stopping" \in WorkerPC /\ "stopping" \notin CountedIdle /\ "stopping" \in NotWorking /\ "stopping" \notin Staff
    /\ "leaving" \in WorkerPC /\ "leaving" \notin CountedIdle /\ "leaving" \in NotWorking /\ "leaving" \notin Staff
  BY DEF CountedIdle, NotWorking, Staff

\* The pool's counters are natural numbers.
LEMMA CountsAreNat ==
    WorkerCount \in Nat /\ WorkerCount <= Cardinality(Workers) /\ WaitCount \in Nat
<1>1. \A S \in SUBSET Workers :
        IsFiniteSet(S) /\ Cardinality(S) \in Nat /\ Cardinality(S) <= Cardinality(Workers)
  BY WorkPoolAssumption, FS_Subset, FS_CardinalityType
<1> QED
  BY <1>1 DEF WorkerCount, WaitCount

\* No worker has started, no job has been accepted.
LEMMA InitInv == Init => Inv
<1> SUFFICES ASSUME Init PROVE Inv
  OBVIOUS
<1> USE DEF Init
<1>1. BasicType
  BY WorkPoolAssumption DEF BasicType
<1>2. OneScales /\ JobsPlaced
  BY DEF OneScales, JobsPlaced
<1>3. IdleCounted
  <2>1. At(worker, CountedIdle) = {}
    BY DEF At, CountedIdle
  <2> QED
    BY <2>1, CountBounds DEF IdleCounted, QueueClosed
<1> QED
  BY <1>1, <1>2, <1>3 DEF Inv

\* Every action keeps the types.
LEMMA NextBasic ==
    ASSUME BasicType, Next, 0 <= idle
    PROVE  BasicType'
<1> USE DEF BasicType, SetWorker, SetAdder
<1>1. ASSUME NEW w \in Workers, Work(w) PROVE BasicType'
  <2>1. CASE Idle(w)
    BY <2>1 DEF Idle
  <2>2. CASE Take(w)
    <3>1. Head(queue) \in Jobs /\ Tail(queue) \in Seq(Jobs) /\ Len(Tail(queue)) = Len(queue) - 1
      BY <2>2 DEF Take
    <3> QED
      BY <2>2, <3>1, WorkPoolAssumption DEF Take
  <2>3. CASE NotIdle(w)
    <3>1. worker' \in [Workers -> WorkerPC]
      BY <2>3 DEF NotIdle
    <3> QED
      BY <2>3, <3>1 DEF NotIdle
  <2>4. CASE Process(w)
    BY <2>4 DEF Process
  <2>5. CASE LeaveOnClose(w)
    BY <2>5 DEF LeaveOnClose
  <2>6. CASE Leave(w)
    <3>1. worker' \in [Workers -> WorkerPC]
      BY <2>6 DEF Leave
    <3> QED
      BY <2>6, <3>1 DEF Leave
  <2> QED
    BY <1>1, <2>1, <2>2, <2>3, <2>4, <2>5, <2>6 DEF Work
<1>2. ASSUME NEW j \in Jobs, Add(j) PROVE BasicType'
  <2>1. CASE AddCheck(j) \/ AddRefused(j) \/ AddPanics(j)
    <3>1. adder' \in [Jobs -> {"idle", "checked", "accepted", "refused", "panicked"}]
      BY <2>1 DEF AddCheck, AddRefused, AddPanics
    <3> QED
      BY <2>1, <3>1 DEF AddCheck, AddRefused, AddPanics
  <2>2. CASE AddQueued(j)
    <3>1. Append(queue, j) \in Seq(Jobs) /\ Len(Append(queue, j)) = Len(queue) + 1
      OBVIOUS
    <3> QED
      BY <2>2, <3>1, WorkPoolAssumption DEF AddQueued
  <2>3. ASSUME NEW w \in Workers, AddHandedOver(j, w) PROVE BasicType'
    BY <2>3 DEF AddHandedOver
  <2> QED
    BY <1>2, <2>1, <2>2, <2>3 DEF Add
<1>3. ASSUME NEW s \in Scalers, Scale(s) PROVE BasicType'
  <2>1. CASE ScaleStart(s)
    <3>1. TargetOf[s] - WorkerCount \in Int
      BY CountsAreNat, WorkPoolAssumption
    <3>2. diff' \in [Scalers -> Int]
      <4> DEFINE d == TargetOf[s] - WorkerCount
      <4>1. diff' = diff \/ diff' = [diff EXCEPT ![s] = d]
        BY <2>1 DEF ScaleStart
      <4>2. d \in Int
        BY <3>1
      <4> HIDE DEF d
      <4> QED
        BY <4>1, <4>2
    <3>3. scaler' \in [Scalers -> {"idle", "scaling", "done"}] /\ mu' \subseteq Scalers \cup {"closer"}
      BY <2>1 DEF ScaleStart
    <3> QED
      BY <2>1, <3>2, <3>3 DEF ScaleStart
  <2>2. ASSUME NEW w \in Workers, StartWorker(s, w) \/ StopWorker(s, w) PROVE BasicType'
    <3>1. worker' \in [Workers -> WorkerPC]
      <4>1. SetWorker(w, "loop") \/ SetWorker(w, "told")
        BY <2>2 DEF StartWorker, StopWorker
      <4> QED
        BY <4>1
    <3>2. diff[s] - 1 \in Int /\ diff[s] + 1 \in Int
      OBVIOUS
    <3>3. diff' \in [Scalers -> Int]
      BY <2>2, <3>2 DEF StartWorker, StopWorker
    <3> QED
      BY <2>2, <3>1, <3>3 DEF StartWorker, StopWorker
  <2>3. CASE ScaleEnd(s)
    BY <2>3 DEF ScaleEnd
  <2> QED
    BY <1>3, <2>1, <2>2, <2>3 DEF Scale
<1>4. CASE Close
  <2>1. closer' \in {"open", "polling", "comparing", "waiting", "closed"}
    BY <1>4 DEF Close, CloseStart, ClosePolls, CloseCompares, CloseEnds
  <2>2. seenIdle' \in Nat /\ mu' \subseteq Scalers \cup {"closer"}
    BY <1>4 DEF Close, CloseStart, ClosePolls, CloseCompares, CloseEnds
  <2> QED
    BY <1>4, <2>1, <2>2 DEF Close, CloseStart, ClosePolls, CloseCompares, CloseEnds
<1>5. CASE Rest
  BY <1>5 DEF Rest, vars
<1> QED
  BY <1>1, <1>2, <1>3, <1>4, <1>5 DEF Next

\* Scaling and closing exclude each other, by p.mu and the check of closeCtx.
LEMMA NextOneScales ==
    ASSUME BasicType, OneScales, Next
    PROVE  OneScales'
<1> USE DEF BasicType, OneScales
<1>1. ASSUME NEW w \in Workers, Work(w) PROVE OneScales'
  BY <1>1 DEF Work, Idle, Take, NotIdle, Process, LeaveOnClose, Leave
<1>2. ASSUME NEW j \in Jobs, Add(j) PROVE OneScales'
  BY <1>2 DEF Add, AddCheck, AddRefused, AddQueued, AddPanics, AddHandedOver
<1>3. ASSUME NEW s \in Scalers, Scale(s) PROVE OneScales'
  <2>1. CASE ScaleStart(s)
    BY <2>1 DEF ScaleStart, Cancelled
  <2>2. CASE ScaleEnd(s)
    BY <2>2 DEF ScaleEnd
  <2>3. ASSUME NEW w \in Workers, StartWorker(s, w) \/ StopWorker(s, w) PROVE OneScales'
    BY <2>3 DEF StartWorker, StopWorker
  <2> QED
    BY <1>3, <2>1, <2>2, <2>3 DEF Scale
<1>4. CASE Close
  BY <1>4 DEF Close, CloseStart, ClosePolls, CloseCompares, CloseEnds
<1>5. CASE Rest
  BY <1>5 DEF Rest, vars
<1> QED
  BY <1>1, <1>2, <1>3, <1>4, <1>5 DEF Next
-----------------------------------------------------------------------------
\* The idle counter follows the workers: each Add(1) and Add(-1) goes with the
\* step that enters or leaves the labels it counts.
LEMMA NextIdleCounted ==
    ASSUME BasicType, OneScales, IdleCounted, Next
    PROVE  IdleCounted'
<1> DEFINE C(f) == Count(f, CountedIdle)
           N(f) == Count(f, NotWorking)
<1> USE DEF BasicType
<1>a. C(worker) \in Nat /\ N(worker) \in Nat
  BY CountBounds
<1>b. ASSUME NEW w \in Workers, NEW to \in WorkerPC, SetWorker(w, to)
      PROVE  /\ C(worker') = IF worker[w] \in CountedIdle
                             THEN IF to \in CountedIdle THEN C(worker) ELSE C(worker) - 1
                             ELSE IF to \in CountedIdle THEN C(worker) + 1 ELSE C(worker)
             /\ N(worker') = IF worker[w] \in NotWorking
                             THEN IF to \in NotWorking THEN N(worker) ELSE N(worker) - 1
                             ELSE IF to \in NotWorking THEN N(worker) + 1 ELSE N(worker)
  BY <1>b, MoveCounts
<1>c. IdleCounted <=> /\ ~QueueClosed => idle = C(worker)
                      /\ QueueClosed => C(worker) <= idle /\ idle <= N(worker)
  BY DEF IdleCounted
<1>d. IdleCounted' <=> /\ ~QueueClosed' => idle' = C(worker')
                       /\ QueueClosed' => C(worker') <= idle' /\ idle' <= N(worker')
  BY DEF IdleCounted
<1>e. C(worker) <= N(worker)
  BY CountBounds DEF CountedIdle, NotWorking
<1> HIDE DEF C, N, WorkerPC
<1>1. ASSUME NEW w \in Workers, Work(w) PROVE IdleCounted'
  <2>0. QueueClosed' <=> QueueClosed
    BY <1>1 DEF Work, Idle, Take, NotIdle, Process, LeaveOnClose, Leave, QueueClosed
  <2>1. CASE Idle(w)
    <3>1. C(worker') = C(worker) + 1 /\ N(worker') = N(worker) + 1
      BY <2>1, <1>b, Labels DEF Idle
    <3> QED
      BY <2>0, <2>1, <3>1, <1>a, <1>c, <1>d DEF Idle
  <2>2. CASE Take(w)
    <3>1. C(worker') = C(worker) /\ N(worker') = N(worker)
      BY <2>2, <1>b, Labels DEF Take
    <3> QED
      BY <2>0, <2>2, <3>1, <1>a, <1>c, <1>d DEF Take
  <2>3. CASE NotIdle(w)
    <3>1. C(worker') = C(worker) - 1 /\ N(worker') \in {N(worker), N(worker) - 1}
      <4>1. CASE worker[w] = "got"
        <5>1. SetWorker(w, "busy")
          BY <2>3, <4>1 DEF NotIdle
        <5> QED
          BY <4>1, <5>1, <1>b, Labels
      <4>2. CASE worker[w] = "told"
        <5>1. SetWorker(w, "stopping")
          BY <2>3, <4>2 DEF NotIdle
        <5> QED
          BY <4>2, <5>1, <1>b, Labels
      <4> QED
        BY <2>3, <4>1, <4>2 DEF NotIdle
    <3> QED
      BY <2>0, <2>3, <3>1, <1>a, <1>c, <1>d DEF NotIdle
  <2>4. CASE Process(w)
    <3>1. C(worker') = C(worker) /\ N(worker') = N(worker)
      BY <2>4, <1>b, Labels DEF Process
    <3> QED
      BY <2>0, <2>4, <3>1, <1>a, <1>c, <1>d DEF Process
  <2>5. CASE LeaveOnClose(w)
    <3>1. C(worker') = C(worker) - 1 /\ N(worker') = N(worker)
      BY <2>5, <1>b, Labels DEF LeaveOnClose
    <3> QED
      BY <2>0, <2>5, <3>1, <1>a, <1>c, <1>d DEF LeaveOnClose
  <2>6. CASE Leave(w)
    <3>1. C(worker') = C(worker) /\ N(worker') = N(worker)
      <4>1. CASE worker[w] = "stopping" /\ SetWorker(w, "leaving")
        BY <4>1, <1>b, Labels
      <4>2. CASE worker[w] = "leaving" /\ SetWorker(w, "off")
        BY <4>2, <1>b, Labels
      <4> QED
        BY <2>6, <4>1, <4>2 DEF Leave
    <3> QED
      BY <2>0, <2>6, <3>1, <1>a, <1>c, <1>d DEF Leave
  <2> QED
    BY <1>1, <2>1, <2>2, <2>3, <2>4, <2>5, <2>6 DEF Work
<1>2. ASSUME NEW j \in Jobs, Add(j) PROVE IdleCounted'
  <2>0. (QueueClosed' <=> QueueClosed) /\ idle' = idle
    BY <1>2 DEF Add, AddCheck, AddRefused, AddQueued, AddPanics, AddHandedOver, QueueClosed
  <2>1. CASE UNCHANGED worker
    BY <2>0, <2>1, <1>c, <1>d
  <2>2. ASSUME NEW w \in Workers, AddHandedOver(j, w) PROVE IdleCounted'
    <3>1. C(worker') = C(worker) /\ N(worker') = N(worker)
      BY <2>2, <1>b, Labels DEF AddHandedOver
    <3> QED
      BY <2>0, <3>1, <1>c, <1>d
  <2> QED
    BY <1>2, <2>1, <2>2 DEF Add, AddCheck, AddRefused, AddQueued, AddPanics
<1>3. ASSUME NEW s \in Scalers, Scale(s) PROVE IdleCounted'
  <2>0. (QueueClosed' <=> QueueClosed) /\ idle' = idle
    BY <1>3 DEF Scale, ScaleStart, ScaleEnd, StartWorker, StopWorker, QueueClosed
  <2>1. CASE UNCHANGED worker
    BY <2>0, <2>1, <1>c, <1>d
  <2>2. ASSUME NEW w \in Workers, StartWorker(s, w) \/ StopWorker(s, w) PROVE IdleCounted'
    <3>1. ~QueueClosed
      BY <2>2 DEF StartWorker, StopWorker, OneScales, QueueClosed
    <3>2. CASE StartWorker(s, w)
      <4>1. C(worker') = C(worker)
        <5>1. worker[w] = "off" /\ SetWorker(w, "loop")
          BY <3>2 DEF StartWorker
        <5> QED
          BY <5>1, <1>b, Labels
      <4> QED
        BY <2>0, <3>1, <4>1, <1>c, <1>d
    <3>3. CASE StopWorker(s, w)
      <4>1. C(worker') = C(worker)
        <5>1. worker[w] = "select" /\ SetWorker(w, "told")
          BY <3>3 DEF StopWorker
        <5> QED
          BY <5>1, <1>b, Labels
      <4> QED
        BY <2>0, <3>1, <4>1, <1>c, <1>d
    <3> QED
      BY <2>2, <3>2, <3>3
  <2> QED
    BY <1>3, <2>1, <2>2 DEF Scale, ScaleStart, ScaleEnd
<1>4. CASE Close
  <2>1. UNCHANGED <<worker, idle>> /\ (QueueClosed => QueueClosed')
    BY <1>4 DEF Close, CloseStart, ClosePolls, CloseCompares, CloseEnds, QueueClosed
  <2> QED
    BY <2>1, <1>a, <1>c, <1>d, <1>e
<1>5. CASE Rest
  BY <1>5, <1>c, <1>d DEF Rest, vars, QueueClosed
<1> QED
  BY <1>1, <1>2, <1>3, <1>4, <1>5 DEF Next

\* A job goes from AddJob to the queue or to a worker, and from the worker to
\* the jobs that were processed: no step in between loses it.
LEMMA NextJobsPlaced ==
    ASSUME BasicType, JobsPlaced, Next
    PROVE  JobsPlaced'
<1> USE DEF BasicType, JobsPlaced, SetWorker, SetAdder
<1>1. ASSUME NEW w \in Workers, Work(w) PROVE JobsPlaced'
  <2>1. CASE Idle(w)
    BY <2>1 DEF Idle
  <2>2. CASE Take(w)
    <3> SUFFICES ASSUME NEW j \in Jobs, adder[j] = "accepted", j \notin ran
                 PROVE  \/ \E n \in 1 .. Len(queue') : queue'[n] = j
                        \/ \E v \in Workers : j \in running'[v] /\ worker'[v] \in {"got", "busy"}
      BY <2>2 DEF Take
    <3>1. /\ Len(Tail(queue)) = Len(queue) - 1 /\ Len(queue) \in Nat /\ Head(queue) = queue[1]
          /\ \A n \in 1 .. Len(queue) - 1 : Tail(queue)[n] = queue[n + 1]
      BY <2>2 DEF Take
    <3>2. CASE \E n \in 1 .. Len(queue) : queue[n] = j
      <4>1. PICK n \in 1 .. Len(queue) : queue[n] = j
        BY <3>2
      <4>2. CASE n = 1
        BY <2>2, <3>1, <4>1, <4>2 DEF Take
      <4>3. CASE n # 1
        <5>1. n - 1 \in 1 .. Len(queue) - 1 /\ Tail(queue)[n - 1] = j
          BY <3>1, <4>1, <4>3
        <5> QED
          BY <2>2, <3>1, <5>1 DEF Take
      <4> QED
        BY <4>2, <4>3
    <3>3. CASE \E v \in Workers : j \in running[v] /\ worker[v] \in {"got", "busy"}
      <4>1. PICK v \in Workers : j \in running[v] /\ worker[v] \in {"got", "busy"}
        BY <3>3
      <4>2. v # w
        BY <2>2, <4>1 DEF Take
      <4> QED
        BY <2>2, <4>1, <4>2 DEF Take
    <3> QED
      BY <3>2, <3>3
  <2>3. CASE NotIdle(w)
    BY <2>3 DEF NotIdle
  <2>4. CASE Process(w)
    BY <2>4 DEF Process
  <2>5. CASE LeaveOnClose(w)
    BY <2>5 DEF LeaveOnClose
  <2>6. CASE Leave(w)
    BY <2>6 DEF Leave
  <2> QED
    BY <1>1, <2>1, <2>2, <2>3, <2>4, <2>5, <2>6 DEF Work
<1>2. ASSUME NEW j \in Jobs, Add(j) PROVE JobsPlaced'
  <2>1. CASE AddCheck(j) \/ AddRefused(j) \/ AddPanics(j)
    BY <2>1 DEF AddCheck, AddRefused, AddPanics
  <2>2. CASE AddQueued(j)
    <3>1. /\ Len(queue') = Len(queue) + 1 /\ Len(queue) \in Nat /\ queue'[Len(queue) + 1] = j
          /\ \A n \in 1 .. Len(queue) : queue'[n] = queue[n]
      BY <2>2 DEF AddQueued
    <3> QED
      BY <2>2, <3>1 DEF AddQueued
  <2>3. ASSUME NEW w \in Workers, AddHandedOver(j, w) PROVE JobsPlaced'
    BY <2>3 DEF AddHandedOver
  <2> QED
    BY <1>2, <2>1, <2>2, <2>3 DEF Add
<1>3. ASSUME NEW s \in Scalers, Scale(s) PROVE JobsPlaced'
  <2>1. CASE ScaleStart(s) \/ ScaleEnd(s)
    BY <2>1 DEF ScaleStart, ScaleEnd
  <2>2. ASSUME NEW w \in Workers, StartWorker(s, w) \/ StopWorker(s, w) PROVE JobsPlaced'
    <3>1. worker[w] \notin {"got", "busy"} /\ (SetWorker(w, "loop") \/ SetWorker(w, "told"))
          /\ UNCHANGED <<adder, queue, running, ran>>
      BY <2>2 DEF StartWorker, StopWorker
    <3>2. \A v \in Workers : worker[v] \in {"got", "busy"} => worker'[v] = worker[v]
      BY <3>1
    <3> QED
      BY <3>1, <3>2
  <2> QED
    BY <1>3, <2>1, <2>2 DEF Scale
<1>4. CASE Close
  BY <1>4 DEF Close, CloseStart, ClosePolls, CloseCompares, CloseEnds
<1>5. CASE Rest
  BY <1>5 DEF Rest, vars
<1> QED
  BY <1>1, <1>2, <1>3, <1>4, <1>5 DEF Next
-----------------------------------------------------------------------------
\* Workers go round their loop without leaving the staff, and none stops that
\* was not told to, until the queue is closed and empty.
LEMMA WorkKeepsStaff ==
    ASSUME BasicType, ~Drained, NEW w \in Workers,
           Work(w) \/ \E j \in Jobs : AddHandedOver(j, w)
    PROVE  /\ At(worker', Staff) = At(worker, Staff)
           /\ At(worker, Gone) = {} => At(worker', Gone) = {}
<1> USE DEF BasicType
<1>a. ASSUME NEW to \in Staff, worker[w] \in Staff, SetWorker(w, to)
      PROVE  /\ At(worker', Staff) = At(worker, Staff)
             /\ At(worker, Gone) = {} => At(worker', Gone) = {}
  BY <1>a DEF At, SetWorker, Staff, Gone, Leaving
<1>b. ASSUME NEW to \in WorkerPC \ Staff, worker[w] \in Gone, SetWorker(w, to)
      PROVE  /\ At(worker', Staff) = At(worker, Staff)
             /\ At(worker, Gone) = {} => At(worker', Gone) = {}
  BY <1>b DEF At, SetWorker, Staff, Gone, Leaving
<1>1. \/ worker[w] \in Staff /\ \E to \in Staff : SetWorker(w, to)
      \/ worker[w] \in Gone /\ \E to \in WorkerPC \ Staff : SetWorker(w, to)
  <2>1. CASE Idle(w) \/ Take(w) \/ Process(w) \/ \E j \in Jobs : AddHandedOver(j, w)
    <3>1. worker[w] \in Staff /\ (SetWorker(w, "select") \/ SetWorker(w, "got") \/ SetWorker(w, "loop"))
      BY <2>1 DEF Idle, Take, Process, AddHandedOver, Staff
    <3> QED
      BY <3>1 DEF Staff
  <2>2. CASE NotIdle(w)
    <3>1. \/ worker[w] = "got" /\ SetWorker(w, "busy")
          \/ worker[w] = "told" /\ SetWorker(w, "stopping")
      BY <2>2 DEF NotIdle
    <3> QED
      BY <3>1 DEF Staff, Gone, Leaving
  <2>3. CASE LeaveOnClose(w)
    BY <2>3 DEF LeaveOnClose, Drained
  <2>4. CASE Leave(w)
    <3>1. \/ worker[w] = "stopping" /\ SetWorker(w, "leaving")
          \/ worker[w] = "leaving" /\ SetWorker(w, "off")
      BY <2>4 DEF Leave
    <3> QED
      BY <3>1 DEF Staff, Gone, Leaving
  <2> QED
    BY <2>1, <2>2, <2>3, <2>4 DEF Work
<1> QED
  BY <1>1, <1>a, <1>b

\* Once closed and empty the queue stays so.
LEMMA StaysDrained ==
    ASSUME Drained, Next
    PROVE  Drained'
  BY DEF Drained, QueueClosed, Next, Work, Idle, Take, NotIdle, Process, LeaveOnClose, Leave, Add,
         AddCheck, AddRefused, AddQueued, AddPanics, AddHandedOver, Scale, ScaleStart, ScaleEnd,
         StartWorker, StopWorker, Close, CloseStart, ClosePolls, CloseCompares, CloseEnds, Rest, vars

\* Whoever starts to scale while nobody is on the way out counts just the staff.
LEMMA CountIsStaff ==
    ASSUME BasicType, At(worker, Gone) = {}
    PROVE  WorkerCount = Count(worker, Staff)
<1>1. {w \in Workers : worker[w] # "off"} = At(worker, Staff)
  BY DEF BasicType, At, Gone, Leaving, Staff
<1> QED
  BY <1>1 DEF WorkerCount, Count

\* What StaffCount counts.
LEMMA StaffCounted == StaffCount = Count(worker, Staff)
  BY DEF StaffCount, Count, At, Staff

\* A call that was not to stop every worker leaves one, whoever else has scaled.
LEMMA NextStaffed ==
    ASSUME BasicType, OneScales, Staffed, Next
    PROVE  Staffed'
<1> SUFFICES ASSUME ~Drained', overdrawn' = {}
             PROVE  At(worker', Staff) # {} /\ \A s \in Scalers : ScalesWell(s)'
  BY DEF Staffed
<1>c. overdrawn \subseteq overdrawn'
  BY DEF Next, Work, Idle, Take, NotIdle, Process, LeaveOnClose, Leave, Add,
         AddCheck, AddRefused, AddQueued, AddPanics, AddHandedOver, Scale, ScaleStart, ScaleEnd,
         StartWorker, StopWorker, Close, CloseStart, ClosePolls, CloseCompares, CloseEnds, Rest, vars
<1>0. ~Drained /\ At(worker, Staff) # {} /\ \A s \in Scalers : ScalesWell(s)
  BY <1>c, StaysDrained DEF Staffed
<1> USE DEF BasicType
<1>a. Count(worker, Staff) \in Nat /\ \A s \in Scalers : diff[s] \in Int
  BY CountBounds
<1>b. ASSUME UNCHANGED <<scaler, diff>>, At(worker', Staff) = At(worker, Staff)
      PROVE  At(worker', Staff) # {} /\ \A s \in Scalers : ScalesWell(s)'
  BY <1>0, <1>b DEF ScalesWell, Count
<1>1. ASSUME NEW w \in Workers, Work(w) PROVE At(worker', Staff) # {} /\ \A s \in Scalers : ScalesWell(s)'
  <2>1. UNCHANGED <<scaler, diff>>
    BY <1>1 DEF Work, Idle, Take, NotIdle, Process, LeaveOnClose, Leave
  <2> QED
    BY <1>0, <1>1, <1>b, <2>1, WorkKeepsStaff
<1>2. ASSUME NEW j \in Jobs, Add(j) PROVE At(worker', Staff) # {} /\ \A s \in Scalers : ScalesWell(s)'
  <2>1. UNCHANGED <<scaler, diff>>
    BY <1>2 DEF Add, AddCheck, AddRefused, AddQueued, AddPanics, AddHandedOver
  <2>2. CASE UNCHANGED worker
    BY <1>b, <2>1, <2>2
  <2>3. ASSUME NEW w \in Workers, AddHandedOver(j, w)
        PROVE  At(worker', Staff) # {} /\ \A s \in Scalers : ScalesWell(s)'
    BY <1>0, <1>b, <2>1, <2>3, WorkKeepsStaff
  <2> QED
    BY <1>2, <2>2, <2>3 DEF Add, AddCheck, AddRefused, AddQueued, AddPanics
<1>3. ASSUME NEW s \in Scalers, Scale(s)
      PROVE  At(worker', Staff) # {} /\ \A t \in Scalers : ScalesWell(t)'
  <2>1. CASE ScaleStart(s)
    <3>1. UNCHANGED worker /\ \A t \in Scalers \ {s} : scaler'[t] = scaler[t] /\ diff'[t] = diff[t]
      BY <2>1 DEF ScaleStart
    <3>2. \A t \in Scalers \ {s} : ScalesWell(t)'
      BY <1>0, <3>1 DEF ScalesWell
    <3>3. ScalesWell(s)'
      <4>1. CASE Cancelled
        BY <2>1, <4>1 DEF ScaleStart, ScalesWell
      <4>2. CASE ~Cancelled
        <5>1. ~(StaffCount + diff'[s] < 1)
          BY <2>1, <4>2 DEF ScaleStart
        <5>2. diff'[s] \in Int
          <6>1. diff'[s] = TargetOf[s] - WorkerCount
            BY <2>1, <4>2 DEF ScaleStart
          <6>2. TargetOf[s] \in Nat
            BY WorkPoolAssumption
          <6> QED
            BY <6>1, <6>2, CountsAreNat
        <5>3. Count(worker', Staff) + diff'[s] >= 1
          BY <1>a, <3>1, <5>1, <5>2, StaffCounted
        <5> QED
          BY <5>3 DEF ScalesWell
      <4> QED
        BY <4>1, <4>2
    <3> QED
      BY <1>0, <3>1, <3>2, <3>3
  <2>2. ASSUME NEW w \in Workers, StartWorker(s, w)
        PROVE  At(worker', Staff) # {} /\ \A t \in Scalers : ScalesWell(t)'
    <3>1. /\ worker[w] = "off" /\ SetWorker(w, "loop") /\ UNCHANGED scaler
          /\ scaler[s] = "scaling" /\ diff'[s] = diff[s] - 1
          /\ \A t \in Scalers \ {s} : scaler[t] # "scaling"
      BY <2>2 DEF StartWorker, OneScales
    <3>2. Count(worker', Staff) = Count(worker, Staff) + 1
      BY <3>1, MoveCounts, Labels
    <3>3. At(worker', Staff) # {}
      BY <3>1 DEF At, SetWorker, Staff
    <3>4. Count(worker', Staff) + diff'[s] >= 1
      BY <1>0, <1>a, <3>1, <3>2 DEF ScalesWell
    <3> QED
      BY <3>1, <3>3, <3>4 DEF ScalesWell
  <2>3. ASSUME NEW w \in Workers, StopWorker(s, w)
        PROVE  At(worker', Staff) # {} /\ \A t \in Scalers : ScalesWell(t)'
    <3>1. /\ worker[w] = "select" /\ SetWorker(w, "told") /\ UNCHANGED scaler
          /\ scaler[s] = "scaling" /\ diff[s] < 0 /\ diff'[s] = diff[s] + 1
          /\ \A t \in Scalers \ {s} : scaler[t] # "scaling"
      BY <2>3 DEF StopWorker, OneScales
    <3>2. Count(worker, Staff) + diff[s] >= 1
      BY <1>0, <3>1 DEF ScalesWell
    <3>3. Count(worker', Staff) = Count(worker, Staff) - 1
      BY <3>1, MoveCounts, Labels
    <3>4. Count(worker', Staff) + diff'[s] >= 1 /\ Count(worker', Staff) # 0
      BY <1>a, <3>1, <3>2, <3>3
    <3>5. At(worker', Staff) # {}
      BY <3>4, CountBounds
    <3> QED
      BY <3>1, <3>4, <3>5 DEF ScalesWell
  <2>4. CASE ScaleEnd(s)
    <3>1. UNCHANGED <<worker, diff>> /\ scaler'[s] = "done" /\ \A t \in Scalers \ {s} : scaler'[t] = scaler[t]
      BY <2>4 DEF ScaleEnd
    <3> QED
      BY <1>0, <3>1 DEF ScalesWell
  <2> QED
    BY <1>3, <2>1, <2>2, <2>3, <2>4 DEF Scale
<1>4. CASE Close \/ Rest
  <2>1. UNCHANGED <<worker, scaler, diff>>
    BY <1>4 DEF Close, CloseStart, ClosePolls, CloseCompares, CloseEnds, Rest, vars
  <2> QED
    BY <1>b, <2>1
<1> QED
  BY <1>1, <1>2, <1>3, <1>4 DEF Next
-----------------------------------------------------------------------------
\* Every step of the pool keeps the invariant.
LEMMA NextInv == Inv /\ [Next]_vars => Inv'
<1> SUFFICES ASSUME Inv, [Next]_vars PROVE Inv'
  OBVIOUS
<1>1. CASE Next
  <2>1. 0 <= idle
    <3>1. Count(worker, CountedIdle) \in Nat
      BY CountBounds
    <3> QED
      BY <3>1 DEF Inv, IdleCounted, BasicType
  <2> QED
    BY <1>1, <2>1, NextBasic, NextOneScales, NextIdleCounted, NextJobsPlaced DEF Inv
<1>2. CASE UNCHANGED vars
  BY <1>2 DEF Inv, BasicType, OneScales, IdleCounted, JobsPlaced, QueueClosed, vars
<1> QED
  BY <1>1, <1>2

\* The invariant holds in every state the pool reaches, with any calls.
THEOREM PoolInvariance == Spec => []Inv
<1> QED
  BY InitInv, NextInv, PTL DEF Spec

\* The bounds of the pool (idleWorkers.Add, AddJob): the idle counter, that
\* workers leave behind when the queue is closed, stays between zero and the
\* number of goroutines, and the queue within its length, whoever scales.
THEOREM CountersAreBounded == Spec => []TypeOK
<1>1. Inv => TypeOK
  <2> SUFFICES ASSUME Inv PROVE TypeOK
    OBVIOUS
  <2>1. /\ Count(worker, CountedIdle) \in Nat /\ Cardinality(Workers) \in Nat
        /\ Count(worker, CountedIdle) <= Cardinality(Workers)
        /\ Count(worker, NotWorking) \in Nat /\ Count(worker, NotWorking) <= Cardinality(Workers)
    BY CountBounds
  <2>2. idle \in 0 .. Cardinality(Workers)
    BY <2>1 DEF Inv, IdleCounted, BasicType
  <2> QED
    BY <2>2 DEF Inv, BasicType, TypeOK
<1> QED
  BY <1>1, PoolInvariance, PTL

\* Close has waited for everybody who is in the pool.
LEMMA NobodyLeft ==
    ASSUME BasicType, WaitCount = 0
    PROVE  At(worker, Staff) = {} /\ \A w \in Workers : worker[w] \notin {"got", "busy"}
<1> DEFINE S == {w \in Workers : worker[w] \notin {"off", "leaving"}}
<1>1. IsFiniteSet(S)
  BY WorkPoolAssumption, FS_Subset
<1>2. S = {}
  BY <1>1, FS_EmptySet DEF WaitCount
<1> QED
  BY <1>2 DEF At, Staff, BasicType

\* A job is accepted before the queue is closed, and what was run stays so.
LEMMA NextAllRan ==
    ASSUME Inv, Staffed, AcceptedJobsRun, [Next]_vars
    PROVE  AcceptedJobsRun'
<1> USE DEF AcceptedJobsRun
<1>1. CASE CloseEnds
  <2>1. At(worker, Staff) = {} /\ \A w \in Workers : worker[w] \notin {"got", "busy"}
    BY <1>1, NobodyLeft DEF Inv, CloseEnds
  <2>2. overdrawn = {} => queue = <<>>
    BY <2>1 DEF Staffed, Drained
  <2>3. overdrawn = {} => Len(queue) = 0
    BY <2>2
  <2>4. overdrawn = {} => \A j \in Jobs : adder[j] = "accepted" => j \in ran
    BY <2>1, <2>3 DEF Inv, JobsPlaced
  <2> QED
    BY <1>1, <2>4 DEF CloseEnds
<1>2. CASE ~CloseEnds
  <2> SUFFICES ASSUME closer' = "closed", overdrawn' = {}, NEW j \in Jobs, adder'[j] = "accepted"
               PROVE  j \in ran'
    OBVIOUS
  <2>1. closer = "closed" /\ overdrawn = {} /\ adder[j] = "accepted" /\ ran \subseteq ran'
    <3> USE <1>2 DEF Inv, BasicType, QueueClosed
    <3>1. ASSUME NEW w \in Workers, Work(w) PROVE closer = "closed" /\ overdrawn = {} /\ adder[j] = "accepted" /\ ran \subseteq ran'
      BY <3>1 DEF Work, Idle, Take, NotIdle, Process, LeaveOnClose, Leave
    <3>2. ASSUME NEW k \in Jobs, Add(k) PROVE closer = "closed" /\ overdrawn = {} /\ adder[j] = "accepted" /\ ran \subseteq ran'
      BY <3>2 DEF Add, AddCheck, AddRefused, AddQueued, AddPanics, AddHandedOver, SetAdder
    <3>3. ASSUME NEW s \in Scalers, Scale(s) PROVE closer = "closed" /\ overdrawn = {} /\ adder[j] = "accepted" /\ ran \subseteq ran'
      BY <3>3 DEF Scale, ScaleStart, ScaleEnd, StartWorker, StopWorker
    <3>4. CASE Close
      BY <3>4 DEF Close, CloseStart, ClosePolls, CloseCompares
    <3>5. CASE UNCHANGED vars
      BY <3>5 DEF vars
    <3> QED
      BY <3>1, <3>2, <3>3, <3>4, <3>5 DEF Next, Rest
  <2> QED
    BY <2>1
<1> QED
  BY <1>1, <1>2

\* JobsAccounted (Close, AddJob): unless a call of ScaleWorkers was to stop every
\* worker there was, the counters are right and Close returns only after every
\* accepted job has been processed, however long the queue, however many call and
\* however many of them shrink the pool.
THEOREM ClosesAfterEveryJob == Spec => []JobsAccounted
<1>1. Init => Staffed /\ AcceptedJobsRun
  <2> SUFFICES ASSUME Init PROVE Staffed /\ AcceptedJobsRun
    OBVIOUS
  <2>1. At(worker, Staff) # {}
    BY WorkPoolAssumption DEF Init, At, Staff
  <2> QED
    BY <2>1 DEF Init, Staffed, ScalesWell, AcceptedJobsRun
<1>2. Inv /\ Staffed /\ AcceptedJobsRun /\ [Next]_vars => Staffed' /\ AcceptedJobsRun'
  <2> SUFFICES ASSUME Inv, Staffed, AcceptedJobsRun, [Next]_vars PROVE Staffed' /\ AcceptedJobsRun'
    OBVIOUS
  <2>1. CASE UNCHANGED vars
    BY <2>1 DEF vars, Staffed, ScalesWell, Drained, QueueClosed, AcceptedJobsRun
  <2>2. CASE Next
    BY <2>2, NextStaffed, NextAllRan DEF Inv
  <2> QED
    BY <2>1, <2>2
<1>3. TypeOK /\ AcceptedJobsRun => JobsAccounted
  BY DEF JobsAccounted
<1> QED
  BY <1>1, <1>2, <1>3, PoolInvariance, CountersAreBounded, PTL DEF Spec

\* OnlyRacesOverdraw (ScaleWorkers): it takes a worker on its way out, told by
\* another call, for a call to ask for the end of every worker; so calls that do
\* not overlap with the leaving of workers keep the pool in business.
THEOREM RacesOverdraw == Spec => OnlyRacesOverdraw
<1>1. Inv /\ [Next]_vars => [overdrawn' # overdrawn => \E w \in Workers : worker[w] \in Leaving]_vars
  <2> SUFFICES ASSUME Inv, Next, overdrawn' # overdrawn, At(worker, Gone) = {} PROVE FALSE
    BY DEF At, Gone, vars
  <2>1. PICK s \in Scalers : ScaleStart(s) /\ ~Cancelled
    BY DEF Next, Work, Idle, Take, NotIdle, Process, LeaveOnClose, Leave, Add,
           AddCheck, AddRefused, AddQueued, AddPanics, AddHandedOver, Scale, ScaleStart, ScaleEnd,
           StartWorker, StopWorker, Close, CloseStart, ClosePolls, CloseCompares, CloseEnds, Rest, vars
  <2>2. /\ diff' = [diff EXCEPT ![s] = TargetOf[s] - WorkerCount]
        /\ overdrawn' = IF StaffCount + diff'[s] < 1 THEN overdrawn \cup {s} ELSE overdrawn
    BY <2>1 DEF ScaleStart
  <2>3. diff'[s] = TargetOf[s] - WorkerCount
    BY <2>2 DEF Inv, BasicType
  <2>4. StaffCount = WorkerCount /\ WorkerCount \in Nat
    BY StaffCounted, CountIsStaff, CountsAreNat DEF Inv
  <2>5. TargetOf[s] \in Nat /\ TargetOf[s] >= 1
    BY WorkPoolAssumption
  <2> QED
    BY <2>2, <2>3, <2>4, <2>5
<1> QED
  BY <1>1, PoolInvariance, PTL DEF Spec, OnlyRacesOverdraw
=============================================================================
