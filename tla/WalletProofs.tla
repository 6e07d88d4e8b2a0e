---------------------------- MODULE WalletProofs ----------------------------
(***************************************************************************)
(* Proofs about Wallet, for any funds, amounts, callers, number of batches  *)
(* and of parallel payments, with failing services, callers who give up and *)
(* a Close that is cut short.                                               *)
(***************************************************************************)
EXTENDS Wallet, FunctionTheorems, FiniteSetTheorems, SequenceTheorems, TLAPS
-----------------------------------------------------------------------------
(* Sums *)

\* The units of a finite sum are finite in number.
LEMMA UnitsFinite ==
    ASSUME NEW S, IsFiniteSet(S), NEW f, \A x \in S : f[x] \in Nat
    PROVE  IsFiniteSet(Units(f, S)) /\ Sum(f, S) \in Nat
<1> DEFINE T == {{x} \X (1 .. f[x]) : x \in S}
           g == [x \in S |-> {x} \X (1 .. f[x])]
<1>1. g \in Surjection(S, T)
  BY DEF Surjection
<1>2. IsFiniteSet(T)
  <2> HIDE DEF g, T
  <2> QED
    BY <1>1, FS_Surjection
<1>3. ASSUME NEW x \in S PROVE IsFiniteSet({x} \X (1 .. f[x]))
  <2> DEFINE n == f[x]
  <2>0. n \in Int
    OBVIOUS
  <2>1. IsFiniteSet({x})
    BY FS_Singleton
  <2> HIDE DEF n
  <2>2. IsFiniteSet(1 .. n)
    BY <2>0, FS_Interval
  <2>3. IsFiniteSet({x} \X (1 .. n))
    BY <2>1, <2>2, FS_Product
  <2> QED
    BY <2>3 DEF n
<1>4. \A t \in T : IsFiniteSet(t)
  BY <1>3
<1>5. IsFiniteSet(UNION T)
  BY <1>2, <1>4, FS_UNION
<1> QED
  BY <1>5, FS_CardinalityType DEF Units, Sum

\* One more element adds its value.
LEMMA SumAdd ==
    ASSUME NEW S, IsFiniteSet(S), NEW f, \A x \in S : f[x] \in Nat,
           NEW y, y \notin S, f[y] \in Nat
    PROVE  Sum(f, S \cup {y}) = Sum(f, S) + f[y]
<1> DEFINE A == Units(f, S)
           B == {y} \X (1 .. f[y])
<1>1. IsFiniteSet(A) /\ Cardinality(A) \in Nat
  BY UnitsFinite DEF Sum
<1>2. IsFiniteSet(B) /\ Cardinality(B) = f[y]
  <2>1. IsFiniteSet({y}) /\ Cardinality({y}) = 1
    BY FS_Singleton
  <2>2. IsFiniteSet(1 .. f[y]) /\ Cardinality(1 .. f[y]) = f[y]
    BY FS_Interval
  <2>3. IsFiniteSet(B) /\ Cardinality(B) = Cardinality({y}) * Cardinality(1 .. f[y])
    BY <2>1, <2>2, FS_Product
  <2> QED
    BY <2>1, <2>2, <2>3
<1>3. Units(f, S \cup {y}) = A \cup B
  BY DEF Units
<1>4. A \cap B = {}
  <2>1. \A u \in A : u[1] \in S
    BY DEF Units
  <2>2. \A u \in B : u[1] = y
    OBVIOUS
  <2> QED
    BY <2>1, <2>2
<1>5. Cardinality(A \cup B) = Cardinality(A) + Cardinality(B) - Cardinality(A \cap B)
  BY <1>1, <1>2, FS_Union
<1>6. Cardinality(A \cap B) = 0
  BY <1>4, FS_EmptySet
<1> DEFINE a == Cardinality(A)
           b == Cardinality(B)
           c == Cardinality(A \cap B)
           d == Cardinality(A \cup B)
<1>7. a \in Nat /\ b \in Nat /\ b = f[y] /\ c = 0 /\ d = a + b - c
  BY <1>1, <1>2, <1>5, <1>6
<1>8. Sum(f, S) = a /\ Sum(f, S \cup {y}) = d
  BY <1>3 DEF Sum
<1> HIDE DEF a, b, c, d
<1> QED
  BY <1>7, <1>8

\* One element less takes its value away.
LEMMA SumRemove ==
    ASSUME NEW S, IsFiniteSet(S), NEW f, \A x \in S : f[x] \in Nat, NEW y \in S
    PROVE  Sum(f, S \ {y}) = Sum(f, S) - f[y] /\ Sum(f, S) \in Nat /\ Sum(f, S \ {y}) \in Nat
<1> DEFINE R == S \ {y}
<1>1. IsFiniteSet(R) /\ y \notin R /\ (R \cup {y}) = S
  BY FS_RemoveElement
<1>2. Sum(f, R) \in Nat /\ Sum(f, S) \in Nat
  BY <1>1, UnitsFinite
<1> HIDE DEF R
<1>3. Sum(f, R \cup {y}) = Sum(f, R) + f[y]
  <2>1. \A x \in R : f[x] \in Nat
    BY <1>1
  <2> QED
    BY <1>1, <2>1, SumAdd
<1> QED
  BY <1>1, <1>2, <1>3 DEF R

\* A sum is that of the values on the set.
LEMMA SumSame ==
    ASSUME NEW S, NEW f, NEW g, \A x \in S : f[x] = g[x]
    PROVE  Sum(f, S) = Sum(g, S)
  BY DEF Sum, Units

\* A changed value changes the sum by the difference.
LEMMA SumChange ==
    ASSUME NEW S, IsFiniteSet(S), NEW f \in [S -> Nat], NEW g \in [S -> Nat], NEW y \in S,
           \A x \in S \ {y} : f[x] = g[x]
    PROVE  Sum(g, S) = Sum(f, S) - f[y] + g[y]
<1>1. \A x \in S : f[x] \in Nat /\ g[x] \in Nat
  OBVIOUS
<1>2. Sum(f, S \ {y}) = Sum(g, S \ {y})
  BY SumSame
<1>3. Sum(f, S \ {y}) = Sum(f, S) - f[y] /\ Sum(f, S) \in Nat
  BY <1>1, SumRemove
<1>4. Sum(g, S \ {y}) = Sum(g, S) - g[y] /\ Sum(g, S) \in Nat
  BY <1>1, SumRemove
<1> DEFINE p == Sum(f, S)
           q == Sum(g, S)
<1>5. p \in Nat /\ q \in Nat /\ f[y] \in Nat /\ g[y] \in Nat /\ p - f[y] = q - g[y]
  BY <1>1, <1>2, <1>3, <1>4
<1> HIDE DEF p, q
<1>6. q = p - f[y] + g[y]
  BY <1>5
<1> QED
  BY <1>6 DEF p, q

\* Sums of nothing.
LEMMA SumZero ==
    ASSUME NEW S, NEW f
    PROVE  /\ Sum(f, {}) = 0
           /\ (\A x \in S : f[x] = 0) => Sum(f, S) = 0
<1>1. Units(f, {}) = {}
  BY DEF Units
<1>2. ASSUME \A x \in S : f[x] = 0 PROVE Units(f, S) = {}
  BY <1>2 DEF Units
<1> QED
  BY <1>1, <1>2, FS_EmptySet DEF Sum

\* Two changed values.
LEMMA SumChangeTwo ==
    ASSUME NEW S, IsFiniteSet(S), NEW f \in [S -> Nat], NEW g \in [S -> Nat], NEW y \in S, NEW z \in S,
           y # z, \A x \in S \ {y, z} : f[x] = g[x]
    PROVE  Sum(g, S) = Sum(f, S) - f[y] - f[z] + g[y] + g[z]
<1> DEFINE h == [f EXCEPT ![y] = g[y]]
           p == Sum(f, S)
           q == Sum(g, S)
           r == Sum(h, S)
<1>1. h \in [S -> Nat] /\ h[y] = g[y] /\ h[z] = f[z] /\ \A x \in S \ {y} : f[x] = h[x]
  OBVIOUS
<1>2. \A x \in S \ {z} : h[x] = g[x]
  BY <1>1
<1>3. p \in Nat /\ q \in Nat /\ r \in Nat
  <2>1. (\A x \in S : f[x] \in Nat) /\ (\A x \in S : g[x] \in Nat) /\ (\A x \in S : h[x] \in Nat)
    BY <1>1
  <2> HIDE DEF h
  <2> QED
    BY <2>1, UnitsFinite
<1> HIDE DEF h
<1>4. r = p - f[y] + h[y]
  BY <1>1, SumChange
<1>5. q = r - h[z] + g[z]
  BY <1>1, <1>2, SumChange
<1>6. f[y] \in Nat /\ f[z] \in Nat /\ g[y] \in Nat /\ g[z] \in Nat
  OBVIOUS
<1> HIDE DEF p, q, r
<1>7. q = p - f[y] - f[z] + g[y] + g[z]
  BY <1>1, <1>3, <1>4, <1>5, <1>6
<1> QED
  BY <1>7 DEF p, q

\* Smaller values have a smaller sum, and so have fewer members.
LEMMA SumLess ==
    ASSUME NEW S, IsFiniteSet(S), NEW f, \A x \in S : f[x] \in Nat,
           NEW R \in SUBSET S, NEW g, \A x \in R : g[x] \in Nat /\ g[x] <= f[x]
    PROVE  Sum(g, R) <= Sum(f, S) /\ Sum(g, R) \in Nat /\ Sum(f, S) \in Nat
<1>1. IsFiniteSet(Units(f, S)) /\ Sum(f, S) \in Nat
  BY UnitsFinite
<1>2. IsFiniteSet(R) /\ Sum(g, R) \in Nat
  <2>1. IsFiniteSet(R)
    BY FS_Subset
  <2> QED
    BY <2>1, UnitsFinite
<1>3. Units(g, R) \subseteq Units(f, S)
  BY DEF Units
<1>4. Cardinality(Units(g, R)) <= Cardinality(Units(f, S))
  BY <1>1, <1>3, FS_Subset
<1> QED
  BY <1>1, <1>2, <1>4 DEF Sum
-----------------------------------------------------------------------------
(* What travels *)

Accounts == [kind : {"account"}, amount : Nat]
Tokens   == {Batch(b) : b \in Batches}
Reps     == [kind : {"rep"}, batch : Batches, index : Nat, last : BOOLEAN]
Jobs     == [kind : {"pay"}, rep : Reps, req : Callers, stage : {"new", "offered"}]
Dones    == [kind : {"done"}, to : Nat, last : BOOLEAN]
Paid     == {Send("paid", r) : r \in Reps}
NewJobs  == {j \in Jobs : j.stage = "new"}

\* Nothing, or one value of V to be sent on c.
One(q, c, V) == q = <<>> \/ \E v \in V : q = <<Send(c, v)>>

\* What each step may be about to send.
Fits(s, q) ==
    /\ s \in {"root", "return"} => q = <<>>
    /\ s = "empties" => One(q, "empty", {Account(0)})
    /\ s = "source" => One(q, "full", {Account(SourceAmount)})
    /\ s = "route" => One(q, "toSource", Accounts) \/ One(q, "withdrawable", Accounts)
    /\ s = "split" => \/ One(q, "toConsolidate", Accounts) \/ One(q, "batches", Tokens)
                      \/ \E v \in Accounts, t \in Tokens :
                            q = <<Send("toConsolidate", v), Send("batches", t)>>
    /\ s = "requests" => One(q, "remaining", Reps) \/ One(q, "payIntents", NewJobs)
    /\ s = "pay" => q \in Seq(Paid)
    /\ s = "dedupeBatches" => One(q, "batchesToConsolidate", Tokens)
    /\ s = "consolidateA" => One(q, "provide", Accounts) \/ One(q, "doneA", Dones)
    /\ s = "consolidateR" => One(q, "doneR", Dones)
    /\ s \in {"dedupeA", "dedupeR"} => One(q, "provide", Accounts)

\* A step that has returned has nothing to send.
Slots ==
    /\ st \in [Steps -> {"run", "ok", "err"}]
    /\ pend = [s \in Steps |-> pend[s]]
    /\ \A s \in Steps : Fits(s, pend[s]) /\ (~Running(s) => pend[s] = <<>>)

\* How far the shutdown is: a step whose output another has yet to take runs on.
Order ==
    /\ graceful \in {"open", "closed", "failed"} /\ hard \in BOOLEAN
    /\ closer \in {"open", "waiting", "closing", "closed"}
    /\ faults \in Nat /\ mayHard \in BOOLEAN
    /\ reqsSeen \in BOOLEAN /\ signalSeen \in BOOLEAN
    /\ ~Running("dedupeA") => ~Running("consolidateA")
    /\ signalSeen => \A v \in Accounts : pend["route"] # <<Send("withdrawable", v)>>
    /\ closer = "closed" => AllReturned

\* The jobs of the payments.
JobsFit ==
    /\ paying \subseteq Jobs /\ IsFiniteSet(paying) /\ Cardinality(paying) <= MaxParallel
    /\ ~Running("pay") => paying = {}

-----------------------------------------------------------------------------
(* Callers *)

Active == {c \in Callers : caller[c] \in
             {"sending", "waiting", "dangling", "paying", "returning", "errored"}}

\* The wait group counts the callers who are not done, and the inputs are closed
\* after them; only a caller who pays or returns holds anything.
Counted ==
    /\ caller \in [Callers -> CallerPC] /\ holds \in [Callers -> Nat]
    /\ wg = Cardinality(Active)
    /\ Inputs => Active = {}
    /\ \A c \in Callers : caller[c] \notin {"paying", "returning"} => holds[c] = 0

-----------------------------------------------------------------------------
(* Batches *)

Groups == reps["dedupeBatches"]

\* The repetitions that are under way: about to leave CreateIntents, with a job,
\* or on their way back.
RepIn(v)      == IF v.kind = "pay" THEN v.rep ELSE v
RepsAt(q, r)  == \E i \in DOMAIN q : RepIn(q[i].val) = r
AtRequests(r) == RepsAt(pend["requests"], r)
AtJob(r)      == \E j \in paying : j.rep = r
AtPay(r)      == \E i \in DOMAIN pend["pay"] : pend["pay"][i].val = r
Flying(r)     == AtRequests(r) \/ AtJob(r) \/ AtPay(r)

Same(r, q) == r.batch = q.batch /\ r.index = q.index

\* No two of them are the same.
Unique ==
    /\ \A i, k \in DOMAIN pend["pay"] : Same(pend["pay"][i].val, pend["pay"][k].val) => i = k
    /\ \A j, k \in paying : Same(j.rep, k.rep) => j = k
    /\ \A r, q \in Reps : AtRequests(r) /\ (AtJob(q) \/ AtPay(q)) => ~Same(r, q)
    /\ \A r, q \in Reps : AtJob(r) /\ AtPay(q) => ~Same(r, q)

\* A batch's repetitions are out or back, never both, and the last is the last.
Repetitions ==
    /\ \A r \in Reps : Flying(r) =>
          /\ r.batch \in DOMAIN Groups =>
                LET group == Groups[r.batch]
                IN  /\ r.index \notin group.seen
                    /\ group.len # 0 => r.index < group.len /\ ~r.last
                    /\ r.last => \A i \in group.seen : i < r.index
          /\ serving.batch = {r.batch} => ~r.last /\ r.index < serving.index
    /\ \A r, q \in Reps : Flying(r) /\ Flying(q) /\ r.batch = q.batch /\ r.last => q.index <= r.index
    /\ \A b \in DOMAIN Groups :
          /\ Groups[b].len # 0 => Groups[b].seen \subseteq 0 .. Groups[b].len - 1
          /\ serving.batch = {b} => Groups[b].len = 0 /\ \A i \in Groups[b].seen : i < serving.index

GroupType == [seen : SUBSET Nat, len : Nat]

ServingFits ==
    /\ \/ serving = Idle
       \/ \E b \in Batches, i, n \in Nat : serving = [batch |-> {b}, index |-> i, size |-> n]
    /\ reps = [d \in Dedupes |-> reps[d]]
    /\ DOMAIN Groups \subseteq Batches /\ \A b \in DOMAIN Groups : Groups[b] \in GroupType
    /\ credits \in [Batches -> Nat] /\ used \subseteq Batches

Names(q, b)  == \E i \in DOMAIN q : q[i].val = Batch(b)
InSplit(b)   == Names(pend["split"], b)
Passed(b)    == Names(pend["dedupeBatches"], b)
InService(b) ==
    serving.batch = {b} \/ b \in DOMAIN Groups \/ \E r \in Reps : r.batch = b /\ Flying(r)

\* A batch is in one place, and has credits only while it is alive.
Apart ==
    \A b \in Batches :
        /\ InSplit(b) => ~Passed(b) /\ ~InService(b)
        /\ Passed(b) => ~InService(b) /\ credits[b] > 0
        /\ InSplit(b) \/ Passed(b) \/ InService(b) => b \in used
        /\ b \notin used => credits[b] = 0
        /\ Sound /\ b \in used => InSplit(b) \/ Passed(b) \/ InService(b)

-----------------------------------------------------------------------------
(* Accounts that are consolidated into *)

Tells(q, k)  == \E i \in DOMAIN q : q[i].val.kind = "done" /\ q[i].val.to = k
ToldOf(x, k) == Tells(pend[TransferOf(x)], k)

\* The dedupe step knows of every account with money in it, or is about to.
Reached ==
    /\ virtual \in [Sides -> Nat] /\ accounts \in [Sides -> Seq(Nat)]
    /\ \A x \in Sides :
        /\ accounts[x] # <<>>
        /\ DOMAIN reps[DedupeOf(x)] \subseteq DOMAIN accounts[x]
        /\ \A k \in Nat : ToldOf(x, k) => k \in DOMAIN accounts[x]
        /\ Sound => \A k \in DOMAIN accounts[x] :
              accounts[x][k] > 0 => k \in DOMAIN reps[DedupeOf(x)] \/ ToldOf(x, k)

\* A step that returned well has left nothing behind; CreateIntents fails only
\* together with all other steps.
LeftEmpty ==
    /\ ~Running("requests") => serving = Idle \/ AllReturned
    /\ Sound => /\ ~Running("requests") => serving = Idle
                /\ \A d \in Dedupes : ~Running(d) => DOMAIN reps[d] = {}

Inv ==
    /\ Slots /\ Order /\ JobsFit /\ Counted /\ ServingFits /\ Unique /\ Repetitions /\ Apart
    /\ Reached /\ LeftEmpty /\ funds \in Nat /\ spent \in Nat /\ CreditsConserved

-----------------------------------------------------------------------------
(* The topology *)

\* The steps by name, and who writes each channel.
LEMMA StepNames ==
    /\ Steps = {"root", "empties", "source", "route", "split", "requests", "pay", "dedupeBatches",
                "consolidateA", "dedupeA", "consolidateR", "dedupeR", "return"}
    /\ IsFiniteSet(Steps)
  BY WalletTopology, PipelineAssumption DEF WalletOutputs

\* A channel that a running step has registered is open.
LEMMA OpenWhileRunning ==
    ASSUME NEW s \in Steps, NEW c \in OutputsOf[s], Running(s)
    PROVE  ~ClosedByPipeline(c)
<1>1. c \in UNION {OutputsOf[t] : t \in Steps}
  OBVIOUS
<1>2. WritersOf[c] = {t \in Steps : c \in OutputsOf[t]}
  BY <1>1 DEF WritersOf
<1> QED
  BY <1>2 DEF ClosedByPipeline

\* One message.
LEMMA SingleMessage ==
    ASSUME NEW c, NEW v
    PROVE  LET q == <<Send(c, v)>>
           IN  /\ q # <<>> /\ Head(q).ch = c /\ Head(q).val = v /\ Tail(q) = <<>>
               /\ DOMAIN q = {1} /\ q[1].val = v
  BY DEF Send

\* Two messages.
LEMMA TwoMessages ==
    ASSUME NEW c, NEW v, NEW d, NEW u
    PROVE  LET q == <<Send(c, v), Send(d, u)>>
           IN  /\ q # <<>> /\ Head(q).ch = c /\ Head(q).val = v /\ Tail(q) = <<Send(d, u)>>
               /\ DOMAIN q = {1, 2} /\ q[1].val = v /\ q[2].val = u
  BY DEF Send

\* Only one message is taken from a slot for one.
LEMMA OneTaken ==
    ASSUME NEW q, NEW c, NEW V, One(q, c, V), q # <<>>
    PROVE  /\ Head(q).ch = c /\ Head(q).val \in V /\ Tail(q) = <<>>
           /\ q = <<Send(c, Head(q).val)>>
<1>1. PICK v \in V : q = <<Send(c, v)>>
  BY DEF One
<1> QED
  BY <1>1, SingleMessage

\* What a step that has something to send is sending, and what it has then.
LEMMA Heads ==
    ASSUME Slots, NEW w \in Steps, pend[w] # <<>>
    PROVE  LET c == Head(pend[w]).ch
               v == Offer(w)
               rest == Tail(pend[w])
           IN  /\ w \notin {"root", "return"}
               /\ w = "empties" => c = "empty" /\ v = Account(0) /\ rest = <<>>
               /\ w = "source" => c = "full" /\ v = Account(SourceAmount) /\ rest = <<>>
               /\ w = "route" => c \in {"toSource", "withdrawable"} /\ v \in Accounts /\ rest = <<>>
               /\ w = "split" => \/ c = "toConsolidate" /\ v \in Accounts /\ rest = <<>>
                                 \/ c = "batches" /\ v \in Tokens /\ rest = <<>>
                                 \/ c = "toConsolidate" /\ v \in Accounts
                                    /\ \E t \in Tokens : rest = <<Send("batches", t)>>
               /\ w = "requests" => \/ c = "remaining" /\ v \in Reps /\ rest = <<>>
                                    \/ c = "payIntents" /\ v \in NewJobs /\ rest = <<>>
               /\ w = "pay" => c = "paid" /\ v \in Reps /\ rest \in Seq(Paid)
               /\ w = "dedupeBatches" => c = "batchesToConsolidate" /\ v \in Tokens /\ rest = <<>>
               /\ w = "consolidateA" => \/ c = "provide" /\ v \in Accounts /\ rest = <<>>
                                        \/ c = "doneA" /\ v \in Dones /\ rest = <<>>
               /\ w = "consolidateR" => c = "doneR" /\ v \in Dones /\ rest = <<>>
               /\ w \in {"dedupeA", "dedupeR"} => c = "provide" /\ v \in Accounts /\ rest = <<>>
<1> DEFINE q == pend[w]
<1>0. Fits(w, q) /\ q # <<>> /\ Offer(w) = Head(q).val
  BY DEF Slots, Offer
<1> HIDE DEF q
<1>1. w \notin {"root", "return"}
  BY <1>0 DEF Fits
<1>2. ASSUME NEW c, NEW V, One(q, c, V) PROVE Head(q).ch = c /\ Head(q).val \in V /\ Tail(q) = <<>>
  BY <1>0, <1>2, OneTaken
<1>3. w = "empties" => Head(q).ch = "empty" /\ Head(q).val = Account(0) /\ Tail(q) = <<>>
  <2>1. w = "empties" => One(q, "empty", {Account(0)})
    BY <1>0 DEF Fits
  <2> QED
    BY <2>1, <1>2
<1>4. w = "source" => Head(q).ch = "full" /\ Head(q).val = Account(SourceAmount) /\ Tail(q) = <<>>
  <2>1. w = "source" => One(q, "full", {Account(SourceAmount)})
    BY <1>0 DEF Fits
  <2> QED
    BY <2>1, <1>2
<1>5. w = "route" => Head(q).ch \in {"toSource", "withdrawable"} /\ Head(q).val \in Accounts /\ Tail(q) = <<>>
  <2>1. w = "route" => One(q, "toSource", Accounts) \/ One(q, "withdrawable", Accounts)
    BY <1>0 DEF Fits
  <2> QED
    BY <2>1, <1>2
<1>6. w = "split" => \/ Head(q).ch = "toConsolidate" /\ Head(q).val \in Accounts /\ Tail(q) = <<>>
                     \/ Head(q).ch = "batches" /\ Head(q).val \in Tokens /\ Tail(q) = <<>>
                     \/ Head(q).ch = "toConsolidate" /\ Head(q).val \in Accounts
                        /\ \E t \in Tokens : Tail(q) = <<Send("batches", t)>>
  <2>1. w = "split" => \/ One(q, "toConsolidate", Accounts) \/ One(q, "batches", Tokens)
                       \/ \E v \in Accounts, t \in Tokens :
                            q = <<Send("toConsolidate", v), Send("batches", t)>>
    BY <1>0 DEF Fits
  <2>2. ASSUME NEW v \in Accounts, NEW t \in Tokens, q = <<Send("toConsolidate", v), Send("batches", t)>>
        PROVE  Head(q).ch = "toConsolidate" /\ Head(q).val \in Accounts /\ Tail(q) = <<Send("batches", t)>>
    BY <2>2, TwoMessages
  <2> QED
    BY <2>1, <2>2, <1>2
<1>7. w = "requests" => \/ Head(q).ch = "remaining" /\ Head(q).val \in Reps /\ Tail(q) = <<>>
                        \/ Head(q).ch = "payIntents" /\ Head(q).val \in NewJobs /\ Tail(q) = <<>>
  <2>1. w = "requests" => One(q, "remaining", Reps) \/ One(q, "payIntents", NewJobs)
    BY <1>0 DEF Fits
  <2> QED
    BY <2>1, <1>2
<1>8. w = "pay" => Head(q).ch = "paid" /\ Head(q).val \in Reps /\ Tail(q) \in Seq(Paid)
  <2>1. w = "pay" => q \in Seq(Paid)
    BY <1>0 DEF Fits
  <2>2. w = "pay" => Head(q) \in Paid /\ Tail(q) \in Seq(Paid)
    BY <2>1, <1>0, HeadTailProperties
  <2> QED
    BY <2>2 DEF Paid, Send
<1>9. w = "dedupeBatches" => Head(q).ch = "batchesToConsolidate" /\ Head(q).val \in Tokens /\ Tail(q) = <<>>
  <2>1. w = "dedupeBatches" => One(q, "batchesToConsolidate", Tokens)
    BY <1>0 DEF Fits
  <2> QED
    BY <2>1, <1>2
<1>10. w = "consolidateA" => \/ Head(q).ch = "provide" /\ Head(q).val \in Accounts /\ Tail(q) = <<>>
                             \/ Head(q).ch = "doneA" /\ Head(q).val \in Dones /\ Tail(q) = <<>>
  <2>1. w = "consolidateA" => One(q, "provide", Accounts) \/ One(q, "doneA", Dones)
    BY <1>0 DEF Fits
  <2> QED
    BY <2>1, <1>2
<1>11. w = "consolidateR" => Head(q).ch = "doneR" /\ Head(q).val \in Dones /\ Tail(q) = <<>>
  <2>1. w = "consolidateR" => One(q, "doneR", Dones)
    BY <1>0 DEF Fits
  <2> QED
    BY <2>1, <1>2
<1>12. w \in {"dedupeA", "dedupeR"} => Head(q).ch = "provide" /\ Head(q).val \in Accounts /\ Tail(q) = <<>>
  <2>1. w \in {"dedupeA", "dedupeR"} => One(q, "provide", Accounts)
    BY <1>0 DEF Fits
  <2> QED
    BY <2>1, <1>2
<1> QED
  BY <1>0, <1>1, <1>3, <1>4, <1>5, <1>6, <1>7, <1>8, <1>9, <1>10, <1>11, <1>12, Zenon DEF q

\* Who sends on a channel, what, and what is left to send.
LEMMA SentAccounts ==
    ASSUME Slots
    PROVE  /\ \A w \in Senders("full") : w = "source" /\ Offer(w) = Account(SourceAmount) /\ Tail(pend[w]) = <<>>
           /\ \A w \in Senders("provide") : /\ w \in {"consolidateA", "dedupeA", "dedupeR"}
                                            /\ Offer(w) \in Accounts /\ Tail(pend[w]) = <<>>
           /\ \A w \in Senders("withdrawable") : w = "route" /\ Offer(w) \in Accounts /\ Tail(pend[w]) = <<>>
           /\ \A w \in Senders("toSource") : w = "route" /\ Offer(w) \in Accounts /\ Tail(pend[w]) = <<>>
<1>2. ASSUME NEW w \in Senders("full")
      PROVE  w = "source" /\ Offer(w) = Account(SourceAmount) /\ Tail(pend[w]) = <<>>
  <2>1. w \in Steps /\ pend[w] # <<>> /\ Head(pend[w]).ch = "full"
    BY DEF Senders
  <2> QED
    BY <2>1, Heads, StepNames
<1>3. ASSUME NEW w \in Senders("provide")
      PROVE  w \in {"consolidateA", "dedupeA", "dedupeR"} /\ Offer(w) \in Accounts /\ Tail(pend[w]) = <<>>
  <2>1. w \in Steps /\ pend[w] # <<>> /\ Head(pend[w]).ch = "provide"
    BY DEF Senders
  <2> QED
    BY <2>1, Heads, StepNames
<1>4. ASSUME NEW w \in Senders("withdrawable")
      PROVE  w = "route" /\ Offer(w) \in Accounts /\ Tail(pend[w]) = <<>>
  <2>1. w \in Steps /\ pend[w] # <<>> /\ Head(pend[w]).ch = "withdrawable"
    BY DEF Senders
  <2> QED
    BY <2>1, Heads, StepNames
<1>5. ASSUME NEW w \in Senders("toSource")
      PROVE  w = "route" /\ Offer(w) \in Accounts /\ Tail(pend[w]) = <<>>
  <2>1. w \in Steps /\ pend[w] # <<>> /\ Head(pend[w]).ch = "toSource"
    BY DEF Senders
  <2> QED
    BY <2>1, Heads, StepNames
<1> QED
  BY <1>2, <1>3, <1>4, <1>5

\* The same of the channels of batches and their repetitions.
LEMMA SentBatches ==
    ASSUME Slots
    PROVE  /\ \A w \in Senders("batches") : w = "split" /\ Offer(w) \in Tokens /\ Tail(pend[w]) = <<>>
           /\ \A w \in Senders("toConsolidate") : w = "split" /\ Offer(w) \in Accounts /\ (Tail(pend[w]) = <<>> \/ \E t \in Tokens : Tail(pend[w]) = <<Send("batches", t)>>)
           /\ \A w \in Senders("payIntents") : w = "requests" /\ Offer(w) \in NewJobs /\ Tail(pend[w]) = <<>>
           /\ \A w \in Senders("remaining") : w = "requests" /\ Offer(w) \in Reps /\ Tail(pend[w]) = <<>>
           /\ \A w \in Senders("paid") : w = "pay" /\ Offer(w) \in Reps /\ Tail(pend[w]) \in Seq(Paid)
           /\ \A w \in Senders("batchesToConsolidate") : w = "dedupeBatches" /\ Offer(w) \in Tokens /\ Tail(pend[w]) = <<>>
<1>1. ASSUME NEW w \in Senders("batches")
      PROVE  w = "split" /\ Offer(w) \in Tokens /\ Tail(pend[w]) = <<>>
  <2>1. w \in Steps /\ pend[w] # <<>> /\ Head(pend[w]).ch = "batches"
    BY DEF Senders
  <2> QED
    BY <2>1, Heads, StepNames
<1>2. ASSUME NEW w \in Senders("toConsolidate")
      PROVE  w = "split" /\ Offer(w) \in Accounts /\ (Tail(pend[w]) = <<>> \/ \E t \in Tokens : Tail(pend[w]) = <<Send("batches", t)>>)
  <2>1. w \in Steps /\ pend[w] # <<>> /\ Head(pend[w]).ch = "toConsolidate"
    BY DEF Senders
  <2> QED
    BY <2>1, Heads, StepNames
<1>3. ASSUME NEW w \in Senders("payIntents")
      PROVE  w = "requests" /\ Offer(w) \in NewJobs /\ Tail(pend[w]) = <<>>
  <2>1. w \in Steps /\ pend[w] # <<>> /\ Head(pend[w]).ch = "payIntents"
    BY DEF Senders
  <2> QED
    BY <2>1, Heads, StepNames
<1>4. ASSUME NEW w \in Senders("remaining")
      PROVE  w = "requests" /\ Offer(w) \in Reps /\ Tail(pend[w]) = <<>>
  <2>1. w \in Steps /\ pend[w] # <<>> /\ Head(pend[w]).ch = "remaining"
    BY DEF Senders
  <2> QED
    BY <2>1, Heads, StepNames
<1>5. ASSUME NEW w \in Senders("paid")
      PROVE  w = "pay" /\ Offer(w) \in Reps /\ Tail(pend[w]) \in Seq(Paid)
  <2>1. w \in Steps /\ pend[w] # <<>> /\ Head(pend[w]).ch = "paid"
    BY DEF Senders
  <2> QED
    BY <2>1, Heads, StepNames
<1>6. ASSUME NEW w \in Senders("batchesToConsolidate")
      PROVE  w = "dedupeBatches" /\ Offer(w) \in Tokens /\ Tail(pend[w]) = <<>>
  <2>1. w \in Steps /\ pend[w] # <<>> /\ Head(pend[w]).ch = "batchesToConsolidate"
    BY DEF Senders
  <2> QED
    BY <2>1, Heads, StepNames
<1> QED
  BY <1>1, <1>2, <1>3, <1>4, <1>5, <1>6

\* The same of empty accounts and of transfers that are done.
LEMMA SentOthers ==
    ASSUME Slots
    PROVE  /\ \A w \in Senders("empty") : w = "empties" /\ Offer(w) = Account(0) /\ Tail(pend[w]) = <<>>
           /\ \A w \in Senders("doneA") : w = "consolidateA" /\ Offer(w) \in Dones /\ Tail(pend[w]) = <<>>
           /\ \A w \in Senders("doneR") : w = "consolidateR" /\ Offer(w) \in Dones /\ Tail(pend[w]) = <<>>
<1>1. ASSUME NEW w \in Senders("empty")
      PROVE  w = "empties" /\ Offer(w) = Account(0) /\ Tail(pend[w]) = <<>>
  <2>1. w \in Steps /\ pend[w] # <<>> /\ Head(pend[w]).ch = "empty"
    BY DEF Senders
  <2> QED
    BY <2>1, Heads, StepNames
<1>2. ASSUME NEW w \in Senders("doneA")
      PROVE  w = "consolidateA" /\ Offer(w) \in Dones /\ Tail(pend[w]) = <<>>
  <2>1. w \in Steps /\ pend[w] # <<>> /\ Head(pend[w]).ch = "doneA"
    BY DEF Senders
  <2> QED
    BY <2>1, Heads, StepNames
<1>3. ASSUME NEW w \in Senders("doneR")
      PROVE  w = "consolidateR" /\ Offer(w) \in Dones /\ Tail(pend[w]) = <<>>
  <2>1. w \in Steps /\ pend[w] # <<>> /\ Head(pend[w]).ch = "doneR"
    BY DEF Senders
  <2> QED
    BY <2>1, Heads, StepNames
<1> QED
  BY <1>1, <1>2, <1>3
-----------------------------------------------------------------------------
(* Money on its way *)

\* What a value holds itself.
LEMMA Worths ==
    /\ \A v \in Accounts : InHands(v) = v.amount /\ InHands(v) \in Nat
    /\ \A n : InHands(Account(n)) = n
    /\ \A v \in Tokens \cup Reps \cup Dones : InHands(v) = 0
    /\ \A j \in Jobs : InHands(j) = IF j.stage = "offered" THEN PrefetchAmount ELSE 0
<1>1. \A v \in Accounts : InHands(v) = v.amount /\ InHands(v) \in Nat
  BY DEF InHands, Accounts
<1>2. \A n : InHands(Account(n)) = n
  BY DEF InHands, Account
<1>3. \A v \in Tokens : InHands(v) = 0
  BY DEF InHands, Tokens, Batch
<1>4. \A v \in Reps : InHands(v) = 0
  BY DEF InHands, Reps
<1>5. \A v \in Dones : InHands(v) = 0
  BY DEF InHands, Dones
<1>6. \A j \in Jobs : InHands(j) = IF j.stage = "offered" THEN PrefetchAmount ELSE 0
  BY DEF InHands, Jobs
<1> QED
  BY <1>1, <1>2, <1>3, <1>4, <1>5, <1>6

\* The load of nothing, of one message, of two, and of repetitions.
LEMMA Loads ==
    /\ Load(<<>>) = 0
    /\ \A c, v : InHands(v) \in Nat => Load(<<Send(c, v)>>) = InHands(v)
    /\ \A c, v, d, u : InHands(v) \in Nat /\ InHands(u) \in Nat =>
          Load(<<Send(c, v), Send(d, u)>>) = InHands(v) + InHands(u)
    /\ \A q \in Seq(Paid) : Load(q) = 0
<1>1. Load(<<>>) = 0
  BY SumZero DEF Load
<1>2. ASSUME NEW c, NEW v, InHands(v) \in Nat PROVE Load(<<Send(c, v)>>) = InHands(v)
  <2> DEFINE q == <<Send(c, v)>>
             f == [i \in DOMAIN q |-> InHands(q[i].val)]
  <2>1. DOMAIN q = {1} /\ f[1] = InHands(v)
    BY SingleMessage
  <2>2. Sum(f, {}) = 0 /\ IsFiniteSet({})
    BY SumZero, FS_EmptySet
  <2>3. \A x \in {} : f[x] \in Nat
    OBVIOUS
  <2> HIDE DEF f
  <2>4. Sum(f, {} \cup {1}) = Sum(f, {}) + f[1]
    BY <1>2, <2>1, <2>2, <2>3, SumAdd
  <2>5. ({} \cup {1}) = DOMAIN q
    BY <2>1
  <2>6. Load(q) = Sum(f, DOMAIN q)
    BY DEF Load, f
  <2> HIDE DEF q
  <2>7. Load(q) = InHands(v)
    BY <1>2, <2>1, <2>2, <2>4, <2>5, <2>6
  <2> QED
    BY <2>7 DEF q
<1>3. ASSUME NEW c, NEW v, NEW d, NEW u, InHands(v) \in Nat, InHands(u) \in Nat
      PROVE  Load(<<Send(c, v), Send(d, u)>>) = InHands(v) + InHands(u)
  <2> DEFINE q == <<Send(c, v), Send(d, u)>>
             f == [i \in DOMAIN q |-> InHands(q[i].val)]
  <2>0. DOMAIN q = {1, 2} /\ q[1].val = v /\ q[2].val = u
    BY DEF Send
  <2>1. DOMAIN q = {1, 2} /\ f[1] = InHands(v) /\ f[2] = InHands(u)
    <3> HIDE DEF q
    <3> QED
      BY <2>0
  <2>2. Sum(f, {}) = 0 /\ IsFiniteSet({}) /\ IsFiniteSet({1})
    BY SumZero, FS_EmptySet, FS_Singleton
  <2>3. (\A x \in {} : f[x] \in Nat) /\ (\A x \in {1} : f[x] \in Nat)
    BY <1>3, <2>1
  <2> HIDE DEF f
  <2>4. Sum(f, {} \cup {1}) = Sum(f, {}) + f[1]
    BY <1>3, <2>1, <2>2, <2>3, SumAdd
  <2>5. Sum(f, {1} \cup {2}) = Sum(f, {1}) + f[2]
    BY <1>3, <2>1, <2>2, <2>3, SumAdd
  <2>6. ({} \cup {1}) = {1} /\ ({1} \cup {2}) = DOMAIN q
    BY <2>1
  <2>7. Load(q) = Sum(f, DOMAIN q)
    BY DEF Load, f
  <2> HIDE DEF q
  <2>8. Sum(f, {1}) = Sum(f, {}) + f[1] /\ Load(q) = Sum(f, {1}) + f[2]
    BY <2>4, <2>5, <2>6, <2>7, Zenon
  <2>9. Load(q) = InHands(v) + InHands(u)
    BY <1>3, <2>1, <2>2, <2>8
  <2> QED
    BY <2>9 DEF q
<1>4. ASSUME NEW q \in Seq(Paid) PROVE Load(q) = 0
  <2> DEFINE f == [i \in DOMAIN q |-> InHands(q[i].val)]
  <2>1. ASSUME NEW i \in DOMAIN q PROVE f[i] = 0
    <3>1. q[i] \in Paid
      OBVIOUS
    <3>2. q[i].val \in Reps
      BY <3>1 DEF Paid, Send
    <3> QED
      BY <3>2, Worths
  <2> HIDE DEF f
  <2>2. Sum(f, DOMAIN q) = 0
    BY <2>1, SumZero
  <2> QED
    BY <2>2 DEF Load, f
<1> QED
  BY <1>1, <1>2, <1>3, <1>4

\* All values that travel hold a number.
LEMMA OneLoad ==
    ASSUME NEW q, NEW c, NEW V, One(q, c, V), \A v \in V : InHands(v) \in Nat
    PROVE  /\ Load(q) \in Nat
           /\ q # <<>> => Load(q) = InHands(Head(q).val) + Load(Tail(q))
<1>1. CASE q = <<>>
  BY <1>1, Loads
<1>2. CASE q # <<>>
  <2>1. q = <<Send(c, Head(q).val)>> /\ Head(q).val \in V /\ Tail(q) = <<>>
    BY <1>2, OneTaken
  <2>2. Load(q) = InHands(Head(q).val) /\ Load(Tail(q)) = 0 /\ InHands(Head(q).val) \in Nat
    BY <2>1, Loads
  <2> QED
    BY <2>2
<1> QED
  BY <1>1, <1>2

\* What a step is about to send holds a number.
LEMMA LoadFits ==
    ASSUME NEW s \in Steps, NEW q, Fits(s, q)
    PROVE  /\ Load(q) \in Nat
           /\ q # <<>> => Load(q) = InHands(Head(q).val) + Load(Tail(q))
<1> DEFINE Goal == Load(q) \in Nat /\ (q # <<>> => Load(q) = InHands(Head(q).val) + Load(Tail(q)))
<1>0. /\ \A v \in Accounts \cup Tokens \cup Reps \cup Dones \cup NewJobs : InHands(v) \in Nat
      /\ InHands(Account(0)) \in Nat /\ InHands(Account(SourceAmount)) \in Nat
  <2>1. \A j \in NewJobs : j \in Jobs /\ j.stage = "new"
    BY DEF NewJobs
  <2>2. \A j \in NewJobs : InHands(j) = 0
    BY <2>1, Worths
  <2>3. \A v \in Accounts \cup Tokens \cup Reps \cup Dones : InHands(v) \in Nat
    BY Worths
  <2>4. InHands(Account(0)) = 0 /\ InHands(Account(SourceAmount)) = SourceAmount
    BY Worths
  <2> QED
    BY <2>2, <2>3, <2>4, WalletAssumption
<1>1. ASSUME NEW c, NEW V, V \subseteq Accounts \cup Tokens \cup Reps \cup Dones \cup NewJobs, One(q, c, V)
      PROVE  Goal
  BY <1>0, <1>1, OneLoad
<1>2. CASE s \in {"root", "return"}
  BY <1>2, Loads DEF Fits
<1>3. CASE s = "empties"
  <2>1. One(q, "empty", {Account(0)})
    BY <1>3 DEF Fits
  <2> QED
    BY <1>0, <2>1, OneLoad
<1>4. CASE s = "source"
  <2>1. One(q, "full", {Account(SourceAmount)})
    BY <1>4 DEF Fits
  <2> QED
    BY <1>0, <2>1, OneLoad
<1>5. CASE s = "split"
  <2>1. CASE One(q, "toConsolidate", Accounts) \/ One(q, "batches", Tokens)
    BY <2>1, <1>1
  <2>2. CASE \E v \in Accounts, t \in Tokens : q = <<Send("toConsolidate", v), Send("batches", t)>>
    <3>1. PICK v \in Accounts, t \in Tokens : q = <<Send("toConsolidate", v), Send("batches", t)>>
      BY <2>2
    <3>2. Head(q).val = v /\ Tail(q) = <<Send("batches", t)>>
      BY <3>1, TwoMessages
    <3>3. InHands(v) \in Nat /\ InHands(t) \in Nat
      BY <1>0
    <3>4. Load(q) = InHands(v) + InHands(t) /\ Load(Tail(q)) = InHands(t)
      BY <3>1, <3>2, <3>3, Loads
    <3> QED
      BY <3>2, <3>3, <3>4
  <2> QED
    BY <1>5, <2>1, <2>2 DEF Fits
<1>6. CASE s = "pay"
  <2>1. q \in Seq(Paid)
    BY <1>6 DEF Fits
  <2>2. ASSUME q # <<>> PROVE Load(q) = InHands(Head(q).val) + Load(Tail(q))
    <3>1. Head(q) \in Paid /\ Tail(q) \in Seq(Paid)
      BY <2>1, <2>2, HeadTailProperties
    <3>2. Head(q).val \in Reps
      BY <3>1 DEF Paid, Send
    <3>3. InHands(Head(q).val) = 0 /\ Load(Tail(q)) = 0 /\ Load(q) = 0
      BY <2>1, <3>1, <3>2, Loads, Worths
    <3> QED
      BY <3>3
  <2>3. Load(q) = 0
    BY <2>1, Loads
  <2> QED
    BY <2>2, <2>3
<1>7. CASE s \in {"route", "requests", "dedupeBatches", "consolidateA", "consolidateR", "dedupeA", "dedupeR"}
  <2>1. \E c, V : V \in {Accounts, Tokens, Reps, Dones, NewJobs} /\ One(q, c, V)
    BY <1>7 DEF Fits
  <2> QED
    BY <2>1, <1>1
<1> QED
  BY <1>2, <1>3, <1>4, <1>5, <1>6, <1>7, StepNames

\* What leaves a step with its first message.
LEMMA LoadHead ==
    ASSUME Slots, NEW w \in Steps
    PROVE  /\ Load(pend[w]) \in Nat
           /\ pend[w] # <<>> => Load(pend[w]) = InHands(Offer(w)) + Load(Tail(pend[w]))
<1> DEFINE q == pend[w]
<1>1. Fits(w, q)
  BY DEF Slots
<1> HIDE DEF q
<1>2. Load(q) \in Nat /\ (q # <<>> => Load(q) = InHands(Head(q).val) + Load(Tail(q)))
  BY <1>1, LoadFits
<1> QED
  BY <1>2 DEF q, Offer
-----------------------------------------------------------------------------
(* Steps that change what is to be sent *)

\* Only the steps in P have something else to send than before.
Rewires(P) ==
    /\ pend' = [s \in Steps |-> pend'[s]]
    /\ \A s \in Steps \ P : pend'[s] = pend[s]

\* A receive, and a send of something new.
LEMMA MoveEffect ==
    ASSUME Slots, NEW w \in Steps, NEW s \in Steps, w # s, NEW out, Move(w, s, out)
    PROVE  Rewires({w, s}) /\ pend'[w] = Tail(pend[w]) /\ pend'[s] = out
  BY DEF Move, Rewires, Slots

\* A send of something new after what is there.
LEMMA EmitEffect ==
    ASSUME Slots, NEW s \in Steps, pend[s] = <<>>, NEW m, Emit(s, <<m>>)
    PROVE  Rewires({s}) /\ pend'[s] = <<m>>
<1>1. (<<>> \o <<m>>) = <<m>>
  OBVIOUS
<1> QED
  BY <1>1 DEF Emit, Rewires, Slots

\* The steps that send on c are steps, and another step than one that may receive.
LEMMA SenderIsOther ==
    ASSUME NEW c, NEW w \in Senders(c)
    PROVE  /\ w \in Steps /\ Running(w) /\ pend[w] # <<>>
           /\ \A s : Ready(s) => s # w
  BY DEF Senders, Ready

\* The slots fit after a step if those do that it changed.
LEMMA SlotsStep ==
    ASSUME Slots, NEW P, Rewires(P), st' = st,
           \A s \in Steps \cap P : Fits(s, pend'[s]) /\ (Running(s) \/ pend'[s] = <<>>)
    PROVE  Slots'
  BY DEF Slots, Rewires, Running

\* What is on its way after such a step.
LEMMA CarriedNat ==
    ASSUME NEW p, \A s \in Steps : Fits(s, p[s])
    PROVE  /\ [s \in Steps |-> Load(p[s])] \in [Steps -> Nat]
           /\ Sum([s \in Steps |-> Load(p[s])], Steps) \in Nat
<1> DEFINE f == [s \in Steps |-> Load(p[s])]
<1>1. f \in [Steps -> Nat]
  BY LoadFits
<1>2. \A s \in Steps : f[s] \in Nat
  BY <1>1
<1> HIDE DEF f
<1>3. Sum(f, Steps) \in Nat
  BY <1>2, StepNames, UnitsFinite
<1> QED
  BY <1>1, <1>3 DEF f

\* One step has other things to send.
LEMMA CarriedOne ==
    ASSUME Slots, Slots', NEW s \in Steps, Rewires({s})
    PROVE  /\ Carried' = Carried - Load(pend[s]) + Load(pend'[s])
           /\ Carried \in Nat /\ Carried' \in Nat /\ Load(pend[s]) \in Nat /\ Load(pend'[s]) \in Nat
<1> DEFINE f == [t \in Steps |-> Load(pend[t])]
           g == [t \in Steps |-> Load(pend'[t])]
<1>0. (\A t \in Steps : Fits(t, pend[t])) /\ (\A t \in Steps : Fits(t, pend'[t]))
  BY DEF Slots
<1>1. f \in [Steps -> Nat] /\ Carried \in Nat
  BY <1>0, CarriedNat DEF Carried
<1>2. g \in [Steps -> Nat] /\ Carried' \in Nat
  BY <1>0, CarriedNat DEF Carried
<1>3. \A t \in Steps \ {s} : f[t] = g[t]
  BY DEF Rewires
<1>4. f[s] = Load(pend[s]) /\ g[s] = Load(pend'[s])
  OBVIOUS
<1>5. Carried = Sum(f, Steps) /\ Carried' = Sum(g, Steps)
  BY DEF Carried
<1> HIDE DEF f, g
<1>6. Sum(g, Steps) = Sum(f, Steps) - f[s] + g[s]
  BY <1>1, <1>2, <1>3, StepNames, SumChange
<1>7. f[s] \in Nat /\ g[s] \in Nat
  BY <1>1, <1>2
<1> QED
  BY <1>1, <1>2, <1>4, <1>5, <1>6, <1>7

\* Two steps have other things to send.
LEMMA CarriedTwo ==
    ASSUME Slots, Slots', NEW w \in Steps, NEW s \in Steps, w # s, Rewires({w, s})
    PROVE  /\ Carried' = Carried - Load(pend[w]) - Load(pend[s]) + Load(pend'[w]) + Load(pend'[s])
           /\ Carried \in Nat /\ Carried' \in Nat
           /\ Load(pend[w]) \in Nat /\ Load(pend'[w]) \in Nat /\ Load(pend[s]) \in Nat /\ Load(pend'[s]) \in Nat
<1> DEFINE f == [t \in Steps |-> Load(pend[t])]
           g == [t \in Steps |-> Load(pend'[t])]
<1>0. (\A t \in Steps : Fits(t, pend[t])) /\ (\A t \in Steps : Fits(t, pend'[t]))
  BY DEF Slots
<1>1. f \in [Steps -> Nat] /\ Carried \in Nat
  BY <1>0, CarriedNat DEF Carried
<1>2. g \in [Steps -> Nat] /\ Carried' \in Nat
  BY <1>0, CarriedNat DEF Carried
<1>3. \A t \in Steps \ {w, s} : f[t] = g[t]
  BY DEF Rewires
<1>4. f[s] = Load(pend[s]) /\ g[s] = Load(pend'[s]) /\ f[w] = Load(pend[w]) /\ g[w] = Load(pend'[w])
  OBVIOUS
<1>5. Carried = Sum(f, Steps) /\ Carried' = Sum(g, Steps)
  BY DEF Carried
<1> HIDE DEF f, g
<1>6. Sum(g, Steps) = Sum(f, Steps) - f[w] - f[s] + g[w] + g[s]
  BY <1>1, <1>2, <1>3, StepNames, SumChangeTwo
<1>7. f[s] \in Nat /\ g[s] \in Nat /\ f[w] \in Nat /\ g[w] \in Nat
  BY <1>1, <1>2
<1> QED
  BY <1>1, <1>2, <1>4, <1>5, <1>6, <1>7

\* Messages may be lost.
LEMMA CarriedLess ==
    ASSUME Slots, Slots', \A s \in Steps : Load(pend'[s]) <= Load(pend[s])
    PROVE  Carried' <= Carried /\ Carried \in Nat /\ Carried' \in Nat
<1> DEFINE f == [t \in Steps |-> Load(pend[t])]
           g == [t \in Steps |-> Load(pend'[t])]
<1>0. (\A t \in Steps : Fits(t, pend[t])) /\ (\A t \in Steps : Fits(t, pend'[t]))
  BY DEF Slots
<1>1. f \in [Steps -> Nat] /\ Carried \in Nat
  BY <1>0, CarriedNat DEF Carried
<1>2. g \in [Steps -> Nat] /\ Carried' \in Nat
  BY <1>0, CarriedNat DEF Carried
<1>3. \A t \in Steps : g[t] <= f[t]
  OBVIOUS
<1>5. Carried = Sum(f, Steps) /\ Carried' = Sum(g, Steps)
  BY DEF Carried
<1> HIDE DEF f, g
<1>6. \A t \in Steps : f[t] \in Nat /\ g[t] \in Nat
  BY <1>1, <1>2
<1>7. Sum(g, Steps) <= Sum(f, Steps)
  BY <1>3, <1>6, StepNames, SumLess
<1> QED
  BY <1>1, <1>2, <1>5, <1>7
-----------------------------------------------------------------------------
(* What each action does to the messages *)

\* Fits, for the values that the steps send.
LEMMA FitsOne ==
    /\ \A s \in Steps : s # "pay" => Fits(s, <<>>)
    /\ Fits("pay", <<>>)
    /\ Fits("empties", <<Send("empty", Account(0))>>)
    /\ Fits("source", <<Send("full", Account(SourceAmount))>>)
    /\ \A v \in Accounts : /\ Fits("route", <<Send("toSource", v)>>)
                           /\ Fits("route", <<Send("withdrawable", v)>>)
                           /\ Fits("split", <<Send("toConsolidate", v)>>)
                           /\ Fits("consolidateA", <<Send("provide", v)>>)
                           /\ Fits("dedupeA", <<Send("provide", v)>>)
                           /\ Fits("dedupeR", <<Send("provide", v)>>)
    /\ \A t \in Tokens : /\ Fits("split", <<Send("batches", t)>>)
                         /\ Fits("dedupeBatches", <<Send("batchesToConsolidate", t)>>)
    /\ \A v \in Accounts, t \in Tokens : Fits("split", <<Send("toConsolidate", v), Send("batches", t)>>)
    /\ \A r \in Reps : Fits("requests", <<Send("remaining", r)>>)
    /\ \A j \in NewJobs : Fits("requests", <<Send("payIntents", j)>>)
    /\ \A d \in Dones : /\ Fits("consolidateA", <<Send("doneA", d)>>)
                        /\ Fits("consolidateR", <<Send("doneR", d)>>)
<1>1. \A c, V : One(<<>>, c, V)
  BY DEF One
<1>2. \A c, V : \A v \in V : One(<<Send(c, v)>>, c, V)
  BY DEF One
<1>3. <<>> \in Seq(Paid)
  OBVIOUS
<1>4. \A s \in Steps : s # "pay" => Fits(s, <<>>)
  BY <1>1 DEF Fits
<1>5. Fits("pay", <<>>)
  BY <1>3 DEF Fits
<1>6. Fits("empties", <<Send("empty", Account(0))>>) /\ Fits("source", <<Send("full", Account(SourceAmount))>>)
  BY <1>2 DEF Fits
<1>7. ASSUME NEW v \in Accounts
      PROVE  /\ Fits("route", <<Send("toSource", v)>>)
             /\ Fits("route", <<Send("withdrawable", v)>>)
             /\ Fits("split", <<Send("toConsolidate", v)>>)
             /\ Fits("consolidateA", <<Send("provide", v)>>)
             /\ Fits("dedupeA", <<Send("provide", v)>>)
             /\ Fits("dedupeR", <<Send("provide", v)>>)
  BY <1>2 DEF Fits
<1>8. ASSUME NEW t \in Tokens
      PROVE  /\ Fits("split", <<Send("batches", t)>>)
             /\ Fits("dedupeBatches", <<Send("batchesToConsolidate", t)>>)
  BY <1>2 DEF Fits
<1>9. \A v \in Accounts, t \in Tokens : Fits("split", <<Send("toConsolidate", v), Send("batches", t)>>)
  BY DEF Fits
<1>10. \A r \in Reps : Fits("requests", <<Send("remaining", r)>>)
  BY <1>2 DEF Fits
<1>11. \A j \in NewJobs : Fits("requests", <<Send("payIntents", j)>>)
  BY <1>2 DEF Fits
<1>12. \A d \in Dones : Fits("consolidateA", <<Send("doneA", d)>>) /\ Fits("consolidateR", <<Send("doneR", d)>>)
  BY <1>2 DEF Fits
<1> QED
  BY <1>4, <1>5, <1>6, <1>7, <1>8, <1>9, <1>10, <1>11, <1>12, Zenon

\* What a step offers holds a number.
LEMMA OfferNat ==
    ASSUME Slots, NEW w \in Steps, pend[w] # <<>>
    PROVE  InHands(Offer(w)) \in Nat
<1>1. w = "empties" \/ w = "source" \/ Offer(w) \in Accounts \cup Tokens \cup Reps \cup Dones \cup NewJobs
  BY Heads, StepNames
<1>2. \A j \in NewJobs : j \in Jobs /\ j.stage = "new"
  BY DEF NewJobs
<1>3. \A v \in Accounts \cup Tokens \cup Reps \cup Dones \cup NewJobs : InHands(v) \in Nat
  BY <1>2, Worths
<1>4. InHands(Account(0)) \in Nat /\ InHands(Account(SourceAmount)) \in Nat
  BY Worths, WalletAssumption
<1>5. w = "empties" => Offer(w) = Account(0)
  BY Heads
<1>6. w = "source" => Offer(w) = Account(SourceAmount)
  BY Heads
<1> QED
  BY <1>1, <1>3, <1>4, <1>5, <1>6

\* A receive by s from w: the slots fit, and what is on its way is as before but
\* for what was received and what s is now to send.
LEMMA MoveStep ==
    ASSUME Slots, NEW w \in Steps, pend[w] # <<>>, Running(w), NEW s \in Steps, Ready(s), NEW out,
           Move(w, s, out), st' = st, Fits(w, Tail(pend[w])), Fits(s, out)
    PROVE  /\ Slots' /\ w # s /\ Rewires({w, s}) /\ pend'[w] = Tail(pend[w]) /\ pend'[s] = out
           /\ Carried' = Carried - InHands(Offer(w)) + Load(out)
           /\ Carried \in Nat /\ Carried' \in Nat
<1>1. w # s /\ pend[s] = <<>> /\ Running(s)
  BY DEF Ready
<1>2. Rewires({w, s}) /\ pend'[w] = Tail(pend[w]) /\ pend'[s] = out
  BY <1>1, MoveEffect
<1>3. Slots'
  BY <1>1, <1>2, SlotsStep
<1>4. /\ Carried' = Carried - Load(pend[w]) - Load(pend[s]) + Load(pend'[w]) + Load(pend'[s])
      /\ Carried \in Nat /\ Carried' \in Nat
      /\ Load(pend[w]) \in Nat /\ Load(pend'[w]) \in Nat /\ Load(pend'[s]) \in Nat
  BY <1>1, <1>2, <1>3, CarriedTwo
<1>5. Load(pend[s]) = 0
  BY <1>1, Loads
<1>6. Load(pend[w]) = InHands(Offer(w)) + Load(pend'[w])
  BY <1>2, LoadHead
<1>7. InHands(Offer(w)) \in Nat
  BY OfferNat
<1> QED
  BY <1>1, <1>2, <1>3, <1>4, <1>5, <1>6, <1>7

\* A step has something new to send.
LEMMA EmitStep ==
    ASSUME Slots, NEW s \in Steps, Ready(s), NEW m, Emit(s, <<m>>), st' = st, Fits(s, <<m>>)
    PROVE  /\ Slots' /\ Rewires({s}) /\ pend'[s] = <<m>>
           /\ Carried' = Carried + Load(<<m>>)
           /\ Carried \in Nat /\ Carried' \in Nat
<1>1. pend[s] = <<>> /\ Running(s)
  BY DEF Ready
<1>2. Rewires({s}) /\ pend'[s] = <<m>>
  BY <1>1, EmitEffect
<1>3. Slots'
  BY <1>1, <1>2, SlotsStep
<1>4. /\ Carried' = Carried - Load(pend[s]) + Load(pend'[s])
      /\ Carried \in Nat /\ Carried' \in Nat /\ Load(pend'[s]) \in Nat
  BY <1>2, <1>3, CarriedOne
<1>5. Load(pend[s]) = 0
  BY <1>1, Loads
<1> QED
  BY <1>2, <1>3, <1>4, <1>5
-----------------------------------------------------------------------------
(* What a step leaves alone *)

\* The parts of the ledger that a step does not touch.
LEMMA LedgerFrame ==
    /\ paying' = paying => InJobs' = InJobs
    /\ credits' = credits => InBatches' = InBatches
    /\ accounts' = accounts => \A x \in Sides : InAccounts(x)' = InAccounts(x)
    /\ holds' = holds => InCallers' = InCallers
    /\ pend' = pend => Carried' = Carried
<1>1. ASSUME paying' = paying PROVE InJobs' = InJobs
  BY <1>1 DEF InJobs
<1>2. ASSUME credits' = credits PROVE InBatches' = InBatches
  BY <1>2 DEF InBatches
<1>3. ASSUME accounts' = accounts PROVE \A x \in Sides : InAccounts(x)' = InAccounts(x)
  BY <1>3 DEF InAccounts
<1>4. ASSUME holds' = holds PROVE InCallers' = InCallers
  BY <1>4 DEF InCallers
<1>5. ASSUME pend' = pend PROVE Carried' = Carried
  BY <1>5 DEF Carried
<1> QED
  BY <1>1, <1>2, <1>3, <1>4, <1>5

\* Every part of the ledger is a number.
LEMMA LedgerNat ==
    ASSUME Inv
    PROVE  /\ Carried \in Nat /\ InJobs \in Nat /\ InBatches \in Nat /\ InCallers \in Nat
           /\ InAccounts("A") \in Nat /\ InAccounts("R") \in Nat /\ funds \in Nat /\ spent \in Nat
<1>1. Carried \in Nat
  BY CarriedNat DEF Inv, Slots, Carried
<1>2. InJobs \in Nat
  <2> DEFINE f == [j \in paying |-> InHands(j)]
  <2>1. \A j \in paying : f[j] \in Nat
    BY Worths, WalletAssumption DEF Inv, JobsFit
  <2>2. IsFiniteSet(paying)
    BY DEF Inv, JobsFit
  <2> HIDE DEF f
  <2>3. Sum(f, paying) \in Nat
    BY <2>1, <2>2, UnitsFinite
  <2> QED
    BY <2>3 DEF f, InJobs
<1>3. InBatches \in Nat
  <2> DEFINE f == [b \in Batches |-> credits[b] * PrefetchAmount]
  <2>1. \A b \in Batches : f[b] \in Nat
    BY WalletAssumption DEF Inv, ServingFits
  <2> HIDE DEF f
  <2>3. Sum(f, Batches) \in Nat
    BY <2>1, WalletAssumption, UnitsFinite
  <2> QED
    BY <2>3 DEF f, InBatches
<1>4. InCallers \in Nat
  BY WalletAssumption, UnitsFinite DEF Inv, Counted, InCallers
<1>5. ASSUME NEW x \in Sides PROVE InAccounts(x) \in Nat
  <2>1. accounts[x] \in Seq(Nat)
    BY DEF Inv, Reached
  <2>2. IsFiniteSet(DOMAIN accounts[x])
    BY <2>1, FS_Interval
  <2>3. \A k \in DOMAIN accounts[x] : accounts[x][k] \in Nat
    BY <2>1
  <2> QED
    BY <2>2, <2>3, UnitsFinite DEF InAccounts
<1> QED
  BY <1>1, <1>2, <1>3, <1>4, <1>5 DEF Inv, Sides

\* A step that moves money from one part of the ledger to another.
LEMMA Balanced ==
    ASSUME Inv, Total' = Total, Sound' => Sound
    PROVE  CreditsConserved'
  BY DEF Inv, CreditsConserved

\* A step that may lose money.
LEMMA Lossy ==
    ASSUME Inv, Total' <= Total, Total \in Nat, Total' \in Nat, ~Sound'
    PROVE  CreditsConserved'
  BY WalletAssumption DEF Inv, CreditsConserved

\* The state of the pipeline does not change.
LEMMA SameStates ==
    ASSUME st' = st, hard' = hard
    PROVE  Sound' = Sound /\ \A s \in Steps : Running(s)' = Running(s)
  BY DEF Sound, Failed, Running

\* The jobs, the callers and the order of the shutdown do not change.
LEMMA JobsFrame ==
    ASSUME JobsFit, UNCHANGED <<st, paying>>
    PROVE  JobsFit'
  BY DEF JobsFit, Running

\* The callers stay as they are.
LEMMA CountedFrame ==
    ASSUME Counted, UNCHANGED <<caller, holds, wg, closer>>
    PROVE  Counted'
  BY DEF Counted, Active, Inputs

\* What is left of a queue.
LEMMA Shifted ==
    ASSUME NEW S, NEW q \in Seq(S), q # <<>>
    PROVE  \A i \in DOMAIN Tail(q) : i \in Nat /\ i + 1 \in DOMAIN q /\ Tail(q)[i] = q[i + 1]
<1>1. Tail(q) \in Seq(S) /\ Len(Tail(q)) = Len(q) - 1 /\ Len(q) \in Nat /\ Len(q) > 0
  BY HeadTailProperties
<1>2. DOMAIN Tail(q) = 1 .. Len(q) - 1 /\ DOMAIN q = 1 .. Len(q)
  BY <1>1
<1> QED
  BY <1>1, <1>2

\* The repetitions on their way are among those that were, and no batch or
\* group of one changes.
LEMMA BatchFrame ==
    ASSUME Unique, Repetitions, Apart, ServingFits, Slots,
           pend'["requests"] \in {pend["requests"], <<>>},
           \/ pend'["pay"] \in {pend["pay"], <<>>}
           \/ pend["pay"] # <<>> /\ pend'["pay"] = Tail(pend["pay"]),
           paying' \subseteq paying,
           \A b \in Batches : (InSplit(b)' => InSplit(b)) /\ (Passed(b)' => Passed(b)),
           UNCHANGED <<serving, credits, used, Groups>>,
           Sound' => /\ Sound
                     /\ UNCHANGED <<pend["requests"], pend["pay"], paying>>
                     /\ \A b \in Batches : (InSplit(b) => InSplit(b)') /\ (Passed(b) => Passed(b)')
    PROVE  Unique' /\ Repetitions' /\ Apart'
<1>0. pend["pay"] \in Seq(Paid)
  BY StepNames DEF Slots, Fits
<1>1. \/ pend'["pay"] = pend["pay"]
      \/ \A i \in DOMAIN pend'["pay"] :
            i \in Nat /\ i + 1 \in DOMAIN pend["pay"] /\ pend'["pay"][i] = pend["pay"][i + 1]
  <2>1. CASE pend'["pay"] = <<>>
    BY <2>1
  <2>2. CASE pend["pay"] # <<>> /\ pend'["pay"] = Tail(pend["pay"])
    BY <2>2, <1>0, Shifted
  <2> QED
    BY <2>1, <2>2
<1>2. \A r : AtRequests(r)' => AtRequests(r)
  BY DEF AtRequests, RepsAt
<1>3. \A r : AtJob(r)' => AtJob(r)
  BY DEF AtJob
<1>4. \A r : AtPay(r)' => AtPay(r)
  BY <1>1 DEF AtPay
<1>5. \A r : Flying(r)' => Flying(r)
  BY <1>2, <1>3, <1>4 DEF Flying
<1>6. Sound' => \A r : Flying(r)' = Flying(r)
  BY DEF Flying, AtRequests, AtJob, AtPay
<1>7. Unique'
  <2>1. ASSUME NEW i \in DOMAIN pend'["pay"], NEW k \in DOMAIN pend'["pay"],
               Same(pend'["pay"][i].val, pend'["pay"][k].val)
        PROVE  i = k
    BY <2>1, <1>1 DEF Unique
  <2>2. \A j, k \in paying' : Same(j.rep, k.rep) => j = k
    BY DEF Unique
  <2>3. \A r, q \in Reps : AtRequests(r)' /\ (AtJob(q)' \/ AtPay(q)') => ~Same(r, q)
    BY <1>2, <1>3, <1>4 DEF Unique
  <2>4. \A r, q \in Reps : AtJob(r)' /\ AtPay(q)' => ~Same(r, q)
    BY <1>3, <1>4 DEF Unique
  <2> QED
    BY <2>1, <2>2, <2>3, <2>4 DEF Unique
<1>8. Repetitions'
  BY <1>5 DEF Repetitions
<1>9. \A b \in Batches : InService(b)' => InService(b)
  BY <1>5 DEF InService
<1>10. Sound' => \A b \in Batches : InService(b) => InService(b)'
  BY <1>6 DEF InService
<1>11. Apart'
  BY <1>9, <1>10 DEF Apart
<1> QED
  BY <1>7, <1>8, <1>11

\* The accounts that are consolidated into do not change, nor what the dedupe
\* steps know or are about to be told of them.
LEMMA ReachedFrame ==
    ASSUME Reached, UNCHANGED <<virtual, accounts>>,
           \A x \in Sides : DOMAIN reps'[DedupeOf(x)] = DOMAIN reps[DedupeOf(x)],
           \A x \in Sides : \A k \in Nat : ToldOf(x, k)' => ToldOf(x, k),
           Sound' => Sound /\ \A x \in Sides : \A k \in Nat : ToldOf(x, k) => ToldOf(x, k)'
    PROVE  Reached'
<1>1. \A x \in Sides : accounts[x] \in Seq(Nat)
  BY DEF Reached
<1>2. \A x \in Sides : DOMAIN accounts[x] \subseteq Nat
  BY <1>1
<1> QED
  BY <1>2 DEF Reached

\* A step of a caller or of Close: the pipeline and what it holds stay.
LEMMA OuterStep ==
    ASSUME Inv, UNCHANGED <<st, pend, hard, paying, serving, credits, used, virtual, accounts, reps>>
    PROVE  /\ Slots' /\ JobsFit' /\ ServingFits' /\ Unique' /\ Repetitions' /\ Apart' /\ Reached' /\ LeftEmpty'
           /\ Sound' = Sound /\ \A s \in Steps : Running(s)' = Running(s)
           /\ Carried' = Carried /\ InJobs' = InJobs /\ InBatches' = InBatches
           /\ InAccounts("A")' = InAccounts("A") /\ InAccounts("R")' = InAccounts("R")
<1>1. Sound' = Sound /\ \A s \in Steps : Running(s)' = Running(s)
  BY SameStates
<1>2. Slots'
  BY DEF Inv, Slots, Running
<1>3. JobsFit'
  BY JobsFrame DEF Inv
<1>4. ServingFits'
  BY DEF Inv, ServingFits, Groups
<1>5. Unique' /\ Repetitions' /\ Apart'
  <2>1. \A b \in Batches : InSplit(b)' = InSplit(b) /\ Passed(b)' = Passed(b)
    BY DEF InSplit, Passed, Names
  <2>2. UNCHANGED <<Groups, pend["requests"], pend["pay"]>>
    BY DEF Groups
  <2> QED
    BY <1>1, <2>1, <2>2, BatchFrame DEF Inv
<1>6. Reached'
  <2>1. \A x \in Sides : \A k \in Nat : ToldOf(x, k)' = ToldOf(x, k)
    BY DEF ToldOf, Tells
  <2> QED
    BY <1>1, <2>1, ReachedFrame DEF Inv
<1>7. LeftEmpty'
  <2>1. AllReturned' = AllReturned
    BY <1>1 DEF AllReturned
  <2> QED
    BY <1>1, <2>1, StepNames DEF Inv, LeftEmpty, Dedupes
<1>8. /\ Carried' = Carried /\ InJobs' = InJobs /\ InBatches' = InBatches
      /\ InAccounts("A")' = InAccounts("A") /\ InAccounts("R")' = InAccounts("R")
  BY LedgerFrame DEF Sides
<1> QED
  BY <1>1, <1>2, <1>3, <1>4, <1>5, <1>6, <1>7, <1>8

\* The order of the shutdown when no step returns.
LEMMA OrderFrame ==
    ASSUME Order, UNCHANGED <<st, graceful, hard, closer, mayHard, reqsSeen, signalSeen>>, faults' \in Nat,
           signalSeen => pend'["route"] \in {pend["route"], <<>>}
    PROVE  Order'
<1>1. \A v : <<Send("withdrawable", v)>> # <<>>
  OBVIOUS
<1> QED
  BY <1>1 DEF Order, AllReturned, Running
-----------------------------------------------------------------------------
(* Callers and Close *)

\* The callers at work are finite in number.
LEMMA ActiveFinite == IsFiniteSet(Active) /\ Cardinality(Active) \in Nat
  BY WalletAssumption, FS_Subset, FS_CardinalityType DEF Active

\* One caller begins, goes on or is done.
LEMMA CallerMoves ==
    ASSUME Counted, NEW c \in Callers, NEW to \in CallerPC, caller' = [caller EXCEPT ![c] = to],
           holds' \in [Callers -> Nat],
           \A d \in Callers \ {c} : holds'[d] = holds[d],
           to \notin {"paying", "returning"} => holds'[c] = 0,
           closer' = closer,
           LET pcs == {"sending", "waiting", "dangling", "paying", "returning", "errored"}
           IN  \/ caller[c] \in pcs /\ to \in pcs /\ wg' = wg
               \/ caller[c] \in pcs /\ to \notin pcs /\ wg' = wg - 1
               \/ caller[c] \notin pcs /\ to \in pcs /\ wg' = wg + 1 /\ ~Inputs
               \/ caller[c] \notin pcs /\ to \notin pcs /\ wg' = wg
    PROVE  Counted'
<1> DEFINE pcs == {"sending", "waiting", "dangling", "paying", "returning", "errored"}
<1>1. caller' \in [Callers -> CallerPC] /\ caller'[c] = to /\ \A d \in Callers \ {c} : caller'[d] = caller[d]
  BY DEF Counted
<1>2. Inputs' = Inputs
  BY DEF Inputs
<1>3. \A d \in Callers : caller'[d] \notin {"paying", "returning"} => holds'[d] = 0
  BY <1>1 DEF Counted
<1>4. wg' = Cardinality(Active') /\ (Inputs => Active' = {})
  <2>0. /\ \A d : d \in Active <=> d \in Callers /\ caller[d] \in pcs
        /\ \A d : d \in Active' <=> d \in Callers /\ caller'[d] \in pcs
    BY DEF Active
  <2>1. IsFiniteSet(Active) /\ Cardinality(Active) \in Nat /\ wg = Cardinality(Active)
    BY ActiveFinite DEF Counted
  <2>2. CASE caller[c] \in pcs /\ to \in pcs /\ wg' = wg
    <3>1. Active' = Active
      BY <2>0, <2>2, <1>1
    <3> QED
      BY <2>1, <2>2, <3>1 DEF Counted
  <2>3. CASE caller[c] \notin pcs /\ to \notin pcs /\ wg' = wg
    <3>1. Active' = Active
      BY <2>0, <2>3, <1>1
    <3> QED
      BY <2>1, <2>3, <3>1 DEF Counted
  <2>4. CASE caller[c] \in pcs /\ to \notin pcs /\ wg' = wg - 1
    <3>1. Active' = Active \ {c} /\ c \in Active
      BY <2>0, <2>4, <1>1
    <3>2. Cardinality(Active \ {c}) = Cardinality(Active) - 1
      BY <2>1, <3>1, FS_RemoveElement
    <3> QED
      BY <2>1, <2>4, <3>1, <3>2 DEF Counted
  <2>5. CASE caller[c] \notin pcs /\ to \in pcs /\ wg' = wg + 1 /\ ~Inputs
    <3>1. Active' = Active \cup {c} /\ c \notin Active
      BY <2>0, <2>5, <1>1
    <3>2. Cardinality(Active \cup {c}) = Cardinality(Active) + 1
      BY <2>1, <3>1, FS_AddElement
    <3> QED
      BY <2>1, <2>5, <3>1, <3>2
  <2> QED
    BY <2>2, <2>3, <2>4, <2>5
<1> QED
  BY <1>1, <1>2, <1>3, <1>4 DEF Counted

\* What one caller holds changes.
LEMMA HoldsChange ==
    ASSUME Counted, NEW c \in Callers, NEW n \in Nat, holds' = [holds EXCEPT ![c] = n]
    PROVE  /\ holds' \in [Callers -> Nat] /\ holds'[c] = n /\ \A d \in Callers \ {c} : holds'[d] = holds[d]
           /\ InCallers' = InCallers - holds[c] + n
<1>1. holds \in [Callers -> Nat]
  BY DEF Counted
<1>2. holds' \in [Callers -> Nat] /\ holds'[c] = n /\ \A d \in Callers \ {c} : holds'[d] = holds[d]
  BY <1>1
<1> DEFINE h == holds'
<1>3. h \in [Callers -> Nat] /\ h[c] = n /\ \A d \in Callers \ {c} : holds[d] = h[d]
  BY <1>2
<1> HIDE DEF h
<1>4. Sum(h, Callers) = Sum(holds, Callers) - holds[c] + h[c]
  BY <1>1, <1>3, WalletAssumption, SumChange
<1> QED
  BY <1>2, <1>3, <1>4 DEF InCallers, h

\* BeginPayment, GiveUp and FailRequest move a caller who holds nothing.
LEMMA CallerStep ==
    ASSUME Inv, NEW c \in Callers, BeginPayment(c) \/ GiveUp(c) \/ FailRequest(c)
    PROVE  Inv'
<1>0. /\ UNCHANGED <<pipeVars, storeVars, holds, spent, closer, faults, mayHard>>
      /\ \E to \in CallerPC : caller' = [caller EXCEPT ![c] = to] /\ caller[c] \in {"idle", "sending", "waiting"}
            /\ to \notin {"paying", "returning"}
            /\ \/ caller[c] = "idle" /\ to = "sending" /\ wg' = wg + 1 /\ closer = "open"
               \/ caller[c] = "idle" /\ to = "refused" /\ wg' = wg
               \/ caller[c] = "sending" /\ to = "gaveup" /\ wg' = wg - 1
               \/ caller[c] = "waiting" /\ to = "dangling" /\ wg' = wg
               \/ caller[c] = "sending" /\ to \in {"errored", "waiting"} /\ wg' = wg
  <2>1. CASE BeginPayment(c)
    BY <2>1 DEF BeginPayment, SetCaller, CallerPC
  <2>2. CASE GiveUp(c)
    BY <2>2 DEF GiveUp, SetCaller, CallerPC
  <2>3. CASE FailRequest(c)
    BY <2>3 DEF FailRequest, CallerPC
  <2> QED
    BY <2>1, <2>2, <2>3
<1>1. UNCHANGED <<st, pend, graceful, hard, paying, funds, credits, used, serving, reqsSeen, signalSeen,
                  virtual, accounts, reps>>
  BY <1>0 DEF pipeVars, storeVars, batchVars, flowVars, sideVars
<1>2. /\ Slots' /\ JobsFit' /\ ServingFits' /\ Unique' /\ Repetitions' /\ Apart' /\ Reached' /\ LeftEmpty'
      /\ Sound' = Sound /\ Carried' = Carried /\ InJobs' = InJobs /\ InBatches' = InBatches
      /\ InAccounts("A")' = InAccounts("A") /\ InAccounts("R")' = InAccounts("R")
  BY <1>1, OuterStep
<1>3. Order'
  BY <1>0, <1>1, OrderFrame DEF Inv, Order
<1>4. Counted'
  <2>1. Counted /\ holds' \in [Callers -> Nat] /\ holds' = holds /\ closer' = closer
    BY <1>0 DEF Inv, Counted
  <2>2. PICK to \in CallerPC : caller' = [caller EXCEPT ![c] = to] /\ caller[c] \in {"idle", "sending", "waiting"}
            /\ to \notin {"paying", "returning"}
            /\ \/ caller[c] = "idle" /\ to = "sending" /\ wg' = wg + 1 /\ closer = "open"
               \/ caller[c] = "idle" /\ to = "refused" /\ wg' = wg
               \/ caller[c] = "sending" /\ to = "gaveup" /\ wg' = wg - 1
               \/ caller[c] = "waiting" /\ to = "dangling" /\ wg' = wg
               \/ caller[c] = "sending" /\ to \in {"errored", "waiting"} /\ wg' = wg
    BY <1>0
  <2>3. holds'[c] = 0
    BY <2>1, <2>2 DEF Counted
  <2>4. closer = "open" => ~Inputs
    BY DEF Inputs
  <2> QED
    BY <2>1, <2>2, <2>3, <2>4, CallerMoves
<1>5. InCallers' = InCallers /\ funds' = funds /\ spent' = spent
  BY <1>0, <1>1, LedgerFrame
<1>6. Total' = Total
  BY <1>2, <1>5 DEF Total
<1>7. CreditsConserved'
  BY <1>2, <1>6, Balanced
<1> QED
  BY <1>2, <1>3, <1>4, <1>5, <1>7 DEF Inv

\* Success and Refund spend from what the caller holds.
LEMMA PaymentEnds ==
    ASSUME Inv, NEW c \in Callers, Success(c) \/ \E n \in Nat : Refund(c, n)
    PROVE  Inv'
<1>0. /\ UNCHANGED <<pipeVars, storeVars, closer, faults, mayHard>>
      /\ caller[c] = "paying"
      /\ \E n \in Nat, to \in {"done", "returning"} :
            /\ caller' = [caller EXCEPT ![c] = to] /\ holds' = [holds EXCEPT ![c] = n] /\ n <= holds[c]
            /\ spent' = spent + (holds[c] - n)
            /\ IF to = "done" THEN wg' = wg - 1 /\ n = 0 ELSE wg' = wg
  <2>0. holds[c] \in Nat
    BY DEF Inv, Counted
  <2> DEFINE P(n, to) == /\ caller' = [caller EXCEPT ![c] = to] /\ holds' = [holds EXCEPT ![c] = n] /\ n <= holds[c]
                         /\ spent' = spent + (holds[c] - n)
                         /\ IF to = "done" THEN wg' = wg - 1 /\ n = 0 ELSE wg' = wg
  <2>1. CASE Success(c)
    <3>1. holds[c] - 0 = holds[c] /\ 0 <= holds[c]
      BY <2>0
    <3>2. P(0, "done")
      BY <2>1, <3>1 DEF Success, SetCaller
    <3> HIDE DEF P
    <3>3. \E n \in Nat, to \in {"done", "returning"} : P(n, to)
      BY <3>2
    <3> QED
      BY <2>1, <3>3 DEF Success, SetCaller, P
  <2>2. CASE \E n \in Nat : Refund(c, n)
    <3>1. PICK n \in Nat : Refund(c, n)
      BY <2>2
    <3>2. P(n, "returning")
      BY <2>0, <3>1 DEF Refund, SetCaller
    <3> HIDE DEF P
    <3>3. \E m \in Nat, to \in {"done", "returning"} : P(m, to)
      BY <3>2
    <3> QED
      BY <3>1, <3>3 DEF Refund, SetCaller, P
  <2> QED
    BY <2>1, <2>2
<1>1. UNCHANGED <<st, pend, graceful, hard, paying, funds, credits, used, serving, reqsSeen, signalSeen,
                  virtual, accounts, reps>>
  BY <1>0 DEF pipeVars, storeVars, batchVars, flowVars, sideVars
<1>2. /\ Slots' /\ JobsFit' /\ ServingFits' /\ Unique' /\ Repetitions' /\ Apart' /\ Reached' /\ LeftEmpty'
      /\ Sound' = Sound /\ Carried' = Carried /\ InJobs' = InJobs /\ InBatches' = InBatches
      /\ InAccounts("A")' = InAccounts("A") /\ InAccounts("R")' = InAccounts("R")
  BY <1>1, OuterStep
<1>3. Order'
  BY <1>0, <1>1, OrderFrame DEF Inv, Order
<1>4. PICK n \in Nat, to \in {"done", "returning"} :
            /\ caller' = [caller EXCEPT ![c] = to] /\ holds' = [holds EXCEPT ![c] = n] /\ n <= holds[c]
            /\ spent' = spent + (holds[c] - n)
            /\ IF to = "done" THEN wg' = wg - 1 /\ n = 0 ELSE wg' = wg
  BY <1>0
<1>5. Counted /\ holds[c] \in Nat
  BY DEF Inv, Counted
<1>6. /\ holds' \in [Callers -> Nat] /\ holds'[c] = n /\ \A d \in Callers \ {c} : holds'[d] = holds[d]
      /\ InCallers' = InCallers - holds[c] + n
  BY <1>4, <1>5, HoldsChange
<1>7. Counted'
  <2>1. to \in CallerPC
    BY DEF CallerPC
  <2> QED
    BY <1>0, <1>4, <1>5, <1>6, <2>1, CallerMoves
<1>8. spent \in Nat /\ funds \in Nat /\ InCallers \in Nat
  BY LedgerNat
<1>9. spent' \in Nat /\ funds' \in Nat
  BY <1>1, <1>4, <1>5, <1>8
<1>10. Total' = Total
  <2>1. spent' = spent + (holds[c] - n) /\ InCallers' = InCallers - holds[c] + n /\ funds' = funds
    BY <1>1, <1>4, <1>6
  <2> QED
    BY <1>2, <1>5, <2>1, LedgerNat DEF Total
<1>11. CreditsConserved'
  BY <1>2, <1>10, Balanced
<1> QED
  BY <1>2, <1>3, <1>7, <1>9, <1>11 DEF Inv

\* The signal closes the channel of accounts to withdraw from, and Close begins,
\* closes the inputs and ends.
LEMMA CloseStep ==
    ASSUME Inv, RouteSignal \/ BeginClose \/ CloseInputs \/ EndClose
    PROVE  Inv'
<1>0. /\ UNCHANGED <<st, pend, hard, paying, funds, credits, used, serving, virtual, accounts, reps, reqsSeen,
                     caller, holds, wg, spent, faults, mayHard>>
      /\ \/ UNCHANGED <<closer, graceful>> /\ Ready("route") /\ signalSeen' = TRUE
         \/ closer = "open" /\ closer' = "waiting" /\ UNCHANGED <<graceful, signalSeen>>
         \/ /\ closer = "waiting" /\ wg = 0 /\ closer' = "closing"
            /\ graceful' \in {graceful, "closed"} /\ UNCHANGED signalSeen
         \/ closer = "closing" /\ closer' = "closed" /\ AllReturned /\ UNCHANGED <<graceful, signalSeen>>
  <2>1. CASE RouteSignal
    BY <2>1 DEF RouteSignal, batchVars, sideVars, outerVars, callerVars
  <2>2. CASE BeginClose
    BY <2>2 DEF BeginClose, pipeVars, storeVars, batchVars, flowVars, sideVars, callerVars
  <2>3. CASE CloseInputs
    BY <2>3 DEF CloseInputs, ClosePipeline, storeVars, batchVars, flowVars, sideVars, callerVars
  <2>4. CASE EndClose
    BY <2>4 DEF EndClose, pipeVars, storeVars, batchVars, flowVars, sideVars, callerVars
  <2> QED
    BY <2>1, <2>2, <2>3, <2>4
<1>1. /\ Slots' /\ JobsFit' /\ ServingFits' /\ Unique' /\ Repetitions' /\ Apart' /\ Reached' /\ LeftEmpty'
      /\ Sound' = Sound /\ Carried' = Carried /\ InJobs' = InJobs /\ InBatches' = InBatches
      /\ InAccounts("A")' = InAccounts("A") /\ InAccounts("R")' = InAccounts("R")
  BY <1>0, OuterStep
<1>2. Order'
  <2>1. \A v : <<Send("withdrawable", v)>> # <<>>
    OBVIOUS
  <2>2. Ready("route") => pend["route"] = <<>>
    BY DEF Ready
  <2>3. AllReturned' = AllReturned /\ \A s : Running(s)' = Running(s)
    BY <1>0 DEF AllReturned, Running
  <2>4. closer' = "closed" => AllReturned
    BY <1>0 DEF Inv, Order
  <2>5. closer' \in {"open", "waiting", "closing", "closed"} /\ graceful' \in {"open", "closed", "failed"}
        /\ signalSeen' \in BOOLEAN
    BY <1>0 DEF Inv, Order
  <2>6. signalSeen' => \A v \in Accounts : pend["route"] # <<Send("withdrawable", v)>>
    BY <1>0, <2>1, <2>2 DEF Inv, Order
  <2>7. ~Running("dedupeA") => ~Running("consolidateA")
    BY DEF Inv, Order
  <2>8. /\ hard \in BOOLEAN /\ faults \in Nat /\ mayHard \in BOOLEAN /\ reqsSeen \in BOOLEAN
        /\ UNCHANGED <<hard, faults, mayHard, reqsSeen, pend>>
    BY <1>0 DEF Inv, Order
  <2> QED
    BY <2>3, <2>4, <2>5, <2>6, <2>7, <2>8 DEF Order
<1>3. Counted'
  <2>1. Active' = Active
    BY <1>0 DEF Active
  <2>2. wg = 0 => Active = {}
    BY ActiveFinite, FS_EmptySet DEF Inv, Counted
  <2>3. Inputs' => Inputs \/ wg = 0
    BY <1>0 DEF Inputs
  <2> QED
    BY <1>0, <2>1, <2>2, <2>3 DEF Inv, Counted
<1>4. Total' = Total /\ funds' = funds /\ spent' = spent
  <2>1. InCallers' = InCallers
    BY <1>0, LedgerFrame
  <2> QED
    BY <1>0, <1>1, <2>1 DEF Total
<1>5. CreditsConserved'
  BY <1>1, <1>4, Balanced
<1> QED
  BY <1>1, <1>2, <1>3, <1>4, <1>5 DEF Inv
-----------------------------------------------------------------------------
(* Steps that return, and failures *)

\* A step fits without its first message.
LEMMA TailFits ==
    ASSUME Slots, NEW w \in Steps, pend[w] # <<>>
    PROVE  Fits(w, Tail(pend[w]))
<1>1. CASE w = "pay"
  <2>1. Tail(pend[w]) \in Seq(Paid)
    BY <1>1, Heads
  <2> QED
    BY <1>1, <2>1 DEF Fits
<1>2. CASE w = "split" /\ \E t \in Tokens : Tail(pend[w]) = <<Send("batches", t)>>
  BY <1>2, FitsOne
<1>3. CASE w # "pay" /\ Tail(pend[w]) = <<>>
  BY <1>3, FitsOne
<1> QED
  BY <1>1, <1>2, <1>3, Heads, StepNames

\* A step returns nil, with nothing in its hands.
LEMMA ReturnStep ==
    ASSUME Inv, NEW s \in Steps, Running(s), st' = [st EXCEPT ![s] = "ok"], Rewires({s}), pend'[s] = <<>>,
           pend[s] = <<>> \/ s = "empties",
           UNCHANGED <<graceful, hard, storeVars, outerVars>>,
           s = "pay" => paying = {}, s = "requests" => serving = Idle,
           s \in Dedupes => DOMAIN reps[s] = {}, s = "dedupeA" => ~Running("consolidateA")
    PROVE  Inv'
<1>0. UNCHANGED <<graceful, hard, paying, funds, credits, used, serving, reqsSeen, signalSeen, virtual, accounts,
                  reps, caller, holds, wg, spent, closer, faults, mayHard>>
  BY DEF storeVars, outerVars, batchVars, flowVars, sideVars, callerVars
<1>1. /\ Slots /\ Order /\ JobsFit /\ Counted /\ ServingFits /\ Unique /\ Repetitions /\ Apart
      /\ Reached /\ LeftEmpty /\ funds \in Nat /\ spent \in Nat
  BY DEF Inv
<1>2. st \in [Steps -> {"run", "ok", "err"}] /\ st' \in [Steps -> {"run", "ok", "err"}]
      /\ st'[s] = "ok" /\ st[s] = "run" /\ \A t \in Steps \ {s} : st'[t] = st[t]
  BY <1>1 DEF Slots, Running
<1>3. Sound' = Sound
  BY <1>0, <1>2 DEF Sound, Failed
<1>4. ~Running(s)' /\ \A t \in Steps \ {s} : Running(t)' = Running(t)
  BY <1>2 DEF Running
<1>5. Slots'
  <2>1. Fits(s, <<>>)
    BY FitsOne
  <2>2. \A t \in Steps : Fits(t, pend'[t]) /\ (~Running(t)' => pend'[t] = <<>>)
    BY <1>1, <1>4, <2>1 DEF Slots, Rewires
  <2> QED
    BY <1>2, <2>2 DEF Slots, Rewires
<1>6. \A t \in Steps : t # "empties" => pend'[t] = pend[t]
  BY DEF Rewires
<1>7. Order'
  <2>1. ~Running("dedupeA")' => ~Running("consolidateA")'
    BY <1>1, <1>4, StepNames DEF Order
  <2>2. closer' = "closed" => AllReturned'
    BY <1>0, <1>1, <1>4 DEF Order, AllReturned
  <2>3. pend'["route"] = pend["route"]
    BY <1>6, StepNames
  <2>4. /\ graceful \in {"open", "closed", "failed"} /\ hard \in BOOLEAN
        /\ closer \in {"open", "waiting", "closing", "closed"}
        /\ faults \in Nat /\ mayHard \in BOOLEAN
        /\ reqsSeen \in BOOLEAN /\ signalSeen \in BOOLEAN
        /\ signalSeen => \A v \in Accounts : pend["route"] # <<Send("withdrawable", v)>>
    BY <1>1 DEF Order
  <2> QED
    BY <1>0, <2>1, <2>2, <2>3, <2>4 DEF Order
<1>8. JobsFit'
  <2>1. ~Running("pay")' => paying = {}
    BY <1>1, <1>4, StepNames DEF JobsFit
  <2> QED
    BY <1>0, <1>1, <2>1 DEF JobsFit
<1>9. Counted'
  BY <1>0, <1>1, CountedFrame
<1>10. ServingFits'
  BY <1>0, <1>1 DEF ServingFits, Groups
<1>11. Unique' /\ Repetitions' /\ Apart'
  <2>1. pend'["requests"] = pend["requests"] /\ pend'["pay"] = pend["pay"]
        /\ pend'["split"] = pend["split"] /\ pend'["dedupeBatches"] = pend["dedupeBatches"]
    BY <1>6, StepNames
  <2>2. \A b \in Batches : InSplit(b)' = InSplit(b) /\ Passed(b)' = Passed(b)
    BY <2>1 DEF InSplit, Passed, Names
  <2>3. UNCHANGED <<Groups, pend["requests"], pend["pay"]>>
    BY <1>0, <2>1 DEF Groups
  <2> QED
    BY <1>0, <1>1, <1>3, <2>2, <2>3, BatchFrame
<1>12. Reached'
  <2>1. pend'["consolidateA"] = pend["consolidateA"] /\ pend'["consolidateR"] = pend["consolidateR"]
    BY <1>6, StepNames
  <2>2. \A x \in Sides : \A k \in Nat : ToldOf(x, k)' = ToldOf(x, k)
    BY <2>1 DEF ToldOf, TransferOf, Tells
  <2> QED
    BY <1>0, <1>1, <1>3, <2>2, ReachedFrame
<1>13. LeftEmpty'
  <2>1. AllReturned => AllReturned'
    BY <1>4 DEF AllReturned
  <2> QED
    BY <1>0, <1>1, <1>3, <1>4, <2>1, StepNames DEF LeftEmpty, Dedupes
<1>14. Carried' = Carried
  <2>1. Carried' = Carried - Load(pend[s]) + Load(pend'[s]) /\ Carried \in Nat
    BY <1>1, <1>5, CarriedOne
  <2>2. Load(<<>>) = 0
    BY Loads
  <2>3. Load(pend[s]) = 0
    <3>1. CASE pend[s] = <<>>
      BY <2>2, <3>1
    <3>2. CASE s = "empties" /\ pend[s] # <<>>
      <4>1. Offer(s) = Account(0) /\ Tail(pend[s]) = <<>>
        BY <1>1, <3>2, Heads
      <4>2. InHands(Account(0)) = 0
        BY Worths
      <4>3. Load(pend[s]) = InHands(Offer(s)) + Load(Tail(pend[s]))
        BY <1>1, <3>2, LoadHead
      <4>4. InHands(Offer(s)) = 0 /\ Load(Tail(pend[s])) = 0
        BY <2>2, <4>1, <4>2, Zenon
      <4> QED
        BY <4>3, <4>4
    <3> QED
      BY <3>1, <3>2
  <2> QED
    BY <2>1, <2>2, <2>3
<1>15. Total' = Total
  <2>1. /\ InJobs' = InJobs /\ InBatches' = InBatches /\ InCallers' = InCallers
        /\ InAccounts("A")' = InAccounts("A") /\ InAccounts("R")' = InAccounts("R")
    BY <1>0, LedgerFrame DEF Sides
  <2> QED
    BY <1>0, <1>14, <2>1 DEF Total
<1>16. CreditsConserved'
  BY <1>3, <1>15, Balanced
<1> QED
  BY <1>0, <1>1, <1>5, <1>7, <1>8, <1>9, <1>10, <1>11, <1>12, <1>13, <1>16 DEF Inv

\* Exit, RouteExit, RequestsExit, StopEmpty, and the root that was closed.
LEMMA ExitStep ==
    ASSUME Inv,
           \/ \E s \in Steps : Exit(s)
           \/ RouteExit \/ RequestsExit \/ StopEmpty
           \/ RootStep /\ graceful = "closed"
    PROVE  Inv'
<1>0. Slots
  BY DEF Inv
<1>1. ASSUME NEW s \in Steps, Finish(s) PROVE st' = [st EXCEPT ![s] = "ok"] /\ Rewires({s}) /\ pend' = pend
      /\ UNCHANGED <<graceful, hard>>
  BY <1>0, <1>1 DEF Finish, Rewires, Slots
<1>2. ASSUME NEW s \in Steps, Exit(s) PROVE Inv'
  <2>1. /\ Running(s) /\ pend[s] = <<>> /\ Finish(s) /\ UNCHANGED <<storeVars, outerVars>>
        /\ s = "pay" => paying = {}
        /\ s \in Dedupes => reps[s] = <<>>
        /\ s \in DOMAIN InputsOf /\ InputsClosed(s)
    BY <1>2 DEF Exit, Ready
  <2>2. s # "requests"
    BY <2>1 DEF InputsOf
  <2>3. s \in Dedupes => DOMAIN reps[s] = {}
    BY <2>1
  <2>4. s = "dedupeA" => ~Running("consolidateA")
    <3>1. s = "dedupeA" => Closed("doneA")
      BY <2>1 DEF InputsClosed, InputsOf
    <3>2. Closed("doneA") => ClosedByPipeline("doneA")
      BY DEF Closed
    <3>3. "consolidateA" \in Steps /\ "doneA" \in OutputsOf["consolidateA"]
      BY StepNames, WalletTopology DEF WalletOutputs
    <3> QED
      BY <3>1, <3>2, <3>3, OpenWhileRunning
  <2> QED
    BY <1>1, <2>1, <2>2, <2>3, <2>4, ReturnStep
<1>3. CASE RouteExit
  <2>1. Running("route") /\ pend["route"] = <<>> /\ Finish("route") /\ UNCHANGED <<storeVars, outerVars>>
    BY <1>3 DEF RouteExit, Ready
  <2>2. "route" \in Steps /\ "route" \notin Dedupes
    BY StepNames DEF Dedupes
  <2> QED
    BY <1>1, <2>1, <2>2, ReturnStep
<1>4. CASE RequestsExit
  <2>1. /\ Running("requests") /\ pend["requests"] = <<>> /\ Finish("requests") /\ serving = Idle
        /\ UNCHANGED <<storeVars, outerVars>>
    BY <1>4 DEF RequestsExit, Ready
  <2>2. "requests" \in Steps /\ "requests" \notin Dedupes
    BY StepNames DEF Dedupes
  <2> QED
    BY <1>1, <2>1, <2>2, ReturnStep
<1>5. CASE StopEmpty
  <2>1. /\ Running("empties") /\ st' = [st EXCEPT !["empties"] = "ok"]
        /\ pend' = [pend EXCEPT !["empties"] = <<>>]
        /\ UNCHANGED <<graceful, hard, storeVars, outerVars>>
    BY <1>5 DEF StopEmpty
  <2>2. "empties" \in Steps /\ "empties" \notin Dedupes
    BY StepNames DEF Dedupes
  <2>3. Rewires({"empties"}) /\ pend'["empties"] = <<>>
    BY <1>0, <2>1, <2>2 DEF Rewires, Slots
  <2> QED
    BY <2>1, <2>2, <2>3, ReturnStep
<1>6. CASE RootStep /\ graceful = "closed"
  <2>1. Running("root") /\ Finish("root") /\ UNCHANGED <<storeVars, outerVars>>
    BY <1>6, WalletTopology DEF RootStep, RootReturns
  <2>2. "root" \in Steps /\ "root" \notin Dedupes
    BY StepNames DEF Dedupes
  <2>3. pend["root"] = <<>>
    BY <1>0, <2>2 DEF Slots, Fits
  <2> QED
    BY <1>1, <2>1, <2>2, <2>3, ReturnStep
<1> QED
  BY <1>2, <1>3, <1>4, <1>5, <1>6

\* Something fails: steps end with an error, and what they held is lost.
LEMMA FailureStep ==
    ASSUME Inv, ~Sound', Slots',
           \A s \in Steps : \/ pend'[s] \in {pend[s], <<>>}
                            \/ pend[s] # <<>> /\ pend'[s] = Tail(pend[s]),
           \A s \in Steps : Running(s)' => Running(s),
           ~Running("dedupeA")' => ~Running("consolidateA")',
           Running("requests")' = Running("requests") \/ AllReturned',
           paying' \in {paying, {}}, ~Running("pay")' => paying' = {},
           UNCHANGED <<batchVars, flowVars, sideVars, reps, closer, mayHard>>,
           funds' \in Nat, funds' <= funds, spent' = spent, faults' \in Nat,
           graceful' \in {graceful, "failed"}, hard' \in BOOLEAN,
           Counted', InCallers' <= InCallers, InCallers' \in Nat
    PROVE  Inv'
<1>0. UNCHANGED <<credits, used, serving, reqsSeen, signalSeen, virtual, accounts, reps, spent, closer, mayHard>>
  BY DEF batchVars, flowVars, sideVars
<1>1. /\ Slots /\ Order /\ JobsFit /\ ServingFits /\ Unique /\ Repetitions /\ Apart
      /\ Reached /\ LeftEmpty /\ funds \in Nat /\ spent \in Nat
  BY DEF Inv
<1>2. Order'
  <2>1. closer' = "closed" => AllReturned'
    BY <1>0, <1>1 DEF Order, AllReturned
  <2>2. signalSeen => \A v \in Accounts : pend'["route"] # <<Send("withdrawable", v)>>
    <3>1. "route" \in Steps
      BY StepNames
    <3>2. pend["route"] # <<>> => Tail(pend["route"]) = <<>>
      BY <1>1, <3>1, Heads
    <3>3. pend'["route"] \in {pend["route"], <<>>}
      BY <3>1, <3>2
    <3>4. \A v : <<Send("withdrawable", v)>> # <<>>
      OBVIOUS
    <3> QED
      BY <1>1, <3>3, <3>4 DEF Order
  <2>3. /\ graceful \in {"open", "closed", "failed"}
        /\ closer \in {"open", "waiting", "closing", "closed"}
        /\ mayHard \in BOOLEAN /\ reqsSeen \in BOOLEAN /\ signalSeen \in BOOLEAN
    BY <1>1 DEF Order
  <2> QED
    BY <1>0, <2>1, <2>2, <2>3 DEF Order
<1>3. JobsFit'
  <2>1. Cardinality({}) = 0 /\ IsFiniteSet({})
    BY FS_EmptySet
  <2>2. paying' \subseteq Jobs /\ IsFiniteSet(paying') /\ Cardinality(paying') <= MaxParallel
    <3>1. CASE paying' = paying
      BY <1>1, <3>1 DEF JobsFit
    <3>2. CASE paying' = {}
      <4>1. {} \subseteq Jobs /\ 0 <= MaxParallel
        BY WalletAssumption
      <4> QED
        BY <2>1, <3>2, <4>1, Zenon
    <3> QED
      BY <3>1, <3>2
  <2> QED
    BY <2>2 DEF JobsFit
<1>4. ServingFits'
  BY <1>0, <1>1 DEF ServingFits, Groups
<1>5. Unique' /\ Repetitions' /\ Apart'
  <2>1. pend'["requests"] \in {pend["requests"], <<>>}
    <3>1. "requests" \in Steps
      BY StepNames
    <3>2. pend["requests"] # <<>> => Tail(pend["requests"]) = <<>>
      BY <1>1, <3>1, Heads
    <3> QED
      BY <3>1, <3>2
  <2>2. "pay" \in Steps
    BY StepNames
  <2>3. \A b \in Batches : Passed(b)' => Passed(b)
    <3>1. "dedupeBatches" \in Steps
      BY StepNames
    <3>2. pend["dedupeBatches"] # <<>> => Tail(pend["dedupeBatches"]) = <<>>
      BY <1>1, <3>1, Heads
    <3>3. pend'["dedupeBatches"] \in {pend["dedupeBatches"], <<>>}
      BY <3>1, <3>2
    <3> QED
      BY <3>3 DEF Passed, Names
  <2>4. \A b \in Batches : InSplit(b)' => InSplit(b)
    <3> DEFINE q == pend["split"]
    <3>1. "split" \in Steps
      BY StepNames
    <3>2. \/ pend'["split"] \in {q, <<>>}
          \/ \E v \in Accounts, t \in Tokens :
                q = <<Send("toConsolidate", v), Send("batches", t)>> /\ pend'["split"] = <<Send("batches", t)>>
      <4>1. \/ One(q, "toConsolidate", Accounts) \/ One(q, "batches", Tokens)
            \/ \E v \in Accounts, t \in Tokens : q = <<Send("toConsolidate", v), Send("batches", t)>>
        BY <1>1, <3>1 DEF Slots, Fits
      <4>2. pend'["split"] \in {q, <<>>} \/ (q # <<>> /\ pend'["split"] = Tail(q))
        BY <3>1
      <4> HIDE DEF q
      <4>3. \A c, V : One(q, c, V) /\ q # <<>> => Tail(q) = <<>>
        BY OneTaken
      <4>4. \A v, t : q = <<Send("toConsolidate", v), Send("batches", t)>> => Tail(q) = <<Send("batches", t)>>
        BY TwoMessages
      <4> QED
        BY <4>1, <4>2, <4>3, <4>4
    <3>3. CASE pend'["split"] \in {q, <<>>}
      BY <3>3 DEF InSplit, Names
    <3>4. ASSUME NEW v \in Accounts, NEW t \in Tokens, q = <<Send("toConsolidate", v), Send("batches", t)>>,
                 pend'["split"] = <<Send("batches", t)>>
          PROVE  \A b \in Batches : InSplit(b)' => InSplit(b)
      <4>1. DOMAIN q = {1, 2} /\ q[2].val = t
        <5> HIDE DEF q
        <5> QED
          BY <3>4 DEF Send
      <4>2. DOMAIN pend'["split"] = {1} /\ pend'["split"][1].val = t
        BY <3>4, SingleMessage
      <4> QED
        BY <4>1, <4>2 DEF InSplit, Names
    <3> QED
      BY <3>2, <3>3, <3>4
  <2>5. UNCHANGED <<serving, credits, used, Groups>> /\ paying' \subseteq paying
    BY <1>0 DEF Groups
  <2> QED
    BY <1>1, <2>1, <2>2, <2>3, <2>4, <2>5, BatchFrame
<1>6. Reached'
  <2>1. \A x \in Sides : pend'[TransferOf(x)] \in {pend[TransferOf(x)], <<>>}
    <3>1. \A x \in Sides : TransferOf(x) \in {"consolidateA", "consolidateR"} /\ TransferOf(x) \in Steps
      BY StepNames DEF TransferOf
    <3>2. \A x \in Sides : pend[TransferOf(x)] # <<>> => Tail(pend[TransferOf(x)]) = <<>>
      BY <1>1, <3>1, Heads
    <3> QED
      BY <3>1, <3>2
  <2>2. \A x \in Sides : \A k \in Nat : ToldOf(x, k)' => ToldOf(x, k)
    BY <2>1 DEF ToldOf, Tells
  <2> QED
    BY <1>0, <1>1, <2>2, ReachedFrame
<1>7. LeftEmpty'
  <2>1. AllReturned => AllReturned'
    BY DEF AllReturned
  <2> QED
    BY <1>0, <1>1, <2>1 DEF LeftEmpty
<1>8. Carried' <= Carried /\ Carried \in Nat /\ Carried' \in Nat
  <2>1. ASSUME NEW s \in Steps PROVE Load(pend'[s]) <= Load(pend[s])
    <3>0. Load(pend[s]) \in Nat /\ (pend[s] # <<>> => Load(pend[s]) = InHands(Offer(s)) + Load(Tail(pend[s])))
      BY <1>1, LoadHead
    <3>1. CASE pend'[s] = pend[s]
      BY <3>0, <3>1
    <3>2. CASE pend'[s] = <<>>
      BY <3>0, <3>2, Loads
    <3>3. CASE pend[s] # <<>> /\ pend'[s] = Tail(pend[s])
      <4>1. Load(pend'[s]) \in Nat
        BY LoadFits DEF Slots
      <4>2. InHands(Offer(s)) \in Nat
        BY <1>1, <3>3, OfferNat
      <4>3. Load(pend[s]) = InHands(Offer(s)) + Load(pend'[s])
        BY <3>0, <3>3
      <4> QED
        BY <4>1, <4>2, <4>3
    <3> QED
      BY <3>1, <3>2, <3>3
  <2> QED
    BY <1>1, <2>1, CarriedLess
<1>9. InJobs' <= InJobs /\ InJobs \in Nat /\ InJobs' \in Nat
  <2>1. InJobs \in Nat
    BY LedgerNat
  <2>2. CASE paying' = paying
    BY <2>1, <2>2, LedgerFrame
  <2>3. CASE paying' = {}
    <3>1. InJobs' = 0
      BY <2>3, SumZero DEF InJobs
    <3> QED
      BY <2>1, <3>1
  <2> QED
    BY <2>2, <2>3
<1>10. Total' <= Total /\ Total \in Nat /\ Total' \in Nat
  <2>1. /\ InBatches' = InBatches
        /\ InAccounts("A")' = InAccounts("A") /\ InAccounts("R")' = InAccounts("R")
    BY <1>0, LedgerFrame DEF Sides
  <2> DEFINE f2 == funds'
             c2 == Carried'
             j2 == InJobs'
             h2 == InCallers'
             b == InBatches
             a == InAccounts("A")
             r == InAccounts("R")
             c == Carried
             j == InJobs
             h == InCallers
  <2>2. /\ f2 \in Nat /\ c2 \in Nat /\ j2 \in Nat /\ h2 \in Nat /\ b \in Nat /\ a \in Nat /\ r \in Nat
        /\ c \in Nat /\ j \in Nat /\ h \in Nat /\ funds \in Nat /\ spent \in Nat
        /\ f2 <= funds /\ c2 <= c /\ j2 <= j /\ h2 <= h
    BY <1>8, <1>9, LedgerNat
  <2>3. Total = funds + spent + c + j + b + a + r + h /\ Total' = f2 + spent + c2 + j2 + b + a + r + h2
    BY <1>0, <2>1 DEF Total
  <2> HIDE DEF f2, c2, j2, h2, b, a, r, c, j, h
  <2> QED
    BY <2>2, <2>3
<1>11. CreditsConserved'
  BY <1>10, Lossy
<1> QED
  BY <1>0, <1>1, <1>2, <1>3, <1>4, <1>5, <1>6, <1>7, <1>11 DEF Inv

\* The function of s returned an error.
LEMMA FailEffect ==
    ASSUME Slots, NEW s \in Steps, st' = [st EXCEPT ![s] = "err"], Order,
           graceful' = IF graceful = "open" THEN "failed" ELSE graceful,
           pend' = [t \in Steps |-> pend'[t]], pend'[s] = <<>>,
           \A t \in Steps : \/ pend'[t] \in {pend[t], <<>>}
                            \/ pend[t] # <<>> /\ pend'[t] = Tail(pend[t]),
           s # "dedupeA"
    PROVE  /\ Slots' /\ ~Sound' /\ graceful' \in {graceful, "failed"}
           /\ \A t \in Steps : Running(t)' => Running(t)
           /\ ~Running("dedupeA")' => ~Running("consolidateA")'
           /\ \A t \in Steps : t # s => Running(t)' = Running(t)
<1>1. /\ st \in [Steps -> {"run", "ok", "err"}] /\ st' \in [Steps -> {"run", "ok", "err"}] /\ st'[s] = "err"
      /\ \A t \in Steps \ {s} : st'[t] = st[t]
  BY DEF Slots
<1>2. ~Running(s)' /\ \A t \in Steps \ {s} : Running(t)' = Running(t)
  BY <1>1 DEF Running
<1>3. ~Sound'
  BY <1>1 DEF Sound, Failed
<1>4. Slots'
  <2>1. ASSUME NEW t \in Steps PROVE Fits(t, pend'[t])
    <3>1. Fits(t, <<>>)
      BY FitsOne
    <3>2. Fits(t, pend[t])
      BY DEF Slots
    <3>3. pend[t] # <<>> => Fits(t, Tail(pend[t]))
      BY TailFits
    <3> QED
      BY <3>1, <3>2, <3>3
  <2>2. ASSUME NEW t \in Steps, ~Running(t)' PROVE pend'[t] = <<>>
    <3>1. CASE t = s
      BY <3>1
    <3>2. CASE t # s
      <4>1. pend[t] = <<>>
        BY <1>2, <2>2, <3>2 DEF Slots
      <4> QED
        BY <4>1
    <3> QED
      BY <3>1, <3>2
  <2> QED
    BY <1>1, <2>1, <2>2 DEF Slots
<1>5. ~Running("dedupeA")' => ~Running("consolidateA")'
  BY <1>2, StepNames DEF Order
<1> QED
  BY <1>2, <1>3, <1>4, <1>5

\* WithdrawRefused, ResultFails, and the root that was told of a failure.
LEMMA FailingStep ==
    ASSUME Inv, NEW s \in Steps, FailStep(s), s \notin {"dedupeA", "requests"}, paying' \in {paying, {}}, s = "pay" => paying' = {},
           UNCHANGED <<funds, batchVars, flowVars, sideVars, reps, closer, mayHard>>, spent' = spent, faults' \in Nat,
           Counted', InCallers' <= InCallers, InCallers' \in Nat
    PROVE  Inv'
<1>1. Slots /\ Order /\ JobsFit /\ funds \in Nat /\ hard \in BOOLEAN
  BY DEF Inv, Order
<1>2. /\ st' = [st EXCEPT ![s] = "err"] /\ pend' = [pend EXCEPT ![s] = <<>>] /\ hard' = hard
      /\ graceful' = IF graceful = "open" THEN "failed" ELSE graceful
  BY DEF FailStep
<1>3. /\ pend' = [t \in Steps |-> pend'[t]] /\ pend'[s] = <<>>
      /\ \A t \in Steps : pend'[t] \in {pend[t], <<>>}
  BY <1>1, <1>2 DEF Slots
<1>4. /\ Slots' /\ ~Sound' /\ graceful' \in {graceful, "failed"}
      /\ \A t \in Steps : Running(t)' => Running(t)
      /\ ~Running("dedupeA")' => ~Running("consolidateA")'
      /\ \A t \in Steps : t # s => Running(t)' = Running(t)
  BY <1>1, <1>2, <1>3, FailEffect
<1>5. (~Running("pay")' => paying' = {}) /\ Running("requests")' = Running("requests")
  BY <1>1, <1>4, StepNames DEF JobsFit
<1>6. funds' \in Nat /\ funds' <= funds
  BY <1>1
<1> QED
  BY <1>1, <1>2, <1>3, <1>4, <1>5, <1>6, FailureStep

\* The callers when only the steps fail.
LEMMA CallersStay ==
    ASSUME Inv, UNCHANGED <<caller, holds, wg, closer>>
    PROVE  Counted' /\ InCallers' <= InCallers /\ InCallers' \in Nat
<1>1. InCallers' = InCallers /\ InCallers \in Nat
  BY LedgerFrame, LedgerNat
<1> QED
  BY <1>1, CountedFrame DEF Inv

\* The root returns the cause of a failure.
LEMMA RootFails ==
    ASSUME Inv, RootStep, graceful # "closed"
    PROVE  Inv'
<1>1. FailStep("root") /\ UNCHANGED <<storeVars, outerVars>>
  BY WalletTopology DEF RootStep, RootReturns
<1>2. /\ UNCHANGED <<paying, funds, batchVars, flowVars, sideVars, reps, closer, mayHard>> /\ spent' = spent
      /\ UNCHANGED <<caller, holds, wg, closer, faults>>
  BY <1>1 DEF storeVars, outerVars, callerVars
<1>3. faults \in Nat /\ "root" \in Steps
  BY StepNames DEF Inv, Order
<1> QED
  BY <1>1, <1>2, <1>3, CallersStay, FailingStep

\* The stack cannot give the credit.
LEMMA WithdrawFails ==
    ASSUME Inv, NEW j \in paying, WithdrawRefused(j)
    PROVE  Inv'
<1>1. FailStep("pay") /\ paying' = {} /\ UNCHANGED <<funds, batchVars, flowVars, sideVars, reps, outerVars>>
  BY DEF WithdrawRefused
<1>2. UNCHANGED <<caller, holds, wg, spent, closer, faults, mayHard>>
  BY <1>1 DEF outerVars, callerVars
<1>3. faults \in Nat /\ "pay" \in Steps
  BY StepNames DEF Inv, Order
<1> QED
  BY <1>1, <1>2, <1>3, CallersStay, FailingStep

\* The exchange of a returned credit fails.
LEMMA ExchangeFails ==
    ASSUME Inv, NEW c \in Callers, ResultFails(c)
    PROVE  Inv'
<1>1. /\ FailStep("consolidateR") /\ UNCHANGED <<storeVars, spent, closer, mayHard>>
      /\ caller[c] = "returning" /\ caller' = [caller EXCEPT ![c] = "done"] /\ holds' = [holds EXCEPT ![c] = 0]
      /\ wg' = wg - 1 /\ faults > 0 /\ faults' = faults - 1
  BY DEF ResultFails
<1>2. UNCHANGED <<paying, funds, batchVars, flowVars, sideVars, reps, closer, mayHard>> /\ spent' = spent
  BY <1>1 DEF storeVars
<1>3. "consolidateR" \in Steps /\ faults \in Nat /\ Counted /\ holds[c] \in Nat
  BY StepNames DEF Inv, Order, Counted
<1>4. faults' \in Nat
  BY <1>1, <1>3
<1>5. /\ holds' \in [Callers -> Nat] /\ holds'[c] = 0 /\ \A d \in Callers \ {c} : holds'[d] = holds[d]
      /\ InCallers' = InCallers - holds[c] + 0
  BY <1>1, <1>3, HoldsChange
<1>6. Counted'
  <2>1. "done" \in CallerPC
    BY DEF CallerPC
  <2> QED
    BY <1>1, <1>2, <1>3, <1>5, <2>1, CallerMoves
<1>7. InCallers' \in Nat
  <2>1. \A d \in Callers : holds'[d] \in Nat
    BY <1>5
  <2> QED
    BY <2>1, WalletAssumption, UnitsFinite DEF InCallers
<1>8. InCallers' <= InCallers
  BY <1>3, <1>5, <1>7, LedgerNat
<1> QED
  BY <1>1, <1>2, <1>3, <1>4, <1>6, <1>7, <1>8, FailingStep

\* A call to the bank or the source fails.
LEMMA CallFails ==
    ASSUME Inv, NEW t \in Transfers, TransferFails(t)
    PROVE  Inv'
<1>1. /\ faults > 0 /\ faults' = faults - 1 /\ spent' = spent
      /\ UNCHANGED <<batchVars, flowVars, sideVars, reps, closer, mayHard, caller, holds, wg>>
  BY DEF TransferFails, callerVars
<1>2. /\ Slots /\ Order /\ JobsFit /\ funds \in Nat /\ hard \in BOOLEAN /\ faults \in Nat
      /\ t \in Steps /\ t \notin {"root", "dedupeA", "requests"}
  BY StepNames DEF Inv, Order, Transfers
<1>3. faults' \in Nat
  BY <1>1, <1>2
<1>4. Counted' /\ InCallers' <= InCallers /\ InCallers' \in Nat
  BY <1>1, CallersStay
<1>5. CASE t = "pay" /\ FailStep(t) /\ paying' = {} /\ UNCHANGED funds
  BY <1>1, <1>2, <1>3, <1>4, <1>5, FailingStep
<1>6. CASE /\ t # "pay" /\ Ready(t)
           /\ \E c \in InputsOf[t] : \E w \in Senders(c) :
                pend' = [pend EXCEPT ![w] = Tail(@)]
           /\ st' = [st EXCEPT ![t] = "err"]
           /\ graceful' = IF graceful = "open" THEN "failed" ELSE graceful
           /\ funds' \in {funds} \cup (IF t = "source" /\ funds >= SourceAmount
                                       THEN {funds - SourceAmount} ELSE {})
           /\ UNCHANGED <<hard, paying>>
  <2>1. PICK w : /\ w \in Steps /\ pend[w] # <<>> /\ pend' = [pend EXCEPT ![w] = Tail(@)] /\ w # t
    BY <1>6 DEF Senders, Ready
  <2>2. /\ pend' = [s \in Steps |-> pend'[s]] /\ pend'[t] = <<>>
        /\ \A s \in Steps : pend'[s] = pend[s] \/ (pend[s] # <<>> /\ pend'[s] = Tail(pend[s]))
    BY <1>2, <1>6, <2>1 DEF Slots, Ready
  <2>3. /\ Slots' /\ ~Sound' /\ graceful' \in {graceful, "failed"}
        /\ \A s \in Steps : Running(s)' => Running(s)
        /\ ~Running("dedupeA")' => ~Running("consolidateA")'
        /\ \A s \in Steps : s # t => Running(s)' = Running(s)
    BY <1>2, <1>6, <2>2, FailEffect
  <2>4. paying' = paying /\ (~Running("pay")' => paying' = {}) /\ Running("requests")' = Running("requests")
    BY <1>2, <1>6, <2>3, StepNames DEF JobsFit
  <2>5. funds' \in Nat /\ funds' <= funds
    BY <1>2, <1>6, WalletAssumption
  <2>6. hard' \in BOOLEAN
    BY <1>2, <1>6
  <2> QED
    BY <1>1, <1>3, <1>4, <2>2, <2>3, <2>4, <2>5, <2>6, FailureStep
<1> QED
  BY <1>5, <1>6 DEF TransferFails

\* The context of Close ends.
LEMMA HardStep ==
    ASSUME Inv, CloseContextDone
    PROVE  Inv'
<1>1. /\ hard' = TRUE /\ st' = [s \in Steps |-> IF Running(s) THEN "err" ELSE st[s]]
      /\ pend' = [s \in Steps |-> <<>>] /\ graceful' = graceful /\ paying' = {}
      /\ UNCHANGED <<funds, batchVars, flowVars, sideVars, reps, outerVars>>
  BY DEF CloseContextDone, HardCancel
<1>2. UNCHANGED <<caller, holds, wg, spent, closer, faults, mayHard>>
  BY <1>1 DEF outerVars, callerVars
<1>3. Slots /\ funds \in Nat /\ faults \in Nat
  BY DEF Inv, Order
<1>4. Slots' /\ \A s \in Steps : ~Running(s)'
  <2>1. st' \in [Steps -> {"run", "ok", "err"}] /\ \A s \in Steps : st'[s] # "run"
    BY <1>1, <1>3 DEF Slots, Running
  <2>2. \A s \in Steps : pend'[s] = <<>>
    BY <1>1
  <2>3. \A s \in Steps : Fits(s, <<>>)
    BY FitsOne
  <2> QED
    BY <1>1, <2>1, <2>2, <2>3 DEF Slots, Running
<1>5. ~Sound' /\ \A s \in Steps : pend'[s] = <<>>
  BY <1>1 DEF Sound
<1>6. Counted' /\ InCallers' <= InCallers /\ InCallers' \in Nat
  BY <1>2, CallersStay
<1>7. ~Running("consolidateA")' /\ AllReturned'
  BY <1>4, StepNames DEF AllReturned
<1>8. funds' \in Nat /\ funds' <= funds
  BY <1>1, <1>3
<1> QED
  BY <1>1, <1>2, <1>3, <1>4, <1>5, <1>6, <1>7, <1>8, FailureStep
-----------------------------------------------------------------------------
(* Accounts on their way *)

\* What messages tell, and which batches they are about.
LEMMA Tidings ==
    /\ \A k : ~Tells(<<>>, k)
    /\ \A b : ~Names(<<>>, b)
    /\ \A c, v, k : Tells(<<Send(c, v)>>, k) <=> v.kind = "done" /\ v.to = k
    /\ \A c, v, b : Names(<<Send(c, v)>>, b) <=> v = Batch(b)
    /\ \A c, v, d, u, b : Names(<<Send(c, v), Send(d, u)>>, b) <=> v = Batch(b) \/ u = Batch(b)
<1>1. \A k : ~Tells(<<>>, k)
  BY DEF Tells
<1>2. \A b : ~Names(<<>>, b)
  BY DEF Names
<1>3. ASSUME NEW c, NEW v, NEW k PROVE Tells(<<Send(c, v)>>, k) <=> v.kind = "done" /\ v.to = k
  <2> DEFINE q == <<Send(c, v)>>
  <2>1. DOMAIN q = {1} /\ q[1].val = v
    BY SingleMessage
  <2> HIDE DEF q
  <2>2. Tells(q, k) <=> v.kind = "done" /\ v.to = k
    BY <2>1 DEF Tells
  <2> QED
    BY <2>2 DEF q
<1>4. ASSUME NEW c, NEW v, NEW b PROVE Names(<<Send(c, v)>>, b) <=> v = Batch(b)
  <2> DEFINE q == <<Send(c, v)>>
  <2>1. DOMAIN q = {1} /\ q[1].val = v
    BY SingleMessage
  <2> HIDE DEF q
  <2>2. Names(q, b) <=> v = Batch(b)
    BY <2>1 DEF Names
  <2> QED
    BY <2>2 DEF q
<1>5. ASSUME NEW c, NEW v, NEW d, NEW u, NEW b
      PROVE  Names(<<Send(c, v), Send(d, u)>>, b) <=> v = Batch(b) \/ u = Batch(b)
  <2> DEFINE q == <<Send(c, v), Send(d, u)>>
  <2>1. DOMAIN q = {1, 2} /\ q[1].val = v /\ q[2].val = u
    BY DEF Send
  <2> HIDE DEF q
  <2>2. Names(q, b) <=> v = Batch(b) \/ u = Batch(b)
    BY <2>1 DEF Names
  <2> QED
    BY <2>2 DEF q
<1> QED
  BY <1>1, <1>2, <1>3, <1>4, <1>5

\* A step that moves money without touching a batch.
LEMMA MoneyStep ==
    ASSUME Inv, Slots',
           UNCHANGED <<st, graceful, hard, paying, credits, used, serving, reqsSeen, signalSeen, closer, mayHard, faults>>,
           pend'["requests"] = pend["requests"], pend'["pay"] = pend["pay"],
           \A b \in Batches : (InSplit(b)' <=> InSplit(b)) /\ (Passed(b)' <=> Passed(b)),
           reps' = [d \in Dedupes |-> reps'[d]], reps'["dedupeBatches"] = reps["dedupeBatches"],
           \A d \in Dedupes : ~Running(d) => reps'[d] = reps[d],
           signalSeen => pend'["route"] = pend["route"] \/ \A v : pend'["route"] # <<Send("withdrawable", v)>>,
           Counted', Reached', funds' \in Nat, spent' \in Nat, Total' = Total
    PROVE  Inv'
<1>1. /\ Slots /\ Order /\ JobsFit /\ ServingFits /\ Unique /\ Repetitions /\ Apart /\ LeftEmpty
  BY DEF Inv
<1>2. Sound' = Sound /\ \A s \in Steps : Running(s)' = Running(s)
  BY SameStates
<1>3. Order'
  <2>1. AllReturned' = AllReturned /\ \A s : Running(s)' = Running(s)
    BY DEF AllReturned, Running
  <2>2. signalSeen => \A v \in Accounts : pend'["route"] # <<Send("withdrawable", v)>>
    BY <1>1 DEF Order
  <2> QED
    BY <1>1, <2>1, <2>2 DEF Order
<1>4. JobsFit'
  BY <1>1, JobsFrame
<1>5. ServingFits'
  BY <1>1 DEF ServingFits, Groups
<1>6. Unique' /\ Repetitions' /\ Apart'
  <2>1. UNCHANGED <<Groups, pend["requests"], pend["pay"]>>
    BY DEF Groups
  <2> QED
    BY <1>1, <1>2, <2>1, BatchFrame
<1>7. LeftEmpty'
  <2>1. AllReturned' = AllReturned
    BY <1>2 DEF AllReturned
  <2> QED
    BY <1>1, <1>2, <2>1, StepNames DEF LeftEmpty, Dedupes
<1>8. CreditsConserved'
  BY <1>2, Balanced
<1> QED
  BY <1>3, <1>4, <1>5, <1>6, <1>7, <1>8 DEF Inv

\* What does not concern the accounts that are consolidated into.
LEMMA ReachedStays ==
    ASSUME Inv, UNCHANGED <<st, hard, virtual, accounts, reps>>,
           \A x \in Sides : \/ pend'[TransferOf(x)] = pend[TransferOf(x)]
                            \/ \A k \in Nat : ToldOf(x, k)' <=> ToldOf(x, k)
    PROVE  Reached'
<1>1. Sound' = Sound
  BY SameStates
<1>2. \A x \in Sides : \A k \in Nat : ToldOf(x, k)' <=> ToldOf(x, k)
  BY DEF ToldOf
<1> QED
  BY <1>1, <1>2, ReachedFrame DEF Inv

\* FromSource takes an empty account and fills it from the source.
LEMMA FromSourceStep ==
    ASSUME Inv, FromSource
    PROVE  Inv'
<1> DEFINE enough == funds >= SourceAmount
           out == IF enough THEN <<Send("full", Account(SourceAmount))>> ELSE <<>>
<1>0. /\ "empties" \in Senders("empty") /\ Ready("source")
      /\ funds' = (IF enough THEN funds - SourceAmount ELSE funds)
      /\ pend' = [pend EXCEPT !["empties"] = Empties, !["source"] = out]
      /\ UNCHANGED <<ctxVars, paying, batchVars, flowVars, sideVars, reps, outerVars>>
  BY DEF FromSource
<1> HIDE DEF out
<1>1. UNCHANGED <<st, graceful, hard, paying, credits, used, serving, reqsSeen, signalSeen, virtual, accounts, reps,
                  caller, holds, wg, spent, closer, faults, mayHard>>
  BY <1>0 DEF ctxVars, batchVars, flowVars, sideVars, outerVars, callerVars
<1>2. Slots /\ "empties" \in Steps /\ "source" \in Steps /\ Running("empties") /\ Running("source")
      /\ pend["source"] = <<>> /\ pend["empties"] # <<>>
  BY <1>0, StepNames DEF Inv, Senders, Ready
<1>3. Rewires({"empties", "source"}) /\ pend'["empties"] = Empties /\ pend'["source"] = out
  BY <1>0, <1>2 DEF Rewires, Slots
<1>4. Fits("empties", Empties) /\ Load(Empties) = 0
  <2>1. InHands(Account(0)) = 0
    BY Worths
  <2>2. Load(<<Send("empty", Account(0))>>) = 0
    BY <2>1, Loads
  <2> QED
    BY <2>2, <1>2, FitsOne, Loads DEF Empties
<1>5. Fits("source", out) /\ Load(out) = (IF enough THEN SourceAmount ELSE 0)
  <2>1. InHands(Account(SourceAmount)) = SourceAmount /\ SourceAmount \in Nat
    BY Worths, WalletAssumption
  <2>2. Load(<<Send("full", Account(SourceAmount))>>) = SourceAmount
    BY <2>1, Loads
  <2> QED
    BY <2>2, <1>2, FitsOne, Loads DEF out
<1>6. Slots'
  BY <1>1, <1>2, <1>3, <1>4, <1>5, SlotsStep
<1>7. Carried' = Carried + (IF enough THEN SourceAmount ELSE 0)
  <2>1. /\ Carried' = Carried - Load(pend["empties"]) - Load(pend["source"]) + Load(Empties) + Load(out)
        /\ Carried \in Nat
    BY <1>2, <1>3, <1>6, CarriedTwo
  <2>2. Load(pend["source"]) = 0
    BY <1>2, Loads
  <2>3. Load(pend["empties"]) = 0
    <3>1. Offer("empties") = Account(0) /\ Tail(pend["empties"]) = <<>>
      BY <1>2, Heads
    <3>2. Load(pend["empties"]) = InHands(Offer("empties")) + Load(Tail(pend["empties"]))
      BY <1>2, LoadHead
    <3>3. InHands(Offer("empties")) = 0 /\ Load(Tail(pend["empties"])) = 0
      BY <3>1, Worths, Loads, Zenon
    <3> QED
      BY <3>2, <3>3
  <2> QED
    BY <1>4, <1>5, <2>1, <2>2, <2>3, WalletAssumption
<1>8. pend'["requests"] = pend["requests"] /\ pend'["pay"] = pend["pay"] /\ pend'["route"] = pend["route"]
      /\ pend'["split"] = pend["split"] /\ pend'["dedupeBatches"] = pend["dedupeBatches"]
      /\ pend'["consolidateA"] = pend["consolidateA"] /\ pend'["consolidateR"] = pend["consolidateR"]
  BY <1>3, StepNames DEF Rewires
<1>9. Reached'
  BY <1>1, <1>8, ReachedStays DEF TransferOf
<1>10. Counted'
  BY <1>1, CountedFrame DEF Inv
<1>11. funds' \in Nat /\ spent' \in Nat /\ funds' = funds - (IF enough THEN SourceAmount ELSE 0)
  BY <1>0, <1>1, WalletAssumption DEF Inv
<1>12. Total' = Total
  <2>1. /\ InJobs' = InJobs /\ InBatches' = InBatches /\ InCallers' = InCallers /\ spent' = spent
        /\ InAccounts("A")' = InAccounts("A") /\ InAccounts("R")' = InAccounts("R")
    BY <1>1, LedgerFrame DEF Sides
  <2> DEFINE n == IF enough THEN SourceAmount ELSE 0
  <2>2. n \in Nat /\ funds' = funds - n /\ Carried' = Carried + n
    BY <1>7, <1>11, WalletAssumption
  <2> HIDE DEF n
  <2> QED
    BY <2>1, <2>2, LedgerNat DEF Total
<1>13. \A b \in Batches : (InSplit(b)' <=> InSplit(b)) /\ (Passed(b)' <=> Passed(b))
  BY <1>8 DEF InSplit, Passed
<1>14. reps' = [d \in Dedupes |-> reps'[d]]
  BY <1>1 DEF Inv, ServingFits
<1> QED
  BY <1>1, <1>6, <1>8, <1>9, <1>10, <1>11, <1>12, <1>13, <1>14, MoneyStep

\* A step other than the payments that has one message has nothing else.
LEMMA WholeMessage ==
    ASSUME Slots, NEW c, NEW w \in Senders(c), w # "pay", Tail(pend[w]) = <<>>
    PROVE  pend[w] = <<Send(c, Offer(w))>>
<1> DEFINE q == pend[w]
<1>1. w \in Steps /\ q # <<>> /\ Head(q).ch = c /\ Offer(w) = Head(q).val
  BY DEF Senders, Offer
<1>2. Fits(w, q) /\ Tail(q) = <<>>
  BY <1>1 DEF Slots
<1> HIDE DEF q
<1>3. ASSUME NEW d, NEW V, One(q, d, V) PROVE q = <<Send(c, Head(q).val)>>
  BY <1>1, <1>3, OneTaken
<1>4. \A v, t : q = <<Send("toConsolidate", v), Send("batches", t)>> => Tail(q) = <<Send("batches", t)>>
  BY TwoMessages
<1>5. \A t : <<Send("batches", t)>> # <<>>
  OBVIOUS
<1>6. CASE w = "split"
  <2>1. \/ One(q, "toConsolidate", Accounts) \/ One(q, "batches", Tokens)
        \/ \E v \in Accounts, t \in Tokens : q = <<Send("toConsolidate", v), Send("batches", t)>>
    BY <1>2, <1>6 DEF Fits
  <2> QED
    BY <1>1, <1>2, <1>3, <1>4, <1>5, <2>1 DEF q
<1>7. CASE w # "split"
  <2>1. \E d, V : One(q, d, V)
    BY <1>1, <1>2, <1>7, StepNames DEF Fits
  <2> QED
    BY <1>1, <1>3, <2>1 DEF q
<1> QED
  BY <1>6, <1>7

\* An account tells nothing.
LEMMA AccountTells ==
    \A v \in Accounts : /\ v.kind # "done" /\ v.kind = "account" /\ v.amount \in Nat /\ v = Account(v.amount)
                        /\ \A b : v # Batch(b)
<1>1. \A v \in Accounts : v.kind = "account" /\ v.amount \in Nat /\ v = Account(v.amount)
  BY DEF Accounts, Account
<1>2. \A b : Batch(b).kind = "batch"
  BY DEF Batch
<1> QED
  BY <1>1, <1>2

\* Any number makes an account.
LEMMA MakeAccount == \A n \in Nat : Account(n) \in Accounts /\ Account(n).amount = n
  BY DEF Account, Accounts

\* RouteAccounts passes an account on.
LEMMA RouteStep ==
    ASSUME Inv, NEW w \in Senders("provide") \cup Senders("full"), Route(w)
    PROVE  Inv'
<1> DEFINE c == IF signalSeen \/ Offer(w).amount < SourceAmount THEN "toSource" ELSE "withdrawable"
           out == <<Send(c, Offer(w))>>
<1>0. Ready("route") /\ Move(w, "route", out) /\ UNCHANGED <<ctxVars, storeVars, outerVars>>
  BY DEF Route
<1>1. UNCHANGED <<st, graceful, hard, paying, funds, credits, used, serving, reqsSeen, signalSeen, virtual, accounts, reps,
                  caller, holds, wg, spent, closer, faults, mayHard>>
  BY <1>0 DEF ctxVars, storeVars, batchVars, flowVars, sideVars, outerVars, callerVars
<1>2. Slots /\ "route" \in Steps /\ w \in Steps /\ Running(w) /\ pend[w] # <<>>
  BY StepNames DEF Inv, Senders
<1>3. Offer(w) \in Accounts /\ Tail(pend[w]) = <<>> /\ w \in {"source", "consolidateA", "dedupeA", "dedupeR"}
  <2>1. CASE w \in Senders("full")
    <3>1. w = "source" /\ Offer(w) = Account(SourceAmount) /\ Tail(pend[w]) = <<>>
      BY <1>2, <2>1, SentAccounts
    <3>2. Account(SourceAmount) \in Accounts
      BY WalletAssumption, MakeAccount
    <3> QED
      BY <3>1, <3>2
  <2>2. CASE w \in Senders("provide")
    BY <1>2, <2>2, SentAccounts
  <2> QED
    BY <2>1, <2>2
<1>4. Fits("route", out) /\ Fits(w, Tail(pend[w]))
  <2>1. c \in {"toSource", "withdrawable"}
    OBVIOUS
  <2> HIDE DEF c
  <2> QED
    BY <1>2, <1>3, <2>1, FitsOne, TailFits
<1>5. Load(out) = InHands(Offer(w)) /\ InHands(Offer(w)) \in Nat
  BY <1>3, Loads, Worths
<1> HIDE DEF out
<1>6. /\ Slots' /\ w # "route" /\ Rewires({w, "route"}) /\ pend'[w] = Tail(pend[w]) /\ pend'["route"] = out
      /\ Carried' = Carried - InHands(Offer(w)) + Load(out)
      /\ Carried \in Nat /\ Carried' \in Nat
  BY <1>0, <1>1, <1>2, <1>4, MoveStep DEF ctxVars
<1>7. Carried' = Carried
  BY <1>5, <1>6
<1>8. pend'["requests"] = pend["requests"] /\ pend'["pay"] = pend["pay"]
      /\ pend'["split"] = pend["split"] /\ pend'["dedupeBatches"] = pend["dedupeBatches"]
      /\ pend'["consolidateR"] = pend["consolidateR"]
  BY <1>3, <1>6, StepNames DEF Rewires
<1>9. Reached'
  <2>1. CASE w # "consolidateA"
    <3>1. pend'["consolidateA"] = pend["consolidateA"]
      BY <2>1, <1>3, <1>6, StepNames DEF Rewires
    <3> QED
      BY <1>1, <1>8, <3>1, ReachedStays DEF TransferOf
  <2>2. CASE w = "consolidateA"
    <3>1. \E d : pend[w] = <<Send(d, Offer(w))>>
      BY <1>2, <1>3, <2>2, WholeMessage
    <3>2. \A k : ~Tells(pend[w], k) /\ ~Tells(pend'[w], k)
      BY <1>3, <1>6, <3>1, AccountTells, Tidings
    <3>3. \A k : ToldOf("A", k)' <=> ToldOf("A", k)
      BY <2>2, <3>2 DEF ToldOf, TransferOf
    <3>4. pend'[TransferOf("R")] = pend[TransferOf("R")]
      BY <1>8 DEF TransferOf
    <3> QED
      BY <1>1, <3>3, <3>4, ReachedStays DEF Sides
  <2> QED
    BY <2>1, <2>2
<1>10. Counted'
  BY <1>1, CountedFrame DEF Inv
<1>11. funds' \in Nat /\ spent' \in Nat
  BY <1>1 DEF Inv
<1>12. Total' = Total
  <2>1. /\ InJobs' = InJobs /\ InBatches' = InBatches /\ InCallers' = InCallers /\ spent' = spent /\ funds' = funds
        /\ InAccounts("A")' = InAccounts("A") /\ InAccounts("R")' = InAccounts("R")
    BY <1>1, LedgerFrame DEF Sides
  <2> QED
    BY <1>7, <2>1 DEF Total
<1>13. \A b \in Batches : (InSplit(b)' <=> InSplit(b)) /\ (Passed(b)' <=> Passed(b))
  BY <1>8 DEF InSplit, Passed
<1>14. reps' = [d \in Dedupes |-> reps'[d]]
  BY <1>1 DEF Inv, ServingFits
<1>15. signalSeen => \A v : pend'["route"] # <<Send("withdrawable", v)>>
  <2>1. signalSeen => Head(out).ch = "toSource"
    BY SingleMessage DEF out
  <2>2. \A v : Head(<<Send("withdrawable", v)>>).ch = "withdrawable"
    BY SingleMessage
  <2> QED
    BY <1>6, <2>1, <2>2
<1> QED
  BY <1>1, <1>6, <1>8, <1>9, <1>10, <1>11, <1>12, <1>13, <1>14, <1>15, MoneyStep
-----------------------------------------------------------------------------
(* Consolidation *)

\* What one more or one emptied account does to their sum.
LEMMA AccountSums ==
    ASSUME NEW a \in Seq(Nat)
    PROVE  /\ \A k \in DOMAIN a, n \in Nat :
                 /\ [a EXCEPT ![k] = n] \in Seq(Nat) /\ DOMAIN [a EXCEPT ![k] = n] = DOMAIN a
                 /\ Sum([a EXCEPT ![k] = n], DOMAIN a) = Sum(a, DOMAIN a) - a[k] + n
           /\ Sum(Append(a, 0), DOMAIN Append(a, 0)) = Sum(a, DOMAIN a)
           /\ Append(a, 0) \in Seq(Nat) /\ DOMAIN a \subseteq DOMAIN Append(a, 0)
           /\ \A i \in DOMAIN Append(a, 0) : Append(a, 0)[i] > 0 => i \in DOMAIN a /\ a[i] = Append(a, 0)[i]
           /\ Sum(a, DOMAIN a) \in Nat
<1>0. DOMAIN a = 1 .. Len(a) /\ Len(a) \in Nat /\ IsFiniteSet(DOMAIN a) /\ a \in [DOMAIN a -> Nat]
  <2>1. DOMAIN a = 1 .. Len(a) /\ Len(a) \in Nat /\ a \in [DOMAIN a -> Nat]
    OBVIOUS
  <2>2. IsFiniteSet(1 .. Len(a))
    BY <2>1, FS_Interval
  <2> QED
    BY <2>1, <2>2
<1>1. ASSUME NEW k \in DOMAIN a, NEW n \in Nat
      PROVE  /\ [a EXCEPT ![k] = n] \in Seq(Nat) /\ DOMAIN [a EXCEPT ![k] = n] = DOMAIN a
             /\ Sum([a EXCEPT ![k] = n], DOMAIN a) = Sum(a, DOMAIN a) - a[k] + n
  <2> DEFINE g == [a EXCEPT ![k] = n]
  <2>1. g \in Seq(Nat) /\ DOMAIN g = DOMAIN a
    OBVIOUS
  <2>2. g \in [DOMAIN a -> Nat] /\ g[k] = n /\ \A i \in DOMAIN a \ {k} : a[i] = g[i]
    BY <1>0
  <2> HIDE DEF g
  <2>3. Sum(g, DOMAIN a) = Sum(a, DOMAIN a) - a[k] + g[k]
    BY <1>0, <2>2, SumChange
  <2>4. Sum(g, DOMAIN a) = Sum(a, DOMAIN a) - a[k] + n
    BY <2>2, <2>3
  <2> QED
    BY <2>1, <2>4, Zenon DEF g
<1> DEFINE e == Append(a, 0)
           m == Len(a) + 1
<1>2. /\ e \in Seq(Nat) /\ Len(e) = m /\ e[m] = 0
      /\ \A i \in 1 .. Len(a) : e[i] = a[i]
  BY AppendProperties
<1>3. DOMAIN e = (DOMAIN a) \cup {m} /\ m \notin DOMAIN a
  BY <1>0, <1>2
<1>4. Sum(a, DOMAIN a) \in Nat
  BY <1>0, UnitsFinite
<1>5. \A i \in DOMAIN a : e[i] = a[i] /\ e[i] \in Nat
  BY <1>0, <1>2
<1> HIDE DEF e, m
<1>6. Sum(e, (DOMAIN a) \cup {m}) = Sum(e, DOMAIN a) + e[m]
  <2> DEFINE D == DOMAIN a
  <2>1. IsFiniteSet(D) /\ (\A i \in D : e[i] \in Nat) /\ m \notin D /\ e[m] \in Nat
    BY <1>0, <1>2, <1>3, <1>5
  <2> HIDE DEF D
  <2>2. Sum(e, D \cup {m}) = Sum(e, D) + e[m]
    BY <2>1, SumAdd
  <2> QED
    BY <2>2 DEF D
<1>7. Sum(e, DOMAIN a) = Sum(a, DOMAIN a)
  BY <1>5, SumSame
<1>8. Sum(e, DOMAIN e) = Sum(e, (DOMAIN a) \cup {m})
  BY <1>3, Zenon
<1>9. Sum(e, DOMAIN e) = Sum(a, DOMAIN a)
  BY <1>2, <1>4, <1>6, <1>7, <1>8
<1>10. \A i \in DOMAIN e : e[i] > 0 => i \in DOMAIN a /\ a[i] = e[i]
  BY <1>2, <1>3, <1>5
<1> QED
  BY <1>1, <1>2, <1>3, <1>4, <1>9, <1>10 DEF e

\* A deposit goes into the last account, which the dedupe step is told of.
LEMMA DepositEffect ==
    ASSUME Reached, NEW x \in Sides, NEW v, Balance(v) \in Nat, Deposit(x, v)
    PROVE  /\ virtual' \in [Sides -> Nat] /\ accounts' \in [Sides -> Seq(Nat)]
           /\ Len(accounts[x]) \in DOMAIN accounts[x] /\ Len(accounts[x]) \in Nat
           /\ DOMAIN accounts[x] \subseteq DOMAIN accounts'[x] /\ accounts'[x] # <<>>
           /\ \A i \in DOMAIN accounts'[x] : accounts'[x][i] > 0 =>
                 i = Len(accounts[x]) \/ (i \in DOMAIN accounts[x] /\ accounts[x][i] > 0)
           /\ InAccounts(x)' = InAccounts(x) + Balance(v)
           /\ \A y \in Sides \ {x} : accounts'[y] = accounts[y] /\ InAccounts(y)' = InAccounts(y)
           /\ Emptied(v)
<1> DEFINE a == accounts[x]
           k == Len(a)
           n == a[k] + Balance(v)
           filled == [a EXCEPT ![k] = n]
           new == IF Fills(x, v) THEN Append(filled, 0) ELSE filled
<1>1. a \in Seq(Nat) /\ a # <<>> /\ virtual \in [Sides -> Nat] /\ accounts \in [Sides -> Seq(Nat)]
  BY DEF Reached
<1>2. k \in DOMAIN a /\ k \in Nat /\ n \in Nat /\ a[k] \in Nat
  BY <1>1
<1>3. /\ virtual' = [virtual EXCEPT ![x] = IF Fills(x, v) THEN 0 ELSE @ + Balance(v)]
      /\ accounts' = [accounts EXCEPT ![x] = new]
      /\ Emptied(v)
  BY DEF Deposit
<1>4. /\ filled \in Seq(Nat) /\ DOMAIN filled = DOMAIN a
      /\ Sum(filled, DOMAIN a) = Sum(a, DOMAIN a) - a[k] + n
      /\ \A i \in DOMAIN a : i # k => filled[i] = a[i]
  <2>1. a \in Seq(Nat) /\ k \in DOMAIN a /\ n \in Nat
    BY <1>1, <1>2
  <2>2. \A i \in DOMAIN a : i # k => filled[i] = a[i]
    OBVIOUS
  <2> HIDE DEF a, k, n
  <2>3. /\ filled \in Seq(Nat) /\ DOMAIN filled = DOMAIN a
        /\ Sum(filled, DOMAIN a) = Sum(a, DOMAIN a) - a[k] + n
    BY <2>1, AccountSums
  <2> QED
    BY <2>2, <2>3
<1>5. Sum(a, DOMAIN a) \in Nat
  BY <1>1, AccountSums
<1>6. Sum(filled, DOMAIN filled) = Sum(a, DOMAIN a) + Balance(v)
  <2>1. Sum(filled, DOMAIN filled) = Sum(filled, DOMAIN a)
    BY <1>4, Zenon
  <2>2. n = a[k] + Balance(v)
    OBVIOUS
  <2> HIDE DEF filled, a, n, k
  <2> QED
    BY <1>2, <1>4, <1>5, <2>1, <2>2
<1> HIDE DEF filled
<1>7. /\ new \in Seq(Nat) /\ DOMAIN a \subseteq DOMAIN new
      /\ Sum(new, DOMAIN new) = Sum(a, DOMAIN a) + Balance(v)
      /\ \A i \in DOMAIN new : new[i] > 0 => i \in DOMAIN filled /\ new[i] = filled[i]
  BY <1>4, <1>6, AccountSums
<1> HIDE DEF new
<1>8. accounts'[x] = new /\ accounts' \in [Sides -> Seq(Nat)] /\ \A y \in Sides \ {x} : accounts'[y] = accounts[y]
  BY <1>1, <1>3, <1>7
<1>9. virtual' \in [Sides -> Nat]
  BY <1>1, <1>3
<1>10. InAccounts(x)' = InAccounts(x) + Balance(v)
  BY <1>7, <1>8 DEF InAccounts
<1>11. \A y \in Sides \ {x} : InAccounts(y)' = InAccounts(y)
  BY <1>8 DEF InAccounts
<1>12. \A i \in DOMAIN new : new[i] > 0 => i = k \/ (i \in DOMAIN a /\ a[i] > 0)
  BY <1>4, <1>7
<1>13. new # <<>>
  BY <1>2, <1>7
<1> QED
  BY <1>2, <1>3, <1>7, <1>8, <1>9, <1>10, <1>11, <1>12, <1>13

\* The message about a deposit.
LEMMA DoneMessage ==
    ASSUME Reached, NEW x \in Sides, NEW v
    PROVE  LET d == [kind |-> "done", to |-> Len(accounts[x]), last |-> Fills(x, v)]
           IN  /\ d \in Dones /\ DoneWith(x, v) = <<Send(DoneOf(x), d)>>
               /\ Fits(TransferOf(x), DoneWith(x, v)) /\ Load(DoneWith(x, v)) = 0
               /\ \A k : Tells(DoneWith(x, v), k) <=> k = Len(accounts[x])
<1> DEFINE d == [kind |-> "done", to |-> Len(accounts[x]), last |-> Fills(x, v)]
<1>1. accounts[x] \in Seq(Nat)
  BY DEF Reached
<1>2. d \in Dones
  BY <1>1 DEF Dones, Fills
<1>3. DoneWith(x, v) = <<Send(DoneOf(x), d)>>
  BY DEF DoneWith
<1>4. d.kind = "done" /\ d.to = Len(accounts[x])
  OBVIOUS
<1> HIDE DEF d
<1>5. Fits(TransferOf(x), DoneWith(x, v))
  <2>1. Fits("consolidateA", <<Send("doneA", d)>>) /\ Fits("consolidateR", <<Send("doneR", d)>>)
    BY <1>2, FitsOne
  <2> QED
    BY <1>3, <2>1 DEF TransferOf, DoneOf, Sides
<1>6. Load(DoneWith(x, v)) = 0
  BY <1>2, <1>3, Loads, Worths
<1>7. \A k : Tells(DoneWith(x, v), k) <=> k = Len(accounts[x])
  BY <1>3, <1>4, Tidings
<1> QED
  BY <1>2, <1>3, <1>5, <1>6, <1>7 DEF d

\* After a deposit, the dedupe step is about to be told of it.
LEMMA ReachedDeposit ==
    ASSUME Inv, NEW x \in Sides, NEW v, Balance(v) \in Nat, Deposit(x, v), UNCHANGED <<st, hard, reps>>,
           pend[TransferOf(x)] = <<>>, pend'[TransferOf(x)] = DoneWith(x, v),
           \A y \in Sides \ {x} : pend'[TransferOf(y)] = pend[TransferOf(y)]
    PROVE  Reached'
<1> DEFINE k == Len(accounts[x])
<1>0. Reached
  BY DEF Inv
<1>1. /\ virtual' \in [Sides -> Nat] /\ accounts' \in [Sides -> Seq(Nat)]
      /\ k \in DOMAIN accounts[x] /\ k \in Nat
      /\ DOMAIN accounts[x] \subseteq DOMAIN accounts'[x] /\ accounts'[x] # <<>>
      /\ \A i \in DOMAIN accounts'[x] : accounts'[x][i] > 0 =>
            i = k \/ (i \in DOMAIN accounts[x] /\ accounts[x][i] > 0)
      /\ \A y \in Sides \ {x} : accounts'[y] = accounts[y]
  BY <1>0, DepositEffect
<1>2. Sound' = Sound
  BY SameStates
<1>3. \A i : ~ToldOf(x, i) /\ (ToldOf(x, i)' <=> i = k)
  <2>1. \A i : Tells(DoneWith(x, v), i) <=> i = Len(accounts[x])
    BY <1>0, DoneMessage
  <2>2. \A i : ~Tells(<<>>, i)
    BY Tidings
  <2> QED
    BY <2>1, <2>2 DEF ToldOf
<1>4. \A y \in Sides \ {x} : \A i : ToldOf(y, i)' <=> ToldOf(y, i)
  BY DEF ToldOf
<1> HIDE DEF k
<1>5. ASSUME NEW y \in Sides
      PROVE  /\ accounts'[y] # <<>>
             /\ DOMAIN reps'[DedupeOf(y)] \subseteq DOMAIN accounts'[y]
             /\ \A i \in Nat : ToldOf(y, i)' => i \in DOMAIN accounts'[y]
             /\ Sound' => \A i \in DOMAIN accounts'[y] :
                   accounts'[y][i] > 0 => i \in DOMAIN reps'[DedupeOf(y)] \/ ToldOf(y, i)'
  <2>0. /\ accounts[y] # <<>>
        /\ DOMAIN reps[DedupeOf(y)] \subseteq DOMAIN accounts[y]
        /\ \A i \in Nat : ToldOf(y, i) => i \in DOMAIN accounts[y]
        /\ Sound => \A i \in DOMAIN accounts[y] :
              accounts[y][i] > 0 => i \in DOMAIN reps[DedupeOf(y)] \/ ToldOf(y, i)
    BY <1>0 DEF Reached
  <2>1. CASE y = x
    BY <1>1, <1>2, <1>3, <2>0, <2>1
  <2>2. CASE y # x
    BY <1>1, <1>2, <1>4, <2>0, <2>2
  <2> QED
    BY <2>1, <2>2
<1> QED
  BY <1>1, <1>5 DEF Reached

\* A step in which no step of the pipeline returns.
LEMMA PipeStep ==
    ASSUME Inv, Slots', JobsFit', ServingFits', Unique', Repetitions', Apart', Counted', Reached',
           UNCHANGED <<st, graceful, hard, signalSeen, closer, mayHard, faults>>, reqsSeen' \in BOOLEAN,
           pend'["route"] = pend["route"] \/ \A v : pend'["route"] # <<Send("withdrawable", v)>>,
           ~Running("requests") => serving' = serving,
           \A d \in Dedupes : ~Running(d) => reps'[d] = reps[d],
           funds' \in Nat, spent' \in Nat, Total' = Total
    PROVE  Inv'
<1>1. Order /\ LeftEmpty
  BY DEF Inv
<1>2. Sound' = Sound /\ \A s : Running(s)' = Running(s)
  BY SameStates DEF Running
<1>3. Order'
  <2>1. AllReturned' = AllReturned
    BY <1>2 DEF AllReturned
  <2>2. signalSeen => \A v \in Accounts : pend'["route"] # <<Send("withdrawable", v)>>
    BY <1>1 DEF Order
  <2> QED
    BY <1>1, <1>2, <2>1, <2>2 DEF Order
<1>4. LeftEmpty'
  <2>1. AllReturned' = AllReturned
    BY <1>2 DEF AllReturned
  <2> QED
    BY <1>1, <1>2, <2>1 DEF LeftEmpty
<1>5. CreditsConserved'
  BY <1>2, Balanced
<1> QED
  BY <1>3, <1>4, <1>5 DEF Inv

\* Different batches are different values.
LEMMA BatchNames ==
    /\ \A b, c : Batch(b) = Batch(c) => b = c
    /\ \A b : Batch(b).batch = b /\ Batch(b).kind = "batch"
  BY DEF Batch

\* What the batches are worth when the credits of one change.
LEMMA CreditsChange ==
    ASSUME ServingFits, NEW b \in Batches, NEW n \in Nat, credits' = [credits EXCEPT ![b] = n]
    PROVE  /\ credits' \in [Batches -> Nat] /\ credits'[b] = n
           /\ \A c \in Batches \ {b} : credits'[c] = credits[c]
           /\ InBatches' = InBatches - credits[b] * PrefetchAmount + n * PrefetchAmount
           /\ credits[b] \in Nat /\ credits[b] * PrefetchAmount \in Nat /\ n * PrefetchAmount \in Nat
<1> DEFINE f == [c \in Batches |-> credits[c] * PrefetchAmount]
           g == [c \in Batches |-> credits'[c] * PrefetchAmount]
<1>1. credits \in [Batches -> Nat] /\ PrefetchAmount \in Nat
  BY WalletAssumption DEF ServingFits
<1>2. credits' \in [Batches -> Nat] /\ credits'[b] = n /\ \A c \in Batches \ {b} : credits'[c] = credits[c]
  BY <1>1
<1>3. \A c \in Batches : credits[c] * PrefetchAmount \in Nat /\ credits'[c] * PrefetchAmount \in Nat
  BY <1>1, <1>2
<1>4. f \in [Batches -> Nat] /\ g \in [Batches -> Nat]
  BY <1>3
<1>5. \A c \in Batches \ {b} : f[c] = g[c]
  BY <1>2
<1>6. f[b] = credits[b] * PrefetchAmount /\ g[b] = n * PrefetchAmount
  BY <1>2
<1>7. InBatches = Sum(f, Batches) /\ InBatches' = Sum(g, Batches)
  BY DEF InBatches
<1> HIDE DEF f, g
<1>8. Sum(g, Batches) = Sum(f, Batches) - f[b] + g[b]
  BY <1>4, <1>5, WalletAssumption, SumChange
<1>9. InBatches' = InBatches - credits[b] * PrefetchAmount + n * PrefetchAmount
  BY <1>6, <1>7, <1>8
<1> QED
  BY <1>1, <1>2, <1>3, <1>6, <1>9

\* A batch that was passed on is emptied and gone.
LEMMA BatchEmptied ==
    ASSUME Inv, NEW b \in Batches, pend["dedupeBatches"] = <<Send("batchesToConsolidate", Batch(b))>>,
           pend'["dedupeBatches"] = <<>>, pend'["requests"] = pend["requests"], pend'["pay"] = pend["pay"],
           pend'["split"] = pend["split"], UNCHANGED <<st, hard, paying, serving, reps>>, Emptied(Batch(b))
    PROVE  /\ ServingFits' /\ Unique' /\ Repetitions' /\ Apart'
           /\ InBatches' = InBatches - Balance(Batch(b)) /\ Balance(Batch(b)) \in Nat
<1>1. ServingFits /\ Unique /\ Repetitions /\ Apart
  BY DEF Inv
<1>2. used' = used \ {b} /\ credits' = [credits EXCEPT ![b] = 0]
  BY BatchNames DEF Emptied
<1>3. /\ credits' \in [Batches -> Nat] /\ credits'[b] = 0
      /\ \A c \in Batches \ {b} : credits'[c] = credits[c]
      /\ InBatches' = InBatches - credits[b] * PrefetchAmount + 0 * PrefetchAmount
      /\ credits[b] \in Nat /\ credits[b] * PrefetchAmount \in Nat
  BY <1>1, <1>2, CreditsChange
<1>4. ServingFits'
  BY <1>1, <1>2, <1>3 DEF ServingFits, Groups
<1>5. \A c : (Passed(c) <=> c = b) /\ ~Passed(c)'
  BY Tidings, BatchNames DEF Passed
<1>6. \A c : InSplit(c)' <=> InSplit(c)
  BY DEF InSplit
<1>7. \A r : (AtRequests(r)' <=> AtRequests(r)) /\ (AtJob(r)' <=> AtJob(r)) /\ (AtPay(r)' <=> AtPay(r))
  BY DEF AtRequests, AtJob, AtPay
<1>8. Unique'
  BY <1>1, <1>7 DEF Unique
<1>9. \A r : Flying(r)' <=> Flying(r)
  BY <1>7 DEF Flying
<1>10. Groups' = Groups
  BY DEF Groups
<1>11. Repetitions'
  BY <1>1, <1>9, <1>10 DEF Repetitions
<1>12. \A c \in Batches : InService(c)' <=> InService(c)
  BY <1>9, <1>10 DEF InService
<1>13. Sound' = Sound
  BY SameStates
<1>14. Apart'
  BY <1>1, <1>2, <1>3, <1>5, <1>6, <1>12, <1>13 DEF Apart
<1>15. Balance(Batch(b)) = credits[b] * PrefetchAmount
  BY BatchNames DEF Balance
<1>16. 0 * PrefetchAmount = 0
  BY WalletAssumption
<1>17. InBatches' = InBatches - Balance(Batch(b))
  BY <1>3, <1>15, <1>16, LedgerNat
<1> QED
  BY <1>3, <1>4, <1>8, <1>11, <1>14, <1>15, <1>17

\* The account that leaves the split is no batch.
LEMMA SplitTail ==
    ASSUME Slots, "split" \in Senders("toConsolidate")
    PROVE  \A b : Names(Tail(pend["split"]), b) <=> Names(pend["split"], b)
<1> DEFINE q == pend["split"]
<1>1. q # <<>> /\ Head(q).ch = "toConsolidate"
  BY DEF Senders
<1>2. \/ One(q, "toConsolidate", Accounts) \/ One(q, "batches", Tokens)
      \/ \E v \in Accounts, t \in Tokens : q = <<Send("toConsolidate", v), Send("batches", t)>>
  BY StepNames DEF Slots, Fits
<1> HIDE DEF q
<1>3. CASE One(q, "toConsolidate", Accounts)
  <2>1. PICK v \in Accounts : q = <<Send("toConsolidate", v)>>
    BY <1>1, <1>3 DEF One
  <2>2. \A b : Names(<<Send("toConsolidate", v)>>, b) <=> v = Batch(b)
    BY Tidings
  <2>3. \A b : ~Names(q, b)
    BY <2>1, <2>2, AccountTells, Zenon
  <2>4. Tail(q) = <<>> /\ \A b : ~Names(<<>>, b)
    BY <1>1, <1>3, OneTaken, Tidings
  <2> QED
    BY <2>3, <2>4 DEF q
<1>4. CASE One(q, "batches", Tokens)
  BY <1>1, <1>4, OneTaken
<1>5. ASSUME NEW v \in Accounts, NEW t \in Tokens, q = <<Send("toConsolidate", v), Send("batches", t)>>
      PROVE  \A b : Names(Tail(q), b) <=> Names(q, b)
  <2>1. Tail(q) = <<Send("batches", t)>>
    BY <1>5, TwoMessages
  <2>2. /\ \A b : Names(<<Send("batches", t)>>, b) <=> t = Batch(b)
        /\ \A b : Names(<<Send("toConsolidate", v), Send("batches", t)>>, b) <=> v = Batch(b) \/ t = Batch(b)
    BY Tidings
  <2>3. /\ \A b : Names(Tail(q), b) <=> t = Batch(b)
        /\ \A b : Names(q, b) <=> v = Batch(b) \/ t = Batch(b)
    BY <1>5, <2>1, <2>2, Zenon
  <2> QED
    BY <2>3, AccountTells
<1> QED
  BY <1>2, <1>3, <1>4, <1>5 DEF q

\* ConsolidateResults takes what a caller returns.
LEMMA TakeResultStep ==
    ASSUME Inv, NEW c \in Callers, TakeResult(c)
    PROVE  Inv'
<1> DEFINE v == Result(holds[c])
           out == DoneWith("R", v)
<1>0. /\ caller[c] = "returning" /\ ~Inputs /\ Ready("consolidateR")
      /\ Emit("consolidateR", out) /\ Deposit("R", v)
      /\ caller' = [caller EXCEPT ![c] = "done"] /\ holds' = [holds EXCEPT ![c] = 0] /\ wg' = wg - 1
      /\ UNCHANGED <<ctxVars, paying, funds, flowVars, reps, spent, closer, faults, mayHard>>
  BY DEF TakeResult
<1>1. UNCHANGED <<st, graceful, hard, paying, funds, serving, reqsSeen, signalSeen, reps,
                  spent, closer, faults, mayHard>>
  BY <1>0 DEF ctxVars, flowVars
<1>2. /\ Slots /\ "consolidateR" \in Steps /\ Counted /\ Reached /\ holds[c] \in Nat /\ "R" \in Sides
      /\ pend["consolidateR"] = <<>>
  BY <1>0, StepNames DEF Inv, Counted, Sides, Ready
<1>3. Balance(v) = holds[c] /\ (Emptied(v) => UNCHANGED <<credits, used>>)
  BY DEF Balance, Result, Emptied, batchVars
<1> HIDE DEF v
<1>4. \E d \in Dones : out = <<Send("doneR", d)>>
  BY <1>2, DoneMessage DEF DoneOf
<1>5. Fits("consolidateR", out) /\ Load(out) = 0
  BY <1>2, DoneMessage DEF TransferOf
<1>6. /\ InAccounts("R")' = InAccounts("R") + holds[c] /\ InAccounts("A")' = InAccounts("A")
      /\ UNCHANGED <<credits, used>>
  <2>1. Balance(v) \in Nat
    BY <1>2, <1>3
  <2>2. /\ InAccounts("R")' = InAccounts("R") + Balance(v)
        /\ \A y \in Sides \ {"R"} : InAccounts(y)' = InAccounts(y)
        /\ Emptied(v)
    BY <1>0, <1>2, <2>1, DepositEffect
  <2> QED
    BY <1>3, <2>2 DEF Sides
<1> HIDE DEF out
<1>7. /\ Slots' /\ Rewires({"consolidateR"}) /\ pend'["consolidateR"] = out
      /\ Carried' = Carried + Load(out) /\ Carried \in Nat
  BY <1>0, <1>1, <1>2, <1>4, <1>5, EmitStep
<1>8. /\ pend'["requests"] = pend["requests"] /\ pend'["pay"] = pend["pay"] /\ pend'["route"] = pend["route"]
      /\ pend'["split"] = pend["split"] /\ pend'["dedupeBatches"] = pend["dedupeBatches"]
      /\ pend'["consolidateA"] = pend["consolidateA"]
  BY <1>7, StepNames DEF Rewires
<1>9. Reached'
  <2>1. pend[TransferOf("R")] = <<>> /\ pend'[TransferOf("R")] = DoneWith("R", v)
    BY <1>2, <1>7 DEF TransferOf, out
  <2>2. \A y \in Sides \ {"R"} : pend'[TransferOf(y)] = pend[TransferOf(y)]
    BY <1>8 DEF TransferOf, Sides
  <2>3. Balance(v) \in Nat
    BY <1>2, <1>3
  <2> QED
    BY <1>0, <1>1, <1>2, <2>1, <2>2, <2>3, ReachedDeposit
<1>10. /\ holds' \in [Callers -> Nat] /\ holds'[c] = 0 /\ \A d \in Callers \ {c} : holds'[d] = holds[d]
       /\ InCallers' = InCallers - holds[c] + 0
  BY <1>0, <1>2, HoldsChange
<1>11. Counted'
  <2>1. "done" \in CallerPC
    BY DEF CallerPC
  <2> QED
    BY <1>0, <1>1, <1>2, <1>10, <2>1, CallerMoves
<1>12. Total' = Total
  <2>1. InJobs' = InJobs /\ InBatches' = InBatches /\ spent' = spent /\ funds' = funds
    BY <1>1, <1>6, LedgerFrame
  <2>2. Carried' = Carried
    BY <1>5, <1>7
  <2>3. /\ funds \in Nat /\ spent \in Nat /\ Carried \in Nat /\ InJobs \in Nat /\ InBatches \in Nat
        /\ InAccounts("A") \in Nat /\ InAccounts("R") \in Nat /\ InCallers \in Nat
    BY LedgerNat DEF Inv
  <2>4. InAccounts("R")' = InAccounts("R") + holds[c] /\ InAccounts("A")' = InAccounts("A")
    BY <1>6
  <2>5. InCallers' = InCallers - holds[c] /\ holds[c] \in Nat
    BY <1>2, <1>10, <2>3
  <2> QED
    BY <2>1, <2>2, <2>3, <2>4, <2>5 DEF Total
<1>13. \A b \in Batches : (InSplit(b)' <=> InSplit(b)) /\ (Passed(b)' <=> Passed(b))
  BY <1>8 DEF InSplit, Passed
<1>14. reps' = [d \in Dedupes |-> reps'[d]] /\ funds' \in Nat /\ spent' \in Nat
  BY <1>1 DEF Inv, ServingFits
<1> QED
  BY <1>1, <1>6, <1>7, <1>8, <1>9, <1>11, <1>12, <1>13, <1>14, MoneyStep

\* ConsolidateAccounts takes what is left of an account.
LEMMA ConsolidateLow ==
    ASSUME Inv, NEW w \in Senders("toConsolidate"), ConsolidateAccount(w)
    PROVE  Inv'
<1> DEFINE v == Offer(w)
           full == v.amount >= SourceAmount
           out == IF full THEN <<Send("provide", v)>> ELSE DoneWith("A", v)
<1>1. /\ Slots /\ w = "split" /\ v \in Accounts /\ w \in Steps /\ "consolidateA" \in Steps /\ Running(w) /\ pend[w] # <<>>
      /\ "A" \in Sides /\ Reached
  BY StepNames, SentBatches DEF Inv, Senders, Sides
<1>2. v.kind = "account" /\ v.amount \in Nat
  BY <1>1, AccountTells
<1>3. /\ Ready("consolidateA") /\ Move(w, "consolidateA", out)
      /\ IF full THEN UNCHANGED <<batchVars, sideVars>> ELSE Deposit("A", v)
      /\ UNCHANGED <<ctxVars, paying, funds, flowVars, reps, outerVars>>
  BY <1>2 DEF ConsolidateAccount
<1>4. UNCHANGED <<st, graceful, hard, paying, funds, serving, reqsSeen, signalSeen, reps,
                  caller, holds, wg, spent, closer, faults, mayHard>>
  BY <1>3 DEF ctxVars, flowVars, outerVars, callerVars
<1>5. Balance(v) = v.amount /\ (Emptied(v) => UNCHANGED <<credits, used>>) /\ InHands(v) = v.amount
  BY <1>1, <1>2, Worths DEF Balance, Emptied, batchVars
<1> HIDE DEF v
<1>6. Fits("consolidateA", out) /\ Load(out) = (IF full THEN v.amount ELSE 0)
  <2>1. Fits("consolidateA", <<Send("provide", v)>>) /\ Load(<<Send("provide", v)>>) = v.amount
    BY <1>1, <1>2, <1>5, FitsOne, Loads
  <2>2. Fits("consolidateA", DoneWith("A", v)) /\ Load(DoneWith("A", v)) = 0
    BY <1>1, DoneMessage DEF TransferOf
  <2> QED
    BY <2>1, <2>2
<1>7. /\ InAccounts("A")' = InAccounts("A") + (IF full THEN 0 ELSE v.amount) /\ InAccounts("R")' = InAccounts("R")
      /\ UNCHANGED <<credits, used>>
  <2>1. CASE full
    BY <1>3, <2>1, LedgerFrame, LedgerNat DEF sideVars, batchVars, Sides
  <2>2. CASE ~full
    <3>1. Balance(v) \in Nat
      BY <1>2, <1>5
    <3>2. /\ InAccounts("A")' = InAccounts("A") + Balance(v)
          /\ \A y \in Sides \ {"A"} : InAccounts(y)' = InAccounts(y)
          /\ Emptied(v)
      BY <1>1, <1>3, <2>2, <3>1, DepositEffect
    <3> QED
      BY <1>5, <2>2, <3>2 DEF Sides
  <2> QED
    BY <2>1, <2>2
<1>8. /\ Slots' /\ Rewires({w, "consolidateA"}) /\ pend'[w] = Tail(pend[w]) /\ pend'["consolidateA"] = out
      /\ Carried' = Carried - InHands(Offer(w)) + Load(out) /\ Carried \in Nat
  <2>1. Fits(w, Tail(pend[w]))
    BY <1>1, TailFits
  <2> HIDE DEF out
  <2> QED
    BY <1>1, <1>3, <1>4, <1>6, <2>1, MoveStep
<1>9. /\ pend'["requests"] = pend["requests"] /\ pend'["pay"] = pend["pay"] /\ pend'["route"] = pend["route"]
      /\ pend'["dedupeBatches"] = pend["dedupeBatches"] /\ pend'["consolidateR"] = pend["consolidateR"]
  BY <1>1, <1>8, StepNames DEF Rewires
<1>10. pend["consolidateA"] = <<>> /\ pend[TransferOf("A")] = <<>>
       /\ \A y \in Sides \ {"A"} : pend'[TransferOf(y)] = pend[TransferOf(y)]
  BY <1>3, <1>9 DEF Ready, TransferOf, Sides
<1>11. Reached'
  <2>1. CASE full
    <3>1. pend'[TransferOf("A")] = <<Send("provide", v)>>
      BY <1>8, <2>1 DEF TransferOf
    <3>2. \A k : ~ToldOf("A", k) /\ ~ToldOf("A", k)'
      BY <1>2, <1>10, <3>1, Tidings DEF ToldOf
    <3>3. UNCHANGED <<virtual, accounts>>
      BY <1>3, <2>1 DEF sideVars
    <3> QED
      BY <1>4, <1>10, <3>2, <3>3, ReachedStays
  <2>2. CASE ~full
    <3>1. pend'[TransferOf("A")] = DoneWith("A", v) /\ Deposit("A", v)
      BY <1>3, <1>8, <2>2 DEF TransferOf
    <3>2. Balance(v) \in Nat
      BY <1>2, <1>5
    <3> QED
      BY <1>1, <1>4, <1>10, <3>1, <3>2, ReachedDeposit
  <2> QED
    BY <2>1, <2>2
<1>12. Counted'
  BY <1>4, CountedFrame DEF Inv
<1>13. Total' = Total
  <2>1. InJobs' = InJobs /\ InBatches' = InBatches /\ spent' = spent /\ funds' = funds /\ InCallers' = InCallers
    BY <1>4, <1>7, LedgerFrame
  <2>2. InHands(Offer(w)) = v.amount
    BY <1>5 DEF v
  <2> DEFINE n == v.amount
             k == IF full THEN v.amount ELSE 0
             m == IF full THEN 0 ELSE v.amount
  <2>3. n \in Nat /\ k \in Nat /\ m \in Nat /\ n = k + m
    BY <1>2
  <2>4. Carried' = Carried - n + k /\ InAccounts("A")' = InAccounts("A") + m
    BY <1>6, <1>7, <1>8, <2>2
  <2> HIDE DEF n, k, m
  <2>5. Carried' = Carried - m
    BY <2>3, <2>4, LedgerNat
  <2> QED
    BY <1>7, <2>1, <2>3, <2>4, <2>5, LedgerNat DEF Total
<1>14. \A b \in Batches : (InSplit(b)' <=> InSplit(b)) /\ (Passed(b)' <=> Passed(b))
  <2>1. \A b : Names(pend'["split"], b) <=> Names(pend["split"], b)
    BY <1>1, <1>8, SplitTail
  <2> QED
    BY <1>9, <2>1 DEF InSplit, Passed
<1>15. reps' = [d \in Dedupes |-> reps'[d]] /\ funds' \in Nat /\ spent' \in Nat
  BY <1>4 DEF Inv, ServingFits
<1> QED
  BY <1>4, <1>7, <1>8, <1>9, <1>11, <1>12, <1>13, <1>14, <1>15, MoneyStep

\* ConsolidateAccounts takes a batch that was passed on.
LEMMA ConsolidateBatch ==
    ASSUME Inv, NEW w \in Senders("batchesToConsolidate"), ConsolidateAccount(w)
    PROVE  Inv'
<1> DEFINE v == Offer(w)
           out == DoneWith("A", v)
<1>1. /\ Slots /\ w = "dedupeBatches" /\ v \in Tokens /\ w \in Steps /\ "consolidateA" \in Steps /\ Running(w)
      /\ pend[w] # <<>> /\ Tail(pend[w]) = <<>> /\ "A" \in Sides /\ Reached /\ JobsFit
  BY StepNames, SentBatches DEF Inv, Senders, Sides
<1>2. PICK b \in Batches : v = Batch(b)
  BY <1>1 DEF Tokens
<1>3. v.kind = "batch" /\ InHands(v) = 0
  BY <1>1, <1>2, BatchNames, Worths
<1>4. /\ Ready("consolidateA") /\ Move(w, "consolidateA", out) /\ Deposit("A", v)
      /\ UNCHANGED <<ctxVars, paying, funds, flowVars, reps, outerVars>>
  BY <1>3 DEF ConsolidateAccount
<1>5. UNCHANGED <<st, graceful, hard, paying, funds, serving, reqsSeen, signalSeen, reps,
                  caller, holds, wg, spent, closer, faults, mayHard>>
  BY <1>4 DEF ctxVars, flowVars, outerVars, callerVars
<1>6. pend[w] = <<Send("batchesToConsolidate", Batch(b))>>
  BY <1>1, <1>2, WholeMessage
<1>7. InHands(Offer(w)) = 0
  BY <1>3
<1> HIDE DEF v
<1>8. Fits("consolidateA", out) /\ Load(out) = 0
  BY <1>1, DoneMessage DEF TransferOf
<1>9. /\ Slots' /\ Rewires({w, "consolidateA"}) /\ pend'[w] = Tail(pend[w]) /\ pend'["consolidateA"] = out
      /\ Carried' = Carried - InHands(Offer(w)) + Load(out) /\ Carried \in Nat
  <2>1. Fits(w, Tail(pend[w]))
    BY <1>1, TailFits
  <2> HIDE DEF out
  <2> QED
    BY <1>1, <1>4, <1>5, <1>8, <2>1, MoveStep
<1>10. /\ pend'["requests"] = pend["requests"] /\ pend'["pay"] = pend["pay"] /\ pend'["route"] = pend["route"]
       /\ pend'["split"] = pend["split"] /\ pend'["consolidateR"] = pend["consolidateR"]
  BY <1>1, <1>9, StepNames DEF Rewires
<1>11. Emptied(Batch(b))
  BY <1>2, <1>4 DEF Deposit
<1>12. /\ ServingFits' /\ Unique' /\ Repetitions' /\ Apart'
       /\ InBatches' = InBatches - Balance(v) /\ Balance(v) \in Nat
  <2>1. pend["dedupeBatches"] = <<Send("batchesToConsolidate", Batch(b))>> /\ pend'["dedupeBatches"] = <<>>
    BY <1>1, <1>6, <1>9
  <2> QED
    BY <1>2, <1>5, <1>10, <1>11, <2>1, BatchEmptied
<1>13. /\ InAccounts("A")' = InAccounts("A") + Balance(v)
       /\ InAccounts("R")' = InAccounts("R")
  <2>1. \A y \in Sides \ {"A"} : InAccounts(y)' = InAccounts(y)
    BY <1>1, <1>4, <1>12, DepositEffect
  <2>2. InAccounts("A")' = InAccounts("A") + Balance(v)
    BY <1>1, <1>4, <1>12, DepositEffect
  <2> QED
    BY <2>1, <2>2 DEF Sides
<1>14. Reached'
  <2>1. pend[TransferOf("A")] = <<>> /\ pend'[TransferOf("A")] = DoneWith("A", v)
    BY <1>4, <1>9 DEF Ready, TransferOf
  <2>2. \A y \in Sides \ {"A"} : pend'[TransferOf(y)] = pend[TransferOf(y)]
    BY <1>10 DEF TransferOf, Sides
  <2> QED
    BY <1>1, <1>4, <1>5, <1>12, <2>1, <2>2, ReachedDeposit
<1>15. Counted' /\ JobsFit'
  BY <1>1, <1>5, CountedFrame, JobsFrame DEF Inv
<1>16. Total' = Total
  <2>1. InJobs' = InJobs /\ spent' = spent /\ funds' = funds /\ InCallers' = InCallers
    BY <1>5, LedgerFrame
  <2>2. Carried' = Carried
    BY <1>7, <1>8, <1>9
  <2> QED
    BY <1>12, <1>13, <2>1, <2>2, LedgerNat DEF Total
<1>17. funds' \in Nat /\ spent' \in Nat /\ reqsSeen' \in BOOLEAN
  BY <1>5 DEF Inv, Order
<1> QED
  BY <1>5, <1>9, <1>10, <1>12, <1>14, <1>15, <1>16, <1>17, PipeStep

\* An account goes back to the source.
LEMMA ReturnAccount ==
    ASSUME Inv, NEW w \in Senders("toSource"), ToSource(w)
    PROVE  Inv'
<1> DEFINE v == Offer(w)
<1>1. /\ Slots /\ w = "route" /\ v \in Accounts /\ w \in Steps /\ "return" \in Steps /\ Running(w)
      /\ pend[w] # <<>> /\ Tail(pend[w]) = <<>> /\ funds \in Nat
  BY StepNames, SentAccounts DEF Inv, Senders
<1>2. v.kind = "account" /\ v.amount \in Nat /\ InHands(v) = v.amount
  BY <1>1, AccountTells, Worths
<1>3. /\ Ready("return") /\ funds' = funds + Balance(v) /\ Emptied(v) /\ Move(w, "return", <<>>)
      /\ UNCHANGED <<ctxVars, paying, flowVars, sideVars, reps, outerVars>>
  BY DEF ToSource
<1>4. Balance(v) = v.amount /\ UNCHANGED <<credits, used>>
  BY <1>2, <1>3 DEF Balance, Emptied, batchVars
<1>5. UNCHANGED <<st, graceful, hard, paying, serving, reqsSeen, signalSeen, virtual, accounts, reps,
                  caller, holds, wg, spent, closer, faults, mayHard>>
  BY <1>3 DEF ctxVars, flowVars, sideVars, outerVars, callerVars
<1>6. /\ Slots' /\ Rewires({w, "return"}) /\ pend'[w] = Tail(pend[w]) /\ pend'["return"] = <<>>
      /\ Carried' = Carried - InHands(Offer(w)) + Load(<<>>) /\ Carried \in Nat
  <2>1. Fits(w, Tail(pend[w])) /\ Fits("return", <<>>)
    BY <1>1, TailFits, FitsOne
  <2> QED
    BY <1>1, <1>3, <1>5, <2>1, MoveStep
<1>7. /\ pend'["requests"] = pend["requests"] /\ pend'["pay"] = pend["pay"]
      /\ pend'["split"] = pend["split"] /\ pend'["dedupeBatches"] = pend["dedupeBatches"]
      /\ pend'["consolidateA"] = pend["consolidateA"] /\ pend'["consolidateR"] = pend["consolidateR"]
  BY <1>1, <1>6, StepNames DEF Rewires
<1>8. Reached'
  BY <1>5, <1>7, ReachedStays DEF TransferOf
<1>9. Counted'
  BY <1>5, CountedFrame DEF Inv
<1>10. Total' = Total
  <2>1. InJobs' = InJobs /\ spent' = spent /\ InBatches' = InBatches /\ InCallers' = InCallers
        /\ InAccounts("A")' = InAccounts("A") /\ InAccounts("R")' = InAccounts("R")
    BY <1>4, <1>5, LedgerFrame DEF Sides
  <2> DEFINE n == v.amount
  <2>2. n \in Nat /\ funds' = funds + n
    BY <1>2, <1>3, <1>4
  <2>3. Carried' = Carried - n + 0
    BY <1>2, <1>6, Loads
  <2> HIDE DEF n
  <2> QED
    BY <2>1, <2>2, <2>3, LedgerNat DEF Total
<1>11. funds' \in Nat /\ spent' \in Nat /\ reps' = [d \in Dedupes |-> reps'[d]]
  BY <1>1, <1>2, <1>3, <1>4, <1>5 DEF Inv, ServingFits
<1>12. \A b \in Batches : (InSplit(b)' <=> InSplit(b)) /\ (Passed(b)' <=> Passed(b))
  BY <1>7 DEF InSplit, Passed
<1>13. \A u : pend'["route"] # <<Send("withdrawable", u)>>
  <2>1. pend'["route"] = <<>>
    BY <1>1, <1>6
  <2>2. \A u : <<Send("withdrawable", u)>> # <<>>
    OBVIOUS
  <2> QED
    BY <2>1, <2>2
<1> QED
  BY <1>4, <1>5, <1>6, <1>7, <1>8, <1>9, <1>10, <1>11, <1>12, <1>13, MoneyStep

\* A batch goes back to the source.
LEMMA ReturnBatch ==
    ASSUME Inv, NEW w \in Senders("batchesToConsolidate"), ToSource(w)
    PROVE  Inv'
<1> DEFINE v == Offer(w)
<1>1. /\ Slots /\ w = "dedupeBatches" /\ v \in Tokens /\ w \in Steps /\ "return" \in Steps /\ Running(w)
      /\ pend[w] # <<>> /\ Tail(pend[w]) = <<>> /\ funds \in Nat /\ JobsFit
  BY StepNames, SentBatches DEF Inv, Senders
<1>2. PICK b \in Batches : v = Batch(b)
  BY <1>1 DEF Tokens
<1>3. InHands(v) = 0
  BY <1>1, Worths
<1>4. /\ Ready("return") /\ funds' = funds + Balance(v) /\ Emptied(v) /\ Move(w, "return", <<>>)
      /\ UNCHANGED <<ctxVars, paying, flowVars, sideVars, reps, outerVars>>
  BY DEF ToSource
<1>5. UNCHANGED <<st, graceful, hard, paying, serving, reqsSeen, signalSeen, virtual, accounts, reps,
                  caller, holds, wg, spent, closer, faults, mayHard>>
  BY <1>4 DEF ctxVars, flowVars, sideVars, outerVars, callerVars
<1>6. pend[w] = <<Send("batchesToConsolidate", Batch(b))>>
  BY <1>1, <1>2, WholeMessage
<1>7. /\ Slots' /\ Rewires({w, "return"}) /\ pend'[w] = Tail(pend[w]) /\ pend'["return"] = <<>>
      /\ Carried' = Carried - InHands(Offer(w)) + Load(<<>>) /\ Carried \in Nat
  <2>1. Fits(w, Tail(pend[w])) /\ Fits("return", <<>>)
    BY <1>1, TailFits, FitsOne
  <2> QED
    BY <1>1, <1>4, <1>5, <2>1, MoveStep
<1>8. Carried' = Carried
  <2>1. InHands(Offer(w)) = 0 /\ Load(<<>>) = 0
    BY <1>3, Loads
  <2> QED
    BY <1>7, <2>1
<1> HIDE DEF v
<1>9. /\ pend'["requests"] = pend["requests"] /\ pend'["pay"] = pend["pay"] /\ pend'["route"] = pend["route"]
      /\ pend'["split"] = pend["split"]
      /\ pend'["consolidateA"] = pend["consolidateA"] /\ pend'["consolidateR"] = pend["consolidateR"]
  BY <1>1, <1>7, StepNames DEF Rewires
<1>10. /\ ServingFits' /\ Unique' /\ Repetitions' /\ Apart'
       /\ InBatches' = InBatches - Balance(v) /\ Balance(v) \in Nat
  <2>1. pend["dedupeBatches"] = <<Send("batchesToConsolidate", Batch(b))>> /\ pend'["dedupeBatches"] = <<>>
    BY <1>1, <1>6, <1>7
  <2>2. Emptied(Batch(b))
    BY <1>2, <1>4
  <2> QED
    BY <1>2, <1>5, <1>9, <2>1, <2>2, BatchEmptied
<1>11. Reached'
  BY <1>5, <1>9, ReachedStays DEF TransferOf
<1>12. Counted' /\ JobsFit'
  BY <1>1, <1>5, CountedFrame, JobsFrame DEF Inv
<1>13. Total' = Total
  <2>1. InJobs' = InJobs /\ spent' = spent /\ InCallers' = InCallers
        /\ InAccounts("A")' = InAccounts("A") /\ InAccounts("R")' = InAccounts("R")
    BY <1>5, LedgerFrame DEF Sides
  <2>2. /\ funds \in Nat /\ spent \in Nat /\ Carried \in Nat /\ InJobs \in Nat /\ InBatches \in Nat
        /\ InAccounts("A") \in Nat /\ InAccounts("R") \in Nat /\ InCallers \in Nat
    BY LedgerNat DEF Inv
  <2>3. PICK n \in Nat : funds' = funds + n /\ InBatches' = InBatches - n
    BY <1>4, <1>10, Zenon
  <2> QED
    BY <1>8, <2>1, <2>2, <2>3 DEF Total
<1>14. funds' \in Nat /\ spent' \in Nat /\ reqsSeen' \in BOOLEAN
  BY <1>1, <1>4, <1>5, <1>10 DEF Inv, Order
<1> QED
  BY <1>5, <1>7, <1>9, <1>10, <1>11, <1>12, <1>13, <1>14, PipeStep

\* The groups of which there is one more or one less.
LEMMA GroupDomains ==
    ASSUME NEW groups, NEW k, NEW group
    PROVE  /\ DOMAIN With(groups, k, group) = (DOMAIN groups) \cup {k}
           /\ With(groups, k, group)[k] = group
           /\ \A i \in DOMAIN groups : i # k => With(groups, k, group)[i] = groups[i]
           /\ DOMAIN Without(groups, k) = (DOMAIN groups) \ {k}
           /\ \A i \in (DOMAIN groups) \ {k} : Without(groups, k)[i] = groups[i]
  BY DEF With, Without, Restrict

\* What a dedupe step knows changes, of one of the sides only.
LEMMA RepsChange ==
    ASSUME ServingFits, NEW x \in Sides, NEW groups, reps' = [reps EXCEPT ![DedupeOf(x)] = groups]
    PROVE  /\ reps' = [d \in Dedupes |-> reps'[d]] /\ reps'["dedupeBatches"] = reps["dedupeBatches"]
           /\ reps'[DedupeOf(x)] = groups
           /\ \A y \in Sides \ {x} : reps'[DedupeOf(y)] = reps[DedupeOf(y)]
           /\ \A d \in Dedupes : d # DedupeOf(x) => reps'[d] = reps[d]
<1>1. /\ DedupeOf(x) \in Dedupes /\ DedupeOf(x) # "dedupeBatches" /\ "dedupeBatches" \in Dedupes
      /\ \A y \in Sides : DedupeOf(y) \in Dedupes /\ (y # x => DedupeOf(y) # DedupeOf(x))
  BY DEF DedupeOf, Dedupes, Sides
<1>2. reps = [d \in Dedupes |-> reps[d]]
  BY DEF ServingFits
<1>3. DOMAIN reps = Dedupes
  BY <1>2
<1>4. reps' = [d \in Dedupes |-> IF d = DedupeOf(x) THEN groups ELSE reps[d]]
  BY <1>1, <1>2, <1>3
<1>5. \A d \in Dedupes : reps'[d] = IF d = DedupeOf(x) THEN groups ELSE reps[d]
  BY <1>4
<1>6. reps' = [d \in Dedupes |-> reps'[d]]
  BY <1>4, <1>5
<1> QED
  BY <1>1, <1>5, <1>6

\* Nothing has no members.
LEMMA EmptyDomain == \A q : (\E k : k \in DOMAIN q) => q # <<>>
<1>1. \A q : q = <<>> => \A k : k \notin DOMAIN q
  OBVIOUS
<1> QED
  BY <1>1

\* An account that the dedupe step knows of is passed on.
LEMMA AccountTaken ==
    ASSUME Inv, NEW x \in Sides, NEW k \in DOMAIN accounts[x], accounts' = [accounts EXCEPT ![x][k] = 0],
           UNCHANGED <<st, hard, virtual>>,
           DOMAIN reps'[DedupeOf(x)] = DOMAIN reps[DedupeOf(x)] \ {k},
           \A y \in Sides \ {x} : reps'[DedupeOf(y)] = reps[DedupeOf(y)] /\ pend'[TransferOf(y)] = pend[TransferOf(y)],
           \A i : (ToldOf(x, i)' => ToldOf(x, i)) /\ (ToldOf(x, i) /\ i # k => ToldOf(x, i)')
    PROVE  /\ Reached' /\ InAccounts(x)' = InAccounts(x) - accounts[x][k] /\ accounts[x][k] \in Nat
           /\ \A y \in Sides \ {x} : InAccounts(y)' = InAccounts(y)
<1> DEFINE a == accounts[x]
           new == [a EXCEPT ![k] = 0]
<1>0. Reached /\ accounts \in [Sides -> Seq(Nat)] /\ a \in Seq(Nat)
  BY DEF Inv, Reached
<1>1. accounts' = [accounts EXCEPT ![x] = new]
  BY <1>0
<1>2. new \in Seq(Nat) /\ DOMAIN new = DOMAIN a /\ new[k] = 0 /\ \A i \in DOMAIN a : i # k => new[i] = a[i]
  BY <1>0
<1>3. Sum(new, DOMAIN a) = Sum(a, DOMAIN a) - a[k] + 0
  <2>1. a \in Seq(Nat) /\ k \in DOMAIN a
    BY <1>0
  <2> HIDE DEF a
  <2> QED
    BY <2>1, AccountSums
<1>4. Sum(a, DOMAIN a) \in Nat /\ a[k] \in Nat
  BY <1>0, AccountSums
<1>5. Sum(new, DOMAIN new) = Sum(new, DOMAIN a)
  BY <1>2, Zenon
<1> HIDE DEF new
<1>6. accounts'[x] = new /\ accounts' \in [Sides -> Seq(Nat)] /\ \A y \in Sides \ {x} : accounts'[y] = accounts[y]
  BY <1>0, <1>1, <1>2
<1>7. InAccounts(x)' = InAccounts(x) - a[k]
  <2>1. InAccounts(x)' = Sum(new, DOMAIN a) /\ InAccounts(x) = Sum(a, DOMAIN a)
    BY <1>5, <1>6 DEF InAccounts
  <2> QED
    BY <1>3, <1>4, <2>1
<1>8. \A y \in Sides \ {x} : InAccounts(y)' = InAccounts(y)
  BY <1>6 DEF InAccounts
<1>9. Sound' = Sound
  BY SameStates
<1>10. \A y \in Sides \ {x} : \A i : ToldOf(y, i)' <=> ToldOf(y, i)
  BY DEF ToldOf
<1>11. ASSUME NEW y \in Sides
       PROVE  /\ accounts'[y] # <<>>
              /\ DOMAIN reps'[DedupeOf(y)] \subseteq DOMAIN accounts'[y]
              /\ \A i \in Nat : ToldOf(y, i)' => i \in DOMAIN accounts'[y]
              /\ Sound' => \A i \in DOMAIN accounts'[y] :
                    accounts'[y][i] > 0 => i \in DOMAIN reps'[DedupeOf(y)] \/ ToldOf(y, i)'
  <2>0. /\ accounts[y] # <<>>
        /\ DOMAIN reps[DedupeOf(y)] \subseteq DOMAIN accounts[y]
        /\ \A i \in Nat : ToldOf(y, i) => i \in DOMAIN accounts[y]
        /\ Sound => \A i \in DOMAIN accounts[y] :
              accounts[y][i] > 0 => i \in DOMAIN reps[DedupeOf(y)] \/ ToldOf(y, i)
    BY <1>0 DEF Reached
  <2>1. CASE y = x
    <3>0. k \in DOMAIN new
      BY <1>2
    <3>1. new # <<>>
      BY <3>0, EmptyDomain
    <3>2. accounts'[y] # <<>>
      BY <1>6, <2>1, <3>1
    <3>3. DOMAIN accounts'[x] = DOMAIN accounts[x]
      BY <1>2, <1>6
    <3>4. DOMAIN reps'[DedupeOf(x)] \subseteq DOMAIN accounts'[x]
      BY <2>0, <2>1, <3>3
    <3>5. \A i \in Nat : ToldOf(x, i)' => i \in DOMAIN accounts'[x]
      BY <2>0, <2>1, <3>3
    <3>6. ASSUME Sound', NEW i \in DOMAIN accounts'[x], accounts'[x][i] > 0
          PROVE  i \in DOMAIN reps'[DedupeOf(x)] \/ ToldOf(x, i)'
      <4>1. i # k /\ i \in DOMAIN accounts[x] /\ accounts[x][i] > 0
        BY <1>2, <1>6, <3>3, <3>6
      <4> QED
        BY <1>9, <2>0, <2>1, <3>6, <4>1
    <3> QED
      BY <2>1, <3>2, <3>4, <3>5, <3>6
  <2>2. CASE y # x
    BY <1>6, <1>9, <1>10, <2>0, <2>2
  <2> QED
    BY <2>1, <2>2
<1>12. virtual' \in [Sides -> Nat]
  BY <1>0 DEF Reached
<1>13. Reached'
  BY <1>6, <1>11, <1>12 DEF Reached
<1> QED
  BY <1>4, <1>7, <1>8, <1>13

\* The names of a side.
LEMMA SideNames ==
    ASSUME NEW x \in Sides
    PROVE  /\ TransferOf(x) \in {"consolidateA", "consolidateR"} /\ DedupeOf(x) \in {"dedupeA", "dedupeR"}
           /\ TransferOf(x) \in Steps /\ DedupeOf(x) \in Steps /\ DedupeOf(x) \in Dedupes
           /\ \A y \in Sides \ {x} : TransferOf(y) # TransferOf(x)
           /\ \A v \in Accounts : Fits(DedupeOf(x), <<Send("provide", v)>>)
  BY StepNames, FitsOne DEF TransferOf, DedupeOf, Dedupes, Sides

\* DedupeAccounts hears of a deposit.
LEMMA DedupeAccountStep ==
    ASSUME Inv, NEW x \in Sides, NEW w \in Senders(DoneOf(x)), DedupeAccount(x, w)
    PROVE  Inv'
<1> DEFINE d == DedupeOf(x)
           k == Offer(w).to
           group == AddRep(Group(reps[d], k), GroupIndex, Offer(w).last)
           n == accounts[x][k]
           full == Complete(group)
           out == IF full THEN <<Send("provide", Account(n))>> ELSE <<>>
           groups == IF full THEN Without(reps[d], k) ELSE With(reps[d], k, group)
<1>1. /\ Slots /\ Reached /\ ServingFits /\ w = TransferOf(x) /\ Offer(w) \in Dones /\ Tail(pend[w]) = <<>>
      /\ w \in Steps /\ d \in Steps /\ Running(w) /\ pend[w] # <<>>
  <2>1. w \in Steps /\ Running(w) /\ pend[w] # <<>> /\ DedupeOf(x) \in Steps /\ Slots
    BY SideNames DEF Senders, Inv
  <2> QED
    BY <2>1, SentOthers DEF Inv, DoneOf, TransferOf, Sides
<1>2. /\ Ready(d) /\ reps' = [reps EXCEPT ![d] = groups] /\ Move(w, d, out)
      /\ accounts' = (IF full THEN [accounts EXCEPT ![x][k] = 0] ELSE accounts)
      /\ UNCHANGED <<ctxVars, paying, funds, batchVars, flowVars, virtual, outerVars>>
  BY DEF DedupeAccount
<1>3. UNCHANGED <<st, graceful, hard, paying, funds, credits, used, serving, reqsSeen, signalSeen, virtual,
                  caller, holds, wg, spent, closer, faults, mayHard>>
  BY <1>2 DEF ctxVars, batchVars, flowVars, outerVars, callerVars
<1>4. Offer(w).kind = "done" /\ k \in Nat /\ InHands(Offer(w)) = 0
  BY <1>1, Worths DEF Dones
<1>5. \A i : ToldOf(x, i) <=> i = k
  <2>1. pend[w] = <<Send(DoneOf(x), Offer(w))>>
    <3>1. w # "pay"
      BY <1>1, SideNames
    <3> QED
      BY <1>1, <3>1, WholeMessage
  <2>2. \A i : Tells(<<Send(DoneOf(x), Offer(w))>>, i) <=> Offer(w).kind = "done" /\ Offer(w).to = i
    BY Tidings
  <2>3. \A i : Tells(pend[w], i) <=> Offer(w).kind = "done" /\ Offer(w).to = i
    BY <2>1, <2>2, Zenon
  <2> QED
    BY <1>1, <1>4, <2>3 DEF ToldOf
<1> HIDE DEF k
<1>6. k \in DOMAIN accounts[x] /\ n \in Nat
  <2>1. k \in DOMAIN accounts[x] /\ accounts[x] \in Seq(Nat)
    BY <1>1, <1>4, <1>5 DEF Reached
  <2> QED
    BY <2>1
<1>7. Fits(d, out) /\ Load(out) = (IF full THEN n ELSE 0)
  <2>1. Account(n) \in Accounts /\ InHands(Account(n)) = n
    BY <1>6, MakeAccount, Worths
  <2>2. Fits(d, <<Send("provide", Account(n))>>) /\ Load(<<Send("provide", Account(n))>>) = n
    BY <1>6, <2>1, SideNames, Loads
  <2>3. Fits(d, <<>>) /\ Load(<<>>) = 0
    BY <1>1, FitsOne, Loads
  <2> QED
    BY <2>2, <2>3
<1> HIDE DEF full, groups
<1>8. /\ Slots' /\ Rewires({w, d}) /\ pend'[w] = Tail(pend[w]) /\ pend'[d] = out
      /\ Carried' = Carried - InHands(Offer(w)) + Load(out) /\ Carried \in Nat
  <2>1. Fits(w, Tail(pend[w]))
    BY <1>1, TailFits
  <2> HIDE DEF out
  <2> QED
    BY <1>1, <1>2, <1>3, <1>7, <2>1, MoveStep
<1>9. /\ pend'["requests"] = pend["requests"] /\ pend'["pay"] = pend["pay"] /\ pend'["route"] = pend["route"]
      /\ pend'["split"] = pend["split"] /\ pend'["dedupeBatches"] = pend["dedupeBatches"]
      /\ \A y \in Sides \ {x} : pend'[TransferOf(y)] = pend[TransferOf(y)]
  <2>1. \A s \in Steps : s \notin {w, d} => pend'[s] = pend[s]
    BY <1>8 DEF Rewires
  <2>2. /\ w \in {"consolidateA", "consolidateR"} /\ d \in {"dedupeA", "dedupeR"}
        /\ \A y \in Sides \ {x} : TransferOf(y) \notin {w, d} /\ TransferOf(y) \in Steps
    BY <1>1, SideNames
  <2> QED
    BY <2>1, <2>2, StepNames
<1>10. /\ reps' = [e \in Dedupes |-> reps'[e]] /\ reps'["dedupeBatches"] = reps["dedupeBatches"]
       /\ reps'[d] = groups
       /\ \A y \in Sides \ {x} : reps'[DedupeOf(y)] = reps[DedupeOf(y)]
       /\ \A e \in Dedupes : e # d => reps'[e] = reps[e]
  BY <1>1, <1>2, RepsChange
<1>11. \A i : ~ToldOf(x, i)'
  <2>1. pend'[w] = <<>>
    BY <1>1, <1>8
  <2> QED
    BY <1>1, <2>1, Tidings DEF ToldOf
<1>12. /\ Reached' /\ InAccounts(x)' = InAccounts(x) - (IF full THEN n ELSE 0)
       /\ \A y \in Sides \ {x} : InAccounts(y)' = InAccounts(y)
  <2>1. CASE full
    <3>1. DOMAIN reps'[d] = DOMAIN reps[d] \ {k}
      BY <1>10, <2>1, GroupDomains DEF groups
    <3> QED
      BY <1>2, <1>3, <1>5, <1>6, <1>9, <1>10, <1>11, <2>1, <3>1, AccountTaken
  <2>2. CASE ~full
    <3>1. DOMAIN reps'[d] = DOMAIN reps[d] \cup {k}
      <4>1. reps'[d] = With(reps[d], k, group)
        BY <1>10, <2>2 DEF groups
      <4> HIDE DEF group, d
      <4>2. DOMAIN With(reps[d], k, group) = DOMAIN reps[d] \cup {k}
        BY GroupDomains
      <4> QED
        BY <4>1, <4>2, Zenon
    <3>2. accounts' = accounts /\ virtual' = virtual /\ Sound' = Sound
      BY <1>2, <1>3, <2>2, SameStates
    <3>3. \A y \in Sides : InAccounts(y)' = InAccounts(y)
      BY <3>2, LedgerFrame
    <3>4. \A y \in Sides \ {x} : \A i : ToldOf(y, i)' <=> ToldOf(y, i)
      BY <1>9 DEF ToldOf
    <3>5. ASSUME NEW y \in Sides
          PROVE  /\ accounts[y] # <<>>
                 /\ DOMAIN reps'[DedupeOf(y)] \subseteq DOMAIN accounts[y]
                 /\ \A i \in Nat : ToldOf(y, i)' => i \in DOMAIN accounts[y]
                 /\ Sound' => \A i \in DOMAIN accounts[y] :
                       accounts[y][i] > 0 => i \in DOMAIN reps'[DedupeOf(y)] \/ ToldOf(y, i)'
      <4>0. /\ accounts[y] # <<>>
            /\ DOMAIN reps[DedupeOf(y)] \subseteq DOMAIN accounts[y]
            /\ \A i \in Nat : ToldOf(y, i) => i \in DOMAIN accounts[y]
            /\ Sound => \A i \in DOMAIN accounts[y] :
                  accounts[y][i] > 0 => i \in DOMAIN reps[DedupeOf(y)] \/ ToldOf(y, i)
        BY <1>1 DEF Reached
      <4>1. CASE y = x
        BY <1>5, <1>6, <1>11, <3>1, <3>2, <4>0, <4>1
      <4>2. CASE y # x
        BY <1>10, <3>2, <3>4, <4>0, <4>2
      <4> QED
        BY <4>1, <4>2
    <3>6. Reached'
      BY <1>1, <3>2, <3>5 DEF Reached
    <3>7. InAccounts(x) \in Nat
      BY LedgerNat DEF Sides
    <3> QED
      BY <2>2, <3>3, <3>6, <3>7
  <2> QED
    BY <2>1, <2>2
<1>13. Counted'
  BY <1>3, CountedFrame DEF Inv
<1>14. Total' = Total
  <2>1. InJobs' = InJobs /\ InBatches' = InBatches /\ spent' = spent /\ funds' = funds /\ InCallers' = InCallers
    BY <1>3, LedgerFrame
  <2> DEFINE m == IF full THEN n ELSE 0
  <2>2. m \in Nat /\ Carried' = Carried + m /\ InAccounts(x)' = InAccounts(x) - m
    BY <1>4, <1>6, <1>7, <1>8, <1>12
  <2> HIDE DEF m
  <2>3. CASE x = "A"
    <3>1. InAccounts("R")' = InAccounts("R") /\ InAccounts("A")' = InAccounts("A") - m
      BY <1>12, <2>2, <2>3 DEF Sides
    <3> QED
      BY <2>1, <2>2, <3>1, LedgerNat DEF Total
  <2>4. CASE x = "R"
    <3>1. InAccounts("A")' = InAccounts("A") /\ InAccounts("R")' = InAccounts("R") - m
      BY <1>12, <2>2, <2>4 DEF Sides
    <3> QED
      BY <2>1, <2>2, <3>1, LedgerNat DEF Total
  <2> QED
    BY <2>3, <2>4 DEF Sides
<1>15. \A b \in Batches : (InSplit(b)' <=> InSplit(b)) /\ (Passed(b)' <=> Passed(b))
  BY <1>9 DEF InSplit, Passed
<1>16. funds' \in Nat /\ spent' \in Nat /\ \A e \in Dedupes : ~Running(e) => reps'[e] = reps[e]
  BY <1>2, <1>3, <1>10 DEF Inv, Ready
<1> QED
  BY <1>3, <1>8, <1>9, <1>10, <1>12, <1>13, <1>14, <1>15, <1>16, MoneyStep

\* DedupeAccounts passes on an account that did not fill up.
LEMMA FlushAccountStep ==
    ASSUME Inv, NEW x \in Sides, NEW k \in DOMAIN reps[DedupeOf(x)], FlushAccount(x, k)
    PROVE  Inv'
<1> DEFINE d == DedupeOf(x)
           n == accounts[x][k]
           groups == Without(reps[d], k)
<1>1. Slots /\ Reached /\ ServingFits /\ d \in Steps
  BY SideNames DEF Inv
<1>2. /\ Ready(d) /\ reps' = [reps EXCEPT ![d] = groups] /\ Emit(d, <<Send("provide", Account(n))>>)
      /\ accounts' = [accounts EXCEPT ![x][k] = 0]
      /\ UNCHANGED <<ctxVars, paying, funds, batchVars, flowVars, virtual, outerVars>>
  BY DEF FlushAccount
<1>3. UNCHANGED <<st, graceful, hard, paying, funds, credits, used, serving, reqsSeen, signalSeen, virtual,
                  caller, holds, wg, spent, closer, faults, mayHard>>
  BY <1>2 DEF ctxVars, batchVars, flowVars, outerVars, callerVars
<1>4. k \in DOMAIN accounts[x] /\ n \in Nat
  <2>1. k \in DOMAIN accounts[x] /\ accounts[x] \in Seq(Nat)
    BY <1>1 DEF Reached
  <2> QED
    BY <2>1
<1>5. Fits(d, <<Send("provide", Account(n))>>) /\ Load(<<Send("provide", Account(n))>>) = n
  <2>1. Account(n) \in Accounts /\ InHands(Account(n)) = n
    BY <1>4, MakeAccount, Worths
  <2> QED
    BY <1>4, <2>1, SideNames, Loads
<1> HIDE DEF groups
<1>6. /\ Slots' /\ Rewires({d}) /\ Carried' = Carried + n /\ Carried \in Nat
  BY <1>1, <1>2, <1>3, <1>5, EmitStep
<1>7. /\ pend'["requests"] = pend["requests"] /\ pend'["pay"] = pend["pay"] /\ pend'["route"] = pend["route"]
      /\ pend'["split"] = pend["split"] /\ pend'["dedupeBatches"] = pend["dedupeBatches"]
      /\ \A y \in Sides : pend'[TransferOf(y)] = pend[TransferOf(y)]
  <2>1. \A s \in Steps : s # d => pend'[s] = pend[s]
    BY <1>6 DEF Rewires
  <2>2. /\ d \in {"dedupeA", "dedupeR"}
        /\ \A y \in Sides : TransferOf(y) \in Steps /\ TransferOf(y) \in {"consolidateA", "consolidateR"}
    BY SideNames
  <2> QED
    BY <2>1, <2>2, StepNames
<1>8. /\ reps' = [e \in Dedupes |-> reps'[e]] /\ reps'["dedupeBatches"] = reps["dedupeBatches"]
      /\ reps'[d] = groups
      /\ \A y \in Sides \ {x} : reps'[DedupeOf(y)] = reps[DedupeOf(y)]
      /\ \A e \in Dedupes : e # d => reps'[e] = reps[e]
  BY <1>1, <1>2, RepsChange
<1>9. /\ Reached' /\ InAccounts(x)' = InAccounts(x) - n
      /\ \A y \in Sides \ {x} : InAccounts(y)' = InAccounts(y)
  <2>1. DOMAIN reps'[d] = DOMAIN reps[d] \ {k}
    BY <1>8, GroupDomains DEF groups
  <2>2. \A i : ToldOf(x, i)' <=> ToldOf(x, i)
    BY <1>7 DEF ToldOf
  <2> QED
    BY <1>2, <1>3, <1>4, <1>7, <1>8, <2>1, <2>2, AccountTaken
<1>10. Counted'
  BY <1>3, CountedFrame DEF Inv
<1>11. Total' = Total
  <2>1. InJobs' = InJobs /\ InBatches' = InBatches /\ spent' = spent /\ funds' = funds /\ InCallers' = InCallers
    BY <1>3, LedgerFrame
  <2> HIDE DEF n
  <2>3. CASE x = "A"
    <3>1. InAccounts("R")' = InAccounts("R") /\ InAccounts("A")' = InAccounts("A") - n
      BY <1>9, <2>3 DEF Sides
    <3> QED
      BY <1>4, <1>6, <2>1, <3>1, LedgerNat DEF Total
  <2>4. CASE x = "R"
    <3>1. InAccounts("A")' = InAccounts("A") /\ InAccounts("R")' = InAccounts("R") - n
      BY <1>9, <2>4 DEF Sides
    <3> QED
      BY <1>4, <1>6, <2>1, <3>1, LedgerNat DEF Total
  <2> QED
    BY <2>3, <2>4 DEF Sides
<1>12. \A b \in Batches : (InSplit(b)' <=> InSplit(b)) /\ (Passed(b)' <=> Passed(b))
  BY <1>7 DEF InSplit, Passed
<1>13. funds' \in Nat /\ spent' \in Nat /\ \A e \in Dedupes : ~Running(e) => reps'[e] = reps[e]
  BY <1>2, <1>3, <1>8 DEF Inv, Ready
<1> QED
  BY <1>3, <1>6, <1>7, <1>8, <1>9, <1>10, <1>11, <1>12, <1>13, MoneyStep
-----------------------------------------------------------------------------
(* Batches and their repetitions *)

\* The repetition a message of CreateIntents is about.
LEMMA Repeats ==
    /\ \A r : ~RepsAt(<<>>, r)
    /\ \A c, v, r : RepsAt(<<Send(c, v)>>, r) <=> RepIn(v) = r
    /\ \A r \in Reps : RepIn(r) = r
    /\ \A j \in Jobs : RepIn(j) = j.rep /\ j.rep \in Reps
<1>1. \A r : ~RepsAt(<<>>, r)
  BY DEF RepsAt
<1>2. ASSUME NEW c, NEW v, NEW r PROVE RepsAt(<<Send(c, v)>>, r) <=> RepIn(v) = r
  <2> DEFINE q == <<Send(c, v)>>
  <2>1. DOMAIN q = {1} /\ q[1].val = v
    BY SingleMessage
  <2> HIDE DEF q
  <2>2. RepsAt(q, r) <=> RepIn(v) = r
    BY <2>1 DEF RepsAt
  <2> QED
    BY <2>2 DEF q
<1>3. \A r \in Reps : RepIn(r) = r
  BY DEF RepIn, Reps
<1>4. \A j \in Jobs : RepIn(j) = j.rep /\ j.rep \in Reps
  BY DEF RepIn, Jobs
<1> QED
  BY <1>1, <1>2, <1>3, <1>4

\* What is made of a batch, an index and a caller.
LEMMA MakeRep ==
    \A b \in Batches, i \in Nat, last \in BOOLEAN :
        /\ Rep(b, i, last) \in Reps /\ Rep(b, i, last).batch = b /\ Rep(b, i, last).index = i
        /\ Rep(b, i, last).last = last
        /\ \A c \in Callers : /\ PayIntent(Rep(b, i, last), c) \in NewJobs
                              /\ PayIntent(Rep(b, i, last), c).rep = Rep(b, i, last)
<1>1. ASSUME NEW b \in Batches, NEW i \in Nat, NEW last \in BOOLEAN
      PROVE  /\ Rep(b, i, last) \in Reps /\ Rep(b, i, last).batch = b /\ Rep(b, i, last).index = i
             /\ Rep(b, i, last).last = last
  BY DEF Rep, Reps
<1>2. ASSUME NEW r \in Reps, NEW c \in Callers PROVE PayIntent(r, c) \in NewJobs /\ PayIntent(r, c).rep = r
  BY DEF PayIntent, NewJobs, Jobs
<1> QED
  BY <1>1, <1>2

\* What a repetition has.
LEMMA RepFields == \A r \in Reps : r.batch \in Batches /\ r.index \in Nat /\ r.last \in BOOLEAN
  BY DEF Reps

\* Two messages, one after the other.
LEMMA Joined ==
    ASSUME NEW x, NEW y
    PROVE  (<<x>> \o <<y>>) = <<x, y>> /\ (<<>> \o <<y>>) = <<y>>
<1> DEFINE S == {x, y}
<1>1. <<x>> \in Seq(S) /\ <<y>> \in Seq(S) /\ <<x, y>> \in Seq(S)
  OBVIOUS
<1>2. (<<x>> \o <<y>>) \in Seq(S) /\ Len(<<x>> \o <<y>>) = 2
  BY <1>1, ConcatProperties
<1>3. \A i \in 1 .. 2 : (<<x>> \o <<y>>)[i] = <<x, y>>[i]
  BY <1>1, ConcatProperties
<1>4. (<<>> \o <<y>>) = <<y>>
  OBVIOUS
<1> QED
  BY <1>1, <1>2, <1>3, <1>4, SeqEqual

\* SplitAccount passes a low account on.
LEMMA SplitLow ==
    ASSUME Inv, NEW w \in Senders("withdrawable"), SplitAccount(w), Offer(w).amount < PrefetchAmount
    PROVE  Inv'
<1> DEFINE n == Offer(w).amount
           rest == n % PrefetchAmount
           left == IF rest > 0 THEN <<Send("toConsolidate", Account(rest))>> ELSE <<>>
<1>1. /\ Slots /\ w = "route" /\ Offer(w) \in Accounts /\ Tail(pend[w]) = <<>> /\ w \in Steps /\ Running(w)
      /\ pend[w] # <<>> /\ "split" \in Steps
  BY StepNames, SentAccounts DEF Inv, Senders
<1>2. n \in Nat /\ InHands(Offer(w)) = n
  BY <1>1, AccountTells, Worths
<1>3. /\ Ready("split") /\ Move(w, "split", left) /\ UNCHANGED batchVars
      /\ UNCHANGED <<ctxVars, paying, funds, flowVars, sideVars, reps, outerVars>>
  BY DEF SplitAccount
<1>4. UNCHANGED <<st, graceful, hard, paying, funds, credits, used, serving, reqsSeen, signalSeen, virtual, accounts,
                  reps, caller, holds, wg, spent, closer, faults, mayHard>>
  BY <1>3 DEF ctxVars, batchVars, flowVars, sideVars, outerVars, callerVars
<1>5. rest = n
  BY <1>2, WalletAssumption
<1>6. Fits("split", left) /\ Load(left) = n /\ \A b : ~Names(left, b)
  <2>1. Fits("split", <<>>) /\ Load(<<>>) = 0 /\ \A b : ~Names(<<>>, b)
    BY <1>1, FitsOne, Loads, Tidings
  <2>2. Account(n) \in Accounts /\ InHands(Account(n)) = n
    BY <1>2, MakeAccount, Worths
  <2>3. /\ Fits("split", <<Send("toConsolidate", Account(n))>>)
        /\ Load(<<Send("toConsolidate", Account(n))>>) = n
        /\ \A b : ~Names(<<Send("toConsolidate", Account(n))>>, b)
    <3>1. Fits("split", <<Send("toConsolidate", Account(n))>>)
      BY <2>2, FitsOne, Zenon
    <3>2. Load(<<Send("toConsolidate", Account(n))>>) = InHands(Account(n))
      BY <1>2, <2>2, Loads
    <3>3. \A b : Names(<<Send("toConsolidate", Account(n))>>, b) <=> Account(n) = Batch(b)
      BY Tidings, Zenon
    <3>4. \A b : Account(n) # Batch(b)
      BY <2>2, AccountTells, Zenon
    <3> QED
      BY <2>2, <3>1, <3>2, <3>3, <3>4, Zenon
  <2>4. CASE n > 0
    <3>1. left = <<Send("toConsolidate", Account(n))>>
      BY <1>5, <2>4
    <3> HIDE DEF left, n
    <3> QED
      BY <2>3, <3>1, Zenon
  <2>5. CASE ~(n > 0)
    <3>1. left = <<>> /\ n = 0
      BY <1>2, <1>5, <2>5
    <3> HIDE DEF left, n
    <3> QED
      BY <2>1, <3>1, Zenon
  <2> QED
    BY <2>4, <2>5
<1> HIDE DEF left
<1>7. /\ Slots' /\ Rewires({w, "split"}) /\ pend'[w] = Tail(pend[w]) /\ pend'["split"] = left
      /\ Carried' = Carried - InHands(Offer(w)) + Load(left) /\ Carried \in Nat
  <2>1. Fits(w, Tail(pend[w]))
    BY <1>1, TailFits
  <2> QED
    BY <1>1, <1>3, <1>4, <1>6, <2>1, MoveStep
<1>8. Carried' = Carried
  BY <1>2, <1>6, <1>7
<1>9. /\ pend'["requests"] = pend["requests"] /\ pend'["pay"] = pend["pay"]
      /\ pend'["dedupeBatches"] = pend["dedupeBatches"]
      /\ pend'["consolidateA"] = pend["consolidateA"] /\ pend'["consolidateR"] = pend["consolidateR"]
  BY <1>1, <1>7, StepNames DEF Rewires
<1>10. \A b \in Batches : (InSplit(b)' <=> InSplit(b)) /\ (Passed(b)' <=> Passed(b))
  <2>1. pend["split"] = <<>> /\ \A b : ~Names(<<>>, b)
    BY <1>3, Tidings DEF Ready
  <2> QED
    BY <1>6, <1>7, <1>9, <2>1 DEF InSplit, Passed
<1>11. \A u : pend'["route"] # <<Send("withdrawable", u)>>
  <2>1. pend'["route"] = <<>>
    BY <1>1, <1>7
  <2>2. \A u : <<Send("withdrawable", u)>> # <<>>
    OBVIOUS
  <2> QED
    BY <2>1, <2>2
<1>12. Reached'
  BY <1>4, <1>9, ReachedStays DEF TransferOf
<1>13. Counted'
  BY <1>4, CountedFrame DEF Inv
<1>14. Total' = Total
  <2>1. /\ InJobs' = InJobs /\ InBatches' = InBatches /\ spent' = spent /\ funds' = funds /\ InCallers' = InCallers
        /\ InAccounts("A")' = InAccounts("A") /\ InAccounts("R")' = InAccounts("R")
    BY <1>4, LedgerFrame DEF Sides
  <2> QED
    BY <1>8, <2>1 DEF Total
<1>15. reps' = [d \in Dedupes |-> reps'[d]] /\ funds' \in Nat /\ spent' \in Nat
  BY <1>4 DEF Inv, ServingFits
<1> QED
  BY <1>4, <1>7, <1>9, <1>10, <1>11, <1>12, <1>13, <1>14, <1>15, MoneyStep

\* SplitAccount makes a batch of credits of an account.
LEMMA SplitBatch ==
    ASSUME Inv, NEW w \in Senders("withdrawable"), SplitAccount(w), Offer(w).amount >= PrefetchAmount
    PROVE  Inv'
<1> DEFINE b == CHOOSE x \in Batches \ used : TRUE
           n == Offer(w).amount
           rest == n % PrefetchAmount
           m == n \div PrefetchAmount
           left == IF rest > 0 THEN <<Send("toConsolidate", Account(rest))>> ELSE <<>>
           out == left \o <<Send("batches", Batch(b))>>
<1>1. /\ Slots /\ w = "route" /\ Offer(w) \in Accounts /\ Tail(pend[w]) = <<>> /\ w \in Steps /\ Running(w)
      /\ pend[w] # <<>> /\ "split" \in Steps
  BY StepNames, SentAccounts DEF Inv, Senders
<1>2. n \in Nat /\ InHands(Offer(w)) = n
  BY <1>1, AccountTells, Worths
<1>3. /\ ServingFits /\ Unique /\ Repetitions /\ Apart /\ JobsFit
  BY DEF Inv
<1>4. ~(n < PrefetchAmount)
  BY <1>2, WalletAssumption
<1>5. /\ Ready("split") /\ used # Batches /\ used' = used \cup {b} /\ credits' = [credits EXCEPT ![b] = m]
      /\ Move(w, "split", out)
      /\ UNCHANGED <<ctxVars, paying, funds, flowVars, sideVars, reps, outerVars>>
  BY <1>4 DEF SplitAccount
<1>6. UNCHANGED <<st, graceful, hard, paying, funds, serving, reqsSeen, signalSeen, virtual, accounts,
                  reps, caller, holds, wg, spent, closer, faults, mayHard>>
  BY <1>5 DEF ctxVars, flowVars, sideVars, outerVars, callerVars
<1>7. b \in Batches /\ b \notin used
  BY <1>3, <1>5 DEF ServingFits
<1>8. rest \in Nat /\ m \in Nat /\ n = m * PrefetchAmount + rest /\ m * PrefetchAmount \in Nat
  BY <1>2, WalletAssumption
<1> HIDE DEF b, rest, m, n
<1>9. Fits("split", out) /\ Load(out) = rest /\ \A c : Names(out, c) <=> c = b
  <2>0. Batch(b) \in Tokens /\ InHands(Batch(b)) = 0
    BY <1>7, Worths DEF Tokens
  <2>1. CASE rest > 0
    <3>1. out = <<Send("toConsolidate", Account(rest)), Send("batches", Batch(b))>>
      BY <2>1, Joined
    <3>2. Account(rest) \in Accounts /\ InHands(Account(rest)) = rest
      BY <1>8, MakeAccount, Worths
    <3>3. /\ Fits("split", <<Send("toConsolidate", Account(rest)), Send("batches", Batch(b))>>)
          /\ Load(<<Send("toConsolidate", Account(rest)), Send("batches", Batch(b))>>) = rest
      BY <1>8, <2>0, <3>2, FitsOne, Loads
    <3>4. \A c : Names(<<Send("toConsolidate", Account(rest)), Send("batches", Batch(b))>>, c)
                 <=> Account(rest) = Batch(c) \/ Batch(b) = Batch(c)
      BY Tidings
    <3>5. \A c : Names(out, c) <=> c = b
      <4> HIDE DEF out
      <4>1. \A c : Account(rest) # Batch(c)
        BY <3>2, AccountTells
      <4>2. \A c : Batch(b) = Batch(c) <=> c = b
        BY BatchNames, Zenon
      <4> QED
        BY <3>1, <3>4, <4>1, <4>2, Zenon
    <3> HIDE DEF out
    <3> QED
      BY <3>1, <3>3, <3>5, Zenon
  <2>2. CASE ~(rest > 0)
    <3>1. out = <<Send("batches", Batch(b))>> /\ rest = 0
      BY <1>8, <2>2, Joined
    <3>2. Fits("split", <<Send("batches", Batch(b))>>) /\ Load(<<Send("batches", Batch(b))>>) = 0
      <4>1. Fits("split", <<Send("batches", Batch(b))>>)
        BY <2>0, FitsOne, Zenon
      <4>2. Load(<<Send("batches", Batch(b))>>) = InHands(Batch(b))
        BY <2>0, Loads
      <4> QED
        BY <2>0, <4>1, <4>2, Zenon
    <3>3. \A c : Names(<<Send("batches", Batch(b))>>, c) <=> Batch(b) = Batch(c)
      BY Tidings
    <3>4. \A c : Names(out, c) <=> c = b
      <4> HIDE DEF out
      <4>1. \A c : Batch(b) = Batch(c) <=> c = b
        BY BatchNames, Zenon
      <4> QED
        BY <3>1, <3>3, <4>1, Zenon
    <3> HIDE DEF out
    <3> QED
      BY <3>1, <3>2, <3>4, Zenon
  <2> QED
    BY <2>1, <2>2
<1> HIDE DEF out
<1>10. /\ Slots' /\ Rewires({w, "split"}) /\ pend'[w] = Tail(pend[w]) /\ pend'["split"] = out
       /\ Carried' = Carried - n + rest /\ Carried \in Nat /\ Carried' \in Nat
  <2>1. Fits(w, Tail(pend[w]))
    BY <1>1, TailFits
  <2> QED
    BY <1>1, <1>2, <1>5, <1>6, <1>9, <2>1, MoveStep
<1>11. /\ pend'["requests"] = pend["requests"] /\ pend'["pay"] = pend["pay"]
       /\ pend'["dedupeBatches"] = pend["dedupeBatches"]
       /\ pend'["consolidateA"] = pend["consolidateA"] /\ pend'["consolidateR"] = pend["consolidateR"]
  BY <1>1, <1>10, StepNames DEF Rewires
<1>12. /\ credits' \in [Batches -> Nat] /\ credits'[b] = m
       /\ \A c \in Batches \ {b} : credits'[c] = credits[c]
       /\ InBatches' = InBatches - credits[b] * PrefetchAmount + m * PrefetchAmount
  BY <1>3, <1>5, <1>7, <1>8, CreditsChange
<1>13. credits[b] = 0 /\ ~InSplit(b) /\ ~Passed(b) /\ ~InService(b)
  BY <1>3, <1>7 DEF Apart
<1>14. InBatches' = InBatches + m * PrefetchAmount
  <2>1. 0 * PrefetchAmount = 0
    BY WalletAssumption
  <2> QED
    BY <1>8, <1>12, <1>13, <2>1, LedgerNat
<1>15. ServingFits'
  BY <1>3, <1>5, <1>6, <1>7, <1>12 DEF ServingFits, Groups
<1>16. /\ \A c : (InSplit(c)' <=> c = b) /\ ~InSplit(c) /\ (Passed(c)' <=> Passed(c))
  <2>1. pend["split"] = <<>> /\ \A c : ~Names(<<>>, c)
    BY <1>5, Tidings DEF Ready
  <2> QED
    BY <1>9, <1>10, <1>11, <2>1 DEF InSplit, Passed
<1>17. \A r : (AtRequests(r)' <=> AtRequests(r)) /\ (AtJob(r)' <=> AtJob(r)) /\ (AtPay(r)' <=> AtPay(r))
  BY <1>6, <1>11 DEF AtRequests, AtJob, AtPay
<1>18. Unique'
  BY <1>3, <1>6, <1>11, <1>17 DEF Unique
<1>19. (\A r : Flying(r)' <=> Flying(r)) /\ Groups' = Groups /\ serving' = serving
  BY <1>6, <1>17 DEF Flying, Groups
<1>20. Repetitions'
  BY <1>3, <1>19 DEF Repetitions
<1>21. (\A c \in Batches : InService(c)' <=> InService(c)) /\ Sound' = Sound
  BY <1>6, <1>19, SameStates DEF InService
<1>22. Apart'
  BY <1>3, <1>5, <1>7, <1>12, <1>13, <1>16, <1>21 DEF Apart
<1>23. \A u : pend'["route"] # <<Send("withdrawable", u)>>
  <2>1. pend'["route"] = <<>>
    BY <1>1, <1>10
  <2>2. \A u : <<Send("withdrawable", u)>> # <<>>
    OBVIOUS
  <2> QED
    BY <2>1, <2>2
<1>24. Reached'
  BY <1>6, <1>11, ReachedStays DEF TransferOf
<1>25. Counted' /\ JobsFit'
  BY <1>3, <1>6, CountedFrame, JobsFrame DEF Inv
<1>26. Total' = Total
  <2>1. /\ InJobs' = InJobs /\ spent' = spent /\ funds' = funds /\ InCallers' = InCallers
        /\ InAccounts("A")' = InAccounts("A") /\ InAccounts("R")' = InAccounts("R")
    BY <1>6, LedgerFrame DEF Sides
  <2> DEFINE k == m * PrefetchAmount
  <2>2. k \in Nat /\ InBatches' = InBatches + k /\ n = k + rest /\ rest \in Nat
    BY <1>8, <1>14
  <2> HIDE DEF k
  <2>3. Carried' + k = Carried /\ Carried' \in Nat
    BY <1>10, <2>2
  <2> QED
    BY <2>1, <2>2, <2>3, LedgerNat DEF Total
<1>27. funds' \in Nat /\ spent' \in Nat /\ reqsSeen' \in BOOLEAN
  BY <1>6 DEF Inv, Order
<1> QED
  BY <1>6, <1>10, <1>15, <1>18, <1>20, <1>22, <1>23, <1>24, <1>25, <1>26, <1>27, PipeStep

\* CreateIntents makes a new repetition of the batch it serves, above all those
\* that are out or back.
LEMMA NewRep ==
    ASSUME ServingFits, Unique, Repetitions, NEW r0 \in Reps,
           \A r : ~AtRequests(r), \A r : AtRequests(r)' <=> r = r0,
           pend'["pay"] = pend["pay"], UNCHANGED <<paying, reps>>,
           \A r \in Reps : Flying(r) /\ r.batch = r0.batch => ~r.last /\ r.index < r0.index,
           r0.batch \in DOMAIN Groups =>
               Groups[r0.batch].len = 0 /\ \A i \in Groups[r0.batch].seen : i < r0.index,
           serving.batch \in {{}, {r0.batch}}, serving'.batch \in {{}, {r0.batch}},
           serving'.batch = {r0.batch} => ~r0.last /\ serving'.index = r0.index + 1
    PROVE  /\ Unique' /\ Repetitions'
           /\ InService(r0.batch)'
           /\ \A c \in Batches : c # r0.batch => (InService(c)' <=> InService(c))
<1>1. \A r : (AtJob(r)' <=> AtJob(r)) /\ (AtPay(r)' <=> AtPay(r))
  BY DEF AtJob, AtPay
<1>2. \A r : Flying(r)' <=> Flying(r) \/ r = r0
  BY <1>1 DEF Flying
<1>3. Groups' = Groups
  BY DEF Groups
<1>4. \A q \in Reps : AtJob(q) \/ AtPay(q) => Flying(q)
  BY DEF Flying
<1>5. ASSUME NEW q \in Reps, AtJob(q) \/ AtPay(q) PROVE ~Same(r0, q)
  <2>1. q.batch = r0.batch => q.index < r0.index
    BY <1>4, <1>5
  <2>2. q.index \in Nat /\ r0.index \in Nat
    BY RepFields
  <2> QED
    BY <2>1, <2>2 DEF Same
<1>6. Unique'
  <2>1. \A i, k \in DOMAIN pend'["pay"] : Same(pend'["pay"][i].val, pend'["pay"][k].val) => i = k
    BY DEF Unique
  <2>2. \A j, k \in paying' : Same(j.rep, k.rep) => j = k
    BY DEF Unique
  <2>3. \A r, q \in Reps : AtRequests(r)' /\ (AtJob(q)' \/ AtPay(q)') => ~Same(r, q)
    BY <1>1, <1>5
  <2>4. \A r, q \in Reps : AtJob(r)' /\ AtPay(q)' => ~Same(r, q)
    BY <1>1 DEF Unique
  <2> QED
    BY <2>1, <2>2, <2>3, <2>4 DEF Unique
<1>7. Repetitions'
  <2>1. ASSUME NEW r \in Reps, Flying(r)', r.batch \in DOMAIN Groups
        PROVE  /\ r.index \notin Groups[r.batch].seen
               /\ Groups[r.batch].len # 0 => r.index < Groups[r.batch].len /\ ~r.last
               /\ r.last => \A i \in Groups[r.batch].seen : i < r.index
    <3>1. CASE r = r0
      <4>1. r0.index \in Nat
        BY RepFields
      <4> QED
        BY <2>1, <3>1, <4>1
    <3>2. CASE Flying(r)
      BY <2>1, <3>2 DEF Repetitions
    <3> QED
      BY <2>1, <3>1, <3>2, <1>2
  <2>2. ASSUME NEW r \in Reps, Flying(r)', serving'.batch = {r.batch}
        PROVE  ~r.last /\ r.index < serving'.index
    <3>1. r.batch = r0.batch /\ ~r0.last /\ serving'.index = r0.index + 1 /\ r0.index \in Nat /\ r.index \in Nat
      BY <2>2, RepFields
    <3> QED
      BY <2>2, <3>1, <1>2
  <2>3. ASSUME NEW r \in Reps, NEW q \in Reps, Flying(r)', Flying(q)', r.batch = q.batch, r.last
        PROVE  q.index <= r.index
    <3>0. q.index \in Nat /\ r.index \in Nat
      BY RepFields
    <3>1. CASE r = r0
      BY <2>3, <3>0, <3>1, <1>2
    <3>2. CASE Flying(r) /\ q = r0
      BY <2>3, <3>2
    <3>3. CASE Flying(r) /\ Flying(q)
      BY <2>3, <3>3 DEF Repetitions
    <3> QED
      BY <2>3, <3>1, <3>2, <3>3, <1>2
  <2>4. ASSUME NEW b \in DOMAIN Groups
        PROVE  /\ Groups[b].len # 0 => Groups[b].seen \subseteq 0 .. Groups[b].len - 1
               /\ serving'.batch = {b} => Groups[b].len = 0 /\ \A i \in Groups[b].seen : i < serving'.index
    <3>1. Groups[b].len # 0 => Groups[b].seen \subseteq 0 .. Groups[b].len - 1
      BY DEF Repetitions
    <3>2. ASSUME serving'.batch = {b} PROVE Groups[b].len = 0 /\ \A i \in Groups[b].seen : i < serving'.index
      <4>1. b = r0.batch /\ serving'.index = r0.index + 1 /\ r0.index \in Nat
        BY <3>2, RepFields
      <4>2. Groups[b].seen \subseteq Nat
        BY DEF ServingFits, GroupType
      <4> QED
        BY <4>1, <4>2
    <3> QED
      BY <3>1, <3>2
  <2> QED
    BY <1>3, <2>1, <2>2, <2>3, <2>4 DEF Repetitions
<1>8. InService(r0.batch)'
  BY <1>2 DEF InService
<1>9. ASSUME NEW c \in Batches, c # r0.batch PROVE InService(c)' <=> InService(c)
  <2>1. serving'.batch # {c} /\ serving.batch # {c}
    BY <1>9
  <2> QED
    BY <1>2, <1>3, <1>9, <2>1 DEF InService
<1> QED
  BY <1>6, <1>7, <1>8, <1>9

\* The batch in the hands of CreateIntents.
LEMMA Served ==
    ASSUME Inv, serving # Idle
    PROVE  \E b \in Batches :
               /\ b = (CHOOSE x \in serving.batch : TRUE)
               /\ serving.batch = {b} /\ serving.index \in Nat /\ serving.size \in Nat
               /\ serving = [batch |-> {b}, index |-> serving.index, size |-> serving.size]
               /\ \A r \in Reps : Flying(r) /\ r.batch = b => ~r.last /\ r.index < serving.index
               /\ b \in DOMAIN Groups => Groups[b].len = 0 /\ \A i \in Groups[b].seen : i < serving.index
               /\ InService(b) /\ ~InSplit(b) /\ ~Passed(b) /\ b \in used
<1>1. PICK c \in Batches, i \in Nat, n \in Nat : serving = [batch |-> {c}, index |-> i, size |-> n]
  BY DEF Inv, ServingFits
<1>2. serving.batch = {c} /\ serving.index = i /\ serving.size = n
  BY <1>1
<1>3. (CHOOSE x \in serving.batch : TRUE) = c
  BY <1>2
<1>4. \A r \in Reps : Flying(r) /\ r.batch = c => ~r.last /\ r.index < serving.index
  BY <1>2 DEF Inv, Repetitions
<1>5. c \in DOMAIN Groups => Groups[c].len = 0 /\ \A k \in Groups[c].seen : k < serving.index
  BY <1>2 DEF Inv, Repetitions
<1>6. InService(c)
  BY <1>2 DEF InService
<1>7. ~InSplit(c) /\ ~Passed(c) /\ c \in used
  BY <1>6 DEF Inv, Apart
<1> QED
  BY <1>1, <1>2, <1>3, <1>4, <1>5, <1>6, <1>7

\* CreateIntents has a repetition of its batch to send, and goes on or is done
\* with the batch.
LEMMA RepSent ==
    ASSUME Inv, serving # Idle, Ready("requests"), NEW last \in BOOLEAN, NEW c, NEW v,
           RepIn(v) = Rep(CHOOSE x \in serving.batch : TRUE, serving.index, last),
           Fits("requests", <<Send(c, v)>>), InHands(v) = 0,
           Emit("requests", <<Send(c, v)>>),
           serving' = Idle \/ (~last /\ serving' = [serving EXCEPT !.index = @ + 1]),
           UNCHANGED <<st, graceful, hard, paying, funds, credits, used, signalSeen, virtual, accounts,
                       reps, spent, closer, faults, mayHard>>,
           reqsSeen' \in BOOLEAN, Counted', InCallers' = InCallers
    PROVE  Inv'
<1>1. Slots /\ ServingFits /\ Unique /\ Repetitions /\ Apart /\ JobsFit /\ "requests" \in Steps /\ Running("requests")
      /\ pend["requests"] = <<>>
  BY StepNames DEF Inv, Ready
<1>2. PICK b \in Batches :
      /\ b = (CHOOSE x \in serving.batch : TRUE)
      /\ serving.batch = {b} /\ serving.index \in Nat /\ serving.size \in Nat
      /\ serving = [batch |-> {b}, index |-> serving.index, size |-> serving.size]
      /\ \A r \in Reps : Flying(r) /\ r.batch = b => ~r.last /\ r.index < serving.index
      /\ b \in DOMAIN Groups => Groups[b].len = 0 /\ \A i \in Groups[b].seen : i < serving.index
      /\ InService(b) /\ ~InSplit(b) /\ ~Passed(b) /\ b \in used
  BY Served
<1>0. PICK r0 : r0 = Rep(b, serving.index, last)
  OBVIOUS
<1>3. r0 \in Reps /\ r0.batch = b /\ r0.index = serving.index /\ r0.last = last /\ RepIn(v) = r0
  <2>0. PICK i : i = serving.index /\ i \in Nat
    BY <1>2
  <2>1. /\ Rep(b, i, last) \in Reps /\ Rep(b, i, last).batch = b
        /\ Rep(b, i, last).index = i /\ Rep(b, i, last).last = last
    BY <2>0, MakeRep
  <2>2. RepIn(v) = r0
    BY <1>0, <1>2, Zenon
  <2> QED
    BY <1>0, <2>0, <2>1, <2>2, Zenon
<1>4. /\ Slots' /\ Rewires({"requests"}) /\ pend'["requests"] = <<Send(c, v)>>
      /\ Carried' = Carried + Load(<<Send(c, v)>>) /\ Carried \in Nat
  BY <1>1, EmitStep
<1>5. Load(<<Send(c, v)>>) = 0
  BY Loads
<1>6. Carried' = Carried
  BY <1>4, <1>5
<1>7. /\ pend'["pay"] = pend["pay"] /\ pend'["route"] = pend["route"] /\ pend'["split"] = pend["split"]
      /\ pend'["dedupeBatches"] = pend["dedupeBatches"]
      /\ pend'["consolidateA"] = pend["consolidateA"] /\ pend'["consolidateR"] = pend["consolidateR"]
  BY <1>4, StepNames DEF Rewires
<1>8. (\A r : ~AtRequests(r)) /\ (\A r : AtRequests(r)' <=> r = r0)
  BY <1>1, <1>3, <1>4, Repeats DEF AtRequests
<1>9. \/ serving' = Idle
      \/ serving' = [batch |-> {b}, index |-> serving.index + 1, size |-> serving.size] /\ ~last
  BY <1>2
<1>10. /\ serving'.batch \in {{}, {b}}
       /\ serving'.batch = {b} => ~last /\ serving'.index = serving.index + 1
  BY <1>9 DEF Idle
<1>11. /\ Unique' /\ Repetitions' /\ InService(b)'
       /\ \A a \in Batches : a # b => (InService(a)' <=> InService(a))
  <2>1. serving.batch \in {{}, {r0.batch}} /\ serving'.batch \in {{}, {r0.batch}}
    BY <1>2, <1>3, <1>10
  <2>2. serving'.batch = {r0.batch} => ~r0.last /\ serving'.index = r0.index + 1
    BY <1>3, <1>10
  <2>3. \A r \in Reps : Flying(r) /\ r.batch = r0.batch => ~r.last /\ r.index < r0.index
    BY <1>2, <1>3
  <2>4. r0.batch \in DOMAIN Groups =>
            Groups[r0.batch].len = 0 /\ \A i \in Groups[r0.batch].seen : i < r0.index
    BY <1>2, <1>3
  <2>5. /\ Unique' /\ Repetitions' /\ InService(r0.batch)'
        /\ \A a \in Batches : a # r0.batch => (InService(a)' <=> InService(a))
    BY <1>1, <1>3, <1>7, <1>8, <2>1, <2>2, <2>3, <2>4, NewRep
  <2> QED
    BY <1>3, <2>5
<1>12. ServingFits'
  <2>1. serving.index + 1 \in Nat
    BY <1>2
  <2>2. \/ serving' = Idle
        \/ \E a \in Batches, i, n \in Nat : serving' = [batch |-> {a}, index |-> i, size |-> n]
    BY <1>2, <1>9, <2>1
  <2>3. Groups' = Groups
    BY DEF Groups
  <2> QED
    BY <1>1, <2>2, <2>3 DEF ServingFits, Idle
<1>13. Sound' = Sound
  BY SameStates
<1>14. \A a : (InSplit(a)' <=> InSplit(a)) /\ (Passed(a)' <=> Passed(a))
  BY <1>7 DEF InSplit, Passed
<1>15. Apart'
  BY <1>1, <1>2, <1>11, <1>13, <1>14 DEF Apart
<1>16. Reached'
  BY <1>7, ReachedStays DEF TransferOf
<1>17. JobsFit' /\ funds' \in Nat /\ spent' \in Nat /\ \A d \in Dedupes : ~Running(d) => reps'[d] = reps[d]
  BY <1>1, JobsFrame DEF Inv
<1>18. Total' = Total
  <2>1. /\ InJobs' = InJobs /\ InBatches' = InBatches /\ spent' = spent /\ funds' = funds
        /\ InAccounts("A")' = InAccounts("A") /\ InAccounts("R")' = InAccounts("R")
    BY LedgerFrame DEF Sides
  <2> QED
    BY <1>6, <2>1 DEF Total
<1> QED
  BY <1>1, <1>4, <1>7, <1>11, <1>12, <1>15, <1>16, <1>17, <1>18, PipeStep

\* TakeRequest: a caller gets a repetition of the batch.
LEMMA TakeRequestStep ==
    ASSUME Inv, NEW c \in Callers, TakeRequest(c)
    PROVE  Inv'
<1> DEFINE b == CHOOSE x \in serving.batch : TRUE
           last == serving.index = serving.size - 1
           r0 == Rep(b, serving.index, last)
           v == PayIntent(r0, c)
<1>1. /\ caller[c] = "sending" /\ ~Inputs /\ Ready("requests") /\ serving # Idle
      /\ Emit("requests", <<Send("payIntents", v)>>)
      /\ serving' = IF last THEN Idle ELSE [serving EXCEPT !.index = @ + 1]
      /\ caller' = [caller EXCEPT ![c] = "waiting"]
      /\ UNCHANGED <<st, graceful, hard, paying, funds, credits, used, reqsSeen, signalSeen, virtual, accounts,
                     reps, holds, wg, spent, closer, faults, mayHard>>
  BY DEF TakeRequest, ctxVars, batchVars, sideVars
<1>2. b \in Batches /\ serving.index \in Nat
  BY <1>1, Served
<1>3. last \in BOOLEAN
  OBVIOUS
<1> HIDE DEF b, last
<1>4. v \in NewJobs /\ v.rep = r0
  BY <1>2, <1>3, MakeRep
<1> HIDE DEF v
<1>5. v \in Jobs /\ v.stage = "new"
  BY <1>4 DEF NewJobs
<1>6. RepIn(v) = r0 /\ InHands(v) = 0 /\ Fits("requests", <<Send("payIntents", v)>>)
  <2>1. InHands(v) = 0
    BY <1>5, Worths
  <2>2. Fits("requests", <<Send("payIntents", v)>>)
    BY <1>4, FitsOne, Zenon
  <2> QED
    BY <1>4, <1>5, <2>1, <2>2, Repeats
<1>7. Counted'
  <2>1. Counted /\ "waiting" \in CallerPC /\ holds \in [Callers -> Nat]
    BY DEF Inv, Counted, CallerPC
  <2>2. holds[c] = 0
    BY <1>1, <2>1 DEF Counted
  <2> QED
    BY <1>1, <2>1, <2>2, CallerMoves
<1>8. InCallers' = InCallers /\ reqsSeen' \in BOOLEAN
  BY <1>1, LedgerFrame DEF Inv, Order
<1>9. serving' = Idle \/ (~last /\ serving' = [serving EXCEPT !.index = @ + 1])
  BY <1>1, <1>3
<1>10. RepIn(v) = Rep(CHOOSE x \in serving.batch : TRUE, serving.index, last)
  BY <1>6 DEF b
<1> HIDE DEF r0
<1> QED
  BY <1>1, <1>3, <1>6, <1>7, <1>8, <1>9, <1>10, RepSent

\* EndBatch: the rest of the batch is passed on.
LEMMA EndBatchStep ==
    ASSUME Inv, EndBatch
    PROVE  Inv'
<1> DEFINE b == CHOOSE x \in serving.batch : TRUE
           r0 == Rep(b, serving.index, TRUE)
<1>1. /\ Ready("requests") /\ serving # Idle /\ Emit("requests", <<Send("remaining", r0)>>) /\ serving' = Idle
      /\ reqsSeen' \in BOOLEAN
      /\ UNCHANGED <<st, graceful, hard, paying, funds, credits, used, signalSeen, virtual, accounts,
                     reps, caller, holds, wg, spent, closer, faults, mayHard>>
  BY DEF EndBatch, ctxVars, batchVars, sideVars, outerVars, callerVars
<1>2. b \in Batches /\ serving.index \in Nat
  BY <1>1, Served
<1> HIDE DEF b
<1>3. r0 \in Reps
  BY <1>2, MakeRep
<1>4. RepIn(r0) = Rep(CHOOSE x \in serving.batch : TRUE, serving.index, TRUE)
  BY <1>3, Repeats DEF b
<1> HIDE DEF r0
<1>5. InHands(r0) = 0 /\ Fits("requests", <<Send("remaining", r0)>>)
  <2>1. InHands(r0) = 0
    BY <1>3, Worths
  <2>2. Fits("requests", <<Send("remaining", r0)>>)
    BY <1>3, FitsOne, Zenon
  <2> QED
    BY <2>1, <2>2
<1>6. Counted' /\ InCallers' = InCallers
  BY <1>1, CountedFrame, LedgerFrame DEF Inv
<1> QED
  BY <1>1, <1>4, <1>5, <1>6, RepSent

\* TakeBatch: CreateIntents receives a batch, or passes it on at once.
LEMMA TakeBatchStep ==
    ASSUME Inv, NEW w \in Senders("batches"), TakeBatch(w)
    PROVE  Inv'
<1>1. /\ Slots /\ w = "split" /\ Offer(w) \in Tokens /\ Tail(pend[w]) = <<>> /\ w \in Steps /\ Running(w)
      /\ pend[w] # <<>> /\ "requests" \in Steps
  BY StepNames, SentBatches DEF Inv, Senders
<1>2. PICK b \in Batches : Offer(w) = Batch(b)
  BY <1>1 DEF Tokens
<1>3. Offer(w).batch = b /\ InHands(Offer(w)) = 0 /\ pend["split"] = <<Send("batches", Batch(b))>>
  <2>1. InHands(Offer(w)) = 0
    BY <1>1, Worths
  <2>2. pend[w] = <<Send("batches", Offer(w))>>
    BY <1>1, WholeMessage
  <2> QED
    BY <1>1, <1>2, <2>1, <2>2, BatchNames
<1>4. /\ Ready("requests") /\ serving = Idle
      /\ UNCHANGED <<st, graceful, hard, paying, funds, credits, used, reqsSeen, signalSeen, virtual, accounts,
                     reps, caller, holds, wg, spent, closer, faults, mayHard>>
  BY DEF TakeBatch, ctxVars, batchVars, sideVars, outerVars, callerVars
<1>5. PICK r0 : r0 = Rep(b, 0, TRUE)
  OBVIOUS
<1>6. r0 \in Reps /\ r0.batch = b /\ r0.index = 0
  <2>1. 0 \in Nat /\ TRUE \in BOOLEAN
    OBVIOUS
  <2> QED
    BY <1>5, <2>1, MakeRep, Zenon
<1>7. PICK out : out = IF reqsSeen THEN <<Send("remaining", r0)>> ELSE <<>>
  OBVIOUS
<1>8. /\ Move(w, "requests", out)
      /\ serving' = IF reqsSeen THEN serving ELSE [batch |-> {b}, index |-> 0, size |-> credits[b]]
  BY <1>3, <1>5, <1>7 DEF TakeBatch
<1>9. Fits("requests", out) /\ Load(out) = 0
  <2>1. Fits("requests", <<>>) /\ Load(<<>>) = 0
    BY <1>1, FitsOne, Loads
  <2>2. Fits("requests", <<Send("remaining", r0)>>)
    BY <1>6, FitsOne, Zenon
  <2>3. InHands(r0) = 0
    BY <1>6, Worths
  <2>4. Load(<<Send("remaining", r0)>>) = 0
    BY <2>3, Loads
  <2> QED
    BY <1>7, <2>1, <2>2, <2>4
<1>10. /\ Slots' /\ Rewires({w, "requests"}) /\ pend'[w] = Tail(pend[w]) /\ pend'["requests"] = out
       /\ Carried' = Carried - InHands(Offer(w)) + Load(out) /\ Carried \in Nat
  <2>1. Fits(w, Tail(pend[w]))
    BY <1>1, TailFits
  <2> QED
    BY <1>1, <1>4, <1>8, <1>9, <2>1, MoveStep
<1>11. Carried' = Carried
  BY <1>3, <1>9, <1>10
<1>12. /\ pend'["pay"] = pend["pay"] /\ pend'["route"] = pend["route"] /\ pend'["split"] = <<>>
       /\ pend'["dedupeBatches"] = pend["dedupeBatches"]
       /\ pend'["consolidateA"] = pend["consolidateA"] /\ pend'["consolidateR"] = pend["consolidateR"]
  BY <1>1, <1>10, StepNames DEF Rewires
<1>13. ServingFits /\ Unique /\ Repetitions /\ Apart /\ JobsFit
  BY DEF Inv
<1>14. \A c : (InSplit(c) <=> c = b) /\ ~InSplit(c)' /\ (Passed(c)' <=> Passed(c))
  <2>1. \A c : Names(<<Send("batches", Batch(b))>>, c) <=> Batch(b) = Batch(c)
    BY Tidings, Zenon
  <2>2. \A c : Batch(b) = Batch(c) <=> c = b
    BY BatchNames, Zenon
  <2>3. \A c : ~Names(<<>>, c)
    BY Tidings, Zenon
  <2>4. \A c : Names(pend["split"], c) <=> c = b
    BY <1>3, <2>1, <2>2, Zenon
  <2> QED
    BY <1>12, <2>3, <2>4 DEF InSplit, Passed
<1>15. ~Passed(b) /\ ~InService(b) /\ b \in used
  BY <1>13, <1>14 DEF Apart
<1>16. b \notin DOMAIN Groups /\ \A r \in Reps : Flying(r) => r.batch # b
  BY <1>15 DEF InService
<1>17. \A r : ~AtRequests(r)
  BY <1>4, Repeats DEF AtRequests, Ready
<1>18. serving.batch = {}
  BY <1>4 DEF Idle
<1>19. /\ Unique' /\ Repetitions' /\ InService(b)'
       /\ \A c \in Batches : c # b => (InService(c)' <=> InService(c))
  <2>1. CASE reqsSeen
    <3>1. \A r : AtRequests(r)' <=> r = r0
      <4>1. \A r : RepsAt(<<Send("remaining", r0)>>, r) <=> RepIn(r0) = r
        BY Repeats, Zenon
      <4>2. RepIn(r0) = r0
        BY <1>6, Repeats, Zenon
      <4>3. pend'["requests"] = <<Send("remaining", r0)>>
        BY <1>7, <1>10, <2>1
      <4>4. \A r : RepsAt(pend'["requests"], r) <=> r0 = r
        BY <4>1, <4>2, <4>3, Zenon
      <4> QED
        BY <4>4 DEF AtRequests
    <3>2. serving' = serving
      BY <1>8, <2>1
    <3>3. serving.batch \in {{}, {r0.batch}} /\ serving'.batch \in {{}, {r0.batch}} /\ serving'.batch # {r0.batch}
      BY <1>18, <3>2
    <3>4. /\ Unique' /\ Repetitions' /\ InService(r0.batch)'
          /\ \A c \in Batches : c # r0.batch => (InService(c)' <=> InService(c))
      BY <1>4, <1>6, <1>12, <1>13, <1>16, <1>17, <3>1, <3>3, NewRep
    <3> QED
      BY <1>6, <3>4
  <2>2. CASE ~reqsSeen
    <3>1. serving' = [batch |-> {b}, index |-> 0, size |-> credits[b]] /\ pend'["requests"] = <<>>
      BY <1>7, <1>8, <1>10, <2>2
    <3>2. \A r : (AtRequests(r)' <=> AtRequests(r)) /\ (AtJob(r)' <=> AtJob(r)) /\ (AtPay(r)' <=> AtPay(r))
      <4>1. pend'["requests"] = pend["requests"]
        BY <1>4, <3>1 DEF Ready
      <4> QED
        BY <1>4, <1>12, <4>1 DEF AtRequests, AtJob, AtPay
    <3>3. Unique'
      BY <1>4, <1>12, <1>13, <3>2 DEF Unique
    <3>4. (\A r : Flying(r)' <=> Flying(r)) /\ Groups' = Groups
      BY <1>4, <3>2 DEF Flying, Groups
    <3>5. serving'.batch = {b}
      BY <3>1
    <3>6. Repetitions'
      <4>1. \A r \in Reps : Flying(r) => serving'.batch # {r.batch}
        BY <1>16, <3>5
      <4>2. \A c \in DOMAIN Groups : serving'.batch # {c}
        BY <1>16, <3>5
      <4> QED
        BY <1>13, <3>4, <4>1, <4>2 DEF Repetitions
    <3>7. InService(b)'
      BY <3>5 DEF InService
    <3>8. \A c \in Batches : c # b => (InService(c)' <=> InService(c))
      BY <1>18, <3>4, <3>5 DEF InService
    <3> QED
      BY <3>3, <3>6, <3>7, <3>8
  <2> QED
    BY <2>1, <2>2
<1>20. ServingFits'
  <2>1. credits[b] \in Nat
    BY <1>13 DEF ServingFits
  <2>2. \/ serving' = Idle
        \/ \E a \in Batches, i, n \in Nat : serving' = [batch |-> {a}, index |-> i, size |-> n]
    BY <1>4, <1>8, <2>1
  <2>3. Groups' = Groups
    BY <1>4 DEF Groups
  <2> QED
    BY <1>4, <1>13, <2>2, <2>3 DEF ServingFits, Idle
<1>21. Sound' = Sound
  BY <1>4, SameStates
<1>22. Apart'
  BY <1>4, <1>13, <1>14, <1>15, <1>19, <1>21 DEF Apart
<1>23. Reached'
  BY <1>4, <1>12, ReachedStays DEF TransferOf
<1>24. Counted' /\ JobsFit' /\ funds' \in Nat /\ spent' \in Nat /\ reqsSeen' \in BOOLEAN
  BY <1>4, <1>13, CountedFrame, JobsFrame DEF Inv, Order
<1>25. Total' = Total
  <2>1. /\ InJobs' = InJobs /\ InBatches' = InBatches /\ spent' = spent /\ funds' = funds /\ InCallers' = InCallers
        /\ InAccounts("A")' = InAccounts("A") /\ InAccounts("R")' = InAccounts("R")
    BY <1>4, LedgerFrame DEF Sides
  <2> QED
    BY <1>11, <2>1 DEF Total
<1>26. Running("requests") /\ \A d \in Dedupes : ~Running(d) => reps'[d] = reps[d]
  BY <1>4 DEF Ready
<1> QED
  BY <1>4, <1>10, <1>12, <1>19, <1>20, <1>22, <1>23, <1>24, <1>25, <1>26, PipeStep
-----------------------------------------------------------------------------
(* The jobs of the payments *)

\* What the jobs hold when there is one more or one less.
LEMMA JobSums ==
    ASSUME NEW P, IsFiniteSet(P), P \subseteq Jobs, NEW j \in Jobs
    PROVE  LET Held(Q) == Sum([k \in Q |-> InHands(k)], Q)
           IN  /\ Held(P) \in Nat /\ InHands(j) \in Nat
               /\ j \notin P => Held(P \cup {j}) = Held(P) + InHands(j)
               /\ j \in P => Held(P \ {j}) = Held(P) - InHands(j) /\ Held(P \ {j}) \in Nat
<1> DEFINE f == [k \in Jobs |-> InHands(k)]
           Held(Q) == Sum([k \in Q |-> InHands(k)], Q)
<1>1. \A k \in Jobs : InHands(k) \in Nat /\ f[k] = InHands(k)
  BY Worths, WalletAssumption
<1>2. ASSUME NEW Q \in SUBSET Jobs PROVE Held(Q) = Sum(f, Q)
  <2> DEFINE g == [k \in Q |-> InHands(k)]
  <2>1. \A x \in Q : g[x] = f[x]
    OBVIOUS
  <2> HIDE DEF f, g
  <2>2. Sum(g, Q) = Sum(f, Q)
    BY <2>1, SumSame
  <2> QED
    BY <2>2 DEF g
<1> HIDE DEF f
<1>3. \A x \in P : f[x] \in Nat
  BY <1>1
<1>4. Sum(f, P) \in Nat /\ f[j] \in Nat
  BY <1>1, <1>3, UnitsFinite
<1>5. ASSUME j \notin P PROVE Sum(f, P \cup {j}) = Sum(f, P) + f[j]
  BY <1>3, <1>4, <1>5, SumAdd
<1>6. ASSUME j \in P PROVE Sum(f, P \ {j}) = Sum(f, P) - f[j] /\ Sum(f, P \ {j}) \in Nat
  BY <1>3, <1>6, SumRemove
<1>7. Held(P) = Sum(f, P) /\ Held(P \cup {j}) = Sum(f, P \cup {j}) /\ Held(P \ {j}) = Sum(f, P \ {j})
  <2>1. P \in SUBSET Jobs /\ (P \cup {j}) \in SUBSET Jobs /\ (P \ {j}) \in SUBSET Jobs
    OBVIOUS
  <2> QED
    BY <2>1, <1>2
<1> HIDE DEF Held
<1>8. /\ Held(P) \in Nat /\ InHands(j) \in Nat
      /\ j \notin P => Held(P \cup {j}) = Held(P) + InHands(j)
      /\ j \in P => Held(P \ {j}) = Held(P) - InHands(j) /\ Held(P \ {j}) \in Nat
  BY <1>1, <1>4, <1>5, <1>6, <1>7
<1> QED
  BY <1>8 DEF Held

\* The same repetitions are under way.
LEMMA FlyingStays ==
    ASSUME Repetitions, \A r : Flying(r)' <=> Flying(r), UNCHANGED <<serving, reps>>
    PROVE  Repetitions' /\ \A b \in Batches : InService(b)' <=> InService(b)
<1>1. Groups' = Groups
  BY DEF Groups
<1>2. Repetitions'
  BY <1>1 DEF Repetitions
<1> QED
  BY <1>1, <1>2 DEF InService

\* TakePayIntent: a slot of the payments takes an intent.
LEMMA TakePayIntentStep ==
    ASSUME Inv, NEW w \in Senders("payIntents"), TakePayIntent(w)
    PROVE  Inv'
<1>1. /\ Slots /\ w = "requests" /\ Offer(w) \in NewJobs /\ Tail(pend[w]) = <<>> /\ w \in Steps /\ Running(w)
      /\ pend[w] # <<>> /\ "requests" \in Steps /\ "pay" \in Steps
  BY StepNames, SentBatches DEF Inv, Senders
<1>2. PICK j : j = Offer(w)
  OBVIOUS
<1>3. j \in Jobs /\ j.stage = "new" /\ InHands(j) = 0 /\ j.rep \in Reps
  <2>1. j \in Jobs /\ j.stage = "new"
    BY <1>1, <1>2 DEF NewJobs
  <2> QED
    BY <2>1, Worths, Repeats
<1>4. pend["requests"] = <<Send("payIntents", j)>>
  BY <1>1, <1>2, WholeMessage
<1>5. /\ Running("pay") /\ Cardinality(paying) + Len(pend["pay"]) < MaxParallel
      /\ pend' = [pend EXCEPT !["requests"] = Tail(@)] /\ paying' = paying \cup {j}
      /\ UNCHANGED <<st, graceful, hard, funds, credits, used, serving, reqsSeen, signalSeen, virtual, accounts,
                     reps, caller, holds, wg, spent, closer, faults, mayHard>>
  BY <1>1, <1>2 DEF TakePayIntent, PaySlot, ctxVars, batchVars, flowVars, sideVars, outerVars, callerVars
<1>6. Rewires({"requests"}) /\ pend'["requests"] = <<>>
  BY <1>1, <1>5 DEF Rewires, Slots
<1>7. Slots'
  BY <1>1, <1>5, <1>6, FitsOne, SlotsStep
<1>8. Carried' = Carried
  <2>1. /\ Carried' = Carried - Load(pend["requests"]) + Load(pend'["requests"])
        /\ Carried \in Nat /\ Load(pend["requests"]) \in Nat
    BY <1>1, <1>6, <1>7, CarriedOne
  <2>2. Load(pend["requests"]) = InHands(j) + Load(Tail(pend["requests"]))
    BY <1>1, <1>2, LoadHead
  <2>3. Load(<<>>) = 0
    BY Loads
  <2>4. Load(pend["requests"]) = 0 /\ Load(pend'["requests"]) = 0
    <3>1. Tail(pend["requests"]) = <<>>
      BY <1>1
    <3>2. Load(Tail(pend["requests"])) = 0 /\ Load(pend'["requests"]) = 0
      BY <1>6, <2>3, <3>1, Zenon
    <3> QED
      BY <1>3, <2>2, <3>2
  <2> QED
    BY <2>1, <2>4
<1>9. /\ pend'["pay"] = pend["pay"] /\ pend'["route"] = pend["route"] /\ pend'["split"] = pend["split"]
      /\ pend'["dedupeBatches"] = pend["dedupeBatches"]
      /\ pend'["consolidateA"] = pend["consolidateA"] /\ pend'["consolidateR"] = pend["consolidateR"]
  BY <1>6, StepNames DEF Rewires
<1>10. ServingFits /\ Unique /\ Repetitions /\ Apart /\ JobsFit
  BY DEF Inv
<1>11. \A r : (AtRequests(r) <=> r = j.rep) /\ ~AtRequests(r)'
  <2>1. \A r : RepsAt(<<Send("payIntents", j)>>, r) <=> RepIn(j) = r
    BY Repeats, Zenon
  <2>2. RepIn(j) = j.rep
    BY <1>3, Repeats, Zenon
  <2>3. \A r : RepsAt(pend["requests"], r) <=> j.rep = r
    BY <1>4, <2>1, <2>2, Zenon
  <2>4. \A r : ~RepsAt(pend'["requests"], r)
    BY <1>6, Repeats
  <2> QED
    BY <2>3, <2>4 DEF AtRequests
<1>12. \A r : (AtJob(r)' <=> AtJob(r) \/ r = j.rep) /\ (AtPay(r)' <=> AtPay(r))
  BY <1>5, <1>9 DEF AtJob, AtPay
<1>13. \A r : Flying(r)' <=> Flying(r)
  BY <1>11, <1>12 DEF Flying
<1>14. Repetitions' /\ \A b \in Batches : InService(b)' <=> InService(b)
  BY <1>5, <1>10, <1>13, FlyingStays
<1>15. \A q \in Reps : AtJob(q) \/ AtPay(q) => ~Same(j.rep, q) /\ ~Same(q, j.rep)
  BY <1>3, <1>10, <1>11 DEF Unique, Same
<1>16. \A k \in paying : AtJob(k.rep) /\ k.rep \in Reps
  BY <1>10, Repeats DEF AtJob, JobsFit
<1>17. j \notin paying
  BY <1>15, <1>16 DEF Same
<1>18. Unique'
  <2>1. \A i, k \in DOMAIN pend'["pay"] : Same(pend'["pay"][i].val, pend'["pay"][k].val) => i = k
    BY <1>9, <1>10 DEF Unique
  <2>2. \A a, k \in paying' : Same(a.rep, k.rep) => a = k
    <3>1. \A a, k \in paying : Same(a.rep, k.rep) => a = k
      BY <1>10 DEF Unique
    <3>2. \A a \in paying : ~Same(a.rep, j.rep) /\ ~Same(j.rep, a.rep)
      BY <1>15, <1>16
    <3> QED
      BY <1>5, <3>1, <3>2
  <2>3. \A r, q \in Reps : AtRequests(r)' /\ (AtJob(q)' \/ AtPay(q)') => ~Same(r, q)
    BY <1>11
  <2>4. \A r, q \in Reps : AtJob(r)' /\ AtPay(q)' => ~Same(r, q)
    BY <1>10, <1>12, <1>15 DEF Unique
  <2> QED
    BY <2>1, <2>2, <2>3, <2>4 DEF Unique
<1>19. JobsFit'
  <2>1. IsFiniteSet(paying') /\ Cardinality(paying') = Cardinality(paying) + 1
    BY <1>5, <1>10, <1>17, FS_AddElement DEF JobsFit
  <2>2. Cardinality(paying) \in Nat /\ Len(pend["pay"]) \in Nat
    <3>1. pend["pay"] \in Seq(Paid)
      BY <1>1 DEF Slots, Fits
    <3> QED
      BY <1>10, <3>1, FS_CardinalityType, LenProperties DEF JobsFit
  <2>3. Cardinality(paying') <= MaxParallel
    BY <1>5, <2>1, <2>2, WalletAssumption
  <2> QED
    BY <1>3, <1>5, <1>10, <2>1, <2>3 DEF JobsFit, Running
<1>20. \A b : (InSplit(b)' <=> InSplit(b)) /\ (Passed(b)' <=> Passed(b))
  BY <1>9 DEF InSplit, Passed
<1>21. Sound' = Sound
  BY <1>5, SameStates
<1>22. Apart'
  BY <1>5, <1>10, <1>14, <1>20, <1>21 DEF Apart
<1>23. ServingFits'
  BY <1>5, <1>10 DEF ServingFits, Groups
<1>24. Reached'
  BY <1>5, <1>9, ReachedStays DEF TransferOf
<1>25. Counted' /\ funds' \in Nat /\ spent' \in Nat /\ reqsSeen' \in BOOLEAN
  BY <1>5, CountedFrame DEF Inv, Order
<1>26. Total' = Total
  <2>1. /\ InBatches' = InBatches /\ spent' = spent /\ funds' = funds /\ InCallers' = InCallers
        /\ InAccounts("A")' = InAccounts("A") /\ InAccounts("R")' = InAccounts("R")
    BY <1>5, LedgerFrame DEF Sides
  <2>2. InJobs' = InJobs
    <3>1. InJobs' = InJobs + InHands(j) /\ InJobs \in Nat
      BY <1>3, <1>5, <1>10, <1>17, JobSums DEF InJobs, JobsFit
    <3> QED
      BY <1>3, <3>1
  <2> QED
    BY <1>8, <2>1, <2>2 DEF Total
<1> QED
  BY <1>5, <1>7, <1>9, <1>14, <1>18, <1>19, <1>22, <1>23, <1>24, <1>25, <1>26, PipeStep

\* WithdrawCredit: a job has taken a credit from its batch.
LEMMA WithdrawCreditStep ==
    ASSUME Inv, NEW j \in paying, WithdrawCredit(j)
    PROVE  Inv'
<1>1. PICK k : k = [j EXCEPT !.stage = "offered"]
  OBVIOUS
<1>2. PICK b : b = j.rep.batch
  OBVIOUS
<1>3. Slots /\ ServingFits /\ Unique /\ Repetitions /\ Apart /\ JobsFit
  BY DEF Inv
<1>4. j \in Jobs /\ j.rep \in Reps /\ b \in Batches /\ k \in Jobs /\ k.rep = j.rep /\ k.stage = "offered"
  <2>1. j \in Jobs
    BY <1>3 DEF JobsFit
  <2>2. j.rep \in Reps /\ k \in Jobs /\ k.rep = j.rep /\ k.stage = "offered"
    BY <1>1, <2>1 DEF Jobs
  <2> QED
    BY <1>2, <2>1, <2>2, RepFields
<1>5. /\ Running("pay") /\ j.stage = "new" /\ credits[b] > 0 /\ credits' = [credits EXCEPT ![b] = @ - 1]
      /\ paying' = (paying \ {j}) \cup {k}
      /\ UNCHANGED <<st, pend, graceful, hard, funds, used, serving, reqsSeen, signalSeen, virtual, accounts,
                     reps, caller, holds, wg, spent, closer, faults, mayHard>>
  BY <1>1, <1>2 DEF WithdrawCredit, pipeVars, flowVars, sideVars, outerVars, callerVars
<1>6. \A a, d \in paying : Same(a.rep, d.rep) => a = d
  BY <1>3 DEF Unique
<1>7. k \notin paying \ {j}
  BY <1>4, <1>6 DEF Same
<1>8. \A r : (AtJob(r)' <=> AtJob(r)) /\ (AtRequests(r)' <=> AtRequests(r)) /\ (AtPay(r)' <=> AtPay(r))
  BY <1>4, <1>5 DEF AtJob, AtRequests, AtPay
<1>9. \A r : Flying(r)' <=> Flying(r)
  BY <1>8 DEF Flying
<1>10. Repetitions' /\ \A c \in Batches : InService(c)' <=> InService(c)
  BY <1>3, <1>5, <1>9, FlyingStays
<1>11. Unique'
  <2>1. \A a, d \in paying' : Same(a.rep, d.rep) => a = d
    <3>1. \A a \in paying \ {j} : ~Same(a.rep, k.rep) /\ ~Same(k.rep, a.rep)
      BY <1>4, <1>6 DEF Same
    <3> QED
      BY <1>5, <1>6, <3>1
  <2> QED
    BY <1>3, <1>5, <1>8, <2>1 DEF Unique
<1>12. JobsFit' /\ InJobs' = InJobs + PrefetchAmount
  <2>1. PICK P : P = paying \ {j}
    OBVIOUS
  <2>2. IsFiniteSet(P) /\ Cardinality(P) = Cardinality(paying) - 1 /\ P \subseteq Jobs /\ k \notin P
    BY <1>3, <1>7, <2>1, FS_RemoveElement DEF JobsFit
  <2>3. IsFiniteSet(P \cup {k}) /\ Cardinality(P \cup {k}) = Cardinality(P) + 1 /\ Cardinality(paying) \in Nat
    BY <1>3, <2>2, FS_AddElement, FS_CardinalityType DEF JobsFit
  <2>4. IsFiniteSet(paying') /\ Cardinality(paying') = Cardinality(paying)
    BY <1>5, <2>1, <2>2, <2>3
  <2>5. JobsFit'
    BY <1>3, <1>4, <1>5, <2>4 DEF JobsFit, Running
  <2>6. InHands(j) = 0 /\ InHands(k) = PrefetchAmount /\ PrefetchAmount \in Nat
    BY <1>4, <1>5, Worths, WalletAssumption
  <2> DEFINE Held(Q) == Sum([i \in Q |-> InHands(i)], Q)
  <2>7. Held(paying) \in Nat /\ Held(P) = Held(paying) - InHands(j)
    BY <1>3, <1>4, <2>1, JobSums DEF JobsFit
  <2>8. Held(P \cup {k}) = Held(P) + InHands(k)
    BY <1>4, <2>2, JobSums
  <2>9. InJobs = Held(paying) /\ InJobs' = Held(P \cup {k})
    BY <1>5, <2>1 DEF InJobs
  <2> HIDE DEF Held
  <2> QED
    BY <2>5, <2>6, <2>7, <2>8, <2>9
<1>13. PICK n : n = credits[b] - 1
  OBVIOUS
<1>14. n \in Nat /\ credits[b] = n + 1
  BY <1>3, <1>4, <1>5, <1>13 DEF ServingFits
<1>15. /\ credits' \in [Batches -> Nat] /\ credits'[b] = n
       /\ \A c \in Batches \ {b} : credits'[c] = credits[c]
       /\ InBatches' = InBatches - credits[b] * PrefetchAmount + n * PrefetchAmount
  BY <1>3, <1>4, <1>5, <1>13, <1>14, CreditsChange
<1>16. InBatches = InBatches' + PrefetchAmount /\ InBatches' \in Nat
  <2>1. PICK P : P = PrefetchAmount
    OBVIOUS
  <2>2. P \in Nat
    BY <2>1, WalletAssumption
  <2>3. PICK m : m = n * P /\ m \in Nat
    BY <1>14, <2>2
  <2>4. (n + 1) * P = m + P
    BY <1>14, <2>2, <2>3
  <2>5. InBatches \in Nat
    BY LedgerNat
  <2>6. InBatches' \in Nat
    <3> DEFINE f == [c \in Batches |-> credits'[c] * PrefetchAmount]
    <3>1. \A c \in Batches : f[c] \in Nat
      BY <1>15, WalletAssumption
    <3> HIDE DEF f
    <3>2. Sum(f, Batches) \in Nat
      BY <3>1, WalletAssumption, UnitsFinite
    <3> QED
      BY <3>2 DEF f, InBatches
  <2>7. InBatches' = InBatches - (m + P) + m
    BY <1>14, <1>15, <2>1, <2>3, <2>4
  <2> QED
    BY <2>1, <2>2, <2>3, <2>5, <2>6, <2>7
<1>17. AtJob(j.rep) /\ Flying(j.rep) /\ InService(b)
  BY <1>2, <1>4 DEF AtJob, Flying, InService
<1>18. ~Passed(b) /\ b \in used
  BY <1>3, <1>4, <1>17 DEF Apart
<1>19. \A c : (InSplit(c)' <=> InSplit(c)) /\ (Passed(c)' <=> Passed(c))
  BY <1>5 DEF InSplit, Passed
<1>20. Sound' = Sound
  BY <1>5, SameStates
<1>21. Apart'
  <2>1. \A c \in Batches : Passed(c) \/ c \notin used => credits'[c] = credits[c]
    BY <1>15, <1>18
  <2> QED
    BY <1>3, <1>5, <1>10, <1>19, <1>20, <2>1 DEF Apart
<1>22. ServingFits'
  BY <1>3, <1>5, <1>15 DEF ServingFits, Groups
<1>23. Reached' /\ Slots'
  <2>1. Slots'
    BY <1>3, <1>5 DEF Slots, Running
  <2> QED
    BY <1>5, <2>1, ReachedStays
<1>24. Counted' /\ funds' \in Nat /\ spent' \in Nat /\ reqsSeen' \in BOOLEAN
  BY <1>5, CountedFrame DEF Inv, Order
<1>25. Total' = Total
  <2>1. /\ Carried' = Carried /\ spent' = spent /\ funds' = funds /\ InCallers' = InCallers
        /\ InAccounts("A")' = InAccounts("A") /\ InAccounts("R")' = InAccounts("R")
    BY <1>5, LedgerFrame DEF Sides
  <2>2. PICK P : P = PrefetchAmount
    OBVIOUS
  <2>3. P \in Nat /\ InJobs' = InJobs + P /\ InBatches = InBatches' + P /\ InBatches' \in Nat
    BY <1>12, <1>16, <2>2, WalletAssumption
  <2> QED
    BY <2>1, <2>3, LedgerNat DEF Total
<1> QED
  BY <1>5, <1>10, <1>11, <1>12, <1>21, <1>22, <1>23, <1>24, <1>25, PipeStep

\* One more repetition is paid for.
LEMMA PaidMore ==
    ASSUME NEW q \in Seq(Paid), NEW r0 \in Reps
    PROVE  LET p == q \o <<Send("paid", r0)>>
           IN  /\ p \in Seq(Paid)
               /\ DOMAIN p = (DOMAIN q) \cup {Len(q) + 1} /\ Len(q) + 1 \notin DOMAIN q
               /\ p[Len(q) + 1].val = r0
               /\ \A i \in DOMAIN q : p[i] = q[i]
<1> DEFINE m == Send("paid", r0)
<1>1. m \in Paid /\ m.val = r0
  BY DEF Paid, Send
<1> HIDE DEF m
<1>2. <<m>> \in Seq(Paid) /\ Len(<<m>>) = 1 /\ <<m>>[1] = m
  BY <1>1
<1>3. Len(q) \in Nat /\ DOMAIN q = 1 .. Len(q)
  BY LenProperties
<1>4. /\ (q \o <<m>>) \in Seq(Paid) /\ Len(q \o <<m>>) = Len(q) + 1
      /\ \A i \in 1 .. Len(q) + 1 : (q \o <<m>>)[i] = IF i <= Len(q) THEN q[i] ELSE <<m>>[i - Len(q)]
  BY <1>2, ConcatProperties
<1>5. DOMAIN (q \o <<m>>) = 1 .. Len(q) + 1
  BY <1>4, LenProperties
<1> DEFINE p == q \o <<m>>
<1> HIDE DEF p
<1>6. /\ p \in Seq(Paid) /\ DOMAIN p = 1 .. Len(q) + 1
      /\ \A i \in 1 .. Len(q) + 1 : p[i] = IF i <= Len(q) THEN q[i] ELSE <<m>>[i - Len(q)]
  BY <1>4, <1>5 DEF p
<1>7. DOMAIN p = (DOMAIN q) \cup {Len(q) + 1} /\ Len(q) + 1 \notin DOMAIN q
  BY <1>3, <1>6
<1>8. p[Len(q) + 1] = m
  <2>1. Len(q) + 1 - Len(q) = 1 /\ ~(Len(q) + 1 <= Len(q)) /\ Len(q) + 1 \in 1 .. Len(q) + 1
    BY <1>3
  <2>2. p[Len(q) + 1] = <<m>>[Len(q) + 1 - Len(q)]
    BY <1>6, <2>1
  <2> QED
    BY <1>2, <2>1, <2>2
<1>9. \A i \in DOMAIN q : p[i] = q[i]
  BY <1>3, <1>6
<1> QED
  BY <1>1, <1>6, <1>7, <1>8, <1>9 DEF p, m

\* Answer: the caller has the credit, and the repetition is back.
LEMMA AnswerStep ==
    ASSUME Inv, NEW j \in paying, Answer(j)
    PROVE  Inv'
<1>1. Slots /\ ServingFits /\ Unique /\ Repetitions /\ Apart /\ JobsFit /\ Counted /\ "pay" \in Steps
  BY StepNames DEF Inv
<1>2. PICK c, r0, q : c = j.req /\ r0 = j.rep /\ q = pend["pay"]
  OBVIOUS
<1>3. j \in Jobs /\ r0 \in Reps /\ c \in Callers /\ q \in Seq(Paid) /\ IsFiniteSet(paying)
  <2>1. j \in Jobs
    BY <1>1 DEF JobsFit
  <2>2. j.rep \in Reps /\ j.req \in Callers
    BY <2>1 DEF Jobs
  <2> QED
    BY <1>1, <1>2, <2>1, <2>2 DEF Slots, Fits, JobsFit
<1>4. /\ Running("pay") /\ j.stage = "offered" /\ caller[c] \in {"waiting", "dangling"}
      /\ caller' = [caller EXCEPT ![c] = IF @ = "waiting" THEN "paying" ELSE "returning"]
      /\ holds' = [holds EXCEPT ![c] = PrefetchAmount] /\ paying' = paying \ {j}
      /\ Emit("pay", <<Send("paid", r0)>>)
      /\ UNCHANGED <<st, graceful, hard, funds, credits, used, serving, reqsSeen, signalSeen, virtual, accounts,
                     reps, wg, spent, closer, faults, mayHard>>
  BY <1>2 DEF Answer, ctxVars, batchVars, flowVars, sideVars
<1>5. Rewires({"pay"}) /\ pend'["pay"] = q \o <<Send("paid", r0)>>
  BY <1>1, <1>2, <1>4 DEF Emit, Rewires, Slots
<1>6. /\ pend'["pay"] \in Seq(Paid)
      /\ DOMAIN pend'["pay"] = (DOMAIN pend["pay"]) \cup {Len(q) + 1} /\ Len(q) + 1 \notin DOMAIN pend["pay"]
      /\ pend'["pay"][Len(q) + 1].val = r0
      /\ \A i \in DOMAIN pend["pay"] : pend'["pay"][i] = pend["pay"][i]
  BY <1>2, <1>3, <1>5, PaidMore
<1>7. Slots'
  <2>1. Fits("pay", pend'["pay"])
    BY <1>6 DEF Fits
  <2> QED
    BY <1>1, <1>4, <1>5, <2>1, SlotsStep
<1>8. Carried' = Carried
  <2>1. Carried' = Carried - Load(pend["pay"]) + Load(pend'["pay"]) /\ Carried \in Nat
    BY <1>1, <1>5, <1>7, CarriedOne
  <2>2. Load(pend["pay"]) = 0 /\ Load(pend'["pay"]) = 0
    BY <1>2, <1>3, <1>6, Loads
  <2> QED
    BY <2>1, <2>2
<1>9. /\ pend'["requests"] = pend["requests"] /\ pend'["route"] = pend["route"] /\ pend'["split"] = pend["split"]
      /\ pend'["dedupeBatches"] = pend["dedupeBatches"]
      /\ pend'["consolidateA"] = pend["consolidateA"] /\ pend'["consolidateR"] = pend["consolidateR"]
  BY <1>5, StepNames DEF Rewires
<1>10. \A a, d \in paying : Same(a.rep, d.rep) => a = d
  BY <1>1 DEF Unique
<1>11. AtJob(r0) /\ \A r : AtJob(r)' <=> AtJob(r) /\ r # r0
  BY <1>2, <1>4, <1>10 DEF AtJob, Same
<1>12. \A r : AtPay(r)' <=> AtPay(r) \/ r = r0
  BY <1>6 DEF AtPay
<1>13. \A r : AtRequests(r)' <=> AtRequests(r)
  BY <1>9 DEF AtRequests
<1>14. \A r : Flying(r)' <=> Flying(r)
  BY <1>11, <1>12, <1>13 DEF Flying
<1>15. Repetitions' /\ \A b \in Batches : InService(b)' <=> InService(b)
  BY <1>1, <1>4, <1>14, FlyingStays
<1>16. \A p \in Reps : AtPay(p) => ~Same(r0, p) /\ ~Same(p, r0)
  BY <1>1, <1>3, <1>11 DEF Unique, Same
<1>17. \A i \in DOMAIN pend["pay"] : pend["pay"][i].val \in Reps /\ AtPay(pend["pay"][i].val)
  <2>1. ASSUME NEW i \in DOMAIN pend["pay"] PROVE pend["pay"][i].val \in Reps /\ AtPay(pend["pay"][i].val)
    <3>1. pend["pay"][i] \in Paid
      BY <1>2, <1>3
    <3>2. pend["pay"][i].val \in Reps
      BY <3>1 DEF Paid, Send
    <3> QED
      BY <3>2 DEF AtPay
  <2> QED
    BY <2>1
<1>18. Unique'
  <2>1. ASSUME NEW i \in DOMAIN pend'["pay"], NEW k \in DOMAIN pend'["pay"],
               Same(pend'["pay"][i].val, pend'["pay"][k].val)
        PROVE  i = k
    <3>1. CASE i \in DOMAIN pend["pay"] /\ k \in DOMAIN pend["pay"]
      <4>1. Same(pend["pay"][i].val, pend["pay"][k].val)
        BY <1>6, <2>1, <3>1
      <4> QED
        BY <1>1, <3>1, <4>1 DEF Unique
    <3>2. CASE i \in DOMAIN pend["pay"] /\ k = Len(q) + 1
      BY <1>6, <1>16, <1>17, <2>1, <3>2
    <3>3. CASE i = Len(q) + 1 /\ k \in DOMAIN pend["pay"]
      BY <1>6, <1>16, <1>17, <2>1, <3>3
    <3> QED
      BY <1>6, <3>1, <3>2, <3>3
  <2>2. \A a, d \in paying' : Same(a.rep, d.rep) => a = d
    BY <1>4, <1>10
  <2>3. \A r, p \in Reps : AtRequests(r)' /\ (AtJob(p)' \/ AtPay(p)') => ~Same(r, p)
    BY <1>1, <1>11, <1>12, <1>13 DEF Unique
  <2>4. ASSUME NEW r \in Reps, NEW p \in Reps, AtJob(r)', AtPay(p)' PROVE ~Same(r, p)
    <3>1. CASE AtPay(p)
      BY <1>1, <1>11, <2>4, <3>1 DEF Unique
    <3>2. CASE p = r0
      <4>1. AtJob(r) /\ r # r0
        BY <1>11, <2>4
      <4>2. PICK a \in paying : a.rep = r
        BY <4>1 DEF AtJob
      <4>3. a # j
        BY <1>2, <4>1, <4>2
      <4> QED
        BY <1>2, <1>10, <3>2, <4>2, <4>3
    <3> QED
      BY <1>12, <2>4, <3>1, <3>2
  <2> QED
    BY <2>1, <2>2, <2>3, <2>4 DEF Unique
<1>19. JobsFit' /\ InJobs = InJobs' + PrefetchAmount /\ InJobs' \in Nat
  <2>1. IsFiniteSet(paying') /\ Cardinality(paying') = Cardinality(paying) - 1 /\ Cardinality(paying) \in Nat
    BY <1>3, <1>4, FS_RemoveElement, FS_CardinalityType
  <2>2. JobsFit'
    BY <1>1, <1>4, <2>1, WalletAssumption DEF JobsFit, Running
  <2>3. InHands(j) = PrefetchAmount /\ PrefetchAmount \in Nat
    BY <1>3, <1>4, Worths, WalletAssumption
  <2>4. InJobs \in Nat /\ InJobs' = InJobs - InHands(j) /\ InJobs' \in Nat
    BY <1>1, <1>3, <1>4, JobSums DEF InJobs, JobsFit
  <2> QED
    BY <2>2, <2>3, <2>4
<1>20. \A b : (InSplit(b)' <=> InSplit(b)) /\ (Passed(b)' <=> Passed(b))
  BY <1>9 DEF InSplit, Passed
<1>21. Sound' = Sound
  BY <1>4, SameStates
<1>22. Apart'
  BY <1>1, <1>4, <1>15, <1>20, <1>21 DEF Apart
<1>23. ServingFits'
  BY <1>1, <1>4 DEF ServingFits, Groups
<1>24. Reached'
  BY <1>4, <1>9, ReachedStays DEF TransferOf
<1>25. holds[c] = 0 /\ PrefetchAmount \in Nat
  BY <1>1, <1>3, <1>4, WalletAssumption DEF Counted
<1>26. /\ holds' \in [Callers -> Nat] /\ \A d \in Callers \ {c} : holds'[d] = holds[d]
       /\ InCallers' = InCallers - holds[c] + PrefetchAmount
  BY <1>1, <1>3, <1>4, <1>25, HoldsChange
<1>27. Counted'
  <2>1. PICK to : to = IF caller[c] = "waiting" THEN "paying" ELSE "returning"
    OBVIOUS
  <2>2. caller' = [caller EXCEPT ![c] = to] /\ to \in {"paying", "returning"}
    BY <1>4, <2>1
  <2>3. to \in CallerPC
    BY <2>2 DEF CallerPC
  <2> QED
    BY <1>1, <1>3, <1>4, <1>26, <2>2, <2>3, CallerMoves
<1>28. funds' \in Nat /\ spent' \in Nat /\ reqsSeen' \in BOOLEAN
  BY <1>4 DEF Inv, Order
<1>29. Total' = Total
  <2>1. /\ InBatches' = InBatches /\ spent' = spent /\ funds' = funds
        /\ InAccounts("A")' = InAccounts("A") /\ InAccounts("R")' = InAccounts("R")
    BY <1>4, LedgerFrame DEF Sides
  <2>2. PICK P : P = PrefetchAmount
    OBVIOUS
  <2>3. P \in Nat /\ InJobs = InJobs' + P /\ InCallers' = InCallers + P /\ InJobs' \in Nat
    BY <1>19, <1>25, <1>26, <2>2, LedgerNat
  <2> QED
    BY <1>8, <2>1, <2>3, LedgerNat DEF Total
<1> QED
  BY <1>4, <1>7, <1>9, <1>15, <1>18, <1>19, <1>22, <1>23, <1>24, <1>27, <1>28, <1>29, PipeStep
-----------------------------------------------------------------------------
(* Repetitions come back *)

\* What DedupeBatches receives: a repetition, which is then no longer under way.
LEMMA RepBack ==
    ASSUME Inv, NEW w \in Senders("remaining") \cup Senders("paid"), NEW r0, r0 = Offer(w),
           Rewires({w, "dedupeBatches"}), pend'[w] = Tail(pend[w]), paying' = paying
    PROVE  /\ w \in {"requests", "pay"} /\ r0 \in Reps /\ Flying(r0) /\ Unique'
           /\ \A r : Flying(r)' => Flying(r)
           /\ \A r \in Reps : Flying(r)' => ~Same(r, r0)
           /\ \A r : Flying(r) => Flying(r)' \/ r = r0
<1>0. Slots /\ Unique /\ "pay" \in Steps /\ "requests" \in Steps /\ pend["pay"] \in Seq(Paid)
  BY StepNames DEF Inv, Slots, Fits
<1>1. /\ \/ w \in Senders("remaining") /\ w = "requests" /\ Tail(pend[w]) = <<>>
         \/ w \in Senders("paid") /\ w = "pay"
      /\ r0 \in Reps /\ pend[w] # <<>>
  BY <1>0, SentBatches DEF Senders
<1>2. \A r : AtJob(r)' <=> AtJob(r)
  BY DEF AtJob
<1>3. CASE w = "requests"
  <2>1. pend["requests"] = <<Send("remaining", r0)>> /\ pend'["requests"] = <<>> /\ pend'["pay"] = pend["pay"]
    <3>1. w \in Senders("remaining") /\ Tail(pend[w]) = <<>>
      BY <1>1, <1>3
    <3>2. pend[w] = <<Send("remaining", Offer(w))>>
      BY <1>0, <1>3, <3>1, WholeMessage
    <3> QED
      BY <1>0, <1>3, <3>1, <3>2 DEF Rewires
  <2>2. \A r : (AtRequests(r) <=> r = r0) /\ ~AtRequests(r)'
    <3>1. \A r : RepsAt(<<Send("remaining", r0)>>, r) <=> RepIn(r0) = r
      BY Repeats, Zenon
    <3>2. RepIn(r0) = r0
      BY <1>1, Repeats, Zenon
    <3>3. \A r : RepsAt(pend["requests"], r) <=> r0 = r
      BY <2>1, <3>1, <3>2, Zenon
    <3>4. \A r : ~RepsAt(pend'["requests"], r)
      BY <2>1, Repeats
    <3> QED
      BY <3>3, <3>4 DEF AtRequests
  <2>3. \A r : AtPay(r)' <=> AtPay(r)
    BY <2>1 DEF AtPay
  <2>4. \A r : Flying(r)' <=> AtJob(r) \/ AtPay(r)
    BY <1>2, <2>2, <2>3 DEF Flying
  <2>5. \A r : Flying(r) <=> AtJob(r) \/ AtPay(r) \/ r = r0
    BY <2>2 DEF Flying
  <2>6. \A r \in Reps : AtJob(r) \/ AtPay(r) => ~Same(r, r0)
    BY <1>0, <1>1, <2>2 DEF Unique, Same
  <2>7. Unique'
    BY <1>0, <1>2, <2>1, <2>2, <2>3 DEF Unique
  <2> QED
    BY <1>1, <1>3, <2>4, <2>5, <2>6, <2>7
<1>4. CASE w = "pay"
  <2>0. PICK q : q = pend["pay"]
    OBVIOUS
  <2>1. q \in Seq(Paid) /\ q # <<>> /\ pend'["pay"] = Tail(q) /\ pend'["requests"] = pend["requests"]
        /\ q[1].val = r0
    BY <1>0, <1>1, <1>4, <2>0, StepNames DEF Rewires, Offer
  <2>2. Len(q) \in Nat /\ DOMAIN q = 1 .. Len(q) /\ 1 \in DOMAIN q
    BY <2>1, LenProperties, EmptySeq
  <2>3. \A i \in DOMAIN Tail(q) : i \in Nat /\ i # 0 /\ i + 1 \in DOMAIN q /\ Tail(q)[i] = q[i + 1]
    <3>1. \A i \in DOMAIN Tail(q) : i \in Nat /\ i + 1 \in DOMAIN q /\ Tail(q)[i] = q[i + 1]
      BY <2>1, Shifted
    <3>2. Tail(q) \in Seq(Paid)
      BY <2>1, HeadTailProperties
    <3>3. \A i \in DOMAIN Tail(q) : i # 0
      BY <3>2, LenProperties
    <3> QED
      BY <3>1, <3>3
  <2>4. \A i \in DOMAIN q : i # 1 => i - 1 \in DOMAIN Tail(q) /\ Tail(q)[i - 1] = q[i]
    <3>1. Len(Tail(q)) = Len(q) - 1 /\ Tail(q) \in Seq(Paid) /\ \A i \in 1 .. Len(Tail(q)) : Tail(q)[i] = q[i + 1]
      BY <2>1, HeadTailProperties
    <3>2. DOMAIN Tail(q) = 1 .. Len(Tail(q))
      BY <3>1, LenProperties
    <3> QED
      BY <2>2, <3>1, <3>2
  <2>5. \A r : AtRequests(r)' <=> AtRequests(r)
    BY <2>1 DEF AtRequests
  <2>6. \A r : AtPay(r)' => \E i \in DOMAIN q : i # 1 /\ q[i].val = r
    BY <2>1, <2>3 DEF AtPay
  <2>7. ASSUME NEW r, AtPay(r) PROVE AtPay(r)' \/ r = r0
    <3>1. PICK i \in DOMAIN q : q[i].val = r
      BY <2>0, <2>7 DEF AtPay
    <3>2. i # 1 => i - 1 \in DOMAIN pend'["pay"] /\ pend'["pay"][i - 1].val = r
      BY <2>1, <2>4, <3>1, Zenon
    <3>3. i # 1 => AtPay(r)'
      BY <3>2, Zenon DEF AtPay
    <3> QED
      BY <2>1, <3>1, <3>3
  <2>8. AtPay(r0) /\ \A r : AtPay(r)' => AtPay(r)
    BY <2>0, <2>1, <2>2, <2>6 DEF AtPay
  <2>9. \A r : AtPay(r)' => ~Same(r, r0)
    BY <1>0, <2>0, <2>1, <2>2, <2>6 DEF Unique
  <2>10. \A r \in Reps : AtJob(r) \/ AtRequests(r) => ~Same(r, r0)
    BY <1>0, <1>1, <2>8 DEF Unique
  <2>11. Unique'
    <3>1. ASSUME NEW i \in DOMAIN pend'["pay"], NEW k \in DOMAIN pend'["pay"],
                 Same(pend'["pay"][i].val, pend'["pay"][k].val)
          PROVE  i = k
      <4>1. i \in Nat /\ k \in Nat /\ i + 1 \in DOMAIN q /\ k + 1 \in DOMAIN q /\ Same(q[i + 1].val, q[k + 1].val)
        BY <2>1, <2>3, <3>1
      <4>2. i + 1 = k + 1
        BY <1>0, <2>0, <4>1 DEF Unique
      <4> QED
        BY <4>1, <4>2
    <3>2. \A a, d \in paying' : Same(a.rep, d.rep) => a = d
      BY <1>0 DEF Unique
    <3>3. \A r, p \in Reps : AtRequests(r)' /\ (AtJob(p)' \/ AtPay(p)') => ~Same(r, p)
      BY <1>0, <1>2, <2>5, <2>8 DEF Unique
    <3>4. \A r, p \in Reps : AtJob(r)' /\ AtPay(p)' => ~Same(r, p)
      BY <1>0, <1>2, <2>8 DEF Unique
    <3> QED
      BY <3>1, <3>2, <3>3, <3>4 DEF Unique
  <2>12. Flying(r0) /\ \A r : Flying(r)' => Flying(r)
    BY <1>2, <2>5, <2>8 DEF Flying
  <2>13. \A r \in Reps : Flying(r)' => ~Same(r, r0)
    BY <1>2, <2>5, <2>9, <2>10 DEF Flying
  <2>14. \A r : Flying(r) => Flying(r)' \/ r = r0
    BY <1>2, <2>5, <2>7 DEF Flying
  <2> QED
    BY <1>1, <1>4, <2>11, <2>12, <2>13, <2>14
<1> QED
  BY <1>1, <1>3, <1>4

\* The group of a batch after one more repetition is back: what the others have
\* to do with it, and that none is out when it is complete.
LEMMA GroupGrows ==
    ASSUME Inv, NEW r0 \in Reps, Flying(r0), NEW g, g = AddRep(Group(Groups, r0.batch), r0.index, r0.last)
    PROVE  /\ g \in GroupType
           /\ \A r \in Reps : Flying(r) /\ r.batch = r0.batch /\ ~Same(r, r0) =>
                 /\ r.index \notin g.seen
                 /\ g.len # 0 => r.index < g.len /\ ~r.last
                 /\ r.last => \A i \in g.seen : i < r.index
           /\ g.len # 0 => g.seen \subseteq 0 .. g.len - 1
           /\ serving.batch = {r0.batch} => g.len = 0 /\ \A i \in g.seen : i < serving.index
           /\ Complete(g) =>
                 serving.batch # {r0.batch} /\ \A r \in Reps : Flying(r) /\ r.batch = r0.batch => Same(r, r0)
<1>1. PICK old : old = Group(Groups, r0.batch)
  OBVIOUS
<1>2. Repetitions /\ ServingFits
  BY DEF Inv
<1>3. r0.batch \in Batches /\ r0.index \in Nat /\ r0.last \in BOOLEAN
  BY RepFields
<1>4. /\ g.seen = old.seen \cup {r0.index} /\ g.len = (IF r0.last THEN r0.index + 1 ELSE old.len)
      /\ g = [seen |-> g.seen, len |-> g.len]
  BY <1>1 DEF AddRep
<1>5. \/ r0.batch \in DOMAIN Groups /\ old = Groups[r0.batch]
      \/ r0.batch \notin DOMAIN Groups /\ old.seen = {} /\ old.len = 0
  BY <1>1 DEF Group
<1>6. old.seen \subseteq Nat /\ old.len \in Nat
  BY <1>2, <1>5 DEF ServingFits, GroupType
<1>7. g \in GroupType
  BY <1>3, <1>4, <1>6 DEF GroupType
<1>8. ASSUME NEW r \in Reps, Flying(r), r.batch = r0.batch
      PROVE  /\ r.index \notin old.seen
             /\ old.len # 0 => r.index < old.len /\ ~r.last
             /\ r.last => \A i \in old.seen : i < r.index
  BY <1>2, <1>5, <1>8 DEF Repetitions
<1>9. /\ old.len # 0 => old.seen \subseteq 0 .. old.len - 1
      /\ serving.batch = {r0.batch} => old.len = 0 /\ (\A i \in old.seen : i < serving.index)
                                       /\ ~r0.last /\ r0.index < serving.index
  <2>1. r0.batch \in DOMAIN Groups => /\ old.len # 0 => old.seen \subseteq 0 .. old.len - 1
                                      /\ serving.batch = {r0.batch} =>
                                            old.len = 0 /\ \A i \in old.seen : i < serving.index
    BY <1>2, <1>5 DEF Repetitions
  <2>2. serving.batch = {r0.batch} => ~r0.last /\ r0.index < serving.index
    BY <1>2 DEF Repetitions
  <2> QED
    BY <1>5, <2>1, <2>2
<1>10. ASSUME NEW r \in Reps, Flying(r), r.batch = r0.batch, ~Same(r, r0)
       PROVE  /\ r.index \notin g.seen
              /\ g.len # 0 => r.index < g.len /\ ~r.last
              /\ r.last => \A i \in g.seen : i < r.index
  <2>0. r.index \in Nat /\ r.last \in BOOLEAN /\ r.index # r0.index
    BY <1>10, RepFields DEF Same
  <2>1. /\ r.last => r0.index <= r.index
        /\ r0.last => r.index <= r0.index
    BY <1>2, <1>10 DEF Repetitions
  <2>2. r.index \notin g.seen
    BY <1>4, <1>8, <1>10, <2>0
  <2>3. g.len # 0 => r.index < g.len /\ ~r.last
    BY <1>3, <1>4, <1>8, <1>10, <2>0, <2>1
  <2>4. r.last => \A i \in g.seen : i < r.index
    BY <1>3, <1>4, <1>8, <1>10, <2>0, <2>1
  <2> QED
    BY <2>2, <2>3, <2>4
<1>11. g.len # 0 => g.seen \subseteq 0 .. g.len - 1
  <2>1. CASE r0.last
    <3>1. \A i \in old.seen : i < r0.index
      BY <1>8, <2>1
    <3>2. g.len - 1 = r0.index
      BY <1>3, <1>4, <2>1
    <3>3. \A i \in g.seen : i \in 0 .. r0.index
      BY <1>3, <1>4, <1>6, <3>1
    <3> QED
      BY <3>2, <3>3
  <2>2. CASE ~r0.last
    <3>1. g.len = old.len
      BY <1>4, <2>2
    <3>2. ASSUME old.len # 0 PROVE \A i \in g.seen : i \in 0 .. old.len - 1
      BY <1>3, <1>4, <1>6, <1>8, <1>9, <3>2
    <3> QED
      BY <3>1, <3>2
  <2> QED
    BY <2>1, <2>2
<1>12. serving.batch = {r0.batch} => g.len = 0 /\ \A i \in g.seen : i < serving.index
  BY <1>4, <1>9
<1>13. ASSUME Complete(g)
       PROVE  serving.batch # {r0.batch} /\ \A r \in Reps : Flying(r) /\ r.batch = r0.batch => Same(r, r0)
  <2>1. g.len # 0 /\ Cardinality(g.seen) = g.len /\ g.len \in Nat
    BY <1>7, <1>13 DEF Complete, GroupType
  <2>2. PICK n : n = g.len - 1
    OBVIOUS
  <2>3. n \in Nat /\ g.len = n + 1 /\ g.seen \subseteq 0 .. n
    BY <1>11, <2>1, <2>2
  <2>4. IsFiniteSet(0 .. n) /\ Cardinality(0 .. n) = n + 1
    BY <2>3, FS_Interval
  <2>5. g.seen = 0 .. n
    BY <2>1, <2>3, <2>4, FS_Subset
  <2>6. ASSUME NEW r \in Reps, Flying(r), r.batch = r0.batch, ~Same(r, r0) PROVE FALSE
    <3>1. r.index \notin g.seen /\ r.index < g.len
      BY <1>10, <2>1, <2>6
    <3>2. r.index \in Nat
      BY RepFields
    <3> QED
      BY <2>3, <2>5, <3>1, <3>2
  <2> QED
    BY <1>12, <2>1, <2>6
<1> QED
  BY <1>7, <1>10, <1>11, <1>12, <1>13

\* What DedupeBatches knows changes.
LEMMA GroupsChange ==
    ASSUME ServingFits, NEW groups, reps' = [reps EXCEPT !["dedupeBatches"] = groups]
    PROVE  /\ reps' = [d \in Dedupes |-> reps'[d]] /\ Groups' = groups
           /\ \A x \in Sides : reps'[DedupeOf(x)] = reps[DedupeOf(x)]
           /\ \A d \in Dedupes : d # "dedupeBatches" => reps'[d] = reps[d]
<1>1. reps = [d \in Dedupes |-> reps[d]] /\ "dedupeBatches" \in Dedupes
  BY DEF ServingFits, Dedupes
<1>2. \A x \in Sides : DedupeOf(x) \in Dedupes /\ DedupeOf(x) # "dedupeBatches"
  BY DEF Sides, DedupeOf, Dedupes
<1> QED
  BY <1>1, <1>2 DEF Groups

\* The dedupe steps of the sides know what they knew.
LEMMA ReachedKeeps ==
    ASSUME Inv, UNCHANGED <<st, hard, virtual, accounts>>,
           \A x \in Sides : reps'[DedupeOf(x)] = reps[DedupeOf(x)],
           pend'["consolidateA"] = pend["consolidateA"], pend'["consolidateR"] = pend["consolidateR"]
    PROVE  Reached'
<1>1. \A x \in Sides : pend'[TransferOf(x)] = pend[TransferOf(x)]
  BY DEF TransferOf
<1>2. \A x \in Sides : \A k : ToldOf(x, k)' <=> ToldOf(x, k)
  BY <1>1 DEF ToldOf
<1>3. Sound' = Sound
  BY SameStates
<1> QED
  BY <1>2, <1>3, ReachedFrame DEF Inv

\* A batch that none of whose repetitions is out leaves DedupeBatches: it is passed
\* on, or gone when it is empty.
LEMMA BatchLeaves ==
    ASSUME Inv, NEW b \in Batches, InService(b), serving.batch # {b}, serving' = serving,
           \A r : Flying(r)' => Flying(r),
           \A r \in Reps : Flying(r)' => r.batch # b,
           \A r \in Reps : Flying(r) /\ r.batch # b => Flying(r)',
           reps' = [reps EXCEPT !["dedupeBatches"] = Without(@, b)],
           pend["dedupeBatches"] = <<>>, pend'["split"] = pend["split"], UNCHANGED <<credits, st, hard>>,
           \/ /\ credits[b] > 0 /\ used' = used
              /\ pend'["dedupeBatches"] = <<Send("batchesToConsolidate", Batch(b))>>
           \/ /\ ~(credits[b] > 0) /\ used' = used \ {b}
              /\ pend'["dedupeBatches"] = <<>>
    PROVE  Repetitions' /\ ServingFits' /\ Apart'
<1>1. Repetitions /\ ServingFits /\ Apart
  BY DEF Inv
<1>2. reps' = [d \in Dedupes |-> reps'[d]] /\ Groups' = Without(Groups, b)
  <2>1. reps' = [reps EXCEPT !["dedupeBatches"] = Without(Groups, b)]
    BY <1>1 DEF Groups
  <2> HIDE DEF Without
  <2> QED
    BY <1>1, <2>1, GroupsChange
<1>3. /\ DOMAIN Groups' = (DOMAIN Groups) \ {b}
      /\ \A c \in (DOMAIN Groups) \ {b} : Groups'[c] = Groups[c]
  <2>1. /\ DOMAIN Without(Groups, b) = (DOMAIN Groups) \ {b}
        /\ \A c \in (DOMAIN Groups) \ {b} : Without(Groups, b)[c] = Groups[c]
    BY GroupDomains, Zenon
  <2> QED
    BY <1>2, <2>1, Zenon
<1>4. ServingFits'
  <2>1. DOMAIN Groups' \subseteq Batches /\ \A c \in DOMAIN Groups' : Groups'[c] \in GroupType
    BY <1>1, <1>3 DEF ServingFits
  <2> QED
    BY <1>1, <1>2, <2>1 DEF ServingFits, Idle
<1>5. Repetitions'
  <2>1. ASSUME NEW r \in Reps, Flying(r)'
        PROVE  /\ r.batch \in DOMAIN Groups' =>
                    /\ r.index \notin Groups'[r.batch].seen
                    /\ Groups'[r.batch].len # 0 => r.index < Groups'[r.batch].len /\ ~r.last
                    /\ r.last => \A i \in Groups'[r.batch].seen : i < r.index
               /\ serving'.batch = {r.batch} => ~r.last /\ r.index < serving'.index
    <3>1. Flying(r) /\ r.batch # b
      BY <2>1
    <3>2. r.batch \in DOMAIN Groups' => r.batch \in DOMAIN Groups /\ Groups'[r.batch] = Groups[r.batch]
      BY <1>3, <3>1
    <3> QED
      BY <1>1, <3>1, <3>2 DEF Repetitions
  <2>2. \A r, q \in Reps : Flying(r)' /\ Flying(q)' /\ r.batch = q.batch /\ r.last => q.index <= r.index
    BY <1>1 DEF Repetitions
  <2>3. ASSUME NEW c \in DOMAIN Groups'
        PROVE  /\ Groups'[c].len # 0 => Groups'[c].seen \subseteq 0 .. Groups'[c].len - 1
               /\ serving'.batch = {c} => Groups'[c].len = 0 /\ \A i \in Groups'[c].seen : i < serving'.index
    <3>1. c \in DOMAIN Groups /\ Groups'[c] = Groups[c]
      BY <1>3
    <3> QED
      BY <1>1, <3>1 DEF Repetitions
  <2> QED
    BY <2>1, <2>2, <2>3 DEF Repetitions
<1>6. ~InService(b)'
  BY <1>3 DEF InService
<1>7. \A c \in Batches : c # b => (InService(c)' <=> InService(c))
  BY <1>3 DEF InService
<1>8. ~InSplit(b) /\ ~Passed(b) /\ b \in used
  BY <1>1 DEF Apart
<1>9. \A c : (InSplit(c)' <=> InSplit(c)) /\ ~Passed(c)
  <2>1. \A c : ~Names(<<>>, c)
    BY Tidings, Zenon
  <2> QED
    BY <2>1 DEF InSplit, Passed
<1>10. Sound' = Sound
  BY SameStates
<1>11. CASE credits[b] > 0 /\ used' = used /\ pend'["dedupeBatches"] = <<Send("batchesToConsolidate", Batch(b))>>
  <2>1. \A c : Passed(c)' <=> c = b
    <3>1. \A c : Names(<<Send("batchesToConsolidate", Batch(b))>>, c) <=> Batch(b) = Batch(c)
      BY Tidings, Zenon
    <3>2. \A c : Batch(b) = Batch(c) <=> c = b
      BY BatchNames, Zenon
    <3>3. \A c : Names(pend'["dedupeBatches"], c) <=> c = b
      BY <1>11, <3>1, <3>2, Zenon
    <3> QED
      BY <3>3 DEF Passed
  <2>2. Apart'
    BY <1>1, <1>6, <1>7, <1>8, <1>9, <1>10, <1>11, <2>1 DEF Apart
  <2> QED
    BY <1>4, <1>5, <2>2
<1>12. CASE ~(credits[b] > 0) /\ used' = used \ {b} /\ pend'["dedupeBatches"] = <<>>
  <2>1. \A c : ~Passed(c)'
    <3>1. \A c : ~Names(pend'["dedupeBatches"], c)
      BY <1>12, Tidings
    <3> QED
      BY <3>1 DEF Passed
  <2>2. credits[b] = 0
    BY <1>1, <1>12 DEF ServingFits
  <2>3. Apart'
    BY <1>1, <1>6, <1>7, <1>8, <1>9, <1>10, <1>12, <2>1, <2>2 DEF Apart
  <2> QED
    BY <1>4, <1>5, <2>3
<1> QED
  BY <1>11, <1>12

\* A repetition is back and its batch stays with DedupeBatches.
LEMMA BatchKept ==
    ASSUME Inv, NEW r0 \in Reps, Flying(r0), NEW g, g = AddRep(Group(Groups, r0.batch), r0.index, r0.last),
           serving' = serving,
           \A r : Flying(r)' => Flying(r),
           \A r \in Reps : Flying(r)' => ~Same(r, r0),
           \A r : Flying(r) => Flying(r)' \/ r = r0,
           reps' = [reps EXCEPT !["dedupeBatches"] = With(@, r0.batch, g)],
           pend'["dedupeBatches"] = pend["dedupeBatches"], pend'["split"] = pend["split"],
           UNCHANGED <<credits, used, st, hard>>
    PROVE  Repetitions' /\ ServingFits' /\ Apart'
<1>0. PICK b : b = r0.batch
  OBVIOUS
<1>1. Repetitions /\ ServingFits /\ Apart /\ b \in Batches
  BY <1>0, RepFields DEF Inv
<1>2. reps' = [d \in Dedupes |-> reps'[d]] /\ Groups' = With(Groups, b, g)
  <2>1. reps' = [reps EXCEPT !["dedupeBatches"] = With(Groups, b, g)]
    BY <1>0, <1>1 DEF Groups
  <2> HIDE DEF With
  <2> QED
    BY <1>1, <2>1, GroupsChange
<1>3. /\ DOMAIN Groups' = (DOMAIN Groups) \cup {b} /\ Groups'[b] = g
      /\ \A c \in DOMAIN Groups : c # b => Groups'[c] = Groups[c]
  <2>1. /\ DOMAIN With(Groups, b, g) = (DOMAIN Groups) \cup {b} /\ With(Groups, b, g)[b] = g
        /\ \A c \in DOMAIN Groups : c # b => With(Groups, b, g)[c] = Groups[c]
    <3> HIDE DEF Groups, With
    <3>1. DOMAIN With(Groups, b, g) = (DOMAIN Groups) \cup {b}
      BY GroupDomains
    <3>2. With(Groups, b, g)[b] = g
      BY DEF With
    <3>3. \A c \in DOMAIN Groups : c # b => With(Groups, b, g)[c] = Groups[c]
      BY DEF With
    <3> QED
      BY <3>1, <3>2, <3>3
  <2>2. DOMAIN Groups' = DOMAIN With(Groups, b, g) /\ \A c : Groups'[c] = With(Groups, b, g)[c]
    BY <1>2, Zenon
  <2> HIDE DEF Groups, With
  <2>3. DOMAIN Groups' = (DOMAIN Groups) \cup {b}
    BY <2>1, <2>2, Zenon
  <2>4. Groups'[b] = g
    BY <2>1, <2>2, Zenon
  <2>5. \A c \in DOMAIN Groups : c # b => Groups'[c] = Groups[c]
    BY <2>1, <2>2, Zenon
  <2> QED
    BY <2>3, <2>4, <2>5, Zenon
<1>4. /\ g \in GroupType
      /\ \A r \in Reps : Flying(r) /\ r.batch = b /\ ~Same(r, r0) =>
            /\ r.index \notin g.seen
            /\ g.len # 0 => r.index < g.len /\ ~r.last
            /\ r.last => \A i \in g.seen : i < r.index
      /\ g.len # 0 => g.seen \subseteq 0 .. g.len - 1
      /\ serving.batch = {b} => g.len = 0 /\ \A i \in g.seen : i < serving.index
  BY <1>0, GroupGrows
<1>5. ServingFits'
  <2>1. DOMAIN Groups' \subseteq Batches /\ \A c \in DOMAIN Groups' : Groups'[c] \in GroupType
    BY <1>1, <1>3, <1>4 DEF ServingFits
  <2> QED
    BY <1>1, <1>2, <2>1 DEF ServingFits, Idle
<1>6. Repetitions'
  <2>1. ASSUME NEW r \in Reps, Flying(r)'
        PROVE  /\ r.batch \in DOMAIN Groups' =>
                    /\ r.index \notin Groups'[r.batch].seen
                    /\ Groups'[r.batch].len # 0 => r.index < Groups'[r.batch].len /\ ~r.last
                    /\ r.last => \A i \in Groups'[r.batch].seen : i < r.index
               /\ serving'.batch = {r.batch} => ~r.last /\ r.index < serving'.index
    <3>1. Flying(r) /\ ~Same(r, r0)
      BY <2>1
    <3>2. CASE r.batch = b
      BY <1>1, <1>3, <1>4, <3>1, <3>2 DEF Repetitions
    <3>3. CASE r.batch # b
      <4>1. r.batch \in DOMAIN Groups' => r.batch \in DOMAIN Groups /\ Groups'[r.batch] = Groups[r.batch]
        BY <1>3, <3>3
      <4> QED
        BY <1>1, <3>1, <4>1 DEF Repetitions
    <3> QED
      BY <3>2, <3>3
  <2>2. \A r, q \in Reps : Flying(r)' /\ Flying(q)' /\ r.batch = q.batch /\ r.last => q.index <= r.index
    BY <1>1 DEF Repetitions
  <2>3. ASSUME NEW c \in DOMAIN Groups'
        PROVE  /\ Groups'[c].len # 0 => Groups'[c].seen \subseteq 0 .. Groups'[c].len - 1
               /\ serving'.batch = {c} => Groups'[c].len = 0 /\ \A i \in Groups'[c].seen : i < serving'.index
    <3>1. CASE c = b
      BY <1>3, <1>4, <3>1
    <3>2. CASE c # b
      <4>1. c \in DOMAIN Groups /\ Groups'[c] = Groups[c]
        BY <1>3, <3>2
      <4> QED
        BY <1>1, <4>1 DEF Repetitions
    <3> QED
      BY <3>1, <3>2
  <2> QED
    BY <2>1, <2>2, <2>3 DEF Repetitions
<1>7. \A c \in Batches : InService(c)' <=> InService(c)
  <2>1. InService(b) /\ InService(b)'
    BY <1>0, <1>3 DEF InService
  <2>2. \A c \in Batches : c # b => (InService(c)' <=> InService(c))
    BY <1>0, <1>3 DEF InService
  <2> QED
    BY <2>1, <2>2
<1>8. \A c : (InSplit(c)' <=> InSplit(c)) /\ (Passed(c)' <=> Passed(c))
  BY DEF InSplit, Passed
<1>9. Sound' = Sound
  BY SameStates
<1>10. Apart'
  BY <1>1, <1>7, <1>8, <1>9 DEF Apart
<1> QED
  BY <1>5, <1>6, <1>10

\* DedupeBatch: a repetition is back, and its batch is passed on if it was the last.
LEMMA DedupeBatchStep ==
    ASSUME Inv, NEW w \in Senders("remaining") \cup Senders("paid"), DedupeBatch(w)
    PROVE  Inv'
<1>1. PICK r0, b : r0 = Offer(w) /\ b = r0.batch
  OBVIOUS
<1>2. PICK g : g = AddRep(Group(Groups, b), r0.index, r0.last)
  OBVIOUS
<1>3. Slots /\ "dedupeBatches" \in Steps /\ w \in Steps /\ Running(w) /\ pend[w] # <<>>
  BY StepNames DEF Inv, Senders
<1>4. r0 \in Reps /\ InHands(r0) = 0 /\ b \in Batches
  <2>1. r0 \in Reps
    BY <1>1, <1>3, SentBatches
  <2> QED
    BY <1>1, <2>1, Worths, RepFields
<1>5. PICK out : out = IF Complete(g) /\ credits[b] > 0 THEN <<Send("batchesToConsolidate", Batch(b))>> ELSE <<>>
  OBVIOUS
<1>6. /\ Ready("dedupeBatches") /\ Move(w, "dedupeBatches", out)
      /\ UNCHANGED <<st, graceful, hard, paying, funds, credits, serving, reqsSeen, signalSeen, virtual, accounts,
                     caller, holds, wg, spent, closer, faults, mayHard>>
      /\ ~Complete(g) => reps' = [reps EXCEPT !["dedupeBatches"] = With(@, b, g)] /\ used' = used
      /\ Complete(g) => /\ reps' = [reps EXCEPT !["dedupeBatches"] = Without(@, b)]
                        /\ credits[b] > 0 => used' = used
                        /\ ~(credits[b] > 0) => used' = used \ {b}
  <2> HIDE DEF Complete, AddRep, Group, With, Without, Move
  <2>1. /\ Ready("dedupeBatches")
        /\ UNCHANGED <<st, graceful, hard, paying, funds, credits, serving, reqsSeen, signalSeen, virtual, accounts,
                       caller, holds, wg, spent, closer, faults, mayHard>>
    BY DEF DedupeBatch, ctxVars, flowVars, sideVars, outerVars, callerVars
  <2>2. IF ~Complete(g)
        THEN /\ reps' = [reps EXCEPT !["dedupeBatches"] = With(@, b, g)]
             /\ Move(w, "dedupeBatches", <<>>)
             /\ UNCHANGED used
        ELSE /\ reps' = [reps EXCEPT !["dedupeBatches"] = Without(@, b)]
             /\ IF credits[b] > 0
                THEN /\ Move(w, "dedupeBatches", <<Send("batchesToConsolidate", Batch(b))>>)
                     /\ UNCHANGED used
                ELSE Move(w, "dedupeBatches", <<>>) /\ used' = used \ {b}
    BY <1>1, <1>2 DEF DedupeBatch, Groups
  <2> QED
    BY <1>5, <2>1, <2>2
<1>7. Fits("dedupeBatches", out) /\ Load(out) = 0
  <2>1. Fits("dedupeBatches", <<>>) /\ Load(<<>>) = 0
    BY <1>3, FitsOne, Loads
  <2>2. Batch(b) \in Tokens /\ InHands(Batch(b)) = 0
    BY <1>4, Worths DEF Tokens
  <2>3. Fits("dedupeBatches", <<Send("batchesToConsolidate", Batch(b))>>)
    BY <2>2, FitsOne, Zenon
  <2>4. Load(<<Send("batchesToConsolidate", Batch(b))>>) = 0
    BY <2>2, Loads
  <2>5. out = <<>> \/ out = <<Send("batchesToConsolidate", Batch(b))>>
    BY <1>5
  <2> QED
    BY <2>1, <2>3, <2>4, <2>5, Zenon
<1>8. /\ Slots' /\ w # "dedupeBatches" /\ Rewires({w, "dedupeBatches"}) /\ pend'[w] = Tail(pend[w])
      /\ pend'["dedupeBatches"] = out
      /\ Carried' = Carried - InHands(Offer(w)) + Load(out) /\ Carried \in Nat
  <2>1. Fits(w, Tail(pend[w]))
    BY <1>3, TailFits
  <2> QED
    BY <1>3, <1>6, <1>7, <2>1, MoveStep
<1>9. Carried' = Carried
  BY <1>1, <1>4, <1>7, <1>8
<1>10. /\ w \in {"requests", "pay"} /\ Flying(r0) /\ Unique'
       /\ \A r : Flying(r)' => Flying(r)
       /\ \A r \in Reps : Flying(r)' => ~Same(r, r0)
       /\ \A r : Flying(r) => Flying(r)' \/ r = r0
  BY <1>1, <1>6, <1>8, RepBack
<1>11. /\ pend'["route"] = pend["route"] /\ pend'["split"] = pend["split"] /\ pend["dedupeBatches"] = <<>>
       /\ pend'["consolidateA"] = pend["consolidateA"] /\ pend'["consolidateR"] = pend["consolidateR"]
  BY <1>6, <1>8, <1>10, StepNames DEF Rewires, Ready
<1>12. Repetitions' /\ ServingFits' /\ Apart'
  <2>1. CASE ~Complete(g)
    <3>1. reps' = [reps EXCEPT !["dedupeBatches"] = With(@, r0.batch, g)] /\ used' = used /\ out = <<>>
      BY <1>1, <1>5, <1>6, <2>1
    <3>2. pend'["dedupeBatches"] = pend["dedupeBatches"]
      BY <1>8, <1>11, <3>1
    <3>3. g = AddRep(Group(Groups, r0.batch), r0.index, r0.last)
      BY <1>1, <1>2
    <3> QED
      BY <1>4, <1>6, <1>10, <1>11, <3>1, <3>2, <3>3, BatchKept
  <2>2. CASE Complete(g)
    <3>1. serving.batch # {b} /\ \A r \in Reps : Flying(r) /\ r.batch = b => Same(r, r0)
      BY <1>1, <1>2, <1>4, <1>10, <2>2, GroupGrows
    <3>2. InService(b)
      BY <1>1, <1>4, <1>10 DEF InService
    <3>3. \A r \in Reps : Flying(r)' => r.batch # b
      BY <1>10, <3>1
    <3>4. \A r \in Reps : Flying(r) /\ r.batch # b => Flying(r)'
      BY <1>1, <1>10
    <3>5. \/ /\ credits[b] > 0 /\ used' = used
             /\ pend'["dedupeBatches"] = <<Send("batchesToConsolidate", Batch(b))>>
          \/ /\ ~(credits[b] > 0) /\ used' = used \ {b}
             /\ pend'["dedupeBatches"] = <<>>
      BY <1>5, <1>6, <1>8, <2>2
    <3>6. reps' = [reps EXCEPT !["dedupeBatches"] = Without(@, b)]
      BY <1>6, <2>2
    <3> QED
      BY <1>4, <1>6, <1>10, <1>11, <3>1, <3>2, <3>3, <3>4, <3>5, <3>6, BatchLeaves
  <2> QED
    BY <2>1, <2>2
<1>13. /\ \A x \in Sides : reps'[DedupeOf(x)] = reps[DedupeOf(x)]
       /\ \A d \in Dedupes : d # "dedupeBatches" => reps'[d] = reps[d]
  <2>1. \E groups : reps' = [reps EXCEPT !["dedupeBatches"] = groups]
    <3> HIDE DEF With, Without
    <3> QED
      BY <1>6
  <2> QED
    BY <2>1, GroupsChange DEF Inv
<1>14. Reached'
  BY <1>6, <1>11, <1>13, ReachedKeeps
<1>15. Counted' /\ JobsFit' /\ funds' \in Nat /\ spent' \in Nat /\ reqsSeen' \in BOOLEAN
  BY <1>6, CountedFrame, JobsFrame DEF Inv, Order
<1>16. Total' = Total
  <2>1. /\ InJobs' = InJobs /\ InBatches' = InBatches /\ spent' = spent /\ funds' = funds /\ InCallers' = InCallers
        /\ InAccounts("A")' = InAccounts("A") /\ InAccounts("R")' = InAccounts("R")
    BY <1>6, LedgerFrame DEF Sides
  <2> QED
    BY <1>9, <2>1 DEF Total
<1>17. \A d \in Dedupes : ~Running(d) => reps'[d] = reps[d]
  BY <1>6, <1>13 DEF Ready
<1> QED
  BY <1>6, <1>8, <1>10, <1>11, <1>12, <1>14, <1>15, <1>16, <1>17, PipeStep

\* A channel with one writer is closed when it has returned.
LEMMA ClosedWriters ==
    /\ Closed("remaining") => ~Running("requests")
    /\ Closed("paid") => ~Running("pay")
    /\ Closed("doneA") => ~Running("consolidateA")
<1>1. \A c \in {"remaining", "paid", "doneA"} : Closed(c) <=> ClosedByPipeline(c)
  BY DEF Closed
<1>2. "remaining" \in OutputsOf["requests"] /\ "paid" \in OutputsOf["pay"] /\ "doneA" \in OutputsOf["consolidateA"]
  BY WalletTopology DEF WalletOutputs
<1> QED
  BY <1>1, <1>2, StepNames, OpenWhileRunning

\* FlushBatch: no repetition is out any more, and the batch is passed on.
LEMMA FlushBatchStep ==
    ASSUME Inv, NEW b \in Batches, FlushBatch(b)
    PROVE  Inv'
<1>1. /\ Ready("dedupeBatches") /\ InputsClosed("dedupeBatches") /\ b \in DOMAIN Groups
      /\ reps' = [reps EXCEPT !["dedupeBatches"] = Without(@, b)]
      /\ \/ /\ credits[b] > 0 /\ used' = used
            /\ Emit("dedupeBatches", <<Send("batchesToConsolidate", Batch(b))>>)
         \/ /\ ~(credits[b] > 0) /\ used' = used \ {b} /\ pend' = pend
      /\ UNCHANGED <<st, graceful, hard, paying, funds, credits, serving, reqsSeen, signalSeen, virtual, accounts,
                     caller, holds, wg, spent, closer, faults, mayHard>>
  BY DEF FlushBatch, Groups, ctxVars, flowVars, sideVars, outerVars, callerVars
<1>2. Slots /\ "dedupeBatches" \in Steps /\ "requests" \in Steps /\ "pay" \in Steps /\ Running("dedupeBatches")
      /\ pend["dedupeBatches"] = <<>> /\ ServingFits
  BY <1>1, StepNames DEF Inv, Ready
<1>3. ~Running("requests") /\ ~Running("pay")
  <2>1. Closed("remaining") /\ Closed("paid")
    BY <1>1 DEF InputsClosed, InputsOf
  <2> QED
    BY <2>1, ClosedWriters
<1>4. pend["requests"] = <<>> /\ pend["pay"] = <<>> /\ paying = {} /\ serving = Idle
  <2>1. pend["requests"] = <<>> /\ pend["pay"] = <<>> /\ paying = {}
    BY <1>2, <1>3 DEF Inv, Slots, JobsFit
  <2>2. ~AllReturned
    BY <1>2 DEF AllReturned
  <2> QED
    BY <1>3, <2>1, <2>2 DEF Inv, LeftEmpty
<1>5. PICK out : out = IF credits[b] > 0 THEN <<Send("batchesToConsolidate", Batch(b))>> ELSE <<>>
  OBVIOUS
<1>6. /\ Slots' /\ Rewires({"dedupeBatches"}) /\ pend'["dedupeBatches"] = out /\ Carried' = Carried
  <2>1. CASE credits[b] > 0
    <3>1. Batch(b) \in Tokens /\ InHands(Batch(b)) = 0
      BY Worths DEF Tokens
    <3>2. Fits("dedupeBatches", <<Send("batchesToConsolidate", Batch(b))>>)
      BY <3>1, FitsOne, Zenon
    <3>3. Load(<<Send("batchesToConsolidate", Batch(b))>>) = 0
      BY <3>1, Loads
    <3>4. Emit("dedupeBatches", <<Send("batchesToConsolidate", Batch(b))>>) /\ st' = st
      BY <1>1, <2>1
    <3>5. /\ Slots' /\ Rewires({"dedupeBatches"})
          /\ pend'["dedupeBatches"] = <<Send("batchesToConsolidate", Batch(b))>>
          /\ Carried' = Carried + Load(<<Send("batchesToConsolidate", Batch(b))>>) /\ Carried \in Nat
      BY <1>1, <1>2, <3>2, <3>4, EmitStep
    <3>6. Carried' = Carried
      BY <3>3, <3>5
    <3> QED
      BY <1>5, <2>1, <3>5, <3>6
  <2>2. CASE ~(credits[b] > 0)
    <3>1. pend' = pend /\ st' = st
      BY <1>1, <2>2
    <3>2. Slots' /\ Rewires({"dedupeBatches"})
      BY <1>2, <3>1 DEF Slots, Rewires, Running
    <3> QED
      BY <1>2, <1>5, <2>2, <3>1, <3>2, LedgerFrame
  <2> QED
    BY <2>1, <2>2
<1>7. /\ pend'["requests"] = <<>> /\ pend'["pay"] = <<>> /\ paying' = {}
      /\ pend'["route"] = pend["route"] /\ pend'["split"] = pend["split"]
      /\ pend'["consolidateA"] = pend["consolidateA"] /\ pend'["consolidateR"] = pend["consolidateR"]
  BY <1>1, <1>4, <1>6, StepNames DEF Rewires
<1>8. \A r : ~Flying(r) /\ ~Flying(r)'
  <2>1. \A r : ~AtRequests(r) /\ ~AtRequests(r)'
    BY <1>4, <1>7, Repeats DEF AtRequests
  <2> QED
    BY <1>4, <1>7, <2>1 DEF Flying, AtJob, AtPay
<1>9. Unique'
  BY <1>7, <1>8 DEF Unique, Flying
<1>10. InService(b) /\ serving.batch # {b}
  BY <1>1, <1>4 DEF InService, Idle
<1>11. Repetitions' /\ ServingFits' /\ Apart'
  <2>1. \/ /\ credits[b] > 0 /\ used' = used
           /\ pend'["dedupeBatches"] = <<Send("batchesToConsolidate", Batch(b))>>
        \/ /\ ~(credits[b] > 0) /\ used' = used \ {b}
           /\ pend'["dedupeBatches"] = <<>>
    BY <1>1, <1>5, <1>6
  <2> QED
    BY <1>1, <1>2, <1>7, <1>8, <1>10, <2>1, BatchLeaves
<1>12. /\ \A x \in Sides : reps'[DedupeOf(x)] = reps[DedupeOf(x)]
       /\ \A d \in Dedupes : d # "dedupeBatches" => reps'[d] = reps[d]
  <2>1. \E groups : reps' = [reps EXCEPT !["dedupeBatches"] = groups]
    <3> HIDE DEF Without
    <3> QED
      BY <1>1
  <2> QED
    BY <1>2, <2>1, GroupsChange
<1>13. Reached'
  BY <1>1, <1>7, <1>12, ReachedKeeps
<1>14. Counted' /\ JobsFit' /\ funds' \in Nat /\ spent' \in Nat /\ reqsSeen' \in BOOLEAN
  BY <1>1, CountedFrame, JobsFrame DEF Inv, Order
<1>15. Total' = Total
  <2>1. /\ InJobs' = InJobs /\ InBatches' = InBatches /\ spent' = spent /\ funds' = funds /\ InCallers' = InCallers
        /\ InAccounts("A")' = InAccounts("A") /\ InAccounts("R")' = InAccounts("R")
    BY <1>1, LedgerFrame DEF Sides
  <2> QED
    BY <1>6, <2>1 DEF Total
<1>16. \A d \in Dedupes : ~Running(d) => reps'[d] = reps[d]
  BY <1>2, <1>12
<1> QED
  BY <1>1, <1>6, <1>7, <1>9, <1>11, <1>13, <1>14, <1>15, <1>16, PipeStep
-----------------------------------------------------------------------------
(* The invariant *)

\* It holds when the wallet is made: everything is at the source.
LEMMA InitInv == Init => Inv
<1> SUFFICES ASSUME Init PROVE Inv
  OBVIOUS
<1>0. /\ st = [s \in Steps |-> "run"] /\ graceful = "open" /\ hard = FALSE
      /\ pend = [s \in Steps |-> IF s = "empties" THEN <<Send("empty", Account(0))>> ELSE <<>>]
      /\ paying = {} /\ funds = Funds /\ spent = 0
      /\ credits = [b \in Batches |-> 0] /\ used = {}
      /\ serving = Idle /\ reqsSeen = FALSE /\ signalSeen = FALSE
      /\ virtual = [x \in Sides |-> 0] /\ accounts = [x \in Sides |-> <<0>>]
      /\ reps = [d \in Dedupes |-> <<>>]
      /\ holds = [c \in Callers |-> 0] /\ wg = 0 /\ closer = "open"
  BY DEF Init, RunPipeline
<1>1. PICK now \in Scenarios : /\ caller = [c \in Callers |-> IF c \in now.calls THEN "idle" ELSE "done"]
                              /\ faults = now.faults /\ mayHard = now.hard
  BY DEF Init
<1>2. /\ pend["empties"] = <<Send("empty", Account(0))>> /\ \A s \in Steps : s # "empties" => pend[s] = <<>>
      /\ \A s \in Steps : Running(s)
  BY <1>0, StepNames DEF Running
<1>3. Slots
  <2>1. \A s \in Steps : Fits(s, pend[s])
    <3>1. ASSUME NEW s \in Steps PROVE Fits(s, pend[s])
      <4>1. CASE s = "empties"
        BY <1>2, <4>1, FitsOne
      <4>2. CASE s # "empties"
        BY <1>2, <4>2, FitsOne
      <4> QED
        BY <4>1, <4>2
    <3> QED
      BY <3>1
  <2>2. st \in [Steps -> {"run", "ok", "err"}] /\ pend = [s \in Steps |-> pend[s]]
    BY <1>0
  <2> QED
    BY <1>2, <2>1, <2>2 DEF Slots
<1>4. Order
  <2>1. faults \in Nat /\ mayHard \in BOOLEAN
    BY <1>1, WalletAssumption
  <2> QED
    BY <1>0, <1>2, <2>1, StepNames DEF Order
<1>5. JobsFit
  BY <1>0, FS_EmptySet, WalletAssumption DEF JobsFit
<1>6. Counted
  <2>1. caller \in [Callers -> CallerPC] /\ \A c \in Callers : caller[c] \in {"idle", "done"}
    BY <1>1 DEF CallerPC
  <2>2. Active = {}
    BY <2>1 DEF Active
  <2>3. Cardinality(Active) = 0
    BY <2>2, FS_EmptySet
  <2> QED
    BY <1>0, <2>1, <2>2, <2>3 DEF Counted
<1>7. DOMAIN Groups = {} /\ \A x \in Sides : DOMAIN reps[DedupeOf(x)] = {}
  BY <1>0 DEF Groups, Sides, DedupeOf, Dedupes
<1>8. ServingFits
  BY <1>0, <1>7 DEF ServingFits
<1>9. /\ pend["requests"] = <<>> /\ pend["pay"] = <<>> /\ pend["split"] = <<>> /\ pend["dedupeBatches"] = <<>>
      /\ pend["consolidateA"] = <<>> /\ pend["consolidateR"] = <<>>
  BY <1>2, StepNames
<1>10. \A r : ~AtRequests(r) /\ ~AtJob(r) /\ ~AtPay(r)
  BY <1>0, <1>9, Repeats DEF AtRequests, AtJob, AtPay
<1>11. \A r : ~Flying(r)
  BY <1>10 DEF Flying
<1>12. Unique
  BY <1>0, <1>9, <1>10 DEF Unique
<1>13. Repetitions
  BY <1>7, <1>11 DEF Repetitions
<1>14. Apart
  <2>1. \A b : ~InSplit(b) /\ ~Passed(b)
    BY <1>9, Tidings DEF InSplit, Passed
  <2>2. \A b : ~InService(b)
    BY <1>0, <1>7, <1>11 DEF InService, Idle
  <2> QED
    BY <1>0, <2>1, <2>2 DEF Apart
<1>15. Reached
  <2>1. \A x \in Sides : \A k : ~ToldOf(x, k)
    BY <1>9, Tidings DEF ToldOf, TransferOf
  <2>2. \A x \in Sides : accounts[x] = <<0>>
    BY <1>0
  <2>3. accounts \in [Sides -> Seq(Nat)] /\ virtual \in [Sides -> Nat]
    BY <1>0
  <2>4. \A q : q = <<0>> => q # <<>> /\ \A k \in DOMAIN q : ~(q[k] > 0)
    OBVIOUS
  <2>5. \A x \in Sides : accounts[x] # <<>> /\ \A k \in DOMAIN accounts[x] : ~(accounts[x][k] > 0)
    BY <2>2, <2>4, Zenon
  <2>6. \A x \in Sides : DOMAIN reps[DedupeOf(x)] \subseteq DOMAIN accounts[x]
    BY <1>7
  <2> QED
    BY <2>1, <2>3, <2>5, <2>6, Zenon DEF Reached
<1>16. LeftEmpty
  BY <1>2, StepNames DEF LeftEmpty, Dedupes
<1>17. Total = Funds
  <2>1. Carried = 0
    <3> DEFINE f == [s \in Steps |-> Load(pend[s])]
    <3>1. Load(<<>>) = 0
      BY Loads
    <3>2. Load(<<Send("empty", Account(0))>>) = 0
      BY Loads, Worths
    <3>3. \A s \in Steps : f[s] = 0
      BY <1>2, <3>1, <3>2
    <3> HIDE DEF f
    <3>4. Sum(f, Steps) = 0
      BY <3>3, SumZero
    <3> QED
      BY <3>4 DEF f, Carried
  <2>2. InJobs = 0
    <3> DEFINE f == [j \in paying |-> InHands(j)]
    <3> HIDE DEF f
    <3>1. Sum(f, {}) = 0
      BY SumZero
    <3>2. Sum(f, paying) = 0
      BY <1>0, <3>1
    <3> QED
      BY <3>2 DEF f, InJobs
  <2>3. InBatches = 0
    <3> DEFINE f == [b \in Batches |-> credits[b] * PrefetchAmount]
    <3>1. \A b \in Batches : f[b] = 0
      BY <1>0, WalletAssumption
    <3> HIDE DEF f
    <3>2. Sum(f, Batches) = 0
      BY <3>1, SumZero
    <3> QED
      BY <3>2 DEF f, InBatches
  <2>4. \A x \in Sides : InAccounts(x) = 0
    <3>1. ASSUME NEW x \in Sides PROVE InAccounts(x) = 0
      <4>1. accounts[x] = <<0>>
        BY <1>0
      <4>2. \A k \in DOMAIN <<0>> : <<0>>[k] = 0
        OBVIOUS
      <4>3. Sum(<<0>>, DOMAIN <<0>>) = 0
        BY <4>2, SumZero
      <4> QED
        BY <4>1, <4>3 DEF InAccounts
    <3> QED
      BY <3>1
  <2>5. InCallers = 0
    BY <1>0, SumZero DEF InCallers
  <2>6. InAccounts("A") = 0 /\ InAccounts("R") = 0
    BY <2>4 DEF Sides
  <2> QED
    BY <1>0, <2>1, <2>2, <2>3, <2>5, <2>6, WalletAssumption DEF Total
<1>18. CreditsConserved /\ funds \in Nat /\ spent \in Nat
  BY <1>0, <1>17, WalletAssumption DEF CreditsConserved
<1> QED
  BY <1>3, <1>4, <1>5, <1>6, <1>8, <1>12, <1>13, <1>14, <1>15, <1>16, <1>18 DEF Inv

\* Nothing happens.
LEMMA StutterInv ==
    ASSUME Inv, UNCHANGED vars
    PROVE  Inv'
<1>1. UNCHANGED <<st, pend, graceful, hard, paying, funds, credits, used, serving, reqsSeen,
                  signalSeen, virtual, accounts, reps, caller, holds, wg, spent, closer, faults, mayHard>>
  BY DEF vars
<1>2. /\ Slots' /\ JobsFit' /\ ServingFits' /\ Unique' /\ Repetitions' /\ Apart' /\ Reached' /\ LeftEmpty'
      /\ Sound' = Sound
      /\ Carried' = Carried /\ InJobs' = InJobs /\ InBatches' = InBatches
      /\ InAccounts("A")' = InAccounts("A") /\ InAccounts("R")' = InAccounts("R")
  BY <1>1, OuterStep
<1>3. Counted' /\ InCallers' = InCallers
  BY <1>1, CountedFrame, LedgerFrame DEF Inv
<1>4. Order'
  <2>1. Order /\ faults' \in Nat /\ (signalSeen => pend'["route"] \in {pend["route"], <<>>})
    BY <1>1 DEF Inv, Order
  <2> QED
    BY <1>1, <2>1, OrderFrame
<1>5. Total' = Total
  BY <1>1, <1>2, <1>3 DEF Total
<1>6. CreditsConserved'
  BY <1>2, <1>5, Balanced
<1> QED
  BY <1>1, <1>2, <1>3, <1>4, <1>6 DEF Inv

\* A step of the pipeline.
LEMMA StepInv ==
    ASSUME Inv, NEW s \in Steps, Step(s)
    PROVE  Inv'
<1>1. CASE Exit(s)
  BY <1>1, ExitStep
<1>2. CASE RootStep
  BY <1>2, ExitStep, RootFails
<1>3. CASE StopEmpty \/ RouteExit \/ RequestsExit
  BY <1>3, ExitStep
<1>4. CASE FromSource
  BY <1>4, FromSourceStep
<1>5. CASE \E w \in Senders("provide") \cup Senders("full") : Route(w)
  BY <1>5, RouteStep
<1>6. CASE RouteSignal
  BY <1>6, CloseStep
<1>7. ASSUME NEW w \in Senders("withdrawable"), SplitAccount(w) PROVE Inv'
  <2>1. Offer(w).amount < PrefetchAmount \/ Offer(w).amount >= PrefetchAmount
    <3>1. Offer(w) \in Accounts
      BY SentAccounts DEF Inv
    <3>2. Offer(w).amount \in Nat
      BY <3>1, AccountTells
    <3> QED
      BY <3>2, WalletAssumption
  <2> QED
    BY <1>7, <2>1, SplitLow, SplitBatch
<1>8. CASE \E w \in Senders("batches") : TakeBatch(w)
  BY <1>8, TakeBatchStep
<1>9. CASE \E c \in Callers : TakeRequest(c) \/ FailRequest(c)
  BY <1>9, TakeRequestStep, CallerStep
<1>10. CASE EndBatch
  BY <1>10, EndBatchStep
<1>11. CASE \E w \in Senders("payIntents") : TakePayIntent(w)
  BY <1>11, TakePayIntentStep
<1>12. CASE \E j \in paying : WithdrawCredit(j) \/ WithdrawRefused(j) \/ Answer(j)
  BY <1>12, WithdrawCreditStep, WithdrawFails, AnswerStep
<1>13. CASE \E w \in Senders("remaining") \cup Senders("paid") : DedupeBatch(w)
  BY <1>13, DedupeBatchStep
<1>14. CASE \E b \in Batches : FlushBatch(b)
  BY <1>14, FlushBatchStep
<1>15. CASE \E w \in Senders("toConsolidate") \cup Senders("batchesToConsolidate") : ConsolidateAccount(w)
  BY <1>15, ConsolidateLow, ConsolidateBatch
<1>16. CASE \E c \in Callers : TakeResult(c)
  BY <1>16, TakeResultStep
<1>17. CASE \E w \in Senders("toSource") \cup Senders("batchesToConsolidate") : ToSource(w)
  BY <1>17, ReturnAccount, ReturnBatch
<1>18. ASSUME NEW x \in Sides, s = DedupeOf(x), \E w \in Senders(DoneOf(x)) : DedupeAccount(x, w)
       PROVE  Inv'
  BY <1>18, DedupeAccountStep
<1>19. ASSUME NEW x \in Sides, s = DedupeOf(x), \E k \in DOMAIN reps[s] : FlushAccount(x, k)
       PROVE  Inv'
  BY <1>19, FlushAccountStep
<1> QED
  BY <1>1, <1>2, <1>3, <1>4, <1>5, <1>6, <1>7, <1>8, <1>9, <1>10, <1>11, <1>12, <1>13, <1>14, <1>15, <1>16,
     <1>17, <1>18, <1>19 DEF Step

\* Every action keeps it.
LEMMA NextInv == Inv /\ [Next]_vars => Inv'
<1> SUFFICES ASSUME Inv, [Next]_vars PROVE Inv'
  OBVIOUS
<1>1. CASE \E s \in Steps : Step(s)
  BY <1>1, StepInv
<1>2. CASE \E t \in Transfers : TransferFails(t)
  BY <1>2, CallFails
<1>3. ASSUME NEW c \in Callers, Payment(c) PROVE Inv'
  <2>1. \A n \in 1 .. PrefetchAmount : n \in Nat
    BY WalletAssumption
  <2> QED
    BY <1>3, <2>1, CallerStep, PaymentEnds DEF Payment
<1>4. CASE \E c \in Callers : ResultFails(c)
  BY <1>4, ExchangeFails
<1>5. CASE Close
  BY <1>5, CloseStep DEF Close
<1>6. CASE CloseContextDone
  BY <1>6, HardStep
<1>7. CASE UNCHANGED vars
  BY <1>7, StutterInv
<1> QED
  BY <1>1, <1>2, <1>3, <1>4, <1>5, <1>6, <1>7 DEF Next

\* The inductive invariant of the wallet.
THEOREM WalletInvariance == Spec => []Inv
  BY InitInv, NextInv, PTL DEF Spec

\* What is closed and well has nothing in it.
LEMMA ClosedEmpty ==
    ASSUME Inv, closer = "closed", Sound
    PROVE  /\ Carried = 0 /\ InJobs = 0 /\ InBatches = 0 /\ InCallers = 0
           /\ InAccounts("A") = 0 /\ InAccounts("R") = 0
<1>1. AllReturned
  BY DEF Inv, Order
<1>2. \A s \in Steps : ~Running(s) /\ pend[s] = <<>>
  BY <1>1 DEF Inv, Slots, AllReturned
<1>3. /\ pend["requests"] = <<>> /\ pend["pay"] = <<>> /\ pend["split"] = <<>> /\ pend["dedupeBatches"] = <<>>
      /\ pend["consolidateA"] = <<>> /\ pend["consolidateR"] = <<>>
      /\ ~Running("requests") /\ ~Running("pay") /\ \A d \in Dedupes : ~Running(d)
  BY <1>2, StepNames DEF Dedupes
<1>4. paying = {} /\ serving = Idle /\ \A d \in Dedupes : DOMAIN reps[d] = {}
  BY <1>3 DEF Inv, JobsFit, LeftEmpty
<1>5. Carried = 0
  <2> DEFINE f == [s \in Steps |-> Load(pend[s])]
  <2>1. \A s \in Steps : f[s] = 0
    BY <1>2, Loads
  <2> HIDE DEF f
  <2>2. Sum(f, Steps) = 0
    BY <2>1, SumZero
  <2> QED
    BY <2>2 DEF f, Carried
<1>6. InJobs = 0
  <2> DEFINE f == [j \in paying |-> InHands(j)]
  <2> HIDE DEF f
  <2>1. Sum(f, {}) = 0
    BY SumZero
  <2>2. Sum(f, paying) = 0
    BY <1>4, <2>1
  <2> QED
    BY <2>2 DEF f, InJobs
<1>7. \A b \in Batches : credits[b] = 0
  <2>1. \A r : ~Flying(r)
    <3>1. \A r : ~AtRequests(r)
      BY <1>3, Repeats DEF AtRequests
    <3> QED
      BY <1>3, <1>4, <3>1 DEF Flying, AtJob, AtPay
  <2>2. \A b : ~InSplit(b) /\ ~Passed(b)
    BY <1>3, Tidings DEF InSplit, Passed
  <2>3. DOMAIN Groups = {}
    BY <1>4 DEF Groups, Dedupes
  <2>4. \A b : ~InService(b)
    BY <1>4, <2>1, <2>3 DEF InService, Idle
  <2> QED
    BY <2>2, <2>4 DEF Inv, Apart
<1>8. InBatches = 0
  <2> DEFINE f == [b \in Batches |-> credits[b] * PrefetchAmount]
  <2>1. \A b \in Batches : f[b] = 0
    BY <1>7, WalletAssumption
  <2> HIDE DEF f
  <2>2. Sum(f, Batches) = 0
    BY <2>1, SumZero
  <2> QED
    BY <2>2 DEF f, InBatches
<1>9. ASSUME NEW x \in Sides PROVE InAccounts(x) = 0
  <2>1. \A k : ~ToldOf(x, k)
    <3>1. pend[TransferOf(x)] = <<>>
      BY <1>3 DEF TransferOf
    <3> QED
      BY <3>1, Tidings DEF ToldOf
  <2>2. DOMAIN reps[DedupeOf(x)] = {}
    BY <1>4, SideNames
  <2>3. accounts[x] \in Seq(Nat)
    BY DEF Inv, Reached
  <2>4. \A k \in DOMAIN accounts[x] : accounts[x][k] = 0
    <3>1. \A k \in DOMAIN accounts[x] : ~(accounts[x][k] > 0)
      BY <2>1, <2>2 DEF Inv, Reached
    <3>2. \A k \in DOMAIN accounts[x] : accounts[x][k] \in Nat
      BY <2>3
    <3> QED
      BY <3>1, <3>2
  <2> QED
    BY <2>4, SumZero DEF InAccounts
<1>10. InCallers = 0
  <2>1. Active = {}
    BY DEF Inv, Counted, Inputs
  <2>2. \A c \in Callers : holds[c] = 0
    BY <2>1 DEF Inv, Counted, Active
  <2> QED
    BY <2>2, SumZero DEF InCallers
<1>11. InAccounts("A") = 0 /\ InAccounts("R") = 0
  BY <1>9 DEF Sides
<1> QED
  BY <1>5, <1>6, <1>8, <1>10, <1>11

\* No credit is lost or made up while the pipeline has not failed, none is ever
\* made up, and what was not spent is back at the source when an orderly Close
\* returns: for any funds, amounts, number of callers, batches and parallel
\* payments, and whatever is given up, refused or fails (wallet.go, transfer.go).
THEOREM NothingIsLost == Spec => []NothingLost
<1>1. Inv => NothingLost
  <2> SUFFICES ASSUME Inv PROVE NothingLost
    OBVIOUS
  <2>1. CreditsConserved
    BY DEF Inv
  <2>2. ASSUME closer = "closed", Sound PROVE funds + spent = Funds
    <3>1. Total = Funds
      BY <2>1, <2>2 DEF CreditsConserved
    <3>2. /\ Carried = 0 /\ InJobs = 0 /\ InBatches = 0 /\ InCallers = 0
          /\ InAccounts("A") = 0 /\ InAccounts("R") = 0
      BY <2>2, ClosedEmpty
    <3> QED
      BY <3>1, <3>2, LedgerNat DEF Total
  <2> QED
    BY <2>1, <2>2 DEF NothingLost, EverythingReturned
<1> QED
  BY <1>1, WalletInvariance, PTL

\* What each step sends is sent on a channel of the wallet.
LEMMA MessageChannels ==
    ASSUME Slots, NEW s \in Steps, NEW i \in DOMAIN pend[s]
    PROVE  pend[s][i].ch \in Channels
<1>0. PICK q : q = pend[s] /\ Fits(s, q) /\ i \in DOMAIN q
  BY DEF Slots
<1>1. {"empty", "full", "toSource", "withdrawable", "toConsolidate", "batches", "remaining", "payIntents", "paid",
       "batchesToConsolidate", "provide", "doneA", "doneR"} \subseteq Channels
  <2>1. \A t \in DOMAIN WalletOutputs : WalletOutputs[t] \subseteq Channels
    BY DEF Channels, Range
  <2>2. /\ WalletOutputs["empties"] = {"empty"} /\ WalletOutputs["source"] = {"full"}
        /\ WalletOutputs["route"] = {"toSource"} /\ WalletOutputs["split"] = {"batches", "toConsolidate"}
        /\ WalletOutputs["requests"] = {"payIntents", "remaining"} /\ WalletOutputs["pay"] = {"paid"}
        /\ WalletOutputs["dedupeBatches"] = {"batchesToConsolidate"}
        /\ WalletOutputs["consolidateA"] = {"doneA"} /\ WalletOutputs["dedupeA"] = {"provide"}
        /\ WalletOutputs["consolidateR"] = {"doneR"}
    BY DEF WalletOutputs
  <2>3. {"empties", "source", "route", "split", "requests", "pay", "dedupeBatches", "consolidateA", "dedupeA",
         "consolidateR"} \subseteq DOMAIN WalletOutputs
    BY DEF WalletOutputs
  <2>4. "withdrawable" \in Channels
    BY DEF Channels
  <2> QED
    BY <2>1, <2>2, <2>3, <2>4
<1>2. ASSUME NEW c \in Channels, NEW V, One(q, c, V) PROVE q[i].ch \in Channels
  <2>1. q # <<>>
    BY <1>0
  <2>2. PICK v \in V : q = <<Send(c, v)>>
    BY <1>2, <2>1 DEF One
  <2>3. DOMAIN q = {1} /\ q[1].ch = c
    BY <2>2 DEF Send
  <2> QED
    BY <1>0, <2>3
<1>3. CASE s = "split" /\ \E v \in Accounts, t \in Tokens : q = <<Send("toConsolidate", v), Send("batches", t)>>
  <2>1. PICK v \in Accounts, t \in Tokens : q = <<Send("toConsolidate", v), Send("batches", t)>>
    BY <1>3
  <2>2. DOMAIN q = {1, 2} /\ q[1].ch = "toConsolidate" /\ q[2].ch = "batches"
    BY <2>1 DEF Send
  <2> QED
    BY <1>0, <1>1, <2>2
<1>4. CASE s = "pay"
  <2>1. q \in Seq(Paid)
    BY <1>0, <1>4 DEF Fits
  <2>2. q[i] \in Paid
    BY <1>0, <2>1
  <2>3. q[i].ch = "paid"
    BY <2>2 DEF Paid, Send
  <2> QED
    BY <1>0, <1>1, <2>3
<1>5. CASE s \in {"root", "return"}
  <2>1. q = <<>>
    BY <1>0, <1>5 DEF Fits
  <2> QED
    BY <1>0, <2>1
<1>6. CASE s = "empties"
  BY <1>0, <1>1, <1>2, <1>6 DEF Fits
<1>7. CASE s = "source"
  BY <1>0, <1>1, <1>2, <1>7 DEF Fits
<1>8. CASE s \in {"route", "requests", "dedupeBatches", "consolidateA", "consolidateR", "dedupeA", "dedupeR"}
  <2>1. \E c \in Channels : \E V : One(q, c, V)
    BY <1>0, <1>1, <1>8 DEF Fits
  <2> QED
    BY <1>0, <1>2, <2>1
<1>9. CASE s = "split" /\ (One(q, "toConsolidate", Accounts) \/ One(q, "batches", Tokens))
  BY <1>0, <1>1, <1>2, <1>9
<1> QED
  BY <1>0, <1>3, <1>4, <1>5, <1>6, <1>7, <1>8, <1>9, StepNames DEF Fits

\* Every variable keeps its type and its bounds.
LEMMA InvTypes == Inv => TypeOK
<1> SUFFICES ASSUME Inv PROVE TypeOK
  OBVIOUS
<1>1. PipeTypeOK(Channels)
  <2>1. Slots /\ Order
    BY DEF Inv
  <2>2. \A s \in Steps : \A i \in DOMAIN pend[s] : pend[s][i].ch \in Channels
    BY <2>1, MessageChannels
  <2>3. st \in [Steps -> {"run", "ok", "err"}] /\ DOMAIN pend = Steps
    BY <2>1 DEF Slots
  <2>4. graceful \in {"open", "closed", "failed"} /\ hard \in BOOLEAN
    BY <2>1 DEF Order
  <2> QED
    BY <2>2, <2>3, <2>4 DEF PipeTypeOK
<1>2. DOMAIN reps = Dedupes /\ Cardinality(paying) <= MaxParallel
  BY DEF Inv, ServingFits, JobsFit
<1>3. funds \in 0 .. Funds /\ spent \in 0 .. Funds
  <2>1. Total <= Funds /\ funds \in Nat /\ spent \in Nat
    BY DEF Inv, CreditsConserved
  <2> QED
    BY <2>1, LedgerNat, WalletAssumption DEF Total
<1>4. credits \in [Batches -> Nat] /\ used \subseteq Batches
  BY DEF Inv, ServingFits
<1>5. serving.batch \subseteq used /\ Cardinality(serving.batch) <= 1
  <2>1. CASE serving = Idle
    <3>1. serving.batch = {}
      BY <2>1 DEF Idle
    <3>2. Cardinality(serving.batch) = 0
      BY <3>1, FS_EmptySet
    <3> QED
      BY <3>1, <3>2
  <2>2. CASE serving # Idle
    <3>1. PICK b \in Batches : serving.batch = {b} /\ b \in used
      BY <2>2, Served
    <3>2. Cardinality(serving.batch) = 1
      BY <3>1, FS_Singleton
    <3> QED
      BY <3>1, <3>2
  <2> QED
    BY <2>1, <2>2
<1>6. /\ reqsSeen \in BOOLEAN /\ signalSeen \in BOOLEAN
      /\ closer \in {"open", "waiting", "closing", "closed"} /\ faults \in Nat /\ mayHard \in BOOLEAN
  BY DEF Inv, Order
<1>7. virtual \in [Sides -> Nat] /\ accounts \in [Sides -> Seq(Nat)]
  BY DEF Inv, Reached
<1>8. caller \in [Callers -> CallerPC] /\ holds \in [Callers -> Nat] /\ wg \in Nat
  BY ActiveFinite DEF Inv, Counted
<1> QED
  BY <1>1, <1>2, <1>3, <1>4, <1>5, <1>6, <1>7, <1>8 DEF TypeOK

\* The outputs that the steps register.
LEMMA Registered ==
    /\ "empty" \in OutputsOf["empties"] /\ "full" \in OutputsOf["source"] /\ "toSource" \in OutputsOf["route"]
    /\ "batches" \in OutputsOf["split"] /\ "toConsolidate" \in OutputsOf["split"]
    /\ "payIntents" \in OutputsOf["requests"] /\ "remaining" \in OutputsOf["requests"]
    /\ "paid" \in OutputsOf["pay"] /\ "batchesToConsolidate" \in OutputsOf["dedupeBatches"]
    /\ "doneA" \in OutputsOf["consolidateA"] /\ "doneR" \in OutputsOf["consolidateR"]
    /\ "provide" \in OutputsOf["dedupeA"] /\ "provide" \in OutputsOf["dedupeR"]
  BY WalletTopology DEF WalletOutputs

\* A step about to send finds its channel open: it has registered it itself, or
\* the step that did runs as long, or it has not closed it.
LEMMA HeadsOpen ==
    ASSUME Inv, NEW s \in Steps, Running(s), pend[s] # <<>>
    PROVE  ~Closed(Head(pend[s]).ch)
<1>0. Slots /\ Order
  BY DEF Inv
<1>1. PICK c : c = Head(pend[s]).ch
  OBVIOUS
<1>2. ASSUME c \in OutputsOf[s] PROVE ~ClosedByPipeline(c)
  BY <1>2, OpenWhileRunning
<1>3. CASE s = "route" /\ c = "withdrawable"
  <2>1. s \in Senders("withdrawable")
    BY <1>1, <1>3 DEF Senders
  <2>2. Offer(s) \in Accounts /\ Tail(pend[s]) = <<>>
    BY <1>0, <2>1, SentAccounts
  <2>3. pend["route"] = <<Send("withdrawable", Offer(s))>>
    BY <1>0, <1>3, <2>1, <2>2, WholeMessage
  <2>4. ~signalSeen
    BY <1>0, <2>2, <2>3, Zenon DEF Order
  <2> QED
    BY <1>1, <1>3, <2>4 DEF Closed
<1>4. CASE s = "consolidateA" /\ c = "provide"
  <2>1. Running("dedupeA")
    BY <1>0, <1>4 DEF Order
  <2>2. ~ClosedByPipeline("provide")
    BY <2>1, Registered, StepNames, OpenWhileRunning
  <2> QED
    BY <1>1, <1>4, <2>2 DEF Closed
<1>5. CASE c \in OutputsOf[s] /\ c \notin {"requests", "results", "withdrawable"}
  BY <1>1, <1>2, <1>5 DEF Closed
<1>6. \/ s = "route" /\ c = "withdrawable"
      \/ s = "consolidateA" /\ c = "provide"
      \/ c \in OutputsOf[s] /\ c \notin {"requests", "results", "withdrawable"}
  BY <1>0, <1>1, Heads, Registered, StepNames
<1> QED
  BY <1>3, <1>4, <1>5, <1>6

\* What DedupeBatches is about to pass on is a batch of which no repetition is
\* under way.
LEMMA PassedAlone ==
    ASSUME Inv, NEW s \in Steps, Running(s), pend[s] # <<>>,
           Offer(s).kind = "batch", Head(pend[s]).ch # "batches"
    PROVE  \E b \in Batches : Offer(s) = Batch(b) /\ Passed(b)
<1>0. Slots
  BY DEF Inv
<1>1. \A v \in Accounts \cup Reps \cup NewJobs \cup Dones : v.kind # "batch"
  BY DEF Accounts, Reps, NewJobs, Jobs, Dones
<1>2. Account(0).kind # "batch" /\ Account(SourceAmount).kind # "batch"
  BY DEF Account
<1>3. s = "dedupeBatches"
  BY <1>0, <1>1, <1>2, Heads, StepNames
<1>4. Head(pend[s]).ch = "batchesToConsolidate" /\ Offer(s) \in Tokens /\ Tail(pend[s]) = <<>>
  BY <1>0, <1>3, Heads
<1>5. PICK b \in Batches : Offer(s) = Batch(b)
  BY <1>4 DEF Tokens
<1>6. s \in Senders("batchesToConsolidate")
  BY <1>4 DEF Senders
<1>7. pend["dedupeBatches"] = <<Send("batchesToConsolidate", Batch(b))>>
  BY <1>0, <1>3, <1>4, <1>5, <1>6, WholeMessage
<1>8. Names(<<Send("batchesToConsolidate", Batch(b))>>, b)
  <2> DEFINE q == <<Send("batchesToConsolidate", Batch(b))>>
  <2>1. DOMAIN q = {1} /\ q[1].val = Batch(b)
    BY SingleMessage
  <2> HIDE DEF q
  <2>2. Names(q, b)
    BY <2>1 DEF Names
  <2> QED
    BY <2>2 DEF q
<1>9. Passed(b)
  BY <1>7, <1>8, Zenon DEF Passed
<1> QED
  BY <1>5, <1>9

\* What is about to be taken as a repetition is under way.
LEMMA OfferedFlies ==
    ASSUME Inv, NEW w \in Senders("payIntents") \cup Senders("paid") \cup Senders("remaining"),
           Offer(w).kind = "rep"
    PROVE  Offer(w) \in Reps /\ Flying(Offer(w))
<1>0. Slots
  BY DEF Inv
<1>1. CASE w \in Senders("payIntents")
  <2>1. Offer(w) \in NewJobs
    BY <1>0, <1>1, SentBatches
  <2> QED
    BY <2>1 DEF NewJobs, Jobs
<1>2. CASE w \in Senders("remaining")
  <2>1. w = "requests" /\ Offer(w) \in Reps /\ Tail(pend[w]) = <<>>
    BY <1>0, <1>2, SentBatches
  <2>2. pend["requests"] = <<Send("remaining", Offer(w))>>
    BY <1>0, <1>2, <2>1, WholeMessage
  <2>3. RepIn(Offer(w)) = Offer(w)
    BY <2>1, Repeats
  <2>4. RepsAt(<<Send("remaining", Offer(w))>>, Offer(w))
    BY <2>3, Repeats, Zenon
  <2>5. AtRequests(Offer(w))
    BY <2>2, <2>4, Zenon DEF AtRequests
  <2> QED
    BY <2>1, <2>5 DEF Flying
<1>3. CASE w \in Senders("paid")
  <2>1. w = "pay" /\ Offer(w) \in Reps /\ pend["pay"] # <<>> /\ "pay" \in Steps
    BY <1>0, <1>3, SentBatches DEF Senders
  <2>2. Fits("pay", pend["pay"])
    BY <1>0, <2>1 DEF Slots
  <2>3. pend["pay"] \in Seq(Paid)
    BY <2>2 DEF Fits
  <2>4. 1 \in DOMAIN pend["pay"] /\ pend["pay"][1].val = Offer(w)
    BY <2>1, <2>3 DEF Offer
  <2> QED
    BY <2>1, <2>4 DEF Flying, AtPay
<1> QED
  BY <1>1, <1>2, <1>3

\* Every variable keeps its bounds, no step and no caller is about to send on a
\* closed channel, and a batch is passed on with credits in it and when no
\* payment is served from it any more: for any number of callers, batches and
\* parallel payments (pipeline.go, prefetch_withdraw.go, wallet.go).
THEOREM ChannelsAreSound == Spec => []ChannelsSound
<1>1. Inv => ChannelsSound
  <2> SUFFICES ASSUME Inv PROVE ChannelsSound
    OBVIOUS
  <2>1. TypeOK
    BY InvTypes
  <2>2. NoSendOnClosed
    <3>1. \A s \in Steps : Running(s) /\ pend[s] # <<>> => ~Closed(Head(pend[s]).ch)
      BY HeadsOpen
    <3>2. \A c \in Callers : caller[c] \in {"sending", "dangling", "returning"} => ~Inputs
      BY DEF Inv, Counted, Active
    <3> QED
      BY <3>1, <3>2 DEF NoSendOnClosed
  <2>3. BatchPassedOnce
    <3> SUFFICES ASSUME NEW s \in Steps, Running(s), pend[s] # <<>>,
                        Offer(s).kind = "batch", Head(pend[s]).ch # "batches"
                 PROVE  /\ credits[Offer(s).batch] > 0
                        /\ \A j \in paying : j.rep.batch # Offer(s).batch
                        /\ \A w \in Senders("payIntents") \cup Senders("paid") \cup Senders("remaining") :
                              Offer(w).kind = "rep" => Offer(w).batch # Offer(s).batch
      BY DEF BatchPassedOnce
    <3>1. PICK b \in Batches : Offer(s) = Batch(b) /\ Passed(b)
      BY PassedAlone
    <3>2. Offer(s).batch = b
      BY <3>1 DEF Batch
    <3>3. ~InService(b) /\ credits[b] > 0
      BY <3>1 DEF Inv, Apart
    <3>4. \A r \in Reps : Flying(r) => r.batch # b
      BY <3>3 DEF InService
    <3>5. \A j \in paying : j.rep \in Reps /\ Flying(j.rep)
      BY DEF Inv, JobsFit, Jobs, Flying, AtJob
    <3>6. \A w \in Senders("payIntents") \cup Senders("paid") \cup Senders("remaining") :
             Offer(w).kind = "rep" => Offer(w).batch # b
      BY <3>4, OfferedFlies
    <3> QED
      BY <3>2, <3>3, <3>4, <3>5, <3>6
  <2> QED
    BY <2>1, <2>2, <2>3 DEF ChannelsSound
<1> QED
  BY <1>1, WalletInvariance, PTL
=============================================================================
