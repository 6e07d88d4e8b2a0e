------------------------- MODULE RouterProcessProofs -------------------------
(***************************************************************************)
(* Proofs about the application runner inside a router's process, for any   *)
(* set of applications and whichever of them heed their Shutdown, and about *)
(* the gossip network, for any routers, positions, messages, addresses and  *)
(* size of chunks, and whatever memberlist loses, repeats or gets wrong.    *)
(***************************************************************************)
EXTENDS RouterProcess, FiniteSetTheorems, FunctionTheorems, SequenceTheorems, TLAPS

-----------------------------------------------------------------------------
(* The application runner *)

\* The types of the runner's state.
RunnerType ==
    /\ run \in [Apps -> {"new", "running", "failed", "ended"}]
    /\ grp \in [Apps -> {"select", "join", "join failed", "report", "done"}]
    /\ main \in [run : {"multi", "send", "done"},
                 shut : {"select", "shutdown", "wait", "send", "closed"},
                 todo : SUBSET Apps, shutErr : BOOLEAN, multiErr : BOOLEAN,
                 at : {"read", "returned", "panic"}, code : {0, 1}]
    /\ slow \in BOOLEAN /\ asked \subseteq Apps

\* groupApp.run ends after its application, and an error is on record by then.
GroupFollows ==
    \A a \in Apps :
        /\ grp[a] \in {"report", "done"} => run[a] \in Returned
        /\ grp[a] = "done" /\ run[a] = "failed" => main.multiErr

\* The goroutines of Run keep their order: Multi.Run returns after the group,
\* and unless the time limit struck the channel is closed after Multi.Run.
RunInOrder ==
    /\ main.run # "multi" => \A a \in Apps : grp[a] = "done"
    /\ main.shut \in {"send", "closed"} /\ ~slow => main.run = "done"
    /\ main.shut = "select" => ~main.shutErr
    /\ main.at = "returned" => main.shut = "closed"
    /\ main.at = "panic" => slow

\* The code is what was sent on the channel so far.
CodeSoFar ==
    ~slow => main.code = IF \/ main.run = "done" /\ main.multiErr
                            \/ main.shut = "closed" /\ main.shutErr
                         THEN 1 ELSE 0

RunnerInv == RunnerType /\ GroupFollows /\ RunInOrder /\ CodeSoFar

\* Nothing has been started at the start.
LEMMA InitRunner == Init => RunnerInv
<1> SUFFICES ASSUME RunnerInit PROVE RunnerInv
  BY DEF Init
<1>1. RunnerType
  BY DEF RunnerInit, RunnerType
<1>2. GroupFollows /\ RunInOrder /\ CodeSoFar
  BY DEF RunnerInit, GroupFollows, RunInOrder, CodeSoFar
<1> QED
  BY <1>1, <1>2 DEF RunnerInv

\* Steps of an application and of its groupApp.
LEMMA AppKeeps ==
    ASSUME RunnerInv, NEW a \in Apps,
           \/ StartApp(a) \/ GroupReceives(a) \/ GroupJoins(a) \/ Report(a)
           \/ \E err \in BOOLEAN : AppReturns(a, err) \/ GroupCancelled(a, err)
    PROVE  RunnerInv'
<1> USE DEF RunnerInv, RunnerType, GroupFollows, RunInOrder, CodeSoFar, Returned
<1>1. CASE StartApp(a)
  BY <1>1 DEF StartApp
<1>2. CASE GroupReceives(a)
  BY <1>2 DEF GroupReceives
<1>3. CASE GroupJoins(a)
  BY <1>3 DEF GroupJoins
<1>4. CASE Report(a)
  BY <1>4 DEF Report
<1>5. ASSUME NEW err \in BOOLEAN, AppReturns(a, err) PROVE RunnerInv'
  BY <1>5 DEF AppReturns
<1>6. ASSUME NEW err \in BOOLEAN, GroupCancelled(a, err) PROVE RunnerInv'
  BY <1>6 DEF GroupCancelled, Asked
<1> QED
  BY <1>1, <1>2, <1>3, <1>4, <1>5, <1>6

\* Steps of the goroutines of app.Run.
LEMMA MainKeeps ==
    ASSUME RunnerInv,
           \/ MainStep \/ ShutTimeout \/ Cancel
           \/ \E a \in Apps, err \in BOOLEAN : ShutApp(a, err)
    PROVE  RunnerInv'
<1> USE DEF RunnerInv, RunnerType, GroupFollows, RunInOrder, CodeSoFar
<1>1. CASE MultiReturns
  BY <1>1 DEF MultiReturns
<1>2. CASE RunSends
  BY <1>2 DEF RunSends
<1>3. CASE ShutRunDone
  BY <1>3 DEF ShutRunDone
<1>4. CASE ShutBegins
  BY <1>4 DEF ShutBegins
<1>5. CASE ShutWaited \/ ShutTimeout
  BY <1>5 DEF ShutWaited, ShutTimeout
<1>6. CASE ShutSends
  BY <1>6 DEF ShutSends
<1>7. CASE RunReturns
  BY <1>7 DEF RunReturns
<1>8. CASE Cancel
  BY <1>8 DEF Cancel
<1>9. ASSUME NEW a \in Apps, NEW err \in BOOLEAN, ShutApp(a, err) PROVE RunnerInv'
  <2>1. /\ main.shut = "shutdown" /\ asked' = Asked(a) /\ UNCHANGED <<ctx, group, run, grp, slow>>
        /\ main' = [main EXCEPT !.todo = @ \ {a}, !.shutErr = @ \/ err,
                                !.shut = IF main.todo = {a} THEN "wait" ELSE @]
    BY <1>9 DEF ShutApp
  <2>2. /\ main'.run = main.run /\ main'.multiErr = main.multiErr /\ main'.at = main.at /\ main'.code = main.code
        /\ main'.shut \in {"shutdown", "wait"}
    BY <2>1
  <2>3. RunnerType'
    BY <2>1 DEF Asked
  <2>4. GroupFollows'
    BY <2>1, <2>2
  <2>5. RunInOrder' /\ CodeSoFar'
    BY <2>1, <2>2
  <2> QED
    BY <2>3, <2>4, <2>5
<1> QED
  BY <1>1, <1>2, <1>3, <1>4, <1>5, <1>6, <1>7, <1>8, <1>9 DEF MainStep

\* The invariant is inductive; the gossip network does not touch the runner.
LEMMA NextRunner == RunnerInv /\ [Next]_vars => RunnerInv'
<1> SUFFICES ASSUME RunnerInv, [Next]_vars PROVE RunnerInv'
  OBVIOUS
<1>1. CASE UNCHANGED runnerVars
  BY <1>1 DEF runnerVars, RunnerInv, RunnerType, GroupFollows, RunInOrder, CodeSoFar
<1>2. CASE RunnerNext
  BY <1>2, AppKeeps, MainKeeps DEF RunnerNext, RunnerStep
<1> QED
  BY <1>1, <1>2 DEF Next, vars

\* Whatever the applications do, a process that ends within its time limit ends
\* with the code its parts deserve and with all of them returned, and only an
\* application that outlived the limit makes Run send on a closed channel.
THEOREM ExitCodeIsRight == Spec => []ExitIsRight
<1>1. Spec => []RunnerInv
  BY InitRunner, NextRunner, PTL DEF Spec
<1>2. RunnerInv => PanicsOnlyWhenSlow
  BY DEF RunnerInv, RunInOrder, PanicsOnlyWhenSlow
<1>3. RunnerInv => CodeIsRight
  BY DEF RunnerInv, RunnerType, GroupFollows, RunInOrder, CodeSoFar, CodeIsRight
<1> QED
  BY <1>1, <1>2, <1>3, PTL DEF ExitIsRight

-----------------------------------------------------------------------------
(* Numbers in order *)

\* A set of natural numbers has a least one.
LEMMA LeastNat ==
    ASSUME NEW T \in SUBSET Nat, T # {}
    PROVE  \E x \in T : \A y \in T : x <= y
<1>1. \E x \in T : \A y \in T : ~(<<y, x>> \in OpToRel(<, Nat))
  BY NatLessThanWellFounded, WFMin, Zenon
<1>2. ASSUME NEW x \in Nat, NEW y \in Nat, y < x PROVE <<y, x>> \in OpToRel(<, Nat)
  BY <1>2, Zenon DEF OpToRel
<1>3. \E x \in T : \A y \in T : ~(y < x)
  BY <1>1, <1>2, Zenon
<1> QED
  BY <1>3

\* How many numbers of a finite set are below one.
Rank(K, x) == Cardinality(K \cap 0..x - 1)

\* Ranks are numbers below the size of the set, and in the order of the set.
LEMMA Ranks ==
    ASSUME NEW K \in SUBSET Nat, IsFiniteSet(K)
    PROVE  /\ Cardinality(K) \in Nat
           /\ \A x \in K : Rank(K, x) \in Nat /\ Rank(K, x) < Cardinality(K)
           /\ \A x, y \in K : x < y => Rank(K, x) < Rank(K, y)
<1>0. Cardinality(K) \in Nat
  BY FS_CardinalityType
<1>1. ASSUME NEW x \in K
      PROVE  IsFiniteSet(K \cap 0..x - 1) /\ Rank(K, x) \in Nat
  BY FS_Intersection, FS_CardinalityType DEF Rank
<1>2. ASSUME NEW x \in K PROVE Rank(K, x) < Cardinality(K)
  <2> DEFINE A == K \cap 0..x - 1
  <2>1. A \in SUBSET K /\ x \notin A
    OBVIOUS
  <2>2. IsFiniteSet(A) /\ Cardinality(A) \in Nat /\ Rank(K, x) = Cardinality(A)
    BY <1>1 DEF Rank
  <2> HIDE DEF A
  <2>3. Cardinality(A) <= Cardinality(K) /\ (Cardinality(K) = Cardinality(A) => K = A)
    BY <2>1, FS_Subset
  <2> QED
    BY <1>0, <2>1, <2>2, <2>3
<1>3. ASSUME NEW x \in K, NEW y \in K, x < y PROVE Rank(K, x) < Rank(K, y)
  <2> DEFINE A == K \cap 0..x - 1
             B == K \cap 0..y - 1
  <2>1. A \in SUBSET B /\ x \notin A /\ x \in B
    BY <1>3
  <2>2. /\ Cardinality(A) \in Nat /\ Rank(K, x) = Cardinality(A)
        /\ IsFiniteSet(B) /\ Cardinality(B) \in Nat /\ Rank(K, y) = Cardinality(B)
    BY <1>1 DEF Rank
  <2> HIDE DEF A, B
  <2>3. Cardinality(A) <= Cardinality(B) /\ (Cardinality(B) = Cardinality(A) => B = A)
    BY <2>1, <2>2, FS_Subset
  <2> QED
    BY <2>1, <2>2, <2>3
<1> QED
  BY <1>0, <1>1, <1>2, <1>3

\* The i-th number is the one with that rank.
LEMMA NthRank ==
    ASSUME NEW K \in SUBSET Nat, IsFiniteSet(K)
    PROVE  /\ \A i \in 1..Cardinality(K) : Nth(K, i) \in K /\ Rank(K, Nth(K, i)) = i - 1
           /\ \A x \in K : Rank(K, x) + 1 \in 1..Cardinality(K) /\ Nth(K, Rank(K, x) + 1) = x
<1> DEFINE n == Cardinality(K)
           f == [x \in K |-> Rank(K, x) + 1]
<1>0. /\ n \in Nat /\ \A x \in K : Rank(K, x) \in Nat /\ Rank(K, x) < n
      /\ \A x, y \in K : x < y => Rank(K, x) < Rank(K, y)
  BY Ranks
<1>1. \A x, y \in K : Rank(K, x) = Rank(K, y) => x = y
  BY <1>0
<1> HIDE DEF n
<1>2. f \in Injection(K, 1..n)
  <2>1. f \in [K -> 1..n]
    BY <1>0
  <2>2. \A x, y \in K : f[x] = f[y] => x = y
    BY <1>0, <1>1
  <2> QED
    BY <2>1, <2>2 DEF Injection, IsInjective
<1>3. IsFiniteSet(1..n) /\ Cardinality(1..n) = n
  BY <1>0, FS_Interval
<1>4. f \in Surjection(K, 1..n)
  <2> HIDE DEF f
  <2>1. Cardinality(K) = Cardinality(1..n)
    BY <1>3 DEF n
  <2> QED
    BY <1>2, <1>3, <2>1, FS_Injection
<1>5. ASSUME NEW i \in 1..n PROVE Nth(K, i) \in K /\ Rank(K, Nth(K, i)) = i - 1
  <2>1. PICK x \in K : f[x] = i
    BY <1>4 DEF Surjection
  <2>2. Rank(K, x) = i - 1
    BY <1>0, <2>1
  <2> QED
    BY <2>2 DEF Nth, Rank
<1>6. ASSUME NEW x \in K PROVE Rank(K, x) + 1 \in 1..n /\ Nth(K, Rank(K, x) + 1) = x
  <2>1. Rank(K, x) + 1 \in 1..n /\ (Rank(K, x) + 1) - 1 = Rank(K, x)
    BY <1>0
  <2>2. PICK i \in 1..n : i = Rank(K, x) + 1 /\ i - 1 = Rank(K, x)
    BY <2>1
  <2>3. Nth(K, i) \in K /\ Rank(K, Nth(K, i)) = Rank(K, x)
    BY <1>5, <2>2
  <2> QED
    BY <1>1, <2>1, <2>2, <2>3
<1> QED
  BY <1>5, <1>6 DEF n

\* A set of numbers in order.
InOrder(K) == [i \in 1..Cardinality(K) |-> Nth(K, i)]

\* It lists every number of the set, and in order.
LEMMA InOrderLists ==
    ASSUME NEW K \in SUBSET Nat, IsFiniteSet(K)
    PROVE  /\ Cardinality(K) \in Nat /\ DOMAIN InOrder(K) = 1..Cardinality(K)
           /\ InOrder(K) \in Seq(K) /\ Len(InOrder(K)) = Cardinality(K)
           /\ \A i \in 1..Cardinality(K) : InOrder(K)[i] \in K
           /\ \A i, j \in 1..Cardinality(K) : i < j => InOrder(K)[i] < InOrder(K)[j]
           /\ \A x \in K : \E i \in 1..Cardinality(K) : InOrder(K)[i] = x
           /\ ToSet(InOrder(K)) = K
<1> DEFINE n == Cardinality(K)
           s == InOrder(K)
<1>1. n \in Nat
  BY Ranks
<1>2. /\ \A i \in 1..n : Nth(K, i) \in K /\ Rank(K, Nth(K, i)) = i - 1
      /\ \A x \in K : Rank(K, x) + 1 \in 1..n /\ Nth(K, Rank(K, x) + 1) = x
  BY NthRank
<1>3. DOMAIN s = 1..n /\ \A i \in 1..n : s[i] = Nth(K, i)
  BY DEF InOrder
<1>4. s \in [1..n -> K]
  BY <1>2 DEF InOrder
<1> HIDE DEF n, s
<1>5. s \in Seq(K) /\ Len(s) = n
  BY <1>1, <1>4
<1>6. ASSUME NEW i \in 1..n, NEW j \in 1..n, i < j PROVE s[i] < s[j]
  <2>1. s[i] \in K /\ s[j] \in K /\ Rank(K, s[i]) = i - 1 /\ Rank(K, s[j]) = j - 1
    BY <1>2, <1>3
  <2>2. ~(s[j] < s[i]) /\ s[i] # s[j]
    <3>1. s[j] < s[i] => Rank(K, s[j]) < Rank(K, s[i])
      BY <2>1, Ranks
    <3> QED
      BY <1>1, <1>6, <2>1, <3>1
  <2>3. PICK x \in Nat, y \in Nat : x = s[i] /\ y = s[j]
    BY <2>1
  <2> QED
    BY <2>2, <2>3
<1>7. \A x \in K : \E i \in 1..n : s[i] = x
  BY <1>2, <1>3
<1>8. ToSet(s) = K
  BY <1>3, <1>4, <1>7 DEF ToSet
<1> QED
  BY <1>1, <1>3, <1>4, <1>5, <1>6, <1>7, <1>8 DEF n, s

\* Sets with a one to one map between them have the same size.
LEMMA SameSize ==
    ASSUME NEW A, NEW B, IsFiniteSet(A), NEW f \in [A -> B],
           \A x, y \in A : f[x] = f[y] => x = y, \A z \in B : \E x \in A : f[x] = z
    PROVE  IsFiniteSet(B) /\ Cardinality(B) = Cardinality(A)
<1>1. f \in Bijection(A, B)
  BY DEF Bijection, Injection, Surjection, IsInjective
<1>2. ExistsBijection(A, B)
  BY <1>1 DEF ExistsBijection
<1> QED
  BY <1>2, FS_Bijection

\* What is picked of a set in order is the smaller set in order.
LEMMA PickedInOrder ==
    ASSUME NEW K \in SUBSET Nat, IsFiniteSet(K), NEW L \in SUBSET K
    PROVE  Picked(InOrder(K), {i \in DOMAIN InOrder(K) : InOrder(K)[i] \in L}) = InOrder(L)
<1> DEFINE n == Cardinality(K)
<1>0. PICK s : s = InOrder(K)
  OBVIOUS
<1>1. /\ n \in Nat /\ DOMAIN s = 1..n
      /\ \A i \in 1..n : s[i] \in K
      /\ \A i, j \in 1..n : i < j => s[i] < s[j]
      /\ \A x \in K : \E i \in 1..n : s[i] = x
  BY <1>0, InOrderLists
<1> HIDE DEF n
<1> DEFINE G == {i \in DOMAIN s : s[i] \in L}
<1>2. G \in SUBSET Nat /\ IsFiniteSet(G) /\ G \subseteq 1..n
  <2>1. G \subseteq 1..n /\ IsFiniteSet(1..n)
    BY <1>1, FS_Interval
  <2> HIDE DEF G
  <2>2. IsFiniteSet(G)
    BY <2>1, FS_Subset
  <2>3. 1..n \subseteq Nat
    BY <1>1
  <2> QED
    BY <2>1, <2>2, <2>3
<1>3. L \in SUBSET Nat /\ IsFiniteSet(L)
  BY FS_Subset
<1>4. ASSUME NEW i \in 1..n, NEW j \in 1..n, s[i] = s[j] PROVE i = j
  <2>1. PICK x \in Nat : x = s[i] /\ x = s[j]
    BY <1>1, <1>4
  <2>2. ~(i < j) /\ ~(j < i)
    <3>1. i < j => s[i] < s[j]
      BY <1>1
    <3>2. j < i => s[j] < s[i]
      BY <1>1
    <3> QED
      BY <2>1, <3>1, <3>2
  <2> QED
    BY <1>1, <2>2
<1>5. ASSUME NEW i \in 1..n, NEW j \in 1..n, s[i] < s[j] PROVE i < j
  <2>1. PICK x \in Nat, y \in Nat : x = s[i] /\ y = s[j] /\ x < y
    BY <1>1, <1>5
  <2>2. i # j /\ ~(j < i)
    BY <1>1, <2>1
  <2> QED
    BY <1>1, <2>2
<1>6. Cardinality(L) = Cardinality(G)
  <2> DEFINE f == [i \in G |-> s[i]]
  <2>1. f \in [G -> L] /\ (\A i, j \in G : f[i] = f[j] => i = j)
    BY <1>2, <1>4
  <2>2. \A z \in L : \E i \in G : f[i] = z
    BY <1>1
  <2> HIDE DEF f, G
  <2> QED
    BY <1>2, <2>1, <2>2, SameSize
<1>7. ASSUME NEW i \in 1..Cardinality(G) PROVE s[Nth(G, i)] = Nth(L, i)
  <2>1. PICK k \in G : k = Nth(G, i) /\ Rank(G, k) = i - 1
    <3> HIDE DEF G
    <3> QED
      BY <1>2, NthRank
  <2>2. PICK x \in L : x = s[k]
    OBVIOUS
  <2> DEFINE A == G \cap 0..k - 1
             B == L \cap 0..x - 1
             f == [j \in A |-> s[j]]
  <2>3. k \in 1..n /\ x \in Nat
    BY <1>2, <1>3
  <2>4. f \in [A -> B]
    <3>1. ASSUME NEW j \in A PROVE s[j] \in B
      <4>1. j \in 1..n /\ j < k /\ s[j] \in L
        BY <1>2, <2>3
      <4>2. s[j] < x /\ s[j] \in Nat
        BY <1>1, <1>3, <2>2, <2>3, <4>1
      <4> QED
        BY <4>1, <4>2, <2>3
    <3> QED
      BY <3>1
  <2>5. \A j, m \in A : f[j] = f[m] => j = m
    BY <1>2, <1>4
  <2>6. ASSUME NEW z \in B PROVE \E j \in A : f[j] = z
    <3>1. z \in L /\ z < x
      BY <1>3, <2>3
    <3>2. PICK j \in 1..n : s[j] = z
      BY <1>1, <3>1
    <3>3. j < k
      BY <1>5, <2>2, <2>3, <3>1, <3>2
    <3>4. j \in A
      BY <1>1, <2>3, <3>1, <3>2, <3>3
    <3> QED
      BY <3>2, <3>4
  <2>7. IsFiniteSet(A)
    BY <1>2, FS_Intersection
  <2>8. Rank(G, k) = Cardinality(A) /\ Rank(L, x) = Cardinality(B)
    BY DEF Rank
  <2>9. Cardinality(B) = Cardinality(A)
    <3> HIDE DEF A, B, f
    <3> QED
      BY <2>4, <2>5, <2>6, <2>7, SameSize
  <2>10. Rank(L, x) = i - 1 /\ Cardinality(L) \in Nat
    BY <1>3, <2>1, <2>8, <2>9, FS_CardinalityType
  <2>11. Nth(L, Rank(L, x) + 1) = x
    BY <1>3, NthRank
  <2>12. Rank(L, x) + 1 = i
    BY <2>10, <1>6
  <2> QED
    BY <2>1, <2>2, <2>11, <2>12
<1>8. Picked(s, G) = InOrder(L)
  <2> HIDE DEF G
  <2> QED
    BY <1>6, <1>7 DEF Picked, InOrder
<1> QED
  BY <1>0, <1>8
-----------------------------------------------------------------------------
(* Rings *)

\* The ring of a set of routers.
OwnerIn(R, x) == CHOOSE q \in R : x \in ToSet(RouterPos[q])
RingOf(R) ==
    [routers   |-> R,
     positions |-> InOrder(PositionsOf(R)),
     owner     |-> [x \in PositionsOf(R) |-> OwnerIn(R, x)]]

\* The elements of two sequences, one after the other.
LEMMA JoinedSets ==
    ASSUME NEW S, NEW s \in Seq(S), NEW t \in Seq(S)
    PROVE  ToSet(s \o t) = ToSet(s) \cup ToSet(t)
<1>1. Len(s) \in Nat /\ Len(t) \in Nat /\ DOMAIN s = 1..Len(s) /\ DOMAIN t = 1..Len(t)
  OBVIOUS
<1>2. /\ DOMAIN (s \o t) = 1..Len(s) + Len(t)
      /\ \A i \in 1..Len(s) + Len(t) : (s \o t)[i] = IF i <= Len(s) THEN s[i] ELSE t[i - Len(s)]
  BY <1>1, ConcatProperties
<1>3. PICK u : u = s \o t
  OBVIOUS
<1>4. ASSUME NEW i \in DOMAIN u PROVE u[i] \in ToSet(s) \cup ToSet(t)
  <2>1. CASE i <= Len(s)
    BY <1>1, <1>2, <1>3, <2>1 DEF ToSet
  <2>2. CASE ~(i <= Len(s))
    <3>1. i - Len(s) \in 1..Len(t) /\ u[i] = t[i - Len(s)]
      BY <1>1, <1>2, <1>3, <2>2
    <3> QED
      BY <1>1, <3>1 DEF ToSet
  <2> QED
    BY <2>1, <2>2
<1>5. ASSUME NEW i \in DOMAIN s PROVE s[i] \in ToSet(u)
  <2>1. i \in DOMAIN u /\ u[i] = s[i]
    BY <1>1, <1>2, <1>3
  <2> QED
    BY <2>1 DEF ToSet
<1>6. ASSUME NEW i \in DOMAIN t PROVE t[i] \in ToSet(u)
  <2>1. i + Len(s) \in DOMAIN u /\ (i + Len(s)) - Len(s) = i /\ ~(i + Len(s) <= Len(s))
    BY <1>1, <1>2, <1>3
  <2>2. u[i + Len(s)] = t[i]
    BY <1>2, <1>3, <2>1
  <2> QED
    BY <2>1, <2>2 DEF ToSet
<1>7. ToSet(u) \subseteq ToSet(s) \cup ToSet(t)
  BY <1>4 DEF ToSet
<1>8. ToSet(s) \subseteq ToSet(u) /\ ToSet(t) \subseteq ToSet(u)
  BY <1>5, <1>6 DEF ToSet
<1> QED
  BY <1>3, <1>7, <1>8

\* Routers have finitely many positions.
LEMMA PositionsFinite ==
    ASSUME NEW R \in SUBSET Routers
    PROVE  /\ PositionsOf(R) \in SUBSET Nat /\ IsFiniteSet(PositionsOf(R))
           /\ PositionsOf(R) \in SUBSET PositionsOf(Routers)
           /\ Sorted[PositionsOf(R)] = InOrder(PositionsOf(R))
<1>1. ASSUME NEW q \in R
      PROVE  ToSet(RouterPos[q]) \subseteq Nat /\ IsFiniteSet(ToSet(RouterPos[q]))
  <2>1. PICK s \in Seq(Nat) : s = RouterPos[q]
    BY GossipAssumption
  <2>2. Len(s) \in Nat /\ DOMAIN s = 1..Len(s) /\ \A i \in DOMAIN s : s[i] \in Nat
    OBVIOUS
  <2>3. IsFiniteSet(DOMAIN s)
    BY <2>2, FS_Interval
  <2>4. s \in Surjection(DOMAIN s, ToSet(s))
    BY <2>2 DEF Surjection, ToSet
  <2>5. IsFiniteSet(ToSet(s))
    BY <2>3, <2>4, FS_Surjection
  <2>6. ToSet(s) \subseteq Nat
    BY <2>2 DEF ToSet
  <2> QED
    BY <2>1, <2>5, <2>6
<1> DEFINE T == {ToSet(RouterPos[q]) : q \in R}
           f == [q \in R |-> ToSet(RouterPos[q])]
<1>2. f \in Surjection(R, T)
  BY DEF Surjection
<1>3. IsFiniteSet(R)
  BY GossipAssumption, FS_Subset
<1>4. IsFiniteSet(T)
  <2> HIDE DEF f, T
  <2> QED
    BY <1>2, <1>3, FS_Surjection
<1>5. IsFiniteSet(UNION T)
  BY <1>1, <1>4, FS_UNION
<1>6. PositionsOf(R) \subseteq Nat /\ PositionsOf(R) \subseteq PositionsOf(Routers)
  BY <1>1 DEF PositionsOf
<1> QED
  BY <1>5, <1>6 DEF PositionsOf, Sorted, InOrder

\* A position has one owner.
LEMMA Owners ==
    ASSUME NEW R \in SUBSET Routers
    PROVE  /\ \A x \in PositionsOf(R) : OwnerIn(R, x) \in R /\ x \in ToSet(RouterPos[OwnerIn(R, x)])
           /\ \A q \in R : ToSet(RouterPos[q]) \subseteq PositionsOf(R)
           /\ \A q \in R : \A x \in ToSet(RouterPos[q]) : OwnerIn(R, x) = q
<1>1. \A x \in PositionsOf(R) : OwnerIn(R, x) \in R /\ x \in ToSet(RouterPos[OwnerIn(R, x)])
  BY DEF PositionsOf, OwnerIn
<1>2. \A q \in R : ToSet(RouterPos[q]) \subseteq PositionsOf(R)
  BY DEF PositionsOf
<1>3. \A p, q \in Routers : p # q => ToSet(RouterPos[p]) \cap ToSet(RouterPos[q]) = {}
  BY PositionsDistinct
<1> QED
  BY <1>1, <1>2, <1>3

\* A router joins a ring.
LEMMA RingAdds ==
    ASSUME NEW R \in SUBSET Routers, NEW q \in Routers
    PROVE  AddRouter(RingOf(R), q) = RingOf(R \cup {q})
<1>1. CASE q \in R
  <2>1. R \cup {q} = R
    BY <1>1
  <2> QED
    BY <1>1, <2>1 DEF AddRouter, RingOf
<1>2. CASE q \notin R
  <2> DEFINE W == R \cup {q}
             s == InOrder(PositionsOf(R))
             own == [x \in PositionsOf(R) |-> OwnerIn(R, x)]
  <2>1. /\ PositionsOf(R) \in SUBSET Nat /\ IsFiniteSet(PositionsOf(R))
        /\ W \in SUBSET Routers /\ Sorted[PositionsOf(W)] = InOrder(PositionsOf(W))
    BY PositionsFinite
  <2>2. s \in Seq(PositionsOf(R)) /\ ToSet(s) = PositionsOf(R)
    BY <2>1, InOrderLists
  <2>3. s \in Seq(Nat) /\ RouterPos[q] \in Seq(Nat)
    BY <2>1, <2>2, GossipAssumption
  <2>4. PositionsOf(W) = PositionsOf(R) \cup ToSet(RouterPos[q])
    BY DEF PositionsOf
  <2>5. ToSet(s \o RouterPos[q]) = PositionsOf(W)
    <3> HIDE DEF s, W
    <3> QED
      BY <2>2, <2>3, <2>4, JoinedSets
  <2>6. [x \in DOMAIN own \cup ToSet(RouterPos[q]) |-> IF x \in ToSet(RouterPos[q]) THEN q ELSE own[x]]
           = [x \in PositionsOf(W) |-> OwnerIn(W, x)]
    <3>1. DOMAIN own \cup ToSet(RouterPos[q]) = PositionsOf(W)
      BY <2>4
    <3>2. ASSUME NEW x \in PositionsOf(W)
          PROVE  (IF x \in ToSet(RouterPos[q]) THEN q ELSE own[x]) = OwnerIn(W, x)
      <4>1. CASE x \in ToSet(RouterPos[q])
        BY <2>1, <4>1, Owners
      <4>2. CASE x \notin ToSet(RouterPos[q])
        <5>1. x \in PositionsOf(R)
          BY <2>4, <4>2
        <5>2. OwnerIn(R, x) \in W /\ x \in ToSet(RouterPos[OwnerIn(R, x)])
          BY <5>1, Owners
        <5>3. OwnerIn(W, x) = OwnerIn(R, x)
          BY <2>1, <5>2, Owners
        <5> QED
          BY <4>2, <5>1, <5>3
      <4> QED
        BY <4>1, <4>2
    <3> HIDE DEF W
    <3> QED
      BY <3>1, <3>2
  <2>7. AddRouter(RingOf(R), q) =
          [routers |-> W, positions |-> Sorted[ToSet(s \o RouterPos[q])],
           owner |-> [x \in DOMAIN own \cup ToSet(RouterPos[q]) |->
                         IF x \in ToSet(RouterPos[q]) THEN q ELSE own[x]]]
    BY <1>2, Zenon DEF AddRouter, RingOf
  <2>8. RingOf(W) = [routers |-> W, positions |-> InOrder(PositionsOf(W)),
                     owner |-> [x \in PositionsOf(W) |-> OwnerIn(W, x)]]
    BY Zenon DEF RingOf
  <2> HIDE DEF s, own, W
  <2>9. AddRouter(RingOf(R), q) = RingOf(W)
    BY <2>1, <2>5, <2>6, <2>7, <2>8, Zenon
  <2> QED
    BY <2>9 DEF W
<1> QED
  BY <1>1, <1>2

\* A router leaves a ring.
LEMMA RingRemoves ==
    ASSUME NEW R \in SUBSET Routers, NEW q
    PROVE  RemoveRouter(RingOf(R), q) = RingOf(R \ {q})
<1>1. CASE q \notin R
  <2>1. R \ {q} = R
    BY <1>1
  <2> QED
    BY <1>1, <2>1 DEF RemoveRouter, RingOf
<1>2. CASE q \in R
  <2> DEFINE W == R \ {q}
             K == PositionsOf(R)
             L == PositionsOf(W)
             s == InOrder(K)
             own == [x \in K |-> OwnerIn(R, x)]
             gone == {i \in DOMAIN s : own[s[i]] = q}
  <2>1. K \in SUBSET Nat /\ IsFiniteSet(K) /\ W \in SUBSET Routers
    BY PositionsFinite
  <2>2. L \subseteq K /\ \A x \in K : x \in L <=> OwnerIn(R, x) # q
    <3>1. ASSUME NEW x \in L PROVE x \in K /\ OwnerIn(R, x) # q
      <4>1. PICK r \in W : x \in ToSet(RouterPos[r])
        BY DEF PositionsOf
      <4>2. OwnerIn(R, x) = r /\ x \in K
        BY <4>1, Owners
      <4> QED
        BY <4>1, <4>2
    <3>2. ASSUME NEW x \in K, OwnerIn(R, x) # q PROVE x \in L
      <4>1. OwnerIn(R, x) \in W /\ x \in ToSet(RouterPos[OwnerIn(R, x)])
        BY <3>2, Owners
      <4> QED
        BY <4>1 DEF PositionsOf
    <3> QED
      BY <3>1, <3>2
  <2>3. /\ \A i \in DOMAIN s : s[i] \in K
        /\ \A x \in K : \E i \in DOMAIN s : s[i] = x
    <3> HIDE DEF K
    <3> QED
      BY <2>1, InOrderLists
  <2>4. DOMAIN s \ gone = {i \in DOMAIN s : s[i] \in L}
    <3>1. \A i \in DOMAIN s : own[s[i]] = OwnerIn(R, s[i])
      BY <2>3
    <3> HIDE DEF s, K, L, W, own
    <3> QED
      BY <2>2, <2>3, <3>1
  <2>5. Picked(s, DOMAIN s \ gone) = InOrder(L)
    <3>1. Picked(s, {i \in DOMAIN s : s[i] \in L}) = InOrder(L)
      <4> HIDE DEF K, L
      <4> QED
        BY <2>1, <2>2, PickedInOrder
    <3> HIDE DEF s, K, L, W, own, gone
    <3> QED
      BY <2>4, <3>1
  <2>6. DOMAIN own \ {s[i] : i \in gone} = L
    <3> HIDE DEF s, K, L, W
    <3> QED
      BY <2>2, <2>3
  <2>7. ASSUME NEW x \in L PROVE own[x] = OwnerIn(W, x)
    <3>1. OwnerIn(W, x) \in W /\ x \in ToSet(RouterPos[OwnerIn(W, x)])
      BY <2>1, Owners
    <3>2. OwnerIn(R, x) = OwnerIn(W, x)
      BY <3>1, Owners
    <3> QED
      BY <2>2, <3>2
  <2>8. Restrict(own, DOMAIN own \ {s[i] : i \in gone}) = [x \in L |-> OwnerIn(W, x)]
    <3> HIDE DEF s, K, L, W, own, gone
    <3> QED
      BY <2>6, <2>7 DEF Restrict
  <2>9. RemoveRouter(RingOf(R), q) =
          [routers |-> W, positions |-> Picked(s, DOMAIN s \ gone),
           owner |-> Restrict(own, DOMAIN own \ {s[i] : i \in gone})]
    BY <1>2 DEF RemoveRouter, RingOf
  <2>10. RingOf(W) = [routers |-> W, positions |-> InOrder(L),
                      owner |-> [x \in L |-> OwnerIn(W, x)]]
    BY Zenon DEF RingOf
  <2> HIDE DEF s, own, W, K, L, gone
  <2>11. RemoveRouter(RingOf(R), q) = RingOf(W)
    BY <2>5, <2>8, <2>9, <2>10, Zenon
  <2> QED
    BY <2>11 DEF W
<1> QED
  BY <1>1, <1>2

\* Several routers join a ring, one after the other.
LEMMA RingFold ==
    ASSUME NEW R \in SUBSET Routers, NEW Q \in SUBSET Routers
    PROVE  FoldSet(LAMBDA q, g : AddRouter(g, q), RingOf(R), Q) = RingOf(R \cup Q)
<1> DEFINE F(h) == [s \in SUBSET Q |->
                       IF s = {} THEN RingOf(R)
                       ELSE AddRouter(h[s \ {CHOOSE x \in s : TRUE}], CHOOSE x \in s : TRUE)]
           w == [s \in SUBSET Q |-> RingOf(R \cup s)]
<1>1. ASSUME NEW s \in SUBSET Q, s # {}, NEW h, h = F(h), NEW x, x = CHOOSE y \in s : TRUE,
             h[s \ {x}] = w[s \ {x}]
      PROVE  h[s] = w[s]
  <2>1. x \in s /\ x \in Routers
    BY <1>1
  <2>2. h[s] = AddRouter(h[s \ {x}], x)
    BY <1>1, Zenon
  <2>3. h[s \ {x}] = RingOf(R \cup (s \ {x}))
    BY <1>1
  <2>4. R \cup (s \ {x}) \in SUBSET Routers /\ (R \cup (s \ {x})) \cup {x} = R \cup s
    BY <2>1
  <2>5. AddRouter(RingOf(R \cup (s \ {x})), x) = RingOf((R \cup (s \ {x})) \cup {x})
    BY <2>1, <2>4, RingAdds
  <2>6. w[s] = RingOf(R \cup s)
    BY <1>1
  <2> QED
    BY <2>2, <2>3, <2>4, <2>5, <2>6, Zenon
<1>2. ASSUME NEW h, h = F(h) PROVE h = w
  <2> DEFINE bad == {s \in SUBSET Q : h[s] # w[s]}
             T == {Cardinality(s) : s \in bad}
  <2>0. \A s \in SUBSET Q : IsFiniteSet(s)
    BY GossipAssumption, FS_Subset
  <2>1. CASE bad # {}
    <3>1. T \in SUBSET Nat /\ T # {}
      BY <2>0, <2>1, FS_CardinalityType
    <3>2. PICK s \in bad : \A t \in bad : Cardinality(s) <= Cardinality(t)
      <4>1. PICK n \in T : \A m \in T : n <= m
        <5> HIDE DEF T
        <5> QED
          BY <3>1, LeastNat
      <4> QED
        BY <4>1
    <3>3. CASE s = {}
      <4>1. h[s] = RingOf(R) /\ w[s] = RingOf(R \cup {}) /\ R \cup {} = R
        BY <1>2, <3>3
      <4> QED
        BY <4>1, <3>2
    <3>4. CASE s # {}
      <4>1. PICK x : x = CHOOSE y \in s : TRUE
        OBVIOUS
      <4>2. x \in s
        BY <3>4, <4>1
      <4>3. IsFiniteSet(s) /\ s \ {x} \in SUBSET Q
        BY <2>0
      <4>4. Cardinality(s \ {x}) = Cardinality(s) - 1 /\ Cardinality(s) \in Nat
        BY <4>2, <4>3, FS_RemoveElement, FS_CardinalityType
      <4>5. s \ {x} \notin bad
        <5> HIDE DEF bad
        <5>1. ~(Cardinality(s) <= Cardinality(s \ {x}))
          BY <4>4
        <5> QED
          BY <3>2, <5>1
      <4>6. h[s \ {x}] = w[s \ {x}]
        BY <4>3, <4>5
      <4>7. h[s] = w[s]
        <5> HIDE DEF w, F
        <5> QED
          BY <1>1, <1>2, <3>4, <4>1, <4>6
      <4> QED
        BY <3>2, <4>7
    <3> QED
      BY <3>3, <3>4
  <2>2. CASE bad = {}
    <3>1. h = [s \in SUBSET Q |-> h[s]]
      BY <1>2
    <3>2. \A s \in SUBSET Q : h[s] = RingOf(R \cup s)
      BY <2>2
    <3> QED
      BY <3>1, <3>2
  <2> QED
    BY <2>1, <2>2
<1>3. w = F(w)
  <2>1. ASSUME NEW s \in SUBSET Q, s # {}
        PROVE  w[s] = AddRouter(w[s \ {CHOOSE x \in s : TRUE}], CHOOSE x \in s : TRUE)
    <3>1. PICK x : x = CHOOSE y \in s : TRUE
      OBVIOUS
    <3>2. x \in s /\ x \in Routers
      BY <2>1, <3>1
    <3>3. R \cup (s \ {x}) \in SUBSET Routers /\ (R \cup (s \ {x})) \cup {x} = R \cup s
      BY <3>2
    <3>4. AddRouter(RingOf(R \cup (s \ {x})), x) = RingOf((R \cup (s \ {x})) \cup {x})
      BY <3>2, <3>3, RingAdds
    <3>5. w[s] = RingOf(R \cup s) /\ w[s \ {x}] = RingOf(R \cup (s \ {x}))
      OBVIOUS
    <3> HIDE DEF w
    <3>6. w[s] = AddRouter(w[s \ {x}], x)
      BY <3>3, <3>4, <3>5, Zenon
    <3> QED
      BY <3>1, <3>6, Zenon
  <2>2. w[{}] = RingOf(R)
    <3>1. R \cup {} = R
      OBVIOUS
    <3> QED
      BY <3>1
  <2>3. w = [s \in SUBSET Q |-> w[s]]
    OBVIOUS
  <2> HIDE DEF w
  <2>4. [s \in SUBSET Q |-> w[s]] = F(w)
    BY <2>1, <2>2
  <2> QED
    BY <2>3, <2>4, Zenon
<1>4. FoldSet(LAMBDA q, g : AddRouter(g, q), RingOf(R), Q) = (CHOOSE h : h = F(h))[Q]
  BY DEF FoldSet, MapThenFoldSet
<1>5. w[Q] = RingOf(R \cup Q)
  OBVIOUS
<1> HIDE DEF w, F
<1>6. (CHOOSE h : h = F(h)) = w
  BY <1>2, <1>3
<1> QED
  BY <1>4, <1>5, <1>6
-----------------------------------------------------------------------------
(* Which router checks which node *)

\* The index that goes with the i-th node, from the one before.
Follows(g, N, i, before) ==
    LET next == IF before < Len(g.positions) /\ g.positions[before + 1] < NodePos[NodeOrder(N)[i]]
                THEN before + 1 ELSE before
    IN  IF next = Len(g.positions) THEN 0 ELSE next

\* The index is one of the ring's, for every node.
LEMMA IndexInRing ==
    ASSUME NEW N \in SUBSET Nodes, NEW g, g.positions \in Seq(Nat), g.positions # <<>>
    PROVE  \A i \in 0..Cardinality(N) : PosIndex(g, N)[i] \in 0..Len(g.positions) - 1
<1> DEFINE n == Cardinality(N)
           I == 0..Len(g.positions) - 1
           F(h) == [i \in 0..n |-> IF i = 0 THEN 0 ELSE Follows(g, N, i, h[i - 1])]
           Upto(m, f) == /\ f \in [0..m -> I] /\ f[0] = 0
                         /\ \A i \in 1..m : f[i] = Follows(g, N, i, f[i - 1])
<1>1. n \in Nat /\ 0 \in I
  <2>1. n \in Nat
    BY GossipAssumption, FS_Subset, FS_CardinalityType
  <2>2. Len(g.positions) \in Nat \ {0}
    OBVIOUS
  <2> QED
    BY <2>1, <2>2
<1>2. ASSUME NEW i, NEW b \in I PROVE Follows(g, N, i, b) \in I
  BY DEF Follows
<1>3. \A m \in Nat : \E f : Upto(m, f)
  <2> DEFINE T == {m \in Nat : ~ \E f : Upto(m, f)}
  <2>1. CASE T # {}
    <3>1. PICK m \in T : \A k \in T : m <= k
      <4>1. T \in SUBSET Nat
        OBVIOUS
      <4> HIDE DEF T
      <4> QED
        BY <2>1, <4>1, LeastNat
    <3>2. CASE m = 0
      <4> DEFINE f == [i \in 0..0 |-> 0]
      <4>1. Upto(0, f)
        BY <1>1
      <4> QED
        BY <3>2, <4>1
    <3>3. CASE m # 0
      <4>1. m \in Nat /\ m - 1 \in Nat /\ m - 1 < m
        BY <3>3
      <4>2. m - 1 \notin T
        <5> HIDE DEF T
        <5> QED
          BY <3>1, <4>1
      <4>3. PICK f : Upto(m - 1, f)
        BY <4>1, <4>2
      <4> DEFINE h == [i \in 0..m |-> IF i = m THEN Follows(g, N, m, f[m - 1]) ELSE f[i]]
      <4>4. h \in [0..m -> I]
        <5>1. f[m - 1] \in I
          BY <4>1, <4>3
        <5>2. Follows(g, N, m, f[m - 1]) \in I
          BY <1>2, <5>1
        <5>3. \A i \in 0..m - 1 : f[i] \in I
          BY <4>3
        <5> HIDE DEF I
        <5> QED
          BY <4>1, <5>2, <5>3
      <4>5. h[0] = 0
        BY <4>1, <4>3, <3>3
      <4>6. ASSUME NEW i \in 1..m PROVE h[i] = Follows(g, N, i, h[i - 1])
        <5>1. i \in 0..m /\ i - 1 \in 0..m /\ i - 1 # m /\ h[i - 1] = f[i - 1]
          BY <4>1
        <5>2. CASE i = m
          <6>1. h[i] = Follows(g, N, m, f[m - 1])
            BY <5>1, <5>2
          <6> QED
            BY <5>1, <5>2, <6>1
        <5>3. CASE i # m
          <6>1. i \in 1..m - 1 /\ h[i] = f[i]
            BY <4>1, <5>1, <5>3
          <6> QED
            BY <4>3, <5>1, <6>1
        <5> QED
          BY <5>2, <5>3
      <4>7. Upto(m, h)
        <5> HIDE DEF h
        <5> QED
          BY <4>4, <4>5, <4>6
      <4> QED
        BY <4>7
    <3> QED
      BY <3>2, <3>3
  <2> QED
    BY <2>1
<1>4. PICK f : Upto(n, f)
  BY <1>1, <1>3
<1>5. f = F(f)
  <2>1. ASSUME NEW i \in 0..n PROVE f[i] = IF i = 0 THEN 0 ELSE Follows(g, N, i, f[i - 1])
    <3>1. CASE i = 0
      BY <1>4, <3>1
    <3>2. CASE i # 0
      <4>1. i \in 1..n
        BY <1>1, <3>2
      <4> QED
        BY <1>4, <3>2, <4>1
    <3> QED
      BY <3>1, <3>2
  <2>2. f = [i \in 0..n |-> f[i]]
    BY <1>4
  <2> HIDE DEF n
  <2> QED
    BY <2>1, <2>2
<1>6. ASSUME NEW h, h = F(h), NEW i \in 0..n PROVE h[i] \in I
  <2> DEFINE T == {k \in 0..n : h[k] \notin I}
  <2>1. CASE T # {}
    <3>1. PICK k \in T : \A j \in T : k <= j
      <4>1. T \in SUBSET Nat
        BY <1>1
      <4> HIDE DEF T
      <4> QED
        BY <2>1, <4>1, LeastNat
    <3>2. k \in 0..n /\ k \in Nat /\ h[k] \notin I
      BY <1>1
    <3>3. CASE k = 0
      <4>1. h[k] = 0
        <5> HIDE DEF n, I
        <5> QED
          BY <1>6, <3>2, <3>3
      <4> QED
        BY <1>1, <3>2, <4>1
    <3>4. CASE k # 0
      <4>1. k - 1 \in 0..n /\ k - 1 < k
        BY <1>1, <3>2, <3>4
      <4>2. k - 1 \notin T
        <5> HIDE DEF T
        <5> QED
          BY <3>1, <3>2, <4>1, <1>1
      <4>3. h[k - 1] \in I
        BY <4>1, <4>2
      <4>4. h[k] = Follows(g, N, k, h[k - 1])
        <5> HIDE DEF n, I
        <5> QED
          BY <1>6, <3>2, <3>4
      <4>5. Follows(g, N, k, h[k - 1]) \in I
        BY <1>2, <4>3
      <4> QED
        BY <3>2, <4>4, <4>5
    <3> QED
      BY <3>3, <3>4
  <2> QED
    BY <2>1
<1>7. PosIndex(g, N) = CHOOSE h : h = F(h)
  BY DEF PosIndex, Follows
<1> HIDE DEF F, I, n
<1>8. PosIndex(g, N) = F(PosIndex(g, N))
  BY <1>5, <1>7
<1> QED
  BY <1>6, <1>8 DEF I, n

\* How many nodes come before a node.
NodeRank(N, n) == Cardinality({m \in N : NodePos[m] < NodePos[n]})

\* NodeOrder lists every node once.
LEMMA NodesListed ==
    ASSUME NEW N \in SUBSET Nodes
    PROVE  /\ \A i \in 1..Cardinality(N) : NodeOrder(N)[i] \in N /\ NodeRank(N, NodeOrder(N)[i]) = i - 1
           /\ \A n \in N : NodeRank(N, n) + 1 \in 1..Cardinality(N) /\ NodeOrder(N)[NodeRank(N, n) + 1] = n
<1> DEFINE K == {NodePos[n] : n \in N}
           f == [n \in N |-> NodePos[n]]
<1>1. /\ IsFiniteSet(N) /\ \A n \in N : NodePos[n] \in Nat
      /\ \A m, n \in N : NodePos[m] = NodePos[n] => m = n
  BY GossipAssumption, NodesDistinct, FS_Subset
<1>2. K \in SUBSET Nat /\ IsFiniteSet(K) /\ Cardinality(K) = Cardinality(N)
  <2>1. f \in [N -> K] /\ (\A m, n \in N : f[m] = f[n] => m = n)
    BY <1>1
  <2>2. \A z \in K : \E n \in N : f[n] = z
    OBVIOUS
  <2>3. K \in SUBSET Nat
    BY <1>1
  <2> HIDE DEF K, f
  <2> QED
    BY <1>1, <2>1, <2>2, <2>3, SameSize
<1>3. ASSUME NEW n \in N PROVE NodeRank(N, n) = Rank(K, NodePos[n])
  <2> DEFINE A == {m \in N : NodePos[m] < NodePos[n]}
             B == K \cap 0..NodePos[n] - 1
             h == [m \in A |-> NodePos[m]]
  <2>1. h \in [A -> B]
    <3>1. ASSUME NEW m \in A PROVE NodePos[m] \in B
      <4>1. NodePos[m] \in Nat /\ NodePos[n] \in Nat /\ NodePos[m] < NodePos[n]
        BY <1>1
      <4> QED
        BY <4>1
    <3> HIDE DEF A, B
    <3> QED
      BY <3>1
  <2>2. \A x, y \in A : h[x] = h[y] => x = y
    BY <1>1
  <2>3. ASSUME NEW z \in B PROVE \E x \in A : h[x] = z
    <3>1. PICK m \in N : z = NodePos[m]
      OBVIOUS
    <3>2. NodePos[m] < NodePos[n]
      BY <1>1, <3>1
    <3> QED
      BY <3>1, <3>2
  <2>4. IsFiniteSet(A)
    BY <1>1, FS_Subset
  <2>5. NodeRank(N, n) = Cardinality(A) /\ Rank(K, NodePos[n]) = Cardinality(B)
    BY DEF NodeRank, Rank
  <2> HIDE DEF A, B, h
  <2> QED
    BY <2>1, <2>2, <2>3, <2>4, <2>5, SameSize
<1>4. ASSUME NEW m \in N, NEW n \in N, NodeRank(N, m) = NodeRank(N, n) PROVE m = n
  <2>1. NodePos[m] \in K /\ NodePos[n] \in K
    OBVIOUS
  <2>2. Rank(K, NodePos[m]) = Rank(K, NodePos[n])
    BY <1>3, <1>4
  <2>3. Nth(K, Rank(K, NodePos[m]) + 1) = NodePos[m] /\ Nth(K, Rank(K, NodePos[n]) + 1) = NodePos[n]
    <3> HIDE DEF K
    <3> QED
      BY <1>2, <2>1, NthRank
  <2>4. NodePos[m] = NodePos[n]
    BY <2>2, <2>3
  <2> QED
    BY <1>1, <2>4
<1>5. ASSUME NEW n \in N PROVE NodeRank(N, n) + 1 \in 1..Cardinality(N) /\ NodeRank(N, n) \in Nat
  <2>1. NodePos[n] \in K
    OBVIOUS
  <2> HIDE DEF K
  <2> QED
    BY <1>2, <1>3, <2>1, NthRank, Ranks
<1>6. ASSUME NEW i \in 1..Cardinality(N) PROVE \E n \in N : NodeRank(N, n) = i - 1
  <2>1. Nth(K, i) \in K /\ Rank(K, Nth(K, i)) = i - 1
    <3> HIDE DEF K
    <3> QED
      BY <1>2, NthRank
  <2>2. PICK n \in N : Nth(K, i) = NodePos[n]
    BY <2>1
  <2> QED
    BY <1>3, <2>1, <2>2
<1>7. \A i \in 1..Cardinality(N) : NodeOrder(N)[i] = CHOOSE n \in N : NodeRank(N, n) = i - 1
  BY DEF NodeOrder, NodeRank
<1>8. ASSUME NEW i \in 1..Cardinality(N) PROVE NodeOrder(N)[i] \in N /\ NodeRank(N, NodeOrder(N)[i]) = i - 1
  BY <1>6, <1>7
<1>9. ASSUME NEW n \in N PROVE NodeOrder(N)[NodeRank(N, n) + 1] = n
  <2>1. NodeRank(N, n) + 1 \in 1..Cardinality(N) /\ (NodeRank(N, n) + 1) - 1 = NodeRank(N, n)
    BY <1>5
  <2>2. PICK m : m = NodeOrder(N)[NodeRank(N, n) + 1]
    OBVIOUS
  <2>3. m \in N /\ NodeRank(N, m) = NodeRank(N, n)
    BY <1>8, <2>1, <2>2
  <2> QED
    BY <1>4, <2>2, <2>3
<1> QED
  BY <1>5, <1>8, <1>9

\* Every ring is that of its routers.
RingsFit == \A p \in Routers : ring[p].routers \subseteq Routers /\ ring[p] = RingOf(ring[p].routers)

\* Then each node has one checker among routers that know the same nodes.
LEMMA RingsCheckOnce == RingsFit => OneChecker
<1> SUFFICES ASSUME RingsFit, \A p \in UpRouters : ring[p].routers = UpRouters,
                    NEW N \in SUBSET Nodes, NEW n \in N, UpRouters # {}
             PROVE  Cardinality({p \in UpRouters : n \in QueryHealthcheckURLs(p, N)}) = 1
  BY DEF OneChecker
<1> DEFINE U == UpRouters
           g == RingOf(U)
           K == PositionsOf(U)
<1>1. U \in SUBSET Routers /\ K \in SUBSET Nat /\ IsFiniteSet(K)
  <2>1. U \in SUBSET Routers
    BY DEF UpRouters
  <2> HIDE DEF U
  <2> QED
    BY <2>1, PositionsFinite
<1>2. \A p \in U : ring[p] = g
  BY <1>1 DEF RingsFit
<1>3. g.positions = InOrder(K) /\ \A x \in K : g.owner[x] = OwnerIn(U, x)
  BY DEF RingOf
<1>4. InOrder(K) \in Seq(K) /\ InOrder(K) \in Seq(Nat) /\ InOrder(K) # <<>>
  <2>1. PICK p \in U : TRUE
    OBVIOUS
  <2>2. RouterPos[p] \in Seq(Nat) /\ RouterPos[p] # <<>>
    BY <1>1, GossipAssumption
  <2>3. RouterPos[p][1] \in ToSet(RouterPos[p])
    BY <2>2 DEF ToSet
  <2>4. RouterPos[p][1] \in K
    BY <2>3 DEF PositionsOf
  <2>5. InOrder(K) \in Seq(K) /\ \E i \in 1..Cardinality(K) : InOrder(K)[i] = RouterPos[p][1]
    <3> HIDE DEF K
    <3>1. InOrder(K) \in Seq(K) /\ \A x \in K : \E i \in 1..Cardinality(K) : InOrder(K)[i] = x
      BY <1>1, InOrderLists, Zenon
    <3> QED
      BY <2>4, <3>1, Zenon
  <2>6. DOMAIN InOrder(K) = 1..Cardinality(K)
    <3> HIDE DEF K
    <3> QED
      BY <1>1, InOrderLists
  <2>7. InOrder(K) # <<>>
    <3> HIDE DEF K
    <3>1. DOMAIN <<>> = {}
      OBVIOUS
    <3> QED
      BY <2>5, <2>6, <3>1
  <2>8. InOrder(K) \in Seq(Nat)
    <3> HIDE DEF K
    <3>1. \A s \in Seq(K) : s \in Seq(Nat)
      BY <1>1
    <3> QED
      BY <2>5, <3>1
  <2> QED
    BY <2>5, <2>7, <2>8
<1>5. PICK i \in 1..Cardinality(N) : i = NodeRank(N, n) + 1 /\ NodeOrder(N)[i] = n
  BY NodesListed
<1>6. ASSUME NEW j \in 1..Cardinality(N), NodeOrder(N)[j] = n PROVE j = i
  <2>1. NodeRank(N, n) = j - 1 /\ NodeRank(N, n) = i - 1
    BY <1>5, <1>6, NodesListed
  <2>2. Cardinality(N) \in Nat
    BY GossipAssumption, FS_Subset, FS_CardinalityType
  <2> QED
    BY <2>1, <2>2
<1>7. PICK k : k = PosIndex(g, N)[i]
  OBVIOUS
<1>8. k \in 0..Len(InOrder(K)) - 1
  <2>1. Cardinality(N) \in Nat
    BY GossipAssumption, FS_Subset, FS_CardinalityType
  <2>2. i \in 0..Cardinality(N)
    BY <2>1
  <2> HIDE DEF g, K
  <2> QED
    BY <1>3, <1>4, <1>7, <2>2, IndexInRing
<1>9. PICK o : o = g.owner[g.positions[k + 1]]
  OBVIOUS
<1>10. o \in U
  <2>1. InOrder(K)[k + 1] \in K
    <3> HIDE DEF K
    <3> QED
      BY <1>4, <1>8
  <2>2. o = OwnerIn(U, InOrder(K)[k + 1])
    <3> HIDE DEF K, g
    <3> QED
      BY <1>3, <1>9, <2>1
  <2> HIDE DEF U
  <2> QED
    BY <1>1, <2>1, <2>2, Owners
<1>11. ASSUME NEW p \in U PROVE n \in QueryHealthcheckURLs(p, N) <=> p = o
  <2>1. ring[p] = g
    BY <1>2
  <2>2. n \in QueryHealthcheckURLs(p, N) <=>
           \E j \in 1..Cardinality(N) :
               /\ n = NodeOrder(N)[j] /\ ring[p].positions # <<>>
               /\ ring[p].owner[ring[p].positions[PosIndex(ring[p], N)[j] + 1]] = p
    BY DEF QueryHealthcheckURLs
  <2>3. n \in QueryHealthcheckURLs(p, N) <=>
           \E j \in 1..Cardinality(N) :
               n = NodeOrder(N)[j] /\ g.owner[g.positions[PosIndex(g, N)[j] + 1]] = p
    <3>1. g.positions # <<>>
      BY <1>3, <1>4
    <3> HIDE DEF g
    <3> QED
      BY <2>1, <2>2, <3>1
  <2> HIDE DEF g
  <2> QED
    BY <1>5, <1>6, <1>7, <1>9, <2>3
<1>12. {p \in U : n \in QueryHealthcheckURLs(p, N)} = {o}
  <2> HIDE DEF U
  <2> QED
    BY <1>10, <1>11
<1> QED
  BY <1>12, FS_Singleton
-----------------------------------------------------------------------------
(* Messages in chunks *)

\* The offsets at which a message of length m is cut into its first n chunks.
Cut(f, n, m) ==
    /\ f \in [Nat -> Nat] /\ f[0] = 0 /\ f[n] <= m
    /\ \A i, j \in 0..n : i < j => f[i] < f[j]

\* Chunks that follow one another make up the message.
LEMMA CutsJoin ==
    ASSUME NEW S, NEW msg \in Seq(S), NEW n \in Nat \ {0}, NEW f, Cut(f, n, Len(msg)), NEW ch,
           ch = [i \in 1..n |-> SubSeq(msg, f[i - 1] + 1, f[i])]
    PROVE  FlattenSeq(ch) = SubSeq(msg, 1, f[n])
<1> DEFINE F(h) == [i \in 1..n |-> IF i = 1 THEN ch[i] ELSE h[i - 1] \o ch[i]]
           w == [i \in 1..n |-> SubSeq(msg, 1, f[i])]
<1>1. Len(ch) = n /\ n # 0
  OBVIOUS
<1>2. Len(msg) \in Nat /\ \A i \in 0..n : f[i] \in 0..Len(msg)
  <2>0. Len(msg) \in Nat
    OBVIOUS
  <2>1. Len(msg) \in Nat /\ f[n] <= Len(msg) /\ \A i \in 0..n : f[i] \in Nat
    <3>1. f \in [Nat -> Nat] /\ f[n] <= Len(msg)
      BY DEF Cut
    <3>2. ASSUME NEW i \in 0..n PROVE f[i] \in Nat
      <4>1. i \in Nat
        OBVIOUS
      <4> QED
        BY <3>1, <4>1, Zenon
    <3> QED
      BY <2>0, <3>1, <3>2, Zenon
  <2>2. ASSUME NEW i \in 0..n PROVE f[i] <= f[n]
    <3>1. n \in 0..n /\ (i = n \/ i < n)
      OBVIOUS
    <3>2. f[i] = f[n] \/ f[i] < f[n]
      BY <3>1 DEF Cut
    <3> QED
      BY <2>1, <3>1, <3>2
  <2> QED
    BY <2>1, <2>2
<1>3. ch[1] = SubSeq(msg, 1, f[1])
  <2>1. f[0] = 0 /\ 1 \in 1..n /\ 1 - 1 = 0 /\ 0 + 1 = 1
    BY DEF Cut
  <2> QED
    BY <2>1
<1>4. ASSUME NEW i \in 2..n PROVE SubSeq(msg, 1, f[i - 1]) \o ch[i] = SubSeq(msg, 1, f[i])
  <2>0. i \in 1..n
    OBVIOUS
  <2>1. ch[i] = SubSeq(msg, f[i - 1] + 1, f[i])
    BY <2>0, Zenon
  <2>2. PICK a \in Nat, b \in Nat : a = f[i - 1] /\ b = f[i] /\ a < b /\ b <= Len(msg)
    <3>1. i - 1 \in 0..n /\ i \in 0..n /\ i - 1 < i
      OBVIOUS
    <3>2. f[i - 1] < f[i]
      BY <3>1 DEF Cut
    <3>3. f[i - 1] \in 0..Len(msg) /\ f[i] \in 0..Len(msg)
      BY <1>2, <3>1
    <3> QED
      BY <1>2, <3>2, <3>3
  <2>3. 1 \in 1..Len(msg) + 1 /\ a \in 1 - 1..Len(msg) /\ b \in a..Len(msg)
    BY <1>2, <2>2
  <2>4. SubSeq(msg, 1, a) \o SubSeq(msg, a + 1, b) = SubSeq(msg, 1, b)
    BY <2>3, ConcatAdjacentSubSeq
  <2> QED
    BY <2>1, <2>2, <2>4
<1>5. w = F(w)
  <2>1. ASSUME NEW i \in 1..n PROVE w[i] = IF i = 1 THEN ch[i] ELSE w[i - 1] \o ch[i]
    <3>1. CASE i = 1
      BY <1>3, <3>1
    <3>2. CASE i # 1
      <4>1. i \in 2..n /\ i - 1 \in 1..n
        BY <3>2
      <4>2. w[i - 1] = SubSeq(msg, 1, f[i - 1]) /\ w[i] = SubSeq(msg, 1, f[i])
        BY <4>1
      <4> HIDE DEF w
      <4> QED
        BY <1>4, <3>2, <4>1, <4>2
    <3> QED
      BY <3>1, <3>2
  <2>2. w = [i \in 1..n |-> w[i]]
    OBVIOUS
  <2> HIDE DEF w
  <2>3. [i \in 1..n |-> w[i]] = F(w)
    BY <2>1
  <2> QED
    BY <2>2, <2>3, Zenon
<1>6. ASSUME NEW h, h = F(h) PROVE h = w
  <2> DEFINE T == {i \in 1..n : h[i] # w[i]}
  <2>1. CASE T # {}
    <3>1. PICK k \in T : \A j \in T : k <= j
      <4>1. T \in SUBSET Nat
        OBVIOUS
      <4> HIDE DEF T
      <4> QED
        BY <2>1, <4>1, LeastNat
    <3>2. k \in 1..n /\ h[k] # w[k] /\ \A j \in 1..n : j < k => h[j] = w[j]
      <4>1. ASSUME NEW j \in 1..n, j < k PROVE j \notin T
        <5>1. j \in Nat /\ k \in Nat /\ ~(k <= j)
          BY <4>1
        <5> HIDE DEF T
        <5> QED
          BY <3>1, <5>1
      <4> QED
        BY <4>1
    <3>3. CASE k = 1
      <4>1. h[k] = ch[1]
        <5> HIDE DEF w
        <5> QED
          BY <1>6, <3>2, <3>3
      <4> QED
        BY <1>3, <3>2, <3>3, <4>1
    <3>4. CASE k # 1
      <4>1. k \in 2..n /\ k - 1 \in 1..n /\ k - 1 < k
        BY <3>2, <3>4
      <4>2. h[k - 1] = w[k - 1]
        BY <3>2, <4>1
      <4>3. h[k] = h[k - 1] \o ch[k]
        <5> HIDE DEF w
        <5> QED
          BY <1>6, <3>2, <3>4
      <4>4. w[k] = SubSeq(msg, 1, f[k]) /\ w[k - 1] = SubSeq(msg, 1, f[k - 1])
        BY <4>1
      <4> HIDE DEF w
      <4> QED
        BY <1>4, <3>2, <4>1, <4>2, <4>3, <4>4
    <3> QED
      BY <3>3, <3>4
  <2>2. CASE T = {}
    <3>1. h = [i \in 1..n |-> h[i]]
      BY <1>6
    <3>2. \A i \in 1..n : h[i] = w[i]
      BY <2>2
    <3>3. w = [i \in 1..n |-> w[i]]
      OBVIOUS
    <3> HIDE DEF w
    <3> QED
      BY <3>1, <3>2, <3>3
  <2> QED
    BY <2>1, <2>2
<1>7. FlattenSeq(ch) = (CHOOSE h : h = F(h))[n]
  <2> HIDE DEF F
  <2>1. FlattenSeq(ch) = (CHOOSE h : h = [i \in 1..Len(ch) |-> IF i = 1 THEN ch[i] ELSE h[i - 1] \o ch[i]])[Len(ch)]
    BY <1>1 DEF FlattenSeq
  <2> QED
    BY <1>1, <2>1, Zenon DEF F
<1>8. w[n] = SubSeq(msg, 1, f[n])
  <2>1. n \in 1..n
    OBVIOUS
  <2> QED
    BY <2>1, Zenon
<1> HIDE DEF w, F
<1>9. (CHOOSE h : h = F(h)) = w
  BY <1>5, <1>6
<1> QED
  BY <1>7, <1>8, <1>9
-----------------------------------------------------------------------------
(* The inductive invariant of the gossip network *)

Message == Seq(0..255)

\* The types of the state; a ring is that of its routers.
GossipType ==
    /\ app \in [Routers -> [at : {"run", "leaving", "stopped", "closed", "failed"}, running : Nat]]
    /\ members \in [Routers \cup {OldMember} -> SUBSET (Routers \cup {OldMember})]
    /\ \A p \in Routers : p \notin members[p]
    /\ DOMAIN ring = Routers /\ DOMAIN receiver = Routers
    /\ caster \in [Routers -> [backlog : Seq(Message), id : Nat, index : Nat, rest : Message]]
    /\ sent \in Seq(Message)
    /\ handled \in [Routers -> Seq([id : Nat, data : Message])]

\* What is on its way is a chunk of a message, as it was cut.
PacketsFit(cut) ==
    \A c \in net : c.data # <<>> =>
        /\ c.id \in 1..Len(sent) /\ c.index \in Nat
        /\ Cut(cut[c.id], c.index + 1, Len(sent[c.id]))
        /\ c.data = SubSeq(sent[c.id], cut[c.id][c.index] + 1, cut[c.id][c.index + 1])
        /\ c.final <=> cut[c.id][c.index + 1] = Len(sent[c.id])

\* A broadcaster has what was not cut off yet, and nobody else cuts that message.
CasterFits(cut, p) ==
    LET b == caster[p]
    IN  b.rest # <<>> =>
            /\ b.id \in 1..Len(sent)
            /\ Cut(cut[b.id], b.index, Len(sent[b.id]))
            /\ b.rest = SubSeq(sent[b.id], cut[b.id][b.index] + 1, Len(sent[b.id]))
            /\ \A c \in net : c.data # <<>> /\ c.id = b.id => c.index < b.index
            /\ \A q \in Routers : caster[q].rest # <<>> /\ caster[q].id = b.id => q = p

CutsFit == \E cut : PacketsFit(cut) /\ \A p \in Routers : CasterFits(cut, p)

\* A receiver has chunks that were sent.
Arrived(id, m) ==
    /\ m = [chunks |-> m.chunks, final |-> m.final]
    /\ \A i \in DOMAIN m.chunks : \E c \in net :
          c.id = id /\ c.index = i /\ c.data = m.chunks[i] /\ c.data # <<>>
    /\ \/ m.final = -1
       \/ m.final \in Nat /\ \E c \in net : c.id = id /\ c.index = m.final /\ c.final /\ c.data # <<>>

ReceiversFit ==
    \A p \in Routers : \A id \in DOMAIN receiver[p] :
        id \in 1..Len(sent) /\ Arrived(id, receiver[p][id])

\* What was handled is complete, and will be dropped when it comes again.
HandledFits ==
    \A p \in Routers :
        /\ \A k \in DOMAIN handled[p] :
              LET h == handled[p][k]
              IN  /\ h.id \in DOMAIN receiver[p] /\ IsComplete(receiver[p][h.id])
                  /\ h.data = sent[h.id]
        /\ \A i, j \in DOMAIN handled[p] : i # j => handled[p][i].id # handled[p][j].id

GossipInv == GossipType /\ RingsFit /\ CutsFit /\ ReceiversFit /\ HandledFits

\* All chunks of a message that has come as a whole are the message.
LEMMA WholeMessage ==
    ASSUME GossipType, CutsFit, NEW id \in 1..Len(sent), NEW m, Arrived(id, m), IsComplete(m)
    PROVE  Bytes(m) = sent[id]
<1>1. PICK cut : PacketsFit(cut)
  BY DEF CutsFit
<1> DEFINE msg == sent[id]
           f == cut[id]
           n == m.final + 1
           ch == [i \in 1..n |-> m.chunks[i - 1]]
<1>2. msg \in Seq(0..255)
  BY DEF GossipType, Message
<1>3. m.final \in Nat /\ \E c \in net : c.id = id /\ c.index = m.final /\ c.final /\ c.data # <<>>
  BY DEF Arrived, IsComplete
<1>4. n \in Nat \ {0} /\ Cut(f, n, Len(msg)) /\ f[n] = Len(msg)
  <2>1. PICK c \in net : c.id = id /\ c.index = m.final /\ c.final /\ c.data # <<>>
    BY <1>3
  <2> QED
    BY <1>1, <1>3, <2>1 DEF PacketsFit
<1>5. ASSUME NEW i \in 1..n PROVE m.chunks[i - 1] = SubSeq(msg, f[i - 1] + 1, f[i])
  <2>1. i - 1 \in 0..m.final /\ (i - 1) + 1 = i
    BY <1>3
  <2>2. i - 1 \in DOMAIN m.chunks
    BY <2>1 DEF IsComplete
  <2>3. PICK c \in net : c.id = id /\ c.index = i - 1 /\ c.data = m.chunks[i - 1] /\ c.data # <<>>
    BY <2>2 DEF Arrived
  <2>4. c.data = SubSeq(sent[c.id], cut[c.id][c.index] + 1, cut[c.id][c.index + 1])
    BY <1>1, <2>3 DEF PacketsFit
  <2> QED
    BY <2>1, <2>3, <2>4
<1>6. ch = [i \in 1..n |-> SubSeq(msg, f[i - 1] + 1, f[i])]
  <2> HIDE DEF n, f, msg
  <2> QED
    BY <1>5
<1>7. FlattenSeq(ch) = SubSeq(msg, 1, f[n])
  <2> HIDE DEF ch, n, f, msg
  <2> QED
    BY <1>2, <1>4, <1>6, CutsJoin
<1>8. SubSeq(msg, 1, Len(msg)) = msg
  <2> HIDE DEF msg
  <2> QED
    BY <1>2
<1>9. Bytes(m) = FlattenSeq(ch)
  BY Zenon DEF Bytes
<1> QED
  BY <1>4, <1>7, <1>8, <1>9
-----------------------------------------------------------------------------
\* A part of a message.
LEMMA PartOf ==
    ASSUME NEW S, NEW s \in Seq(S), NEW a \in Nat, NEW l \in Nat, a <= l, l <= Len(s)
    PROVE  /\ SubSeq(s, a + 1, l) \in Seq(S) /\ Len(SubSeq(s, a + 1, l)) = l - a
           /\ \A i \in 1..l - a : SubSeq(s, a + 1, l)[i] = s[a + i]
<1>1. a + 1 \in Int /\ l \in Int /\ \A i \in a + 1..l : s[i] \in S
  OBVIOUS
<1>2. PICK t : t = SubSeq(s, a + 1, l)
  OBVIOUS
<1>3. /\ t \in Seq(S) /\ Len(t) = IF a + 1 <= l THEN l - (a + 1) + 1 ELSE 0
      /\ \A i \in 1..l - (a + 1) + 1 : t[i] = s[a + 1 + i - 1]
  BY <1>1, <1>2, SubSeqProperties
<1>4. l - (a + 1) + 1 = l - a /\ (IF a + 1 <= l THEN l - (a + 1) + 1 ELSE 0) = l - a
  OBVIOUS
<1>5. \A i \in 1..l - a : a + 1 + i - 1 = a + i
  OBVIOUS
<1>6. \A i \in 1..l - a : t[i] = s[a + i]
  BY <1>3, <1>4, <1>5, Zenon
<1> QED
  BY <1>2, <1>3, <1>4, <1>6, Zenon

\* A part of a part.
LEMMA PartOfPart ==
    ASSUME NEW S, NEW s \in Seq(S), NEW a \in Nat, NEW l \in Nat, a <= l, l <= Len(s),
           NEW b \in Nat, NEW e \in Nat, b <= e, e <= l - a
    PROVE  SubSeq(SubSeq(s, a + 1, l), b + 1, e) = SubSeq(s, (a + b) + 1, a + e)
<1>1. PICK t : t = SubSeq(s, a + 1, l)
  OBVIOUS
<1>2. t \in Seq(S) /\ Len(t) = l - a /\ \A i \in 1..l - a : t[i] = s[a + i]
  BY <1>1, PartOf
<1>3. PICK u : u = SubSeq(t, b + 1, e)
  OBVIOUS
<1>4. PICK v : v = SubSeq(s, (a + b) + 1, a + e)
  OBVIOUS
<1>5. u \in Seq(S) /\ Len(u) = e - b /\ \A i \in 1..e - b : u[i] = t[b + i]
  <2>1. e <= Len(t)
    BY <1>2
  <2> QED
    BY <1>2, <1>3, <2>1, PartOf
<1>6. v \in Seq(S) /\ Len(v) = (a + e) - (a + b) /\ \A i \in 1..(a + e) - (a + b) : v[i] = s[(a + b) + i]
  <2>1. a + b \in Nat /\ a + e \in Nat /\ a + b <= a + e /\ a + e <= Len(s)
    <3>1. Len(s) \in Nat
      OBVIOUS
    <3> QED
      BY <3>1
  <2> QED
    BY <1>4, <2>1, PartOf
<1>7. (a + e) - (a + b) = e - b
  OBVIOUS
<1>8. ASSUME NEW i \in 1..e - b PROVE u[i] = v[i]
  <2>1. b + i \in 1..l - a /\ a + (b + i) = (a + b) + i
    OBVIOUS
  <2>2. u[i] = s[a + (b + i)]
    BY <1>2, <1>5, <2>1
  <2>3. v[i] = s[(a + b) + i]
    BY <1>6, <1>7
  <2> QED
    BY <2>1, <2>2, <2>3
<1>9. u = v
  BY <1>5, <1>6, <1>7, <1>8, SeqEqual
<1> QED
  BY <1>1, <1>3, <1>4, <1>9

\* The offsets h cut one more chunk, of k bytes, off what is left after f.
CutOff(msg, f, n, rest, k, h) ==
    /\ Cut(h, n + 1, Len(msg)) /\ \A i \in 0..n : h[i] = f[i]
    /\ SubSeq(rest, 1, k) = SubSeq(msg, h[n] + 1, h[n + 1]) /\ SubSeq(rest, 1, k) # <<>>
    /\ SubSeq(rest, k + 1, Len(rest)) = SubSeq(msg, h[n + 1] + 1, Len(msg))
    /\ k = Len(rest) <=> h[n + 1] = Len(msg)

\* One more chunk is cut off.
LEMMA CutOnce ==
    ASSUME NEW msg \in Message, NEW f, NEW n \in Nat, Cut(f, n, Len(msg)),
           NEW rest, rest = SubSeq(msg, f[n] + 1, Len(msg)), NEW k \in 1..Len(rest),
           NEW h, h = [f EXCEPT ![n + 1] = f[n] + k]
    PROVE  CutOff(msg, f, n, rest, k, h)
<1>1. PICK a \in Nat : a = f[n] /\ a <= Len(msg)
  BY DEF Cut
<1>2. PICK l \in Nat : l = Len(msg)
  BY DEF Message
<1>3. msg \in Seq(0..255) /\ rest = SubSeq(msg, a + 1, l)
  BY <1>1, <1>2 DEF Message
<1>0. a <= l /\ l <= Len(msg)
  BY <1>1, <1>2
<1>4. rest \in Seq(0..255) /\ Len(rest) = l - a
  <2>1. SubSeq(msg, a + 1, l) \in Seq(0..255) /\ Len(SubSeq(msg, a + 1, l)) = l - a
    <3>1. PICK S : S = 0..255
      OBVIOUS
    <3>2. msg \in Seq(S)
      BY <1>3, <3>1
    <3>3. SubSeq(msg, a + 1, l) \in Seq(S) /\ Len(SubSeq(msg, a + 1, l)) = l - a
      BY <1>0, <3>2, PartOf
    <3> QED
      BY <3>1, <3>3, Zenon
  <2> QED
    BY <1>3, <2>1, Zenon
<1>5. f \in [Nat -> Nat]
  BY DEF Cut
<1>6. h \in [Nat -> Nat] /\ h[n + 1] = a + k /\ \A i \in 0..n : h[i] = f[i]
  <2>1. k \in Nat /\ a + k \in Nat
    BY <1>4
  <2>2. h = [f EXCEPT ![n + 1] = a + k]
    BY <1>1
  <2>3. n + 1 \in Nat /\ \A i \in 0..n : i \in Nat /\ i # n + 1
    OBVIOUS
  <2>4. h = [i \in Nat |-> IF i = n + 1 THEN a + k ELSE f[i]]
    BY <1>5, <2>2
  <2>5. ASSUME NEW i \in Nat PROVE h[i] = (IF i = n + 1 THEN a + k ELSE f[i]) /\ h[i] \in Nat
    BY <1>5, <2>1, <2>4
  <2>6. h[n + 1] = a + k /\ \A i \in 0..n : h[i] = f[i]
    BY <2>3, <2>5
  <2>7. h \in [Nat -> Nat]
    BY <2>4, <2>5
  <2> QED
    BY <2>6, <2>7
<1>7. h[n] = a /\ h[0] = 0
  BY <1>1, <1>6 DEF Cut
<1>8. a + k <= l /\ k \in 1..l - a
  BY <1>1, <1>2, <1>4
<1>9. ASSUME NEW i \in 0..n + 1, NEW j \in 0..n + 1, i < j PROVE h[i] < h[j]
  <2>1. CASE j \in 0..n
    <3>1. i \in 0..n
      BY <1>9, <2>1
    <3> QED
      BY <1>6, <1>9, <2>1, <3>1 DEF Cut
  <2>2. CASE j = n + 1
    <3>1. i \in 0..n
      BY <1>9, <2>2
    <3>2. i = n \/ i < n
      BY <3>1
    <3>3. f[i] <= f[n]
      <4>1. f[i] = f[n] \/ f[i] < f[n]
        BY <3>1, <3>2 DEF Cut
      <4>0. i \in Nat
        BY <3>1
      <4>2. f[i] \in Nat /\ f[n] \in Nat
        BY <1>5, <4>0, Zenon
      <4> QED
        BY <4>1, <4>2
    <3>4. h[i] = f[i] /\ f[i] \in Nat
      <4>1. i \in Nat
        BY <3>1
      <4> QED
        BY <1>5, <1>6, <3>1, <4>1, Zenon
    <3> QED
      BY <1>1, <1>6, <2>2, <3>3, <3>4
  <2> QED
    BY <2>1, <2>2
<1>10. Cut(h, n + 1, Len(msg))
  BY <1>2, <1>6, <1>7, <1>8, <1>9 DEF Cut
<1>11. SubSeq(rest, 1, k) = SubSeq(msg, a + 1, a + k)
  <2>1. SubSeq(SubSeq(msg, a + 1, l), 0 + 1, k) = SubSeq(msg, (a + 0) + 1, a + k)
    <3>1. k \in Nat /\ 0 <= k /\ k <= l - a
      BY <1>8
    <3> QED
      BY <1>0, <1>3, <3>1, PartOfPart
  <2>2. 0 + 1 = 1 /\ a + 0 = a
    OBVIOUS
  <2> QED
    BY <1>3, <2>1, <2>2
<1>12. SubSeq(rest, 1, k) # <<>>
  <2>1. Len(SubSeq(rest, 0 + 1, k)) = k - 0
    <3>1. k \in Nat /\ 0 <= k /\ k <= Len(rest)
      BY <1>4, <1>8
    <3> QED
      BY <1>4, <3>1, PartOf
  <2>2. k - 0 # 0 /\ 0 + 1 = 1
    BY <1>8
  <2>3. Len(<<>>) = 0
    OBVIOUS
  <2> QED
    BY <2>1, <2>2, <2>3
<1>13. SubSeq(rest, k + 1, Len(rest)) = SubSeq(msg, a + k + 1, l)
  <2>1. SubSeq(SubSeq(msg, a + 1, l), k + 1, l - a) = SubSeq(msg, (a + k) + 1, a + (l - a))
    <3>1. k \in Nat /\ l - a \in Nat /\ k <= l - a /\ l - a <= l - a
      BY <1>0, <1>8
    <3> QED
      BY <1>0, <1>3, <3>1, PartOfPart
  <2>2. a + (l - a) = l
    BY <1>1
  <2> QED
    BY <1>3, <1>4, <2>1, <2>2
<1>14. k = Len(rest) <=> a + k = l
  <2>1. k = l - a <=> a + k = l
    BY <1>8
  <2> QED
    BY <1>4, <2>1, Zenon
<1>15. /\ SubSeq(rest, 1, k) = SubSeq(msg, h[n] + 1, h[n + 1])
       /\ SubSeq(rest, k + 1, Len(rest)) = SubSeq(msg, h[n + 1] + 1, Len(msg))
       /\ k = Len(rest) <=> h[n + 1] = Len(msg)
  BY <1>2, <1>6, <1>7, <1>11, <1>13, <1>14, Zenon
<1> QED
  BY <1>6, <1>10, <1>12, <1>15 DEF CutOff

\* What is sent stays sent: the receivers' chunks and the handled messages fit
\* in a network that only grows.
LEMMA GrownNetKeeps ==
    ASSUME GossipType, ReceiversFit, HandledFits, net \subseteq net', UNCHANGED <<receiver, handled>>,
           \A i \in 1..Len(sent) : i \in 1..Len(sent') /\ sent'[i] = sent[i]
    PROVE  ReceiversFit' /\ HandledFits'
<1>1. ASSUME NEW id, NEW m, Arrived(id, m) PROVE Arrived(id, m)'
  <2>1. PICK N : N = net'
    OBVIOUS
  <2>2. net \subseteq N
    BY <2>1
  <2>3. m = [chunks |-> m.chunks, final |-> m.final]
    BY <1>1 DEF Arrived
  <2>4. \A i \in DOMAIN m.chunks : \E c \in N : c.id = id /\ c.index = i /\ c.data = m.chunks[i] /\ c.data # <<>>
    BY <1>1, <2>2 DEF Arrived
  <2>5. \/ m.final = -1
        \/ m.final \in Nat /\ \E c \in N : c.id = id /\ c.index = m.final /\ c.final /\ c.data # <<>>
    BY <1>1, <2>2 DEF Arrived
  <2> QED
    BY <2>1, <2>3, <2>4, <2>5 DEF Arrived
<1>2. ReceiversFit'
  <2> SUFFICES ASSUME NEW p \in Routers, NEW id \in DOMAIN receiver[p]
               PROVE  id \in 1..Len(sent') /\ Arrived(id, receiver[p][id])'
    BY DEF ReceiversFit
  <2>1. id \in 1..Len(sent) /\ Arrived(id, receiver[p][id])
    BY DEF ReceiversFit
  <2>2. PICK m : m = receiver[p][id]
    OBVIOUS
  <2>3. m = receiver'[p][id]
    BY <2>2
  <2>4. Arrived(id, m)'
    BY <1>1, <2>1, <2>2
  <2> QED
    BY <2>1, <2>3, <2>4
<1>3. HandledFits'
  <2>1. ASSUME NEW p \in Routers, NEW k \in DOMAIN handled[p]
        PROVE  handled[p][k].data = sent'[handled[p][k].id]
    <3>1. handled[p][k].id \in DOMAIN receiver[p] /\ handled[p][k].data = sent[handled[p][k].id]
      BY DEF HandledFits
    <3>2. handled[p][k].id \in 1..Len(sent)
      BY <3>1 DEF ReceiversFit
    <3> QED
      BY <3>1, <3>2
  <2> QED
    BY <2>1 DEF HandledFits
<1> QED
  BY <1>2, <1>3

\* GetBroadcasts cuts a chunk off.
LEMMA ChunkKeeps ==
    ASSUME GossipInv, NEW p \in Routers, NEW q \in Routers, NEW n \in 1..MaxChunk, MessageChunk(p, q, n)
    PROVE  GossipInv'
<1>1. n \in Nat \ {0}
  BY GossipAssumption
<1>2. PICK b : b = caster[p]
  OBVIOUS
<1>3. b.backlog \in Seq(Message) /\ b.id \in Nat /\ b.index \in Nat /\ b.rest \in Message
  BY <1>2 DEF GossipInv, GossipType
<1>4. PICK rest : rest = IF b.rest = <<>> THEN Head(b.backlog) ELSE b.rest
  OBVIOUS
<1>5. PICK id : id = IF b.rest = <<>> THEN Len(sent) + 1 ELSE b.id
  OBVIOUS
<1>6. PICK index : index = IF b.rest = <<>> THEN 0 ELSE b.index
  OBVIOUS
<1>7. PICK k : k = IF Len(rest) <= n THEN Len(rest) ELSE n
  OBVIOUS
<1>8. PICK e : e = [to |-> q, id |-> id, index |-> index, final |-> Len(rest) <= n, data |-> SubSeq(rest, 1, k)]
  OBVIOUS
<1>9. PICK left : left = SubSeq(rest, k + 1, Len(rest))
  OBVIOUS
<1>10. PICK a : a = [backlog |-> IF b.rest = <<>> THEN Tail(b.backlog) ELSE b.backlog, id |-> id,
                     index |-> index + 1, rest |-> left]
  OBVIOUS
<1>11. /\ b.rest = <<>> => b.backlog # <<>>
       /\ sent' = IF b.rest = <<>> THEN Append(sent, rest) ELSE sent
       /\ net' = net \cup {e}
       /\ caster' = [caster EXCEPT ![p] = a]
       /\ UNCHANGED <<app, members, ring, receiver, handled, flaps>>
  BY <1>2, <1>4, <1>5, <1>6, <1>7, <1>8, <1>9, <1>10, Zenon DEF MessageChunk
<1>12. PICK l \in Nat : l = Len(sent)
  <2>1. sent \in Seq(Message)
    BY DEF GossipInv, GossipType
  <2> QED
    BY <2>1
<1>13. rest \in Message /\ id \in Nat /\ index \in Nat
  BY <1>3, <1>4, <1>5, <1>6, <1>11, <1>12
<1>14. Len(rest) \in Nat /\ k \in 0..Len(rest) /\ (rest # <<>> => k \in 1..Len(rest))
       /\ (Len(rest) <= n <=> k = Len(rest))
  BY <1>1, <1>7, <1>13 DEF Message
<1>15. sent \in Seq(Message)
  BY DEF GossipInv, GossipType
<1>16. /\ sent' \in Seq(Message) /\ Len(sent') \in Nat
       /\ \A i \in 1..Len(sent) : i \in 1..Len(sent') /\ sent'[i] = sent[i]
  BY <1>11, <1>13, <1>15
<1>17. left \in Message
  <2>1. rest \in Seq(0..255)
    BY <1>13 DEF Message
  <2>2. k \in Nat /\ k <= Len(rest) /\ Len(rest) <= Len(rest)
    BY <1>14
  <2> QED
    BY <1>9, <1>14, <2>1, <2>2, PartOf DEF Message
<1>18. GossipType'
  <2>1. a \in [backlog : Seq(Message), id : Nat, index : Nat, rest : Message]
    <3>1. (IF b.rest = <<>> THEN Tail(b.backlog) ELSE b.backlog) \in Seq(Message)
      BY <1>3, <1>11
    <3> QED
      BY <1>10, <1>13, <1>17, <3>1
  <2>2. caster' \in [Routers -> [backlog : Seq(Message), id : Nat, index : Nat, rest : Message]]
    BY <1>11, <2>1 DEF GossipInv, GossipType
  <2> QED
    BY <1>11, <1>16, <2>2 DEF GossipInv, GossipType
<1>19. RingsFit'
  BY <1>11 DEF GossipInv, RingsFit
<1>20. ReceiversFit' /\ HandledFits'
  BY <1>11, <1>16, GrownNetKeeps DEF GossipInv
<1>21. CutsFit'
  <2>1. PICK cut : PacketsFit(cut) /\ \A r \in Routers : CasterFits(cut, r)
    BY DEF GossipInv, CutsFit
  <2>2. \A r \in Routers : r # p => caster'[r] = caster[r]
    BY <1>11 DEF GossipInv, GossipType
  <2>3. caster'[p] = a
    BY <1>11 DEF GossipInv, GossipType
  <2>4. a.rest = left /\ a.id = id /\ a.index = index + 1
    BY <1>10
  <2>5. e.id = id /\ e.index = index /\ e.data = SubSeq(rest, 1, k) /\ e.final = (Len(rest) <= n)
    BY <1>8
  <2>6. ASSUME NEW c \in net, c.data # <<>>
        PROVE  /\ c.id \in 1..l /\ c.index \in Nat /\ c.id \in 1..Len(sent') /\ sent'[c.id] = sent[c.id]
               /\ Cut(cut[c.id], c.index + 1, Len(sent[c.id]))
               /\ c.data = SubSeq(sent[c.id], cut[c.id][c.index] + 1, cut[c.id][c.index + 1])
               /\ c.final <=> cut[c.id][c.index + 1] = Len(sent[c.id])
    BY <1>12, <1>16, <2>1, <2>6 DEF PacketsFit
  <2>7. ASSUME NEW r \in Routers, caster[r].rest # <<>>
        PROVE  /\ caster[r].id \in 1..l /\ caster[r].id \in 1..Len(sent')
               /\ sent'[caster[r].id] = sent[caster[r].id]
               /\ Cut(cut[caster[r].id], caster[r].index, Len(sent[caster[r].id]))
               /\ caster[r].rest = SubSeq(sent[caster[r].id], cut[caster[r].id][caster[r].index] + 1,
                                          Len(sent[caster[r].id]))
               /\ \A c \in net : c.data # <<>> /\ c.id = caster[r].id => c.index < caster[r].index
               /\ \A s \in Routers : caster[s].rest # <<>> /\ caster[s].id = caster[r].id => s = r
    BY <1>12, <1>16, <2>1, <2>7 DEF CasterFits
  <2>8. CASE rest = <<>>
    <3>1. left = <<>> /\ e.data = <<>>
      BY <1>9, <1>14, <2>5, <2>8
    <3>2. PacketsFit(cut)'
      <4> SUFFICES ASSUME NEW c \in net', c.data # <<>>
                   PROVE  /\ c.id \in 1..Len(sent') /\ c.index \in Nat
                          /\ Cut(cut[c.id], c.index + 1, Len(sent'[c.id]))
                          /\ c.data = SubSeq(sent'[c.id], cut[c.id][c.index] + 1, cut[c.id][c.index + 1])
                          /\ c.final <=> cut[c.id][c.index + 1] = Len(sent'[c.id])
        BY DEF PacketsFit
      <4>1. c \in net
        BY <1>11, <3>1
      <4> QED
        BY <2>6, <4>1
    <3>3. ASSUME NEW r \in Routers PROVE CasterFits(cut, r)'
      <4>1. CASE r = p
        BY <2>3, <2>4, <3>1, <4>1 DEF CasterFits
      <4>2. CASE r # p
        <5>1. caster'[r] = caster[r]
          BY <2>2, <4>2
        <5>2. ASSUME caster[r].rest # <<>>, NEW c \in net', c.data # <<>>, c.id = caster[r].id
              PROVE  c.index < caster[r].index
          <6>1. c \in net
            BY <1>11, <3>1, <5>2
          <6> QED
            BY <2>7, <5>2, <6>1
        <5>3. ASSUME caster[r].rest # <<>>, NEW s \in Routers, caster'[s].rest # <<>>, caster'[s].id = caster[r].id
              PROVE  s = r
          <6>1. s # p
            BY <2>3, <2>4, <3>1, <5>3
          <6>2. caster'[s] = caster[s]
            BY <2>2, <6>1
          <6> QED
            BY <2>7, <5>3, <6>2
        <5> QED
          BY <2>7, <5>1, <5>2, <5>3 DEF CasterFits
      <4> QED
        BY <4>1, <4>2
    <3> QED
      BY <3>2, <3>3 DEF CutsFit
  <2>9. CASE rest # <<>>
    <3>1. PICK f : f = IF b.rest = <<>> THEN [i \in Nat |-> 0] ELSE cut[id]
      OBVIOUS
    <3>2. PICK msg : msg = sent'[id]
      OBVIOUS
    <3>3. /\ id \in 1..Len(sent') /\ msg \in Message /\ Cut(f, index, Len(msg))
          /\ rest = SubSeq(msg, f[index] + 1, Len(msg))
          /\ \A c \in net : c.data # <<>> /\ c.id = id => c.index < index
          /\ \A r \in Routers : r # p /\ caster[r].rest # <<>> => caster[r].id # id
      <4>1. CASE b.rest = <<>>
        <5>1. id = l + 1 /\ index = 0 /\ f = [i \in Nat |-> 0] /\ sent' = Append(sent, rest)
          BY <1>5, <1>6, <1>11, <1>12, <3>1, <4>1
        <5>2. Len(sent') = l + 1 /\ msg = rest
          BY <1>12, <1>13, <1>15, <3>2, <5>1
        <5>3. id \in 1..Len(sent') /\ msg \in Message
          BY <1>12, <1>13, <5>1, <5>2
        <5>4. Cut(f, index, Len(msg))
          BY <1>14, <5>1, <5>2 DEF Cut
        <5>5. rest = SubSeq(msg, f[index] + 1, Len(msg))
          <6>1. f[index] + 1 = 1
            BY <5>1
          <6>2. rest = SubSeq(rest, 1, Len(rest))
            BY <1>13 DEF Message
          <6> QED
            BY <5>2, <6>1, <6>2
        <5>6. \A c \in net : c.data # <<>> => c.id # id
          BY <2>6, <5>1
        <5>7. \A r \in Routers : caster[r].rest # <<>> => caster[r].id # id
          BY <2>7, <5>1
        <5> QED
          BY <5>3, <5>4, <5>5, <5>6, <5>7
      <4>2. CASE b.rest # <<>>
        <5>1. id = b.id /\ index = b.index /\ f = cut[id] /\ sent' = sent /\ rest = b.rest
          BY <1>4, <1>5, <1>6, <1>11, <3>1, <4>2
        <5>2. caster[p].rest # <<>> /\ caster[p].id = id /\ caster[p].index = index /\ caster[p].rest = rest
          BY <1>2, <4>2, <5>1
        <5>3. id \in 1..Len(sent') /\ msg \in Message
          BY <1>16, <2>7, <3>2, <5>2
        <5>4. sent[id] = msg
          BY <3>2, <5>1
        <5>5. /\ Cut(cut[id], index, Len(msg)) /\ rest = SubSeq(msg, cut[id][index] + 1, Len(msg))
              /\ \A c \in net : c.data # <<>> /\ c.id = id => c.index < index
              /\ \A r \in Routers : caster[r].rest # <<>> /\ caster[r].id = id => r = p
          BY <2>7, <5>2, <5>4, Zenon
        <5> QED
          BY <5>1, <5>3, <5>5, Zenon
      <4> QED
        BY <4>1, <4>2
    <3>4. PICK h : h = [f EXCEPT ![index + 1] = f[index] + k]
      OBVIOUS
    <3>5. /\ Cut(h, index + 1, Len(msg)) /\ \A i \in 0..index : h[i] = f[i]
          /\ SubSeq(rest, 1, k) = SubSeq(msg, h[index] + 1, h[index + 1]) /\ SubSeq(rest, 1, k) # <<>>
          /\ left = SubSeq(msg, h[index + 1] + 1, Len(msg))
          /\ k = Len(rest) <=> h[index + 1] = Len(msg)
      <4>1. k \in 1..Len(rest)
        BY <1>14, <2>9
      <4>2. msg \in Message /\ Cut(f, index, Len(msg)) /\ rest = SubSeq(msg, f[index] + 1, Len(msg))
        BY <3>3
      <4>3. CutOff(msg, f, index, rest, k, h)
        <5>1. index \in Nat
          BY <1>13
        <5> QED
          BY <3>4, <4>1, <4>2, <5>1, CutOnce, Zenon
      <4> QED
        BY <1>9, <4>3, Zenon DEF CutOff
    <3>6. PICK new : new = [j \in Nat |-> IF j = id THEN h ELSE cut[j]]
      OBVIOUS
    <3>7. new[id] = h /\ \A j \in Nat : j # id => new[j] = cut[j]
      BY <1>13, <3>6
    <3>8. PacketsFit(new)'
      <4> SUFFICES ASSUME NEW c \in net', c.data # <<>>
                   PROVE  /\ c.id \in 1..Len(sent') /\ c.index \in Nat
                          /\ Cut(new[c.id], c.index + 1, Len(sent'[c.id]))
                          /\ c.data = SubSeq(sent'[c.id], new[c.id][c.index] + 1, new[c.id][c.index + 1])
                          /\ c.final <=> new[c.id][c.index + 1] = Len(sent'[c.id])
        BY DEF PacketsFit
      <4>1. CASE c = e
        BY <1>13, <1>14, <2>5, <3>2, <3>3, <3>5, <3>7, <4>1
      <4>2. CASE c \in net /\ c.id # id
        <5>1. new[c.id] = cut[c.id]
          BY <2>6, <3>7, <4>2
        <5> QED
          BY <2>6, <4>2, <5>1
      <4>3. CASE c \in net /\ c.id = id
        <5>1. PICK i \in Nat : i = c.index
          BY <2>6, <4>3
        <5>2. i \in 0..index /\ i + 1 \in 0..index
          BY <1>13, <3>3, <4>3, <5>1
        <5>3. b.rest # <<>>
          <6>1. id \in 1..l
            BY <2>6, <4>3
          <6> QED
            BY <1>5, <1>12, <6>1
        <5>4. f = cut[id] /\ sent' = sent
          BY <1>11, <3>1, <5>3
        <5>5. h[i] = cut[id][i] /\ h[i + 1] = cut[id][i + 1]
          BY <3>5, <5>2, <5>4
        <5>6. Cut(h, i + 1, Len(sent'[id]))
          <6>1. h \in [Nat -> Nat] /\ h[0] = 0
            BY <3>5 DEF Cut
          <6>2. h[i + 1] <= Len(sent'[id])
            BY <2>6, <4>3, <5>1, <5>4, <5>5 DEF Cut
          <6>3. ASSUME NEW x \in 0..i + 1, NEW y \in 0..i + 1, x < y PROVE h[x] < h[y]
            <7>1. x \in 0..index + 1 /\ y \in 0..index + 1
              BY <1>13, <5>2
            <7> QED
              BY <3>5, <6>3, <7>1 DEF Cut
          <6> QED
            BY <6>1, <6>2, <6>3 DEF Cut
        <5> QED
          BY <2>6, <3>7, <4>3, <5>1, <5>4, <5>5, <5>6
      <4> QED
        BY <1>11, <4>1, <4>2, <4>3
    <3>9. ASSUME NEW r \in Routers PROVE CasterFits(new, r)'
      <4>1. ASSUME NEW s \in Routers, s # p, caster'[s].rest # <<>>
            PROVE  caster[s].rest # <<>> /\ caster'[s].id = caster[s].id /\ caster[s].id # id
        BY <2>2, <3>3, <4>1
      <4>2. CASE r = p
        <5>1. caster'[r].id = id /\ caster'[r].index = index + 1 /\ caster'[r].rest = left
          BY <2>3, <2>4, <4>2
        <5>2. \A c \in net' : c.data # <<>> /\ c.id = id => c.index < index + 1
          <6>1. ASSUME NEW c \in net, c.data # <<>>, c.id = id PROVE c.index < index + 1
            <7>1. c.index < index /\ c.index \in Nat
              BY <2>6, <3>3, <6>1
            <7> QED
              BY <1>13, <7>1
          <6>2. e.index < index + 1
            BY <1>13, <2>5
          <6> QED
            BY <1>11, <6>1, <6>2
        <5>3. \A s \in Routers : caster'[s].rest # <<>> /\ caster'[s].id = id => s = p
          BY <4>1
        <5> QED
          BY <3>2, <3>3, <3>5, <3>7, <4>2, <5>1, <5>2, <5>3 DEF CasterFits
      <4>3. CASE r # p
        <5>1. caster'[r] = caster[r]
          BY <2>2, <4>3
        <5>2. ASSUME caster[r].rest # <<>> PROVE caster[r].id # id /\ new[caster[r].id] = cut[caster[r].id]
          BY <2>7, <3>3, <3>7, <4>3, <5>2
        <5>3. ASSUME caster[r].rest # <<>>, NEW c \in net', c.data # <<>>, c.id = caster[r].id
              PROVE  c.index < caster[r].index
          <6>1. c \in net
            BY <1>11, <2>5, <5>2, <5>3
          <6> QED
            BY <2>7, <5>3, <6>1
        <5>4. ASSUME caster[r].rest # <<>>, NEW s \in Routers, caster'[s].rest # <<>>, caster'[s].id = caster[r].id
              PROVE  s = r
          <6>1. s # p
            BY <2>3, <2>4, <5>2, <5>4
          <6>2. caster'[s] = caster[s]
            BY <2>2, <6>1
          <6> QED
            BY <2>7, <5>4, <6>2
        <5> QED
          BY <2>7, <5>1, <5>2, <5>3, <5>4 DEF CasterFits
      <4> QED
        BY <4>2, <4>3
    <3> QED
      BY <3>8, <3>9 DEF CutsFit
  <2> QED
    BY <2>8, <2>9
<1> QED
  BY <1>18, <1>19, <1>20, <1>21 DEF GossipInv

\* A chunk comes, and perhaps completes its message.
LEMMA MsgKeeps ==
    ASSUME GossipInv, NEW p \in Routers, NEW c \in net, NotifyMsg(p, c)
    PROVE  GossipInv'
<1> USE DEF GossipInv
<1>1. PICK old : old = MessageOf(p, c.id)
  OBVIOUS
<1>2. PICK new : new = Received(old, c)
  OBVIOUS
<1>3. /\ c.data # <<>> /\ ~IsComplete(old)
      /\ receiver' = [receiver EXCEPT ![p] = With(@, c.id, new)]
      /\ \/ /\ Bytes(new) # <<>>
            /\ handled' = [handled EXCEPT ![p] = Append(@, [id |-> c.id, data |-> Bytes(new)])]
            /\ app' = [app EXCEPT ![p].running = @ + 1]
         \/ UNCHANGED <<handled, app>>
      /\ UNCHANGED <<members, ring, caster, net, sent, flaps>>
  BY <1>1, <1>2, Zenon DEF NotifyMsg
<1>4. c.id \in 1..Len(sent) /\ c.index \in Nat
  BY <1>3 DEF CutsFit, PacketsFit
<1>5. Arrived(c.id, old)
  <2>1. CASE c.id \in DOMAIN receiver[p]
    BY <1>1, <2>1 DEF MessageOf, ReceiversFit
  <2>2. CASE c.id \notin DOMAIN receiver[p]
    <3>1. old = [chunks |-> <<>>, final |-> -1]
      BY <1>1, <2>2 DEF MessageOf, NoMessage
    <3> QED
      BY <3>1 DEF Arrived
  <2> QED
    BY <2>1, <2>2
<1>6. /\ new = [chunks |-> With(old.chunks, c.index, c.data), final |-> IF c.final THEN c.index ELSE old.final]
      /\ new.chunks = With(old.chunks, c.index, c.data)
      /\ new.final = IF c.final THEN c.index ELSE old.final
  BY <1>2 DEF Received
<1>7. /\ DOMAIN new.chunks = DOMAIN old.chunks \cup {c.index}
      /\ \A i \in DOMAIN new.chunks : new.chunks[i] = IF i = c.index THEN c.data ELSE old.chunks[i]
  BY <1>6 DEF With
<1>8. Arrived(c.id, new)
  <2>1. new = [chunks |-> new.chunks, final |-> new.final]
    BY <1>6
  <2>2. ASSUME NEW i \in DOMAIN new.chunks
        PROVE  \E d \in net : d.id = c.id /\ d.index = i /\ d.data = new.chunks[i] /\ d.data # <<>>
    <3>1. CASE i = c.index
      BY <1>3, <1>7, <3>1
    <3>2. CASE i # c.index
      BY <1>5, <1>7, <3>2 DEF Arrived
    <3> QED
      BY <3>1, <3>2
  <2>3. \/ new.final = -1
        \/ new.final \in Nat /\ \E d \in net : d.id = c.id /\ d.index = new.final /\ d.final /\ d.data # <<>>
    <3>1. CASE c.final
      BY <1>3, <1>4, <1>6, <3>1
    <3>2. CASE ~c.final
      BY <1>5, <1>6, <3>2 DEF Arrived
    <3> QED
      BY <3>1, <3>2
  <2> QED
    BY <2>1, <2>2, <2>3 DEF Arrived
<1>9. /\ DOMAIN receiver' = Routers /\ \A r \in Routers : r # p => receiver'[r] = receiver[r]
      /\ receiver'[p] = With(receiver[p], c.id, new)
  BY <1>3 DEF GossipType
<1>10. /\ DOMAIN receiver'[p] = DOMAIN receiver[p] \cup {c.id} /\ receiver'[p][c.id] = new
       /\ \A i \in DOMAIN receiver[p] : i # c.id => receiver'[p][i] = receiver[p][i]
  BY <1>9 DEF With
<1>11. Bytes(new) # <<>> => IsComplete(new) /\ Bytes(new) = sent[c.id]
  <2>1. Bytes(new) # <<>> => IsComplete(new)
    BY DEF Bytes
  <2> QED
    BY <1>4, <1>8, <2>1, WholeMessage
<1>12. sent[c.id] \in Message
  BY <1>4 DEF GossipType
<1>13. GossipType'
  <2>1. handled' \in [Routers -> Seq([id : Nat, data : Message])]
    <3>1. CASE UNCHANGED handled
      BY <3>1 DEF GossipType
    <3>2. CASE Bytes(new) # <<>> /\ handled' = [handled EXCEPT ![p] = Append(@, [id |-> c.id, data |-> Bytes(new)])]
      <4>1. [id |-> c.id, data |-> Bytes(new)] \in [id : Nat, data : Message]
        BY <1>4, <1>11, <1>12, <3>2
      <4> QED
        <5>1. PICK x \in [id : Nat, data : Message] : x = [id |-> c.id, data |-> Bytes(new)]
          BY <4>1
        <5>2. PICK s \in Seq([id : Nat, data : Message]) : s = handled[p]
          BY DEF GossipType
        <5>3. Append(s, x) \in Seq([id : Nat, data : Message])
          OBVIOUS
        <5>4. handled \in [Routers -> Seq([id : Nat, data : Message])]
          BY DEF GossipType
        <5>5. handled' = [handled EXCEPT ![p] = Append(s, x)]
          BY <3>2, <5>1, <5>2
        <5> QED
          BY <5>3, <5>4, <5>5
    <3> QED
      BY <1>3, <3>1, <3>2
  <2>2. app' \in [Routers -> [at : {"run", "leaving", "stopped", "closed", "failed"}, running : Nat]]
    <3>1. app \in [Routers -> [at : {"run", "leaving", "stopped", "closed", "failed"}, running : Nat]]
      BY DEF GossipType
    <3>2. CASE UNCHANGED app
      BY <3>1, <3>2
    <3>3. CASE app' = [app EXCEPT ![p].running = @ + 1]
      BY <3>1, <3>3
    <3> QED
      BY <1>3, <3>2, <3>3
  <2> QED
    BY <1>3, <1>9, <2>1, <2>2 DEF GossipType
<1>14. RingsFit'
  BY <1>3 DEF RingsFit
<1>15. CutsFit'
  <2>1. PICK cut : PacketsFit(cut) /\ \A r \in Routers : CasterFits(cut, r)
    BY DEF CutsFit
  <2>2. PacketsFit(cut)'
    BY <1>3, <2>1 DEF PacketsFit
  <2>3. \A r \in Routers : CasterFits(cut, r)'
    BY <1>3, <2>1 DEF CasterFits
  <2> QED
    BY <2>2, <2>3, Zenon DEF CutsFit
<1>16. ReceiversFit'
  <2> SUFFICES ASSUME NEW r \in Routers, NEW i \in DOMAIN receiver'[r]
               PROVE  i \in 1..Len(sent) /\ Arrived(i, receiver'[r][i])
    BY <1>3 DEF ReceiversFit, Arrived
  <2>1. CASE r # p
    BY <1>9, <2>1 DEF ReceiversFit
  <2>2. CASE r = p /\ i = c.id
    BY <1>4, <1>8, <1>10, <2>2
  <2>3. CASE r = p /\ i # c.id
    BY <1>10, <2>3 DEF ReceiversFit
  <2> QED
    BY <2>1, <2>2, <2>3
<1>17. HandledFits'
  <2>1. ASSUME NEW r \in Routers, NEW k \in DOMAIN handled[r]
        PROVE  /\ handled[r][k].id \in DOMAIN receiver'[r] /\ IsComplete(receiver'[r][handled[r][k].id])
               /\ handled[r][k].data = sent[handled[r][k].id]
               /\ r = p => handled[r][k].id # c.id
    <3>1. /\ handled[r][k].id \in DOMAIN receiver[r] /\ IsComplete(receiver[r][handled[r][k].id])
          /\ handled[r][k].data = sent[handled[r][k].id]
      BY DEF HandledFits
    <3>2. r = p => handled[r][k].id # c.id
      BY <1>1, <1>3, <3>1 DEF MessageOf
    <3> QED
      BY <1>9, <1>10, <3>1, <3>2
  <2>2. \A r \in Routers : \A i, j \in DOMAIN handled[r] : i # j => handled[r][i].id # handled[r][j].id
    BY DEF HandledFits
  <2>3. CASE UNCHANGED handled
    BY <1>3, <2>1, <2>2, <2>3 DEF HandledFits
  <2>4. CASE Bytes(new) # <<>> /\ handled' = [handled EXCEPT ![p] = Append(@, [id |-> c.id, data |-> Bytes(new)])]
    <3>1. PICK s : s = handled[p]
      OBVIOUS
    <3>2. PICK x : x = [id |-> c.id, data |-> Bytes(new)]
      OBVIOUS
    <3>3. s \in Seq([id : Nat, data : Message]) /\ x.id = c.id /\ x.data = sent[c.id]
      BY <1>11, <2>4, <3>1, <3>2 DEF GossipType
    <3>4. handled'[p] = Append(s, x) /\ \A r \in Routers : r # p => handled'[r] = handled[r]
      BY <2>4, <3>1, <3>2 DEF GossipType
    <3>5. PICK l \in Nat : l = Len(s) /\ DOMAIN s = 1..l
      BY <3>3
    <3>6. PICK t : t = Append(s, x)
      OBVIOUS
    <3>7. DOMAIN t = 1..l + 1 /\ t[l + 1] = x /\ \A k \in 1..l : t[k] = s[k]
      BY <3>3, <3>5, <3>6
    <3>8. ASSUME NEW k \in 1..l
          PROVE  /\ s[k].id \in DOMAIN receiver'[p] /\ IsComplete(receiver'[p][s[k].id])
                 /\ s[k].data = sent[s[k].id] /\ s[k].id # c.id
      BY <2>1, <3>1, <3>5
    <3>9. ASSUME NEW k \in DOMAIN t
          PROVE  /\ t[k].id \in DOMAIN receiver'[p] /\ IsComplete(receiver'[p][t[k].id])
                 /\ t[k].data = sent[t[k].id]
      <4>1. CASE k \in 1..l
        BY <3>7, <3>8, <4>1
      <4>2. CASE k = l + 1
        BY <1>10, <1>11, <2>4, <3>3, <3>7, <4>2
      <4> QED
        BY <3>5, <3>7, <4>1, <4>2
    <3>10. ASSUME NEW i \in DOMAIN t, NEW j \in DOMAIN t, i # j PROVE t[i].id # t[j].id
      <4>1. CASE i \in 1..l /\ j \in 1..l
        BY <2>2, <3>1, <3>5, <3>7, <3>10, <4>1
      <4>2. CASE i = l + 1 /\ j \in 1..l
        BY <3>3, <3>7, <3>8, <4>2
      <4>3. CASE j = l + 1 /\ i \in 1..l
        BY <3>3, <3>7, <3>8, <4>3
      <4> QED
        BY <3>5, <3>7, <3>10, <4>1, <4>2, <4>3
    <3>11. handled'[p] = t /\ sent' = sent
      BY <1>3, <3>4, <3>6
    <3> SUFFICES ASSUME NEW r \in Routers
                 PROVE  /\ \A k \in DOMAIN handled'[r] :
                              /\ handled'[r][k].id \in DOMAIN receiver'[r]
                              /\ IsComplete(receiver'[r][handled'[r][k].id])
                              /\ handled'[r][k].data = sent'[handled'[r][k].id]
                        /\ \A i, j \in DOMAIN handled'[r] : i # j => handled'[r][i].id # handled'[r][j].id
      BY DEF HandledFits
    <3>12. CASE r = p
      BY <3>9, <3>10, <3>11, <3>12
    <3>13. CASE r # p
      BY <2>1, <2>2, <3>4, <3>11, <3>13
    <3> QED
      BY <3>12, <3>13
  <2> QED
    BY <1>3, <2>3, <2>4
<1> QED
  BY <1>13, <1>14, <1>15, <1>16, <1>17
-----------------------------------------------------------------------------
(* Members come and go *)

FitRing(g) == g.routers \subseteq Routers /\ g = RingOf(g.routers)

\* Rings stay those of their routers when a router joins or leaves, or several join.
LEMMA RingChanges ==
    ASSUME NEW g, FitRing(g)
    PROVE  /\ \A q \in Routers : FitRing(AddRouter(g, q))
           /\ \A q : FitRing(RemoveRouter(g, q))
           /\ \A Q \in SUBSET Routers : FitRing(FoldSet(LAMBDA q, h : AddRouter(h, q), g, Q))
<1>1. PICK R \in SUBSET Routers : g = RingOf(R)
  BY DEF FitRing
<1>2. ASSUME NEW W \in SUBSET Routers PROVE FitRing(RingOf(W))
  <2>1. RingOf(W).routers = W
    BY DEF RingOf
  <2> QED
    BY <2>1 DEF FitRing
<1>3. \A q \in Routers : FitRing(AddRouter(g, q))
  BY <1>1, <1>2, RingAdds
<1>4. ASSUME NEW q PROVE FitRing(RemoveRouter(g, q))
  <2>1. RemoveRouter(RingOf(R), q) = RingOf(R \ {q}) /\ R \ {q} \in SUBSET Routers
    BY RingRemoves
  <2> QED
    BY <1>1, <1>2, <2>1
<1>5. ASSUME NEW Q \in SUBSET Routers
      PROVE  FitRing(FoldSet(LAMBDA q, h : AddRouter(h, q), g, Q))
  <2>1. FoldSet(LAMBDA q, h : AddRouter(h, q), RingOf(R), Q) = RingOf(R \cup Q)
    BY RingFold
  <2> QED
    BY <1>1, <1>2, <2>1
<1> QED
  BY <1>3, <1>4, <1>5

\* What membership does not touch.
LEMMA MessagesStay ==
    ASSUME GossipInv, GossipType', RingsFit', UNCHANGED <<caster, receiver, net, sent, handled>>
    PROVE  GossipInv'
<1>1. CutsFit'
  <2>1. PICK cut : PacketsFit(cut) /\ \A r \in Routers : CasterFits(cut, r)
    BY DEF GossipInv, CutsFit
  <2>2. PacketsFit(cut)'
    BY <2>1 DEF PacketsFit
  <2>3. \A r \in Routers : CasterFits(cut, r)'
    BY <2>1 DEF CasterFits
  <2> QED
    BY <2>2, <2>3, Zenon DEF CutsFit
<1>2. ReceiversFit'
  BY DEF GossipInv, ReceiversFit, Arrived
<1>3. HandledFits'
  BY DEF GossipInv, HandledFits
<1> QED
  BY <1>1, <1>2, <1>3 DEF GossipInv

\* A router joins others.
LEMMA JoinKeeps ==
    ASSUME GossipInv, NEW p \in Routers, NEW qs \in SUBSET JoinTargets(p), JoinAttempt(p, qs)
    PROVE  GossipInv'
<1>1. /\ qs \subseteq Routers \ {p}
      /\ members' = [r \in DOMAIN members |-> IF r = p THEN members[p] \cup qs
                        ELSE IF r \in qs THEN members[r] \cup {p} ELSE members[r]]
      /\ ring' = [r \in Routers |-> IF r = p THEN FoldSet(LAMBDA q, g : AddRouter(g, q), ring[p], qs)
                                    ELSE IF r \in qs THEN HandleNodeJoin(r, p) ELSE ring[r]]
  <2>1. \A i \in DOMAIN Addrs : Addrs[i] \in Routers
    BY GossipAssumption
  <2>2. JoinAddrs \subseteq Routers
    BY GossipAssumption
  <2>3. qs \subseteq Routers \ {p}
    BY <2>1, <2>2 DEF JoinTargets
  <2> QED
    BY <2>3 DEF JoinAttempt
<1>2. UNCHANGED <<app, caster, receiver, net, sent, handled, flaps>>
  BY DEF JoinAttempt
<1>3. GossipType'
  <2>1. /\ members \in [Routers \cup {OldMember} -> SUBSET (Routers \cup {OldMember})]
        /\ \A r \in Routers : r \notin members[r]
    BY DEF GossipInv, GossipType
  <2>2. members' \in [Routers \cup {OldMember} -> SUBSET (Routers \cup {OldMember})]
    BY <1>1, <2>1
  <2>3. \A r \in Routers : r \notin members'[r]
    BY <1>1, <2>1
  <2>4. DOMAIN ring' = Routers
    BY <1>1
  <2> QED
    BY <1>2, <2>2, <2>3, <2>4 DEF GossipInv, GossipType
<1>4. RingsFit'
  <2> SUFFICES ASSUME NEW r \in Routers PROVE FitRing(ring'[r])
    BY DEF RingsFit, FitRing
  <2>1. FitRing(ring[r]) /\ FitRing(ring[p])
    BY DEF GossipInv, RingsFit, FitRing
  <2>2. CASE r = p
    <3>1. ring'[r] = FoldSet(LAMBDA q, g : AddRouter(g, q), ring[p], qs)
      BY <1>1, <2>2
    <3>2. qs \in SUBSET Routers
      BY <1>1
    <3>3. FitRing(FoldSet(LAMBDA q, g : AddRouter(g, q), ring[p], qs))
      BY <2>1, <3>2, RingChanges
    <3> QED
      BY <3>1, <3>3
  <2>3. CASE r # p /\ r \in qs
    <3>1. ring'[r] = AddRouter(ring[r], p)
      BY <1>1, <2>3, GossipAssumption DEF HandleNodeJoin
    <3> QED
      BY <2>1, <3>1, RingChanges
  <2>4. CASE r # p /\ r \notin qs
    BY <1>1, <2>1, <2>4
  <2> QED
    BY <2>2, <2>3, <2>4
<1> QED
  BY <1>2, <1>3, <1>4, MessagesStay

\* A member hears of another, or takes it for gone.
LEMMA NoticeKeeps ==
    ASSUME GossipInv, NEW p \in Routers,
           \/ OldMemberJoins(p)
           \/ \E q \in Routers \cup {OldMember} : NotifyJoin(p, q) \/ NotifyLeave(p, q)
    PROVE  GossipInv'
<1>1. /\ members \in [Routers \cup {OldMember} -> SUBSET (Routers \cup {OldMember})]
      /\ \A r \in Routers : r \notin members[r]
      /\ DOMAIN ring = Routers /\ OldMember \notin Routers
  BY GossipAssumption DEF GossipInv, GossipType
<1>2. \A r \in Routers : FitRing(ring[r])
  BY DEF GossipInv, RingsFit, FitRing
<1>3. ASSUME NEW g, FitRing(g), ring' = [ring EXCEPT ![p] = g]
      PROVE  RingsFit' /\ DOMAIN ring' = Routers
  <2>1. DOMAIN ring' = Routers /\ \A r \in Routers : ring'[r] = IF r = p THEN g ELSE ring[r]
    BY <1>1, <1>3
  <2>2. \A r \in Routers : FitRing(ring'[r])
    BY <1>2, <1>3, <2>1
  <2> QED
    BY <2>1, <2>2 DEF RingsFit, FitRing
<1>4. ASSUME NEW q \in Routers \cup {OldMember} PROVE FitRing(HandleNodeJoin(p, q))
  BY <1>2, RingChanges DEF HandleNodeJoin
<1>5. ASSUME /\ UNCHANGED <<app, caster, receiver, net, sent, handled>>
             /\ members' \in [Routers \cup {OldMember} -> SUBSET (Routers \cup {OldMember})]
             /\ \A r \in Routers : r \notin members'[r]
             /\ RingsFit' /\ DOMAIN ring' = Routers
      PROVE  GossipInv'
  <2>1. GossipType'
    BY <1>5 DEF GossipInv, GossipType
  <2> QED
    BY <1>5, <2>1, MessagesStay
<1>6. CASE OldMemberJoins(p)
  <2>1. /\ members' = [members EXCEPT ![OldMember] = @ \cup {p}, ![p] = @ \cup {OldMember}]
        /\ ring' = [ring EXCEPT ![p] = HandleNodeJoin(p, OldMember)]
        /\ UNCHANGED <<app, caster, receiver, net, sent, handled, flaps>>
    BY <1>6 DEF OldMemberJoins
  <2>2. RingsFit' /\ DOMAIN ring' = Routers
    BY <1>3, <1>4, <2>1
  <2>3. members' \in [Routers \cup {OldMember} -> SUBSET (Routers \cup {OldMember})]
    BY <1>1, <2>1
  <2>4. \A r \in Routers : r \notin members'[r]
    BY <1>1, <2>1
  <2> QED
    BY <1>5, <2>1, <2>2, <2>3, <2>4
<1>7. ASSUME NEW q \in Routers \cup {OldMember}, NotifyJoin(p, q) PROVE GossipInv'
  <2>1. /\ q # p /\ members' = [members EXCEPT ![p] = @ \cup {q}]
        /\ ring' = [ring EXCEPT ![p] = HandleNodeJoin(p, q)]
        /\ UNCHANGED <<app, caster, receiver, net, sent, handled, flaps>>
    BY <1>7 DEF NotifyJoin
  <2>2. RingsFit' /\ DOMAIN ring' = Routers
    BY <1>3, <1>4, <2>1
  <2>3. members' \in [Routers \cup {OldMember} -> SUBSET (Routers \cup {OldMember})]
    BY <1>1, <2>1
  <2>4. \A r \in Routers : r \notin members'[r]
    BY <1>1, <2>1
  <2> QED
    BY <1>5, <2>1, <2>2, <2>3, <2>4
<1>8. ASSUME NEW q \in Routers \cup {OldMember}, NotifyLeave(p, q) PROVE GossipInv'
  <2>1. /\ members' = [members EXCEPT ![p] = @ \ {q}]
        /\ ring' = [ring EXCEPT ![p] = RemoveRouter(ring[p], q)]
        /\ UNCHANGED <<app, caster, receiver, net, sent, handled>>
    BY <1>8 DEF NotifyLeave, HandleNodeLeave
  <2>2. RingsFit' /\ DOMAIN ring' = Routers
    <3>1. FitRing(RemoveRouter(ring[p], q))
      BY <1>2, RingChanges
    <3> QED
      BY <1>3, <2>1, <3>1
  <2>3. members' \in [Routers \cup {OldMember} -> SUBSET (Routers \cup {OldMember})]
    BY <1>1, <2>1
  <2>4. \A r \in Routers : r \notin members'[r]
    BY <1>1, <2>1
  <2> QED
    BY <1>5, <2>1, <2>2, <2>3, <2>4
<1> QED
  BY <1>6, <1>7, <1>8

-----------------------------------------------------------------------------
(* The gossip network as a whole *)

\* The handlers of messages end, and an App shuts down.
LEMMA AppStateKeeps ==
    ASSUME GossipInv, NEW p \in Routers,
           HandlerDone(p) \/ Shutdown(p) \/ StopMemberlist(p) \/ StopMemberlistFails(p) \/ Close(p)
    PROVE  GossipInv'
<1>1. app \in [Routers -> [at : {"run", "leaving", "stopped", "closed", "failed"}, running : Nat]]
  BY DEF GossipInv, GossipType
<1>2. UNCHANGED <<members, ring, caster, receiver, net, sent, handled, flaps>>
  BY DEF HandlerDone, Shutdown, StopMemberlist, StopMemberlistFails, Close
<1>3. app' \in [Routers -> [at : {"run", "leaving", "stopped", "closed", "failed"}, running : Nat]]
  <2>1. CASE HandlerDone(p)
    <3>1. app[p].running \in Nat /\ app[p].running > 0 /\ app' = [app EXCEPT ![p].running = @ - 1]
      BY <1>1, <2>1 DEF HandlerDone
    <3>2. app[p].running - 1 \in Nat
      BY <3>1
    <3> QED
      BY <1>1, <3>1, <3>2
  <2>2. CASE Shutdown(p)
    BY <1>1, <2>2 DEF Shutdown
  <2>3. CASE StopMemberlist(p)
    BY <1>1, <2>3 DEF StopMemberlist
  <2>4. CASE StopMemberlistFails(p)
    BY <1>1, <2>4 DEF StopMemberlistFails
  <2>5. CASE Close(p)
    BY <1>1, <2>5 DEF Close
  <2> QED
    BY <2>1, <2>2, <2>3, <2>4, <2>5
<1>4. GossipType'
  BY <1>2, <1>3 DEF GossipInv, GossipType
<1>5. RingsFit'
  BY <1>2 DEF GossipInv, RingsFit
<1> QED
  BY <1>2, <1>4, <1>5, MessagesStay

\* At the start a router is alone in its ring, and nothing was sent.
LEMMA InitGossip == Init => GossipInv
<1> SUFFICES ASSUME GossipInit PROVE GossipInv
  BY DEF Init
<1>1. PICK s \in Starts :
        /\ app = [p \in Routers |-> [at |-> IF p \in s.up THEN "run" ELSE "closed", running |-> 0]]
        /\ caster = [p \in Routers |-> [backlog |-> s.backlog[p], id |-> 0, index |-> 0, rest |-> <<>>]]
  BY DEF GossipInit
<1>2. /\ members = [p \in Routers \cup {OldMember} |-> {}]
      /\ ring = [p \in Routers |-> AddRouter(NoRing, p)]
      /\ receiver = [p \in Routers |-> <<>>]
      /\ net = {} /\ sent = <<>>
      /\ handled = [p \in Routers |-> <<>>]
  BY DEF GossipInit
<1>3. s.backlog \in [Routers -> Seq(Message)]
  BY GossipAssumption DEF Message
<1>4. <<>> \in Message /\ \A p \in Routers : caster[p].rest = <<>>
  BY <1>1 DEF Message
<1>5. GossipType
  <2>1. app \in [Routers -> [at : {"run", "leaving", "stopped", "closed", "failed"}, running : Nat]]
    BY <1>1
  <2>2. caster \in [Routers -> [backlog : Seq(Message), id : Nat, index : Nat, rest : Message]]
    BY <1>1, <1>3, <1>4
  <2>3. handled \in [Routers -> Seq([id : Nat, data : Message])] /\ sent \in Seq(Message)
    BY <1>2
  <2> QED
    BY <1>2, <2>1, <2>2, <2>3 DEF GossipType
<1>6. RingsFit
  <2>1. NoRing = RingOf({})
    <3>1. PositionsOf({}) = {}
      BY DEF PositionsOf
    <3>2. InOrder({}) = <<>>
      <4>1. InOrder({}) \in Seq({}) /\ Len(InOrder({})) = 0
        BY InOrderLists, FS_EmptySet
      <4> QED
        BY <4>1
    <3>3. [x \in {} |-> OwnerIn({}, x)] = <<>>
      OBVIOUS
    <3>4. RingOf({}) = [routers |-> {}, positions |-> InOrder({}), owner |-> [x \in {} |-> OwnerIn({}, x)]]
      BY <3>1 DEF RingOf
    <3> QED
      BY <3>2, <3>3, <3>4 DEF NoRing
  <2>2. RingOf({}).routers = {}
    BY DEF RingOf
  <2>3. FitRing(NoRing)
    BY <2>1, <2>2 DEF FitRing
  <2>4. \A p \in Routers : FitRing(ring[p])
    BY <1>2, <2>3, RingChanges
  <2> QED
    BY <2>4 DEF RingsFit, FitRing
<1>7. CutsFit
  BY <1>2, <1>4 DEF CutsFit, PacketsFit, CasterFits
<1>8. ReceiversFit /\ HandledFits
  BY <1>2 DEF ReceiversFit, HandledFits
<1> QED
  BY <1>5, <1>6, <1>7, <1>8 DEF GossipInv

\* The invariant of the network is inductive; the runner does not touch it.
LEMMA NextGossip == GossipInv /\ [Next]_vars => GossipInv'
<1> SUFFICES ASSUME GossipInv, [Next]_vars PROVE GossipInv'
  OBVIOUS
<1>1. CASE UNCHANGED gossipVars
  <2>1. UNCHANGED <<app, members, ring, caster, receiver, net, sent, handled>>
    BY <1>1 DEF gossipVars
  <2>2. GossipType' /\ RingsFit'
    BY <2>1 DEF GossipInv, GossipType, RingsFit
  <2> QED
    BY <2>1, <2>2, MessagesStay
<1>2. ASSUME NEW p \in Routers, GossipStep(p) PROVE GossipInv'
  <2>1. CASE \E qs \in SUBSET JoinTargets(p) : JoinAttempt(p, qs)
    BY <2>1, JoinKeeps
  <2>2. CASE OldMemberJoins(p) \/ \E q \in Routers \cup {OldMember} : NotifyJoin(p, q) \/ NotifyLeave(p, q)
    BY <2>2, NoticeKeeps
  <2>3. CASE HandlerDone(p) \/ Shutdown(p) \/ StopMemberlist(p) \/ StopMemberlistFails(p) \/ Close(p)
    BY <2>3, AppStateKeeps
  <2>4. CASE \E q \in Routers, n \in 1..MaxChunk : MessageChunk(p, q, n)
    BY <2>4, ChunkKeeps
  <2>5. CASE \E c \in net : NotifyMsg(p, c)
    BY <2>5, MsgKeeps
  <2> QED
    BY <1>2, <2>1, <2>2, <2>3, <2>4, <2>5 DEF GossipStep
<1> QED
  BY <1>1, <1>2 DEF Next, vars

\* However members come and go and whatever memberlist loses, delays, repeats or
\* reorders, a handler is given messages that were broadcast, whole and once each,
\* and routers that know of one another and of nobody else, and of the same nodes,
\* divide these among them so that each has one checker.
THEOREM GossipIsSound == Spec => []GossipSound
<1>1. Spec => []GossipInv
  BY InitGossip, NextGossip, PTL DEF Spec
<1>2. Spec => []RunnerInv
  BY InitRunner, NextRunner, PTL DEF Spec
<1>3. GossipInv => HandledIntact
  BY DEF GossipInv, HandledFits, HandledIntact
<1>4. GossipInv => OneChecker
  BY RingsCheckOnce DEF GossipInv
<1>5. GossipInv /\ RunnerInv => TypeOK
  <2> SUFFICES ASSUME GossipInv, RunnerInv PROVE TypeOK
    OBVIOUS
  <2>1. ASSUME NEW p \in Routers
        PROVE  /\ app[p].at \in {"run", "leaving", "stopped", "closed", "failed"} /\ app[p].running \in Nat
               /\ members[p] \subseteq (Routers \ {p}) \cup {OldMember}
               /\ DOMAIN receiver[p] \subseteq 1..Len(sent)
    <3>1. app[p].at \in {"run", "leaving", "stopped", "closed", "failed"} /\ app[p].running \in Nat
      BY DEF GossipInv, GossipType
    <3>2. members[p] \subseteq (Routers \ {p}) \cup {OldMember}
      BY DEF GossipInv, GossipType
    <3>3. DOMAIN receiver[p] \subseteq 1..Len(sent)
      BY DEF GossipInv, ReceiversFit
    <3> QED
      BY <3>1, <3>2, <3>3
  <2>2. ASSUME NEW p \in Routers
        PROVE  ring[p].routers \subseteq Routers /\ ToSet(ring[p].positions) = DOMAIN ring[p].owner
    <3>1. PICK R \in SUBSET Routers : ring[p] = RingOf(R) /\ R = ring[p].routers
      BY DEF GossipInv, RingsFit
    <3>2. PICK K : K = PositionsOf(R)
      OBVIOUS
    <3>3. K \in SUBSET Nat /\ IsFiniteSet(K)
      BY <3>2, PositionsFinite
    <3>4. RingOf(R).positions = InOrder(K) /\ DOMAIN RingOf(R).owner = K
      BY <3>2 DEF RingOf
    <3>5. ToSet(InOrder(K)) = K
      BY <3>3, InOrderLists DEF ToSet
    <3> QED
      BY <3>1, <3>4, <3>5
  <2>3. /\ run \in [Apps -> {"new", "running", "failed", "ended"}]
        /\ grp \in [Apps -> {"select", "join", "join failed", "report", "done"}]
        /\ asked \subseteq Apps /\ main.todo \subseteq Apps
        /\ main.code \in {0, 1} /\ main.at \in {"read", "returned", "panic"}
    BY DEF RunnerInv, RunnerType
  <2> QED
    BY <2>1, <2>2, <2>3 DEF TypeOK
<1> QED
  BY <1>1, <1>2, <1>3, <1>4, <1>5, PTL DEF GossipSound
=============================================================================
