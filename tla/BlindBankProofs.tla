-------------------------- MODULE BlindBankProofs --------------------------
(***************************************************************************)
(* Proofs about BlindBank, for any accounts, any calls of any clients, any  *)
(* number of attempts, and attempts that are lost, late or repeated.        *)
(***************************************************************************)
EXTENDS BlindBank, FunctionTheorems, FiniteSetTheorems, TLAPS
-----------------------------------------------------------------------------
(* Sums *)

\* The units of a finite sum are finite in number.
LEMMA UnitsFinite ==
    ASSUME NEW S, IsFiniteSet(S), NEW f, \A x \in S : f[x] \in Nat
    PROVE  IsFiniteSet(Units(f, S)) /\ Sum(f, S) \in Nat
<1> DEFINE T == {{x} \X (1 .. f[x]) : x \in S}
           g == [x \in S |-> {x} \X (1 .. f[x])]
<1>1. g \in Surjection(S, T)
  BY DEF Surjection
<1>2. IsFiniteSet(T)
  <2> HIDE DEF g, T
  <2> QED
    BY <1>1, FS_Surjection
<1>3. ASSUME NEW x \in S PROVE IsFiniteSet({x} \X (1 .. f[x]))
  <2> DEFINE n == f[x]
  <2>0. n \in Int
    OBVIOUS
  <2>1. IsFiniteSet({x})
    BY FS_Singleton
  <2> HIDE DEF n
  <2>2. IsFiniteSet(1 .. n)
    BY <2>0, FS_Interval
  <2>3. IsFiniteSet({x} \X (1 .. n))
    BY <2>1, <2>2, FS_Product
  <2> QED
    BY <2>3 DEF n
<1>4. \A t \in T : IsFiniteSet(t)
  BY <1>3
<1>5. IsFiniteSet(UNION T)
  BY <1>2, <1>4, FS_UNION
<1> QED
  BY <1>5, FS_CardinalityType DEF Units, Sum

\* One more element adds its value.
LEMMA SumAdd ==
    ASSUME NEW S, IsFiniteSet(S), NEW f, \A x \in S : f[x] \in Nat,
           NEW y, y \notin S, f[y] \in Nat
    PROVE  Sum(f, S \cup {y}) = Sum(f, S) + f[y]
<1> DEFINE A == Units(f, S)
           B == {y} \X (1 .. f[y])
<1>1. IsFiniteSet(A) /\ Cardinality(A) \in Nat
  BY UnitsFinite DEF Sum
<1>2. IsFiniteSet(B) /\ Cardinality(B) = f[y]
  <2>1. IsFiniteSet({y}) /\ Cardinality({y}) = 1
    BY FS_Singleton
  <2>2. IsFiniteSet(1 .. f[y]) /\ Cardinality(1 .. f[y]) = f[y]
    BY FS_Interval
  <2>3. IsFiniteSet(B) /\ Cardinality(B) = Cardinality({y}) * Cardinality(1 .. f[y])
    BY <2>1, <2>2, FS_Product
  <2> QED
    BY <2>1, <2>2, <2>3
<1>3. Units(f, S \cup {y}) = A \cup B
  BY DEF Units
<1>4. A \cap B = {}
  <2>1. \A u \in A : u[1] \in S
    BY DEF Units
  <2>2. \A u \in B : u[1] = y
    OBVIOUS
  <2> QED
    BY <2>1, <2>2
<1>5. Cardinality(A \cup B) = Cardinality(A) + Cardinality(B) - Cardinality(A \cap B)
  BY <1>1, <1>2, FS_Union
<1>6. Cardinality(A \cap B) = 0
  BY <1>4, FS_EmptySet
<1> DEFINE a == Cardinality(A)
           b == Cardinality(B)
           c == Cardinality(A \cap B)
           d == Cardinality(A \cup B)
<1>7. a \in Nat /\ b \in Nat /\ b = f[y] /\ c = 0 /\ d = a + b - c
  BY <1>1, <1>2, <1>5, <1>6
<1>8. Sum(f, S) = a /\ Sum(f, S \cup {y}) = d
  BY <1>3 DEF Sum
<1> HIDE DEF a, b, c, d
<1> QED
  BY <1>7, <1>8

\* One element less takes its value away.
LEMMA SumRemove ==
    ASSUME NEW S, IsFiniteSet(S), NEW f, \A x \in S : f[x] \in Nat, NEW y \in S
    PROVE  Sum(f, S \ {y}) = Sum(f, S) - f[y] /\ Sum(f, S) \in Nat /\ Sum(f, S \ {y}) \in Nat
<1> DEFINE R == S \ {y}
<1>1. IsFiniteSet(R) /\ y \notin R /\ (R \cup {y}) = S
  BY FS_RemoveElement
<1>2. Sum(f, R) \in Nat /\ Sum(f, S) \in Nat
  BY <1>1, UnitsFinite
<1> HIDE DEF R
<1>3. Sum(f, R \cup {y}) = Sum(f, R) + f[y]
  <2>1. \A x \in R : f[x] \in Nat
    BY <1>1
  <2> QED
    BY <1>1, <2>1, SumAdd
<1> QED
  BY <1>1, <1>2, <1>3 DEF R

\* A sum is that of the values on the set.
LEMMA SumSame ==
    ASSUME NEW S, NEW f, NEW g, \A x \in S : f[x] = g[x]
    PROVE  Sum(f, S) = Sum(g, S)
  BY DEF Sum, Units

\* A changed value changes the sum by the difference.
LEMMA SumChange ==
    ASSUME NEW S, IsFiniteSet(S), NEW f \in [S -> Nat], NEW g \in [S -> Nat], NEW y \in S,
           \A x \in S \ {y} : f[x] = g[x]
    PROVE  Sum(g, S) = Sum(f, S) - f[y] + g[y]
<1>1. \A x \in S : f[x] \in Nat /\ g[x] \in Nat
  OBVIOUS
<1>2. Sum(f, S \ {y}) = Sum(g, S \ {y})
  BY SumSame
<1>3. Sum(f, S \ {y}) = Sum(f, S) - f[y] /\ Sum(f, S) \in Nat
  BY <1>1, SumRemove
<1>4. Sum(g, S \ {y}) = Sum(g, S) - g[y] /\ Sum(g, S) \in Nat
  BY <1>1, SumRemove
<1> DEFINE p == Sum(f, S)
           q == Sum(g, S)
<1>5. p \in Nat /\ q \in Nat /\ f[y] \in Nat /\ g[y] \in Nat /\ p - f[y] = q - g[y]
  BY <1>1, <1>2, <1>3, <1>4
<1> HIDE DEF p, q
<1>6. q = p - f[y] + g[y]
  BY <1>5
<1> QED
  BY <1>6 DEF p, q

\* Sums of nothing.
LEMMA SumZero ==
    ASSUME NEW S, NEW f
    PROVE  /\ Sum(f, {}) = 0
           /\ (\A x \in S : f[x] = 0) => Sum(f, S) = 0
<1>1. Units(f, {}) = {}
  BY DEF Units
<1>2. ASSUME \A x \in S : f[x] = 0 PROVE Units(f, S) = {}
  BY <1>2 DEF Units
<1> QED
  BY <1>1, <1>2, FS_EmptySet DEF Sum
-----------------------------------------------------------------------------
(* The operations *)

Attempts == Calls \X (1 .. MaxTries)
RpcType  == [try : 1 .. MaxTries, status : {0, 200, 400, 500}, value : Nat]

\* An element of a sequence is one of the set the sequence is over.
LEMMA ElementIn ==
    ASSUME NEW R, NEW q \in Seq(R), NEW k \in 1 .. Len(q)
    PROVE  q[k] \in R
  OBVIOUS

\* What the client asks for has the fields its kind needs.
LEMMA OpTypes ==
    ASSUME NEW c \in Calls
    PROVE  /\ OpOf[c].account \in Accounts
           /\ OpOf[c].kind \in {"withdraw", "full", "deposit"}
           /\ OpOf[c].kind = "withdraw" => Total(OpOf[c].reqs) \in Nat
           /\ OpOf[c].kind = "deposit" => OpOf[c].amount \in Nat /\ Worth[c] = OpOf[c].amount
           /\ Worth[c] \in Nat
<1> DEFINE op == OpOf[c]
<1>1. op \in Operation
  BY BlindBankAssumption
<1>2. op.account \in Accounts /\ op.kind \in {"withdraw", "full", "deposit"}
  BY <1>1 DEF Operation
<1>3. op.kind = "deposit" => op.amount \in Nat
  BY <1>1 DEF Operation
<1>4. op.kind = "withdraw" => op.reqs \in Seq([msg : Nat, amount : Nat])
  BY <1>1 DEF Operation
<1>5. ASSUME NEW reqs \in Seq([msg : Nat, amount : Nat]) PROVE Total(reqs) \in Nat
  <2> DEFINE f == [k \in DOMAIN reqs |-> reqs[k].amount]
  <2>1. DOMAIN reqs = 1 .. Len(reqs) /\ Len(reqs) \in Nat
    OBVIOUS
  <2>2. IsFiniteSet(DOMAIN reqs)
    BY <2>1, FS_Interval
  <2>3. ASSUME NEW k \in DOMAIN reqs PROVE f[k] \in Nat
    <3>1. reqs[k] \in [msg : Nat, amount : Nat]
      BY <2>1, ElementIn
    <3> QED
      BY <3>1
  <2>4. Sum(f, DOMAIN reqs) \in Nat
    BY <2>2, <2>3, UnitsFinite
  <2> QED
    BY <2>4 DEF Total
<1> HIDE DEF op
<1>6. op.kind = "withdraw" => Total(op.reqs) \in Nat
  BY <1>4, <1>5
<1> QED
  BY <1>2, <1>3, <1>6 DEF op, Worth

\* An answer changes the entry of its own call at most.
LEMMA AnswerEffect ==
    ASSUME rpc \in [Calls -> RpcType], NEW c \in Calls, NEW try \in 1 .. MaxTries,
           NEW status \in {200, 400, 500}, NEW value \in Nat, Answer(c, try, status, value)
    PROVE  /\ rpc' \in [Calls -> RpcType]
           /\ \A d \in Calls : rpc'[d] = rpc[d] \/ (d = c /\ rpc'[d].value = value /\ rpc'[d].status = status)
<1> DEFINE r == [try |-> try, status |-> status, value |-> value]
<1>1. r \in RpcType /\ r.value = value /\ r.status = status
  BY DEF RpcType
<1>2. rpc' = rpc \/ rpc' = [rpc EXCEPT ![c] = r]
  BY DEF Answer
<1> HIDE DEF r
<1> QED
  BY <1>1, <1>2

\* A credit of a full withdrawal is an amount.
LEMMA NeighboursAreNat == ASSUME NEW b PROVE Neighbours(b) \subseteq Nat
  BY BlindBankAssumption DEF Neighbours

\* The bank does one of five things: nothing, a withdrawal that takes v from an
\* account and signs for w, the redemption of a credit, the crediting, or it is
\* left alone by a client's step.
Withdraws(c, v, w) ==
    LET a == OpOf[c].account IN
    /\ v \in Nat /\ w \in Nat /\ v <= balance[a]
    /\ balance' = [balance EXCEPT ![a] = balance[a] - v]
    /\ issuedBy' = [issuedBy EXCEPT ![c] = issuedBy[c] + w]
    /\ rounding' = rounding + v - w
    /\ UNCHANGED <<known, ledgerVars>>

\* A withdrawal is refused and leaves no trace, or it is one of the above and is
\* answered with what was signed (WithdrawBatch, WithdrawFullUnblinded).
LEMMA ExecuteWithdrawal ==
    ASSUME TypeOK, NEW c \in Calls, NEW try \in 1 .. MaxTries,
           \/ OpOf[c].kind = "withdraw" /\ WithdrawBatch(c, try)
           \/ OpOf[c].kind = "full" /\ WithdrawFullUnblinded(c, try)
    PROVE  \/ UNCHANGED bankVars /\ \E st \in {400, 500} : Answer(c, try, st, 0)
           \/ \E v, w \in Nat : Withdraws(c, v, w) /\ Answer(c, try, 200, w)
<1> DEFINE a == OpOf[c].account
<1>0. a \in Accounts /\ balance[a] \in Nat /\ issuedBy[c] \in Nat /\ rounding \in Int
  BY OpTypes DEF TypeOK
<1>1. CASE OpOf[c].kind = "withdraw" /\ WithdrawBatch(c, try)
  <2> DEFINE t == Total(OpOf[c].reqs)
  <2>1. t \in Nat
    BY <1>1, OpTypes
  <2>2. CASE InvalidBatch(OpOf[c].reqs) \/ (a \notin known \/ balance[a] < t)
    BY <1>1, <2>2 DEF WithdrawBatch, Refuse
  <2>3. CASE ~InvalidBatch(OpOf[c].reqs) /\ a \in known /\ ~(balance[a] < t)
    <3>1. /\ balance' = [balance EXCEPT ![a] = balance[a] - t]
          /\ issuedBy' = [issuedBy EXCEPT ![c] = issuedBy[c] + t]
          /\ Answer(c, try, 200, t) /\ UNCHANGED <<known, rounding, ledgerVars>>
      BY <1>0, <1>1, <2>3 DEF WithdrawBatch
    <3> HIDE DEF t
    <3>2. rounding' = rounding + t - t /\ t <= balance[a]
      BY <1>0, <2>1, <2>3, <3>1
    <3> QED
      BY <2>1, <3>1, <3>2 DEF Withdraws
  <2> QED
    BY <2>2, <2>3
<1>2. CASE OpOf[c].kind = "full" /\ WithdrawFullUnblinded(c, try)
  <2>1. CASE a \notin known \/ balance[a] = 0 \/ TooLarge(balance[a])
    BY <1>2, <2>1 DEF WithdrawFullUnblinded, Refuse
  <2>2. CASE ~(a \notin known \/ balance[a] = 0 \/ TooLarge(balance[a]))
    <3>1. PICK w \in Neighbours(balance[a]) :
             /\ rounding' = rounding + balance[a] - w
             /\ issuedBy' = [issuedBy EXCEPT ![c] = issuedBy[c] + w]
             /\ balance' = [balance EXCEPT ![a] = 0]
             /\ Answer(c, try, 200, w)
             /\ UNCHANGED <<known, ledgerVars>>
      BY <1>2, <2>2 DEF WithdrawFullUnblinded, TypeOK
    <3>2. w \in Nat /\ balance[a] - balance[a] = 0
      BY <1>0, NeighboursAreNat
    <3>3. Withdraws(c, balance[a], w)
      <4>1. balance' = [balance EXCEPT ![a] = balance[a] - balance[a]]
        BY <3>1, <3>2
      <4>2. balance[a] <= balance[a]
        BY <1>0
      <4> QED
        BY <1>0, <3>1, <3>2, <4>1, <4>2 DEF Withdraws
    <3> QED
      BY <1>0, <3>1, <3>2, <3>3
  <2> QED
    BY <2>1, <2>2
<1> QED
  BY <1>1, <1>2
-----------------------------------------------------------------------------
(* The invariant *)

\* What is about to be credited or stranded was redeemed, each of them once and
\* not both, by deposits only; and no two calls redeemed the same credit.
Promised ==
    /\ \A m \in crediting : m[1] \in redeemed \ stranded
    /\ \A m, n \in crediting : m[1] = n[1] => m = n
    /\ stranded \subseteq redeemed
    /\ \A c \in redeemed \cup late : OpOf[c].kind = "deposit"
    /\ \A c, d \in redeemed : OpOf[c].credit = OpOf[d].credit => c = d
    /\ ~Lossy => late = {} /\ stranded = {}

\* A deposit is settled when its credit is on the account; a client is told of
\* no other.
Settled(c) == c \in redeemed \ stranded /\ \A m \in crediting : m[1] # c
Told ==
    \A c \in Calls : OpOf[c].kind = "deposit" /\ (rpc[c].status = 200 \/ pc[c] = "ok") => Settled(c)

\* What the client was given, or has an answer for, the bank has signed.
Covered ==
    \A c \in Calls : received[c] <= issuedBy[c] /\ rpc[c].value <= issuedBy[c]

Inv == TypeOK /\ Promised /\ BooksBalance /\ Covered /\ Told

\* The accounts hold what they were opened with.
LEMMA OpeningSum ==
    Sum([a \in Accounts |-> IF a \in Existing THEN Opening ELSE 0], Accounts)
      = Opening * Cardinality(Existing)
<1> DEFINE f == [a \in Accounts |-> IF a \in Existing THEN Opening ELSE 0]
<1>1. IsFiniteSet(Existing) /\ Cardinality(Existing) \in Nat
  BY BlindBankAssumption, FS_Subset, FS_CardinalityType
<1>2. Opening \in Nat /\ Existing \subseteq Accounts
  BY BlindBankAssumption
<1>3. IsFiniteSet(1 .. Opening) /\ Cardinality(1 .. Opening) = Opening
  BY <1>2, FS_Interval
<1>4. Cardinality(Existing \X (1 .. Opening)) = Cardinality(Existing) * Cardinality(1 .. Opening)
  BY <1>1, <1>3, FS_Product
<1>5. Units(f, Accounts) = Existing \X (1 .. Opening)
  <2>1. \A a \in Accounts : f[a] = IF a \in Existing THEN Opening ELSE 0
    OBVIOUS
  <2>2. ASSUME NEW u \in Units(f, Accounts) PROVE u \in Existing \X (1 .. Opening)
    <3>1. PICK a \in Accounts : u \in {a} \X (1 .. f[a])
      BY DEF Units
    <3>2. a \in Existing
      <4> SUFFICES ASSUME a \notin Existing PROVE FALSE
        OBVIOUS
      <4>1. f[a] = 0
        BY <2>1
      <4> QED
        BY <3>1, <4>1
    <3> QED
      BY <2>1, <3>1, <3>2
  <2>3. ASSUME NEW u \in Existing \X (1 .. Opening) PROVE u \in Units(f, Accounts)
    <3>1. u[1] \in Accounts /\ u \in {u[1]} \X (1 .. f[u[1]])
      BY <1>2, <2>1
    <3> QED
      BY <3>1 DEF Units
  <2> QED
    BY <2>2, <2>3
<1> HIDE DEF f
<1>6. Sum(f, Accounts) = Opening * Cardinality(Existing)
  BY <1>1, <1>2, <1>3, <1>4, <1>5 DEF Sum
<1> QED
  BY <1>6 DEF f

\* Nothing was issued or redeemed at the start.
LEMMA InitInv == Init => Inv
<1> SUFFICES ASSUME Init PROVE Inv
  OBVIOUS
<1>1. TypeOK
  <2>1. NoAnswer(1) \in RpcType
    BY BlindBankAssumption DEF NoAnswer, RpcType
  <2>2. rpc \in [Calls -> RpcType]
    BY <2>1 DEF Init
  <2>3. balance \in [Accounts -> Nat] /\ known \subseteq Accounts
    BY BlindBankAssumption DEF Init
  <2> QED
    BY <2>2, <2>3 DEF Init, TypeOK, RpcType
<1>2. Promised /\ Covered /\ Told
  BY DEF Init, Promised, Covered, Told, NoAnswer
<1>3. BooksBalance
  <2>1. Sum(balance, Accounts) = Opening * Cardinality(Existing)
    BY OpeningSum DEF Init
  <2>2. /\ Sum(AttemptWorth, crediting) = 0 /\ Sum(Worth, redeemed) = 0
        /\ Sum(Worth, stranded) = 0 /\ rounding = 0
    BY SumZero DEF Init
  <2>3. Sum(issuedBy, Calls) = 0
    BY SumZero DEF Init
  <2>4. Opening * Cardinality(Existing) \in Nat
    <3>1. Opening \in Nat /\ Cardinality(Existing) \in Nat
      BY BlindBankAssumption, FS_Subset, FS_CardinalityType
    <3> QED
      BY <3>1
  <2> QED
    BY <2>1, <2>2, <2>3, <2>4 DEF BooksBalance
<1> QED
  BY <1>1, <1>2, <1>3 DEF Inv

\* The sums of the books are natural numbers.
LEMMA BooksAreNat ==
    ASSUME TypeOK
    PROVE  /\ IsFiniteSet(crediting) /\ IsFiniteSet(redeemed) /\ IsFiniteSet(stranded)
           /\ Sum(balance, Accounts) \in Nat /\ Sum(AttemptWorth, crediting) \in Nat
           /\ Sum(issuedBy, Calls) \in Nat /\ Sum(Worth, redeemed) \in Nat
           /\ Sum(Worth, stranded) \in Nat
           /\ Opening * Cardinality(Existing) \in Nat
<1>1. IsFiniteSet(Accounts) /\ IsFiniteSet(Calls) /\ Opening \in Nat /\ IsFiniteSet(Existing)
  BY BlindBankAssumption, FS_Subset
<1>2. IsFiniteSet(1 .. MaxTries)
  BY BlindBankAssumption, FS_Interval
<1>3. IsFiniteSet(Attempts)
  BY <1>1, <1>2, FS_Product DEF Attempts
<1>4. IsFiniteSet(crediting) /\ IsFiniteSet(redeemed) /\ IsFiniteSet(stranded)
  BY <1>1, <1>3, FS_Subset DEF TypeOK, Attempts
<1>5. Sum(balance, Accounts) \in Nat /\ Sum(issuedBy, Calls) \in Nat
  BY <1>1, UnitsFinite DEF TypeOK
<1>6. \A c \in Calls : Worth[c] \in Nat
  BY OpTypes
<1>7. \A m \in crediting : AttemptWorth[m] \in Nat
  BY <1>6 DEF TypeOK, AttemptWorth
<1>8. Sum(AttemptWorth, crediting) \in Nat /\ Sum(Worth, redeemed) \in Nat /\ Sum(Worth, stranded) \in Nat
  <2>1. \A c \in redeemed \cup stranded : Worth[c] \in Nat
    BY <1>6 DEF TypeOK
  <2> QED
    BY <1>4, <1>7, <2>1, UnitsFinite
<1>9. Opening * Cardinality(Existing) \in Nat
  <2>1. Cardinality(Existing) \in Nat
    BY <1>1, FS_CardinalityType
  <2> QED
    BY <1>1, <2>1
<1> QED
  BY <1>4, <1>5, <1>8, <1>9
-----------------------------------------------------------------------------
(* The steps *)

\* A withdrawal, with its answer, keeps everything: the account pays for what
\* is signed, or the books say what the rounding was.
LEMMA WithdrawsInv ==
    ASSUME Inv, NEW c \in Calls, OpOf[c].kind # "deposit", NEW try \in 1 .. MaxTries,
           NEW v \in Nat, NEW w \in Nat,
           Withdraws(c, v, w), Answer(c, try, 200, w),
           inflight' \subseteq inflight, UNCHANGED <<pc, received>>
    PROVE  Inv'
<1> DEFINE a == OpOf[c].account
<1>0. a \in Accounts /\ balance[a] \in Nat /\ issuedBy[c] \in Nat /\ rounding \in Int /\ v <= balance[a]
  BY OpTypes DEF Inv, TypeOK, Withdraws
<1>1. balance[a] - v \in Nat /\ issuedBy[c] + w \in Nat /\ rounding + v - w \in Int
  BY <1>0
<1>2. /\ balance' = [balance EXCEPT ![a] = balance[a] - v]
      /\ issuedBy' = [issuedBy EXCEPT ![c] = issuedBy[c] + w]
      /\ rounding' = rounding + v - w
      /\ UNCHANGED <<known, redeemed, crediting, late, stranded>>
  BY DEF Withdraws, ledgerVars
<1>3. rpc' \in [Calls -> RpcType] /\ \A d \in Calls : rpc'[d] = rpc[d] \/ (d = c /\ rpc'[d].value = w)
  BY AnswerEffect DEF Inv, TypeOK, RpcType
<1>4. TypeOK'
  <2>1. balance' \in [Accounts -> Nat] /\ issuedBy' \in [Calls -> Nat] /\ rounding' \in Int
    BY <1>0, <1>1, <1>2 DEF Inv, TypeOK
  <2> QED
    BY <1>2, <1>3, <2>1 DEF Inv, TypeOK, RpcType
<1>5. Promised'
  BY <1>2 DEF Inv, Promised
<1>6. Covered'
  <2>1. \A d \in Calls : issuedBy'[d] = (IF d = c THEN issuedBy[c] + w ELSE issuedBy[d]) /\ issuedBy[d] \in Nat
    BY <1>2 DEF Inv, TypeOK
  <2>2. \A d \in Calls : received[d] \in Nat /\ rpc[d].value \in Nat
    BY DEF Inv, TypeOK
  <2> QED
    BY <1>0, <1>3, <2>1, <2>2 DEF Inv, Covered
<1>7. BooksBalance'
  <2>0. IsFiniteSet(Accounts) /\ IsFiniteSet(Calls)
    BY BlindBankAssumption
  <2>1. Sum(balance', Accounts) = Sum(balance, Accounts) - balance[a] + (balance[a] - v)
    <3>1. /\ balance \in [Accounts -> Nat] /\ balance' \in [Accounts -> Nat]
          /\ balance'[a] = balance[a] - v /\ \A x \in Accounts \ {a} : balance[x] = balance'[x]
      BY <1>0, <1>1, <1>2 DEF Inv, TypeOK
    <3>2. Sum(balance', Accounts) = Sum(balance, Accounts) - balance[a] + balance'[a]
      BY <1>0, <2>0, <3>1, SumChange
    <3> QED
      BY <3>1, <3>2
  <2>2. Sum(issuedBy', Calls) = Sum(issuedBy, Calls) - issuedBy[c] + (issuedBy[c] + w)
    <3>1. /\ issuedBy \in [Calls -> Nat] /\ issuedBy' \in [Calls -> Nat]
          /\ issuedBy'[c] = issuedBy[c] + w /\ \A x \in Calls \ {c} : issuedBy[x] = issuedBy'[x]
      BY <1>0, <1>1, <1>2 DEF Inv, TypeOK
    <3>2. Sum(issuedBy', Calls) = Sum(issuedBy, Calls) - issuedBy[c] + issuedBy'[c]
      BY <2>0, <3>1, SumChange
    <3> QED
      BY <3>1, <3>2
  <2> QED
    BY <1>0, <1>2, <2>1, <2>2, BooksAreNat DEF Inv, BooksBalance
<1>8. Told'
  BY <1>2, <1>3 DEF Inv, Told, Settled
<1> QED
  BY <1>4, <1>5, <1>6, <1>7, <1>8 DEF Inv

\* An answer that carries nothing, from a bank that did nothing.
LEMMA RefusalInv ==
    ASSUME Inv, NEW c \in Calls, NEW try \in 1 .. MaxTries, NEW st \in {400, 500},
           Answer(c, try, st, 0), UNCHANGED <<bankVars, pc, received>>, inflight' \subseteq inflight
    PROVE  Inv'
<1>1. rpc' \in [Calls -> RpcType] /\ \A d \in Calls : rpc'[d] = rpc[d] \/ (d = c /\ rpc'[d].value = 0 /\ rpc'[d].status # 200)
  BY AnswerEffect DEF Inv, TypeOK, RpcType
<1>2. TypeOK' /\ Promised'
  BY <1>1 DEF Inv, TypeOK, Promised, RpcType, bankVars, ledgerVars
<1>3. Covered'
  BY <1>1 DEF Inv, TypeOK, Covered, bankVars, ledgerVars
<1>4. BooksBalance'
  BY DEF Inv, BooksBalance, bankVars, ledgerVars
<1>5. Told'
  BY <1>1 DEF Inv, Told, Settled, bankVars, ledgerVars
<1> QED
  BY <1>2, <1>3, <1>4, <1>5 DEF Inv

\* A Consume that Deposit gave up on changes nothing yet.
LEMMA FailInv ==
    ASSUME Inv, NEW c \in Calls, OpOf[c].kind = "deposit", NEW try \in 1 .. MaxTries, CommitFails(c, try),
           UNCHANGED <<pc, received>>, inflight' \subseteq inflight
    PROVE  Inv'
<1>0. /\ Lossy /\ late' = late \cup {c} /\ Answer(c, try, 500, 0)
      /\ UNCHANGED <<balance, known, rounding, issuedBy, redeemed, crediting, stranded>>
  BY DEF CommitFails
<1>1. rpc' \in [Calls -> RpcType] /\ \A d \in Calls : rpc'[d] = rpc[d] \/ (d = c /\ rpc'[d].value = 0 /\ rpc'[d].status # 200)
  BY <1>0, AnswerEffect DEF Inv, TypeOK, RpcType
<1>2. TypeOK' /\ Promised'
  BY <1>0, <1>1 DEF Inv, TypeOK, Promised, RpcType
<1>3. Covered'
  BY <1>0, <1>1 DEF Inv, TypeOK, Covered
<1>4. BooksBalance'
  BY <1>0 DEF Inv, BooksBalance
<1>5. Told'
  BY <1>0, <1>1 DEF Inv, Told, Settled
<1> QED
  BY <1>2, <1>3, <1>4, <1>5 DEF Inv

\* Nobody has redeemed the credit of c: c has not, and none of the redeemed
\* deposits presents it.
LEMMA Unspent ==
    ASSUME Inv, NEW c \in Calls, SameCredit(c) \cap redeemed = {}, OpOf[c].kind = "deposit"
    PROVE  c \notin redeemed /\ \A d \in redeemed : OpOf[d].credit # OpOf[c].credit
  BY DEF SameCredit, Inv, TypeOK, Promised

\* The sum of what was redeemed grows by the deposit.
LEMMA RedeemedSum ==
    ASSUME Inv, NEW c \in Calls, c \notin redeemed
    PROVE  /\ Sum(Worth, redeemed \cup {c}) = Sum(Worth, redeemed) + Worth[c]
           /\ Worth[c] \in Nat /\ \A d \in Calls : Worth[d] \in Nat
<1>1. \A d \in Calls : Worth[d] \in Nat
  BY OpTypes
<1>2. \A d \in redeemed : Worth[d] \in Nat
  BY <1>1 DEF Inv, TypeOK
<1>3. IsFiniteSet(redeemed)
  BY BooksAreNat DEF Inv
<1> QED
  BY <1>1, <1>2, <1>3, SumAdd

\* A credit is redeemed: it is owed to the account from now on.
LEMMA RedeemInv ==
    ASSUME Inv, NEW c \in Calls, NEW try \in 1 .. MaxTries, OpOf[c].kind = "deposit",
           Redeems(c, try), UNCHANGED <<pc, received>>, inflight' \subseteq inflight
    PROVE  Inv'
<1> DEFINE m == <<c, try>>
<1>1. /\ redeemed' = redeemed \cup {c} /\ crediting' = crediting \cup {m}
      /\ UNCHANGED <<balance, known, rounding, issuedBy, late, stranded, rpc>>
  BY DEF Redeems
<1>2. c \notin redeemed /\ \A d \in redeemed : OpOf[d].credit # OpOf[c].credit
  BY Unspent DEF Redeems
<1>3. m \notin crediting /\ c \notin stranded /\ \A n \in crediting : n[1] # c
  BY <1>2 DEF Inv, Promised
<1>4. TypeOK' /\ Covered'
  BY <1>1 DEF Inv, TypeOK, Covered
<1>5. Promised'
  BY <1>1, <1>2, <1>3 DEF Inv, Promised
<1>6. Told'
  BY <1>1, <1>2, <1>3 DEF Inv, Told, Settled
<1>7. BooksBalance'
  <2>1. /\ Sum(Worth, redeemed') = Sum(Worth, redeemed) + Worth[c]
        /\ Worth[c] \in Nat /\ \A d \in Calls : Worth[d] \in Nat
    BY <1>1, <1>2, RedeemedSum
  <2>2. AttemptWorth[m] = Worth[c] /\ \A n \in crediting : AttemptWorth[n] \in Nat
    BY <2>1 DEF Inv, TypeOK, AttemptWorth
  <2>3. IsFiniteSet(crediting)
    BY BooksAreNat DEF Inv
  <2> HIDE DEF m
  <2>4. Sum(AttemptWorth, crediting') = Sum(AttemptWorth, crediting) + AttemptWorth[m]
    BY <1>1, <1>3, <2>1, <2>2, <2>3, SumAdd
  <2>5. rounding \in Int
    BY DEF Inv, TypeOK
  <2> QED
    BY <1>1, <2>1, <2>2, <2>4, <2>5, BooksAreNat DEF Inv, BooksBalance
<1> QED
  BY <1>4, <1>5, <1>6, <1>7 DEF Inv

\* The commit of a deposit, however it ends.
LEMMA CommitInv ==
    ASSUME Inv, NEW c \in Calls, NEW try \in 1 .. MaxTries, OpOf[c].kind = "deposit",
           DepositCommits(c, try), UNCHANGED <<pc, received>>, inflight' \subseteq inflight
    PROVE  Inv'
<1>1. \/ \E st \in {400, 500} : Refuse(c, try, st)
      \/ Redeems(c, try)
      \/ CommitFails(c, try)
  BY DEF DepositCommits
<1>2. ASSUME NEW st \in {400, 500}, Refuse(c, try, st) PROVE Inv'
  BY <1>2, RefusalInv DEF Refuse
<1> QED
  BY <1>1, <1>2, RedeemInv, FailInv

\* A late Consume strands the credit, and nothing else, unless it is spent.
LEMMA LateInv ==
    ASSUME Inv, NEW c \in late, ConsumesLate(c)
    PROVE  Inv'
<1>0. /\ c \in Calls /\ OpOf[c].kind = "deposit" /\ Lossy /\ late' \subseteq late
      /\ UNCHANGED <<balance, known, rounding, crediting, issuedBy, pc, rpc, inflight, received>>
  BY DEF ConsumesLate, Inv, TypeOK, Promised
<1>1. CASE SameCredit(c) \cap redeemed # {}
  <2>1. UNCHANGED <<redeemed, stranded>>
    BY <1>1 DEF ConsumesLate
  <2> QED
    BY <1>0, <2>1 DEF Inv, TypeOK, Promised, BooksBalance, Covered, Told, Settled
<1>2. CASE SameCredit(c) \cap redeemed = {}
  <2>1. redeemed' = redeemed \cup {c} /\ stranded' = stranded \cup {c}
    BY <1>2 DEF ConsumesLate
  <2>2. c \notin redeemed /\ \A d \in redeemed : OpOf[d].credit # OpOf[c].credit
    BY <1>0, <1>2, Unspent
  <2>3. c \notin stranded /\ \A n \in crediting : n[1] # c
    BY <2>2 DEF Inv, Promised
  <2>4. TypeOK' /\ Covered'
    BY <1>0, <2>1 DEF Inv, TypeOK, Covered
  <2>5. Promised'
    BY <1>0, <2>1, <2>2, <2>3 DEF Inv, Promised
  <2>6. Told'
    BY <1>0, <2>1, <2>2, <2>3 DEF Inv, Told, Settled
  <2>7. BooksBalance'
    <3>1. /\ Sum(Worth, redeemed') = Sum(Worth, redeemed) + Worth[c]
          /\ Worth[c] \in Nat /\ \A d \in Calls : Worth[d] \in Nat
      BY <1>0, <2>1, <2>2, RedeemedSum
    <3>2. IsFiniteSet(stranded) /\ \A d \in stranded : Worth[d] \in Nat
      BY <3>1, BooksAreNat DEF Inv, TypeOK
    <3>3. Sum(Worth, stranded') = Sum(Worth, stranded) + Worth[c]
      BY <2>1, <2>3, <3>1, <3>2, SumAdd
    <3>4. rounding \in Int
      BY DEF Inv, TypeOK
    <3> QED
      BY <1>0, <3>1, <3>3, <3>4, BooksAreNat DEF Inv, BooksBalance
  <2> QED
    BY <2>4, <2>5, <2>6, <2>7 DEF Inv
<1> QED
  BY <1>1, <1>2

\* The account is credited with what was redeemed.
LEMMA CreditInv ==
    ASSUME Inv, NEW m \in crediting, DepositCredits(m[1], m[2])
    PROVE  Inv'
<1> DEFINE c == m[1]
           try == m[2]
           a == OpOf[c].account
           nb == balance[a] + OpOf[c].amount
<1>0. c \in Calls /\ try \in 1 .. MaxTries /\ m = <<c, try>>
  BY DEF Inv, TypeOK
<1>1. c \in redeemed \ stranded /\ OpOf[c].kind = "deposit"
  BY DEF Inv, Promised
<1>2. a \in Accounts /\ balance[a] \in Nat /\ OpOf[c].amount \in Nat /\ Worth[c] = OpOf[c].amount
  BY <1>0, <1>1, OpTypes DEF Inv, TypeOK
<1>3. /\ crediting' = crediting \ {m} /\ known' = known \cup {a}
      /\ balance' = [balance EXCEPT ![a] = nb] /\ Answer(c, try, 200, 0)
      /\ UNCHANGED <<rounding, redeemed, late, stranded, issuedBy, pc, inflight, received>>
  BY <1>0 DEF DepositCredits, Inv, TypeOK
<1>4. nb \in Nat
  BY <1>2
<1>5. rpc' \in [Calls -> RpcType] /\ \A d \in Calls : rpc'[d] = rpc[d] \/ (d = c /\ rpc'[d].value = 0)
  <2>1. rpc \in [Calls -> RpcType]
    BY DEF Inv, TypeOK, RpcType
  <2> HIDE DEF c, try
  <2> QED
    BY <1>0, <1>3, <2>1, AnswerEffect
<1>6. TypeOK'
  BY <1>2, <1>3, <1>4, <1>5 DEF Inv, TypeOK, RpcType
<1>7. Promised'
  BY <1>3 DEF Inv, Promised
<1>8. Covered'
  BY <1>3, <1>5 DEF Inv, TypeOK, Covered
<1>9. BooksBalance'
  <2>1. \A d \in Calls : Worth[d] \in Nat
    BY OpTypes
  <2>2. AttemptWorth[m] = Worth[c] /\ \A n \in crediting : AttemptWorth[n] \in Nat
    BY <2>1 DEF Inv, TypeOK, AttemptWorth
  <2>3. IsFiniteSet(crediting) /\ IsFiniteSet(Accounts) /\ balance \in [Accounts -> Nat] /\ rounding \in Int
    BY BooksAreNat, BlindBankAssumption DEF Inv, TypeOK
  <2>4. Sum(AttemptWorth, crediting') = Sum(AttemptWorth, crediting) - AttemptWorth[m]
    BY <1>3, <2>2, <2>3, SumRemove
  <2>5. Sum(balance', Accounts) = Sum(balance, Accounts) - balance[a] + nb
    <3>1. /\ balance' \in [Accounts -> Nat]
          /\ balance'[a] = nb /\ \A x \in Accounts \ {a} : balance[x] = balance'[x]
      BY <1>2, <1>3, <1>4, <2>3
    <3>2. Sum(balance', Accounts) = Sum(balance, Accounts) - balance[a] + balance'[a]
      BY <1>2, <2>3, <3>1, SumChange
    <3> QED
      BY <3>1, <3>2
  <2> QED
    BY <1>2, <1>3, <2>2, <2>3, <2>4, <2>5, BooksAreNat DEF Inv, BooksBalance
<1>10. Told'
  <2>1. \A n \in crediting' : n[1] # c
    BY <1>3 DEF Inv, Promised
  <2> HIDE DEF c
  <2> QED
    BY <1>1, <1>3, <1>5, <2>1 DEF Inv, Told, Settled
<1> QED
  BY <1>6, <1>7, <1>8, <1>9, <1>10 DEF Inv

\* The client's own steps: it takes what it was answered, no more.
LEMMA ClientInv ==
    ASSUME Inv, NEW c \in Calls, Send(c) \/ Retry(c) \/ GiveUp(c) \/ Receive(c)
    PROVE  Inv'
<1>1. UNCHANGED bankVars
  BY DEF Send, Retry, GiveUp, Receive, bankVars, ledgerVars
<1>2. Promised' /\ BooksBalance'
  BY <1>1 DEF Inv, Promised, BooksBalance, bankVars, ledgerVars
<1>3. TypeOK' /\ Covered' /\ Told'
  <2> USE <1>1 DEF Inv, TypeOK, Covered, Told, Settled, bankVars, ledgerVars
  <2>1. CASE Send(c)
    BY <2>1, BlindBankAssumption DEF Send
  <2>2. CASE Retry(c)
    <3> DEFINE try == rpc[c].try + 1
    <3>1. try \in 1 .. MaxTries
      BY <2>2, BlindBankAssumption DEF Retry
    <3>2. NoAnswer(try) \in RpcType /\ NoAnswer(try).value = 0 /\ NoAnswer(try).status = 0
      BY <3>1 DEF NoAnswer, RpcType
    <3>3. rpc' = [rpc EXCEPT ![c] = NoAnswer(try)] /\ inflight' = inflight \cup {<<c, try>>} /\ UNCHANGED <<pc, received>>
      BY <2>2 DEF Retry
    <3>4. rpc' \in [Calls -> RpcType] /\ \A d \in Calls : (rpc'[d].value = 0 /\ rpc'[d].status = 0) \/ rpc'[d] = rpc[d]
      BY <3>2, <3>3 DEF RpcType
    <3> HIDE DEF try
    <3> QED
      BY <3>1, <3>3, <3>4 DEF RpcType
  <2>3. CASE GiveUp(c)
    BY <2>3 DEF GiveUp
  <2>4. CASE Receive(c)
    BY <2>4 DEF Receive
  <2> QED
    BY <2>1, <2>2, <2>3, <2>4
<1> QED
  BY <1>2, <1>3 DEF Inv

\* Every step of the bank and its clients keeps the invariant.
LEMMA NextInv == Inv /\ [Next]_vars => Inv'
<1> SUFFICES ASSUME Inv, [Next]_vars PROVE Inv'
  OBVIOUS
<1>1. ASSUME NEW m \in inflight, Execute(m[1], m[2]) PROVE Inv'
  <2>1. m[1] \in Calls /\ m[2] \in 1 .. MaxTries /\ inflight' \subseteq inflight /\ UNCHANGED <<pc, received>>
    BY <1>1 DEF Inv, TypeOK, Execute
  <2>2. CASE OpOf[m[1]].kind = "deposit" /\ DepositCommits(m[1], m[2])
    BY <2>1, <2>2, CommitInv
  <2>3. CASE \/ OpOf[m[1]].kind = "withdraw" /\ WithdrawBatch(m[1], m[2])
             \/ OpOf[m[1]].kind = "full" /\ WithdrawFullUnblinded(m[1], m[2])
    <3>1. \/ UNCHANGED bankVars /\ \E st \in {400, 500} : Answer(m[1], m[2], st, 0)
          \/ \E v, w \in Nat : Withdraws(m[1], v, w) /\ Answer(m[1], m[2], 200, w)
      BY <2>1, <2>3, ExecuteWithdrawal DEF Inv
    <3>2. CASE UNCHANGED bankVars /\ \E st \in {400, 500} : Answer(m[1], m[2], st, 0)
      BY <2>1, <3>2, RefusalInv
    <3>3. CASE \E v, w \in Nat : Withdraws(m[1], v, w) /\ Answer(m[1], m[2], 200, w)
      <4>1. OpOf[m[1]].kind # "deposit"
        BY <2>3
      <4> QED
        BY <2>1, <3>3, <4>1, WithdrawsInv
    <3> QED
      BY <3>1, <3>2, <3>3
  <2> QED
    BY <1>1, <2>2, <2>3 DEF Execute
<1>2. CASE UNCHANGED vars
  BY <1>2 DEF vars, bankVars, ledgerVars, Inv, TypeOK, Promised, BooksBalance, Covered, Told, Settled
<1> QED
  BY <1>1, <1>2, ClientInv, CreditInv, LateInv DEF Next

\* The invariant holds in every state.
THEOREM BankInvariance == Spec => []Inv
<1> QED
  BY InitInv, NextInv, PTL DEF Spec

\* AccountsSound (WithdrawBatch, WithdrawFullUnblinded, Deposit): no account is
\* overdrawn, the books balance up to the credits stranded by a failing Commit, and
\* a deposit that is reported done is on its account, however many clients call
\* and however often attempts, theirs and the bank's own, are repeated, late or lost.
THEOREM BooksAlwaysBalance == Spec => []AccountsSound
<1>1. Inv => AccountsSound
  BY DEF Inv, AccountsSound, Promised, Told, Settled, DepositsHonest
<1> QED
  BY <1>1, BankInvariance, PTL

\* NothingForFree (WithdrawBatch with a client that retries): what a client is
\* given was signed against a debit of its own call.
THEOREM NothingIsFree == Spec => []NothingForFree
<1>1. Inv => NothingForFree
  BY DEF Inv, Covered, NothingForFree
<1> QED
  BY <1>1, BankInvariance, PTL
=============================================================================
