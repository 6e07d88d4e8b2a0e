------------------------ MODULE RouterClusterProofs ------------------------
(***************************************************************************)
(* Theorems about RouterCluster, for any number of routers and nodes.        *)
(***************************************************************************)
EXTENDS RouterCluster, TLAPS, WellFoundedInduction, FiniteSetTheorems, SequenceTheorems

-----------------------------------------------------------------------------
(* Induction.  A set of numbers that is not empty has a least one: what holds *)
(* for no least counterexample holds.                                        *)

\* A set of natural numbers has a least one.
LEMMA Least ==
    ASSUME NEW T \in SUBSET Nat, T # {}
    PROVE  \E x \in T : \A y \in T : x <= y
<1>1. PICK x \in T : \A y \in T : <<y, x>> \notin OpToRel(<, Nat)
  BY NatLessThanWellFounded, WFMin
<1>2. \A y \in T : ~ (y < x)
  BY <1>1 DEF OpToRel
<1> QED BY <1>2

\* Three times in order.
LEMMA Between ==
    ASSUME NEW x \in Nat, NEW y \in Nat, NEW z \in Nat, x < y, y <= z
    PROVE  x < z
OBVIOUS

-----------------------------------------------------------------------------
(* Histories *)

\* The checks of a history are in the order of their times, no two at one time.
Ordered(h) == \A i, j \in 1 .. Len(h) : i < j => h[i].ts < h[j].ts

\* A set of checks of which no two are from the same time.
Distinct(S) == S \subseteq Check /\ \A c, d \in S : c.ts = d.ts => c = d

\* The positions in two histories, and how much is left from there.
Places(h, o) == (1 .. Len(h) + 1) \X (1 .. Len(o) + 1)
Left(h, o, p) == Len(h) + Len(o) + 2 - p[1] - p[2]

\* One round of the loop of History.Merge, the rest of which is f.
Round(h, o, f, p) ==
    LET i == p[1]
        j == p[2]
    IN IF i > Len(h) THEN SubSeq(o, j, Len(o))
       ELSE IF j > Len(o) THEN SubSeq(h, i, Len(h))
       ELSE IF h[i].ts < o[j].ts THEN <<h[i]>> \o f[<<i + 1, j>>]
       ELSE IF o[j].ts < h[i].ts THEN <<o[j]>> \o f[<<i, j + 1>>]
       ELSE (IF h[i] = o[j] THEN <<h[i]>> ELSE <<h[i], o[j]>>) \o f[<<i + 1, j + 1>>]

IsMerge(h, o, f) == f = [p \in Places(h, o) |-> Round(h, o, f, p)]

\* The recursive function of MergeHistory is one that satisfies its equation, if
\* there is any.
LEMMA MergeByRounds ==
    ASSUME NEW h, NEW o, NEW g, IsMerge(h, o, g)
    PROVE  \E f : IsMerge(h, o, f) /\ MergeHistory(h, o) = f[<<1, 1>>]
<1>1. MergeHistory(h, o) = (CHOOSE f : IsMerge(h, o, f))[<<1, 1>>]
  BY Zenon DEF MergeHistory, IsMerge, Round, Places
<1>2. IsMerge(h, o, CHOOSE f : IsMerge(h, o, f))
  BY Zenon
<1> QED BY <1>1, <1>2, Zenon

\* The places a round goes on to have less left.
LEMMA NextPlaces ==
    ASSUME NEW S, NEW h \in Seq(S), NEW o \in Seq(S), NEW p \in Places(h, o)
    PROVE  /\ p[1] <= Len(h) => /\ <<p[1] + 1, p[2]>> \in Places(h, o)
                               /\ Left(h, o, <<p[1] + 1, p[2]>>) < Left(h, o, p)
           /\ p[2] <= Len(o) => /\ <<p[1], p[2] + 1>> \in Places(h, o)
                               /\ Left(h, o, <<p[1], p[2] + 1>>) < Left(h, o, p)
           /\ p[1] <= Len(h) /\ p[2] <= Len(o) =>
                               /\ <<p[1] + 1, p[2] + 1>> \in Places(h, o)
                               /\ Left(h, o, <<p[1] + 1, p[2] + 1>>) < Left(h, o, p)
<1> DEFINE i == p[1]
           j == p[2]
<1>1. p = <<i, j>> /\ i \in 1 .. Len(h) + 1 /\ j \in 1 .. Len(o) + 1 /\ Len(h) \in Nat /\ Len(o) \in Nat
  BY LenProperties DEF Places
<1>2. i <= Len(h) => /\ <<i + 1, j>> \in Places(h, o)
                     /\ Left(h, o, <<i + 1, j>>) < Left(h, o, p)
  BY <1>1 DEF Places, Left
<1>3. j <= Len(o) => /\ <<i, j + 1>> \in Places(h, o)
                     /\ Left(h, o, <<i, j + 1>>) < Left(h, o, p)
  BY <1>1 DEF Places, Left
<1>4. i <= Len(h) /\ j <= Len(o) => /\ <<i + 1, j + 1>> \in Places(h, o)
                                    /\ Left(h, o, <<i + 1, j + 1>>) < Left(h, o, p)
  BY <1>1 DEF Places, Left
<1> QED BY <1>2, <1>3, <1>4

\* A round looks only at places with less left.
LEMMA RoundIsLocal ==
    ASSUME NEW S, NEW h \in Seq(S), NEW o \in Seq(S), NEW f, NEW g, NEW p \in Places(h, o),
           \A q \in Places(h, o) : Left(h, o, q) < Left(h, o, p) => f[q] = g[q]
    PROVE  Round(h, o, f, p) = Round(h, o, g, p)
<1> DEFINE i == p[1]
           j == p[2]
<1>1. p = <<i, j>> /\ i \in 1 .. Len(h) + 1 /\ j \in 1 .. Len(o) + 1 /\ Len(h) \in Nat /\ Len(o) \in Nat
  BY LenProperties DEF Places
<1> QED
  <2>1. CASE i > Len(h)
    BY <2>1 DEF Round
  <2>2. CASE i <= Len(h) /\ j > Len(o)
    BY <2>2, <1>1 DEF Round
  <2>3. CASE i <= Len(h) /\ j <= Len(o)
    <3>1. /\ f[<<i + 1, j>>] = g[<<i + 1, j>>]
          /\ f[<<i, j + 1>>] = g[<<i, j + 1>>]
          /\ f[<<i + 1, j + 1>>] = g[<<i + 1, j + 1>>]
      BY <2>3, NextPlaces
    <3> QED BY <3>1, Zenon DEF Round
  <2> QED BY <2>1, <2>2, <2>3, <1>1

\* The loop of History.Merge ends: there is a function that satisfies the
\* equation of MergeHistory.
LEMMA MergeExists ==
    ASSUME NEW S, NEW h \in Seq(S), NEW o \in Seq(S)
    PROVE  \E f : IsMerge(h, o, f)
<1> DEFINE D == Places(h, o)
           Good(f, k) == /\ f = [p \in D |-> f[p]]
                         /\ \A p \in D : Left(h, o, p) < k => f[p] = Round(h, o, f, p)
           Bad == {k \in Nat : ~ \E f : Good(f, k)}
<1>1. \A p \in D : Left(h, o, p) \in Nat /\ Left(h, o, p) < Len(h) + Len(o) + 1
  BY LenProperties DEF Places, Left
<1>2. ASSUME Bad # {} PROVE FALSE
  <2>1. PICK x \in Bad : \A y \in Bad : x <= y
    <3>1. Bad \in SUBSET Nat
      OBVIOUS
    <3> QED BY <1>2, <3>1, Least
  <2>2. x # 0
    <3>1. Good([p \in D |-> << >>], 0)
      BY <1>1
    <3> QED BY <3>1, <2>1
  <2>3. x \in Nat /\ x - 1 \in Nat /\ x - 1 \notin Bad
    BY <2>1, <2>2
  <2>4. PICK f : Good(f, x - 1)
    BY <2>3
  <2> DEFINE g == [p \in D |-> IF Left(h, o, p) = x - 1 THEN Round(h, o, f, p) ELSE f[p]]
  <2>5. ASSUME NEW p \in D, Left(h, o, p) < x
        PROVE  g[p] = Round(h, o, g, p)
    <3>1. \A q \in D : Left(h, o, q) < Left(h, o, p) => f[q] = g[q]
      BY <1>1, <2>3, <2>5
    <3>2. Round(h, o, f, p) = Round(h, o, g, p)
      <4> HIDE DEF g, D
      <4>1. \A q \in Places(h, o) : Left(h, o, q) < Left(h, o, p) => f[q] = g[q]
        BY <3>1 DEF D
      <4>2. p \in Places(h, o)
        BY DEF D
      <4> QED BY <4>1, <4>2, RoundIsLocal
    <3>3. g[p] = Round(h, o, f, p)
      BY <1>1, <2>3, <2>4, <2>5
    <3> QED BY <3>2, <3>3
  <2>6. Good(g, x)
    BY <2>5
  <2> QED BY <2>6, <2>1
<1>3. PICK f : Good(f, Len(h) + Len(o) + 1)
  BY <1>2, LenProperties
<1>4. \A p \in D : f[p] = Round(h, o, f, p)
  BY <1>1, <1>3
<1>5. IsMerge(h, o, f)
  BY <1>3, <1>4, Zenon DEF IsMerge
<1> QED BY <1>5

\* A check put in front of later ones.
LEMMA FrontOrdered ==
    ASSUME NEW S \in SUBSET Check, NEW c \in S, NEW m \in Seq(S), Ordered(m),
           \A k \in 1 .. Len(m) : c.ts < m[k].ts
    PROVE  /\ <<c>> \o m \in Seq(S)
           /\ Ordered(<<c>> \o m)
           /\ \A k \in 1 .. Len(<<c>> \o m) : c.ts <= (<<c>> \o m)[k].ts
<1>1. <<c>> \in Seq(S) /\ Len(<<c>>) = 1 /\ <<c>>[1] = c /\ c.ts \in Nat
  BY DEF Check
<1> DEFINE s == <<c>> \o m
<1>2. /\ s \in Seq(S)
      /\ Len(s) = 1 + Len(m)
      /\ Len(m) \in Nat
      /\ \A i \in 1 .. 1 + Len(m) : s[i] = IF i <= 1 THEN <<c>>[i] ELSE m[i - 1]
  BY <1>1, ConcatProperties, LenProperties
<1>3. s[1] = c /\ \A i \in 2 .. 1 + Len(m) : i - 1 \in 1 .. Len(m) /\ s[i] = m[i - 1]
  BY <1>1, <1>2
<1> HIDE DEF s
<1>4. \A k \in 1 .. Len(m) : m[k].ts \in Nat
  BY LenProperties DEF Check
<1>5. Ordered(s)
  <2> SUFFICES ASSUME NEW i \in 1 .. Len(s), NEW j \in 1 .. Len(s), i < j
               PROVE  s[i].ts < s[j].ts
    BY DEF Ordered
  <2>1. CASE i = 1
    <3>1. j \in 2 .. 1 + Len(m)
      BY <2>1, <1>2
    <3>2. j - 1 \in 1 .. Len(m) /\ s[j] = m[j - 1] /\ s[i] = c
      BY <3>1, <2>1, <1>3
    <3> QED BY <3>2
  <2>2. CASE i # 1
    <3>1. i - 1 \in 1 .. Len(m) /\ j - 1 \in 1 .. Len(m) /\ i - 1 < j - 1 /\ s[i] = m[i - 1] /\ s[j] = m[j - 1]
      BY <2>2, <1>2, <1>3
    <3> QED BY <3>1 DEF Ordered
  <2> QED BY <2>1, <2>2
<1>6. \A k \in 1 .. Len(s) : c.ts <= s[k].ts
  <2> TAKE k \in 1 .. Len(s)
  <2>1. CASE k = 1
    BY <2>1, <1>1, <1>3
  <2>2. CASE k # 1
    <3>1. k \in 2 .. 1 + Len(m)
      BY <2>2, <1>2
    <3>2. k - 1 \in 1 .. Len(m) /\ s[k] = m[k - 1]
      BY <3>1, <1>3
    <3>3. c.ts < m[k - 1].ts /\ m[k - 1].ts \in Nat
      BY <3>2, <1>4
    <3> QED BY <3>2, <3>3, <1>1
  <2> QED BY <2>1, <2>2
<1> QED BY <1>2, <1>5, <1>6 DEF s

\* The rest of a history in order is in order, and not before its first check.
LEMMA RestOrdered ==
    ASSUME NEW S \in SUBSET Check, NEW h \in Seq(S), Ordered(h), NEW i \in 1 .. Len(h) + 1
    PROVE  LET m == SubSeq(h, i, Len(h)) IN
           /\ m \in Seq(S) /\ Ordered(m)
           /\ \A k \in 1 .. Len(m) : i <= Len(h) /\ h[i].ts <= m[k].ts
<1> DEFINE m == SubSeq(h, i, Len(h))
<1>1. Len(h) \in Nat /\ \A k \in 1 .. Len(h) : h[k] \in S /\ h[k].ts \in Nat
  BY LenProperties DEF Check
<1>2. /\ m \in Seq(S)
      /\ Len(m) = IF i <= Len(h) THEN Len(h) - i + 1 ELSE 0
      /\ \A k \in 1 .. Len(h) - i + 1 : m[k] = h[i + k - 1]
  <2>1. \A k \in i .. Len(h) : h[k] \in S
    BY <1>1
  <2>2. i \in Int /\ Len(h) \in Int
    BY <1>1
  <2> QED BY <2>1, <2>2, SubSeqProperties
<1>3. \A k \in 1 .. Len(m) : i + k - 1 \in 1 .. Len(h) /\ m[k] = h[i + k - 1] /\ i <= Len(h)
  BY <1>1, <1>2
<1>5. Len(m) \in Nat
  BY <1>1, <1>2
<1> HIDE DEF m
<1>4. Ordered(m)
  <2> SUFFICES ASSUME NEW k \in 1 .. Len(m), NEW l \in 1 .. Len(m), k < l
               PROVE  m[k].ts < m[l].ts
    BY DEF Ordered
  <2>1. /\ i + k - 1 \in 1 .. Len(h) /\ m[k] = h[i + k - 1]
        /\ i + l - 1 \in 1 .. Len(h) /\ m[l] = h[i + l - 1]
    BY <1>3
  <2>2. i + k - 1 < i + l - 1
    BY <1>5
  <2>3. h[i + k - 1].ts < h[i + l - 1].ts
    BY <2>1, <2>2 DEF Ordered
  <2> QED BY <2>1, <2>3
<1>6. \A k \in 1 .. Len(m) : h[i].ts <= m[k].ts
  <2> TAKE k \in 1 .. Len(m)
  <2>1. CASE k = 1
    BY <2>1, <1>1, <1>3, <1>5
  <2>2. CASE k # 1
    <3>1. i \in 1 .. Len(h) /\ i + k - 1 \in 1 .. Len(h) /\ i < i + k - 1
      BY <2>2, <1>1, <1>3, <1>5
    <3>2. h[i].ts < h[i + k - 1].ts
      BY <3>1 DEF Ordered
    <3>3. m[k] = h[i + k - 1] /\ h[i].ts \in Nat /\ h[i + k - 1].ts \in Nat
      BY <3>1, <1>1, <1>3
    <3> DEFINE x == h[i].ts
               y == h[i + k - 1].ts
    <3>4. x \in Int /\ y \in Int /\ x < y /\ m[k].ts = y
      BY <3>2, <3>3
    <3> HIDE DEF x, y
    <3>5. x <= m[k].ts
      BY <3>4
    <3> QED BY <3>5 DEF x
  <2> QED BY <2>1, <2>2
<1> QED BY <1>2, <1>3, <1>4, <1>6 DEF m

\* What the loop has merged from a place on: checks of the two histories, in
\* order, none before both checks at that place.
MergedFrom(S, h, o, m, p) ==
    /\ m \in Seq(S) /\ Ordered(m)
    /\ \A k \in 1 .. Len(m) : \/ p[1] <= Len(h) /\ h[p[1]].ts <= m[k].ts
                              \/ p[2] <= Len(o) /\ o[p[2]].ts <= m[k].ts

\* Two histories in order, in which checks of the same time are the same, are
\* merged to one history in order (History.Merge).
LEMMA MergeOrdered ==
    ASSUME NEW S, Distinct(S), NEW h \in Seq(S), NEW o \in Seq(S), Ordered(h), Ordered(o)
    PROVE  MergeHistory(h, o) \in Seq(S) /\ Ordered(MergeHistory(h, o))
<1>1. PICK f : IsMerge(h, o, f) /\ MergeHistory(h, o) = f[<<1, 1>>]
  BY MergeExists, MergeByRounds
<1> DEFINE D == Places(h, o)
           Bad == {k \in Nat : \E p \in D : Left(h, o, p) = k /\ ~ MergedFrom(S, h, o, f[p], p)}
<1>2. /\ S \in SUBSET Check /\ Len(h) \in Nat /\ Len(o) \in Nat
      /\ \A k \in 1 .. Len(h) : h[k] \in S /\ h[k].ts \in Nat
      /\ \A k \in 1 .. Len(o) : o[k] \in S /\ o[k].ts \in Nat
  BY LenProperties DEF Distinct, Check
<1>3. \A p \in D : Left(h, o, p) \in Nat
  BY <1>2 DEF Places, Left
<1>4. ASSUME Bad # {} PROVE FALSE
  <2>1. PICK x \in Bad : \A y \in Bad : x <= y
    <3>1. Bad \in SUBSET Nat
      OBVIOUS
    <3> QED BY <1>4, <3>1, Least
  <2>2. PICK p \in D : Left(h, o, p) = x /\ ~ MergedFrom(S, h, o, f[p], p)
    BY <2>1
  <2>3. ASSUME NEW q \in D, Left(h, o, q) < Left(h, o, p)
        PROVE  MergedFrom(S, h, o, f[q], q)
    <3>1. Left(h, o, q) \notin Bad
      BY <2>1, <2>2, <2>3, <1>3
    <3> QED BY <3>1, <1>3
  <2> DEFINE i == p[1]
             j == p[2]
  <2>4. p = <<i, j>> /\ i \in 1 .. Len(h) + 1 /\ j \in 1 .. Len(o) + 1
    BY DEF Places
  <2>5. f[p] = Round(h, o, f, p)
    BY <1>1 DEF IsMerge
  <2> HIDE DEF D, Bad
  <2>6. CASE i > Len(h)
    <3>1. f[p] = SubSeq(o, j, Len(o))
      BY <2>5, <2>6 DEF Round
    <3> QED BY <3>1, <2>2, <2>4, <1>2, RestOrdered DEF MergedFrom
  <2>7. CASE i <= Len(h) /\ j > Len(o)
    <3>1. f[p] = SubSeq(h, i, Len(h))
      <4>1. ~ (i > Len(h)) /\ j > Len(o)
        BY <2>7, <2>4, <1>2
      <4> QED BY <4>1, <2>5, Zenon DEF Round
    <3> QED BY <3>1, <2>2, <2>4, <1>2, RestOrdered DEF MergedFrom
  <2>8. CASE i <= Len(h) /\ j <= Len(o)
    <3>1. /\ i \in 1 .. Len(h) /\ j \in 1 .. Len(o)
          /\ h[i] \in S /\ o[j] \in S /\ h[i].ts \in Nat /\ o[j].ts \in Nat
          /\ i + 1 <= Len(h) => h[i].ts < h[i + 1].ts /\ h[i + 1].ts \in Nat
          /\ j + 1 <= Len(o) => o[j].ts < o[j + 1].ts /\ o[j + 1].ts \in Nat
      <4>1. i \in 1 .. Len(h) /\ j \in 1 .. Len(o)
        BY <2>8, <2>4, <1>2
      <4>2. i + 1 <= Len(h) => i + 1 \in 1 .. Len(h) /\ i < i + 1
        BY <4>1, <1>2
      <4>3. j + 1 <= Len(o) => j + 1 \in 1 .. Len(o) /\ j < j + 1
        BY <4>1, <1>2
      <4> QED BY <4>1, <4>2, <4>3, <1>2 DEF Ordered
    <3>2. /\ MergedFrom(S, h, o, f[<<i + 1, j>>], <<i + 1, j>>)
          /\ MergedFrom(S, h, o, f[<<i, j + 1>>], <<i, j + 1>>)
          /\ MergedFrom(S, h, o, f[<<i + 1, j + 1>>], <<i + 1, j + 1>>)
      <4>1. /\ <<i + 1, j>> \in D /\ Left(h, o, <<i + 1, j>>) < Left(h, o, p)
            /\ <<i, j + 1>> \in D /\ Left(h, o, <<i, j + 1>>) < Left(h, o, p)
            /\ <<i + 1, j + 1>> \in D /\ Left(h, o, <<i + 1, j + 1>>) < Left(h, o, p)
        BY <2>8, NextPlaces DEF D
      <4> QED BY <4>1, <2>3
    <3> HIDE DEF i, j
    <3>3. CASE h[i].ts < o[j].ts
      <4> DEFINE m == f[<<i + 1, j>>]
      <4>1. f[p] = <<h[i]>> \o m
        BY <2>5, <3>3, <3>1, <1>2 DEF Round, i, j
      <4>2. /\ m \in Seq(S) /\ Ordered(m)
            /\ \A k \in 1 .. Len(m) : h[i].ts < m[k].ts
        <5>1. m \in Seq(S) /\ Ordered(m)
          BY <3>2 DEF MergedFrom
        <5>2. \A k \in 1 .. Len(m) : m[k].ts \in Nat
          BY <5>1, LenProperties, <1>2 DEF Check
        <5>3. \A k \in 1 .. Len(m) : \/ i + 1 <= Len(h) /\ h[i + 1].ts <= m[k].ts
                                     \/ j <= Len(o) /\ o[j].ts <= m[k].ts
          BY <3>2 DEF MergedFrom
        <5>4. ASSUME NEW k \in 1 .. Len(m) PROVE h[i].ts < m[k].ts
          <6>1. m[k].ts \in Nat
            BY <5>2
          <6>2. CASE i + 1 <= Len(h) /\ h[i + 1].ts <= m[k].ts
            BY <6>1, <6>2, <3>1, <3>3, Between
          <6>3. CASE j <= Len(o) /\ o[j].ts <= m[k].ts
            BY <6>1, <6>3, <3>1, <3>3, Between
          <6> QED BY <6>2, <6>3, <5>3
        <5> QED BY <5>1, <5>4
      <4> HIDE DEF m
      <4>3. f[p] \in Seq(S) /\ Ordered(f[p]) /\ \A k \in 1 .. Len(f[p]) : h[i].ts <= f[p][k].ts
        BY <4>1, <4>2, <3>1, <1>2, FrontOrdered
      <4> QED BY <4>3, <2>2, <2>8 DEF MergedFrom, i, j
    <3>4. CASE o[j].ts < h[i].ts
      <4> DEFINE m == f[<<i, j + 1>>]
      <4>1. f[p] = <<o[j]>> \o m
        <5>1. ~ (i > Len(h)) /\ ~ (j > Len(o)) /\ ~ (h[i].ts < o[j].ts)
          BY <3>4, <3>1, <1>2
        <5> QED BY <5>1, <2>5, <3>4, Zenon DEF Round, i, j
      <4>2. /\ m \in Seq(S) /\ Ordered(m)
            /\ \A k \in 1 .. Len(m) : o[j].ts < m[k].ts
        <5>1. m \in Seq(S) /\ Ordered(m)
          BY <3>2 DEF MergedFrom
        <5>2. \A k \in 1 .. Len(m) : m[k].ts \in Nat
          BY <5>1, LenProperties, <1>2 DEF Check
        <5>3. \A k \in 1 .. Len(m) : \/ i <= Len(h) /\ h[i].ts <= m[k].ts
                                     \/ j + 1 <= Len(o) /\ o[j + 1].ts <= m[k].ts
          BY <3>2 DEF MergedFrom
        <5>4. ASSUME NEW k \in 1 .. Len(m) PROVE o[j].ts < m[k].ts
          <6>1. m[k].ts \in Nat
            BY <5>2
          <6>2. CASE i <= Len(h) /\ h[i].ts <= m[k].ts
            BY <6>1, <6>2, <3>1, <3>4, Between
          <6>3. CASE j + 1 <= Len(o) /\ o[j + 1].ts <= m[k].ts
            BY <6>1, <6>3, <3>1, <3>4, Between
          <6> QED BY <6>2, <6>3, <5>3
        <5> QED BY <5>1, <5>4
      <4> HIDE DEF m
      <4>3. f[p] \in Seq(S) /\ Ordered(f[p]) /\ \A k \in 1 .. Len(f[p]) : o[j].ts <= f[p][k].ts
        BY <4>1, <4>2, <3>1, <1>2, FrontOrdered
      <4> QED BY <4>3, <2>2, <2>8 DEF MergedFrom, i, j
    <3>5. CASE h[i].ts = o[j].ts
      <4> DEFINE m == f[<<i + 1, j + 1>>]
      <4>1. f[p] = <<h[i]>> \o m
        <5>1. h[i] = o[j]
          BY <3>1, <3>5 DEF Distinct
        <5> QED BY <5>1, <2>5, <3>5, <3>1, <1>2 DEF Round, i, j
      <4>2. /\ m \in Seq(S) /\ Ordered(m)
            /\ \A k \in 1 .. Len(m) : h[i].ts < m[k].ts
        <5>1. m \in Seq(S) /\ Ordered(m)
          BY <3>2 DEF MergedFrom
        <5>2. \A k \in 1 .. Len(m) : m[k].ts \in Nat
          BY <5>1, LenProperties, <1>2 DEF Check
        <5>3. \A k \in 1 .. Len(m) : \/ i + 1 <= Len(h) /\ h[i + 1].ts <= m[k].ts
                                     \/ j + 1 <= Len(o) /\ o[j + 1].ts <= m[k].ts
          BY <3>2 DEF MergedFrom
        <5>4. ASSUME NEW k \in 1 .. Len(m) PROVE h[i].ts < m[k].ts
          <6>1. m[k].ts \in Nat
            BY <5>2
          <6>2. CASE i + 1 <= Len(h) /\ h[i + 1].ts <= m[k].ts
            BY <6>1, <6>2, <3>1, <3>5, Between
          <6>3. CASE j + 1 <= Len(o) /\ o[j + 1].ts <= m[k].ts
            BY <6>1, <6>3, <3>1, <3>5, Between
          <6> QED BY <6>2, <6>3, <5>3
        <5> QED BY <5>1, <5>4
      <4> HIDE DEF m
      <4>3. f[p] \in Seq(S) /\ Ordered(f[p]) /\ \A k \in 1 .. Len(f[p]) : h[i].ts <= f[p][k].ts
        BY <4>1, <4>2, <3>1, <1>2, FrontOrdered
      <4> QED BY <4>3, <2>2, <2>8 DEF MergedFrom, i, j
    <3> QED BY <3>1, <3>3, <3>4, <3>5
  <2> QED BY <2>4, <2>6, <2>7, <2>8, <1>2
<1>5. <<1, 1>> \in D
  BY <1>2 DEF Places
<1>6. MergedFrom(S, h, o, f[<<1, 1>>], <<1, 1>>)
  BY <1>3, <1>4, <1>5
<1> QED BY <1>1, <1>6 DEF MergedFrom

\* How many checks are up to a time is at most how many there are.
LEMMA UpToBounded ==
    ASSUME NEW S, NEW h \in Seq(S), NEW t
    PROVE  UpTo(h, t) \in 0 .. Len(h)
<1> DEFINE T == {i \in DOMAIN h : h[i].ts <= t}
<1>1. Len(h) \in Nat /\ DOMAIN h = 1 .. Len(h)
  BY LenProperties
<1>2. IsFiniteSet(1 .. Len(h)) /\ Cardinality(1 .. Len(h)) = Len(h)
  BY <1>1, FS_Interval
<1>3. T \subseteq 1 .. Len(h)
  BY <1>1
<1> HIDE DEF T
<1>4. IsFiniteSet(T) /\ Cardinality(T) <= Cardinality(1 .. Len(h))
  BY <1>2, <1>3, FS_Subset
<1>5. Cardinality(T) \in Nat
  BY <1>4, FS_CardinalityType
<1> QED BY <1>1, <1>2, <1>4, <1>5 DEF UpTo, T

\* In a history in order they are its first ones.
LEMMA UpToSplits ==
    ASSUME NEW S \in SUBSET Check, NEW h \in Seq(S), Ordered(h), NEW t \in Int
    PROVE  /\ \A i \in 1 .. UpTo(h, t) : h[i].ts <= t
           /\ \A i \in UpTo(h, t) + 1 .. Len(h) : t < h[i].ts
<1> DEFINE T == {i \in DOMAIN h : h[i].ts <= t}
           B == {i \in 1 .. Len(h) + 1 : i = Len(h) + 1 \/ t < h[i].ts}
<1>1. /\ Len(h) \in Nat /\ DOMAIN h = 1 .. Len(h)
      /\ \A i \in 1 .. Len(h) : h[i].ts \in Nat
  BY LenProperties DEF Check
<1>2. PICK m \in B : \A y \in B : m <= y
  <2>1. B \in SUBSET Nat /\ Len(h) + 1 \in B
    BY <1>1
  <2> QED BY <2>1, Least
<1>3. m \in 1 .. Len(h) + 1
  BY <1>2
<1>4. \A i \in 1 .. m - 1 : i \in 1 .. Len(h) /\ h[i].ts <= t
  BY <1>1, <1>2, <1>3
<1>5. \A i \in m .. Len(h) : i \in 1 .. Len(h) /\ t < h[i].ts
  <2> TAKE i \in m .. Len(h)
  <2>1. i \in 1 .. Len(h) /\ m \in 1 .. Len(h) /\ m <= i /\ m # Len(h) + 1
    BY <1>1, <1>3
  <2>2. t < h[m].ts
    BY <2>1, <1>2
  <2>3. CASE i = m
    BY <2>1, <2>2, <2>3
  <2>4. CASE i # m
    <3>1. h[m].ts < h[i].ts
      BY <2>1, <2>4 DEF Ordered
    <3>2. h[m].ts \in Int /\ h[i].ts \in Int
      BY <2>1, <1>1
    <3> QED BY <2>1, <2>2, <3>1, <3>2
  <2> QED BY <2>3, <2>4
<1>6. T = 1 .. m - 1
  <2>1. ASSUME NEW i \in T PROVE i \in 1 .. m - 1
    <3>1. i \in 1 .. Len(h) /\ h[i].ts <= t /\ h[i].ts \in Int
      BY <1>1
    <3>2. i \notin m .. Len(h)
      BY <3>1, <1>5
    <3> QED BY <3>1, <3>2, <1>1, <1>3
  <2>2. ASSUME NEW i \in 1 .. m - 1 PROVE i \in T
    BY <1>1, <1>4
  <2> QED BY <2>1, <2>2
<1>7. UpTo(h, t) = m - 1
  <2>1. Cardinality(1 .. m - 1) = m - 1
    BY <1>3, FS_Interval
  <2> QED BY <2>1, <1>6 DEF UpTo
<1> QED BY <1>3, <1>4, <1>5, <1>7

\* A check that is inserted takes its place in the order (History.Insert).
LEMMA InsertOrdered ==
    ASSUME NEW S, Distinct(S), NEW h \in Seq(S), Ordered(h), NEW c \in S
    PROVE  Insert(h, c) \in Seq(S) /\ Ordered(Insert(h, c))
<1>1. CASE c \in Range(h)
  BY <1>1 DEF Insert
<1>2. CASE c \notin Range(h)
  <2> DEFINE k == UpTo(h, c.ts)
             a == SubSeq(h, 1, k)
             b == SubSeq(h, k + 1, Len(h))
             front == a \o <<c>>
             all == front \o b
  <2>1. /\ S \in SUBSET Check /\ c.ts \in Nat /\ Len(h) \in Nat
        /\ DOMAIN h = 1 .. Len(h)
        /\ \A i \in 1 .. Len(h) : h[i] \in S /\ h[i].ts \in Nat /\ h[i] # c
    BY <1>2, LenProperties DEF Distinct, Check, Range
  <2>2. /\ k \in 0 .. Len(h)
        /\ \A i \in 1 .. k : h[i].ts < c.ts
        /\ \A i \in k + 1 .. Len(h) : c.ts < h[i].ts
    <3>1. k \in 0 .. Len(h)
      BY UpToBounded
    <3>2. c.ts \in Int
      BY <2>1
    <3>3. /\ \A i \in 1 .. k : h[i].ts <= c.ts
          /\ \A i \in k + 1 .. Len(h) : c.ts < h[i].ts
      BY <2>1, <3>2, UpToSplits
    <3> HIDE DEF k
    <3>4. ASSUME NEW i \in 1 .. k PROVE h[i].ts < c.ts
      <4>1. i \in 1 .. Len(h)
        BY <3>1, <2>1
      <4>2. h[i].ts # c.ts
        BY <4>1, <2>1 DEF Distinct
      <4>3. h[i].ts \in Int /\ h[i].ts <= c.ts
        BY <4>1, <2>1, <3>3
      <4> QED BY <4>2, <4>3, <2>1
    <3> QED BY <3>1, <3>3, <3>4
  <2> HIDE DEF k
  <2>3. a \in Seq(S) /\ Len(a) = k /\ \A i \in 1 .. k : a[i] = h[i]
    <3>1. \A i \in 1 .. k : h[i] \in S
      BY <2>1, <2>2
    <3>2. /\ a \in Seq(S)
          /\ Len(a) = IF 1 <= k THEN k - 1 + 1 ELSE 0
          /\ \A i \in 1 .. k - 1 + 1 : a[i] = h[1 + i - 1]
      BY <3>1, <2>2, SubSeqProperties
    <3> QED BY <3>2, <2>2
  <2>4. b \in Seq(S) /\ Len(b) = Len(h) - k /\ \A i \in 1 .. Len(h) - k : b[i] = h[k + i]
    <3>1. \A i \in k + 1 .. Len(h) : h[i] \in S
      BY <2>1, <2>2
    <3>2. /\ b \in Seq(S)
          /\ Len(b) = IF k + 1 <= Len(h) THEN Len(h) - (k + 1) + 1 ELSE 0
          /\ \A i \in 1 .. Len(h) - (k + 1) + 1 : b[i] = h[k + 1 + i - 1]
      BY <3>1, <2>1, <2>2, SubSeqProperties
    <3> HIDE DEF b
    <3>3. Len(b) = Len(h) - k
      <4>1. CASE k + 1 <= Len(h)
        <5>1. Len(b) = Len(h) - (k + 1) + 1
          BY <4>1, <3>2
        <5> QED BY <5>1, <2>1, <2>2
      <4>2. CASE ~ (k + 1 <= Len(h))
        <5>1. Len(b) = 0
          BY <4>2, <3>2, Zenon
        <5>2. k = Len(h)
          <6>1. k \in Int /\ k <= Len(h) /\ Len(h) \in Int
            BY <2>1, <2>2
          <6> QED BY <4>2, <6>1
        <5> QED BY <5>1, <5>2, <2>1
      <4> QED BY <4>1, <4>2
    <3>4. ASSUME NEW i \in 1 .. Len(h) - k PROVE b[i] = h[k + i]
      <4>1. i \in 1 .. Len(h) - (k + 1) + 1 /\ k + 1 + i - 1 = k + i
        BY <2>1, <2>2
      <4>2. b[i] = h[k + 1 + i - 1]
        BY <4>1, <3>2
      <4> QED BY <4>1, <4>2
    <3> QED BY <3>2, <3>3, <3>4
  <2> HIDE DEF a, b
  <2>5. /\ front \in Seq(S) /\ Len(front) = k + 1
        /\ \A i \in 1 .. k + 1 : front[i] = IF i <= k THEN h[i] ELSE c
    <3>1. <<c>> \in Seq(S) /\ Len(<<c>>) = 1 /\ <<c>>[1] = c
      OBVIOUS
    <3>2. /\ front \in Seq(S) /\ Len(front) = k + 1
          /\ \A i \in 1 .. k + 1 : front[i] = IF i <= k THEN a[i] ELSE <<c>>[i - k]
      BY <2>3, <3>1, ConcatProperties
    <3> HIDE DEF front
    <3>3. ASSUME NEW i \in 1 .. k + 1 PROVE front[i] = IF i <= k THEN h[i] ELSE c
      <4>1. CASE i <= k
        BY <4>1, <3>2, <2>2, <2>3
      <4>2. CASE i = k + 1
        <5>1. ~ (i <= k) /\ i - k = 1
          BY <4>2, <2>2
        <5> QED BY <5>1, <3>1, <3>2
      <4> QED BY <4>1, <4>2, <2>2
    <3> QED BY <3>2, <3>3
  <2> HIDE DEF front
  <2>6. /\ all \in Seq(S) /\ Len(all) = Len(h) + 1
        /\ \A i \in 1 .. Len(h) + 1 :
              all[i] = IF i <= k THEN h[i] ELSE IF i = k + 1 THEN c ELSE h[i - 1]
    <3>1. /\ all \in Seq(S) /\ Len(all) = k + 1 + (Len(h) - k)
          /\ \A i \in 1 .. k + 1 + (Len(h) - k) :
                all[i] = IF i <= k + 1 THEN front[i] ELSE b[i - (k + 1)]
      <4>1. /\ all \in Seq(S) /\ Len(all) = Len(front) + Len(b)
            /\ \A i \in 1 .. Len(front) + Len(b) :
                  all[i] = IF i <= Len(front) THEN front[i] ELSE b[i - Len(front)]
        BY <2>4, <2>5, ConcatProperties
      <4> HIDE DEF all
      <4> QED BY <4>1, <2>4, <2>5
    <3>2. k + 1 + (Len(h) - k) = Len(h) + 1
      BY <2>1, <2>2
    <3> HIDE DEF all
    <3>3. ASSUME NEW i \in 1 .. Len(h) + 1
          PROVE  all[i] = IF i <= k THEN h[i] ELSE IF i = k + 1 THEN c ELSE h[i - 1]
      <4>1. CASE i <= k + 1
        <5>1. i \in 1 .. k + 1 /\ all[i] = front[i]
          BY <4>1, <3>1, <3>2, <2>2
        <5> QED BY <5>1, <2>5, <2>2
      <4>2. CASE k + 1 < i
        <5>1. all[i] = b[i - (k + 1)] /\ i - (k + 1) \in 1 .. Len(h) - k /\ k + (i - (k + 1)) = i - 1
          <6>1. ~ (i <= k + 1) /\ i \in 1 .. k + 1 + (Len(h) - k)
            BY <4>2, <3>2, <2>1, <2>2
          <6>2. all[i] = b[i - (k + 1)]
            BY <6>1, <3>1
          <6>3. i - (k + 1) \in 1 .. Len(h) - k /\ k + (i - (k + 1)) = i - 1
            BY <4>2, <2>1, <2>2
          <6> QED BY <6>2, <6>3
        <5>2. b[i - (k + 1)] = h[i - 1]
          BY <5>1, <2>4
        <5> QED BY <5>1, <5>2, <4>2, <2>2
      <4> QED BY <4>1, <4>2, <2>2
    <3> QED BY <3>1, <3>2, <3>3
  <2>7. Insert(h, c) = all
    BY <1>2, Zenon DEF Insert, all, front, a, b, k
  <2> HIDE DEF all
  <2>8. Ordered(all)
    <3> SUFFICES ASSUME NEW i \in 1 .. Len(h) + 1, NEW j \in 1 .. Len(h) + 1, i < j
                 PROVE  all[i].ts < all[j].ts
      BY <2>6 DEF Ordered
    <3>1. CASE j <= k
      <4>1. i \in 1 .. Len(h) /\ j \in 1 .. Len(h) /\ all[i] = h[i] /\ all[j] = h[j]
        BY <3>1, <2>1, <2>2, <2>6
      <4> QED BY <4>1 DEF Ordered
    <3>2. CASE j = k + 1
      <4>1. i \in 1 .. k /\ all[i] = h[i] /\ all[j] = c
        BY <3>2, <2>1, <2>2, <2>6
      <4> QED BY <4>1, <2>2
    <3>3. CASE k + 1 < j /\ i <= k
      <4>1. i \in 1 .. Len(h) /\ j - 1 \in 1 .. Len(h) /\ i < j - 1 /\ all[i] = h[i] /\ all[j] = h[j - 1]
        BY <3>3, <2>1, <2>2, <2>6
      <4> QED BY <4>1 DEF Ordered
    <3>4. CASE k + 1 < j /\ i = k + 1
      <4>1. j - 1 \in k + 1 .. Len(h) /\ all[i] = c /\ all[j] = h[j - 1]
        BY <3>4, <2>1, <2>2, <2>6
      <4> QED BY <4>1, <2>2
    <3>5. CASE k + 1 < i
      <4>1. i - 1 \in 1 .. Len(h) /\ j - 1 \in 1 .. Len(h) /\ i - 1 < j - 1 /\ all[i] = h[i - 1] /\ all[j] = h[j - 1]
        BY <3>5, <2>1, <2>2, <2>6
      <4> QED BY <4>1 DEF Ordered
    <3> QED BY <3>1, <3>2, <3>3, <3>4, <3>5, <2>2
  <2> QED BY <2>6, <2>7, <2>8
<1> QED BY <1>1, <1>2

\* A grade other than unknown takes MinChecks checks (Grader.Grade).
LEMMA GradeNeedsChecks ==
    ASSUME NEW S, NEW h \in Seq(S), NEW t \in Int, Grade(h, t) = "ok"
    PROVE  Len(h) >= MinChecks
<1> DEFINE k == UpTo(h, t - MaxAge - 1)
           w == SubSeq(h, k + 1, Len(h))
<1>1. k \in 0 .. Len(h) /\ Len(h) \in Nat
  BY UpToBounded, LenProperties
<1>2. w = After(h, t - MaxAge)
  BY DEF After
<1> HIDE DEF k
<1>3. Len(w) = IF k + 1 <= Len(h) THEN Len(h) - (k + 1) + 1 ELSE 0
  <2>1. \A i \in k + 1 .. Len(h) : h[i] \in S
    BY <1>1, LenProperties
  <2> QED BY <2>1, <1>1, SubSeqProperties
<1> HIDE DEF w
<1>4. ~ (Len(w) < MinChecks)
  BY <1>2 DEF Grade
<1> QED BY <1>1, <1>3, <1>4, NodeStateAssumption
-----------------------------------------------------------------------------
(* What one router knows *)

\* A Go map from nodes to T, and a router's record.
Known(T) == UNION {[N -> T] : N \in SUBSET Nodes}
State == [agents : Known(Agent), health : Known(Seq(Check)),
          pending : [Nodes -> Nat], routing : SUBSET Nodes, up : BOOLEAN]

\* The maps as functions.
LEMMA KnownDef ==
    ASSUME NEW T, NEW f
    PROVE  f \in Known(T) <=> /\ f = [n \in DOMAIN f |-> f[n]]
                              /\ DOMAIN f \in SUBSET Nodes
                              /\ \A n \in DOMAIN f : f[n] \in T
<1>1. ASSUME f \in Known(T)
      PROVE  f = [n \in DOMAIN f |-> f[n]] /\ DOMAIN f \in SUBSET Nodes /\ \A n \in DOMAIN f : f[n] \in T
  <2>1. PICK N \in SUBSET Nodes : f \in [N -> T]
    BY <1>1 DEF Known
  <2> QED BY <2>1
<1>2. ASSUME f = [n \in DOMAIN f |-> f[n]], DOMAIN f \in SUBSET Nodes, \A n \in DOMAIN f : f[n] \in T
      PROVE  f \in Known(T)
  <2>1. f \in [DOMAIN f -> T]
    BY <1>2
  <2> QED BY <1>2, <2>1 DEF Known
<1> QED BY <1>1, <1>2

\* A map with a node less or more is a map.
LEMMA KnownWithout ==
    ASSUME NEW T, NEW f \in Known(T), NEW N, NEW g, g = Without(f, N)
    PROVE  g \in Known(T) /\ DOMAIN g = DOMAIN f \ N
<1>1. DOMAIN f \in SUBSET Nodes /\ \A n \in DOMAIN f : f[n] \in T
  BY KnownDef
<1>2. g = [n \in DOMAIN f \ N |-> f[n]]
  BY DEF Without, Restrict
<1>3. DOMAIN g = DOMAIN f \ N /\ \A n \in DOMAIN f \ N : g[n] = f[n]
  BY <1>2
<1>4. g = [n \in DOMAIN g |-> g[n]] /\ DOMAIN g \in SUBSET Nodes /\ \A n \in DOMAIN g : g[n] \in T
  BY <1>1, <1>2
<1>5. g \in Known(T)
  BY <1>4, KnownDef
<1> QED BY <1>3, <1>5

\* A map with a node more is a map.
LEMMA KnownWith ==
    ASSUME NEW T, NEW f \in Known(T), NEW n \in Nodes, NEW x \in T, NEW g, g = With(f, n, x)
    PROVE  g \in Known(T) /\ DOMAIN g = DOMAIN f \cup {n}
<1>1. DOMAIN f \in SUBSET Nodes /\ \A m \in DOMAIN f : f[m] \in T
  BY KnownDef
<1>2. g = [m \in DOMAIN f \cup {n} |-> IF m = n THEN x ELSE f[m]]
  BY DEF With
<1>3. DOMAIN g = DOMAIN f \cup {n} /\ g[n] = x /\ \A m \in DOMAIN f \ {n} : g[m] = f[m]
  BY <1>2
<1>4. g = [m \in DOMAIN g |-> g[m]] /\ DOMAIN g \in SUBSET Nodes /\ \A m \in DOMAIN g : g[m] \in T
  BY <1>1, <1>2
<1>5. g \in Known(T)
  BY <1>4, KnownDef
<1> QED BY <1>3, <1>5

\* What such a map holds for the other nodes, and for the new one.
LEMMA WithoutElement ==
    ASSUME NEW f, NEW N, NEW g, g = Without(f, N), NEW n \in DOMAIN f, n \notin N
    PROVE  g[n] = f[n]
BY DEF Without, Restrict

\* The same for a map with a node more.
LEMMA WithElement ==
    ASSUME NEW f, NEW n, NEW x, NEW g, g = With(f, n, x), NEW m \in DOMAIN f \cup {n}
    PROVE  g[m] = IF m = n THEN x ELSE f[m]
BY DEF With

\* The agents and the checks that a router may have heard of, for each node: the
\* checks of a node are of different times, and what two agents merge to is one
\* of them.
Hearsay(A, C) ==
    /\ A \in [Nodes -> SUBSET Agent]
    /\ \A n \in Nodes : \A a, b \in A[n] : MergeAgent(a, b) \in A[n]
    /\ C \in [Nodes -> SUBSET Check]
    /\ \A n \in Nodes : Distinct(C[n])

\* The router has heard of nothing else.
HeardOf(agents, health, A, C) ==
    /\ agents \in Known(Agent) /\ \A n \in DOMAIN agents : agents[n] \in A[n]
    /\ health \in Known(Seq(Check))
    /\ \A n \in DOMAIN health : health[n] \in Seq(C[n]) /\ Ordered(health[n])

Routable(s, n) ==
    /\ n \in DOMAIN s.agents /\ s.agents[n].info /\ ~ s.agents[n].shutdown
    /\ n \in DOMAIN s.health /\ Len(s.health[n]) >= MinChecks

\* A router that has heard of nothing else routes as it should, and evaluates
\* the agents it knows again.
Sound(s, A, C) ==
    /\ s \in State
    /\ HeardOf(s.agents, s.health, A, C)
    /\ \A n \in s.routing : Routable(s, n)
    /\ s.up => \A n \in DOMAIN s.agents : s.pending[n] > 0

\* Between a merge and the evaluation of the nodes it has changed.
Merged(s, A, C, nodes, schedule) ==
    /\ s \in State /\ nodes \in SUBSET Nodes
    /\ HeardOf(s.agents, s.health, A, C)
    /\ \A n \in s.routing \ nodes : Routable(s, n)
    /\ \A n \in DOMAIN s.agents : s.pending[n] > 0 \/ n \in schedule \cap nodes

\* An agent that is still known has not gone back.
Forward(s, t) ==
    \A n \in DOMAIN s.agents \cap DOMAIN t.agents :
        /\ s.agents[n].index <= t.agents[n].index
        /\ s.agents[n].info => t.agents[n].info

\* It knows no agents but these.
Fewer(e, s) ==
    /\ DOMAIN e.agents \subseteq DOMAIN s.agents
    /\ \A n \in DOMAIN e.agents : e.agents[n] = s.agents[n]

\* A node that is to be routed to has an agent with routing info, and checks.
LEMMA RouteIsRoutable ==
    ASSUME NEW s \in State, NEW n, NEW t \in Int, Evaluate(s, n, t) = "route"
    PROVE  Routable(s, n)
<1> DEFINE h == IF n \in DOMAIN s.health THEN s.health[n] ELSE << >>
<1>1. h \in Seq(Check)
  <2>1. s.health \in Known(Seq(Check))
    BY DEF State
  <2> QED BY <2>1, KnownDef
<1>2. /\ n \in DOMAIN s.agents /\ s.agents[n].info /\ ~ s.agents[n].shutdown
      /\ Grade(h, t) = "ok"
  BY DEF Evaluate
<1> HIDE DEF h
<1>3. Len(h) >= MinChecks
  BY <1>1, <1>2, GradeNeedsChecks
<1>4. n \in DOMAIN s.health
  <2>1. MinChecks > 0
    BY NodeStateAssumption
  <2>2. Len(<< >>) = 0
    BY EmptySeq
  <2> QED BY <1>3, <2>1, <2>2, NodeStateAssumption DEF h
<1> QED BY <1>2, <1>3, <1>4 DEF Routable, h

\* After the evaluation of what a merge has changed the router is as it should
\* be, and knows no more of the agents (evaluateRouterChange, evaluateNode).
LEMMA EvaluationSound ==
    ASSUME NEW A, NEW C, NEW s, NEW nodes, NEW schedule, NEW t \in Int,
           Merged(s, A, C, nodes, schedule), NEW e, e = evaluateNodes(s, nodes, schedule, t)
    PROVE  Sound(e, A, C) /\ Fewer(e, s)
<1> DEFINE verdicts == {<<n, Evaluate(s, n, t)>> : n \in nodes}
           evicted  == {n \in nodes : <<n, "evict">> \in verdicts}
           routed   == {n \in nodes : <<n, "route">> \in verdicts}
           panics   == \E n \in nodes : <<n, "panic">> \in verdicts
           pending  == [n \in Nodes |-> IF n \in (schedule \cap nodes) \ evicted
                                        THEN s.pending[n] + 1 ELSE s.pending[n]]
<1>1. /\ s \in State /\ nodes \in SUBSET Nodes
      /\ s.agents \in Known(Agent) /\ s.health \in Known(Seq(Check)) /\ s.pending \in [Nodes -> Nat]
      /\ s.routing \in SUBSET Nodes
      /\ DOMAIN s.agents \in SUBSET Nodes
  <2>1. s \in State /\ nodes \in SUBSET Nodes
    BY DEF Merged
  <2>2. s.agents \in Known(Agent) /\ s.health \in Known(Seq(Check)) /\ s.pending \in [Nodes -> Nat]
        /\ s.routing \in SUBSET Nodes
    BY <2>1 DEF State
  <2> QED BY <2>1, <2>2, KnownDef
<1>2. CASE panics
  <2>1. e = [s EXCEPT !.up = FALSE, !.routing = {}]
    BY <1>2 DEF evaluateNodes
  <2>2. e \in State
    BY <2>1, <1>1 DEF State
  <2>3. e.up = FALSE /\ e.routing = {} /\ e.agents = s.agents /\ e.health = s.health
    BY <2>1, <1>1 DEF State
  <2>4. Sound(e, A, C)
    BY <2>2, <2>3 DEF Sound, Merged
  <2> QED BY <2>3, <2>4 DEF Fewer
<1>3. CASE ~ panics
  <2>1. e = [s EXCEPT !.agents = Without(s.agents, evicted), !.health = Without(s.health, evicted),
                      !.pending = pending, !.routing = (s.routing \ nodes) \cup routed]
    BY <1>3 DEF evaluateNodes
  <2>2. \A n \in routed : Routable(s, n) /\ n \notin evicted
    <3> TAKE n \in routed
    <3>1. Evaluate(s, n, t) = "route"
      OBVIOUS
    <3>2. n \notin evicted
      BY <3>1
    <3> QED BY <3>1, <3>2, <1>1, RouteIsRoutable
  <2>3. evicted \in SUBSET nodes /\ routed \in SUBSET nodes
    OBVIOUS
  <2> HIDE DEF evicted, routed, verdicts, panics
  <2>4. /\ pending \in [Nodes -> Nat]
        /\ \A n \in Nodes : n \in (schedule \cap nodes) \ evicted => pending[n] > 0
        /\ \A n \in Nodes : s.pending[n] > 0 => pending[n] > 0
    BY <1>1
  <2>5. /\ e \in State
        /\ e.agents = Without(s.agents, evicted) /\ e.health = Without(s.health, evicted)
        /\ e.pending = pending /\ e.routing = (s.routing \ nodes) \cup routed
    <3>1. Without(s.agents, evicted) \in Known(Agent) /\ Without(s.health, evicted) \in Known(Seq(Check))
      BY <1>1, KnownWithout
    <3>2. (s.routing \ nodes) \cup routed \in SUBSET Nodes
      BY <1>1, <2>3
    <3> HIDE DEF pending
    <3> QED BY <2>1, <2>4, <3>1, <3>2, <1>1 DEF State
  <2> HIDE DEF pending
  <2>6. /\ DOMAIN e.agents = DOMAIN s.agents \ evicted
        /\ \A n \in DOMAIN s.agents \ evicted : e.agents[n] = s.agents[n]
        /\ DOMAIN e.health = DOMAIN s.health \ evicted
        /\ \A n \in DOMAIN s.health \ evicted : e.health[n] = s.health[n]
    <3>1. DOMAIN e.agents = DOMAIN s.agents \ evicted
      BY <2>5 DEF Without, Restrict
    <3>2. DOMAIN e.health = DOMAIN s.health \ evicted
      BY <2>5 DEF Without, Restrict
    <3>3. \A n \in DOMAIN s.agents \ evicted : e.agents[n] = s.agents[n]
      BY <2>5, WithoutElement
    <3>4. \A n \in DOMAIN s.health \ evicted : e.health[n] = s.health[n]
      BY <2>5, WithoutElement
    <3> QED BY <3>1, <3>2, <3>3, <3>4
  <2>7. HeardOf(e.agents, e.health, A, C)
    <3>1. e.agents \in Known(Agent) /\ e.health \in Known(Seq(Check))
      BY <2>5 DEF State
    <3>2. HeardOf(s.agents, s.health, A, C)
      BY DEF Merged
    <3> QED BY <3>1, <3>2, <2>6 DEF HeardOf
  <2>8. \A n \in e.routing : Routable(e, n)
    <3> TAKE n \in e.routing
    <3>1. Routable(s, n) /\ n \notin evicted
      <4>1. CASE n \in routed
        BY <4>1, <2>2
      <4>2. CASE n \in s.routing \ nodes
        BY <4>2, <2>3 DEF Merged
      <4> QED BY <4>1, <4>2, <2>5
    <3> QED BY <3>1, <2>6 DEF Routable
  <2>9. \A n \in DOMAIN e.agents : e.pending[n] > 0
    <3> TAKE n \in DOMAIN e.agents
    <3>1. n \in DOMAIN s.agents /\ n \notin evicted /\ n \in Nodes
      BY <2>6, <1>1
    <3>2. s.pending[n] > 0 \/ n \in schedule \cap nodes
      BY <3>1 DEF Merged
    <3> QED BY <3>1, <3>2, <2>4, <2>5
  <2> QED BY <2>5, <2>6, <2>7, <2>8, <2>9 DEF Sound, Fewer
<1> QED BY <1>2, <1>3

\* The router's fields, one by one.
LEMMA StateFields ==
    ASSUME NEW s \in State
    PROVE  /\ s.agents \in Known(Agent) /\ s.health \in Known(Seq(Check))
           /\ s.pending \in [Nodes -> Nat] /\ s.routing \in SUBSET Nodes
           /\ DOMAIN s.agents \in SUBSET Nodes /\ DOMAIN s.health \in SUBSET Nodes
           /\ \A n \in DOMAIN s.agents : s.agents[n] \in Agent
<1>1. /\ s.agents \in Known(Agent) /\ s.health \in Known(Seq(Check))
      /\ s.pending \in [Nodes -> Nat] /\ s.routing \in SUBSET Nodes
  BY DEF State
<1> QED BY <1>1, KnownDef

\* A merge of two agents goes forward.
LEMMA MergeGoesForward ==
    ASSUME NEW a \in Agent, NEW b \in Agent
    PROVE  a.index <= MergeAgent(a, b).index /\ (a.info => MergeAgent(a, b).info)
<1>1. CASE a.index < b.index
  BY <1>1 DEF MergeAgent, Agent
<1>2. CASE ~ (a.index < b.index)
  BY <1>2 DEF MergeAgent, Agent
<1> QED BY <1>1, <1>2

\* A node event (Router.MergeNodeEvent and its evaluation).
LEMMA EventSound ==
    ASSUME NEW A, NEW C, Hearsay(A, C), NEW s, Sound(s, A, C), s.up, NEW t \in Int,
           NEW e, e.node \in Nodes, FromEvent(e) \in A[e.node]
    PROVE  Sound(MergeNodeEvent(s, e, t), A, C) /\ Forward(s, MergeNodeEvent(s, e, t))
<1> DEFINE n == e.node
           known == n \in DOMAIN s.agents
           a == IF known THEN MergeAgent(s.agents[n], FromEvent(e)) ELSE FromEvent(e)
           agents == With(s.agents, n, a)
           m == [s EXCEPT !.agents = agents]
           new == IF known THEN {} ELSE {n}
           schedule == IF new # {} THEN new ELSE {}
           r == MergeNodeEvent(s, e, t)
<1>1. s \in State /\ HeardOf(s.agents, s.health, A, C) /\ \A k \in DOMAIN s.agents : s.pending[k] > 0
  BY DEF Sound
<1>2. a \in A[n] /\ a \in Agent /\ FromEvent(e) \in Agent
  BY <1>1 DEF Hearsay, HeardOf
<1>3. CASE known /\ a = s.agents[n]
  <2>1. r = s
    BY <1>3 DEF MergeNodeEvent
  <2>2. Forward(s, s)
    BY <1>1, StateFields DEF Forward, Agent
  <2> QED BY <2>1, <2>2
<1>4. CASE ~ (known /\ a = s.agents[n])
  <2>1. r = evaluateNodes(m, {n}, schedule, t)
    BY <1>4, Zenon DEF MergeNodeEvent, evaluateRouterChange
  <2>2. /\ agents \in Known(Agent) /\ DOMAIN agents = DOMAIN s.agents \cup {n}
        /\ agents[n] = a /\ \A k \in DOMAIN s.agents \ {n} : agents[k] = s.agents[k]
    <3> HIDE DEF a
    <3>1. s.agents \in Known(Agent) /\ n \in Nodes
      BY <1>1, StateFields
    <3>2. agents = With(s.agents, n, a)
      OBVIOUS
    <3> HIDE DEF agents, n
    <3>3. agents \in Known(Agent)
      BY <3>1, <3>2, <1>2, KnownWith
    <3>6. DOMAIN agents = DOMAIN s.agents \cup {n}
      BY <3>2 DEF With
    <3>4. agents[n] = a
      BY <3>2, WithElement
    <3>5. \A k \in DOMAIN s.agents \ {n} : agents[k] = s.agents[k]
      BY <3>2 DEF With
    <3> QED BY <3>3, <3>4, <3>5, <3>6
  <2>3. new = {n} <=> n \notin DOMAIN s.agents
    OBVIOUS
  <2>4. known => a = MergeAgent(s.agents[n], FromEvent(e))
    OBVIOUS
  <2>5. n \notin DOMAIN s.agents => n \in schedule
    OBVIOUS
  <2> HIDE DEF a, agents, r, schedule, new
  <2>6. m \in State /\ m.agents = agents /\ m.health = s.health /\ m.pending = s.pending /\ m.routing = s.routing
    BY <1>1, <2>2 DEF State
  <2> HIDE DEF m
  <2>7. HeardOf(m.agents, m.health, A, C)
    BY <1>1, <1>2, <2>2, <2>6 DEF HeardOf
  <2>8. Merged(m, A, C, {n}, schedule)
    <3>1. \A k \in m.routing \ {n} : Routable(m, k)
      <4> TAKE k \in m.routing \ {n}
      <4>1. Routable(s, k)
        BY <2>6 DEF Sound
      <4> QED BY <4>1, <2>2, <2>6 DEF Routable
    <3>2. \A k \in DOMAIN m.agents : m.pending[k] > 0 \/ k \in schedule \cap {n}
      <4> TAKE k \in DOMAIN m.agents
      <4>1. CASE k \in DOMAIN s.agents
        BY <4>1, <1>1, <2>6
      <4>2. CASE k \notin DOMAIN s.agents
        BY <4>2, <2>2, <2>5, <2>6
      <4> QED BY <4>1, <4>2
    <3> QED BY <2>6, <2>7, <3>1, <3>2 DEF Merged
  <2>9. /\ Sound(r, A, C)
        /\ DOMAIN r.agents \subseteq DOMAIN m.agents
        /\ \A k \in DOMAIN r.agents : r.agents[k] = m.agents[k]
    <3>1. Sound(r, A, C) /\ Fewer(r, m)
      BY <2>1, <2>8, EvaluationSound
    <3> QED BY <3>1 DEF Fewer
  <2>10. Forward(s, r)
    <3> SUFFICES ASSUME NEW k \in DOMAIN s.agents, k \in DOMAIN r.agents
                 PROVE  /\ s.agents[k].index <= r.agents[k].index
                        /\ s.agents[k].info => r.agents[k].info
      BY DEF Forward
    <3>1. s.agents[k] \in Agent /\ r.agents[k] = agents[k]
      BY <1>1, <2>6, <2>9, StateFields
    <3>2. CASE k = n
      <4>1. r.agents[k] = MergeAgent(s.agents[k], FromEvent(e))
        BY <3>1, <3>2, <2>2, <2>4
      <4> QED BY <4>1, <3>1, <1>2, MergeGoesForward
    <3>3. CASE k # n
      BY <3>1, <3>3, <2>2 DEF Agent
    <3> QED BY <3>2, <3>3
  <2> QED BY <2>9, <2>10 DEF r
<1> QED BY <1>3, <1>4

\* A check (Router.MergeHealthcheck and its evaluation).
LEMMA CheckSound ==
    ASSUME NEW A, NEW C, Hearsay(A, C), NEW s, Sound(s, A, C), s.up, NEW t \in Int,
           NEW n \in Nodes, NEW c \in C[n]
    PROVE  Sound(MergeHealthcheck(s, n, c, t), A, C) /\ Forward(s, MergeHealthcheck(s, n, c, t))
<1> DEFINE known == n \in DOMAIN s.health
           h == IF known THEN Insert(s.health[n], c) ELSE <<c>>
           health == With(s.health, n, h)
           m == [s EXCEPT !.health = health]
           new == IF known THEN {} ELSE {n}
           schedule == IF {} # {} THEN {} ELSE new
           r == MergeHealthcheck(s, n, c, t)
<1>1. /\ s \in State /\ HeardOf(s.agents, s.health, A, C)
      /\ \A k \in DOMAIN s.agents : s.pending[k] > 0
  BY DEF Sound
<1>2. Forward(s, s)
  BY <1>1, StateFields DEF Forward, Agent
<1>3. CASE known /\ Len(h) = Len(s.health[n])
  <2>1. r = s
    BY <1>3 DEF MergeHealthcheck
  <2> QED BY <2>1, <1>2
<1>4. CASE ~ (known /\ Len(h) = Len(s.health[n]))
  <2>1. r = evaluateNodes(m, {n}, schedule, t)
    BY <1>4, Zenon DEF MergeHealthcheck, evaluateRouterChange
  <2>2. h \in Seq(C[n]) /\ Ordered(h)
    <3>1. Distinct(C[n])
      BY DEF Hearsay
    <3>2. CASE known
      <4>1. s.health[n] \in Seq(C[n]) /\ Ordered(s.health[n])
        BY <3>2, <1>1 DEF HeardOf
      <4> QED BY <3>1, <3>2, <4>1, InsertOrdered
    <3>3. CASE ~ known
      <4>1. h = <<c>>
        BY <3>3
      <4>2. <<c>> \in Seq(C[n]) /\ Len(<<c>>) = 1
        <5> DEFINE S == C[n]
        <5>1. c \in S
          OBVIOUS
        <5> HIDE DEF S
        <5>2. <<c>> \in Seq(S) /\ Len(<<c>>) = 1
          BY <5>1
        <5> QED BY <5>2 DEF S
      <4>3. \A i, j \in 1 .. 1 : ~ (i < j)
        OBVIOUS
      <4>4. Ordered(<<c>>)
        BY <4>2, <4>3 DEF Ordered
      <4> QED BY <4>1, <4>2, <4>4
    <3> QED BY <3>2, <3>3
  <2>3. h \in Seq(Check)
    <3>1. C[n] \subseteq Check
      BY DEF Hearsay
    <3> HIDE DEF h
    <3> QED BY <2>2, <3>1, SeqMonotonic
  <2> HIDE DEF h, r, schedule
  <2>4. health \in Known(Seq(Check))
    <3>1. s.health \in Known(Seq(Check))
      BY <1>1, StateFields
    <3> QED BY <3>1, <2>3, KnownWith
  <2>5. DOMAIN health = DOMAIN s.health \cup {n} /\ health[n] = h
    BY DEF With
  <2>6. \A k \in DOMAIN s.health \ {n} : health[k] = s.health[k]
    BY DEF With
  <2> HIDE DEF health
  <2>7. m \in State /\ m.agents = s.agents /\ m.health = health /\ m.pending = s.pending /\ m.routing = s.routing
    BY <1>1, <2>4 DEF State
  <2> HIDE DEF m
  <2>8. HeardOf(m.agents, m.health, A, C)
    <3>1. \A k \in DOMAIN health : health[k] \in Seq(C[k]) /\ Ordered(health[k])
      BY <1>1, <2>2, <2>5, <2>6 DEF HeardOf
    <3> QED BY <1>1, <2>4, <2>7, <3>1 DEF HeardOf
  <2>9. Merged(m, A, C, {n}, schedule)
    <3>1. \A k \in m.routing \ {n} : Routable(m, k)
      <4> TAKE k \in m.routing \ {n}
      <4>1. Routable(s, k)
        BY <2>7 DEF Sound
      <4> QED BY <4>1, <2>5, <2>6, <2>7 DEF Routable
    <3> QED BY <1>1, <2>7, <2>8, <3>1 DEF Merged
  <2>10. Sound(r, A, C) /\ Fewer(r, m)
    BY <2>1, <2>9, EvaluationSound
  <2>11. Forward(s, r)
    BY <1>2, <2>7, <2>10 DEF Forward, Fewer
  <2> QED BY <2>10, <2>11 DEF r
<1> QED BY <1>3, <1>4

\* The state of another router (Router.MergeState and its evaluation).
LEMMA OtherSound ==
    ASSUME NEW A, NEW C, Hearsay(A, C), NEW s, Sound(s, A, C), s.up, NEW t \in Int,
           NEW other, HeardOf(other.agents, other.health, A, C)
    PROVE  Sound(MergeState(s, other, t), A, C) /\ Forward(s, MergeState(s, other, t))
<1> DEFINE K == DOMAIN s.agents    B == DOMAIN other.agents
           H == DOMAIN s.health    I == DOMAIN other.health
           agents == [n \in K \cup B |->
                         IF n \notin B THEN s.agents[n]
                         ELSE IF n \in K THEN MergeAgent(s.agents[n], other.agents[n])
                         ELSE other.agents[n]]
           health == [n \in H \cup I |->
                         IF n \notin I THEN s.health[n]
                         ELSE IF n \in H THEN MergeHealth(s.health[n], other.health[n])
                         ELSE other.health[n]]
           updated == {n \in K : agents[n] # s.agents[n]} \cup {n \in H : health[n] # s.health[n]}
           changed == (B \ K) \cup (I \ H) \cup updated
           schedule == IF B \ K # {} THEN B \ K ELSE I \ H
           m == [s EXCEPT !.agents = agents, !.health = health]
           r == MergeState(s, other, t)
<1>1. /\ s \in State /\ HeardOf(s.agents, s.health, A, C)
      /\ \A k \in K : s.pending[k] > 0
  BY DEF Sound
<1>2. r = evaluateNodes(m, changed, schedule, t)
  BY Zenon DEF MergeState, evaluateRouterChange
<1>3. K \in SUBSET Nodes /\ B \in SUBSET Nodes /\ H \in SUBSET Nodes /\ I \in SUBSET Nodes
  BY <1>1, KnownDef DEF HeardOf
<1>4. \A n \in K \cup B : agents[n] \in A[n] /\ agents[n] \in Agent
  BY <1>1, <1>3 DEF HeardOf, Hearsay
<1>5. \A n \in H \cup I : health[n] \in Seq(C[n]) /\ Ordered(health[n]) /\ health[n] \in Seq(Check)
  <2> TAKE n \in H \cup I
  <2>1. Distinct(C[n]) /\ C[n] \subseteq Check
    BY <1>3 DEF Hearsay
  <2>2. n \in H => s.health[n] \in Seq(C[n]) /\ Ordered(s.health[n])
    BY <1>1 DEF HeardOf
  <2>3. n \in I => other.health[n] \in Seq(C[n]) /\ Ordered(other.health[n])
    BY DEF HeardOf
  <2>4. health[n] \in Seq(C[n]) /\ Ordered(health[n])
    <3>1. CASE n \notin I
      BY <3>1, <2>2
    <3>2. CASE n \in I /\ n \notin H
      BY <3>2, <2>3
    <3>3. CASE n \in I /\ n \in H
      <4>1. health[n] = MergeHealth(s.health[n], other.health[n])
        BY <3>3
      <4>2. MergeHistory(s.health[n], other.health[n]) \in Seq(C[n])
            /\ Ordered(MergeHistory(s.health[n], other.health[n]))
        BY <3>3, <2>1, <2>2, <2>3, MergeOrdered
      <4>3. \/ health[n] = s.health[n]
            \/ health[n] = MergeHistory(s.health[n], other.health[n])
        BY <4>1, Zenon DEF MergeHealth
      <4> HIDE DEF health
      <4> QED BY <4>2, <4>3, <3>3, <2>2
    <3> QED BY <3>1, <3>2, <3>3
  <2> HIDE DEF health
  <2>5. health[n] \in Seq(Check)
    BY <2>1, <2>4, SeqMonotonic
  <2> QED BY <2>4, <2>5
<1>6. agents \in Known(Agent) /\ DOMAIN agents = K \cup B
  <2>1. agents = [n \in DOMAIN agents |-> agents[n]] /\ DOMAIN agents = K \cup B
    OBVIOUS
  <2> HIDE DEF agents
  <2> QED BY <2>1, <1>3, <1>4, KnownDef
<1>7. health \in Known(Seq(Check)) /\ DOMAIN health = H \cup I
  <2>1. health = [n \in DOMAIN health |-> health[n]] /\ DOMAIN health = H \cup I
    OBVIOUS
  <2> HIDE DEF health
  <2> QED BY <2>1, <1>3, <1>5, KnownDef
<1>8. \A n \in K : agents[n] = s.agents[n] \/ (n \in B /\ agents[n] = MergeAgent(s.agents[n], other.agents[n]))
  OBVIOUS
<1> HIDE DEF agents, health, r
<1>9. changed \in SUBSET Nodes
  BY <1>3
<1>10. m \in State /\ m.agents = agents /\ m.health = health /\ m.pending = s.pending /\ m.routing = s.routing
  BY <1>1, <1>6, <1>7 DEF State
<1>11. HeardOf(m.agents, m.health, A, C)
  BY <1>4, <1>5, <1>6, <1>7, <1>10 DEF HeardOf
<1>12. \A k \in m.routing \ changed : Routable(m, k)
  <2> TAKE k \in m.routing \ changed
  <2>1. Routable(s, k)
    BY <1>10 DEF Sound
  <2>2. k \in K /\ k \in H /\ agents[k] = s.agents[k] /\ health[k] = s.health[k]
    BY <2>1 DEF Routable
  <2> HIDE DEF changed, m
  <2> QED BY <2>1, <2>2, <1>6, <1>7, <1>10 DEF Routable
<1>13. \A k \in DOMAIN m.agents : m.pending[k] > 0 \/ k \in schedule \cap changed
  <2> TAKE k \in DOMAIN m.agents
  <2>1. k \in K \/ k \in B \ K
    BY <1>6, <1>10
  <2>2. CASE k \in K
    BY <2>2, <1>1, <1>10
  <2>3. CASE k \in B \ K
    BY <2>3
  <2> QED BY <2>1, <2>2, <2>3
<1> HIDE DEF changed, schedule, m
<1>14. Merged(m, A, C, changed, schedule)
  BY <1>9, <1>10, <1>11, <1>12, <1>13 DEF Merged
<1>15. Sound(r, A, C) /\ Fewer(r, m)
  BY <1>2, <1>14, EvaluationSound
<1>16. Forward(s, r)
  <2> SUFFICES ASSUME NEW k \in K, k \in DOMAIN r.agents
               PROVE  /\ s.agents[k].index <= r.agents[k].index
                      /\ s.agents[k].info => r.agents[k].info
    BY DEF Forward
  <2>1. s.agents[k] \in Agent /\ r.agents[k] = agents[k]
    BY <1>1, <1>10, <1>15, StateFields DEF Fewer
  <2>2. CASE agents[k] = s.agents[k]
    BY <2>1, <2>2 DEF Agent
  <2>3. CASE k \in B /\ agents[k] = MergeAgent(s.agents[k], other.agents[k])
    <3>1. other.agents[k] \in Agent
      BY <2>3, <1>3 DEF HeardOf, Hearsay
    <3> QED BY <2>1, <2>3, <3>1, MergeGoesForward
  <2> QED BY <2>2, <2>3, <1>8
<1> QED BY <1>15, <1>16 DEF r

\* A background evaluation (Manager.bgEvaluationWorker).
LEMMA BackgroundSound ==
    ASSUME NEW A, NEW C, NEW s, Sound(s, A, C), s.up, NEW t \in Int,
           NEW n \in Nodes, s.pending[n] > 0
    PROVE  Sound(BackgroundEvaluate(s, n, t), A, C) /\ Forward(s, BackgroundEvaluate(s, n, t))
<1> DEFINE pending == [s.pending EXCEPT ![n] = @ - 1]
           m == [s EXCEPT !.pending = pending]
           r == BackgroundEvaluate(s, n, t)
<1>1. /\ s \in State /\ HeardOf(s.agents, s.health, A, C)
      /\ \A k \in DOMAIN s.agents : s.pending[k] > 0
      /\ \A k \in s.routing : Routable(s, k)
  BY DEF Sound
<1>2. s.pending \in [Nodes -> Nat] /\ DOMAIN s.agents \in SUBSET Nodes
  BY <1>1, StateFields
<1>3. r = evaluateNodes(m, {n}, {n}, t)
  BY <1>1 DEF BackgroundEvaluate
<1>4. pending \in [Nodes -> Nat] /\ \A k \in Nodes \ {n} : pending[k] = s.pending[k]
  BY <1>2
<1> HIDE DEF pending, r
<1>5. m \in State /\ m.agents = s.agents /\ m.health = s.health /\ m.pending = pending /\ m.routing = s.routing
  BY <1>1, <1>4 DEF State
<1> HIDE DEF m
<1>6. Merged(m, A, C, {n}, {n})
  <2>1. \A k \in m.routing \ {n} : Routable(m, k)
    BY <1>1, <1>5 DEF Routable
  <2>2. \A k \in DOMAIN m.agents : m.pending[k] > 0 \/ k \in {n} \cap {n}
    BY <1>1, <1>2, <1>4, <1>5
  <2> QED BY <1>1, <1>5, <2>1, <2>2 DEF Merged
<1>7. Sound(r, A, C) /\ Fewer(r, m)
  BY <1>3, <1>6, EvaluationSound
<1>8. Forward(s, r)
  <2>1. Forward(s, s)
    BY <1>1, StateFields DEF Forward, Agent
  <2> QED BY <2>1, <1>5, <1>7 DEF Forward, Fewer
<1> QED BY <1>7, <1>8 DEF r
-----------------------------------------------------------------------------
(* The cluster.  stamp is the time of every event that an agent has sent, made *)
(* the check that was made at every instant: whatever a router has heard, over *)
(* whichever ways, goes back to them.                                        *)

\* The agents and the checks of a node that agree with what was sent and made.
Stamped(stamp) ==
    [n \in Nodes |-> {a \in Agent : a.index < agent[n].next /\ a.ts = stamp[<<n, a.index>>]}]
Made(made) ==
    [n \in Nodes |-> {c \in Check : c.ts < now /\ made[c.ts] = [node |-> n, check |-> c]}]

\* All that has been heard of, and all that is on its way, agrees with them.
Agrees(stamp, made) ==
    /\ \A r \in Routers : Sound(rt[r], Stamped(stamp), Made(made))
    /\ \A r \in Routers : \A o \in pulled[r] :
          HeardOf(o.agents, o.health, Stamped(stamp), Made(made))
    /\ \A m \in posts : m[1] \in Routers /\ m[2] \in Event
                        /\ FromEvent(m[2]) \in Stamped(stamp)[m[2].node]
    /\ \A m \in gossip : /\ m[1] \in Routers
                         /\ \/ m[2] \in Event /\ FromEvent(m[2]) \in Stamped(stamp)[m[2].node]
                            \/ m[2] \in NodeCheck /\ m[2].check \in Made(made)[m[2].node]
    /\ \A r \in Routers : \A c \in checking[r] : c \in NodeCheck /\ c.check \in Made(made)[c.node]

Shape ==
    /\ now \in 0 .. MaxTime
    /\ agent \in [Nodes -> [next : 0 .. MaxEvents, up : BOOLEAN]]
    /\ rt \in [Routers -> State]
    /\ posts \subseteq Routers \X Event
    /\ gossip \subseteq Routers \X (Event \cup NodeCheck)
    /\ checking \in [Routers -> SUBSET NodeCheck]
    /\ DOMAIN pulled = Routers
    /\ pulls \in 0 .. MaxPulls

\* The inductive invariant.
Inv == Shape /\ \E stamp, made : Agrees(stamp, made)

\* What goes back to events and checks is closed under merging, and has no two
\* checks of one time.
LEMMA AgreementIsHearsay ==
    ASSUME NEW stamp, NEW made
    PROVE  Hearsay(Stamped(stamp), Made(made))
<1> DEFINE A == Stamped(stamp)
           C == Made(made)
<1>1. A \in [Nodes -> SUBSET Agent] /\ C \in [Nodes -> SUBSET Check]
  BY DEF Stamped, Made
<1>2. ASSUME NEW n \in Nodes, NEW a \in A[n], NEW b \in A[n]
      PROVE  MergeAgent(a, b) \in A[n]
  <2>1. /\ a \in Agent /\ a.index < agent[n].next /\ a.ts = stamp[<<n, a.index>>]
        /\ b \in Agent /\ b.index < agent[n].next /\ b.ts = stamp[<<n, b.index>>]
    BY DEF Stamped
  <2>2. CASE a.index < b.index
    <3> DEFINE m == [index |-> b.index, ts |-> b.ts, info |-> a.info \/ b.info, shutdown |-> a.shutdown \/ b.shutdown]
    <3>1. MergeAgent(a, b) = m
      BY <2>2 DEF MergeAgent
    <3>2. m \in Agent /\ m.index = b.index /\ m.ts = b.ts
      BY <2>1 DEF Agent
    <3> HIDE DEF m
    <3> QED BY <2>1, <3>1, <3>2 DEF Stamped
  <2>3. CASE ~ (a.index < b.index)
    <3> DEFINE m == [a EXCEPT !.info = a.info \/ b.info]
    <3>1. MergeAgent(a, b) = m
      BY <2>3, <2>1 DEF MergeAgent
    <3>2. m \in Agent /\ m.index = a.index /\ m.ts = a.ts
      BY <2>1 DEF Agent
    <3> HIDE DEF m
    <3> QED BY <2>1, <3>1, <3>2 DEF Stamped
  <2> QED BY <2>2, <2>3
<1>3. ASSUME NEW n \in Nodes PROVE Distinct(C[n])
  <2>1. C[n] \subseteq Check
    BY <1>1
  <2>2. ASSUME NEW c \in C[n], NEW d \in C[n], c.ts = d.ts PROVE c = d
    <3>1. made[c.ts] = [node |-> n, check |-> c] /\ made[d.ts] = [node |-> n, check |-> d]
      BY DEF Made
    <3>2. [node |-> n, check |-> c].check = [node |-> n, check |-> d].check
      BY <3>1, <2>2
    <3> QED BY <3>2
  <2> QED BY <2>1, <2>2 DEF Distinct
<1> QED BY <1>1, <1>2, <1>3 DEF Hearsay

\* Initially nothing was sent or made.
LEMMA InitEstablishesInv == Init => Inv
<1> SUFFICES ASSUME Init PROVE Inv
  OBVIOUS
<1>1. Empty \in Known(Agent) /\ Empty \in Known(Seq(Check)) /\ DOMAIN Empty = {}
  <2>1. Empty = [n \in DOMAIN Empty |-> Empty[n]] /\ DOMAIN Empty = {}
    BY DEF Empty
  <2> QED BY <2>1, KnownDef
<1> DEFINE s == [agents |-> Empty, health |-> Empty, pending |-> [n \in Nodes |-> 0],
                 routing |-> {}, up |-> TRUE]
<1>2. s \in State /\ s.agents = Empty /\ s.health = Empty /\ s.routing = {}
  BY <1>1 DEF State
<1>3. rt = [r \in Routers |-> s]
  BY DEF Init
<1> HIDE DEF s
<1>4. Shape
  <2>1. rt \in [Routers -> State]
    BY <1>2, <1>3
  <2>2. now \in 0 .. MaxTime /\ pulls \in 0 .. MaxPulls
    BY RouterClusterAssumption DEF Init
  <2>3. agent \in [Nodes -> [next : 0 .. MaxEvents, up : BOOLEAN]]
    BY RouterClusterAssumption DEF Init
  <2>4. posts \subseteq Routers \X Event /\ gossip \subseteq Routers \X (Event \cup NodeCheck)
    BY DEF Init
  <2>5. checking \in [Routers -> SUBSET NodeCheck] /\ DOMAIN pulled = Routers
    BY DEF Init
  <2> QED BY <2>1, <2>2, <2>3, <2>4, <2>5 DEF Shape
<1>5. \A stamp, made : \A r \in Routers : Sound(rt[r], Stamped(stamp), Made(made))
  BY <1>1, <1>2, <1>3 DEF Sound, HeardOf
<1>6. \A stamp, made : Agrees(stamp, made)
  BY <1>5 DEF Agrees, Init
<1> QED BY <1>4, <1>6 DEF Inv

\* What agreed goes on to agree when events are sent, checks are made and time
\* passes.
LEMMA SoundGrows ==
    ASSUME NEW A, NEW C, NEW B, NEW D, NEW s,
           \A n \in Nodes : A[n] \subseteq B[n] /\ C[n] \subseteq D[n]
    PROVE  /\ Sound(s, A, C) => Sound(s, B, D)
           /\ \A o : HeardOf(o.agents, o.health, A, C) => HeardOf(o.agents, o.health, B, D)
<1>1. ASSUME NEW agents, NEW health, HeardOf(agents, health, A, C)
      PROVE  HeardOf(agents, health, B, D)
  <2>1. /\ agents \in Known(Agent) /\ DOMAIN agents \in SUBSET Nodes
        /\ health \in Known(Seq(Check)) /\ DOMAIN health \in SUBSET Nodes
    BY <1>1, KnownDef DEF HeardOf
  <2>2. \A n \in DOMAIN agents : agents[n] \in B[n]
    BY <1>1, <2>1 DEF HeardOf
  <2>3. ASSUME NEW n \in DOMAIN health PROVE health[n] \in Seq(D[n]) /\ Ordered(health[n])
    <3>1. health[n] \in Seq(C[n]) /\ C[n] \subseteq D[n] /\ Ordered(health[n])
      BY <1>1, <2>1 DEF HeardOf
    <3> QED BY <3>1, SeqMonotonic
  <2> QED BY <2>1, <2>2, <2>3 DEF HeardOf
<1> QED BY <1>1 DEF Sound

\* No router goes back.
AllForward == \A r \in Routers : Forward(rt[r], rt'[r])

\* A step that changes no router's record: what agreed agrees with the longer
\* story, and what is added has to.
LEMMA StoryGrows ==
    ASSUME Shape, NEW stamp, NEW made, Agrees(stamp, made), NEW stamp2, NEW made2,
           \A n \in Nodes : Stamped(stamp)[n] \subseteq Stamped(stamp2)'[n],
           \A n \in Nodes : Made(made)[n] \subseteq Made(made2)'[n],
           UNCHANGED <<rt, gossip>>,
           \A r \in Routers : \A o \in pulled'[r] \ pulled[r] :
               HeardOf(o.agents, o.health, Stamped(stamp), Made(made)),
           \A m \in posts' \ posts : m[1] \in Routers /\ m[2] \in Event
               /\ FromEvent(m[2]) \in Stamped(stamp2)'[m[2].node],
           \A r \in Routers : \A c \in checking'[r] \ checking[r] :
               c \in NodeCheck /\ c.check \in Made(made2)'[c.node]
    PROVE  Agrees(stamp2, made2)' /\ AllForward
<1> DEFINE A == Stamped(stamp)
           C == Made(made)
           B == Stamped(stamp2)'
           D == Made(made2)'
<1>1. /\ \A r \in Routers : Sound(rt[r], A, C)
      /\ \A r \in Routers : \A o \in pulled[r] : HeardOf(o.agents, o.health, A, C)
      /\ \A m \in posts : m[1] \in Routers /\ m[2] \in Event /\ FromEvent(m[2]) \in A[m[2].node]
      /\ \A m \in gossip : /\ m[1] \in Routers
                           /\ \/ m[2] \in Event /\ FromEvent(m[2]) \in A[m[2].node]
                              \/ m[2] \in NodeCheck /\ m[2].check \in C[m[2].node]
      /\ \A r \in Routers : \A c \in checking[r] : c \in NodeCheck /\ c.check \in C[c.node]
  BY DEF Agrees
<1>2. /\ \A n \in Nodes : A[n] \subseteq B[n] /\ C[n] \subseteq D[n]
      /\ \A e \in Event : e.node \in Nodes
      /\ \A c \in NodeCheck : c.node \in Nodes
  BY DEF Event, NodeCheck
<1>3. rt' = rt /\ gossip' = gossip
  OBVIOUS
<1>12. \A r \in Routers : \A o \in pulled'[r] \ pulled[r] : HeardOf(o.agents, o.health, A, C)
  OBVIOUS
<1>13. \A m \in posts' \ posts : m[1] \in Routers /\ m[2] \in Event /\ FromEvent(m[2]) \in B[m[2].node]
  OBVIOUS
<1>14. \A r \in Routers : \A c \in checking'[r] \ checking[r] : c \in NodeCheck /\ c.check \in D[c.node]
  OBVIOUS
<1>15. Agrees(stamp2, made2)' <=>
      /\ \A r \in Routers : Sound(rt'[r], B, D)
      /\ \A r \in Routers : \A o \in pulled'[r] : HeardOf(o.agents, o.health, B, D)
      /\ \A m \in posts' : m[1] \in Routers /\ m[2] \in Event /\ FromEvent(m[2]) \in B[m[2].node]
      /\ \A m \in gossip' : /\ m[1] \in Routers
                            /\ \/ m[2] \in Event /\ FromEvent(m[2]) \in B[m[2].node]
                               \/ m[2] \in NodeCheck /\ m[2].check \in D[m[2].node]
      /\ \A r \in Routers : \A c \in checking'[r] : c \in NodeCheck /\ c.check \in D[c.node]
  BY DEF Agrees
<1> HIDE DEF A, B, C, D
<1>4. \A r \in Routers : Sound(rt'[r], B, D)
  BY <1>1, <1>2, <1>3, SoundGrows
<1>5. \A r \in Routers : \A o \in pulled'[r] : HeardOf(o.agents, o.health, B, D)
  BY <1>1, <1>2, <1>12, SoundGrows
<1>6. \A m \in posts' : m[1] \in Routers /\ m[2] \in Event /\ FromEvent(m[2]) \in B[m[2].node]
  BY <1>1, <1>2, <1>13
<1>7. \A m \in gossip' : /\ m[1] \in Routers
                         /\ \/ m[2] \in Event /\ FromEvent(m[2]) \in B[m[2].node]
                            \/ m[2] \in NodeCheck /\ m[2].check \in D[m[2].node]
  BY <1>1, <1>2, <1>3
<1>8. \A r \in Routers : \A c \in checking'[r] : c \in NodeCheck /\ c.check \in D[c.node]
  BY <1>1, <1>2, <1>14
<1>9. AllForward
  <2>1. \A r \in Routers : rt[r] \in State
    BY DEF Shape
  <2> QED BY <2>1, <1>3, StateFields DEF AllForward, Forward, Agent
<1> QED BY <1>4, <1>5, <1>6, <1>7, <1>8, <1>9, <1>15

\* A step of one router that adds nothing to the story.
LEMMA RouterStep ==
    ASSUME Shape, NEW stamp, NEW made, Agrees(stamp, made), NEW r \in Routers, NEW x,
           rt' = [rt EXCEPT ![r] = x],
           Sound(x, Stamped(stamp), Made(made)), Forward(rt[r], x),
           UNCHANGED <<now, agent>>, posts' \subseteq posts,
           \A q \in Routers : pulled'[q] \subseteq pulled[q] /\ checking'[q] \subseteq checking[q],
           \A m \in gossip' \ gossip : /\ m[1] \in Routers
               /\ \/ m[2] \in Event /\ FromEvent(m[2]) \in Stamped(stamp)[m[2].node]
                  \/ m[2] \in NodeCheck /\ m[2].check \in Made(made)[m[2].node]
    PROVE  Agrees(stamp, made)' /\ AllForward /\ rt' \in [Routers -> State]
<1> DEFINE A == Stamped(stamp)
           C == Made(made)
<1>1. Stamped(stamp)' = A /\ Made(made)' = C
  BY DEF Stamped, Made
<1>2. \A q \in Routers : rt[q] \in State
  BY DEF Shape
<1>3. x \in State
  BY DEF Sound
<1>4. rt' \in [Routers -> State] /\ rt'[r] = x /\ \A q \in Routers \ {r} : rt'[q] = rt[q]
  BY <1>3 DEF Shape
<1>5. AllForward
  <2>1. ASSUME NEW q \in Routers \ {r} PROVE Forward(rt[q], rt'[q])
    BY <1>2, <1>4, StateFields DEF Forward, Agent
  <2> QED BY <2>1, <1>4 DEF AllForward
<1>6. /\ \A q \in Routers : Sound(rt'[q], A, C)
      /\ \A q \in Routers : \A o \in pulled'[q] : HeardOf(o.agents, o.health, A, C)
      /\ \A m \in posts' : m[1] \in Routers /\ m[2] \in Event /\ FromEvent(m[2]) \in A[m[2].node]
      /\ \A q \in Routers : \A c \in checking'[q] : c \in NodeCheck /\ c.check \in C[c.node]
  <2> HIDE DEF A, C
  <2>1. /\ \A q \in Routers : Sound(rt[q], A, C)
        /\ \A q \in Routers : \A o \in pulled[q] : HeardOf(o.agents, o.health, A, C)
        /\ \A m \in posts : m[1] \in Routers /\ m[2] \in Event /\ FromEvent(m[2]) \in A[m[2].node]
        /\ \A q \in Routers : \A c \in checking[q] : c \in NodeCheck /\ c.check \in C[c.node]
    BY DEF Agrees, A, C
  <2>2. Sound(x, A, C)
    BY DEF A, C
  <2> QED BY <2>1, <2>2, <1>4
<1>7. \A m \in gossip' : /\ m[1] \in Routers
                         /\ \/ m[2] \in Event /\ FromEvent(m[2]) \in A[m[2].node]
                            \/ m[2] \in NodeCheck /\ m[2].check \in C[m[2].node]
  BY DEF Agrees
<1>8. Agrees(stamp, made)'
  <2> HIDE DEF A, C
  <2> QED BY <1>1, <1>6, <1>7 DEF Agrees
<1> QED BY <1>4, <1>5, <1>8

\* Time passes, or a node vanishes.
LEMMA QuietStep ==
    ASSUME Inv, Tick \/ (\E n \in Nodes : Vanish(n)) \/ UNCHANGED vars
    PROVE  Inv' /\ AllForward
<1> PICK stamp, made : Agrees(stamp, made)
  BY DEF Inv
<1>1. Shape
  BY DEF Inv
<1>2. /\ now \in Nat /\ now' \in Nat /\ now <= now' /\ now' \in 0 .. MaxTime
      /\ UNCHANGED <<rt, posts, gossip, checking, pulled, pulls>>
      /\ agent' \in [Nodes -> [next : 0 .. MaxEvents, up : BOOLEAN]]
      /\ \A n \in Nodes : agent'[n].next = agent[n].next
  <2>1. /\ now \in Nat /\ now \in 0 .. MaxTime /\ agent \in [Nodes -> [next : 0 .. MaxEvents, up : BOOLEAN]]
        /\ MaxTime \in Nat
    BY <1>1, RouterClusterAssumption DEF Shape
  <2>2. CASE Tick
    BY <2>1, <2>2 DEF Tick
  <2>3. ASSUME NEW n \in Nodes, Vanish(n)
        PROVE  /\ UNCHANGED <<now, rt, posts, gossip, checking, pulled, pulls>>
               /\ agent' \in [Nodes -> [next : 0 .. MaxEvents, up : BOOLEAN]]
               /\ \A k \in Nodes : agent'[k].next = agent[k].next
    BY <2>1, <2>3 DEF Vanish
  <2>4. CASE UNCHANGED vars
    BY <2>1, <2>4 DEF vars
  <2> QED BY <2>1, <2>2, <2>3, <2>4
<1>3. \A n \in Nodes : Stamped(stamp)[n] \subseteq Stamped(stamp)'[n]
  BY <1>2 DEF Stamped
<1>4. \A n \in Nodes : Made(made)[n] \subseteq Made(made)'[n]
  BY <1>2 DEF Made, Check
<1>5. Agrees(stamp, made)' /\ AllForward
  BY <1>1, <1>2, <1>3, <1>4, StoryGrows
<1>6. Shape'
  BY <1>1, <1>2 DEF Shape
<1> QED BY <1>5, <1>6 DEF Inv

\* An agent sends an event, with an index it has not used.
LEMMA SendStep ==
    ASSUME Inv, NEW n \in Nodes, sendHeartbeat(n) \/ sendShutdown(n)
    PROVE  Inv' /\ AllForward
<1> PICK stamp, made : Agrees(stamp, made)
  BY DEF Inv
<1>1. Shape
  BY DEF Inv
<1>2. PICK info \in BOOLEAN, shutdown \in BOOLEAN : sendEvent(n, info, shutdown)
  BY DEF sendHeartbeat, sendShutdown
<1> DEFINE k == agent[n].next
           e == [node |-> n, index |-> k, ts |-> now, info |-> info, shutdown |-> shutdown]
<1> PICK stamp2 : stamp2 = [q \in Nodes \X Nat |-> IF q = <<n, k>> THEN now ELSE stamp[q]]
  OBVIOUS
<1>3. PICK r \in Routers : posts' = posts \cup {<<r, e>>}
  BY <1>2, RouterClusterAssumption DEF sendEvent
<1>4. /\ k \in Nat /\ now \in Nat
      /\ agent' \in [Nodes -> [next : 0 .. MaxEvents, up : BOOLEAN]]
      /\ agent'[n].next = k + 1
      /\ \A m \in Nodes : agent[m].next <= agent'[m].next
      /\ UNCHANGED <<now, rt, gossip, checking, pulled, pulls>>
  BY <1>1, <1>2, RouterClusterAssumption DEF sendEvent, Shape
<1>5. e \in Event /\ e.node = n
  BY <1>4 DEF Event
<1>6. FromEvent(e) \in Stamped(stamp2)'[n]
  <2>1. FromEvent(e) = [index |-> k, ts |-> now, info |-> info, shutdown |-> shutdown]
    BY DEF FromEvent
  <2>2. FromEvent(e) \in Agent /\ FromEvent(e).index = k /\ FromEvent(e).ts = now
    BY <2>1, <1>4 DEF Agent
  <2>3. stamp2[<<n, k>>] = now
    BY <1>4
  <2> HIDE DEF e, k
  <2> QED BY <1>4, <2>2, <2>3 DEF Stamped
<1>7. \A m \in Nodes : Stamped(stamp)[m] \subseteq Stamped(stamp2)'[m]
  <2> SUFFICES ASSUME NEW m \in Nodes, NEW a \in Stamped(stamp)[m]
               PROVE  a \in Stamped(stamp2)'[m]
    OBVIOUS
  <2>1. a \in Agent /\ a.index < agent[m].next /\ a.ts = stamp[<<m, a.index>>] /\ a.index \in Nat
    BY DEF Stamped, Agent
  <2>2. agent[m].next \in Nat /\ agent'[m].next \in Nat
    BY <1>1, <1>4, RouterClusterAssumption DEF Shape
  <2>3. <<m, a.index>> # <<n, k>>
    BY <2>1, <2>2
  <2>4. stamp2[<<m, a.index>>] = stamp[<<m, a.index>>]
    BY <2>1, <2>3
  <2>5. a.index < agent'[m].next
    BY <2>1, <2>2, <1>4
  <2> HIDE DEF k
  <2> QED BY <2>1, <2>4, <2>5 DEF Stamped
<1> HIDE DEF e, k
<1>8. \A m \in Nodes : Made(made)[m] \subseteq Made(made)'[m]
  BY <1>4 DEF Made
<1>9. \A m \in posts' \ posts : m[1] \in Routers /\ m[2] \in Event /\ FromEvent(m[2]) \in Stamped(stamp2)'[m[2].node]
  BY <1>3, <1>5, <1>6
<1>10. Agrees(stamp2, made)' /\ AllForward
  <2>1. /\ \A q \in Routers : pulled'[q] \ pulled[q] = {}
        /\ \A q \in Routers : checking'[q] \ checking[q] = {}
        /\ UNCHANGED <<rt, gossip>>
    BY <1>4
  <2> QED BY <1>1, <1>7, <1>8, <1>9, <2>1, StoryGrows
<1>11. Shape'
  BY <1>1, <1>3, <1>4, <1>5 DEF Shape
<1> QED BY <1>10, <1>11 DEF Inv

\* A router makes a check, at an instant at which no other was made.
LEMMA StartStep ==
    ASSUME Inv, NEW r \in Routers, NEW n \in Nodes, StartCheck(r, n)
    PROVE  Inv' /\ AllForward
<1> PICK stamp, made : Agrees(stamp, made)
  BY DEF Inv
<1>1. Shape
  BY DEF Inv
<1>2. PICK ok \in BOOLEAN : checking' = [checking EXCEPT ![r] =
                               @ \cup {[node |-> n, check |-> [ts |-> now, ok |-> ok, by |-> r]]}]
  BY DEF StartCheck
<1> DEFINE c == [ts |-> now, ok |-> ok, by |-> r]
           nc == [node |-> n, check |-> c]
<1> PICK made2 : made2 = [i \in Nat |-> IF i = now THEN nc ELSE made[i]]
  OBVIOUS
<1>3. /\ now \in Nat /\ now' = now + 1 /\ now' \in 0 .. MaxTime
      /\ UNCHANGED <<agent, rt, posts, gossip, pulled, pulls>>
  BY <1>1, RouterClusterAssumption, NodeStateAssumption DEF StartCheck, Shape
<1>4. c \in Check /\ c.ts = now /\ nc \in NodeCheck /\ nc.node = n /\ nc.check = c
  BY <1>3 DEF Check, NodeCheck
<1>5. c \in Made(made2)'[n]
  <2>1. made2[now] = nc
    BY <1>3
  <2> HIDE DEF c
  <2> QED BY <1>3, <1>4, <2>1 DEF Made
<1>6. \A m \in Nodes : Made(made)[m] \subseteq Made(made2)'[m]
  <2> SUFFICES ASSUME NEW m \in Nodes, NEW d \in Made(made)[m]
               PROVE  d \in Made(made2)'[m]
    OBVIOUS
  <2>1. d \in Check /\ d.ts < now /\ made[d.ts] = [node |-> m, check |-> d] /\ d.ts \in Nat
    BY DEF Made, Check
  <2>2. made2[d.ts] = made[d.ts] /\ d.ts < now'
    BY <2>1, <1>3
  <2> QED BY <2>1, <2>2 DEF Made
<1>7. \A m \in Nodes : Stamped(stamp)[m] \subseteq Stamped(stamp)'[m]
  BY <1>3 DEF Stamped
<1>8. checking' \in [Routers -> SUBSET NodeCheck] /\ \A q \in Routers : \A x \in checking'[q] \ checking[q] : x = nc
  BY <1>1, <1>2, <1>4 DEF Shape
<1> HIDE DEF c, nc
<1>9. Agrees(stamp, made2)' /\ AllForward
  <2>1. /\ \A q \in Routers : pulled'[q] \ pulled[q] = {}
        /\ posts' \ posts = {}
        /\ UNCHANGED <<rt, gossip>>
        /\ \A q \in Routers : \A x \in checking'[q] \ checking[q] : x \in NodeCheck /\ x.check \in Made(made2)'[x.node]
    BY <1>3, <1>4, <1>5, <1>8
  <2> QED BY <1>1, <1>6, <1>7, <2>1, StoryGrows
<1>10. Shape'
  BY <1>1, <1>3, <1>8 DEF Shape
<1> QED BY <1>9, <1>10 DEF Inv

\* A router reads the state of another.
LEMMA ReadStep ==
    ASSUME Inv, NEW r \in Routers, NEW q \in Routers, ReadState(r, q)
    PROVE  Inv' /\ AllForward
<1> PICK stamp, made : Agrees(stamp, made)
  BY DEF Inv
<1>1. Shape
  BY DEF Inv
<1> DEFINE o == [agents |-> rt[q].agents, health |-> rt[q].health]
<1>2. /\ pulled' = [pulled EXCEPT ![r] = @ \cup {o}] /\ pulls' = pulls + 1 /\ pulls < MaxPulls
      /\ UNCHANGED <<now, agent, rt, posts, gossip, checking>>
  BY DEF ReadState
<1>3. HeardOf(o.agents, o.health, Stamped(stamp), Made(made))
  BY DEF Agrees, Sound
<1>4. Stamped(stamp)' = Stamped(stamp) /\ Made(made)' = Made(made)
  BY <1>2 DEF Stamped, Made
<1>5. DOMAIN pulled' = Routers /\ \A k \in Routers : \A x \in pulled'[k] \ pulled[k] : x = o
  BY <1>1, <1>2 DEF Shape
<1> HIDE DEF o
<1>6. Agrees(stamp, made)' /\ AllForward
  <2>1. /\ \A k \in Routers : \A x \in pulled'[k] \ pulled[k] : HeardOf(x.agents, x.health, Stamped(stamp), Made(made))
        /\ posts' \ posts = {}
        /\ UNCHANGED <<rt, gossip>>
        /\ \A k \in Routers : checking'[k] \ checking[k] = {}
    BY <1>2, <1>3, <1>5
  <2> QED BY <1>1, <1>4, <2>1, StoryGrows
<1>7. Shape'
  BY <1>1, <1>2, <1>5, RouterClusterAssumption DEF Shape
<1> QED BY <1>6, <1>7 DEF Inv

\* A router handles the post of an agent.
LEMMA PostStep ==
    ASSUME Inv, NEW p \in posts, AddNodeEvent(p[1], p[2])
    PROVE  Inv' /\ AllForward
<1> PICK stamp, made : Agrees(stamp, made)
  BY DEF Inv
<1>1. Shape
  BY DEF Inv
<1> DEFINE r == p[1]
           e == p[2]
           x == MergeNodeEvent(rt[r], e, now)
<1>2. r \in Routers /\ e \in Event /\ FromEvent(e) \in Stamped(stamp)[e.node] /\ e.node \in Nodes
  BY DEF Agrees, Event
<1>3. /\ rt[r].up /\ rt' = [rt EXCEPT ![r] = x]
      /\ posts' = posts \ {<<r, e>>}
      /\ gossip' = gossip \cup {<<q, e>> : q \in Routers \ {r}}
      /\ UNCHANGED <<now, agent, checking, pulled, pulls>>
  BY DEF AddNodeEvent, Broadcast
<1> HIDE DEF r, e
<1>4. Sound(x, Stamped(stamp), Made(made)) /\ Forward(rt[r], x)
  <2>1. Sound(rt[r], Stamped(stamp), Made(made)) /\ now \in Int
    BY <1>1, <1>2 DEF Agrees, Shape
  <2> QED BY <2>1, <1>2, <1>3, EventSound, AgreementIsHearsay
<1> HIDE DEF x
<1>5. \A m \in gossip' \ gossip : m[1] \in Routers /\ m[2] = e
  BY <1>3
<1>6. Agrees(stamp, made)' /\ AllForward /\ rt' \in [Routers -> State]
  <2>1. \A m \in gossip' \ gossip : /\ m[1] \in Routers
               /\ \/ m[2] \in Event /\ FromEvent(m[2]) \in Stamped(stamp)[m[2].node]
                  \/ m[2] \in NodeCheck /\ m[2].check \in Made(made)[m[2].node]
    BY <1>2, <1>5
  <2>2. /\ UNCHANGED <<now, agent>> /\ posts' \subseteq posts
        /\ \A q \in Routers : pulled'[q] \subseteq pulled[q] /\ checking'[q] \subseteq checking[q]
    BY <1>3
  <2> QED BY <1>1, <1>2, <1>3, <1>4, <2>1, <2>2, RouterStep
<1>7. Shape'
  BY <1>1, <1>2, <1>3, <1>6 DEF Shape
<1> QED BY <1>6, <1>7 DEF Inv

\* A router handles a broadcast of another.
LEMMA MessageStep ==
    ASSUME Inv, NEW p \in gossip, HandleMessage(p[1], p[2])
    PROVE  Inv' /\ AllForward
<1> PICK stamp, made : Agrees(stamp, made)
  BY DEF Inv
<1>1. Shape
  BY DEF Inv
<1> DEFINE r == p[1]
           b == p[2]
           x == IF "check" \in DOMAIN b THEN MergeHealthcheck(rt[r], b.node, b.check, now)
                ELSE MergeNodeEvent(rt[r], b, now)
<1>2. /\ r \in Routers
      /\ \/ b \in Event /\ FromEvent(b) \in Stamped(stamp)[b.node]
         \/ b \in NodeCheck /\ b.check \in Made(made)[b.node]
  BY DEF Agrees
<1>3. /\ rt[r].up /\ rt' = [rt EXCEPT ![r] = x]
      /\ gossip' = gossip \ {<<r, b>>}
      /\ UNCHANGED <<now, agent, posts, checking, pulled, pulls>>
  BY DEF HandleMessage
<1> HIDE DEF r, b
<1>4. Sound(x, Stamped(stamp), Made(made)) /\ Forward(rt[r], x)
  <2>1. Sound(rt[r], Stamped(stamp), Made(made)) /\ now \in Int
    BY <1>1, <1>2 DEF Agrees, Shape
  <2>2. CASE b \in Event /\ FromEvent(b) \in Stamped(stamp)[b.node]
    <3>1. "check" \notin DOMAIN b /\ b.node \in Nodes
      BY <2>2 DEF Event
    <3>2. x = MergeNodeEvent(rt[r], b, now)
      BY <3>1
    <3> HIDE DEF x
    <3> QED BY <2>1, <2>2, <3>1, <3>2, <1>3, EventSound, AgreementIsHearsay
  <2>3. CASE b \in NodeCheck /\ b.check \in Made(made)[b.node]
    <3>1. "check" \in DOMAIN b /\ b.node \in Nodes
      BY <2>3 DEF NodeCheck
    <3>2. x = MergeHealthcheck(rt[r], b.node, b.check, now)
      BY <3>1
    <3> HIDE DEF x
    <3> QED BY <2>1, <2>3, <3>1, <3>2, <1>3, CheckSound, AgreementIsHearsay
  <2> QED BY <1>2, <2>2, <2>3
<1> HIDE DEF x
<1>6. Agrees(stamp, made)' /\ AllForward /\ rt' \in [Routers -> State]
  <2>1. gossip' \ gossip = {}
    BY <1>3
  <2>2. /\ UNCHANGED <<now, agent>> /\ posts' \subseteq posts
        /\ \A q \in Routers : pulled'[q] \subseteq pulled[q] /\ checking'[q] \subseteq checking[q]
    BY <1>3
  <2> QED BY <1>1, <1>2, <1>3, <1>4, <2>1, <2>2, RouterStep
<1>7. Shape'
  BY <1>1, <1>3, <1>6 DEF Shape
<1> QED BY <1>6, <1>7 DEF Inv

\* A router merges the result of a check, whatever has become of the node.
LEMMA ResultStep ==
    ASSUME Inv, NEW r \in Routers, NEW c \in checking[r], AddHealthcheck(r, c)
    PROVE  Inv' /\ AllForward
<1> PICK stamp, made : Agrees(stamp, made)
  BY DEF Inv
<1>1. Shape
  BY DEF Inv
<1> DEFINE x == MergeHealthcheck(rt[r], c.node, c.check, now)
<1>2. c \in NodeCheck /\ c.check \in Made(made)[c.node] /\ c.node \in Nodes
  BY DEF Agrees, NodeCheck
<1>3. /\ rt[r].up /\ rt' = [rt EXCEPT ![r] = x]
      /\ checking' = [checking EXCEPT ![r] = @ \ {c}]
      /\ gossip' \subseteq gossip \cup {<<q, c>> : q \in Routers \ {r}}
      /\ UNCHANGED <<now, agent, posts, pulled, pulls>>
  BY DEF AddHealthcheck, Broadcast
<1>4. Sound(x, Stamped(stamp), Made(made)) /\ Forward(rt[r], x)
  <2>1. Sound(rt[r], Stamped(stamp), Made(made)) /\ now \in Int
    BY <1>1 DEF Agrees, Shape
  <2> QED BY <2>1, <1>2, <1>3, CheckSound, AgreementIsHearsay
<1> HIDE DEF x
<1>5. \A m \in gossip' \ gossip : m[1] \in Routers /\ m[2] = c
  BY <1>3
<1>6. Agrees(stamp, made)' /\ AllForward /\ rt' \in [Routers -> State]
  <2>1. \A m \in gossip' \ gossip : /\ m[1] \in Routers
               /\ \/ m[2] \in Event /\ FromEvent(m[2]) \in Stamped(stamp)[m[2].node]
                  \/ m[2] \in NodeCheck /\ m[2].check \in Made(made)[m[2].node]
    BY <1>2, <1>5
  <2>2. /\ UNCHANGED <<now, agent>> /\ posts' \subseteq posts
        /\ \A q \in Routers : pulled'[q] \subseteq pulled[q] /\ checking'[q] \subseteq checking[q]
    BY <1>1, <1>3 DEF Shape
  <2> QED BY <1>1, <1>3, <1>4, <2>1, <2>2, RouterStep
<1>7. Shape'
  <2>1. checking' \in [Routers -> SUBSET NodeCheck]
    BY <1>1, <1>3 DEF Shape
  <2>2. gossip' \subseteq Routers \X (Event \cup NodeCheck)
    BY <1>1, <1>2, <1>3 DEF Shape
  <2> QED BY <1>1, <1>3, <1>6, <2>1, <2>2 DEF Shape
<1> QED BY <1>6, <1>7 DEF Inv

\* A router merges the state of another that it has read.
LEMMA StateStep ==
    ASSUME Inv, NEW r \in Routers, HandleState(r)
    PROVE  Inv' /\ AllForward
<1> PICK stamp, made : Agrees(stamp, made)
  BY DEF Inv
<1>1. Shape
  BY DEF Inv
<1>2. PICK o \in pulled[r] : /\ pulled' = [pulled EXCEPT ![r] = @ \ {o}]
                             /\ rt' = [rt EXCEPT ![r] = MergeState(rt[r], o, now)]
  BY DEF HandleState
<1> DEFINE x == MergeState(rt[r], o, now)
<1>3. /\ rt[r].up
      /\ UNCHANGED <<now, agent, posts, gossip, checking, pulls>>
  BY DEF HandleState
<1>4. Sound(x, Stamped(stamp), Made(made)) /\ Forward(rt[r], x)
  <2>1. Sound(rt[r], Stamped(stamp), Made(made)) /\ now \in Int
    BY <1>1 DEF Agrees, Shape
  <2>2. HeardOf(o.agents, o.health, Stamped(stamp), Made(made))
    BY DEF Agrees
  <2> QED BY <2>1, <2>2, <1>3, OtherSound, AgreementIsHearsay
<1>5. rt' = [rt EXCEPT ![r] = x]
  BY <1>2
<1> HIDE DEF x
<1>6. Agrees(stamp, made)' /\ AllForward /\ rt' \in [Routers -> State]
  <2>1. gossip' \ gossip = {}
    BY <1>3
  <2>2. /\ UNCHANGED <<now, agent>> /\ posts' \subseteq posts
        /\ \A q \in Routers : pulled'[q] \subseteq pulled[q] /\ checking'[q] \subseteq checking[q]
    BY <1>1, <1>2, <1>3 DEF Shape
  <2> QED BY <1>1, <1>4, <1>5, <2>1, <2>2, RouterStep
<1>7. Shape'
  BY <1>1, <1>2, <1>3, <1>6 DEF Shape
<1> QED BY <1>6, <1>7 DEF Inv

\* A router evaluates a node again.
LEMMA EvaluationStep ==
    ASSUME Inv, NEW r \in Routers, NEW n \in Nodes, bgEvaluation(r, n)
    PROVE  Inv' /\ AllForward
<1> PICK stamp, made : Agrees(stamp, made)
  BY DEF Inv
<1>1. Shape
  BY DEF Inv
<1> DEFINE x == BackgroundEvaluate(rt[r], n, now)
<1>3. /\ rt[r].up /\ rt[r].pending[n] > 0
      /\ rt' = [rt EXCEPT ![r] = x]
      /\ UNCHANGED <<now, agent, posts, gossip, checking, pulled, pulls>>
  BY DEF bgEvaluation
<1>4. Sound(x, Stamped(stamp), Made(made)) /\ Forward(rt[r], x)
  <2>1. Sound(rt[r], Stamped(stamp), Made(made)) /\ now \in Int
    BY <1>1 DEF Agrees, Shape
  <2> QED BY <2>1, <1>3, BackgroundSound
<1> HIDE DEF x
<1>6. Agrees(stamp, made)' /\ AllForward /\ rt' \in [Routers -> State]
  <2>1. gossip' \ gossip = {}
    BY <1>3
  <2>2. /\ UNCHANGED <<now, agent>> /\ posts' \subseteq posts
        /\ \A q \in Routers : pulled'[q] \subseteq pulled[q] /\ checking'[q] \subseteq checking[q]
    BY <1>3
  <2> QED BY <1>1, <1>3, <1>4, <2>1, <2>2, RouterStep
<1>7. Shape'
  BY <1>1, <1>3, <1>6 DEF Shape
<1> QED BY <1>6, <1>7 DEF Inv

\* Every step keeps the invariant, and takes no router back.
LEMMA NextPreservesInv == Inv /\ [Next]_vars => Inv' /\ AllForward
<1> SUFFICES ASSUME Inv, [Next]_vars PROVE Inv' /\ AllForward
  OBVIOUS
<1>1. CASE Tick \/ UNCHANGED vars
  BY <1>1, QuietStep
<1>2. ASSUME NEW n \in Nodes, sendHeartbeat(n) \/ sendShutdown(n) PROVE Inv' /\ AllForward
  BY <1>2, SendStep
<1>3. ASSUME NEW n \in Nodes, Vanish(n) PROVE Inv' /\ AllForward
  BY <1>3, QuietStep
<1>4. ASSUME NEW m \in posts, AddNodeEvent(m[1], m[2]) PROVE Inv' /\ AllForward
  BY <1>4, PostStep
<1>5. ASSUME NEW m \in gossip, HandleMessage(m[1], m[2]) PROVE Inv' /\ AllForward
  BY <1>5, MessageStep
<1>6. ASSUME NEW r \in Routers, NEW n \in Nodes, StartCheck(r, n) PROVE Inv' /\ AllForward
  BY <1>6, StartStep
<1>7. ASSUME NEW r \in Routers, NEW n \in Nodes, bgEvaluation(r, n) PROVE Inv' /\ AllForward
  BY <1>7, EvaluationStep
<1>8. ASSUME NEW r \in Routers, NEW c \in checking[r], AddHealthcheck(r, c) PROVE Inv' /\ AllForward
  BY <1>8, ResultStep
<1>9. ASSUME NEW r \in Routers, NEW q \in Routers, ReadState(r, q) PROVE Inv' /\ AllForward
  BY <1>9, ReadStep
<1>10. ASSUME NEW r \in Routers, HandleState(r) PROVE Inv' /\ AllForward
  BY <1>10, StateStep
<1> QED BY <1>1, <1>2, <1>3, <1>4, <1>5, <1>6, <1>7, <1>8, <1>9, <1>10 DEF Next

\* The invariant holds in every reachable state.
THEOREM ClusterInvariance == Spec => []Inv
<1>1. Init => Inv
  BY InitEstablishesInv
<1>2. Inv /\ [Next]_vars => Inv'
  BY NextPreservesInv
<1> QED BY <1>1, <1>2, PTL DEF Spec

\* For any number of routers and nodes: a router routes only to nodes it has
\* routing info and enough checks for and that have not announced their shutdown,
\* and every node whose agent it knows has an evaluation ahead of it
\* (evaluateRouterChange, evaluateNode, bgEvaluationWorker).
THEOREM RoutingFollowsState == Spec => []RoutingFollows
<1>1. Inv => RoutingFollows
  <2> SUFFICES ASSUME Inv PROVE RoutingFollows
    OBVIOUS
  <2>1. PICK stamp, made : Agrees(stamp, made)
    BY DEF Inv
  <2>2. \A r \in Routers : Sound(rt[r], Stamped(stamp), Made(made)) /\ rt[r] \in State
    BY <2>1 DEF Agrees, Inv, Shape
  <2>3. TypeOK
    <3>1. ASSUME NEW r \in Routers
          PROVE  /\ rt[r].up \in BOOLEAN
                 /\ DOMAIN rt[r].agents \subseteq Nodes /\ Range(rt[r].agents) \subseteq Agent
                 /\ DOMAIN rt[r].health \subseteq Nodes
                 /\ \A n \in DOMAIN rt[r].health : rt[r].health[n] \in Seq(Check)
                 /\ rt[r].pending \in [Nodes -> Nat]
                 /\ rt[r].routing \subseteq Nodes
      <4> DEFINE s == rt[r]
      <4>1. s \in State
        BY <2>2
      <4> HIDE DEF s
      <4>2. /\ s.agents \in Known(Agent) /\ s.health \in Known(Seq(Check))
            /\ s.pending \in [Nodes -> Nat] /\ s.routing \in SUBSET Nodes
        BY <4>1, StateFields
      <4>3. s.up \in BOOLEAN
        BY <4>1 DEF State
      <4>4. DOMAIN s.agents \subseteq Nodes /\ \A n \in DOMAIN s.agents : s.agents[n] \in Agent
        BY <4>2, KnownDef
      <4>5. DOMAIN s.health \subseteq Nodes /\ \A n \in DOMAIN s.health : s.health[n] \in Seq(Check)
        BY <4>2, KnownDef
      <4>6. Range(s.agents) \subseteq Agent
        BY <4>4 DEF Range
      <4> QED BY <4>2, <4>3, <4>4, <4>5, <4>6 DEF s
    <3>2. \A r \in Routers : checking[r] \subseteq NodeCheck
      BY DEF Inv, Shape
    <3> QED BY <3>1, <3>2 DEF TypeOK, Inv, Shape
  <2>4. RoutedIsAvailable
    <3> SUFFICES ASSUME NEW r \in Routers, NEW n \in rt[r].routing
                 PROVE  /\ n \in HealthcheckTargets(rt[r])
                        /\ n \in DOMAIN rt[r].health /\ Len(rt[r].health[n]) >= MinChecks
      BY DEF RoutedIsAvailable
    <3>1. Routable(rt[r], n)
      BY <2>2 DEF Sound
    <3> QED BY <3>1 DEF Routable, HealthcheckTargets
  <2>5. AgentsAreReevaluated
    BY <2>2 DEF Sound, AgentsAreReevaluated
  <2> QED BY <2>3, <2>4, <2>5 DEF RoutingFollows
<1> QED BY <1>1, ClusterInvariance, PTL

\* For any number of routers and nodes, and any exchange of events, checks and
\* states: two routers that know the same event of a node have the same time for
\* it, and every history is in order and has each check once (Agent.MergeState,
\* History.Insert, History.Merge).
THEOREM RoutersAgree == Spec => []MergesAgree
<1>1. Inv => MergesAgree
  <2> SUFFICES ASSUME Inv PROVE MergesAgree
    OBVIOUS
  <2>1. PICK stamp, made : Agrees(stamp, made)
    BY DEF Inv
  <2>2. \A r \in Routers : rt[r] \in State /\ HeardOf(rt[r].agents, rt[r].health, Stamped(stamp), Made(made))
    BY <2>1 DEF Agrees, Inv, Shape, Sound
  <2>3. SameIndexSameEvent
    <3> SUFFICES ASSUME NEW r \in Routers, NEW q \in Routers,
                        NEW n \in DOMAIN rt[r].agents \cap DOMAIN rt[q].agents,
                        rt[r].agents[n].index = rt[q].agents[n].index
                 PROVE  rt[r].agents[n].ts = rt[q].agents[n].ts
      BY DEF SameIndexSameEvent
    <3>1. n \in Nodes
      BY <2>2, StateFields
    <3>2. rt[r].agents[n] \in Stamped(stamp)[n] /\ rt[q].agents[n] \in Stamped(stamp)[n]
      BY <2>2 DEF HeardOf
    <3> QED BY <3>1, <3>2 DEF Stamped
  <2>4. HistoryInOrder
    <3> SUFFICES ASSUME NEW r \in Routers, NEW n \in DOMAIN rt[r].health,
                        NEW i \in 1 .. Len(rt[r].health[n]) - 1
                 PROVE  rt[r].health[n][i].ts < rt[r].health[n][i + 1].ts
      BY DEF HistoryInOrder
    <3> DEFINE h == rt[r].health[n]
    <3>1. Ordered(h) /\ Len(h) \in Nat
      <4>1. h \in Seq(Made(made)[n]) /\ Ordered(h)
        BY <2>2 DEF HeardOf
      <4> QED BY <4>1, LenProperties
    <3> HIDE DEF h
    <3>2. i \in 1 .. Len(h) /\ i + 1 \in 1 .. Len(h) /\ i < i + 1
      BY <3>1 DEF h
    <3>3. h[i].ts < h[i + 1].ts
      BY <3>1, <3>2 DEF Ordered
    <3> QED BY <3>3 DEF h
  <2> QED BY <2>3, <2>4 DEF MergesAgree
<1> QED BY <1>1, ClusterInvariance, PTL

\* For any number of routers and nodes: while a router knows an agent it never
\* goes back to an older event or forgets its routing info, whatever it merges.
THEOREM RoutersNeverGoBack == Spec => NeverGoesBack
<1>1. Inv /\ [Next]_vars =>
        [\A r \in Routers : \A n \in DOMAIN rt[r].agents \cap DOMAIN rt'[r].agents :
            LET a == rt[r].agents[n]    b == rt'[r].agents[n]
            IN a.index <= b.index /\ (a.info => b.info)]_vars
  <2>1. Inv /\ [Next]_vars => AllForward
    BY NextPreservesInv
  <2> QED BY <2>1 DEF AllForward, Forward
<1> QED BY <1>1, ClusterInvariance, PTL DEF Spec, NeverGoesBack
=============================================================================
