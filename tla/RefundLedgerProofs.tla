------------------------- MODULE RefundLedgerProofs -------------------------
(***************************************************************************)
(* What the refund ledger keeps, for any order, any refunds and any number *)
(* of calls and deliveries.  The sums are the heart of it: what the ledger *)
(* counts and what Stripe gave back are totals over two sequences that are *)
(* written by different hands, and are compared by matching the rows of    *)
(* one with the refunds of the other.  The second part does the same for   *)
(* the shares of a submission's charge, in BatchRefunds.                   *)
(***************************************************************************)
EXTENDS RefundLedger, BatchRefunds, FiniteSetTheorems, TLAPS

-----------------------------------------------------------------------------
\* Totals of natural numbers.

\* Any set of natural numbers that has a member has a least one.
LEMMA LeastNatural ==
  ASSUME NEW T \in SUBSET Nat, T # {}
  PROVE  \E x \in T : \A y \in T : x <= y
<1> DEFINE Below(x) == {y \in T : y <= x}
           Belows == {Below(x) : x \in T}
<1>1. Belows \subseteq FiniteSubsetsOf(Nat)
  <2>1. ASSUME NEW x \in T PROVE IsFiniteSet(Below(x))
    <3>1. Below(x) \in SUBSET Nat /\ x \in Nat /\ \A y \in Below(x) : y <= x
      OBVIOUS
    <3> HIDE DEF Below
    <3> QED BY <3>1, FS_BoundedSetOfNaturals
  <2> QED BY <2>1 DEF FiniteSubsetsOf
<1>2. PICK U \in Belows : \A V \in Belows : <<V, U>> \notin StrictSubsetOrdering(Nat)
  <2>1. IsWellFoundedOn(StrictSubsetOrdering(Nat), FiniteSubsetsOf(Nat))
    BY FS_StrictSubsetOrderingWellFounded
  <2>2. Belows # {}
    OBVIOUS
  <2> HIDE DEF Belows
  <2> QED BY <2>1, <2>2, <1>1, WFMin
<1>3. PICK x \in T : U = Below(x)
  OBVIOUS
<1>4. ASSUME NEW y \in T, ~(x <= y) PROVE FALSE
  <2>1. x \in Nat /\ y \in Nat /\ y < x
    BY <1>4
  <2>2. \A z \in T : z <= y => z <= x
    BY <2>1
  <2>3. x \in Below(x) /\ x \notin Below(y)
    BY <2>1
  <2>5. Below(y) \subseteq Below(x)
    BY <2>2
  <2>4. Below(y) \in SUBSET Nat /\ Below(x) \in SUBSET Nat /\ Below(y) \in Belows
    OBVIOUS
  <2> HIDE DEF Below, Belows
  <2> QED BY <2>3, <2>4, <2>5, <1>2, <1>3 DEF StrictSubsetOrdering
<1> QED BY <1>3, <1>4

\* Induction along an interval, for a set: what holds first, and of the next
\* wherever it holds, holds throughout.
LEMMA IntervalInduction ==
  ASSUME NEW n \in Nat, NEW T, 0 \in T, \A k \in 1..n : k - 1 \in T => k \in T
  PROVE  n \in T /\ \A k \in 0..n : k \in T
<1> DEFINE Out == (0..n) \ T
<1>0. n \in 0..n
  OBVIOUS
<1> SUFFICES ASSUME Out # {} PROVE FALSE
  BY <1>0
<1>1. PICK x \in Out : \A y \in Out : x <= y
  <2>1. Out \in SUBSET Nat
    OBVIOUS
  <2> HIDE DEF Out
  <2> QED BY <2>1, LeastNatural
<1>2. x \in 1..n /\ x - 1 \in 0..n /\ ~(x <= x - 1)
  BY <1>1
<1> QED BY <1>1, <1>2

\* g adds up the first n values of v, one after another.
Adds(g, v, n) ==
    /\ g \in [0..n -> Nat]
    /\ g[0] = 0
    /\ \A k \in 1..n : g[k] = g[k - 1] + v[k]

\* What the first n values of v come to.
Total(v, n) == CHOOSE t : \E g : Adds(g, v, n) /\ t = g[n]

\* They can be added up.
LEMMA AddsExists ==
  ASSUME NEW n \in Nat, NEW v \in [1..n -> Nat]
  PROVE  \E g : Adds(g, v, n)
<1> DEFINE T == {m \in 0..n : \E g : Adds(g, v, m)}
<1>1. 0 \in T
  <2>1. Adds([k \in 0..0 |-> 0], v, 0)
    BY DEF Adds
  <2> QED BY <2>1
<1>2. ASSUME NEW m \in 1..n, m - 1 \in T PROVE m \in T
  <2>1. PICK g : Adds(g, v, m - 1)
    BY <1>2
  <2> DEFINE h == [k \in 0..m |-> IF k = m THEN g[m - 1] + v[m] ELSE g[k]]
  <2>2. m \in Nat /\ m - 1 \in 0..(m - 1) /\ v[m] \in Nat /\ m # 0
    OBVIOUS
  <2>3. \A k \in 0..m : k = m \/ k \in 0..(m - 1)
    BY <2>2
  <2>4. \A k \in 0..m : h[k] \in Nat
    BY <2>1, <2>2, <2>3 DEF Adds
  <2>5. h \in [0..m -> Nat] /\ h[0] = 0
    BY <2>1, <2>2, <2>4 DEF Adds
  <2>6. \A k \in 1..m : h[k] = h[k - 1] + v[k]
    BY <2>1, <2>2, <2>3 DEF Adds
  <2>7. Adds(h, v, m)
    BY <2>5, <2>6 DEF Adds
  <2> QED BY <2>7
<1>3. n \in T
  <2> HIDE DEF T
  <2> QED BY <1>1, <1>2, IntervalInduction
<1> QED BY <1>3

\* Values that agree come to the same, however they were added up.
LEMMA AddsAgree ==
  ASSUME NEW n \in Nat, NEW v \in [1..n -> Nat], NEW w, \A k \in 1..n : w[k] = v[k],
         NEW g, NEW h, Adds(g, v, n), Adds(h, w, n)
  PROVE  \A k \in 0..n : g[k] = h[k]
<1> DEFINE T == {k \in 0..n : g[k] = h[k]}
<1>1. 0 \in T
  BY DEF Adds
<1>2. ASSUME NEW m \in 1..n, m - 1 \in T PROVE m \in T
  <2>1. g[m] = g[m - 1] + v[m] /\ h[m] = h[m - 1] + w[m] /\ w[m] = v[m]
    BY DEF Adds
  <2> QED BY <1>2, <2>1
<1>3. \A k \in 0..n : k \in T
  <2> HIDE DEF T
  <2> QED BY <1>1, <1>2, IntervalInduction
<1> QED BY <1>3

\* A total is what any way of adding up comes to.
LEMMA TotalIs ==
  ASSUME NEW n \in Nat, NEW v \in [1..n -> Nat], NEW g, Adds(g, v, n)
  PROVE  Total(v, n) = g[n] /\ Total(v, n) \in Nat
<1>1. \A t : (\E h : Adds(h, v, n) /\ t = h[n]) => t = g[n]
  BY AddsAgree
<1>2. Total(v, n) = g[n]
  BY <1>1 DEF Total
<1>3. g[n] \in Nat
  BY DEF Adds
<1> QED BY <1>2, <1>3

\* A total of naturals is a natural.
LEMMA TotalType ==
  ASSUME NEW n \in Nat, NEW v \in [1..n -> Nat]
  PROVE  Total(v, n) \in Nat
BY AddsExists, TotalIs

\* Of nothing it is nothing.
LEMMA TotalOfNone ==
  ASSUME NEW v
  PROVE  Total(v, 0) = 0
<1>1. Adds([k \in 0..0 |-> 0], v, 0)
  BY DEF Adds
<1>2. \A g : Adds(g, v, 0) => g[0] = 0
  BY DEF Adds
<1> QED BY <1>1, <1>2 DEF Total

\* One more value adds itself.
LEMMA TotalNext ==
  ASSUME NEW n \in Nat, NEW v \in [1..n -> Nat], NEW w \in [1..(n + 1) -> Nat],
         \A k \in 1..n : w[k] = v[k]
  PROVE  Total(w, n + 1) = Total(v, n) + w[n + 1]
<1>1. PICK h : Adds(h, w, n + 1)
  BY AddsExists
<1> DEFINE g == [k \in 0..n |-> h[k]]
<1>2. Adds(g, v, n)
  BY <1>1 DEF Adds
<1>3. Total(v, n) = h[n]
  BY <1>2, TotalIs
<1>4. Total(w, n + 1) = h[n + 1]
  BY <1>1, TotalIs
<1>5. h[n + 1] = h[n] + w[n + 1]
  BY <1>1 DEF Adds
<1> QED BY <1>3, <1>4, <1>5

\* Values that agree come to the same.
LEMMA TotalSame ==
  ASSUME NEW n \in Nat, NEW v \in [1..n -> Nat], NEW w \in [1..n -> Nat],
         \A k \in 1..n : w[k] = v[k]
  PROVE  Total(w, n) = Total(v, n)
<1>1. v = w
  OBVIOUS
<1> QED BY <1>1

\* Values that differ at one place come to totals that differ by as much.
LEMMA TotalAt ==
  ASSUME NEW n \in Nat, NEW v \in [1..n -> Nat], NEW w \in [1..n -> Nat],
         NEW j \in 1..n, \A k \in 1..n : k # j => w[k] = v[k]
  PROVE  Total(w, n) + v[j] = Total(v, n) + w[j]
<1>1. PICK g : Adds(g, v, n)
  BY AddsExists
<1>2. PICK h : Adds(h, w, n)
  BY AddsExists
<1> DEFINE T == {k \in 0..n : h[k] + (IF k < j THEN 0 ELSE v[j]) = g[k] + (IF k < j THEN 0 ELSE w[j])}
<1>3. 0 \in T
  BY <1>1, <1>2 DEF Adds
<1>4. ASSUME NEW m \in 1..n, m - 1 \in T PROVE m \in T
  <2>1. /\ g[m] = g[m - 1] + v[m] /\ h[m] = h[m - 1] + w[m]
        /\ g[m - 1] \in Nat /\ h[m - 1] \in Nat /\ g[m] \in Nat /\ h[m] \in Nat
        /\ v[m] \in Nat /\ w[m] \in Nat /\ v[j] \in Nat /\ w[j] \in Nat
    BY <1>1, <1>2 DEF Adds
  <2>2. CASE m < j
    BY <1>4, <2>1, <2>2
  <2>3. CASE m = j
    <3>1. m - 1 < j /\ ~(m < j)
      BY <2>3
    <3>2. h[m - 1] = g[m - 1]
      BY <1>4, <2>1, <3>1
    <3>3. h[m] + v[j] = g[m] + w[j]
      BY <2>1, <2>3, <3>2
    <3> QED BY <3>1, <3>3
  <2>4. CASE m > j
    <3>1. w[m] = v[m] /\ ~(m - 1 < j) /\ ~(m < j)
      BY <2>4
    <3>2. h[m - 1] + v[j] = g[m - 1] + w[j]
      BY <1>4, <3>1
    <3>3. h[m] + v[j] = g[m] + w[j]
      <4>1. h[m] = h[m - 1] + v[m]
        BY <2>1, <3>1
      <4>2. h[m] + v[j] = (h[m - 1] + v[j]) + v[m]
        BY <2>1, <4>1
      <4>3. g[m] + w[j] = (g[m - 1] + w[j]) + v[m]
        BY <2>1
      <4> QED BY <3>2, <4>2, <4>3
    <3> QED BY <3>1, <3>3
  <2> QED BY <2>2, <2>3, <2>4
<1>5. n \in T
  <2> HIDE DEF T
  <2> QED BY <1>3, <1>4, IntervalInduction
<1>6. Total(v, n) = g[n] /\ Total(w, n) = h[n]
  BY <1>1, <1>2, TotalIs
<1> QED BY <1>5, <1>6

\* A total of sums is the sum of the totals.
LEMMA TotalPlus ==
  ASSUME NEW n \in Nat, NEW u \in [1..n -> Nat], NEW v \in [1..n -> Nat],
         NEW w \in [1..n -> Nat], \A k \in 1..n : u[k] = v[k] + w[k]
  PROVE  Total(u, n) = Total(v, n) + Total(w, n)
<1>1. PICK g : Adds(g, v, n)
  BY AddsExists
<1>2. PICK h : Adds(h, w, n)
  BY AddsExists
<1> DEFINE f == [k \in 0..n |-> g[k] + h[k]]
<1>3. Adds(f, u, n)
  <2>1. f \in [0..n -> Nat] /\ f[0] = 0
    BY <1>1, <1>2 DEF Adds
  <2>2. ASSUME NEW k \in 1..n PROVE f[k] = f[k - 1] + u[k]
    <3>1. /\ g[k] = g[k - 1] + v[k] /\ h[k] = h[k - 1] + w[k]
          /\ g[k - 1] \in Nat /\ h[k - 1] \in Nat /\ v[k] \in Nat /\ w[k] \in Nat
          /\ k \in 0..n /\ k - 1 \in 0..n
      BY <1>1, <1>2 DEF Adds
    <3> QED BY <3>1
  <2> QED BY <2>1, <2>2 DEF Adds
<1>4. f[n] = g[n] + h[n]
  OBVIOUS
<1> HIDE DEF f
<1> QED BY <1>1, <1>2, <1>3, <1>4, TotalIs

\* Values each found, as much or more, at a place of its own come to no more.
LEMMA TotalInjects ==
  ASSUME NEW m \in Nat, NEW v \in [1..m -> Nat], NEW n \in Nat, NEW w \in [1..n -> Nat], NEW j,
         \A i \in 1..m : v[i] # 0 => j[i] \in 1..n /\ v[i] <= w[j[i]],
         \A i, k \in 1..m : v[i] # 0 /\ v[k] # 0 /\ j[i] = j[k] => i = k
  PROVE  Total(v, m) <= Total(w, n)
<1> DEFINE Fits(x, l) == \A i \in 1..l : v[i] # 0 => v[i] <= x[j[i]]
           v1(l) == [i \in 1..l |-> v[i]]
           T == {l \in 0..m : \A x \in [1..n -> Nat] : Fits(x, l) => Total(v1(l), l) <= Total(x, n)}
<1>1. 0 \in T
  <2>1. Total(v1(0), 0) = 0
    BY TotalOfNone
  <2>2. \A x \in [1..n -> Nat] : Total(x, n) \in Nat
    BY TotalType
  <2> QED BY <2>1, <2>2
<1>2. ASSUME NEW l \in 1..m, l - 1 \in T PROVE l \in T
  <2> SUFFICES \A x \in [1..n -> Nat] : Fits(x, l) => Total(v1(l), l) <= Total(x, n)
    <3>1. l \in 0..m
      OBVIOUS
    <3> HIDE DEF v1, Fits
    <3> QED BY <3>1, Zenon
  <2> TAKE x \in [1..n -> Nat]
  <2> HAVE Fits(x, l)
  <2>1. Total(v1(l), l) = Total(v1(l - 1), l - 1) + v[l]
    <3>1. PICK p \in Nat : l = p + 1 /\ l - 1 = p
      <4>1. l - 1 \in Nat /\ l = (l - 1) + 1
        OBVIOUS
      <4> QED BY <4>1
    <3>2. v1(p) \in [1..p -> Nat] /\ v1(p + 1) \in [1..(p + 1) -> Nat]
      BY <3>1
    <3>3. (\A k \in 1..p : v1(p + 1)[k] = v1(p)[k]) /\ v1(p + 1)[p + 1] = v[l]
      BY <3>1
    <3> HIDE DEF v1
    <3>4. Total(v1(p + 1), p + 1) = Total(v1(p), p) + v1(p + 1)[p + 1]
      BY <3>2, <3>3, TotalNext
    <3> QED BY <3>1, <3>3, <3>4
  <2>2. Total(v1(l - 1), l - 1) \in Nat /\ v[l] \in Nat /\ Total(x, n) \in Nat
    <3>1. l - 1 \in Nat /\ v1(l - 1) \in [1..(l - 1) -> Nat]
      OBVIOUS
    <3> HIDE DEF v1
    <3> QED BY <3>1, TotalType
  <2>3. CASE v[l] = 0
    <3>1. Fits(x, l - 1)
      OBVIOUS
    <3>2. Total(v1(l - 1), l - 1) <= Total(x, n)
      BY <1>2, <3>1
    <3> HIDE DEF v1
    <3> QED BY <2>1, <2>2, <2>3, <3>2
  <2>4. CASE v[l] # 0
    <3> DEFINE y == [x EXCEPT ![j[l]] = 0]
    <3>1. j[l] \in 1..n /\ v[l] <= x[j[l]] /\ x[j[l]] \in Nat
      BY <2>4
    <3>2. y \in [1..n -> Nat] /\ y[j[l]] = 0 /\ \A k \in 1..n : k # j[l] => y[k] = x[k]
      BY <3>1
    <3>3. Fits(y, l - 1)
      <4> SUFFICES ASSUME NEW i \in 1..(l - 1), v[i] # 0 PROVE v[i] <= y[j[i]]
        OBVIOUS
      <4>1. i \in 1..m /\ l \in 1..m /\ i # l
        OBVIOUS
      <4>2. j[i] # j[l] /\ j[i] \in 1..n
        BY <4>1, <2>4
      <4> QED BY <4>1, <4>2, <3>2
    <3> HIDE DEF y
    <3>4. Total(v1(l - 1), l - 1) <= Total(y, n)
      BY <1>2, <3>2, <3>3
    <3>5. Total(y, n) + x[j[l]] = Total(x, n) + 0
      BY <3>1, <3>2, TotalAt
    <3>6. Total(y, n) \in Nat
      BY <3>2, TotalType
    <3> QED BY <2>1, <2>2, <3>1, <3>4, <3>5, <3>6
  <2> QED BY <2>3, <2>4
<1>3. m \in T
  <2> HIDE DEF T
  <2> QED BY <1>1, <1>2, IntervalInduction
<1>4. v1(m) = v
  OBVIOUS
<1> QED BY <1>3, <1>4

\* No value larger, no larger total.
LEMMA TotalGrows ==
  ASSUME NEW n \in Nat, NEW v \in [1..n -> Nat], NEW w \in [1..n -> Nat],
         \A k \in 1..n : v[k] <= w[k]
  PROVE  Total(v, n) <= Total(w, n)
<1> DEFINE j == [k \in 1..n |-> k]
<1>1. /\ \A i \in 1..n : v[i] # 0 => j[i] \in 1..n /\ v[i] <= w[j[i]]
      /\ \A i, k \in 1..n : v[i] # 0 /\ v[k] # 0 /\ j[i] = j[k] => i = k
  OBVIOUS
<1> HIDE DEF j
<1> QED BY <1>1, TotalInjects

-----------------------------------------------------------------------------
\* Sequences that grow or change at one place, and what they count for.

\* What appending leaves alone, and what it adds.
LEMMA Grown ==
  ASSUME NEW S, NEW s \in Seq(S), NEW x \in S, NEW t, t = Append(s, x)
  PROVE  /\ t \in Seq(S) /\ Len(s) \in Nat /\ Len(t) = Len(s) + 1
         /\ DOMAIN s = 1..Len(s) /\ DOMAIN t = 1..(Len(s) + 1)
         /\ t[Len(s) + 1] = x /\ \A k \in 1..Len(s) : t[k] = s[k]
  OBVIOUS

\* What changing one place leaves alone.
LEMMA Changed ==
  ASSUME NEW S, NEW s \in Seq(S), NEW j \in DOMAIN s, NEW x \in S, NEW t,
         t = [s EXCEPT ![j] = x]
  PROVE  /\ t \in Seq(S) /\ Len(s) \in Nat /\ Len(t) = Len(s)
         /\ DOMAIN s = 1..Len(s) /\ DOMAIN t = DOMAIN s
         /\ t[j] = x /\ \A k \in DOMAIN s : k # j => t[k] = s[k]
  OBVIOUS

\* What a row or a refund counts for, and the ledger's sums as totals.
Worth(x) == IF Counts(x.status) THEN x.amount ELSE 0
Worths(s) == [k \in 1..Len(s) |-> Worth(s[k])]

\* What a ledger counts is the total of what its rows are worth.
LEMMA CentsOfTotal ==
  ASSUME NEW s, Len(s) \in Nat, \A k \in 1..Len(s) : s[k].amount \in Nat
  PROVE  /\ Worths(s) \in [1..Len(s) -> Nat]
         /\ CentsOf(s) = Total(Worths(s), Len(s))
<1> DEFINE n == Len(s)
           Runs(g) == g = [k \in 0..n |->
              IF k = 0 THEN 0
              ELSE g[k - 1] + IF Counts(s[k].status) THEN s[k].amount ELSE 0]
           sum == CHOOSE g : Runs(g)
<1>1. n \in Nat /\ Worths(s) \in [1..n -> Nat]
  BY DEF Worths, Worth
<1>2. CentsOf(s) = sum[n]
  BY DEF CentsOf
<1>3. PICK h : Adds(h, Worths(s), n)
  <2> HIDE DEF n
  <2> QED BY <1>1, AddsExists
<1>4. Runs(h)
  <2>1. h \in [0..n -> Nat] /\ h[0] = 0 /\ \A k \in 1..n : h[k] = h[k - 1] + Worth(s[k])
    BY <1>1, <1>3 DEF Adds, Worths
  <2> QED BY <1>1, <2>1 DEF Worth
<1>5. Runs(sum)
  <2> HIDE DEF Runs
  <2> QED BY <1>4
<1>6. /\ sum = [k \in 0..n |-> sum[k]]
      /\ sum[0] = 0
      /\ \A k \in 1..n : sum[k] = sum[k - 1] + Worths(s)[k]
  <2> HIDE DEF sum
  <2>1. sum = [k \in 0..n |-> sum[k]]
    BY <1>5
  <2>2. sum[0] = 0
    BY <1>1, <1>5
  <2>3. ASSUME NEW k \in 1..n PROVE sum[k] = sum[k - 1] + Worths(s)[k]
    <3>1. k \in 0..n /\ k # 0 /\ Worths(s)[k] = Worth(s[k])
      BY <1>1 DEF Worths
    <3> QED BY <1>5, <3>1 DEF Worth
  <2> QED BY <2>1, <2>2, <2>3
<1> DEFINE T == {m \in 0..n : sum[m] \in Nat}
<1>7. 0 \in T
  <2> HIDE DEF sum, n
  <2> QED BY <1>1, <1>6
<1>8. ASSUME NEW m \in 1..n, m - 1 \in T PROVE m \in T
  <2> HIDE DEF sum, n
  <2>1. sum[m] = sum[m - 1] + Worths(s)[m] /\ Worths(s)[m] \in Nat /\ sum[m - 1] \in Nat
    BY <1>1, <1>6, <1>8
  <2> QED BY <1>1, <2>1
<1>9. \A m \in 0..n : sum[m] \in Nat
  <2>1. \A m \in 0..n : m \in T
    <3> HIDE DEF T, sum, n
    <3> QED BY <1>1, <1>7, <1>8, IntervalInduction
  <2> QED BY <2>1
<1>10. Adds(sum, Worths(s), n)
  <2> HIDE DEF sum, n
  <2> QED BY <1>6, <1>9 DEF Adds
<1> QED
  <2> HIDE DEF sum, n
  <2>1. Total(Worths(s), n) = sum[n]
    BY <1>1, <1>10, TotalIs
  <2> QED BY <1>1, <1>2, <2>1 DEF n

\* One more row counts for what it is worth.
LEMMA CentsGrown ==
  ASSUME NEW S, NEW s \in Seq(S), NEW x \in S, \A y \in S : y.amount \in Nat
  PROVE  CentsOf(Append(s, x)) = CentsOf(s) + Worth(x) /\ CentsOf(s) \in Nat
<1> DEFINE t == Append(s, x)
<1>1. /\ t \in Seq(S) /\ Len(s) \in Nat /\ Len(t) = Len(s) + 1
      /\ t[Len(s) + 1] = x /\ \A k \in 1..Len(s) : t[k] = s[k]
  OBVIOUS
<1> HIDE DEF t
<1>2. /\ \A k \in 1..Len(s) : s[k].amount \in Nat
      /\ \A k \in 1..Len(t) : t[k].amount \in Nat
  BY <1>1
<1>3. /\ Worths(s) \in [1..Len(s) -> Nat] /\ CentsOf(s) = Total(Worths(s), Len(s))
      /\ Worths(t) \in [1..Len(t) -> Nat] /\ CentsOf(t) = Total(Worths(t), Len(t))
  BY <1>1, <1>2, CentsOfTotal
<1>4. Worths(t)[Len(s) + 1] = Worth(x) /\ \A k \in 1..Len(s) : Worths(t)[k] = Worths(s)[k]
  BY <1>1 DEF Worths
<1>5. Total(Worths(t), Len(s) + 1) = Total(Worths(s), Len(s)) + Worths(t)[Len(s) + 1]
  BY <1>1, <1>3, <1>4, TotalNext
<1>6. Total(Worths(s), Len(s)) \in Nat
  BY <1>1, <1>3, TotalType
<1> QED BY <1>1, <1>3, <1>4, <1>5, <1>6 DEF t

\* One row changed changes the count by as much.
LEMMA CentsChanged ==
  ASSUME NEW S, NEW s \in Seq(S), NEW j \in DOMAIN s, NEW x \in S, \A y \in S : y.amount \in Nat
  PROVE  LET t == [s EXCEPT ![j] = x]
         IN  /\ CentsOf(t) + Worth(s[j]) = CentsOf(s) + Worth(x)
             /\ CentsOf(t) \in Nat /\ CentsOf(s) \in Nat
<1> DEFINE t == [s EXCEPT ![j] = x]
<1>1. /\ t \in Seq(S) /\ Len(s) \in Nat /\ Len(t) = Len(s) /\ j \in 1..Len(s)
      /\ t[j] = x /\ \A k \in 1..Len(s) : k # j => t[k] = s[k]
  OBVIOUS
<1> HIDE DEF t
<1>2. /\ \A k \in 1..Len(s) : s[k].amount \in Nat
      /\ \A k \in 1..Len(t) : t[k].amount \in Nat
  BY <1>1
<1>3. /\ Worths(s) \in [1..Len(s) -> Nat] /\ CentsOf(s) = Total(Worths(s), Len(s))
      /\ Worths(t) \in [1..Len(s) -> Nat] /\ CentsOf(t) = Total(Worths(t), Len(s))
  BY <1>1, <1>2, CentsOfTotal
<1>4. /\ Worths(t)[j] = Worth(x) /\ Worths(s)[j] = Worth(s[j])
      /\ \A k \in 1..Len(s) : k # j => Worths(t)[k] = Worths(s)[k]
  BY <1>1 DEF Worths
<1>5. Total(Worths(t), Len(s)) + Worths(s)[j] = Total(Worths(s), Len(s)) + Worths(t)[j]
  BY <1>1, <1>3, <1>4, TotalAt
<1>6. Total(Worths(s), Len(s)) \in Nat /\ Total(Worths(t), Len(s)) \in Nat
  BY <1>1, <1>3, TotalType
<1> QED BY <1>3, <1>4, <1>5, <1>6 DEF t

\* What a sequence counts for is a natural number.
LEMMA CentsType ==
  ASSUME NEW S, NEW s \in Seq(S), \A y \in S : y.amount \in Nat
  PROVE  CentsOf(s) \in Nat
<1>1. Len(s) \in Nat /\ \A k \in 1..Len(s) : s[k].amount \in Nat
  OBVIOUS
<1> QED BY <1>1, CentsOfTotal, TotalType

-----------------------------------------------------------------------------
\* The inductive invariant.

RefSet == [kind : {"reserved", "failed", "refund", "event"}, of : Nat]
Row == [amount : 1..Paid, status : Statuses, ref : RefSet]
Refund == [amount : 1..Paid, key : {"dashboard", "platform"},
           status : {"pending", "succeeded", "failed"}, answered : {"pending", "succeeded"}]
Event == [kind : {"charge.refunded", "charge.refund.updated"}, total : 0..Paid, refund : Nat,
          status : {"none", "succeeded", "failed"}, state : {"sent", "recorded"}]
CallState == [step : {"idle", "reserving", "asking", "settling", "closing", "reversing"},
              amount : 0..Paid, row : Nat, answer : Nat, close : BOOLEAN]
DeliveryState == [step : {"idle", "applying", "telling"}, event : Nat, prior : Nat, row : Nat,
                  status : Statuses \cup {"none"}, close : BOOLEAN]

\* Every variable has its type.
Shape ==
    /\ order \in {"in_fulfilment", "refunded"}
    /\ rows \in Seq(Row)
    /\ refunds \in Seq(Refund)
    /\ events \in Seq(Event)
    /\ reversed \in 0..Paid
    /\ told \subseteq DOMAIN refunds
    /\ call \in [Calls -> CallState]
    /\ delivery \in [Deliveries -> DeliveryState]
    /\ faults \in 0..MaxFaults

Fails(e, r) == events[e].status = "failed" /\ events[e].refund = r
FailureRecorded(r) == \E e \in DOMAIN events : Fails(e, r) /\ events[e].state = "recorded"

\* An event is of the charge's new total or of one refund's new status, and a
\* refund fails once and says so once.
EventFits(e) ==
    \/ /\ events[e].kind = "charge.refunded"
       /\ events[e].refund = 0 /\ events[e].status = "none"
    \/ /\ events[e].kind = "charge.refund.updated"
       /\ events[e].refund \in DOMAIN refunds /\ events[e].status # "none"
       /\ events[e].total = 0
       /\ events[e].status = "failed" => refunds[events[e].refund].status = "failed"
EventsFit ==
    /\ \A e \in DOMAIN events : EventFits(e)
    /\ \A d, e \in DOMAIN events : \A r \in DOMAIN refunds : Fails(d, r) /\ Fails(e, r) => d = e
    /\ \A r \in DOMAIN refunds :
          refunds[r].status = "failed" => \E e \in DOMAIN events : Fails(e, r)

\* A row is what its reference says: one reserved here, one whose call failed, one
\* for a refund of the platform's, or one for an event about a refund made outside.
OfRefund(k) ==
    LET r == rows[k].ref.of
    IN  /\ r \in DOMAIN refunds
        /\ refunds[r].key = "platform" /\ refunds[r].amount = rows[k].amount
        /\ Counts(rows[k].status) \/ (rows[k].status = "failed" /\ FailureRecorded(r))
RowFits(k) ==
    \/ rows[k].ref = Reserved /\ rows[k].status \in {"pending", "cancelled"}
    \/ rows[k].ref = FailedCall /\ rows[k].status = "failed"
    \/ rows[k].ref.kind = "refund" /\ OfRefund(k)
    \/ /\ rows[k].ref.kind = "event" /\ rows[k].ref.of \in DOMAIN events
       /\ rows[k].status = "succeeded"
RowsFit ==
    /\ \A k \in DOMAIN rows : RowFits(k)
    /\ \A j, k \in DOMAIN rows :
          rows[j].ref.kind = "refund" /\ rows[k].ref = rows[j].ref => j = k

\* A call that asks holds a reserved row of its own, one that follows holds a row
\* with a refund's name.
Asks(c) == call[c].step \in {"asking", "settling"}
Follows(c) == call[c].step \in {"closing", "reversing"}
Holds(c) == Asks(c) \/ Follows(c)
CallFits(c) ==
    /\ call[c].row \in 0..Len(rows) /\ call[c].answer \in 0..Len(refunds)
    /\ call[c].step # "idle" => call[c].amount > 0
    /\ Holds(c) => /\ call[c].row \in DOMAIN rows
                   /\ rows[call[c].row].amount = call[c].amount
    /\ Asks(c) => /\ rows[call[c].row].ref = Reserved
                  /\ rows[call[c].row].status = "pending"
    /\ call[c].step = "settling" /\ call[c].answer # 0 =>
          /\ refunds[call[c].answer].key = "platform"
          /\ refunds[call[c].answer].amount = call[c].amount
    /\ Follows(c) => rows[call[c].row].ref.kind = "refund"
CallsFit ==
    /\ \A c \in Calls : CallFits(c)
    /\ \A b, c \in Calls : Holds(b) /\ Holds(c) /\ call[b].row = call[c].row => b = c

DeliveriesFit ==
    \A d \in Deliveries :
       /\ delivery[d].event \in 0..Len(events)
       /\ delivery[d].step # "idle" => delivery[d].event \in DOMAIN events
       /\ delivery[d].step = "telling" => events[delivery[d].event].status = "failed"

\* Where nothing stopped, a row is reserved only while it is asked for, and a refund
\* of the platform's has a row or a call about to write it.
HeldBy(k) == \E c \in Calls : Asks(c) /\ call[c].row = k
NamedFor(r) == \E k \in DOMAIN rows : rows[k].ref = Ref("refund", r)
AnswerOf(r) == \E c \in Calls : call[c].step = "settling" /\ call[c].answer = r
Held ==
    faults = 0 =>
       /\ \A k \in DOMAIN rows :
             rows[k].ref = Reserved /\ rows[k].status = "pending" => HeldBy(k)
       /\ \A r \in DOMAIN refunds :
             refunds[r].key = "platform" => NamedFor(r) \/ AnswerOf(r)

\* A failure on record was told or is being told.
TellingOf(e) == \E d \in Deliveries : delivery[d].step = "telling" /\ delivery[d].event = e
FailuresTold ==
    faults = 0 =>
       \A e \in DOMAIN events :
          events[e].status = "failed" /\ events[e].state = "recorded" =>
             events[e].refund \in told \/ TellingOf(e)

\* A refunded order has a row for a refund there was.
ClosedFor == order = "refunded" => \E k \in DOMAIN rows : rows[k].ref.kind \in {"refund", "event"}

\* While no refund failed, the last event says what Stripe gave back; while no row
\* fell, the ledger holds what every recorded event said.
Totals ==
    /\ GivenBack <= Paid
    /\ NoneFell => \A e \in DOMAIN events : events[e].total <= GivenBack
    /\ NoneFell => \/ GivenBack = 0
                   \/ \E e \in DOMAIN events : events[e].total = GivenBack
    /\ AllStand => \A e \in DOMAIN events :
                      events[e].state = "recorded" => events[e].total <= Counted

\* The rows whose commission was reversed, or whose call stopped before it was.
Reversed(k) ==
    \/ rows[k].ref.kind = "event"
    \/ rows[k].ref.kind = "refund" /\ ~\E c \in Calls : Follows(c) /\ call[c].row = k
ReversedRows == [k \in 1..Len(rows) |-> IF Reversed(k) THEN rows[k].amount ELSE 0]
ReversedFit == reversed <= Total(ReversedRows, Len(rows))

\* The rows written for events, and the refunds made outside the platform.
EventRows == [k \in 1..Len(rows) |-> IF rows[k].ref.kind = "event" THEN rows[k].amount ELSE 0]
Outside == [r \in 1..Len(refunds) |-> IF refunds[r].key = "dashboard" THEN refunds[r].amount ELSE 0]
OutsideFit ==
    faults = 0 /\ NoneFell => Total(EventRows, Len(rows)) <= Total(Outside, Len(refunds))

RInv ==
    /\ Shape /\ EventsFit /\ RowsFit /\ CallsFit /\ DeliveriesFit
    /\ Held /\ FailuresTold /\ ClosedFor /\ Totals /\ ReversedFit /\ OutsideFit

\* Nothing was refunded, recorded or asked for.
LEMMA InitRInv == Init => RInv
<1> SUFFICES ASSUME Init PROVE RInv
  OBVIOUS
<1> USE RefundAssumption
<1>1. Shape
  BY DEF Init, Shape, CallState, DeliveryState, IdleCall, IdleDelivery
<1>2. Len(rows) = 0 /\ Len(refunds) = 0
  BY DEF Init
<1>3. CentsOf(rows) = 0 /\ CentsOf(refunds) = 0
  <2>1. CentsOf(<<>>) = Total(Worths(<<>>), 0)
    BY CentsOfTotal
  <2> QED BY <2>1, TotalOfNone DEF Init
<1>4. Total(ReversedRows, Len(rows)) = 0 /\ Total(EventRows, Len(rows)) = 0
      /\ Total(Outside, Len(refunds)) = 0
  BY <1>2, TotalOfNone
<1>5. EventsFit /\ RowsFit /\ CallsFit /\ DeliveriesFit /\ Held /\ FailuresTold /\ ClosedFor
  BY DEF Init, EventsFit, RowsFit, CallsFit, CallFits, DeliveriesFit, Held, FailuresTold,
         ClosedFor, IdleCall, IdleDelivery, Asks, Follows, Holds
<1>6. Totals /\ ReversedFit /\ OutsideFit
  BY <1>3, <1>4 DEF Init, Totals, ReversedFit, OutsideFit, Counted, GivenBack
<1> QED BY <1>1, <1>5, <1>6 DEF RInv

\* What is compared depends on nothing else.
LEMMA Frames ==
  ASSUME RInv
  PROVE  /\ UNCHANGED <<events, refunds>> => EventsFit'
         /\ UNCHANGED <<events, refunds, rows>> => RowsFit' /\ Totals'
         /\ UNCHANGED <<rows, refunds, call>> => CallsFit'
         /\ UNCHANGED <<delivery, events>> => DeliveriesFit'
         /\ UNCHANGED <<rows, refunds, call, faults>> => Held'
         /\ UNCHANGED <<events, told, delivery, faults>> => FailuresTold'
         /\ UNCHANGED <<order, rows>> => ClosedFor'
         /\ UNCHANGED <<rows, call, reversed>> => ReversedFit'
         /\ UNCHANGED <<rows, refunds, faults>> => OutsideFit'
<1>1. UNCHANGED <<events, refunds>> => EventsFit'
  BY DEF RInv, EventsFit, EventFits, Fails
<1>2. UNCHANGED <<events, refunds, rows>> => RowsFit'
  BY DEF RInv, RowsFit, RowFits, OfRefund, FailureRecorded, Fails
<1>3. UNCHANGED <<events, refunds, rows>> => Totals'
  BY DEF RInv, Totals, GivenBack, Counted, NoneFell, AllStand
<1>4. UNCHANGED <<rows, refunds, call>> => CallsFit'
  BY DEF RInv, CallsFit, CallFits, Asks, Follows, Holds
<1>5. UNCHANGED <<delivery, events>> => DeliveriesFit'
  BY DEF RInv, DeliveriesFit
<1>6. UNCHANGED <<rows, refunds, call, faults>> => Held'
  BY DEF RInv, Held, HeldBy, NamedFor, AnswerOf, Asks
<1>7. UNCHANGED <<events, told, delivery, faults>> => FailuresTold'
  BY DEF RInv, FailuresTold, TellingOf
<1>8. UNCHANGED <<order, rows>> => ClosedFor'
  BY DEF RInv, ClosedFor
<1>9. UNCHANGED <<rows, call, reversed>> => ReversedFit'
  BY DEF RInv, ReversedFit, ReversedRows, Reversed, Follows
<1>10. UNCHANGED <<rows, refunds, faults>> => OutsideFit'
  BY DEF RInv, OutsideFit, EventRows, Outside, NoneFell
<1> QED BY <1>1, <1>2, <1>3, <1>4, <1>5, <1>6, <1>7, <1>8, <1>9, <1>10

-----------------------------------------------------------------------------
\* What Stripe does.

\* What was given back, and what is counted, are numbers.
LEMMA Amounts ==
  ASSUME RInv
  PROVE  /\ GivenBack \in Nat /\ Counted \in Nat
         /\ \A x \in Row : x.amount \in Nat /\ x.amount > 0 /\ x.amount <= Paid
         /\ \A x \in Refund : x.amount \in Nat /\ x.amount > 0
<1>1. /\ \A x \in Row : x.amount \in Nat /\ x.amount > 0 /\ x.amount <= Paid
      /\ \A x \in Refund : x.amount \in Nat /\ x.amount > 0
  BY RefundAssumption DEF Row, Refund
<1>2. rows \in Seq(Row) /\ refunds \in Seq(Refund)
  BY DEF RInv, Shape
<1>3. GivenBack \in Nat
  BY <1>1, <1>2, CentsType DEF GivenBack
<1>4. Counted \in Nat
  BY <1>1, <1>2, CentsType DEF Counted
<1> QED BY <1>1, <1>3, <1>4

\* A refund made is one more, with one more event that tells the new total.
LEMMA MadeEffects ==
  ASSUME RInv, NEW amount \in 1..Paid, NEW key \in {"dashboard", "platform"},
         NEW status \in {"pending", "succeeded"}, Made(amount, key, status)
  PROVE  /\ refunds' \in Seq(Refund) /\ events' \in Seq(Event)
         /\ Len(refunds) \in Nat /\ Len(refunds') = Len(refunds) + 1
         /\ DOMAIN refunds = 1..Len(refunds) /\ DOMAIN refunds' = 1..(Len(refunds) + 1)
         /\ refunds'[Len(refunds) + 1] = [amount |-> amount, key |-> key, status |-> status,
                                          answered |-> status]
         /\ \A r \in 1..Len(refunds) : refunds'[r] = refunds[r]
         /\ Len(events) \in Nat /\ Len(events') = Len(events) + 1
         /\ DOMAIN events = 1..Len(events) /\ DOMAIN events' = 1..(Len(events) + 1)
         /\ events'[Len(events) + 1] = [kind |-> "charge.refunded", total |-> GivenBack',
                                        refund |-> 0, status |-> "none", state |-> "sent"]
         /\ \A e \in 1..Len(events) : events'[e] = events[e]
         /\ GivenBack \in Nat /\ GivenBack' = GivenBack + amount /\ GivenBack' <= Paid
<1> DEFINE made == [amount |-> amount, key |-> key, status |-> status, answered |-> status]
           event == [kind |-> "charge.refunded", total |-> GivenBack + amount,
                     refund |-> 0, status |-> "none", state |-> "sent"]
<1>0. Paid \in Nat /\ refunds \in Seq(Refund) /\ events \in Seq(Event)
  BY RefundAssumption DEF RInv, Shape
<1>1. refunds' = Append(refunds, made) /\ events' = Append(events, event)
      /\ GivenBack + amount <= Paid
  BY DEF Made
<1>2. made \in Refund
  BY DEF Refund
<1>3. Worth(made) = amount
  BY DEF Worth, Counts
<1>4. GivenBack \in Nat /\ \A x \in Refund : x.amount \in Nat
  BY Amounts
<1>5. CentsOf(Append(refunds, made)) = CentsOf(refunds) + Worth(made)
  <2> HIDE DEF made
  <2> QED BY <1>0, <1>2, <1>4, CentsGrown
<1>6. GivenBack' = GivenBack + amount
  BY <1>1, <1>3, <1>5 DEF GivenBack
<1>7. event \in Event
  BY <1>0, <1>1, <1>4 DEF Event
<1>8. /\ refunds' \in Seq(Refund) /\ Len(refunds) \in Nat /\ Len(refunds') = Len(refunds) + 1
      /\ DOMAIN refunds = 1..Len(refunds) /\ DOMAIN refunds' = 1..(Len(refunds) + 1)
      /\ refunds'[Len(refunds) + 1] = made
      /\ \A r \in 1..Len(refunds) : refunds'[r] = refunds[r]
  <2> HIDE DEF made
  <2> QED BY <1>0, <1>1, <1>2, Grown
<1>9. /\ events' \in Seq(Event) /\ Len(events) \in Nat /\ Len(events') = Len(events) + 1
      /\ DOMAIN events = 1..Len(events) /\ DOMAIN events' = 1..(Len(events) + 1)
      /\ events'[Len(events) + 1] = event
      /\ \A e \in 1..Len(events) : events'[e] = events[e]
  <2> HIDE DEF event
  <2> QED BY <1>0, <1>1, <1>7, Grown
<1> QED BY <1>1, <1>4, <1>6, <1>8, <1>9

\* Making a refund keeps what does not depend on who asked for it.
LEMMA MadeKeeps ==
  ASSUME RInv, NEW amount \in 1..Paid, NEW key \in {"dashboard", "platform"},
         NEW status \in {"pending", "succeeded"}, Made(amount, key, status),
         UNCHANGED <<rows, told, delivery>>, faults' = 0 => faults = 0
  PROVE  EventsFit' /\ RowsFit' /\ DeliveriesFit' /\ FailuresTold' /\ Totals' /\ OutsideFit'
<1> DEFINE n == Len(refunds)
           m == Len(events)
<1>0. /\ refunds' \in Seq(Refund) /\ events' \in Seq(Event)
      /\ n \in Nat /\ Len(refunds') = n + 1
      /\ DOMAIN refunds = 1..n /\ DOMAIN refunds' = 1..(n + 1)
      /\ refunds'[n + 1] = [amount |-> amount, key |-> key, status |-> status, answered |-> status]
      /\ \A r \in 1..n : refunds'[r] = refunds[r]
  BY MadeEffects
<1>1. /\ m \in Nat /\ DOMAIN events = 1..m /\ DOMAIN events' = 1..(m + 1)
      /\ events'[m + 1] = [kind |-> "charge.refunded", total |-> GivenBack',
                           refund |-> 0, status |-> "none", state |-> "sent"]
      /\ \A e \in 1..m : events'[e] = events[e]
  BY MadeEffects
<1>2. GivenBack \in Nat /\ GivenBack' = GivenBack + amount /\ GivenBack' <= Paid
  BY MadeEffects
<1> HIDE DEF n, m
<1>3. events'[m + 1].status = "none" /\ events'[m + 1].state = "sent"
      /\ events'[m + 1].total = GivenBack' /\ refunds'[n + 1].status # "failed"
      /\ m + 1 \in DOMAIN events' /\ events'[m + 1].kind = "charge.refunded"
      /\ events'[m + 1].refund = 0
  BY <1>0, <1>1
<1>4. \A e \in DOMAIN events' : e \in DOMAIN events \/ e = m + 1
  BY <1>1
<1>5. \A r \in DOMAIN refunds' : r \in DOMAIN refunds \/ r = n + 1
  BY <1>0
<1>6. DOMAIN events \subseteq DOMAIN events' /\ DOMAIN refunds \subseteq DOMAIN refunds'
      /\ n + 1 \notin DOMAIN refunds
  BY <1>0, <1>1
<1>7. \A e \in DOMAIN events : events'[e] = events[e]
  BY <1>1
<1>8. \A r \in DOMAIN refunds : refunds'[r] = refunds[r]
  BY <1>0
<1>9. EventsFit'
  <2>1. ASSUME NEW e \in DOMAIN events' PROVE EventFits(e)'
    BY <1>3, <1>4, <1>6, <1>7, <1>8 DEF RInv, EventsFit, EventFits
  <2>2. ASSUME NEW d \in DOMAIN events', NEW e \in DOMAIN events', NEW r \in DOMAIN refunds',
               Fails(d, r)', Fails(e, r)'
        PROVE  d = e
    <3>1. d \in DOMAIN events /\ e \in DOMAIN events /\ Fails(d, r) /\ Fails(e, r)
      BY <2>2, <1>3, <1>4, <1>7 DEF Fails
    <3>2. r \in DOMAIN refunds
      BY <3>1 DEF Fails, RInv, EventsFit, EventFits
    <3> QED BY <3>1, <3>2 DEF RInv, EventsFit
  <2>3. ASSUME NEW r \in DOMAIN refunds', refunds'[r].status = "failed"
        PROVE  \E e \in DOMAIN events' : Fails(e, r)'
    <3>1. r \in DOMAIN refunds /\ refunds[r].status = "failed"
      BY <2>3, <1>3, <1>5, <1>8
    <3>2. PICK e \in DOMAIN events : Fails(e, r)
      BY <3>1 DEF RInv, EventsFit
    <3> QED BY <3>2, <1>6, <1>7 DEF Fails
  <2> QED BY <2>1, <2>2, <2>3 DEF EventsFit
<1>10. RowsFit'
  <2>1. \A r : FailureRecorded(r) => FailureRecorded(r)'
    BY <1>6, <1>7 DEF FailureRecorded, Fails
  <2>2. ASSUME NEW k \in DOMAIN rows, OfRefund(k) PROVE OfRefund(k)'
    BY <2>1, <2>2, <1>6, <1>8 DEF OfRefund
  <2>3. ASSUME NEW k \in DOMAIN rows PROVE RowFits(k)'
    BY <2>2, <1>6 DEF RInv, RowsFit, RowFits
  <2> QED BY <2>3 DEF RInv, RowsFit
<1>11. DeliveriesFit'
  BY <1>1, <1>6, <1>7 DEF RInv, DeliveriesFit
<1>12. FailuresTold'
  BY <1>3, <1>4, <1>7 DEF RInv, FailuresTold, TellingOf
<1>13. NoneFell' => NoneFell
  BY <1>6, <1>8 DEF NoneFell
<1>14. Totals'
  <2>1. AllStand' => AllStand /\ Counted' = Counted
    BY DEF AllStand, Counted
  <2>2. \A e \in DOMAIN events : events[e].total \in Nat
    <3>1. events \in Seq(Event) /\ \A x \in Event : x.total \in Nat
      BY RefundAssumption DEF RInv, Shape, Event
    <3> QED BY <3>1
  <2>3. NoneFell' => \A e \in DOMAIN events' : events'[e].total <= GivenBack'
    BY <1>2, <1>3, <1>4, <1>7, <1>13, <2>2 DEF RInv, Totals
  <2>4. \E e \in DOMAIN events' : events'[e].total = GivenBack'
    BY <1>3
  <2>5. AllStand' => \A e \in DOMAIN events' :
           events'[e].state = "recorded" => events'[e].total <= Counted'
    BY <1>3, <1>4, <1>7, <2>1 DEF RInv, Totals
  <2> QED BY <1>2, <2>3, <2>4, <2>5 DEF Totals
<1>15. OutsideFit'
  <2> DEFINE v == Outside
             w == Outside'
  <2>1. v \in [1..n -> Nat] /\ w \in [1..(n + 1) -> Nat] /\ \A r \in 1..n : w[r] = v[r]
    <3>1. refunds \in Seq(Refund) /\ \A x \in Refund : x.amount \in Nat
      BY Amounts DEF RInv, Shape
    <3>2. \A r \in 1..n : refunds[r].amount \in Nat
      BY <3>1, <1>0 DEF n
    <3>3. \A r \in 1..(n + 1) : refunds'[r].amount \in Nat
      BY <3>1, <1>0
    <3> QED BY <3>2, <3>3, <1>0 DEF Outside, n
  <2> HIDE DEF v, w
  <2>2. Total(w, n + 1) = Total(v, n) + w[n + 1] /\ Total(v, n) \in Nat /\ w[n + 1] \in Nat
    <3>1. n + 1 \in 1..(n + 1)
      BY <1>0
    <3> QED BY <1>0, <2>1, <3>1, TotalNext, TotalType
  <2>3. Total(Outside, Len(refunds))' = Total(w, n + 1)
    BY <1>0 DEF w
  <2>4. Total(EventRows, Len(rows))' = Total(EventRows, Len(rows))
    BY DEF EventRows
  <2>5. Total(EventRows, Len(rows)) \in Nat
    <3>1. Len(rows) \in Nat /\ EventRows \in [1..Len(rows) -> Nat]
      BY Amounts DEF RInv, Shape, EventRows
    <3> QED BY <3>1, TotalType
  <2>6. faults' = 0 /\ NoneFell' => Total(EventRows, Len(rows)) <= Total(v, n)
    BY <1>13 DEF RInv, OutsideFit, v, n
  <2> QED BY <2>2, <2>3, <2>4, <2>5, <2>6 DEF OutsideFit
<1> QED BY <1>9, <1>10, <1>11, <1>12, <1>14, <1>15

\* Somebody refunds in the dashboard.
LEMMA RefundOutsideKeeps ==
  ASSUME RInv, NEW amount \in 1..Paid, RefundOutside(amount)
  PROVE  RInv'
<1>1. /\ Made(amount, "dashboard", "succeeded")
      /\ UNCHANGED <<order, rows, reversed, told, call, delivery, faults>>
  BY DEF RefundOutside
<1>2. EventsFit' /\ RowsFit' /\ DeliveriesFit' /\ FailuresTold' /\ Totals' /\ OutsideFit'
  BY <1>1, MadeKeeps
<1>3. ClosedFor' /\ ReversedFit'
  BY <1>1, Frames
<1>4. /\ refunds' \in Seq(Refund) /\ events' \in Seq(Event)
      /\ Len(refunds) \in Nat /\ Len(refunds') = Len(refunds) + 1
      /\ DOMAIN refunds = 1..Len(refunds) /\ DOMAIN refunds' = 1..(Len(refunds) + 1)
      /\ refunds'[Len(refunds) + 1].key = "dashboard"
      /\ \A r \in 1..Len(refunds) : refunds'[r] = refunds[r]
  <2> DEFINE key == "dashboard"
             status == "succeeded"
  <2>1. key \in {"dashboard", "platform"} /\ status \in {"pending", "succeeded"}
        /\ key = "dashboard" /\ Made(amount, key, status)
    BY <1>1
  <2> HIDE DEF key, status
  <2>2. refunds'[Len(refunds) + 1] = [amount |-> amount, key |-> key, status |-> status,
                                      answered |-> status]
    BY <2>1, MadeEffects
  <2>3. refunds'[Len(refunds) + 1].key = "dashboard"
    BY <2>1, <2>2
  <2> QED BY <2>1, <2>3, MadeEffects
<1>5. Shape'
  BY <1>1, <1>4 DEF RInv, Shape
<1>6. CallsFit'
  BY <1>1, <1>4 DEF RInv, CallsFit, CallFits, Asks, Follows, Holds
<1>7. Held'
  BY <1>1, <1>4 DEF RInv, Held, HeldBy, NamedFor, AnswerOf, Asks
<1> QED BY <1>2, <1>3, <1>5, <1>6, <1>7 DEF RInv

\* A refund settles or fails at Stripe.
LEMMA SettleAtStripeKeeps ==
  ASSUME RInv, NEW r \in DOMAIN refunds, SettleAtStripe(r)
  PROVE  RInv'
<1> DEFINE n == Len(refunds)
           m == Len(events)
<1>0. Paid \in Nat /\ refunds \in Seq(Refund) /\ events \in Seq(Event)
  BY RefundAssumption DEF RInv, Shape
<1>1. PICK status \in {"succeeded", "failed"} :
         /\ \/ refunds[r].status = "pending"
            \/ refunds[r].status = "succeeded" /\ status = "failed"
         /\ refunds' = [refunds EXCEPT ![r].status = status]
         /\ events' = Append(events, [kind |-> "charge.refund.updated", total |-> 0,
                                      refund |-> r, status |-> status, state |-> "sent"])
  BY DEF SettleAtStripe
<1>2. UNCHANGED <<order, rows, reversed, told, call, delivery, faults>>
  BY DEF SettleAtStripe
<1> DEFINE settled == [refunds[r] EXCEPT !.status = status]
           event == [kind |-> "charge.refund.updated", total |-> 0,
                     refund |-> r, status |-> status, state |-> "sent"]
<1>3. /\ settled \in Refund /\ settled.status = status /\ settled.key = refunds[r].key
      /\ settled.amount = refunds[r].amount /\ refunds' = [refunds EXCEPT ![r] = settled]
  <2>1. refunds[r] \in Refund
    BY <1>0
  <2> QED BY <2>1, <1>1 DEF Refund
<1>4. event \in Event /\ events' = Append(events, event)
  BY <1>0, <1>1 DEF Event
<1>5. /\ refunds' \in Seq(Refund) /\ n \in Nat /\ Len(refunds') = n
      /\ DOMAIN refunds = 1..n /\ DOMAIN refunds' = DOMAIN refunds
      /\ refunds'[r] = settled /\ \A q \in DOMAIN refunds : q # r => refunds'[q] = refunds[q]
  <2> HIDE DEF settled
  <2> QED BY <1>0, <1>3, Changed
<1>6. /\ events' \in Seq(Event) /\ m \in Nat /\ Len(events') = m + 1
      /\ DOMAIN events = 1..m /\ DOMAIN events' = 1..(m + 1)
      /\ events'[m + 1] = event /\ \A e \in 1..m : events'[e] = events[e]
  <2> HIDE DEF event
  <2> QED BY <1>0, <1>4, Grown
<1> HIDE DEF n, m
<1>7. /\ \A e \in DOMAIN events' : e \in DOMAIN events \/ e = m + 1
      /\ DOMAIN events \subseteq DOMAIN events' /\ m + 1 \in DOMAIN events'
      /\ \A e \in DOMAIN events : events'[e] = events[e]
      /\ m + 1 \notin DOMAIN events
  BY <1>6
<1>8. \A q \in DOMAIN refunds : /\ refunds'[q].key = refunds[q].key
                                /\ refunds'[q].amount = refunds[q].amount
                                /\ refunds[q].status = "failed" => refunds'[q].status = "failed"
  BY <1>1, <1>3, <1>5
<1>9. /\ events'[m + 1].kind = "charge.refund.updated" /\ events'[m + 1].refund = r
      /\ events'[m + 1].status = status /\ events'[m + 1].state = "sent"
      /\ events'[m + 1].total = 0
  BY <1>6
<1>10. Shape'
  BY <1>2, <1>5, <1>6 DEF RInv, Shape
<1>11. EventsFit'
  <2>1. ASSUME NEW e \in DOMAIN events' PROVE EventFits(e)'
    BY <1>3, <1>5, <1>7, <1>8, <1>9 DEF RInv, EventsFit, EventFits
  <2>2. ASSUME NEW d \in DOMAIN events', NEW e \in DOMAIN events', NEW q \in DOMAIN refunds',
               Fails(d, q)', Fails(e, q)'
        PROVE  d = e
    <3>1. CASE d \in DOMAIN events /\ e \in DOMAIN events
      BY <2>2, <3>1, <1>5, <1>7 DEF Fails, RInv, EventsFit
    <3>2. CASE ~(d \in DOMAIN events /\ e \in DOMAIN events)
      <4> SUFFICES ASSUME d # e PROVE FALSE
        OBVIOUS
      <4>1. q = r /\ status = "failed" /\ refunds[r].status # "failed"
        BY <2>2, <3>2, <1>1, <1>7, <1>9 DEF Fails
      <4>2. \A x \in DOMAIN events : ~Fails(x, r)
        BY <4>1 DEF RInv, EventsFit, EventFits, Fails
      <4> QED BY <2>2, <3>2, <4>1, <4>2, <1>7 DEF Fails
    <3> QED BY <3>1, <3>2
  <2>3. ASSUME NEW q \in DOMAIN refunds', refunds'[q].status = "failed"
        PROVE  \E e \in DOMAIN events' : Fails(e, q)'
    <3>1. CASE q = r
      BY <2>3, <3>1, <1>3, <1>5, <1>7, <1>9 DEF Fails
    <3>2. CASE q # r
      <4>1. PICK e \in DOMAIN events : Fails(e, q)
        BY <2>3, <3>2, <1>5 DEF RInv, EventsFit
      <4> QED BY <4>1, <1>7 DEF Fails
    <3> QED BY <3>1, <3>2
  <2> QED BY <2>1, <2>2, <2>3 DEF EventsFit
<1>12. RowsFit'
  <2>1. \A q : FailureRecorded(q) => FailureRecorded(q)'
    BY <1>7 DEF FailureRecorded, Fails
  <2>2. ASSUME NEW k \in DOMAIN rows, OfRefund(k) PROVE OfRefund(k)'
    BY <2>1, <2>2, <1>2, <1>5, <1>8 DEF OfRefund
  <2>3. ASSUME NEW k \in DOMAIN rows PROVE RowFits(k)'
    BY <2>2, <1>2, <1>7 DEF RInv, RowsFit, RowFits
  <2> QED BY <2>3, <1>2 DEF RInv, RowsFit
<1>13. CallsFit'
  BY <1>2, <1>5, <1>8 DEF RInv, Shape, CallsFit, CallFits, Asks, Follows, Holds
<1>14. DeliveriesFit'
  BY <1>2, <1>6, <1>7 DEF RInv, DeliveriesFit
<1>15. Held'
  BY <1>2, <1>5, <1>8 DEF RInv, Held, HeldBy, NamedFor, AnswerOf, Asks
<1>16. FailuresTold'
  BY <1>2, <1>7, <1>9 DEF RInv, FailuresTold, TellingOf
<1>17. ClosedFor' /\ ReversedFit'
  BY <1>2, Frames
<1>18. NoneFell' => NoneFell /\ status = "succeeded"
  BY <1>3, <1>5, <1>8 DEF NoneFell
<1>19. Totals'
  <2>1. /\ CentsOf(refunds') + Worth(refunds[r]) = CentsOf(refunds) + Worth(settled)
        /\ CentsOf(refunds') \in Nat /\ CentsOf(refunds) \in Nat
    <3>1. \A x \in Refund : x.amount \in Nat
      BY Amounts
    <3> HIDE DEF settled
    <3> QED BY <1>0, <1>3, <3>1, CentsChanged
  <2>2. refunds[r] \in Refund /\ refunds[r].amount \in Nat
    BY <1>0, Amounts
  <2>3. /\ Worth(settled) \in Nat /\ Worth(refunds[r]) \in Nat
        /\ Worth(settled) <= Worth(refunds[r])
        /\ status = "succeeded" => Worth(settled) = Worth(refunds[r])
    BY <1>1, <1>3, <2>2 DEF Worth, Counts
  <2>4. GivenBack' <= GivenBack /\ (NoneFell' => GivenBack' = GivenBack)
        /\ GivenBack \in Nat /\ GivenBack' \in Nat
    BY <2>1, <2>3, <1>18 DEF GivenBack
  <2>5. AllStand' => AllStand /\ Counted' = Counted
    BY <1>2 DEF AllStand, Counted
  <2>6. GivenBack' <= Paid
    BY <2>4, <1>0 DEF RInv, Totals
  <2>7. NoneFell' => \A e \in DOMAIN events' : events'[e].total <= GivenBack'
    BY <2>4, <1>7, <1>9, <1>18 DEF RInv, Totals
  <2>8. NoneFell' => \/ GivenBack' = 0
                     \/ \E e \in DOMAIN events' : events'[e].total = GivenBack'
    BY <2>4, <1>7, <1>18 DEF RInv, Totals
  <2>9. AllStand' => \A e \in DOMAIN events' :
           events'[e].state = "recorded" => events'[e].total <= Counted'
    BY <2>5, <1>7, <1>9 DEF RInv, Totals
  <2> QED BY <2>6, <2>7, <2>8, <2>9 DEF Totals
<1>20. OutsideFit'
  <2>1. Outside' = Outside
    BY <1>5, <1>8 DEF Outside, n
  <2>2. EventRows' = EventRows
    BY <1>2 DEF EventRows
  <2>3. Len(refunds') = Len(refunds)
    BY <1>5 DEF n
  <2> QED BY <2>1, <2>2, <2>3, <1>2, <1>18 DEF RInv, OutsideFit
<1> QED BY <1>10, <1>11, <1>12, <1>13, <1>14, <1>15, <1>16, <1>17, <1>19, <1>20 DEF RInv

-----------------------------------------------------------------------------
\* What the platform's own calls do.

\* What the rows and the refunds are worth, each taken its own way.
LEMMA Values ==
  ASSUME Shape
  PROVE  /\ Len(rows) \in Nat /\ DOMAIN rows = 1..Len(rows)
         /\ Len(refunds) \in Nat /\ DOMAIN refunds = 1..Len(refunds)
         /\ EventRows \in [1..Len(rows) -> Nat] /\ ReversedRows \in [1..Len(rows) -> Nat]
         /\ Outside \in [1..Len(refunds) -> Nat]
<1>1. rows \in Seq(Row) /\ refunds \in Seq(Refund)
  BY DEF Shape
<1>2. /\ \A k \in 1..Len(rows) : rows[k].amount \in Nat
      /\ \A r \in 1..Len(refunds) : refunds[r].amount \in Nat
  <2>1. (\A x \in Row : x.amount \in Nat) /\ (\A x \in Refund : x.amount \in Nat)
    BY RefundAssumption DEF Row, Refund
  <2> QED BY <1>1, <2>1
<1> QED BY <1>1, <1>2 DEF EventRows, ReversedRows, Outside

\* The same of the next state.
LEMMA ValuesNext ==
  ASSUME Shape'
  PROVE  /\ Len(rows') \in Nat /\ DOMAIN rows' = 1..Len(rows')
         /\ EventRows' \in [1..Len(rows') -> Nat] /\ ReversedRows' \in [1..Len(rows') -> Nat]
<1>1. rows' \in Seq(Row)
  BY DEF Shape, Row, RefSet
<1>2. \A k \in 1..Len(rows') : rows'[k].amount \in Nat
  <2>1. \A x \in Row : x.amount \in Nat
    BY RefundAssumption DEF Row
  <2> QED BY <1>1, <2>1
<1> QED BY <1>1, <1>2 DEF EventRows, ReversedRows

\* One call moves, and the others stay where they are.
LEMMA CallMoves ==
  ASSUME RInv, NEW c \in Calls, NEW x \in CallState, call' = [call EXCEPT ![c] = x]
  PROVE  /\ call' \in [Calls -> CallState] /\ call'[c] = x
         /\ \A b \in Calls : b # c => /\ call'[b] = call[b]
                                      /\ Asks(b)' = Asks(b) /\ Follows(b)' = Follows(b)
                                      /\ Holds(b)' = Holds(b)
<1>1. call \in [Calls -> CallState]
  BY DEF RInv, Shape
<1>2. call' \in [Calls -> CallState] /\ call'[c] = x /\ \A b \in Calls : b # c => call'[b] = call[b]
  BY <1>1
<1> QED BY <1>2 DEF Asks, Follows, Holds

\* A row more.
LEMMA RowAdded ==
  ASSUME RInv, NEW x \in Row, rows' = Append(rows, x)
  PROVE  /\ rows' \in Seq(Row)
         /\ Len(rows) \in Nat /\ Len(rows') = Len(rows) + 1
         /\ DOMAIN rows = 1..Len(rows) /\ DOMAIN rows' = 1..(Len(rows) + 1)
         /\ rows'[Len(rows) + 1] = x
         /\ \A k \in DOMAIN rows : rows'[k] = rows[k]
         /\ Counted' = Counted + Worth(x) /\ Counted \in Nat /\ Worth(x) \in Nat
<1>1. rows \in Seq(Row) /\ \A y \in Row : y.amount \in Nat
  BY Amounts DEF RInv, Shape
<1>2. CentsOf(Append(rows, x)) = CentsOf(rows) + Worth(x) /\ CentsOf(rows) \in Nat
  BY <1>1, CentsGrown
<1>3. Counted' = Counted + Worth(x) /\ Counted \in Nat
  BY <1>2 DEF Counted
<1>4. Worth(x) \in Nat
  BY <1>1 DEF Worth
<1>5. /\ rows' \in Seq(Row) /\ Len(rows) \in Nat /\ Len(rows') = Len(rows) + 1
      /\ DOMAIN rows = 1..Len(rows) /\ DOMAIN rows' = 1..(Len(rows) + 1)
      /\ rows'[Len(rows) + 1] = x /\ \A k \in 1..Len(rows) : rows'[k] = rows[k]
  BY <1>1, Grown
<1> QED BY <1>3, <1>4, <1>5

\* A row rewritten.
LEMMA RowRewritten ==
  ASSUME RInv, NEW k \in DOMAIN rows, NEW x \in Row, rows' = [rows EXCEPT ![k] = x]
  PROVE  /\ rows' \in Seq(Row)
         /\ Len(rows) \in Nat /\ Len(rows') = Len(rows)
         /\ DOMAIN rows = 1..Len(rows) /\ DOMAIN rows' = DOMAIN rows
         /\ rows'[k] = x
         /\ \A j \in DOMAIN rows : j # k => rows'[j] = rows[j]
         /\ Counted' + Worth(rows[k]) = Counted + Worth(x)
         /\ Counted \in Nat /\ Counted' \in Nat
         /\ Worth(x) \in Nat /\ Worth(rows[k]) \in Nat
<1>1. rows \in Seq(Row) /\ \A y \in Row : y.amount \in Nat
  BY Amounts DEF RInv, Shape
<1>2. /\ CentsOf(rows') + Worth(rows[k]) = CentsOf(rows) + Worth(x)
      /\ CentsOf(rows') \in Nat /\ CentsOf(rows) \in Nat
  BY <1>1, CentsChanged
<1>3. /\ Counted' + Worth(rows[k]) = Counted + Worth(x)
      /\ Counted \in Nat /\ Counted' \in Nat
  BY <1>2 DEF Counted
<1>4. Worth(x) \in Nat /\ Worth(rows[k]) \in Nat
  BY <1>1 DEF Worth
<1>5. /\ rows' \in Seq(Row) /\ Len(rows) \in Nat /\ Len(rows') = Len(rows)
      /\ DOMAIN rows = 1..Len(rows) /\ DOMAIN rows' = DOMAIN rows
      /\ rows'[k] = x /\ \A j \in DOMAIN rows : j # k => rows'[j] = rows[j]
  BY <1>1, Changed
<1> QED BY <1>3, <1>4, <1>5

\* The rows reversed, and what they come to, while no call begins or ends following.
LEMMA ReversedSame ==
  ASSUME RInv, UNCHANGED <<rows, reversed>>,
         \A b \in Calls : (Follows(b)' <=> Follows(b)) /\ (Follows(b) => call'[b].row = call[b].row)
  PROVE  ReversedFit'
<1>1. ReversedRows' = ReversedRows
  BY DEF ReversedRows, Reversed
<1> QED BY <1>1 DEF RInv, ReversedFit

\* A refund is begun.
LEMMA BeginKeeps ==
  ASSUME RInv, NEW c \in Calls, BeginCancel(c) \/ BeginDecision(c)
  PROVE  RInv'
<1>1. PICK x \in CallState :
         /\ x.step = "reserving" /\ x.amount > 0 /\ x.row = 0 /\ x.answer = 0
         /\ call' = [call EXCEPT ![c] = x]
  <2>1. CASE BeginCancel(c)
    <3> DEFINE x == [IdleCall EXCEPT !.step = "reserving", !.amount = Owed, !.close = TRUE]
    <3>1. Owed \in 0..Paid /\ Owed > 0
      BY <2>1, Amounts, RefundAssumption DEF BeginCancel, Owed
    <3>2. x \in CallState /\ x.step = "reserving" /\ x.amount > 0 /\ x.row = 0 /\ x.answer = 0
      BY <3>1 DEF CallState, IdleCall
    <3>3. call' = [call EXCEPT ![c] = x]
      BY <2>1 DEF BeginCancel
    <3> QED BY <3>2, <3>3
  <2>2. CASE BeginDecision(c)
    <3> DEFINE x == [IdleCall EXCEPT !.step = "reserving", !.amount = Part,
                                     !.close = (order # "refunded")]
    <3>1. Part \in 0..Paid /\ Part > 0
      BY RefundAssumption
    <3>2. x \in CallState /\ x.step = "reserving" /\ x.amount > 0 /\ x.row = 0 /\ x.answer = 0
      BY <3>1 DEF CallState, IdleCall
    <3>3. call' = [call EXCEPT ![c] = x]
      BY <2>2 DEF BeginDecision
    <3> QED BY <3>2, <3>3
  <2> QED BY <2>1, <2>2
<1>2. /\ call[c].step = "idle"
      /\ UNCHANGED <<order, rows, refunds, events, reversed, told, delivery, faults>>
  BY DEF BeginCancel, BeginDecision, IdleCall
<1>3. /\ call' \in [Calls -> CallState] /\ call'[c] = x
      /\ \A b \in Calls : b # c => /\ call'[b] = call[b]
                                   /\ Asks(b)' = Asks(b) /\ Follows(b)' = Follows(b)
                                   /\ Holds(b)' = Holds(b)
  BY <1>1, CallMoves
<1>4. ~Holds(c) /\ ~Holds(c)' /\ ~Follows(c) /\ ~Follows(c)' /\ ~Asks(c) /\ ~Asks(c)'
      /\ call'[c].step # "settling"
  BY <1>1, <1>2, <1>3 DEF Holds, Asks, Follows
<1>5. Shape'
  BY <1>2, <1>3 DEF RInv, Shape
<1>6. EventsFit' /\ RowsFit' /\ Totals' /\ DeliveriesFit' /\ FailuresTold' /\ ClosedFor' /\ OutsideFit'
  BY <1>2, Frames
<1>7. CallsFit'
  <2>1. ASSUME NEW b \in Calls PROVE CallFits(b)'
    <3>1. CASE b = c
      BY <3>1, <1>1, <1>3, <1>4, <1>5, ValuesNext DEF CallFits, Shape
    <3>2. CASE b # c
      BY <3>2, <1>2, <1>3 DEF RInv, CallsFit, CallFits
    <3> QED BY <3>1, <3>2
  <2> QED BY <2>1, <1>3, <1>4 DEF RInv, CallsFit
<1>8. Held'
  <2>1. \A k : HeldBy(k) => HeldBy(k)'
    BY <1>3, <1>4 DEF HeldBy
  <2>2. \A r : AnswerOf(r) => AnswerOf(r)'
    BY <1>2, <1>3 DEF AnswerOf
  <2> QED BY <2>1, <2>2, <1>2 DEF RInv, Held, NamedFor
<1>9. ReversedFit'
  <2>1. ASSUME NEW b \in Calls
        PROVE  (Follows(b)' <=> Follows(b)) /\ (Follows(b) => call'[b].row = call[b].row)
    <3>1. CASE b = c
      BY <3>1, <1>4
    <3>2. CASE b # c
      BY <3>2, <1>3
    <3> QED BY <3>1, <3>2
  <2> QED BY <2>1, <1>2, ReversedSame
<1> QED BY <1>5, <1>6, <1>7, <1>8, <1>9 DEF RInv

\* A row is reserved for it.
LEMMA ReserveKeeps ==
  ASSUME RInv, NEW c \in Calls, Reserve(c)
  PROVE  RInv'
<1> DEFINE n == Len(rows)
           x == [amount |-> call[c].amount, status |-> "pending", ref |-> Reserved]
           y == [call[c] EXCEPT !.step = "asking", !.row = n + 1]
<1>1. /\ call[c].step = "reserving" /\ rows' = Append(rows, x)
      /\ UNCHANGED <<order, refunds, events, reversed, told, delivery, faults>>
  BY DEF Reserve
<1>2. call[c] \in CallState /\ call[c].amount \in 1..Paid
  BY <1>1, RefundAssumption DEF RInv, Shape, CallState, CallsFit, CallFits
<1>3. x \in Row
  BY <1>2 DEF Row, Statuses, RefSet, Reserved, Ref
<1>4. Worth(x) = call[c].amount /\ x.ref.kind = "reserved" /\ x.amount = call[c].amount
      /\ x.status = "pending" /\ x.ref = Reserved
  BY DEF Worth, Counts, Reserved, Ref
<1>5. /\ rows' \in Seq(Row) /\ n \in Nat /\ Len(rows') = n + 1
      /\ DOMAIN rows = 1..n /\ DOMAIN rows' = 1..(n + 1)
      /\ rows'[n + 1] = x /\ \A k \in DOMAIN rows : rows'[k] = rows[k]
      /\ Counted' = Counted + Worth(x) /\ Counted \in Nat /\ Worth(x) \in Nat
  <2> HIDE DEF x
  <2> QED BY <1>1, <1>3, RowAdded
<1>6. y \in CallState /\ call' = [call EXCEPT ![c] = y] /\ y.step = "asking" /\ y.row = n + 1
      /\ y.amount = call[c].amount /\ y.answer = call[c].answer
  <2>1. n + 1 \in Nat
    BY <1>5
  <2>2. call' = [call EXCEPT ![c] = y]
    BY <1>2 DEF Reserve, RInv, Shape
  <2> HIDE DEF n
  <2> QED BY <1>2, <2>1, <2>2 DEF CallState
<1> HIDE DEF x, y, n
<1>7. /\ call' \in [Calls -> CallState] /\ call'[c] = y
      /\ \A b \in Calls : b # c => /\ call'[b] = call[b]
                                   /\ Asks(b)' = Asks(b) /\ Follows(b)' = Follows(b)
                                   /\ Holds(b)' = Holds(b)
  BY <1>6, CallMoves
<1>8. ~Holds(c) /\ ~Follows(c) /\ ~Follows(c)' /\ Asks(c)' /\ Holds(c)'
  BY <1>1, <1>6, <1>7 DEF Holds, Asks, Follows
<1>9. /\ \A k \in DOMAIN rows' : k \in DOMAIN rows \/ k = n + 1
      /\ DOMAIN rows \subseteq DOMAIN rows' /\ n + 1 \in DOMAIN rows' /\ n + 1 \notin DOMAIN rows
  BY <1>5
<1>10. Shape'
  BY <1>1, <1>5, <1>7 DEF RInv, Shape
<1>11. EventsFit' /\ DeliveriesFit' /\ FailuresTold'
  BY <1>1, Frames
<1>12. RowsFit'
  <2>1. ASSUME NEW k \in DOMAIN rows' PROVE RowFits(k)'
    <3>1. CASE k = n + 1
      BY <3>1, <1>4, <1>5 DEF RowFits
    <3>2. CASE k \in DOMAIN rows
      BY <3>2, <1>1, <1>5 DEF RInv, RowsFit, RowFits, OfRefund, FailureRecorded, Fails
    <3> QED BY <3>1, <3>2, <1>9
  <2>2. ASSUME NEW j \in DOMAIN rows', NEW k \in DOMAIN rows',
               rows'[j].ref.kind = "refund", rows'[k].ref = rows'[j].ref
        PROVE  j = k
    <3>1. j \in DOMAIN rows /\ k \in DOMAIN rows
      BY <2>2, <1>4, <1>5, <1>9
    <3> QED BY <2>2, <3>1, <1>5 DEF RInv, RowsFit
  <2> QED BY <2>1, <2>2 DEF RowsFit
<1>13. CallsFit'
  <2>1. ASSUME NEW b \in Calls PROVE CallFits(b)'
    <3>1. CASE b = c
      <4>1. call[c].answer \in 0..Len(refunds)
        BY DEF RInv, CallsFit, CallFits
      <4>2. call'[b].row = n + 1 /\ rows'[n + 1] = x /\ n + 1 \in 0..Len(rows')
        BY <3>1, <1>5, <1>6, <1>7
      <4> QED BY <3>1, <4>1, <4>2, <1>1, <1>2, <1>4, <1>6, <1>7, <1>8, <1>9 DEF CallFits
    <3>2. CASE b # c
      <4>1. CallFits(b)
        BY DEF RInv, CallsFit
      <4>2. Holds(b) => rows'[call[b].row] = rows[call[b].row] /\ call[b].row \in DOMAIN rows'
        BY <4>1, <1>5, <1>9 DEF CallFits
      <4>3. call[b].row \in 0..Len(rows')
        BY <4>1, <1>5 DEF CallFits, n
      <4> QED BY <3>2, <4>1, <4>2, <4>3, <1>1, <1>7 DEF CallFits, Holds
    <3> QED BY <3>1, <3>2
  <2>2. ASSUME NEW a \in Calls, NEW b \in Calls, Holds(a)', Holds(b)',
               call'[a].row = call'[b].row
        PROVE  a = b
    <3>1. \A d \in Calls : d # c /\ Holds(d) => call[d].row # n + 1
      BY <1>9 DEF RInv, CallsFit, CallFits
    <3> QED BY <2>2, <3>1, <1>6, <1>7 DEF RInv, CallsFit
  <2> QED BY <2>1, <2>2 DEF CallsFit
<1>14. Held'
  <2>1. \A k \in DOMAIN rows : HeldBy(k) => HeldBy(k)'
    BY <1>7, <1>8 DEF HeldBy, Holds
  <2>2. Asks(c)' /\ call'[c].row = n + 1
    BY <1>6, <1>7, <1>8
  <2>3. \A r : AnswerOf(r) => AnswerOf(r)'
    BY <1>1, <1>7 DEF AnswerOf
  <2>4. \A r : NamedFor(r) => NamedFor(r)'
    BY <1>5, <1>9 DEF NamedFor
  <2>5. ASSUME NEW k \in DOMAIN rows', rows'[k].ref = Reserved, rows'[k].status = "pending",
               faults' = 0
        PROVE  HeldBy(k)'
    <3>1. CASE k = n + 1
      BY <3>1, <2>2 DEF HeldBy
    <3>2. CASE k \in DOMAIN rows
      BY <3>2, <2>1, <2>5, <1>1, <1>5 DEF RInv, Held
    <3> QED BY <3>1, <3>2, <1>9
  <2> QED BY <2>3, <2>4, <2>5, <1>1 DEF RInv, Held
<1>15. ClosedFor'
  BY <1>1, <1>5, <1>9 DEF RInv, ClosedFor
<1>16. Totals'
  <2>1. AllStand' => AllStand
    BY <1>5, <1>9 DEF AllStand
  <2>2. GivenBack' = GivenBack /\ NoneFell' = NoneFell
    BY <1>1 DEF GivenBack, NoneFell
  <2>3. Counted <= Counted'
    BY <1>5
  <2>4. \A e \in DOMAIN events : events[e].total \in Nat
    <3>1. events \in Seq(Event) /\ \A z \in Event : z.total \in Nat
      BY RefundAssumption DEF RInv, Shape, Event
    <3> QED BY <3>1
  <2>5. AllStand' => \A e \in DOMAIN events' :
           events'[e].state = "recorded" => events'[e].total <= Counted'
    BY <2>1, <2>3, <2>4, <1>1, <1>5 DEF RInv, Totals
  <2> QED BY <2>2, <2>5, <1>1 DEF RInv, Totals
<1>17. ReversedFit'
  <2>1. ReversedRows'[n + 1] = 0
    BY <1>4, <1>5, <1>9 DEF ReversedRows, Reversed
  <2>2. \A k \in 1..n : Reversed(k)' = Reversed(k)
    BY <1>5, <1>7, <1>8 DEF Reversed
  <2>3. \A k \in 1..n : ReversedRows'[k] = ReversedRows[k]
    BY <2>2, <1>5 DEF ReversedRows, n
  <2>4. ReversedRows \in [1..n -> Nat] /\ ReversedRows' \in [1..(n + 1) -> Nat]
    BY <1>5, <1>10, Values, ValuesNext DEF RInv, n
  <2>5. Total(ReversedRows', n + 1) = Total(ReversedRows, n) + 0
    BY <1>5, <2>1, <2>3, <2>4, TotalNext
  <2>6. Total(ReversedRows, n) \in Nat
    BY <1>5, <2>4, TotalType
  <2> QED BY <2>5, <2>6, <1>1, <1>5 DEF RInv, ReversedFit, n
<1>18. OutsideFit'
  <2>1. EventRows'[n + 1] = 0
    BY <1>4, <1>5, <1>9 DEF EventRows
  <2>2. \A k \in 1..n : EventRows'[k] = EventRows[k]
    BY <1>5 DEF EventRows, n
  <2>3. EventRows \in [1..n -> Nat] /\ EventRows' \in [1..(n + 1) -> Nat]
    BY <1>5, <1>10, Values, ValuesNext DEF RInv, n
  <2>4. Total(EventRows', n + 1) = Total(EventRows, n) + 0
    BY <1>5, <2>1, <2>2, <2>3, TotalNext
  <2>5. Total(EventRows, n) \in Nat
    BY <1>5, <2>3, TotalType
  <2>6. Outside' = Outside /\ NoneFell' = NoneFell
    BY <1>1 DEF Outside, NoneFell
  <2> QED BY <2>4, <2>5, <2>6, <1>1, <1>5 DEF RInv, OutsideFit, n
<1> QED BY <1>10, <1>11, <1>12, <1>13, <1>14, <1>15, <1>16, <1>17, <1>18 DEF RInv

\* A step after which no more is unfaulted keeps what faults excuse.
LEMMA FaultFrames ==
  ASSUME RInv, faults' = 0 => faults = 0
  PROVE  /\ UNCHANGED <<events, told, delivery>> => FailuresTold'
         /\ UNCHANGED <<rows, refunds>> => OutsideFit'
<1>1. UNCHANGED <<events, told, delivery>> => FailuresTold'
  BY DEF RInv, FailuresTold, TellingOf
<1>2. UNCHANGED <<rows, refunds>> => OutsideFit'
  BY DEF RInv, OutsideFit, EventRows, Outside, NoneFell
<1> QED BY <1>1, <1>2

\* Stripe is asked, and answers, refuses or is not heard.
LEMMA AskKeeps ==
  ASSUME RInv, NEW c \in Calls, Ask(c)
  PROVE  RInv'
<1> DEFINE n == Len(refunds)
           x(a) == [call[c] EXCEPT !.step = "settling", !.answer = a]
<1>0. /\ call[c].step = "asking" /\ call[c] \in CallState /\ call \in [Calls -> CallState]
      /\ call[c].amount \in 1..Paid /\ Paid \in Nat /\ faults \in Nat
      /\ n \in Nat /\ DOMAIN refunds = 1..n
      /\ UNCHANGED <<order, rows, reversed, told, delivery>>
  <2>1. call[c].step = "asking" /\ UNCHANGED <<order, rows, reversed, told, delivery>>
    BY DEF Ask
  <2>2. call \in [Calls -> CallState] /\ refunds \in Seq(Refund) /\ Paid \in Nat /\ faults \in Nat
    BY RefundAssumption DEF RInv, Shape
  <2>3. call[c].amount \in 1..Paid
    BY <2>1, <2>2 DEF CallState, RInv, CallsFit, CallFits
  <2> QED BY <2>1, <2>2, <2>3
<1> DEFINE NeverAsked(a) ==
             /\ UNCHANGED <<refunds, events>>
             /\ \/ a = 0
                \/ /\ a \in DOMAIN refunds /\ refunds[a].key = "platform"
                   /\ refunds[a].amount = call[c].amount
           Refunded(a) ==
             /\ \E status \in {"pending", "succeeded"} : Made(call[c].amount, "platform", status)
             /\ a = n + 1 \/ (a = 0 /\ faults' # 0)
<1>1. PICK a \in Nat :
         /\ call' = [call EXCEPT ![c] = x(a)]
         /\ faults' = 0 => faults = 0
         /\ faults' = faults \/ faults' \in 1..MaxFaults
         /\ NeverAsked(a) \/ Refunded(a)
  <2>1. ASSUME NEW a \in Nat, Answered(c, a) PROVE call' = [call EXCEPT ![c] = x(a)]
    BY <2>1, <1>0 DEF Answered
  <2>2. Fault => faults' # 0 /\ faults' \in 1..MaxFaults
    BY <1>0, RefundAssumption DEF Fault
  <2>3. Answers \subseteq {"pending", "succeeded"}
    BY RefundAssumption
  <2>4. CASE (\E r \in Keyed(c) : Answered(c, r)) /\ UNCHANGED <<refunds, events, faults>>
    <3>1. PICK r \in Keyed(c) : Answered(c, r)
      BY <2>4
    <3>2. r \in Nat /\ NeverAsked(r)
      BY <3>1, <2>4, <1>0 DEF Keyed
    <3> QED BY <3>1, <3>2, <2>1, <2>4
  <2>5. CASE /\ \E status \in Answers : Made(call[c].amount, "platform", status)
             /\ \/ Answered(c, n + 1) /\ UNCHANGED faults
                \/ Answered(c, 0) /\ Fault
    <3>1. CASE Answered(c, n + 1) /\ UNCHANGED faults
      <4>1. n + 1 \in Nat /\ Refunded(n + 1)
        BY <1>0, <2>3, <2>5
      <4> HIDE DEF n, Refunded, NeverAsked, x
      <4> QED BY <3>1, <4>1, <2>1
    <3>2. CASE Answered(c, 0) /\ Fault
      <4>1. Refunded(0)
        BY <2>2, <2>3, <2>5, <3>2
      <4> HIDE DEF n, Refunded, NeverAsked, x
      <4> QED BY <3>2, <4>1, <2>1, <2>2
    <3> QED BY <2>5, <3>1, <3>2
  <2>6. CASE Answered(c, 0) /\ (UNCHANGED faults \/ Fault) /\ UNCHANGED <<refunds, events>>
    <3>1. NeverAsked(0)
      BY <2>6
    <3> HIDE DEF Refunded, NeverAsked, x
    <3> QED BY <2>6, <3>1, <2>1, <2>2
  <2> QED BY <2>4, <2>5, <2>6 DEF Ask
<1>2. /\ x(a) \in CallState /\ x(a).step = "settling" /\ x(a).answer = a
      /\ x(a).row = call[c].row /\ x(a).amount = call[c].amount
  BY <1>0 DEF CallState
<1> HIDE DEF n, x, NeverAsked, Refunded
<1>3. /\ call' \in [Calls -> CallState] /\ call'[c] = x(a)
      /\ \A b \in Calls : b # c => /\ call'[b] = call[b]
                                   /\ Asks(b)' = Asks(b) /\ Follows(b)' = Follows(b)
                                   /\ Holds(b)' = Holds(b)
  BY <1>1, <1>2, CallMoves
<1>4. Asks(c) /\ Asks(c)' /\ ~Follows(c) /\ ~Follows(c)' /\ Holds(c) /\ Holds(c)'
  BY <1>0, <1>2, <1>3 DEF Asks, Follows, Holds
<1>5. \A b \in Calls : /\ Asks(b)' <=> Asks(b)
                       /\ Follows(b)' <=> Follows(b)
                       /\ Holds(b)' <=> Holds(b)
                       /\ call'[b].row = call[b].row /\ call'[b].amount = call[b].amount
  <2> SUFFICES ASSUME NEW b \in Calls
               PROVE  /\ Asks(b)' <=> Asks(b)
                      /\ Follows(b)' <=> Follows(b)
                      /\ Holds(b)' <=> Holds(b)
                      /\ call'[b].row = call[b].row /\ call'[b].amount = call[b].amount
    OBVIOUS
  <2>1. CASE b = c
    BY <2>1, <1>2, <1>3, <1>4
  <2>2. CASE b # c
    BY <2>2, <1>3
  <2> QED BY <2>1, <2>2
<1>6. ClosedFor' /\ ReversedFit'
  BY <1>0, <1>5, Frames, ReversedSame
<1>7. faults' \in 0..MaxFaults
  BY <1>1 DEF RInv, Shape
<1>8. ASSUME NEW r \in DOMAIN refunds, AnswerOf(r) PROVE AnswerOf(r)'
  BY <1>8, <1>0, <1>3 DEF AnswerOf
<1>9. /\ \A k : HeldBy(k)' <=> HeldBy(k)
      /\ \A r : NamedFor(r)' <=> NamedFor(r)
  BY <1>0, <1>5 DEF HeldBy, NamedFor
<1>10. CASE NeverAsked(a)
  <2>1. UNCHANGED <<refunds, events>> /\ a \in 0..n
    BY <1>10, <1>0 DEF NeverAsked, n
  <2>2. EventsFit' /\ RowsFit' /\ Totals' /\ DeliveriesFit' /\ FailuresTold' /\ OutsideFit'
    BY <2>1, <1>0, <1>1, Frames, FaultFrames
  <2>3. Shape'
    BY <2>1, <1>0, <1>3, <1>7 DEF RInv, Shape
  <2>4. ASSUME NEW b \in Calls PROVE CallFits(b)'
    <3>1. CallFits(b)
      BY DEF RInv, CallsFit
    <3>2. CASE b = c
      BY <3>1, <3>2, <1>0, <1>2, <1>3, <1>4, <1>10, <2>1 DEF CallFits, NeverAsked, n
    <3>3. CASE b # c
      BY <3>1, <3>3, <1>0, <1>3, <2>1 DEF CallFits
    <3> QED BY <3>2, <3>3
  <2>5. CallsFit'
    BY <2>4, <1>5 DEF RInv, CallsFit
  <2>6. Held'
    BY <2>1, <1>0, <1>1, <1>8, <1>9 DEF RInv, Held
  <2> QED BY <2>2, <2>3, <2>5, <2>6, <1>6 DEF RInv
<1>11. CASE Refunded(a)
  <2>1. PICK status \in {"pending", "succeeded"} : Made(call[c].amount, "platform", status)
    BY <1>11 DEF Refunded
  <2> DEFINE key == "platform"
             amount == call[c].amount
  <2>2. key \in {"dashboard", "platform"} /\ key = "platform" /\ amount \in 1..Paid
        /\ amount = call[c].amount /\ Made(amount, key, status)
    BY <1>0, <2>1
  <2> HIDE DEF key, amount
  <2>3. /\ refunds' \in Seq(Refund) /\ events' \in Seq(Event)
        /\ Len(refunds') = n + 1 /\ DOMAIN refunds' = 1..(n + 1)
        /\ refunds'[n + 1] = [amount |-> amount, key |-> key, status |-> status, answered |-> status]
        /\ \A r \in 1..n : refunds'[r] = refunds[r]
    BY <2>2, MadeEffects DEF n
  <2>4. refunds'[n + 1].key = "platform" /\ refunds'[n + 1].amount = call[c].amount
    BY <2>2, <2>3
  <2>5. EventsFit' /\ RowsFit' /\ DeliveriesFit' /\ FailuresTold' /\ Totals' /\ OutsideFit'
    BY <2>2, <1>0, <1>1, MadeKeeps
  <2>6. Shape'
    <3>1. told \subseteq DOMAIN refunds'
      BY <1>0, <2>3 DEF RInv, Shape
    <3> QED BY <3>1, <2>3, <1>0, <1>3, <1>7 DEF RInv, Shape
  <2>7. a \in 0..Len(refunds')
    BY <1>11, <1>0, <2>3 DEF Refunded
  <2>8. ASSUME NEW b \in Calls PROVE CallFits(b)'
    <3>1. CallFits(b)
      BY DEF RInv, CallsFit
    <3>2. CASE b = c
      <4>1. a # 0 => refunds'[a].key = "platform" /\ refunds'[a].amount = call[c].amount
        BY <1>11, <2>4 DEF Refunded
      <4> QED BY <3>1, <3>2, <4>1, <1>0, <1>2, <1>3, <1>4, <2>7 DEF CallFits
    <3>3. CASE b # c
      <4>1. call[b].answer \in 0..n
        BY <3>1 DEF CallFits, n
      <4>2. call[b].answer # 0 => refunds'[call[b].answer] = refunds[call[b].answer]
        BY <4>1, <1>0, <2>3
      <4>3. call[b].answer \in 0..Len(refunds')
        BY <4>1, <1>0, <2>3
      <4> QED BY <3>1, <3>3, <4>2, <4>3, <1>0, <1>3 DEF CallFits
    <3> QED BY <3>2, <3>3
  <2>9. CallsFit'
    BY <2>8, <1>5 DEF RInv, CallsFit
  <2>10. Held'
    <3>1. ASSUME NEW r \in DOMAIN refunds', refunds'[r].key = "platform", faults' = 0
          PROVE  NamedFor(r)' \/ AnswerOf(r)'
      <4>1. CASE r = n + 1
        BY <4>1, <3>1, <1>2, <1>3, <1>11 DEF AnswerOf, Refunded
      <4>2. CASE r \in DOMAIN refunds
        BY <4>2, <3>1, <1>0, <1>1, <1>8, <1>9, <2>3 DEF RInv, Held
      <4> QED BY <4>1, <4>2, <1>0, <2>3
    <3> QED BY <3>1, <1>0, <1>1, <1>9 DEF RInv, Held
  <2> QED BY <2>5, <2>6, <2>9, <2>10, <1>6 DEF RInv
<1> QED BY <1>1, <1>10, <1>11

\* The row is settled by what the answer was.
LEMMA SettleKeeps ==
  ASSUME RInv, NEW c \in Calls, Settle(c)
  PROVE  RInv'
<1>0. PICK k \in Nat : k = call[c].row
  BY DEF RInv, Shape, CallState
<1> DEFINE n == Len(rows)
           r == call[c].answer
           ref == IF r = 0 THEN FailedCall ELSE Ref("refund", r)
           taken == \E j \in DOMAIN rows : rows[j].ref = ref
           x == IF taken THEN [rows[k] EXCEPT !.status = "cancelled"]
                ELSE [rows[k] EXCEPT !.ref = ref,
                                     !.status = IF r = 0 THEN "failed" ELSE refunds[r].answered]
           y == IF r # 0 /\ ~taken THEN [call[c] EXCEPT !.step = "closing"] ELSE IdleCall
<1>1. /\ call[c].step = "settling" /\ rows' = [rows EXCEPT ![k] = x]
      /\ call' = IF r # 0 /\ ~taken THEN [call EXCEPT ![c].step = "closing"]
                 ELSE [call EXCEPT ![c] = IdleCall]
      /\ UNCHANGED <<order, refunds, events, reversed, told, delivery, faults>>
  BY <1>0 DEF Settle
<1>2. CallFits(c) /\ Asks(c) /\ Holds(c) /\ ~Follows(c)
  BY <1>1 DEF RInv, CallsFit, Asks, Holds, Follows
<1>3. /\ k \in DOMAIN rows /\ rows[k] \in Row /\ rows[k].ref = Reserved
      /\ rows[k].status = "pending" /\ rows[k].amount = call[c].amount
      /\ rows \in Seq(Row) /\ refunds \in Seq(Refund) /\ call \in [Calls -> CallState]
      /\ n \in Nat /\ DOMAIN rows = 1..n
  BY <1>0, <1>2 DEF CallFits, RInv, Shape
<1>4. r \in Nat /\ (r # 0 => /\ r \in DOMAIN refunds /\ refunds[r].key = "platform"
                             /\ refunds[r].amount = call[c].amount
                             /\ refunds[r].answered \in {"pending", "succeeded"})
  <2>1. r \in 0..Len(refunds) /\ Len(refunds) \in Nat /\ DOMAIN refunds = 1..Len(refunds)
    BY <1>2, <1>3 DEF CallFits
  <2>2. \A z \in Refund : z.answered \in {"pending", "succeeded"}
    BY DEF Refund
  <2>3. r # 0 => r \in DOMAIN refunds /\ refunds[r] \in Refund
    BY <2>1, <1>3
  <2> QED BY <2>1, <2>2, <2>3, <1>1, <1>2 DEF CallFits
<1>5. ref \in RefSet /\ ref # Reserved /\ ref.kind \in {"failed", "refund"}
      /\ (r # 0 => ref = Ref("refund", r) /\ ref.kind = "refund" /\ ref.of = r)
      /\ (r = 0 => ref = FailedCall)
  BY <1>4 DEF RefSet, FailedCall, Reserved, Ref
<1>6. y \in CallState /\ call' = [call EXCEPT ![c] = y]
      /\ y.step \in {"idle", "closing"}
      /\ (r # 0 /\ ~taken => y.step = "closing" /\ y.row = k /\ y.answer = r
                             /\ y.amount = call[c].amount)
      /\ (~(r # 0 /\ ~taken) => y = IdleCall)
  <2>1. call[c] \in CallState
    BY <1>3
  <2>2. IdleCall \in CallState /\ IdleCall.step = "idle"
    BY RefundAssumption DEF CallState, IdleCall
  <2> HIDE DEF taken
  <2> QED BY <2>1, <2>2, <1>0, <1>1, <1>3 DEF CallState
<1>7. /\ x \in Row /\ x.amount = rows[k].amount
      /\ taken => x.ref = Reserved /\ x.status = "cancelled"
      /\ ~taken => x.ref = ref /\ x.status = (IF r = 0 THEN "failed" ELSE refunds[r].answered)
  <2> HIDE DEF taken, ref
  <2> QED BY <1>3, <1>4, <1>5 DEF Row, Statuses
<1> HIDE DEF n, r, x, y
<1>8. /\ rows' \in Seq(Row) /\ n \in Nat /\ Len(rows') = n
      /\ DOMAIN rows' = DOMAIN rows /\ rows'[k] = x
      /\ \A j \in DOMAIN rows : j # k => rows'[j] = rows[j]
      /\ Counted' + Worth(rows[k]) = Counted + Worth(x)
      /\ Counted \in Nat /\ Counted' \in Nat
  BY <1>1, <1>3, <1>7, RowRewritten DEF n
<1>9. /\ call' \in [Calls -> CallState] /\ call'[c] = y
      /\ \A b \in Calls : b # c => /\ call'[b] = call[b]
                                   /\ Asks(b)' = Asks(b) /\ Follows(b)' = Follows(b)
                                   /\ Holds(b)' = Holds(b)
  BY <1>6, CallMoves
<1>10. /\ ~Asks(c)'
       /\ r # 0 /\ ~taken => Follows(c)'
       /\ ~(r # 0 /\ ~taken) => ~Follows(c)' /\ ~Holds(c)'
       /\ Holds(c)' <=> Follows(c)'
       /\ Follows(c)' => call'[c].row = k
  <2>1. ~Asks(c)'
    BY <1>6, <1>9 DEF Asks
  <2>2. r # 0 /\ ~taken => Follows(c)' /\ call'[c].row = k
    <3> HIDE DEF taken
    <3> QED BY <1>6, <1>9 DEF Follows
  <2>3. ~(r # 0 /\ ~taken) => ~Follows(c)'
    <3> HIDE DEF taken
    <3> QED BY <1>6, <1>9 DEF Follows, IdleCall
  <2>4. Holds(c)' <=> Follows(c)'
    BY <2>1 DEF Holds
  <2> HIDE DEF taken
  <2> QED BY <2>1, <2>2, <2>3, <2>4
<1>11. \A b \in Calls : b # c /\ Holds(b) => call[b].row # k /\ call[b].row \in DOMAIN rows
  <2> SUFFICES ASSUME NEW b \in Calls, b # c, Holds(b)
               PROVE  call[b].row # k /\ call[b].row \in DOMAIN rows
    OBVIOUS
  <2>1. call[b].row # k
    BY <1>0, <1>2 DEF RInv, CallsFit
  <2>2. CallFits(b)
    BY DEF RInv, CallsFit
  <2> QED BY <2>1, <2>2 DEF CallFits
<1>12. Shape'
  BY <1>1, <1>8, <1>9 DEF RInv, Shape
<1>13. EventsFit' /\ DeliveriesFit' /\ FailuresTold'
  BY <1>1, Frames
<1>14. RowsFit'
  <2>1. RowFits(k)'
    <3>1. CASE taken
      BY <3>1, <1>7, <1>8 DEF RowFits
    <3>2. CASE ~taken /\ r = 0
      BY <3>2, <1>5, <1>7, <1>8 DEF RowFits
    <3>3. CASE ~taken /\ r # 0
      <4>1. /\ rows'[k].ref.kind = "refund" /\ rows'[k].ref.of = r
            /\ rows'[k].amount = refunds[r].amount
            /\ rows'[k].status \in {"pending", "succeeded"}
        BY <3>3, <1>3, <1>4, <1>5, <1>7, <1>8
      <4>2. OfRefund(k)'
        BY <3>3, <4>1, <1>1, <1>4 DEF OfRefund, Counts
      <4> QED BY <4>1, <4>2 DEF RowFits
    <3> HIDE DEF taken
    <3> QED BY <3>1, <3>2, <3>3
  <2>2. ASSUME NEW j \in DOMAIN rows, j # k PROVE RowFits(j)'
    BY <2>2, <1>1, <1>8 DEF RInv, RowsFit, RowFits, OfRefund, FailureRecorded, Fails
  <2>3. ASSUME NEW i \in DOMAIN rows, NEW j \in DOMAIN rows,
               rows'[i].ref.kind = "refund", rows'[j].ref = rows'[i].ref
        PROVE  i = j
    <3>1. CASE i # k /\ j # k
      BY <2>3, <3>1, <1>8 DEF RInv, RowsFit
    <3>2. ASSUME NEW p \in DOMAIN rows, p # k, rows'[p].ref = rows'[k].ref,
                 rows'[k].ref.kind = "refund"
          PROVE  FALSE
      <4>1. ~taken
        BY <3>2, <1>7, <1>8 DEF Reserved, Ref
      <4>2. rows[p].ref = ref
        BY <3>2, <4>1, <1>7, <1>8
      <4> QED BY <4>1, <4>2
    <3>3. CASE i = k \/ j = k
      <4> SUFFICES ASSUME i # j PROVE FALSE
        OBVIOUS
      <4> QED BY <2>3, <3>2, <3>3
    <3> QED BY <3>1, <3>3
  <2> QED BY <2>1, <2>2, <2>3, <1>8 DEF RowsFit
<1>15. CallsFit'
  <2>1. CallFits(c)'
    <3>1. CASE r # 0 /\ ~taken
      <4>1. rows'[k].ref.kind = "refund" /\ rows'[k].amount = call[c].amount /\ k \in DOMAIN rows'
            /\ k \in 0..Len(rows')
        BY <3>1, <1>3, <1>5, <1>7, <1>8
      <4>2. call'[c].step = "closing" /\ call'[c].row = k /\ call'[c].answer = r
            /\ call'[c].amount = call[c].amount
        <5> HIDE DEF taken
        <5> QED BY <3>1, <1>6, <1>9
      <4>3. call[c].amount > 0 /\ r \in 0..Len(refunds)
        BY <1>1, <1>2 DEF CallFits, r
      <4> QED BY <4>1, <4>2, <4>3, <1>1, <1>10 DEF CallFits
    <3>2. CASE ~(r # 0 /\ ~taken)
      <4>1. call'[c] = IdleCall /\ ~Holds(c)' /\ ~Asks(c)' /\ ~Follows(c)'
        <5> HIDE DEF taken
        <5> QED BY <3>2, <1>6, <1>9, <1>10
      <4>2. 0 \in 0..Len(rows') /\ 0 \in 0..Len(refunds')
        BY <1>8, <1>12 DEF Shape
      <4> QED BY <4>1, <4>2 DEF CallFits, IdleCall
    <3> HIDE DEF taken
    <3> QED BY <3>1, <3>2
  <2>2. ASSUME NEW b \in Calls, b # c PROVE CallFits(b)'
    <3>1. CallFits(b)
      BY DEF RInv, CallsFit
    <3>2. Holds(b) => rows'[call[b].row] = rows[call[b].row]
      BY <2>2, <1>8, <1>11
    <3>3. call[b].row \in 0..Len(rows')
      BY <3>1, <1>8 DEF CallFits, n
    <3> QED BY <2>2, <3>1, <3>2, <3>3, <1>1, <1>8, <1>9 DEF CallFits, Holds
  <2>3. ASSUME NEW a \in Calls, NEW b \in Calls, Holds(a)', Holds(b)',
               call'[a].row = call'[b].row
        PROVE  a = b
    <3>1. CASE a # c /\ b # c
      BY <2>3, <3>1, <1>9 DEF RInv, CallsFit
    <3>2. CASE a = c \/ b = c
      <4> SUFFICES ASSUME a # b PROVE FALSE
        OBVIOUS
      <4> QED BY <2>3, <3>2, <1>9, <1>10, <1>11
    <3> QED BY <3>1, <3>2
  <2> QED BY <2>1, <2>2, <2>3 DEF CallsFit
<1>16. Held'
  <2>1. ASSUME NEW j \in DOMAIN rows, rows'[j].ref = Reserved, rows'[j].status = "pending",
               faults' = 0
        PROVE  HeldBy(j)'
    <3>1. j # k
      BY <2>1, <1>5, <1>7, <1>8
    <3>2. PICK b \in Calls : Asks(b) /\ call[b].row = j
      BY <2>1, <3>1, <1>1, <1>8 DEF RInv, Held, HeldBy
    <3>3. b # c
      BY <1>0, <3>1, <3>2
    <3> QED BY <3>2, <3>3, <1>9 DEF HeldBy
  <2>2. ASSUME NEW q, NamedFor(q) PROVE NamedFor(q)'
    <3>1. PICK j \in DOMAIN rows : rows[j].ref = Ref("refund", q)
      BY <2>2 DEF NamedFor
    <3>2. j # k
      BY <3>1, <1>3 DEF Reserved, Ref
    <3> QED BY <3>1, <3>2, <1>8 DEF NamedFor
  <2>3. ASSUME NEW q \in DOMAIN refunds, AnswerOf(q) PROVE NamedFor(q)' \/ AnswerOf(q)'
    <3>1. PICK b \in Calls : call[b].step = "settling" /\ call[b].answer = q
      BY <2>3 DEF AnswerOf
    <3>2. CASE b # c
      BY <3>1, <3>2, <1>9 DEF AnswerOf
    <3>3. CASE b = c
      <4>1. q = r /\ r # 0
        BY <3>1, <3>3, <1>3 DEF r
      <4>2. CASE taken
        BY <4>1, <4>2, <2>2, <1>5 DEF NamedFor
      <4>3. CASE ~taken
        BY <4>1, <4>3, <1>3, <1>5, <1>7, <1>8 DEF NamedFor
      <4> QED BY <4>2, <4>3
    <3> QED BY <3>2, <3>3
  <2> QED BY <2>1, <2>2, <2>3, <1>1, <1>8 DEF RInv, Held
<1>17. ClosedFor'
  <2>1. \A j \in DOMAIN rows : rows[j].ref.kind \in {"refund", "event"} => j # k
    BY <1>3 DEF Reserved, Ref
  <2> QED BY <2>1, <1>1, <1>8 DEF RInv, ClosedFor
<1>18. Totals'
  <2>1. AllStand' => AllStand /\ Counted' = Counted
    <3> SUFFICES ASSUME AllStand' PROVE AllStand /\ Counted' = Counted
      OBVIOUS
    <3>1. Counts(x.status)
      BY <1>3, <1>8 DEF AllStand
    <3>2. AllStand
      BY <1>3, <1>8 DEF AllStand, Counts
    <3>3. Worth(x) = rows[k].amount /\ Worth(rows[k]) = rows[k].amount
      BY <3>1, <1>3, <1>7 DEF Worth, Counts
    <3>4. rows[k].amount \in Nat
      BY <1>3, Amounts
    <3> QED BY <3>2, <3>3, <3>4, <1>8
  <2>2. GivenBack' = GivenBack /\ NoneFell' = NoneFell
    BY <1>1 DEF GivenBack, NoneFell
  <2> QED BY <2>1, <2>2, <1>1 DEF RInv, Totals
<1>19. x.ref.kind # "event" /\ rows[k].ref.kind # "event" /\ rows[k].ref.kind # "refund"
       /\ (x.ref.kind = "refund" => r # 0 /\ ~taken)
  <2>1. Reserved.kind = "reserved" /\ FailedCall.kind = "failed"
    BY DEF Reserved, FailedCall, Ref
  <2> HIDE DEF taken, ref
  <2> QED BY <2>1, <1>3, <1>5, <1>7
<1>20. ReversedFit'
  <2>1. ASSUME NEW j \in 1..n PROVE ReversedRows'[j] = ReversedRows[j]
    <3>1. CASE j = k
      <4>1. ~Reversed(k)
        BY <1>19 DEF Reversed
      <4>2. ~Reversed(k)'
        <5>1. x.ref.kind = "refund" => Follows(c)' /\ call'[c].row = k
          <6> HIDE DEF taken
          <6> QED BY <1>10, <1>19
        <5> QED BY <5>1, <1>8, <1>19 DEF Reversed
      <4> QED BY <3>1, <4>1, <4>2, <1>8 DEF ReversedRows, n
    <3>2. CASE j # k
      <4>1. rows'[j] = rows[j] /\ j \in DOMAIN rows
        BY <3>2, <1>3, <1>8
      <4>2. (\E b \in Calls : Follows(b)' /\ call'[b].row = j)
              <=> \E b \in Calls : Follows(b) /\ call[b].row = j
        <5>1. ASSUME NEW b \in Calls PROVE (Follows(b)' /\ call'[b].row = j)
                                             <=> (Follows(b) /\ call[b].row = j)
          <6>1. CASE b = c
            BY <6>1, <3>2, <1>2, <1>10
          <6>2. CASE b # c
            BY <6>2, <1>9
          <6> QED BY <6>1, <6>2
        <5> QED BY <5>1
      <4>3. Reversed(j)' <=> Reversed(j)
        BY <4>1, <4>2 DEF Reversed
      <4> QED BY <4>1, <4>3, <1>8 DEF ReversedRows, n
    <3> QED BY <3>1, <3>2
  <2>2. ReversedRows \in [1..n -> Nat] /\ ReversedRows' \in [1..n -> Nat]
    BY <1>8, <1>12, Values, ValuesNext DEF RInv, n
  <2>3. Total(ReversedRows', n) = Total(ReversedRows, n)
    BY <1>8, <2>1, <2>2, TotalSame
  <2> QED BY <2>3, <1>1, <1>8 DEF RInv, ReversedFit, n
<1>21. OutsideFit'
  <2>1. ASSUME NEW j \in 1..n PROVE EventRows'[j] = EventRows[j]
    <3>1. CASE j = k
      BY <3>1, <1>8, <1>19 DEF EventRows, n
    <3>2. CASE j # k
      BY <3>2, <1>3, <1>8 DEF EventRows, n
    <3> QED BY <3>1, <3>2
  <2>2. EventRows \in [1..n -> Nat] /\ EventRows' \in [1..n -> Nat]
    BY <1>8, <1>12, Values, ValuesNext DEF RInv, n
  <2>3. Total(EventRows', n) = Total(EventRows, n)
    BY <1>8, <2>1, <2>2, TotalSame
  <2>4. Outside' = Outside /\ NoneFell' = NoneFell
    BY <1>1 DEF Outside, NoneFell
  <2> QED BY <2>3, <2>4, <1>1, <1>8 DEF RInv, OutsideFit, n
<1> QED BY <1>12, <1>13, <1>14, <1>15, <1>16, <1>17, <1>18, <1>20, <1>21 DEF RInv

\* A call that ends, or stops, keeps what does not depend on what it had reversed.
LEMMA CallEnds ==
  ASSUME RInv, NEW c \in Calls, call[c].step # "idle",
         call' = [call EXCEPT ![c] = IdleCall],
         UNCHANGED <<order, rows, refunds, events, told, delivery>>,
         reversed' \in 0..Paid, faults' \in 0..MaxFaults,
         faults' = 0 => faults = 0 /\ call[c].step = "reversing"
  PROVE  /\ Shape' /\ EventsFit' /\ RowsFit' /\ CallsFit' /\ DeliveriesFit'
         /\ Held' /\ FailuresTold' /\ ClosedFor' /\ Totals' /\ OutsideFit'
         /\ ~Follows(c)'
         /\ \A b \in Calls : b # c => call'[b] = call[b] /\ Follows(b)' = Follows(b)
<1>1. IdleCall \in CallState
  BY RefundAssumption DEF CallState, IdleCall
<1>2. /\ call' \in [Calls -> CallState] /\ call'[c] = IdleCall
      /\ \A b \in Calls : b # c => /\ call'[b] = call[b]
                                   /\ Asks(b)' = Asks(b) /\ Follows(b)' = Follows(b)
                                   /\ Holds(b)' = Holds(b)
  BY <1>1, CallMoves
<1>3. ~Asks(c)' /\ ~Follows(c)' /\ ~Holds(c)'
  BY <1>2 DEF Asks, Follows, Holds, IdleCall
<1>4. EventsFit' /\ RowsFit' /\ DeliveriesFit' /\ FailuresTold' /\ ClosedFor' /\ Totals' /\ OutsideFit'
  BY Frames, FaultFrames
<1>5. Shape'
  BY <1>2 DEF RInv, Shape
<1>6. CallsFit'
  <2>1. ASSUME NEW b \in Calls PROVE CallFits(b)'
    <3>1. CASE b = c
      <4>1. 0 \in 0..Len(rows') /\ 0 \in 0..Len(refunds')
        BY <1>5 DEF Shape
      <4> QED BY <3>1, <4>1, <1>2, <1>3 DEF CallFits, IdleCall
    <3>2. CASE b # c
      BY <3>2, <1>2 DEF RInv, CallsFit, CallFits
    <3> QED BY <3>1, <3>2
  <2> QED BY <2>1, <1>2, <1>3 DEF RInv, CallsFit
<1>7. Held'
  <2> SUFFICES ASSUME faults' = 0
               PROVE  /\ \A k \in DOMAIN rows :
                           rows[k].ref = Reserved /\ rows[k].status = "pending" => HeldBy(k)'
                      /\ \A r \in DOMAIN refunds :
                           refunds[r].key = "platform" => NamedFor(r)' \/ AnswerOf(r)'
    BY DEF Held
  <2>1. faults = 0 /\ call[c].step = "reversing"
    OBVIOUS
  <2>2. \A k : HeldBy(k) => HeldBy(k)'
    BY <2>1, <1>2 DEF HeldBy, Asks
  <2>3. \A r : AnswerOf(r) => AnswerOf(r)'
    BY <2>1, <1>2 DEF AnswerOf
  <2> QED BY <2>1, <2>2, <2>3 DEF RInv, Held, NamedFor
<1> QED BY <1>2, <1>3, <1>4, <1>5, <1>6, <1>7

\* The order reads refunded, for a refund there was.
LEMMA CloseKeeps ==
  ASSUME RInv, NEW c \in Calls, Close(c)
  PROVE  RInv'
<1> DEFINE x == [call[c] EXCEPT !.step = "reversing"]
<1>1. /\ call[c].step = "closing" /\ order' \in {order, "refunded"}
      /\ call' = [call EXCEPT ![c].step = "reversing"]
      /\ UNCHANGED <<rows, refunds, events, reversed, told, delivery, faults>>
  BY DEF Close
<1>2. call \in [Calls -> CallState]
  BY DEF RInv, Shape
<1>3. /\ x \in CallState /\ call' = [call EXCEPT ![c] = x] /\ x.step = "reversing"
      /\ x.row = call[c].row /\ x.amount = call[c].amount /\ x.answer = call[c].answer
  BY <1>1, <1>2 DEF CallState
<1> HIDE DEF x
<1>4. /\ call' \in [Calls -> CallState] /\ call'[c] = x
      /\ \A b \in Calls : b # c => /\ call'[b] = call[b]
                                   /\ Asks(b)' = Asks(b) /\ Follows(b)' = Follows(b)
                                   /\ Holds(b)' = Holds(b)
  BY <1>3, CallMoves
<1>5. Follows(c) /\ Follows(c)' /\ ~Asks(c) /\ ~Asks(c)' /\ Holds(c) /\ Holds(c)'
  BY <1>1, <1>3, <1>4 DEF Asks, Follows, Holds
<1>6. \A b \in Calls : /\ Asks(b)' <=> Asks(b)
                       /\ Follows(b)' <=> Follows(b)
                       /\ Holds(b)' <=> Holds(b)
                       /\ call'[b].row = call[b].row
  <2> SUFFICES ASSUME NEW b \in Calls
               PROVE  /\ Asks(b)' <=> Asks(b)
                      /\ Follows(b)' <=> Follows(b)
                      /\ Holds(b)' <=> Holds(b)
                      /\ call'[b].row = call[b].row
    OBVIOUS
  <2>1. CASE b = c
    BY <2>1, <1>3, <1>4, <1>5
  <2>2. CASE b # c
    BY <2>2, <1>4
  <2> QED BY <2>1, <2>2
<1>7. EventsFit' /\ RowsFit' /\ DeliveriesFit' /\ FailuresTold' /\ Totals' /\ OutsideFit' /\ ReversedFit'
  BY <1>1, <1>6, Frames, ReversedSame
<1>8. Shape'
  BY <1>1, <1>4 DEF RInv, Shape
<1>9. CallsFit'
  <2>1. ASSUME NEW b \in Calls PROVE CallFits(b)'
    <3>1. CallFits(b)
      BY DEF RInv, CallsFit
    <3>2. CASE b = c
      BY <3>1, <3>2, <1>1, <1>3, <1>4, <1>5 DEF CallFits
    <3>3. CASE b # c
      BY <3>1, <3>3, <1>1, <1>4 DEF CallFits
    <3> QED BY <3>2, <3>3
  <2> QED BY <2>1, <1>6 DEF RInv, CallsFit
<1>10. Held'
  <2>1. \A k : HeldBy(k)' <=> HeldBy(k)
    BY <1>6 DEF HeldBy
  <2>2. \A r : AnswerOf(r) => AnswerOf(r)'
    BY <1>1, <1>4 DEF AnswerOf
  <2> QED BY <2>1, <2>2, <1>1 DEF RInv, Held, NamedFor
<1>11. ClosedFor'
  <2>1. call[c].row \in DOMAIN rows /\ rows[call[c].row].ref.kind = "refund"
    BY <1>5 DEF RInv, CallsFit, CallFits
  <2> QED BY <2>1, <1>1 DEF ClosedFor
<1> QED BY <1>7, <1>8, <1>9, <1>10, <1>11 DEF RInv

\* The commission on the row is taken back.
LEMMA ReverseCommissionKeeps ==
  ASSUME RInv, NEW c \in Calls, ReverseCommission(c)
  PROVE  RInv'
<1>0. PICK k \in Nat : k = call[c].row
  BY DEF RInv, Shape, CallState
<1> DEFINE n == Len(rows)
<1>1. /\ call[c].step = "reversing" /\ reversed' = ReverseOf(call[c].amount)
      /\ call' = [call EXCEPT ![c] = IdleCall]
      /\ UNCHANGED <<order, rows, refunds, events, told, delivery, faults>>
  BY DEF ReverseCommission
<1>2. Follows(c) /\ Holds(c) /\ CallFits(c) /\ call[c].amount \in Nat
      /\ Paid \in Nat /\ reversed \in 0..Paid /\ faults \in 0..MaxFaults
  BY <1>1, RefundAssumption DEF Follows, Holds, RInv, Shape, CallsFit, CallState
<1>3. k \in DOMAIN rows /\ rows[k].amount = call[c].amount /\ rows[k].ref.kind = "refund"
  BY <1>0, <1>2 DEF CallFits
<1>4. reversed' \in 0..Paid /\ reversed' <= reversed + call[c].amount
  BY <1>1, <1>2 DEF ReverseOf
<1>5. /\ Shape' /\ EventsFit' /\ RowsFit' /\ CallsFit' /\ DeliveriesFit'
      /\ Held' /\ FailuresTold' /\ ClosedFor' /\ Totals' /\ OutsideFit'
      /\ ~Follows(c)'
      /\ \A b \in Calls : b # c => call'[b] = call[b] /\ Follows(b)' = Follows(b)
  BY <1>1, <1>2, <1>4, CallEnds
<1>6. ~Reversed(k) /\ Reversed(k)'
  <2>1. ~Reversed(k)
    BY <1>0, <1>2, <1>3 DEF Reversed
  <2>2. \A b \in Calls : b # c /\ Follows(b) => call[b].row # k
    BY <1>0, <1>2 DEF RInv, CallsFit, Holds
  <2>3. \A b \in Calls : ~(Follows(b)' /\ call'[b].row = k)
    BY <2>2, <1>5
  <2>4. Reversed(k)'
    BY <2>3, <1>1, <1>3 DEF Reversed
  <2> QED BY <2>1, <2>4
<1>7. n \in Nat /\ DOMAIN rows = 1..n /\ ReversedRows \in [1..n -> Nat]
      /\ ReversedRows' \in [1..n -> Nat]
  BY <1>1, <1>5, Values, ValuesNext DEF RInv
<1>8. ReversedRows[k] = 0 /\ ReversedRows'[k] = call[c].amount
  BY <1>1, <1>3, <1>6, <1>7 DEF ReversedRows
<1>9. ASSUME NEW j \in 1..n, j # k PROVE ReversedRows'[j] = ReversedRows[j]
  <2>1. \A b \in Calls : (Follows(b)' /\ call'[b].row = j) <=> (Follows(b) /\ call[b].row = j)
    <3> SUFFICES ASSUME NEW b \in Calls
                 PROVE  (Follows(b)' /\ call'[b].row = j) <=> (Follows(b) /\ call[b].row = j)
      OBVIOUS
    <3>1. CASE b = c
      BY <3>1, <1>0, <1>5, <1>9
    <3>2. CASE b # c
      BY <3>2, <1>5
    <3> QED BY <3>1, <3>2
  <2>2. Reversed(j)' <=> Reversed(j)
    BY <2>1, <1>1 DEF Reversed
  <2> QED BY <2>2, <1>1 DEF ReversedRows
<1> HIDE DEF n
<1>10. Total(ReversedRows', n) + 0 = Total(ReversedRows, n) + call[c].amount
  <2>1. k \in 1..n /\ \A j \in 1..n : j # k => ReversedRows'[j] = ReversedRows[j]
    BY <1>3, <1>7, <1>9
  <2> DEFINE v == ReversedRows
             w == ReversedRows'
  <2>2. v \in [1..n -> Nat] /\ w \in [1..n -> Nat] /\ n \in Nat
        /\ \A j \in 1..n : j # k => w[j] = v[j]
    BY <1>7, <2>1
  <2> HIDE DEF v, w
  <2>3. Total(w, n) + v[k] = Total(v, n) + w[k]
    BY <2>1, <2>2, TotalAt
  <2> QED BY <2>3, <1>8 DEF v, w
<1>11. Total(ReversedRows, n) \in Nat /\ Total(ReversedRows', n) \in Nat
  BY <1>7, TotalType
<1>12. ReversedFit'
  <2>1. reversed <= Total(ReversedRows, n)
    BY DEF RInv, ReversedFit, n
  <2>2. reversed' <= Total(ReversedRows', n)
    BY <2>1, <1>2, <1>4, <1>10, <1>11
  <2> QED BY <2>2, <1>1 DEF ReversedFit, n
<1> QED BY <1>5, <1>12 DEF RInv

\* An invocation stops between two writes.
LEMMA StopCallKeeps ==
  ASSUME RInv, NEW c \in Calls, StopCall(c)
  PROVE  RInv'
<1> DEFINE n == Len(rows)
<1>1. /\ call[c].step # "idle" /\ faults' \in 0..MaxFaults /\ faults' # 0
      /\ reversed' \in 0..Paid
      /\ call' = [call EXCEPT ![c] = IdleCall]
      /\ UNCHANGED <<order, rows, refunds, events, reversed, told, delivery>>
  BY RefundAssumption DEF StopCall, Fault, RInv, Shape
<1>2. /\ Shape' /\ EventsFit' /\ RowsFit' /\ CallsFit' /\ DeliveriesFit'
      /\ Held' /\ FailuresTold' /\ ClosedFor' /\ Totals' /\ OutsideFit'
      /\ ~Follows(c)'
      /\ \A b \in Calls : b # c => call'[b] = call[b] /\ Follows(b)' = Follows(b)
  BY <1>1, CallEnds
<1>3. n \in Nat /\ DOMAIN rows = 1..n /\ ReversedRows \in [1..n -> Nat]
      /\ ReversedRows' \in [1..n -> Nat]
  BY <1>1, <1>2, Values, ValuesNext DEF RInv
<1>4. ASSUME NEW j \in 1..n PROVE ReversedRows[j] <= ReversedRows'[j]
  <2>1. \A b \in Calls : Follows(b)' /\ call'[b].row = j => Follows(b) /\ call[b].row = j
    BY <1>2
  <2>2. Reversed(j) => Reversed(j)'
    BY <2>1, <1>1 DEF Reversed
  <2>3. ReversedRows[j] \in Nat /\ ReversedRows'[j] \in Nat
    BY <1>3
  <2>4. /\ ReversedRows[j] = IF Reversed(j) THEN rows[j].amount ELSE 0
        /\ ReversedRows'[j] = IF Reversed(j)' THEN rows[j].amount ELSE 0
    BY <1>1 DEF ReversedRows
  <2> QED BY <2>2, <2>3, <2>4
<1> HIDE DEF n
<1>5. Total(ReversedRows, n) <= Total(ReversedRows', n)
      /\ Total(ReversedRows, n) \in Nat /\ Total(ReversedRows', n) \in Nat
  BY <1>3, <1>4, TotalGrows, TotalType
<1>6. ReversedFit'
  <2>1. reversed <= Total(ReversedRows, n) /\ reversed \in Nat
    BY RefundAssumption DEF RInv, Shape, ReversedFit, n
  <2>2. reversed' <= Total(ReversedRows', n)
    BY <2>1, <1>1, <1>5
  <2> QED BY <2>2, <1>1 DEF ReversedFit, n
<1> QED BY <1>2, <1>6 DEF RInv

-----------------------------------------------------------------------------
\* What the deliveries of Stripe's events do.

\* One delivery moves, and the others stay where they are.
LEMMA DeliveryMoves ==
  ASSUME RInv, NEW d \in Deliveries, NEW x \in DeliveryState,
         delivery' = [delivery EXCEPT ![d] = x]
  PROVE  /\ delivery' \in [Deliveries -> DeliveryState] /\ delivery'[d] = x
         /\ \A b \in Deliveries : b # d => delivery'[b] = delivery[b]
         /\ \A e : delivery[d].step # "telling" /\ TellingOf(e) => TellingOf(e)'
<1>1. delivery \in [Deliveries -> DeliveryState]
  BY DEF RInv, Shape
<1>2. /\ delivery' \in [Deliveries -> DeliveryState] /\ delivery'[d] = x
      /\ \A b \in Deliveries : b # d => delivery'[b] = delivery[b]
  BY <1>1
<1>3. ASSUME NEW e, delivery[d].step # "telling", TellingOf(e) PROVE TellingOf(e)'
  BY <1>2, <1>3 DEF TellingOf
<1> QED BY <1>2, <1>3

\* The end of a delivery is one of its states.
LEMMA IdleDeliveryFits == IdleDelivery \in DeliveryState /\ IdleDelivery.step = "idle" /\ IdleDelivery.event = 0
BY DEF IdleDelivery, DeliveryState

\* A step of a delivery that writes nothing of the ledger's.
LEMMA NothingWritten ==
  ASSUME RInv, NEW d \in Deliveries, NEW x \in DeliveryState,
         delivery' = [delivery EXCEPT ![d] = x],
         UNCHANGED <<order, rows, refunds, events, reversed, call>>,
         x.step # "telling",
         x.event \in 0..Len(events), x.step # "idle" => x.event \in DOMAIN events,
         told' \subseteq DOMAIN refunds, told \subseteq told',
         faults' \in 0..MaxFaults, faults' = 0 => faults = 0,
         \/ faults' # 0
         \/ delivery[d].step # "telling"
         \/ events[delivery[d].event].refund \in told'
  PROVE  RInv'
<1>1. /\ delivery' \in [Deliveries -> DeliveryState] /\ delivery'[d] = x
      /\ \A b \in Deliveries : b # d => delivery'[b] = delivery[b]
      /\ \A e : delivery[d].step # "telling" /\ TellingOf(e) => TellingOf(e)'
  BY DeliveryMoves
<1>2. EventsFit' /\ RowsFit' /\ CallsFit' /\ ClosedFor' /\ Totals' /\ ReversedFit' /\ OutsideFit'
  BY Frames, FaultFrames
<1>3. Shape'
  BY <1>1 DEF RInv, Shape
<1>4. DeliveriesFit'
  <2>1. ASSUME NEW b \in Deliveries
        PROVE  /\ delivery'[b].event \in 0..Len(events)
               /\ delivery'[b].step # "idle" => delivery'[b].event \in DOMAIN events
               /\ delivery'[b].step = "telling" => events[delivery'[b].event].status = "failed"
    <3>1. CASE b = d
      BY <3>1, <1>1
    <3>2. CASE b # d
      BY <3>2, <1>1 DEF RInv, DeliveriesFit
    <3> QED BY <3>1, <3>2
  <2> QED BY <2>1 DEF DeliveriesFit
<1>5. Held'
  BY DEF RInv, Held, HeldBy, NamedFor, AnswerOf, Asks
<1>6. FailuresTold'
  <2> SUFFICES ASSUME faults' = 0, NEW e \in DOMAIN events, events[e].status = "failed",
                      events[e].state = "recorded"
               PROVE  events[e].refund \in told' \/ TellingOf(e)'
    BY DEF FailuresTold
  <2>1. faults = 0
    OBVIOUS
  <2>2. events[e].refund \in told \/ TellingOf(e)
    BY <2>1 DEF RInv, FailuresTold
  <2>3. CASE events[e].refund \in told
    BY <2>3
  <2>4. CASE TellingOf(e)
    <3>1. CASE delivery[d].step # "telling"
      BY <3>1, <2>4, <1>1
    <3>2. CASE events[delivery[d].event].refund \in told'
      BY <3>2, <2>4, <1>1 DEF TellingOf
    <3> QED BY <3>1, <3>2
  <2> QED BY <2>2, <2>3, <2>4
<1> QED BY <1>2, <1>3, <1>4, <1>5, <1>6 DEF RInv

\* A delivery begins, with what it read.
LEMMA DeliverKeeps ==
  ASSUME RInv, NEW d \in Deliveries, NEW e \in DOMAIN events, Deliver(d, e)
  PROVE  RInv'
<1> DEFINE row == RowOf(events[e].refund)
           prior == IF events[e].kind = "charge.refunded" THEN Counted ELSE 0
           close == events[e].total >= Paid /\ order # "refunded"
           x == [IdleDelivery EXCEPT !.step = "applying", !.event = e, !.prior = prior, !.row = row,
                                     !.status = RowStatus(row), !.close = close]
<1>1. /\ delivery[d] = IdleDelivery /\ delivery' = [delivery EXCEPT ![d] = x]
      /\ UNCHANGED <<order, rows, refunds, events, reversed, told, call, faults>>
  BY DEF Deliver
<1>2. e \in Nat /\ e \in 0..Len(events) /\ rows \in Seq(Row)
  BY DEF RInv, Shape
<1>3. row \in Nat /\ (row # 0 => row \in DOMAIN rows)
  <2>1. \A k \in DOMAIN rows : k \in Nat
    BY <1>2
  <2> QED BY <2>1 DEF RowOf
<1>4. prior \in Nat
  BY Amounts
<1>5. RowStatus(row) \in Statuses \cup {"none"}
  <2>1. \A y \in Row : y.status \in Statuses
    BY DEF Row
  <2>2. row # 0 => rows[row] \in Row
    BY <1>2, <1>3
  <2> HIDE DEF row
  <2> QED BY <2>1, <2>2, <1>3 DEF RowStatus
<1>6. close \in BOOLEAN
  OBVIOUS
<1>7. x \in DeliveryState /\ x.step = "applying" /\ x.event = e
  <2> HIDE DEF row, prior, close
  <2> QED BY <1>2, <1>3, <1>4, <1>5, <1>6 DEF IdleDelivery, DeliveryState
<1>8. delivery[d].step # "telling"
  BY <1>1, IdleDeliveryFits
<1>9. faults' \in 0..MaxFaults /\ told \subseteq DOMAIN refunds
  BY <1>1 DEF RInv, Shape
<1> HIDE DEF x
<1> QED BY <1>1, <1>2, <1>7, <1>8, <1>9, NothingWritten

\* A delivery answers that its event is on file, or is refused.
LEMMA AnswerRecordedKeeps ==
  ASSUME RInv, NEW d \in Deliveries, AnswerRecorded(d) \/ Refuse(d)
  PROVE  RInv'
<1>1. /\ delivery[d].step = "applying" /\ delivery' = [delivery EXCEPT ![d] = IdleDelivery]
      /\ UNCHANGED <<order, rows, refunds, events, reversed, told, call, faults>>
  BY DEF AnswerRecorded, Refuse, Done
<1>2. faults' \in 0..MaxFaults /\ told \subseteq DOMAIN refunds /\ 0 \in 0..Len(events)
  BY <1>1 DEF RInv, Shape
<1> QED BY <1>1, <1>2, IdleDeliveryFits, NothingWritten

\* The firm is told.
LEMMA TellKeeps ==
  ASSUME RInv, NEW d \in Deliveries, Tell(d)
  PROVE  RInv'
<1>1. /\ delivery[d].step = "telling" /\ delivery' = [delivery EXCEPT ![d] = IdleDelivery]
      /\ told' = told \cup {events[delivery[d].event].refund}
      /\ UNCHANGED <<order, rows, refunds, events, reversed, call, faults>>
  BY DEF Tell, Done
<1>2. delivery[d].event \in DOMAIN events /\ events[delivery[d].event].status = "failed"
  BY <1>1 DEF RInv, DeliveriesFit
<1>3. events[delivery[d].event].refund \in DOMAIN refunds
  BY <1>2 DEF RInv, EventsFit, EventFits
<1>4. faults' \in 0..MaxFaults /\ told \subseteq DOMAIN refunds /\ 0 \in 0..Len(events)
  BY <1>1 DEF RInv, Shape
<1>5. told' \subseteq DOMAIN refunds /\ told \subseteq told'
      /\ events[delivery[d].event].refund \in told'
  BY <1>1, <1>3, <1>4
<1> QED BY <1>1, <1>4, <1>5, IdleDeliveryFits, NothingWritten

\* It stops before the firm is told.
LEMMA StopDeliveryKeeps ==
  ASSUME RInv, NEW d \in Deliveries, StopDelivery(d)
  PROVE  RInv'
<1>1. /\ delivery' = [delivery EXCEPT ![d] = IdleDelivery]
      /\ faults' \in 0..MaxFaults /\ faults' # 0
      /\ UNCHANGED <<order, rows, refunds, events, reversed, told, call>>
  BY RefundAssumption DEF StopDelivery, Done, Fault, RInv, Shape
<1>2. told \subseteq DOMAIN refunds /\ 0 \in 0..Len(events)
  BY DEF RInv, Shape
<1> QED BY <1>1, <1>2, IdleDeliveryFits, NothingWritten

\* An event is recorded once, and nothing else of it changes.
LEMMA EventRecorded ==
  ASSUME RInv, NEW e \in DOMAIN events, Recorded(e), UNCHANGED refunds
  PROVE  /\ events' \in Seq(Event) /\ DOMAIN events' = DOMAIN events /\ Len(events') = Len(events)
         /\ \A f \in DOMAIN events :
               /\ events'[f].kind = events[f].kind /\ events'[f].total = events[f].total
               /\ events'[f].refund = events[f].refund /\ events'[f].status = events[f].status
               /\ f # e => events'[f].state = events[f].state
         /\ events'[e].state = "recorded"
         /\ \A r : FailureRecorded(r) => FailureRecorded(r)'
         /\ EventsFit'
<1> DEFINE x == [events[e] EXCEPT !.state = "recorded"]
<1>1. events \in Seq(Event) /\ events[e] \in Event /\ events' = [events EXCEPT ![e] = x]
  BY DEF Recorded, RInv, Shape
<1>2. /\ x \in Event /\ x.state = "recorded" /\ x.kind = events[e].kind /\ x.total = events[e].total
      /\ x.refund = events[e].refund /\ x.status = events[e].status
  BY <1>1 DEF Event
<1> HIDE DEF x
<1>3. /\ events' \in Seq(Event) /\ Len(events') = Len(events)
      /\ DOMAIN events' = DOMAIN events
      /\ events'[e] = x /\ \A f \in DOMAIN events : f # e => events'[f] = events[f]
  BY <1>1, <1>2, Changed
<1>4. \A f \in DOMAIN events :
         /\ events'[f].kind = events[f].kind /\ events'[f].total = events[f].total
         /\ events'[f].refund = events[f].refund /\ events'[f].status = events[f].status
         /\ f # e => events'[f].state = events[f].state
  BY <1>2, <1>3
<1>5. events'[e].state = "recorded"
  BY <1>2, <1>3
<1>6. ASSUME NEW r, FailureRecorded(r) PROVE FailureRecorded(r)'
  <2>1. PICK f \in DOMAIN events : Fails(f, r) /\ events[f].state = "recorded"
    BY <1>6 DEF FailureRecorded
  <2>2. events'[f].state = "recorded"
    BY <2>1, <1>4, <1>5
  <2> QED BY <2>1, <2>2, <1>3, <1>4 DEF FailureRecorded, Fails
<1>7. EventsFit'
  BY <1>3, <1>4 DEF RInv, EventsFit, EventFits, Fails
<1> QED BY <1>3, <1>4, <1>5, <1>6, <1>7

\* While no refund failed and nothing was lost, the ledger counts every refund of the
\* platform's: what Stripe gave back, less what was made outside, is no more than what
\* it counts, less what was written for events.
LEMMA PlatformCounted ==
  ASSUME RInv, faults = 0, NoneFell
  PROVE  /\ Total(EventRows, Len(rows)) \in Nat /\ Total(Outside, Len(refunds)) \in Nat
         /\ GivenBack + Total(EventRows, Len(rows)) <= Counted + Total(Outside, Len(refunds))
<1> DEFINE n == Len(rows)
           m == Len(refunds)
           own == [k \in 1..n |-> IF rows[k].ref.kind = "event" THEN 0 ELSE Worth(rows[k])]
           platform == [r \in 1..m |->
              IF refunds[r].key = "platform" THEN refunds[r].amount ELSE 0]
           Is(k, r) == \/ rows[k].ref = Ref("refund", r)
                       \/ \E c \in Calls : /\ call[c].step = "settling"
                                           /\ call[c].answer = r /\ call[c].row = k
           j == [r \in 1..m |-> CHOOSE k \in 1..n : Is(k, r)]
<1>1. /\ n \in Nat /\ DOMAIN rows = 1..n /\ m \in Nat /\ DOMAIN refunds = 1..m
      /\ EventRows \in [1..n -> Nat] /\ Outside \in [1..m -> Nat]
  BY Values DEF RInv
<1>2. /\ rows \in Seq(Row) /\ refunds \in Seq(Refund)
      /\ \A x \in Row : x.amount \in Nat
      /\ \A x \in Refund : x.amount \in Nat /\ x.status \in {"pending", "succeeded", "failed"}
                           /\ x.key \in {"dashboard", "platform"}
  BY Amounts DEF RInv, Shape, Refund
<1>3. /\ \A k \in 1..n : rows[k].amount \in Nat
      /\ \A r \in 1..m : /\ refunds[r].amount \in Nat
                         /\ refunds[r].status \in {"pending", "succeeded", "failed"}
                         /\ refunds[r].key \in {"dashboard", "platform"}
  <2> HIDE DEF n, m
  <2> QED BY <1>1, <1>2
<1>4. /\ Worths(rows) \in [1..n -> Nat] /\ Counted = Total(Worths(rows), n)
      /\ Worths(refunds) \in [1..m -> Nat] /\ GivenBack = Total(Worths(refunds), m)
  BY <1>1, <1>3, CentsOfTotal DEF Counted, GivenBack
<1>5. own \in [1..n -> Nat] /\ platform \in [1..m -> Nat]
  BY <1>3 DEF Worth
<1>6. \A k \in 1..n : Worths(rows)[k] = EventRows[k] + own[k]
  <2> SUFFICES ASSUME NEW k \in 1..n PROVE Worths(rows)[k] = EventRows[k] + own[k]
    OBVIOUS
  <2>1. rows[k].ref.kind = "event" => rows[k].status = "succeeded"
    BY <1>1 DEF RInv, RowsFit, RowFits, Reserved, FailedCall, Ref
  <2> QED BY <2>1, <1>3 DEF Worths, Worth, Counts, EventRows
<1>7. \A r \in 1..m : Worths(refunds)[r] = Outside[r] + platform[r]
  <2> SUFFICES ASSUME NEW r \in 1..m PROVE Worths(refunds)[r] = Outside[r] + platform[r]
    OBVIOUS
  <2>1. refunds[r].status # "failed"
    BY <1>1 DEF NoneFell
  <2> QED BY <2>1, <1>3 DEF Worths, Worth, Counts, Outside
<1>8. ASSUME NEW r \in 1..m, platform[r] # 0
      PROVE  /\ j[r] \in 1..n /\ Is(j[r], r)
             /\ platform[r] = own[j[r]]
  <2>1. refunds[r].key = "platform" /\ platform[r] = refunds[r].amount
    BY <1>8
  <2>2. \E k \in 1..n : Is(k, r)
    <3>1. NamedFor(r) \/ AnswerOf(r)
      BY <2>1, <1>1 DEF RInv, Held
    <3>2. CASE NamedFor(r)
      BY <3>2, <1>1 DEF NamedFor
    <3>3. CASE AnswerOf(r)
      <4>1. PICK c \in Calls : call[c].step = "settling" /\ call[c].answer = r
        BY <3>3 DEF AnswerOf
      <4>2. call[c].row \in DOMAIN rows
        BY <4>1 DEF RInv, CallsFit, CallFits, Holds, Asks
      <4> QED BY <4>1, <4>2, <1>1
    <3> QED BY <3>1, <3>2, <3>3
  <2>3. j[r] \in 1..n /\ Is(j[r], r)
    <3> HIDE DEF Is
    <3> QED BY <2>2
  <2>4. ASSUME NEW k \in 1..n, Is(k, r) PROVE own[k] = refunds[r].amount
    <3>1. CASE rows[k].ref = Ref("refund", r)
      <4>1. rows[k].ref.kind = "refund" /\ rows[k].ref.of = r
        BY <3>1 DEF Ref
      <4>2. OfRefund(k)
        BY <4>1, <1>1 DEF RInv, RowsFit, RowFits, Reserved, FailedCall, Ref
      <4>3. ~FailureRecorded(r)
        <5>1. refunds[r].status # "failed"
          BY <1>1 DEF NoneFell
        <5> QED BY <5>1 DEF FailureRecorded, Fails, RInv, EventsFit, EventFits
      <4> QED BY <4>1, <4>2, <4>3 DEF OfRefund, Worth
    <3>2. CASE \E c \in Calls : call[c].step = "settling" /\ call[c].answer = r /\ call[c].row = k
      <4>1. PICK c \in Calls : call[c].step = "settling" /\ call[c].answer = r /\ call[c].row = k
        BY <3>2
      <4>2. CallFits(c) /\ Asks(c) /\ Holds(c)
        BY <4>1 DEF RInv, CallsFit, Asks, Holds
      <4>3. /\ rows[k].ref = Reserved /\ rows[k].status = "pending"
            /\ rows[k].amount = refunds[r].amount
        BY <4>1, <4>2 DEF CallFits
      <4> QED BY <4>3 DEF Worth, Counts, Reserved, Ref
    <3> QED BY <2>4, <3>1, <3>2
  <2> HIDE DEF j, own, platform, Is
  <2> QED BY <2>1, <2>3, <2>4
<1>9. ASSUME NEW q \in 1..m, NEW r \in 1..m, platform[q] # 0, platform[r] # 0, j[q] = j[r]
      PROVE  q = r
  <2> DEFINE k == j[q]
  <2>1. k \in 1..n /\ Is(k, q) /\ Is(k, r)
    <3> HIDE DEF j, platform, Is
    <3> QED BY <1>8, <1>9
  <2> HIDE DEF k, j, platform
  <2>2. Ref("refund", q) # Reserved /\ Ref("refund", r) # Reserved
        /\ (Ref("refund", q) = Ref("refund", r) => q = r)
    BY DEF Ref, Reserved
  <2>3. \A c \in Calls : call[c].step = "settling" => rows[call[c].row].ref = Reserved /\ Holds(c)
    BY DEF RInv, CallsFit, CallFits, Holds, Asks
  <2>4. \A b, c \in Calls : Holds(b) /\ Holds(c) /\ call[b].row = call[c].row => b = c
    BY DEF RInv, CallsFit
  <2> QED BY <2>1, <2>2, <2>3, <2>4
<1>10. Total(platform, m) <= Total(own, n)
  <2>1. /\ \A i \in 1..m : platform[i] # 0 => j[i] \in 1..n /\ platform[i] <= own[j[i]]
        /\ \A i, k \in 1..m : platform[i] # 0 /\ platform[k] # 0 /\ j[i] = j[k] => i = k
    <3> HIDE DEF j, platform, own, Is
    <3>1. ASSUME NEW i \in 1..m, platform[i] # 0 PROVE j[i] \in 1..n /\ platform[i] <= own[j[i]]
      <4>1. platform[i] \in Nat
        BY <1>5
      <4> QED BY <3>1, <4>1, <1>8
    <3> QED BY <3>1, <1>9
  <2> HIDE DEF j, platform, own, n, m
  <2> QED BY <2>1, <1>1, <1>5, TotalInjects
<1> HIDE DEF j, platform, own, n, m, Is
<1>11. /\ Total(Worths(rows), n) = Total(EventRows, n) + Total(own, n)
       /\ Total(Worths(refunds), m) = Total(Outside, m) + Total(platform, m)
  BY <1>1, <1>4, <1>5, <1>6, <1>7, TotalPlus
<1>12. /\ Total(EventRows, n) \in Nat /\ Total(own, n) \in Nat
       /\ Total(Outside, m) \in Nat /\ Total(platform, m) \in Nat
  BY <1>1, <1>5, TotalType
<1>13. GivenBack + Total(EventRows, n) <= Counted + Total(Outside, m)
  BY <1>4, <1>10, <1>11, <1>12
<1> QED BY <1>12, <1>13 DEF n, m

\* The difference is recorded.
LEMMA ApplyRefundKeeps ==
  ASSUME RInv, NEW d \in Deliveries, ApplyRefund(d)
  PROVE  RInv'
<1>0. PICK e \in DOMAIN events : e = delivery[d].event
  BY DEF ApplyRefund, RInv, DeliveriesFit
<1> DEFINE n == Len(rows)
           total == events[e].total
           x == [amount |-> total - Counted, status |-> "succeeded", ref |-> Ref("event", e)]
<1>1. /\ delivery[d].step = "applying" /\ events[e].kind = "charge.refunded"
      /\ events[e].state = "sent" /\ Counted = delivery[d].prior
      /\ Recorded(e) /\ delivery' = [delivery EXCEPT ![d] = IdleDelivery]
      /\ UNCHANGED <<refunds, told, call, faults>>
      /\ IF total > Counted
         THEN /\ rows' = Append(rows, x) /\ reversed' = ReverseOf(total - Counted)
              /\ order' \in {order, "refunded"}
         ELSE UNCHANGED <<rows, reversed, order>>
  BY <1>0 DEF ApplyRefund, Stale, Done
<1>2. /\ events' \in Seq(Event) /\ DOMAIN events' = DOMAIN events /\ Len(events') = Len(events)
      /\ \A f \in DOMAIN events :
            /\ events'[f].kind = events[f].kind /\ events'[f].total = events[f].total
            /\ events'[f].refund = events[f].refund /\ events'[f].status = events[f].status
            /\ f # e => events'[f].state = events[f].state
      /\ events'[e].state = "recorded"
      /\ \A r : FailureRecorded(r) => FailureRecorded(r)'
      /\ EventsFit'
  BY <1>1, EventRecorded
<1>3. /\ delivery' \in [Deliveries -> DeliveryState] /\ delivery'[d] = IdleDelivery
      /\ \A b \in Deliveries : b # d => delivery'[b] = delivery[b]
      /\ \A f : TellingOf(f) => TellingOf(f)'
  BY <1>1, IdleDeliveryFits, DeliveryMoves
<1>4. events[e].status = "none"
  BY <1>1 DEF RInv, EventsFit, EventFits
<1>5. DeliveriesFit'
  <2> SUFFICES ASSUME NEW b \in Deliveries
               PROVE  /\ delivery'[b].event \in 0..Len(events')
                      /\ delivery'[b].step # "idle" => delivery'[b].event \in DOMAIN events'
                      /\ delivery'[b].step = "telling" => events'[delivery'[b].event].status = "failed"
    BY DEF DeliveriesFit
  <2>1. CASE b = d
    BY <2>1, <1>2, <1>3, IdleDeliveryFits DEF RInv, Shape
  <2>2. CASE b # d
    BY <2>2, <1>2, <1>3 DEF RInv, DeliveriesFit
  <2> QED BY <2>1, <2>2
<1>6. FailuresTold'
  BY <1>1, <1>2, <1>3, <1>4 DEF RInv, FailuresTold
<1>7. total \in 0..Paid /\ Paid \in Nat /\ Counted \in Nat /\ \A f \in DOMAIN events : events[f].total \in Nat
  <2>1. events \in Seq(Event) /\ Paid \in Nat /\ \A y \in Event : y.total \in 0..Paid
    BY RefundAssumption DEF RInv, Shape, Event
  <2> QED BY <2>1, Amounts
<1>8. GivenBack' = GivenBack /\ (NoneFell' <=> NoneFell)
  BY <1>1 DEF GivenBack, NoneFell
<1>9. CASE ~(total > Counted)
  <2>1. UNCHANGED <<order, rows, reversed, refunds, call, faults, told>>
    BY <1>1, <1>9
  <2>2. CallsFit' /\ Held' /\ ClosedFor' /\ ReversedFit' /\ OutsideFit'
    BY <2>1, Frames
  <2>3. Shape'
    BY <2>1, <1>2, <1>3 DEF RInv, Shape
  <2>4. RowsFit'
    <3>1. ASSUME NEW k \in DOMAIN rows PROVE RowFits(k)'
      BY <2>1, <1>2 DEF RInv, RowsFit, RowFits, OfRefund
    <3> QED BY <3>1, <2>1 DEF RInv, RowsFit
  <2>5. Totals'
    <3>1. Counted' = Counted /\ AllStand' = AllStand
      BY <2>1 DEF Counted, AllStand
    <3>2. AllStand' => \A f \in DOMAIN events' :
             events'[f].state = "recorded" => events'[f].total <= Counted'
      <4> SUFFICES ASSUME AllStand, NEW f \in DOMAIN events, events'[f].state = "recorded"
                   PROVE  events[f].total <= Counted
        BY <3>1, <1>2
      <4>1. CASE f = e
        BY <4>1, <1>7, <1>9
      <4>2. CASE f # e
        BY <4>2, <1>2 DEF RInv, Totals
      <4> QED BY <4>1, <4>2
    <3> QED BY <3>2, <1>2, <1>8 DEF RInv, Totals
  <2> QED BY <2>2, <2>3, <2>4, <2>5, <1>2, <1>5, <1>6 DEF RInv
<1>10. CASE total > Counted
  <2> DEFINE more == total - Counted
  <2>1. more \in 1..Paid /\ x.amount = more /\ x.ref = Ref("event", e) /\ x.status = "succeeded"
        /\ x.ref.kind = "event" /\ x.ref.of = e
    BY <1>7, <1>10 DEF Ref
  <2>2. x \in Row
    <3>1. e \in Nat
      BY DEF RInv, Shape
    <3> QED BY <2>1, <3>1 DEF Row, RefSet, Statuses, Ref
  <2>3. Worth(x) = more
    BY <2>1 DEF Worth, Counts
  <2> HIDE DEF x
  <2>4. /\ rows' \in Seq(Row) /\ n \in Nat /\ Len(rows') = n + 1
        /\ DOMAIN rows = 1..n /\ DOMAIN rows' = 1..(n + 1)
        /\ rows'[n + 1] = x /\ \A k \in DOMAIN rows : rows'[k] = rows[k]
        /\ Counted' = Counted + more
    BY <1>1, <1>10, <2>2, <2>3, RowAdded
  <2>5. reversed' \in 0..Paid /\ reversed' <= reversed + more /\ reversed \in Nat /\ more \in Nat
        /\ Counted' = total
    <3>1. reversed' = ReverseOf(more) /\ more = total - Counted
      BY <1>1, <1>10
    <3>2. reversed \in 0..Paid
      BY DEF RInv, Shape
    <3> HIDE DEF more, total
    <3>3. reversed' \in 0..Paid /\ reversed' <= reversed + more
      BY <3>1, <3>2, <2>1, <1>7 DEF ReverseOf
    <3>4. Counted' = total
      BY <3>1, <2>1, <2>4, <1>7
    <3> QED BY <3>2, <3>3, <3>4, <2>1, <1>7
  <2> HIDE DEF n, more
  <2>6. /\ \A k \in DOMAIN rows' : k \in DOMAIN rows \/ k = n + 1
        /\ DOMAIN rows \subseteq DOMAIN rows' /\ n + 1 \in DOMAIN rows' /\ n + 1 \notin DOMAIN rows
    BY <2>4
  <2>7. Shape'
    BY <1>1, <1>2, <1>3, <1>10, <2>4, <2>5 DEF RInv, Shape
  <2>8. RowsFit'
    <3>1. ASSUME NEW k \in DOMAIN rows' PROVE RowFits(k)'
      <4>1. CASE k = n + 1
        BY <4>1, <1>2, <2>1, <2>4 DEF RowFits
      <4>2. CASE k \in DOMAIN rows
        <5>1. rows'[k] = rows[k] /\ RowFits(k)
          BY <4>2, <2>4 DEF RInv, RowsFit
        <5>2. OfRefund(k) => OfRefund(k)'
          BY <5>1, <1>1, <1>2 DEF OfRefund
        <5> QED BY <5>1, <5>2, <1>2 DEF RowFits
      <4> QED BY <4>1, <4>2, <2>6
    <3>2. ASSUME NEW j \in DOMAIN rows', NEW k \in DOMAIN rows',
                 rows'[j].ref.kind = "refund", rows'[k].ref = rows'[j].ref
          PROVE  j = k
      <4>1. j \in DOMAIN rows /\ k \in DOMAIN rows
        BY <3>2, <2>1, <2>4, <2>6
      <4> QED BY <3>2, <4>1, <2>4 DEF RInv, RowsFit
    <3> QED BY <3>1, <3>2 DEF RowsFit
  <2>9. \A b \in Calls : (Asks(b)' <=> Asks(b)) /\ (Follows(b)' <=> Follows(b)) /\ (Holds(b)' <=> Holds(b))
    BY <1>1 DEF Asks, Follows, Holds
  <2>10. CallsFit'
    <3>1. ASSUME NEW b \in Calls PROVE CallFits(b)'
      <4>1. CallFits(b)
        BY DEF RInv, CallsFit
      <4>2. Holds(b) => rows'[call[b].row] = rows[call[b].row] /\ call[b].row \in DOMAIN rows'
        BY <4>1, <2>4, <2>6 DEF CallFits
      <4>3. call[b].row \in 0..Len(rows')
        BY <4>1, <2>4 DEF CallFits, n
      <4> QED BY <4>1, <4>2, <4>3, <1>1, <2>9 DEF CallFits, Holds
    <3> QED BY <3>1, <2>9, <1>1 DEF RInv, CallsFit
  <2>11. Held'
    <3>1. ASSUME NEW k \in DOMAIN rows', rows'[k].ref = Reserved, rows'[k].status = "pending",
                 faults' = 0
          PROVE  HeldBy(k)'
      <4>1. k \in DOMAIN rows
        BY <3>1, <2>1, <2>4, <2>6
      <4> QED BY <3>1, <4>1, <2>4, <2>9, <1>1 DEF RInv, Held, HeldBy
    <3>2. \A r : NamedFor(r) => NamedFor(r)'
      BY <2>4, <2>6 DEF NamedFor
    <3>3. \A r : AnswerOf(r) => AnswerOf(r)'
      BY <1>1 DEF AnswerOf
    <3> QED BY <3>1, <3>2, <3>3, <1>1 DEF RInv, Held
  <2>12. ClosedFor'
    BY <2>1, <2>4, <2>6 DEF ClosedFor
  <2>13. Totals'
    <3>1. AllStand' => AllStand
      BY <2>4, <2>6 DEF AllStand
    <3>2. ASSUME AllStand', NEW f \in DOMAIN events, events'[f].state = "recorded"
          PROVE  events[f].total <= Counted'
      <4>1. CASE f = e
        BY <4>1, <1>7, <2>5
      <4>2. CASE f # e
        <5>1. events[f].total <= Counted
          BY <3>1, <3>2, <4>2, <1>2 DEF RInv, Totals
        <5> QED BY <5>1, <1>7, <1>10, <2>5
      <4> QED BY <4>1, <4>2
    <3>3. AllStand' => \A f \in DOMAIN events' :
             events'[f].state = "recorded" => events'[f].total <= Counted'
      BY <3>2, <1>2
    <3> QED BY <3>3, <1>2, <1>8 DEF RInv, Totals
  <2>14. /\ EventRows \in [1..n -> Nat] /\ EventRows' \in [1..(n + 1) -> Nat]
         /\ ReversedRows \in [1..n -> Nat] /\ ReversedRows' \in [1..(n + 1) -> Nat]
    BY <2>4, <2>7, Values, ValuesNext DEF RInv, n
  <2>15. ReversedFit'
    <3>1. ReversedRows'[n + 1] = more
      BY <2>1, <2>4, <2>6 DEF ReversedRows, Reversed
    <3>2. \A k \in 1..n : Reversed(k)' <=> Reversed(k)
      BY <2>4, <2>9, <1>1 DEF Reversed
    <3>3. \A k \in 1..n : ReversedRows'[k] = ReversedRows[k]
      BY <3>2, <2>4 DEF ReversedRows, n
    <3> DEFINE v == ReversedRows
               w == ReversedRows'
    <3>4. v \in [1..n -> Nat] /\ w \in [1..(n + 1) -> Nat] /\ n \in Nat
          /\ (\A k \in 1..n : w[k] = v[k]) /\ w[n + 1] = more
      BY <2>4, <2>14, <3>1, <3>3
    <3> HIDE DEF v, w
    <3>5. Total(w, n + 1) = Total(v, n) + more /\ Total(v, n) \in Nat
      BY <3>4, TotalNext, TotalType
    <3>6. reversed <= Total(v, n)
      BY DEF RInv, ReversedFit, n, v
    <3>7. reversed' <= Total(w, n + 1)
      BY <3>5, <3>6, <2>5
    <3> QED BY <3>7, <2>4 DEF ReversedFit, w
  <2>16. OutsideFit'
    <3> SUFFICES ASSUME faults = 0, NoneFell
                 PROVE  Total(EventRows', n + 1) <= Total(Outside, Len(refunds))
      BY <1>1, <1>8, <2>4 DEF OutsideFit, Outside
    <3>1. EventRows'[n + 1] = more
      BY <2>1, <2>4, <2>6 DEF EventRows
    <3>2. \A k \in 1..n : EventRows'[k] = EventRows[k]
      BY <2>4 DEF EventRows, n
    <3> DEFINE v == EventRows
               w == EventRows'
    <3>4. v \in [1..n -> Nat] /\ w \in [1..(n + 1) -> Nat] /\ n \in Nat
          /\ (\A k \in 1..n : w[k] = v[k]) /\ w[n + 1] = more
      BY <2>4, <2>14, <3>1, <3>2
    <3>5. /\ Total(v, n) \in Nat /\ Total(Outside, Len(refunds)) \in Nat
          /\ GivenBack + Total(v, n) <= Counted + Total(Outside, Len(refunds))
      BY PlatformCounted DEF n
    <3>6. total <= GivenBack /\ GivenBack \in Nat
      BY Amounts DEF RInv, Totals
    <3> HIDE DEF v, w, total
    <3>7. Total(w, n + 1) = Total(v, n) + more
      BY <3>4, TotalNext
    <3>8. Total(w, n + 1) <= Total(Outside, Len(refunds))
      BY <3>5, <3>6, <3>7, <1>7, <1>10 DEF more
    <3> QED BY <3>8 DEF w
  <2> QED BY <2>7, <2>8, <2>10, <2>11, <2>12, <2>13, <2>15, <2>16, <1>2, <1>5, <1>6 DEF RInv
<1> QED BY <1>9, <1>10

\* A row takes what Stripe says became of its refund.
LEMMA ApplyUpdateKeeps ==
  ASSUME RInv, NEW d \in Deliveries, ApplyUpdate(d)
  PROVE  RInv'
<1>0. PICK e \in DOMAIN events : e = delivery[d].event
  BY DEF ApplyUpdate, RInv, DeliveriesFit
<1>1. PICK row \in Nat : row = delivery[d].row
  BY DEF RInv, Shape, DeliveryState
<1>r. PICK r \in Nat : r = events[e].refund
  <2>1. events \in Seq(Event) /\ \A y \in Event : y.refund \in Nat
    BY DEF RInv, Shape, Event
  <2> QED BY <2>1
<1> DEFINE was == delivery[d].status
           becomes == Becomes(was, events[e].status)
           x == [rows[row] EXCEPT !.status = becomes]
           z == IF Tells(d) THEN [delivery[d] EXCEPT !.step = "telling"] ELSE IdleDelivery
<1>2. /\ delivery[d].step = "applying" /\ events[e].kind = "charge.refund.updated"
      /\ events[e].state = "sent" /\ row = RowOf(r) /\ RowStatus(row) = was
      /\ Recorded(e)
      /\ UNCHANGED <<order, refunds, reversed, told, call, faults>>
      /\ rows' = IF row = 0 THEN rows ELSE [rows EXCEPT ![row].status = becomes]
      /\ IF Tells(d) THEN delivery' = [delivery EXCEPT ![d].step = "telling"]
         ELSE delivery' = [delivery EXCEPT ![d] = IdleDelivery]
  BY <1>0, <1>1, <1>r DEF ApplyUpdate, Moved, Done
<1>3. Tells(d) <=> events[e].status = "failed" /\ (row = 0 \/ becomes # was)
  BY <1>0, <1>1 DEF Tells
<1>4. /\ r \in DOMAIN refunds /\ events[e].status \in {"succeeded", "failed"} /\ events[e].total = 0
      /\ events[e].status = "failed" => refunds[r].status = "failed"
  <2>1. events[e].status \in {"none", "succeeded", "failed"}
    <3>1. events \in Seq(Event) /\ \A y \in Event : y.status \in {"none", "succeeded", "failed"}
      BY DEF RInv, Shape, Event
    <3> QED BY <3>1
  <2> QED BY <2>1, <1>2, <1>r DEF RInv, EventsFit, EventFits
<1> HIDE DEF was
<1>5. /\ events' \in Seq(Event) /\ DOMAIN events' = DOMAIN events /\ Len(events') = Len(events)
      /\ \A f \in DOMAIN events :
            /\ events'[f].kind = events[f].kind /\ events'[f].total = events[f].total
            /\ events'[f].refund = events[f].refund /\ events'[f].status = events[f].status
            /\ f # e => events'[f].state = events[f].state
      /\ events'[e].state = "recorded"
      /\ \A q : FailureRecorded(q) => FailureRecorded(q)'
      /\ EventsFit'
  BY <1>2, EventRecorded
<1>6. /\ z \in DeliveryState /\ delivery' = [delivery EXCEPT ![d] = z]
      /\ (Tells(d) => z.step = "telling" /\ z.event = e)
      /\ (~Tells(d) => z = IdleDelivery)
  <2>1. delivery \in [Deliveries -> DeliveryState]
    BY DEF RInv, Shape
  <2>2. IdleDelivery \in DeliveryState
    BY IdleDeliveryFits
  <2> QED BY <2>1, <2>2, <1>0, <1>2 DEF DeliveryState
<1> HIDE DEF z
<1>7. /\ delivery' \in [Deliveries -> DeliveryState] /\ delivery'[d] = z
      /\ \A b \in Deliveries : b # d => delivery'[b] = delivery[b]
      /\ \A f : TellingOf(f) => TellingOf(f)'
  BY <1>2, <1>6, DeliveryMoves
<1>8. DeliveriesFit'
  <2> SUFFICES ASSUME NEW b \in Deliveries
               PROVE  /\ delivery'[b].event \in 0..Len(events')
                      /\ delivery'[b].step # "idle" => delivery'[b].event \in DOMAIN events'
                      /\ delivery'[b].step = "telling" => events'[delivery'[b].event].status = "failed"
    BY DEF DeliveriesFit
  <2>1. CASE b = d
    <3>1. CASE Tells(d)
      BY <3>1, <2>1, <1>3, <1>5, <1>6, <1>7 DEF RInv, Shape
    <3>2. CASE ~Tells(d)
      BY <3>2, <2>1, <1>5, <1>6, <1>7, IdleDeliveryFits DEF RInv, Shape
    <3> QED BY <3>1, <3>2
  <2>2. CASE b # d
    BY <2>2, <1>5, <1>7 DEF RInv, DeliveriesFit
  <2> QED BY <2>1, <2>2
<1>9. /\ \A k \in DOMAIN rows : k # 0
      /\ row # 0 => row \in DOMAIN rows /\ rows[row].ref = Ref("refund", r) /\ rows[row].status = was
  <2>1. \A k \in DOMAIN rows : k # 0
    BY DEF RInv, Shape
  <2>2. row # 0 => row \in DOMAIN rows /\ rows[row].ref = Ref("refund", r)
    BY <1>2 DEF RowOf
  <2> QED BY <2>1, <2>2, <1>2 DEF RowStatus
<1>10. row # 0 => /\ OfRefund(row) /\ rows[row].ref.kind = "refund" /\ rows[row].ref.of = r
                  /\ Counts(was) \/ (was = "failed" /\ FailureRecorded(r))
                  /\ rows[row] \in Row
  <2> SUFFICES ASSUME row # 0
               PROVE  /\ OfRefund(row) /\ rows[row].ref.kind = "refund" /\ rows[row].ref.of = r
                      /\ Counts(was) \/ (was = "failed" /\ FailureRecorded(r))
                      /\ rows[row] \in Row
    OBVIOUS
  <2>1. rows[row].ref.kind = "refund" /\ rows[row].ref.of = r
    BY <1>9 DEF Ref
  <2>2. RowFits(row) /\ rows[row] \in Row
    BY <1>9 DEF RInv, RowsFit, Shape
  <2>3. OfRefund(row)
    BY <2>1, <2>2 DEF RowFits, Reserved, FailedCall, Ref
  <2> QED BY <2>1, <2>2, <2>3, <1>9 DEF OfRefund
<1>11. row # 0 => /\ becomes \in Statuses
                  /\ Counts(becomes) \/ (becomes = "failed" /\ FailureRecorded(r)')
                  /\ Counts(becomes) => Counts(was)
  <2>1. events[e].status = "failed" => FailureRecorded(r)'
    BY <1>5, <1>r DEF FailureRecorded, Fails
  <2> QED BY <2>1, <1>4, <1>5, <1>10 DEF Becomes, Counts, Statuses
<1>12. FailuresTold'
  <2> SUFFICES ASSUME faults = 0, NEW f \in DOMAIN events, events[f].status = "failed",
                      events'[f].state = "recorded"
               PROVE  events[f].refund \in told \/ TellingOf(f)'
    BY <1>2, <1>5 DEF FailuresTold
  <2>1. CASE f # e
    BY <2>1, <1>5, <1>7 DEF RInv, FailuresTold
  <2>2. CASE f = e
    <3>1. Tells(d)
      <4> SUFFICES ASSUME row # 0, becomes = was PROVE FALSE
        BY <2>2, <1>3
      <4>1. was = "failed" /\ FailureRecorded(r)
        BY <2>2, <1>10 DEF Becomes, Counts
      <4>2. PICK g \in DOMAIN events : Fails(g, r) /\ events[g].state = "recorded"
        BY <4>1 DEF FailureRecorded
      <4>3. Fails(e, r)
        BY <2>2, <1>r DEF Fails
      <4> QED BY <4>2, <4>3, <1>2, <1>4 DEF RInv, EventsFit
    <3> QED BY <3>1, <2>2, <1>6, <1>7 DEF TellingOf
  <2> QED BY <2>1, <2>2
<1>13. GivenBack' = GivenBack /\ (NoneFell' <=> NoneFell)
  BY <1>2 DEF GivenBack, NoneFell
<1>14. CASE row = 0
  <2>1. UNCHANGED <<order, rows, reversed, refunds, call, faults, told>>
    BY <1>2, <1>14
  <2>2. CallsFit' /\ Held' /\ ClosedFor' /\ ReversedFit' /\ OutsideFit'
    BY <2>1, Frames
  <2>3. Shape'
    BY <2>1, <1>5, <1>7 DEF RInv, Shape
  <2>4. RowsFit'
    <3>1. ASSUME NEW k \in DOMAIN rows PROVE RowFits(k)'
      BY <2>1, <1>5 DEF RInv, RowsFit, RowFits, OfRefund
    <3> QED BY <3>1, <2>1 DEF RInv, RowsFit
  <2>5. Totals'
    <3>1. Counted' = Counted /\ AllStand' = AllStand /\ 0 <= Counted
      BY <2>1, Amounts DEF Counted, AllStand
    <3>2. AllStand => \A f \in DOMAIN events :
             events'[f].state = "recorded" => events[f].total <= Counted
      BY <3>1, <1>4, <1>5 DEF RInv, Totals
    <3> QED BY <3>1, <3>2, <1>5, <1>13 DEF RInv, Totals
  <2> QED BY <2>2, <2>3, <2>4, <2>5, <1>5, <1>8, <1>12 DEF RInv
<1>15. CASE row # 0
  <2> DEFINE n == Len(rows)
  <2>1. x \in Row /\ x.status = becomes /\ x.amount = rows[row].amount /\ x.ref = rows[row].ref
        /\ rows' = [rows EXCEPT ![row] = x]
    <3>1. rows' = [rows EXCEPT ![row] = x]
      BY <1>2, <1>9, <1>15 DEF RInv, Shape
    <3> HIDE DEF becomes
    <3> QED BY <3>1, <1>10, <1>11, <1>15 DEF Row
  <2> HIDE DEF x, becomes
  <2>2. /\ rows' \in Seq(Row) /\ n \in Nat /\ Len(rows') = n
        /\ DOMAIN rows = 1..n /\ DOMAIN rows' = DOMAIN rows
        /\ rows'[row] = x /\ \A k \in DOMAIN rows : k # row => rows'[k] = rows[k]
        /\ Counted' + Worth(rows[row]) = Counted + Worth(x)
        /\ Counted \in Nat /\ Counted' \in Nat
    BY <2>1, <1>9, <1>15, RowRewritten
  <2>3. \A k \in DOMAIN rows : rows'[k].ref = rows[k].ref /\ rows'[k].amount = rows[k].amount
    BY <2>1, <2>2
  <2> HIDE DEF n
  <2>4. Shape'
    BY <2>2, <1>2, <1>5, <1>7 DEF RInv, Shape
  <2>5. RowsFit'
    <3>1. ASSUME NEW k \in DOMAIN rows PROVE RowFits(k)'
      <4>1. CASE k = row
        <5>1. OfRefund(row) /\ rows[row].ref.of = r /\ rows[row].ref.kind = "refund"
          BY <1>10, <1>15
        <5>2. Counts(x.status) \/ (x.status = "failed" /\ FailureRecorded(r)')
          BY <2>1, <1>11, <1>15
        <5>3. OfRefund(row)'
          BY <5>1, <5>2, <2>1, <2>2, <1>2 DEF OfRefund
        <5> QED BY <4>1, <5>1, <5>3, <2>1, <2>2 DEF RowFits
      <4>2. CASE k # row
        <5>1. rows'[k] = rows[k] /\ RowFits(k)
          BY <4>2, <2>2 DEF RInv, RowsFit
        <5>2. OfRefund(k) => OfRefund(k)'
          BY <5>1, <1>2, <1>5 DEF OfRefund
        <5> QED BY <5>1, <5>2, <1>5 DEF RowFits
      <4> QED BY <4>1, <4>2
    <3> QED BY <3>1, <2>2, <2>3 DEF RInv, RowsFit
  <2>6. \A b \in Calls : (Asks(b)' <=> Asks(b)) /\ (Follows(b)' <=> Follows(b)) /\ (Holds(b)' <=> Holds(b))
    BY <1>2 DEF Asks, Follows, Holds
  <2>7. CallsFit'
    <3>1. ASSUME NEW b \in Calls PROVE CallFits(b)'
      <4>1. CallFits(b)
        BY DEF RInv, CallsFit
      <4>2. Holds(b) => call[b].row \in DOMAIN rows
        BY <4>1 DEF CallFits
      <4>3. Asks(b) => rows'[call[b].row] = rows[call[b].row]
        <5>1. Asks(b) => call[b].row # row
          BY <4>1, <1>10, <1>15 DEF CallFits, Reserved, Ref
        <5> QED BY <5>1, <4>2, <2>2 DEF Holds
      <4>4. call[b].row \in 0..Len(rows')
        BY <4>1, <2>2 DEF CallFits, n
      <4> QED BY <4>1, <4>2, <4>3, <4>4, <2>2, <2>3, <2>6, <1>2 DEF CallFits, Holds
    <3> QED BY <3>1, <2>6, <1>2 DEF RInv, CallsFit
  <2>8. Held'
    <3>1. ASSUME NEW k \in DOMAIN rows, rows'[k].ref = Reserved, rows'[k].status = "pending",
                 faults' = 0
          PROVE  HeldBy(k)'
      <4>1. k # row
        BY <3>1, <2>1, <2>2, <1>10, <1>15 DEF Reserved, Ref
      <4> QED BY <3>1, <4>1, <2>2, <2>6, <1>2 DEF RInv, Held, HeldBy
    <3>2. \A q : NamedFor(q) => NamedFor(q)'
      BY <2>2, <2>3 DEF NamedFor
    <3>3. \A q : AnswerOf(q) => AnswerOf(q)'
      BY <1>2 DEF AnswerOf
    <3> QED BY <3>1, <3>2, <3>3, <1>2, <2>2 DEF RInv, Held
  <2>9. ClosedFor'
    BY <2>2, <2>3, <1>2 DEF RInv, ClosedFor
  <2>10. Totals'
    <3>1. AllStand' => AllStand /\ Counted' = Counted
      <4> SUFFICES ASSUME AllStand' PROVE AllStand /\ Counted' = Counted
        OBVIOUS
      <4>1. Counts(x.status)
        BY <2>2, <1>9, <1>15 DEF AllStand
      <4>2. Counts(rows[row].status)
        BY <4>1, <2>1, <1>9, <1>11, <1>15
      <4>3. AllStand
        BY <4>2, <2>2 DEF AllStand
      <4>4. Worth(x) = rows[row].amount /\ Worth(rows[row]) = rows[row].amount
        BY <4>1, <4>2, <2>1 DEF Worth
      <4>5. rows[row].amount \in Nat
        BY <1>10, <1>15, Amounts
      <4> QED BY <4>3, <4>4, <4>5, <2>2
    <3>2. AllStand' => \A f \in DOMAIN events :
             events'[f].state = "recorded" => events[f].total <= Counted'
      BY <3>1, <2>2, <1>4, <1>5 DEF RInv, Totals
    <3> QED BY <3>2, <1>5, <1>13 DEF RInv, Totals
  <2>11. ReversedFit'
    <3>1. ASSUME NEW k \in DOMAIN rows PROVE Reversed(k)' <=> Reversed(k)
      BY <2>3, <2>6, <1>2 DEF Reversed
    <3>2. ReversedRows' = ReversedRows
      BY <3>1, <2>2, <2>3 DEF ReversedRows, n
    <3> QED BY <3>2, <2>2, <1>2 DEF RInv, ReversedFit, n
  <2>12. OutsideFit'
    <3>1. EventRows' = EventRows
      BY <2>2, <2>3 DEF EventRows, n
    <3>2. Outside' = Outside
      BY <1>2 DEF Outside
    <3> QED BY <3>1, <3>2, <2>2, <1>2, <1>13 DEF RInv, OutsideFit, n
  <2> QED BY <2>4, <2>5, <2>7, <2>8, <2>9, <2>10, <2>11, <2>12, <1>5, <1>8, <1>12 DEF RInv
<1> QED BY <1>14, <1>15

-----------------------------------------------------------------------------
\* The invariant is inductive.

\* Every step of the calls, of the deliveries and of Stripe keeps it.
LEMMA NextRInv == RInv /\ [Next]_vars => RInv'
<1> SUFFICES ASSUME RInv, [Next]_vars PROVE RInv'
  OBVIOUS
<1>1. CASE UNCHANGED vars
  <2>1. EventsFit' /\ RowsFit' /\ CallsFit' /\ DeliveriesFit' /\ Held' /\ FailuresTold'
        /\ ClosedFor' /\ Totals' /\ ReversedFit' /\ OutsideFit'
    BY <1>1, Frames DEF vars
  <2>2. Shape'
    BY <1>1 DEF vars, RInv, Shape
  <2> QED BY <2>1, <2>2 DEF RInv
<1>2. CASE \E amount \in 1..Paid : RefundOutside(amount)
  BY <1>2, RefundOutsideKeeps
<1>3. CASE \E r \in DOMAIN refunds : SettleAtStripe(r)
  BY <1>3, SettleAtStripeKeeps
<1>4. ASSUME NEW c \in Calls,
             \/ BeginCancel(c) \/ BeginDecision(c) \/ Reserve(c) \/ Ask(c)
             \/ Settle(c) \/ Close(c) \/ ReverseCommission(c) \/ StopCall(c)
      PROVE  RInv'
  BY <1>4, BeginKeeps, ReserveKeeps, AskKeeps, SettleKeeps, CloseKeeps, ReverseCommissionKeeps,
     StopCallKeeps
<1>5. ASSUME NEW d \in Deliveries,
             \/ \E e \in DOMAIN events : Deliver(d, e)
             \/ AnswerRecorded(d) \/ ApplyRefund(d) \/ ApplyUpdate(d)
             \/ Refuse(d) \/ Tell(d) \/ StopDelivery(d)
      PROVE  RInv'
  BY <1>5, DeliverKeeps, AnswerRecordedKeeps, ApplyRefundKeeps, ApplyUpdateKeeps, TellKeeps,
     StopDeliveryKeeps
<1> QED BY <1>1, <1>2, <1>3, <1>4, <1>5 DEF Next

\* It holds in every state the calls, the deliveries and Stripe can reach together.
THEOREM RefundLedgerInv == Spec => []RInv
<1>1. Init => RInv
  BY InitRInv
<1>2. RInv /\ [Next]_vars => RInv'
  BY NextRInv
<1> QED BY <1>1, <1>2, PTL DEF Spec

-----------------------------------------------------------------------------
\* What follows from it.

RefundRows == [k \in 1..Len(rows) |-> IF rows[k].ref.kind = "refund" THEN rows[k].amount ELSE 0]

\* While no refund failed and nothing was lost, the rows under Stripe's names for what
\* it did come to no more than it gave back.
LEMMA NamedRowsGivenBack ==
  ASSUME RInv, faults = 0, NoneFell
  PROVE  /\ RefundRows \in [1..Len(rows) -> Nat]
         /\ Total(EventRows, Len(rows)) \in Nat /\ Total(RefundRows, Len(rows)) \in Nat
         /\ GivenBack \in Nat
         /\ Total(EventRows, Len(rows)) + Total(RefundRows, Len(rows)) <= GivenBack
<1> DEFINE n == Len(rows)
           m == Len(refunds)
           platform == [r \in 1..m |->
              IF refunds[r].key = "platform" THEN refunds[r].amount ELSE 0]
           j == [k \in 1..n |-> rows[k].ref.of]
<1>1. /\ n \in Nat /\ DOMAIN rows = 1..n /\ m \in Nat /\ DOMAIN refunds = 1..m
      /\ EventRows \in [1..n -> Nat] /\ Outside \in [1..m -> Nat]
  BY Values DEF RInv
<1>2. /\ rows \in Seq(Row) /\ refunds \in Seq(Refund)
      /\ \A x \in Row : x.amount \in Nat /\ x.ref \in RefSet
      /\ \A x \in Refund : x.amount \in Nat /\ x.status \in {"pending", "succeeded", "failed"}
                           /\ x.key \in {"dashboard", "platform"}
  BY Amounts DEF RInv, Shape, Refund, Row
<1>3. /\ \A k \in 1..n : rows[k].amount \in Nat /\ rows[k].ref \in RefSet
      /\ \A r \in 1..m : /\ refunds[r].amount \in Nat
                         /\ refunds[r].status \in {"pending", "succeeded", "failed"}
                         /\ refunds[r].key \in {"dashboard", "platform"}
  <2> HIDE DEF n, m
  <2> QED BY <1>1, <1>2
<1>4. Worths(refunds) \in [1..m -> Nat] /\ GivenBack = Total(Worths(refunds), m)
  BY <1>1, <1>3, CentsOfTotal DEF GivenBack
<1>5. RefundRows \in [1..n -> Nat] /\ platform \in [1..m -> Nat]
  BY <1>3 DEF RefundRows
<1>6. \A r \in 1..m : Worths(refunds)[r] = Outside[r] + platform[r]
  <2> SUFFICES ASSUME NEW r \in 1..m PROVE Worths(refunds)[r] = Outside[r] + platform[r]
    OBVIOUS
  <2>1. refunds[r].status # "failed"
    BY <1>1 DEF NoneFell
  <2> QED BY <2>1, <1>3 DEF Worths, Worth, Counts, Outside
<1>7. ASSUME NEW k \in 1..n, RefundRows[k] # 0
      PROVE  rows[k].ref.kind = "refund" /\ j[k] \in 1..m /\ RefundRows[k] <= platform[j[k]]
  <2>1. rows[k].ref.kind = "refund" /\ RefundRows[k] = rows[k].amount
    BY <1>7 DEF RefundRows
  <2>2. OfRefund(k)
    BY <2>1, <1>1 DEF RInv, RowsFit, RowFits, Reserved, FailedCall, Ref
  <2>3. j[k] = rows[k].ref.of
    OBVIOUS
  <2>4. j[k] \in 1..m /\ refunds[j[k]].key = "platform" /\ refunds[j[k]].amount = rows[k].amount
    BY <2>2, <2>3, <1>1 DEF OfRefund
  <2>5. platform[j[k]] = rows[k].amount
    BY <2>4
  <2> QED BY <2>1, <2>4, <2>5, <1>3
<1>8. ASSUME NEW i \in 1..n, NEW k \in 1..n, RefundRows[i] # 0, RefundRows[k] # 0, j[i] = j[k]
      PROVE  i = k
  <2>1. rows[i].ref.kind = "refund" /\ rows[k].ref.kind = "refund"
    BY <1>7, <1>8
  <2>2. rows[i].ref.of = rows[k].ref.of
    BY <1>8
  <2>3. rows[i].ref = rows[k].ref
    BY <2>1, <2>2, <1>3 DEF RefSet
  <2> QED BY <2>1, <2>3, <1>1 DEF RInv, RowsFit
<1> HIDE DEF j, platform, n, m
<1>9. Total(RefundRows, n) <= Total(platform, m)
  BY <1>1, <1>5, <1>7, <1>8, TotalInjects
<1>10. Total(Worths(refunds), m) = Total(Outside, m) + Total(platform, m)
  BY <1>1, <1>4, <1>5, <1>6, TotalPlus
<1>11. /\ Total(EventRows, n) \in Nat /\ Total(RefundRows, n) \in Nat
       /\ Total(Outside, m) \in Nat /\ Total(platform, m) \in Nat
  BY <1>1, <1>5, TotalType
<1>12. Total(EventRows, n) <= Total(Outside, m)
  BY DEF RInv, OutsideFit, n, m
<1>13. GivenBack \in Nat
  BY Amounts
<1>14. Total(EventRows, n) + Total(RefundRows, n) <= GivenBack
  BY <1>4, <1>9, <1>10, <1>11, <1>12
<1> QED BY <1>5, <1>11, <1>13, <1>14 DEF n

\* When all is quiet, a row that stands is under Stripe's name for what it did.
LEMMA LedgerAgrees == RInv => LedgerAgreesWhileRowsStand
<1> SUFFICES ASSUME RInv, Quiet, faults = 0, NoneFell, AllStand PROVE Counted = GivenBack
  BY DEF LedgerAgreesWhileRowsStand
<1> DEFINE n == Len(rows)
<1>1. /\ RefundRows \in [1..n -> Nat]
      /\ Total(EventRows, n) \in Nat /\ Total(RefundRows, n) \in Nat
      /\ GivenBack \in Nat
      /\ Total(EventRows, n) + Total(RefundRows, n) <= GivenBack
  BY NamedRowsGivenBack
<1>2. n \in Nat /\ DOMAIN rows = 1..n /\ EventRows \in [1..n -> Nat]
  BY Values DEF RInv
<1>3. rows \in Seq(Row) /\ Counted \in Nat /\ \A x \in Row : x.amount \in Nat
  BY Amounts DEF RInv, Shape
<1>4. \A k \in 1..n : rows[k].amount \in Nat
  BY <1>3
<1>5. Worths(rows) \in [1..n -> Nat] /\ Counted = Total(Worths(rows), n)
  BY <1>2, <1>4, CentsOfTotal DEF Counted
<1>6. ASSUME NEW k \in 1..n PROVE Worths(rows)[k] = EventRows[k] + RefundRows[k]
  <2>1. Counts(rows[k].status)
    BY <1>2 DEF AllStand
  <2>2. RowFits(k)
    BY <1>2 DEF RInv, RowsFit
  <2>3. ~HeldBy(k)
    BY DEF Quiet, HeldBy, Asks, IdleCall
  <2>4. ~(rows[k].ref = Reserved /\ rows[k].status = "pending")
    BY <2>3, <1>2 DEF RInv, Held
  <2>5. rows[k].ref.kind = "refund" \/ rows[k].ref.kind = "event"
    BY <2>1, <2>2, <2>4 DEF RowFits, Counts
  <2> QED BY <2>1, <2>5, <1>4 DEF Worths, Worth, EventRows, RefundRows
<1> HIDE DEF n
<1>7. Total(Worths(rows), n) = Total(EventRows, n) + Total(RefundRows, n)
  BY <1>1, <1>2, <1>5, <1>6, TotalPlus
<1>8. Counted <= GivenBack
  BY <1>1, <1>5, <1>7
<1>9. GivenBack <= Counted
  <2>1. CASE GivenBack = 0
    BY <2>1, <1>3
  <2>2. CASE \E e \in DOMAIN events : events[e].total = GivenBack
    BY <2>2 DEF Quiet, RInv, Totals
  <2> QED BY <2>1, <2>2 DEF RInv, Totals
<1> QED BY <1>1, <1>3, <1>8, <1>9

\* What was reversed was reversed for rows under Stripe's names.
LEMMA FollowsOnlyRefunds == RInv => FollowsFromRefunds
<1> SUFFICES ASSUME RInv PROVE FollowsFromRefunds
  OBVIOUS
<1> DEFINE n == Len(rows)
           both == [k \in 1..n |-> EventRows[k] + RefundRows[k]]
<1>1. ASSUME faults = 0, NoneFell PROVE reversed <= GivenBack
  <2>1. /\ RefundRows \in [1..n -> Nat]
        /\ Total(EventRows, n) \in Nat /\ Total(RefundRows, n) \in Nat
        /\ GivenBack \in Nat
        /\ Total(EventRows, n) + Total(RefundRows, n) <= GivenBack
    BY <1>1, NamedRowsGivenBack
  <2>2. /\ n \in Nat /\ EventRows \in [1..n -> Nat] /\ ReversedRows \in [1..n -> Nat]
    BY Values DEF RInv
  <2>3. both \in [1..n -> Nat] /\ \A k \in 1..n : both[k] = EventRows[k] + RefundRows[k]
    BY <2>1, <2>2
  <2>4. ASSUME NEW k \in 1..n PROVE ReversedRows[k] <= both[k]
    <3>1. /\ ReversedRows[k] = IF Reversed(k) THEN rows[k].amount ELSE 0
          /\ EventRows[k] = IF rows[k].ref.kind = "event" THEN rows[k].amount ELSE 0
          /\ RefundRows[k] = IF rows[k].ref.kind = "refund" THEN rows[k].amount ELSE 0
      BY DEF ReversedRows, EventRows, RefundRows
    <3>2. Reversed(k) => rows[k].ref.kind = "event" \/ rows[k].ref.kind = "refund"
      BY DEF Reversed
    <3>3. ReversedRows[k] \in Nat /\ EventRows[k] \in Nat /\ RefundRows[k] \in Nat
      BY <2>1, <2>2
    <3> HIDE DEF n, both
    <3> QED BY <2>3, <3>1, <3>2, <3>3
  <2> HIDE DEF n, both
  <2>5. Total(both, n) = Total(EventRows, n) + Total(RefundRows, n)
    BY <2>1, <2>2, <2>3, TotalPlus
  <2>6. Total(ReversedRows, n) <= Total(both, n) /\ Total(ReversedRows, n) \in Nat
    BY <2>2, <2>3, <2>4, TotalGrows, TotalType
  <2>7. reversed <= Total(ReversedRows, n) /\ reversed \in Nat
    BY RefundAssumption DEF RInv, Shape, ReversedFit, n
  <2> QED BY <2>1, <2>5, <2>6, <2>7
<1>2. order = "refunded" => \E k \in DOMAIN rows : rows[k].ref.kind \in {"refund", "event"}
  BY DEF RInv, ClosedFor
<1> QED BY <1>1, <1>2 DEF FollowsFromRefunds

\* A failure is told, is being told, or is not on record yet.
LEMMA FailuresAreTold == RInv => FailedRefundIsTold
<1> SUFFICES ASSUME RInv, Quiet, faults = 0, NEW r \in DOMAIN refunds,
                    refunds[r].status = "failed"
             PROVE  r \in told
  BY DEF FailedRefundIsTold
<1>1. PICK e \in DOMAIN events : Fails(e, r)
  BY DEF RInv, EventsFit
<1>2. events[e].status = "failed" /\ events[e].refund = r /\ events[e].state = "recorded"
  BY <1>1 DEF Fails, Quiet
<1>3. ~TellingOf(e)
  BY DEF TellingOf, Quiet, IdleDelivery
<1> QED BY <1>2, <1>3 DEF RInv, FailuresTold

\* A row is rewritten only while it counts, or as it was.
LEMMA FallenStay ==
  ASSUME RInv, Next, NEW k \in DOMAIN rows, ~Counts(rows[k].status)
  PROVE  rows'[k] = rows[k]
<1>1. rows \in Seq(Row)
  BY DEF RInv, Shape
<1>2. CASE UNCHANGED rows
  BY <1>2
<1>3. ASSUME NEW c \in Calls, Reserve(c) PROVE rows'[k] = rows[k]
  <2>1. \E x : rows' = Append(rows, x)
    BY <1>3 DEF Reserve
  <2> QED BY <2>1, <1>1
<1>4. ASSUME NEW c \in Calls, Settle(c) PROVE rows'[k] = rows[k]
  <2>1. call[c].row # k
    BY <1>4 DEF Settle, RInv, CallsFit, CallFits, Asks, Counts
  <2>2. \E x : rows' = [rows EXCEPT ![call[c].row] = x]
    BY <1>4 DEF Settle
  <2> QED BY <2>1, <2>2, <1>1
<1>5. ASSUME NEW d \in Deliveries, ApplyRefund(d) PROVE rows'[k] = rows[k]
  <2>1. (\E x : rows' = Append(rows, x)) \/ UNCHANGED rows
    BY <1>5 DEF ApplyRefund
  <2> QED BY <2>1, <1>1
<1>6. ASSUME NEW d \in Deliveries, ApplyUpdate(d) PROVE rows'[k] = rows[k]
  <2> DEFINE e == delivery[d].event
             row == delivery[d].row
             becomes == Becomes(delivery[d].status, events[e].status)
  <2>1. /\ row = RowOf(events[e].refund) /\ RowStatus(row) = delivery[d].status
        /\ rows' = IF row = 0 THEN rows ELSE [rows EXCEPT ![row].status = becomes]
    BY <1>6 DEF ApplyUpdate, Moved
  <2>2. CASE row = 0
    BY <2>1, <2>2
  <2>3. CASE row # 0 /\ row # k
    BY <2>1, <2>3, <1>1
  <2>4. CASE row # 0 /\ row = k
    <3>1. becomes = rows[k].status
      BY <2>1, <2>4 DEF RowStatus, Becomes
    <3>2. rows'[k] = [rows[k] EXCEPT !.status = rows[k].status]
      BY <2>1, <2>4, <3>1, <1>1
    <3>3. rows[k] \in Row
      BY <1>1
    <3> QED BY <3>2, <3>3 DEF Row
  <2> QED BY <2>2, <2>3, <2>4
<1>7. ASSUME NEW c \in Calls,
             \/ BeginCancel(c) \/ BeginDecision(c) \/ Ask(c)
             \/ Close(c) \/ ReverseCommission(c) \/ StopCall(c)
      PROVE  UNCHANGED rows
  BY <1>7 DEF BeginCancel, BeginDecision, Ask, Close, ReverseCommission, StopCall
<1>8. ASSUME NEW d \in Deliveries,
             \/ \E e \in DOMAIN events : Deliver(d, e)
             \/ AnswerRecorded(d) \/ Refuse(d) \/ Tell(d) \/ StopDelivery(d)
      PROVE  UNCHANGED rows
  BY <1>8 DEF Deliver, AnswerRecorded, Refuse, Tell, StopDelivery
<1>9. (\E amount \in 1..Paid : RefundOutside(amount)) \/ (\E r \in DOMAIN refunds : SettleAtStripe(r))
      => UNCHANGED rows
  BY DEF RefundOutside, SettleAtStripe
<1> QED BY <1>2, <1>3, <1>4, <1>5, <1>6, <1>7, <1>8, <1>9 DEF Next

\* The types the run checks follow from the invariant's.
LEMMA RefundTypes == RInv => RefundTypeOK
<1> SUFFICES ASSUME RInv PROVE RefundTypeOK
  OBVIOUS
<1>1. /\ order \in {"in_fulfilment", "refunded"} /\ reversed \in 0..Paid
      /\ told \subseteq DOMAIN refunds /\ faults \in 0..MaxFaults
      /\ rows \in Seq(Row) /\ refunds \in Seq(Refund)
  BY DEF RInv, Shape
<1>2. GivenBack <= Paid
  BY DEF RInv, Totals
<1>3. /\ \A c \in Calls : call[c].row \in 0..Len(rows) /\ call[c].answer \in 0..Len(refunds)
      /\ \A d \in Deliveries : delivery[d].event \in 0..Len(events)
  BY DEF RInv, CallsFit, CallFits, DeliveriesFit
<1>4. \A r \in DOMAIN refunds : refunds[r].amount \in 1..Paid
  <2>1. \A x \in Refund : x.amount \in 1..Paid
    BY DEF Refund
  <2> QED BY <2>1, <1>1
<1>5. ASSUME NEW k \in DOMAIN rows
      PROVE  /\ rows[k].amount \in 1..Paid /\ rows[k].status \in Statuses
             /\ rows[k].ref \in {Reserved, FailedCall}
                   \cup {Ref("refund", r) : r \in DOMAIN refunds}
                   \cup {Ref("event", e) : e \in DOMAIN events}
  <2>1. rows[k].amount \in 1..Paid /\ rows[k].status \in Statuses /\ rows[k].ref \in RefSet
    <3>1. \A x \in Row : x.amount \in 1..Paid /\ x.status \in Statuses /\ x.ref \in RefSet
      BY DEF Row
    <3> QED BY <3>1, <1>1
  <2>2. rows[k].ref = Ref(rows[k].ref.kind, rows[k].ref.of)
    BY <2>1 DEF RefSet, Ref
  <2>3. RowFits(k)
    BY DEF RInv, RowsFit
  <2>4. CASE rows[k].ref = Reserved \/ rows[k].ref = FailedCall
    BY <2>1, <2>4
  <2>5. CASE rows[k].ref.kind = "refund" /\ rows[k].ref.of \in DOMAIN refunds
    BY <2>1, <2>2, <2>5
  <2>6. CASE rows[k].ref.kind = "event" /\ rows[k].ref.of \in DOMAIN events
    BY <2>1, <2>2, <2>6
  <2> QED BY <2>3, <2>4, <2>5, <2>6 DEF RowFits, OfRefund
<1> QED BY <1>1, <1>2, <1>3, <1>4, <1>5 DEF RefundTypeOK

-----------------------------------------------------------------------------

\* The rows, the refunds and the events keep their shape through every interleaving of
\* cancelAndRefund, settleDecision, eng_apply_refund and eng_apply_refund_update.
THEOREM RefundTypesHold == Spec => []RefundTypeOK
BY RefundLedgerInv, RefundTypes, PTL

\* Once every event is recorded the ledger counts exactly what Stripe gave back, however
\* the platform's refunds (reserveRefundRow, settleRefundRow), the dashboard's
\* (recordExternalRefund) and their events crossed, while no refund failed, no row fell
\* and nothing was stopped or lost.
THEOREM LedgerAgreement == Spec => []LedgerAgreesWhileRowsStand
BY RefundLedgerInv, LedgerAgrees, PTL

\* reverseForRefund and eng_apply_refund never reverse more commission than Stripe gave
\* back, and an order reads refunded only once a row has Stripe's name for a refund.
THEOREM RefundsAreFollowed == Spec => []FollowsFromRefunds
BY RefundLedgerInv, FollowsOnlyRefunds, PTL

\* A refund that fails after Stripe accepted it is told once its event is recorded,
\* by the alert or by the task of applyRefundUpdate.
THEOREM FailedRefundsAreTold == Spec => []FailedRefundIsTold
BY RefundLedgerInv, FailuresAreTold, PTL

\* No answer of settleRefundRow and no event of eng_apply_refund_update brings back a
\* row that failed or was cancelled.
THEOREM FallenRowsAreFinal == Spec => FallenRowsStayFallen
<1>1. RInv /\ [Next]_vars
      => [\A k \in DOMAIN rows : ~Counts(rows[k].status) => rows'[k] = rows[k]]_vars
  BY FallenStay
<1> QED BY <1>1, RefundLedgerInv, PTL DEF Spec, FallenRowsStayFallen

-----------------------------------------------------------------------------
(***************************************************************************)
(* The refunds of a submission.  Their sums run over chosen places of a    *)
(* sequence: the live rows, those of one order, those of calls in flight.  *)
(***************************************************************************)

\* What the places K of s are worth.
WorthsAt(s, K) == [k \in 1..Len(s) |-> IF k \in K THEN s[k].amount ELSE 0]
Cashed(s) == Len(s) \in Nat /\ \A k \in 1..Len(s) : s[k].amount \in Nat

\* What chosen places come to is the total of what they are worth.
LEMMA CentsTotal ==
  ASSUME NEW s, Cashed(s), NEW K
  PROVE  /\ WorthsAt(s, K) \in [1..Len(s) -> Nat]
         /\ Cents(s, K) = Total(WorthsAt(s, K), Len(s))
         /\ Cents(s, K) \in Nat
<1> DEFINE n == Len(s)
           Runs(g) == g = [k \in 0..n |->
              IF k = 0 THEN 0 ELSE g[k - 1] + IF k \in K THEN s[k].amount ELSE 0]
           sum == CHOOSE g : Runs(g)
<1>1. n \in Nat /\ WorthsAt(s, K) \in [1..n -> Nat]
  BY DEF WorthsAt, Cashed
<1>2. Cents(s, K) = sum[n]
  BY DEF Cents
<1>3. PICK h : Adds(h, WorthsAt(s, K), n)
  <2> HIDE DEF n
  <2> QED BY <1>1, AddsExists
<1>4. Runs(h)
  <2>1. h \in [0..n -> Nat] /\ h[0] = 0 /\ \A k \in 1..n : h[k] = h[k - 1] + WorthsAt(s, K)[k]
    BY <1>1, <1>3 DEF Adds
  <2> QED BY <1>1, <2>1 DEF WorthsAt
<1>5. Runs(sum)
  <2> HIDE DEF Runs
  <2> QED BY <1>4
<1>6. /\ sum = [k \in 0..n |-> sum[k]]
      /\ sum[0] = 0
      /\ \A k \in 1..n : sum[k] = sum[k - 1] + WorthsAt(s, K)[k]
  <2> HIDE DEF sum
  <2>1. sum = [k \in 0..n |-> sum[k]]
    BY <1>5
  <2>2. sum[0] = 0
    BY <1>1, <1>5
  <2>3. ASSUME NEW k \in 1..n PROVE sum[k] = sum[k - 1] + WorthsAt(s, K)[k]
    <3>1. k \in 0..n /\ k # 0 /\ WorthsAt(s, K)[k] = IF k \in K THEN s[k].amount ELSE 0
      BY <1>1 DEF WorthsAt
    <3> QED BY <1>5, <3>1
  <2> QED BY <2>1, <2>2, <2>3
<1> DEFINE T == {m \in 0..n : sum[m] \in Nat}
<1>7. 0 \in T
  <2> HIDE DEF sum, n
  <2> QED BY <1>1, <1>6
<1>8. ASSUME NEW m \in 1..n, m - 1 \in T PROVE m \in T
  <2> HIDE DEF sum, n
  <2>1. /\ sum[m] = sum[m - 1] + WorthsAt(s, K)[m]
        /\ WorthsAt(s, K)[m] \in Nat /\ sum[m - 1] \in Nat
    BY <1>1, <1>6, <1>8
  <2> QED BY <1>1, <2>1
<1>9. \A m \in 0..n : sum[m] \in Nat
  <2>1. \A m \in 0..n : m \in T
    <3> HIDE DEF T, sum, n
    <3> QED BY <1>1, <1>7, <1>8, IntervalInduction
  <2> QED BY <2>1
<1>10. Adds(sum, WorthsAt(s, K), n)
  <2> HIDE DEF sum, n
  <2> QED BY <1>6, <1>9 DEF Adds
<1> QED
  <2> HIDE DEF sum, n
  <2>1. Total(WorthsAt(s, K), n) = sum[n] /\ Total(WorthsAt(s, K), n) \in Nat
    BY <1>1, <1>10, TotalIs
  <2> QED BY <1>1, <1>2, <2>1 DEF n

\* Places each found, worth as much or more, at a place of its own come to no more.
LEMMA CentsInject ==
  ASSUME NEW s, Cashed(s), NEW t, Cashed(t), NEW K, NEW J, NEW f,
         \A i \in 1..Len(s) : i \in K =>
            f[i] \in 1..Len(t) /\ f[i] \in J /\ s[i].amount <= t[f[i]].amount,
         \A i, k \in 1..Len(s) : i \in K /\ k \in K /\ f[i] = f[k] => i = k
  PROVE  Cents(s, K) <= Cents(t, J)
<1> DEFINE v == WorthsAt(s, K)
           w == WorthsAt(t, J)
<1>1. /\ v \in [1..Len(s) -> Nat] /\ Cents(s, K) = Total(v, Len(s))
      /\ w \in [1..Len(t) -> Nat] /\ Cents(t, J) = Total(w, Len(t))
      /\ Len(s) \in Nat /\ Len(t) \in Nat
  BY CentsTotal DEF Cashed
<1>2. /\ \A i \in 1..Len(s) : v[i] # 0 => i \in K /\ v[i] = s[i].amount
      /\ \A k \in 1..Len(t) : k \in J => w[k] = t[k].amount
  BY DEF WorthsAt
<1> HIDE DEF v, w
<1>3. \A i \in 1..Len(s) : v[i] # 0 => f[i] \in 1..Len(t) /\ v[i] <= w[f[i]]
  BY <1>2
<1>4. \A i, k \in 1..Len(s) : v[i] # 0 /\ v[k] # 0 /\ f[i] = f[k] => i = k
  BY <1>2
<1>5. Total(v, Len(s)) <= Total(w, Len(t))
  <2>1. Len(s) \in Nat /\ Len(t) \in Nat /\ v \in [1..Len(s) -> Nat] /\ w \in [1..Len(t) -> Nat]
    BY <1>1
  <2> QED BY <2>1, <1>3, <1>4, TotalInjects
<1> QED BY <1>1, <1>5

\* Fewer places come to no more, in whatever the sequence has become around them.
LEMMA CentsMono ==
  ASSUME NEW s, Cashed(s), NEW t, Cashed(t), NEW K, NEW J,
         \A k \in 1..Len(s) : k \in K =>
            k \in 1..Len(t) /\ k \in J /\ s[k].amount <= t[k].amount
  PROVE  Cents(s, K) <= Cents(t, J)
<1> DEFINE f == [k \in 1..Len(s) |-> k]
<1>1. \A k \in 1..Len(s) : f[k] = k
  OBVIOUS
<1> HIDE DEF f
<1> QED BY <1>1, CentsInject

\* The same places come to the same.
LEMMA CentsSame ==
  ASSUME NEW s, Cashed(s), NEW t, Cashed(t), NEW K, NEW J,
         \A k \in 1..Len(s) : k \in K =>
            k \in 1..Len(t) /\ k \in J /\ s[k].amount = t[k].amount,
         \A k \in 1..Len(t) : k \in J => k \in 1..Len(s) /\ k \in K
  PROVE  Cents(s, K) = Cents(t, J)
<1>0. /\ \A k \in 1..Len(s) : s[k].amount \in Nat
      /\ \A k \in 1..Len(t) : t[k].amount \in Nat
  BY DEF Cashed
<1>1. Cents(s, K) <= Cents(t, J)
  BY <1>0, CentsMono
<1>2. Cents(t, J) <= Cents(s, K)
  <2>1. \A k \in 1..Len(t) : k \in J =>
            k \in 1..Len(s) /\ k \in K /\ t[k].amount <= s[k].amount
    BY <1>0
  <2> QED BY <2>1, CentsMono
<1>3. Cents(s, K) \in Nat /\ Cents(t, J) \in Nat
  BY CentsTotal
<1> QED BY <1>1, <1>2, <1>3

\* Places apart come to the sum of the two.
LEMMA CentsApart ==
  ASSUME NEW s, Cashed(s), NEW K, NEW J, K \cap J = {}
  PROVE  Cents(s, K \cup J) = Cents(s, K) + Cents(s, J)
<1>1. \A k \in 1..Len(s) : s[k].amount \in Nat
  BY DEF Cashed
<1>2. \A k \in 1..Len(s) : WorthsAt(s, K \cup J)[k] = WorthsAt(s, K)[k] + WorthsAt(s, J)[k]
  BY <1>1 DEF WorthsAt
<1>3. Len(s) \in Nat
  BY DEF Cashed
<1>4. /\ WorthsAt(s, K \cup J) \in [1..Len(s) -> Nat]
      /\ WorthsAt(s, K) \in [1..Len(s) -> Nat] /\ WorthsAt(s, J) \in [1..Len(s) -> Nat]
  BY CentsTotal
<1>5. Total(WorthsAt(s, K \cup J), Len(s))
        = Total(WorthsAt(s, K), Len(s)) + Total(WorthsAt(s, J), Len(s))
  BY <1>2, <1>3, <1>4, TotalPlus
<1> QED BY <1>5, CentsTotal

\* No place comes to nothing.
LEMMA CentsNone ==
  ASSUME NEW s, Cashed(s)
  PROVE  Cents(s, {}) = 0
<1>1. /\ WorthsAt(s, {}) \in [1..Len(s) -> Nat] /\ Cents(s, {}) \in Nat
      /\ Cents(s, {}) = Total(WorthsAt(s, {}), Len(s)) /\ Len(s) \in Nat
  BY CentsTotal DEF Cashed
<1>2. \A k \in 1..Len(s) : WorthsAt(s, {})[k] = 0
  BY DEF WorthsAt
<1> DEFINE w == [k \in 1..0 |-> 0]
<1>3. w \in [1..0 -> Nat] /\ Total(w, 0) = 0
  BY TotalOfNone
<1> HIDE DEF w
<1>4. Total(WorthsAt(s, {}), Len(s)) <= Total(w, 0)
  <2>1. \A i \in 1..Len(s) : WorthsAt(s, {})[i] # 0 => w[i] \in 1..0 /\ WorthsAt(s, {})[i] <= w[w[i]]
    BY <1>2
  <2>2. \A i, k \in 1..Len(s) : WorthsAt(s, {})[i] # 0 /\ WorthsAt(s, {})[k] # 0 /\ w[i] = w[k] => i = k
    BY <1>2
  <2> QED BY <1>1, <1>3, <2>1, <2>2, TotalInjects
<1> QED BY <1>1, <1>3, <1>4

\* One place comes to what is there.
LEMMA CentsOne ==
  ASSUME NEW s, Cashed(s), NEW j \in 1..Len(s)
  PROVE  Cents(s, {j}) = s[j].amount
<1>1. /\ WorthsAt(s, {}) \in [1..Len(s) -> Nat] /\ WorthsAt(s, {j}) \in [1..Len(s) -> Nat]
      /\ Total(WorthsAt(s, {}), Len(s)) = 0
      /\ Cents(s, {j}) = Total(WorthsAt(s, {j}), Len(s))
      /\ Cents(s, {j}) \in Nat /\ Len(s) \in Nat /\ s[j].amount \in Nat
  BY CentsTotal, CentsNone DEF Cashed
<1>2. /\ \A k \in 1..Len(s) : k # j => WorthsAt(s, {j})[k] = WorthsAt(s, {})[k]
      /\ WorthsAt(s, {j})[j] = s[j].amount /\ WorthsAt(s, {})[j] = 0
  BY DEF WorthsAt
<1>3. Total(WorthsAt(s, {j}), Len(s)) + WorthsAt(s, {})[j]
        = Total(WorthsAt(s, {}), Len(s)) + WorthsAt(s, {j})[j]
  BY <1>1, <1>2, TotalAt
<1> QED BY <1>1, <1>2, <1>3

\* One place more adds what is there.
LEMMA CentsMore ==
  ASSUME NEW s, Cashed(s), NEW t, Cashed(t), NEW K, NEW J, NEW j \in 1..Len(t), j \in J,
         NEW x, t[j].amount = x,
         \A k \in 1..Len(s) : k \in K =>
            k # j /\ k \in 1..Len(t) /\ k \in J /\ s[k].amount = t[k].amount,
         \A k \in 1..Len(t) : k \in J => k = j \/ (k \in 1..Len(s) /\ k \in K)
  PROVE  Cents(t, J) = Cents(s, K) + x
<1> DEFINE I == (J \cap 1..Len(t)) \ {j}
<1>1. I \cap {j} = {}
  OBVIOUS
<1>2. Cents(t, J) = Cents(t, I \cup {j})
  <2>1. \A k \in 1..Len(t) : k \in J => k \in 1..Len(t) /\ k \in I \cup {j} /\ t[k].amount = t[k].amount
    OBVIOUS
  <2>2. \A k \in 1..Len(t) : k \in I \cup {j} => k \in 1..Len(t) /\ k \in J
    OBVIOUS
  <2> HIDE DEF I
  <2> QED BY <2>1, <2>2, CentsSame
<1>3. Cents(s, K) = Cents(t, I)
  <2>1. \A k \in 1..Len(s) : k \in K => k \in 1..Len(t) /\ k \in I /\ s[k].amount = t[k].amount
    OBVIOUS
  <2>2. \A k \in 1..Len(t) : k \in I => k \in 1..Len(s) /\ k \in K
    OBVIOUS
  <2> HIDE DEF I
  <2> QED BY <2>1, <2>2, CentsSame
<1> HIDE DEF I
<1>4. Cents(t, I \cup {j}) = Cents(t, I) + Cents(t, {j})
  BY <1>1, CentsApart
<1> QED BY <1>2, <1>3, <1>4, CentsOne

-----------------------------------------------------------------------------
\* What keeps a submission's refunds within its charge.

ShareRow == [of : Members \cup {NoMember}, amount : Nat, live : BOOLEAN, refund : Nat]
ShareRefund == [of : Members \cup {NoMember}, amount : Nat, total : Nat]
ShareCall == [step : {"idle", "reserving", "asking", "settling", "closing"},
              of : Members \cup {NoMember}, amount : Nat, row : Nat, answer : Nat,
              close : BOOLEAN, raced : BOOLEAN]
ShareDelivery == [step : {"idle", "applying"}, event : Nat, total : Nat, prior : Nat]

\* Every variable has its type.
ShareShape ==
    /\ refunded \subseteq Members /\ lost \subseteq Members
    /\ batchRows \in Seq(ShareRow) /\ batchRefunds \in Seq(ShareRefund)
    /\ batchEvents \in Seq(BOOLEAN) /\ Len(batchEvents) = Len(batchRefunds)
    /\ batchCall \in [BatchCalls -> ShareCall] /\ batchDelivery \in [BatchDeliveries -> ShareDelivery]

\* A call that asks or settles holds a live row of its own, of what it asks for, and
\* an answer is a refund of what it asked for.
HoldsShare(c) == batchCall[c].step \in {"asking", "settling"}
ShareCallFits(c) ==
    /\ batchCall[c].step # "idle" => batchCall[c].of \in Members
    /\ batchCall[c].row \in 0..Len(batchRows) /\ batchCall[c].answer \in 0..Len(batchRefunds)
    /\ HoldsShare(c) =>
          /\ batchCall[c].row \in 1..Len(batchRows)
          /\ batchRows[batchCall[c].row].of = batchCall[c].of /\ batchRows[batchCall[c].row].amount = batchCall[c].amount
          /\ batchRows[batchCall[c].row].live /\ batchRows[batchCall[c].row].refund = 0
    /\ batchCall[c].step = "settling" /\ batchCall[c].answer # 0 =>
          /\ batchRefunds[batchCall[c].answer].of = batchCall[c].of
          /\ batchRefunds[batchCall[c].answer].amount = batchCall[c].amount
ShareCallsFit ==
    /\ \A c \in BatchCalls : ShareCallFits(c)
    /\ \A b, c \in BatchCalls : HoldsShare(b) /\ HoldsShare(c) /\ batchCall[b].row = batchCall[c].row => b = c

\* A settled row counts, is of what its refund is of, and is its refund's only one.
ShareRowsFit ==
    \A k \in 1..Len(batchRows) : batchRows[k].refund # 0 =>
       /\ batchRows[k].refund \in 1..Len(batchRefunds) /\ batchRows[k].live
       /\ batchRows[k].of = batchRefunds[batchRows[k].refund].of
       /\ batchRows[k].amount = batchRefunds[batchRows[k].refund].amount
       /\ \A j \in 1..Len(batchRows) : batchRows[j].refund = batchRows[k].refund => j = k

\* Each refund says what was given back with it, an order is given an amount once,
\* and Stripe gives back no more than it took.
ShareRefundsFit ==
    /\ \A r \in 1..Len(batchRefunds) : batchRefunds[r].total = Cents(batchRefunds, 1..r)
    /\ \A q, r \in 1..Len(batchRefunds) :
          /\ batchRefunds[q].of \in Members
          /\ batchRefunds[q].of = batchRefunds[r].of /\ batchRefunds[q].amount = batchRefunds[r].amount
          => q = r
    /\ Returned <= Charge

\* A delivery carries the total its event was sent with; what is recorded of the
\* charge is no more than was given back, and no less than a recorded event said.
ShareEventsFit ==
    /\ \A d \in BatchDeliveries :
          /\ batchDelivery[d].event \in 0..Len(batchEvents)
          /\ batchDelivery[d].step = "applying" =>
                /\ batchDelivery[d].event \in 1..Len(batchEvents)
                /\ batchDelivery[d].total = batchRefunds[batchDelivery[d].event].total
    /\ OnSubject <= Returned
    /\ \A e \in 1..Len(batchEvents) : batchEvents[e] => batchRefunds[e].total <= OnSubject

\* A refund an order was given and a call was answered has a row that counts: its
\* own, one whose call is about to settle it, or one whose call stopped.
CountsFor(k, r) ==
    /\ batchRows[k].live
    /\ batchRows[k].of = batchRefunds[r].of /\ batchRows[k].amount = batchRefunds[r].amount
    /\ \/ batchRows[k].refund = r
       \/ /\ batchRows[k].refund = 0
          /\ \A c \in BatchCalls : HoldsShare(c) /\ batchCall[c].row = k =>
                batchCall[c].step = "settling" /\ batchCall[c].answer = r
RefundsCounted ==
    \A r \in 1..Len(batchRefunds) : batchRefunds[r].of \in Members \ lost =>
       \E k \in 1..Len(batchRows) : CountsFor(k, r)

\* The calls on the orders Z that nothing raced: those that will give back what was
\* not yet given, and those whose row is not yet written.  What was given back to Z
\* leaves room for all of the first, and for any one of the second besides.
FreshOn(Z) == {c \in BatchCalls : /\ batchCall[c].step = "asking" /\ ~batchCall[c].raced
                                  /\ SameKey(c) = {} /\ batchCall[c].of \in Z}
WritingOn(Z) == {c \in BatchCalls : /\ batchCall[c].step = "reserving" /\ ~batchCall[c].raced
                                    /\ batchCall[c].of \in Z}
GivenOn(Z) == Cents(batchRefunds, {r \in 1..Len(batchRefunds) : batchRefunds[r].of \in Z})
AskedOn(Z) == Cents(batchRows, {batchCall[c].row : c \in FreshOn(Z)})
RoomOn(Z, most) ==
    /\ FreshOn(Z) # {} => GivenOn(Z) + AskedOn(Z) <= most
    /\ \A c \in WritingOn(Z) : GivenOn(Z) + AskedOn(Z) + batchCall[c].amount <= most
Anyone == Members \cup {NoMember}
RoomLeft == RoomOn(Anyone, Charge) /\ \A m \in Members \ lost : RoomOn({m}, Share)

\* A call nothing raced is alone between its read and its row.
OneWrites ==
    \A b, c \in BatchCalls :
       batchCall[b].step = "reserving" /\ batchCall[c].step = "reserving" /\ ~batchCall[c].raced => b = c

SInv == /\ ShareShape /\ ShareCallsFit /\ ShareRowsFit /\ ShareRefundsFit /\ ShareEventsFit
        /\ RefundsCounted /\ RoomLeft /\ OneWrites

-----------------------------------------------------------------------------
\* Consequences of the shapes.

\* The charge is a natural number.
LEMMA ChargeType ==
  /\ Charge \in Nat /\ Share \in Nat
  /\ PartOfShare \in Nat /\ PartOfShare > 0 /\ NoMember \notin Members
<1>1. Cardinality(Members) \in Nat
  BY BatchRefundAssumption, FS_CardinalityType DEF BatchRefundAssumption
<1>2. Share \in Nat /\ PartOfShare \in 1..Share /\ NoMember \notin Members
  BY BatchRefundAssumption DEF BatchRefundAssumption
<1> QED BY <1>1, <1>2 DEF Charge

\* What is added up can be.
LEMMA RowsCash ==
  ASSUME NEW s \in Seq(ShareRow)
  PROVE  Cashed(s) /\ DOMAIN s = 1..Len(s) /\ \A k \in 1..Len(s) : s[k] \in ShareRow
<1>1. \A x \in ShareRow : x.amount \in Nat
  BY DEF ShareRow
<1>2. Len(s) \in Nat /\ DOMAIN s = 1..Len(s) /\ \A k \in 1..Len(s) : s[k] \in ShareRow
  OBVIOUS
<1> QED BY <1>1, <1>2 DEF Cashed
\* So can what was refunded.
LEMMA RefundsCash ==
  ASSUME NEW s \in Seq(ShareRefund)
  PROVE  Cashed(s) /\ DOMAIN s = 1..Len(s) /\ \A k \in 1..Len(s) : s[k] \in ShareRefund
<1>1. \A x \in ShareRefund : x.amount \in Nat
  BY DEF ShareRefund
<1>2. Len(s) \in Nat /\ DOMAIN s = 1..Len(s) /\ \A k \in 1..Len(s) : s[k] \in ShareRefund
  OBVIOUS
<1> QED BY <1>1, <1>2 DEF Cashed
\* So both can at once.
LEMMA Cash ==
  ASSUME ShareShape
  PROVE  /\ Cashed(batchRows) /\ Cashed(batchRefunds)
         /\ DOMAIN batchRows = 1..Len(batchRows) /\ DOMAIN batchRefunds = 1..Len(batchRefunds)
         /\ DOMAIN batchEvents = 1..Len(batchRefunds)
         /\ \A k \in 1..Len(batchRows) : batchRows[k] \in ShareRow
         /\ \A r \in 1..Len(batchRefunds) : batchRefunds[r] \in ShareRefund
<1>1. batchRows \in Seq(ShareRow) /\ batchRefunds \in Seq(ShareRefund) /\ batchEvents \in Seq(BOOLEAN)
      /\ Len(batchEvents) = Len(batchRefunds)
  BY DEF ShareShape
<1> QED BY <1>1, RowsCash, RefundsCash

\* And comes to natural numbers.
LEMMA SumTypes ==
  ASSUME ShareShape
  PROVE  /\ \A K : Cents(batchRows, K) \in Nat /\ Cents(batchRefunds, K) \in Nat
         /\ CountedAll \in Nat /\ OnSubject \in Nat /\ Returned \in Nat
         /\ \A m : BackTo(m) \in Nat /\ GivenTo(m) \in Nat
         /\ \A Z : GivenOn(Z) \in Nat /\ AskedOn(Z) \in Nat
<1>1. \A K : Cents(batchRows, K) \in Nat /\ Cents(batchRefunds, K) \in Nat
  BY Cash, CentsTotal
<1> QED BY <1>1 DEF CountedAll, OnSubject, Returned, BackTo, GivenTo, GivenOn, AskedOn

\* Nothing was refunded, recorded or asked for.
LEMMA InitSInv ==
  ASSUME BatchInit
  PROVE  SInv
<1>1. ShareShape
  BY DEF BatchInit, ShareShape, ShareCall, ShareDelivery, NoCall, NoDelivery
<1>2. Len(batchRows) = 0 /\ Len(batchRefunds) = 0 /\ Len(batchEvents) = 0
  BY DEF BatchInit
<1>3. \A c \in BatchCalls : /\ batchCall[c].step = "idle" /\ batchCall[c].row = 0 /\ batchCall[c].answer = 0
                            /\ batchCall[c].of = NoMember
  BY DEF BatchInit, NoCall
<1>4. \A d \in BatchDeliveries : batchDelivery[d].step = "idle" /\ batchDelivery[d].event = 0
  BY DEF BatchInit, NoDelivery
<1>5. ShareCallsFit
  BY <1>2, <1>3 DEF ShareCallsFit, ShareCallFits, HoldsShare
<1>6. ShareRowsFit /\ RefundsCounted
  BY <1>2 DEF ShareRowsFit, RefundsCounted
<1>7. Returned = 0 /\ OnSubject = 0
  <2>1. DOMAIN batchRefunds = {} /\ \A Z \in SUBSET DOMAIN batchRows : Z = {}
    BY <1>1, <1>2, Cash
  <2>2. {k \in Live : batchRows[k].of = NoMember} \subseteq DOMAIN batchRows
    BY DEF Live
  <2> QED BY <1>1, <2>1, <2>2, Cash, CentsNone DEF Returned, OnSubject, BackTo
<1>8. ShareRefundsFit
  BY <1>2, <1>7, ChargeType DEF ShareRefundsFit
<1>9. ShareEventsFit
  BY <1>2, <1>4, <1>7 DEF ShareEventsFit
<1>10. RoomLeft /\ OneWrites
  BY <1>3 DEF RoomLeft, RoomOn, FreshOn, WritingOn, OneWrites
<1> QED BY <1>1, <1>5, <1>6, <1>8, <1>9, <1>10 DEF SInv

-----------------------------------------------------------------------------
\* What a step may leave alone.

\* A refund that was made stays as it is; so does a row a step does not touch.
RefundsKept == /\ Len(batchRefunds) <= Len(batchRefunds')
               /\ \A r \in 1..Len(batchRefunds) : batchRefunds'[r] = batchRefunds[r]
RowsKept == Len(batchRows) <= Len(batchRows') /\ \A k \in 1..Len(batchRows) : batchRows'[k] = batchRows[k]
Alike(c) == /\ batchCall'[c].step = batchCall[c].step /\ batchCall'[c].of = batchCall[c].of
            /\ batchCall'[c].amount = batchCall[c].amount /\ batchCall'[c].row = batchCall[c].row
            /\ batchCall'[c].answer = batchCall[c].answer

\* A call that is left alone fits still, if its row is left alone.
LEMMA CallFitStays ==
  ASSUME ShareShape, ShareShape', NEW c \in BatchCalls, ShareCallFits(c), Alike(c), RefundsKept,
         Len(batchRows) <= Len(batchRows'),
         HoldsShare(c) => batchRows'[batchCall[c].row] = batchRows[batchCall[c].row]
  PROVE  ShareCallFits(c)'
<1>1. batchCall[c].answer \in Nat /\ batchCall[c].row \in Nat /\ Len(batchRows) \in Nat /\ Len(batchRefunds) \in Nat
      /\ Len(batchRows') \in Nat /\ Len(batchRefunds') \in Nat
  BY DEF ShareShape, ShareCall
<1> QED BY <1>1 DEF ShareCallFits, Alike, RefundsKept, HoldsShare

\* Rows that name refunds name them still.
LEMMA RowsFitStay ==
  ASSUME ShareShape, ShareShape', ShareRowsFit, RefundsKept, batchRows' = batchRows
  PROVE  ShareRowsFit'
<1>1. Len(batchRefunds) \in Nat /\ Len(batchRefunds') \in Nat
  BY DEF ShareShape
<1> QED BY <1>1 DEF ShareRowsFit, RefundsKept

\* A row counts for its refund while neither it nor its call changes.
LEMMA CountsStays ==
  ASSUME NEW k, NEW r, CountsFor(k, r), batchRows'[k] = batchRows[k],
         batchRefunds'[r] = batchRefunds[r],
         \A c \in BatchCalls : HoldsShare(c)' /\ batchCall'[c].row = k =>
            /\ HoldsShare(c) /\ batchCall[c].row = k
            /\ batchCall'[c].step = batchCall[c].step /\ batchCall'[c].answer = batchCall[c].answer
  PROVE  CountsFor(k, r)'
BY DEF CountsFor

\* With no refund made and no call let in, there is as much room as there was.
LEMMA RoomStays ==
  ASSUME ShareShape, ShareShape', ShareCallsFit, NEW Z, NEW most, RoomOn(Z, most),
         batchRefunds' = batchRefunds, Len(batchRows) <= Len(batchRows'),
         \A k \in 1..Len(batchRows) : batchRows'[k].amount = batchRows[k].amount,
         \A c \in BatchCalls : c \in FreshOn(Z)' => c \in FreshOn(Z) /\ batchCall'[c].row = batchCall[c].row,
         \A c \in BatchCalls : c \in WritingOn(Z)' => c \in WritingOn(Z) /\ batchCall'[c].amount = batchCall[c].amount,
         most \in Nat
  PROVE  RoomOn(Z, most)'
<1> DEFINE A == {batchCall[c].row : c \in FreshOn(Z)}
           A1 == {batchCall'[c].row : c \in FreshOn(Z)'}
<1>1. Cashed(batchRows) /\ Cashed(batchRows') /\ Len(batchRows) \in Nat /\ Len(batchRows') \in Nat
  <2>1. batchRows \in Seq(ShareRow) /\ batchRows' \in Seq(ShareRow)
    BY DEF ShareShape
  <2>2. Cashed(batchRows) /\ Cashed(batchRows')
    BY <2>1, RowsCash
  <2> QED BY <2>2 DEF Cashed
<1>2. \A c \in FreshOn(Z)' : c \in BatchCalls
  BY DEF FreshOn
<1>3. \A c \in FreshOn(Z) : c \in BatchCalls /\ batchCall[c].row \in 1..Len(batchRows)
  BY DEF FreshOn, ShareCallsFit, ShareCallFits, HoldsShare
<1>4. \A x \in A1 : x \in A /\ x \in 1..Len(batchRows)
  BY <1>2, <1>3
<1>5. Cents(batchRows', A1) <= Cents(batchRows, A)
  <2>1. \A k \in 1..Len(batchRows') : k \in A1 =>
            k \in 1..Len(batchRows) /\ k \in A /\ batchRows'[k].amount <= batchRows[k].amount
    <3>1. \A k \in 1..Len(batchRows) : batchRows[k].amount \in Nat /\ batchRows'[k].amount = batchRows[k].amount
      BY <1>1 DEF Cashed
    <3>2. \A k \in 1..Len(batchRows) : batchRows'[k].amount <= batchRows[k].amount
      BY <3>1
    <3> HIDE DEF A, A1
    <3> QED BY <3>2, <1>4
  <2> HIDE DEF A, A1
  <2> QED BY <1>1, <2>1, CentsMono
<1>6. AskedOn(Z)' <= AskedOn(Z) /\ GivenOn(Z)' = GivenOn(Z)
  BY <1>5 DEF AskedOn, GivenOn
<1>7. AskedOn(Z) \in Nat /\ GivenOn(Z) \in Nat /\ AskedOn(Z)' \in Nat
  BY SumTypes, <1>1, CentsTotal DEF AskedOn
<1>8. FreshOn(Z)' # {} => FreshOn(Z) # {}
  BY <1>2
<1>9. \A c \in WritingOn(Z)' : /\ c \in BatchCalls /\ c \in WritingOn(Z)
                               /\ batchCall'[c].amount = batchCall[c].amount /\ batchCall[c].amount \in Nat
  BY DEF WritingOn, ShareShape, ShareCall
<1> QED BY <1>6, <1>7, <1>8, <1>9 DEF RoomOn

\* A race leaves no call that nothing raced.
LEMMA RoomWhenRaced ==
  ASSUME NEW Z, NEW most,
         \A c \in BatchCalls : batchCall'[c].step \in {"reserving", "asking"} => batchCall'[c].raced
  PROVE  RoomOn(Z, most)'
BY DEF RoomOn, FreshOn, WritingOn

-----------------------------------------------------------------------------
\* A refund is made at Stripe.

\* What is refunded grows by it, and by it for the orders it is of alone.
LEMMA ShareMadeEffects ==
  ASSUME SInv, NEW m \in Anyone, NEW amount \in Nat, MadeFor(m, amount),
         m \in Members => \A r \in 1..Len(batchRefunds) : ~(batchRefunds[r].of = m /\ batchRefunds[r].amount = amount)
  PROVE  /\ batchRefunds' \in Seq(ShareRefund) /\ batchEvents' \in Seq(BOOLEAN) /\ Len(batchEvents') = Len(batchRefunds')
         /\ Len(batchRefunds) \in Nat /\ Len(batchRefunds') = Len(batchRefunds) + 1 /\ RefundsKept
         /\ \A e \in 1..Len(batchRefunds) : batchEvents'[e] = batchEvents[e]
         /\ batchRefunds'[Len(batchRefunds) + 1].of = m /\ batchRefunds'[Len(batchRefunds) + 1].amount = amount
         /\ ~batchEvents'[Len(batchRefunds) + 1]
         /\ \A Z : GivenOn(Z)' = GivenOn(Z) + IF m \in Z THEN amount ELSE 0
         /\ Returned' = Returned + amount
         /\ ShareRefundsFit'
<1> DEFINE n == Len(batchRefunds)
           x == [of |-> m, amount |-> amount, total |-> Returned + amount]
<1>0. ShareShape /\ ShareRefundsFit
  BY DEF SInv
<1>1. Returned \in Nat /\ Returned + amount <= Charge
  BY <1>0, SumTypes DEF MadeFor
<1>2. x \in ShareRefund /\ batchRefunds' = Append(batchRefunds, x) /\ batchEvents' = Append(batchEvents, FALSE)
  BY <1>1 DEF ShareRefund, MadeFor, Anyone
<1>3. /\ batchRefunds' \in Seq(ShareRefund) /\ n \in Nat /\ Len(batchRefunds') = n + 1
      /\ batchRefunds'[n + 1] = x /\ \A r \in 1..n : batchRefunds'[r] = batchRefunds[r]
  <2>1. batchRefunds \in Seq(ShareRefund)
    BY <1>0 DEF ShareShape
  <2> HIDE DEF x
  <2> QED BY <2>1, <1>2, Grown
<1>4. /\ batchEvents' \in Seq(BOOLEAN) /\ Len(batchEvents') = n + 1
      /\ batchEvents'[n + 1] = FALSE /\ \A e \in 1..n : batchEvents'[e] = batchEvents[e]
  <2>1. batchEvents \in Seq(BOOLEAN) /\ Len(batchEvents) = n
    BY <1>0 DEF ShareShape
  <2>2. \A b \in BOOLEAN : /\ Append(batchEvents, b) \in Seq(BOOLEAN) /\ Len(Append(batchEvents, b)) = n + 1
                           /\ Append(batchEvents, b)[n + 1] = b
                           /\ \A e \in 1..n : Append(batchEvents, b)[e] = batchEvents[e]
    BY <2>1
  <2>3. FALSE \in BOOLEAN
    OBVIOUS
  <2> QED BY <2>2, <2>3, <1>2
<1>5. /\ batchRefunds'[n + 1].of = m /\ batchRefunds'[n + 1].amount = amount
      /\ batchRefunds'[n + 1].total = Returned + amount
  BY <1>3
<1>6. Cashed(batchRefunds) /\ Cashed(batchRefunds') /\ DOMAIN batchRefunds = 1..n /\ DOMAIN batchRefunds' = 1..(n + 1)
  <2>1. Cashed(batchRefunds) /\ DOMAIN batchRefunds = 1..n
    BY <1>0, Cash
  <2>2. \A y \in ShareRefund : y.amount \in Nat
    BY DEF ShareRefund
  <2>3. DOMAIN batchRefunds' = 1..(n + 1) /\ \A r \in 1..(n + 1) : batchRefunds'[r] \in ShareRefund
    BY <1>3
  <2> QED BY <1>3, <2>1, <2>2, <2>3 DEF Cashed
<1> HIDE DEF x
<1>7. \A r \in 1..(n + 1) : r = n + 1 \/ r \in 1..n
  BY <1>3
<1>8. ASSUME NEW Z PROVE GivenOn(Z)' = GivenOn(Z) + IF m \in Z THEN amount ELSE 0
  <2> DEFINE K == {r \in 1..n : batchRefunds[r].of \in Z}
             J == {r \in 1..(n + 1) : batchRefunds'[r].of \in Z}
  <2>1. GivenOn(Z) = Cents(batchRefunds, K) /\ GivenOn(Z)' = Cents(batchRefunds', J)
    BY <1>3 DEF GivenOn
  <2>2. Cents(batchRefunds, K) \in Nat
    BY <1>6, CentsTotal
  <2>3. CASE m \in Z
    <3>0. PICK j : j = n + 1
      OBVIOUS
    <3>1. j \in 1..Len(batchRefunds') /\ j \in J
      BY <3>0, <1>3, <1>5, <2>3
    <3>2. \A k \in 1..Len(batchRefunds) : k \in K =>
            k # j /\ k \in 1..Len(batchRefunds') /\ k \in J /\ batchRefunds[k].amount = batchRefunds'[k].amount
      BY <3>0, <1>3
    <3>3. \A k \in 1..Len(batchRefunds') : k \in J => k = j \/ (k \in 1..Len(batchRefunds) /\ k \in K)
      BY <3>0, <1>3, <1>7
    <3> HIDE DEF K, J
    <3>4. batchRefunds'[j].amount = amount
      BY <3>0, <1>5
    <3>5. Cents(batchRefunds', J) = Cents(batchRefunds, K) + amount
      BY <1>6, <3>1, <3>2, <3>3, <3>4, CentsMore
    <3> QED BY <2>1, <2>3, <3>5
  <2>4. CASE m \notin Z
    <3>1. \A k \in 1..Len(batchRefunds) : k \in K =>
            k \in 1..Len(batchRefunds') /\ k \in J /\ batchRefunds[k].amount = batchRefunds'[k].amount
      BY <1>3
    <3>2. \A k \in 1..Len(batchRefunds') : k \in J => k \in 1..Len(batchRefunds) /\ k \in K
      BY <1>3, <1>5, <1>7, <2>4
    <3> HIDE DEF K, J
    <3>3. Cents(batchRefunds, K) = Cents(batchRefunds', J)
      BY <1>6, <3>1, <3>2, CentsSame
    <3> QED BY <2>1, <2>2, <2>4, <3>3
  <2> QED BY <2>3, <2>4
<1>9. Returned' = Returned + amount
  <2> DEFINE K == 1..n
             J == 1..(n + 1)
  <2>0. PICK j : j = n + 1
    OBVIOUS
  <2>1. j \in 1..Len(batchRefunds') /\ j \in J
    BY <2>0, <1>3
  <2>2. \A k \in 1..Len(batchRefunds) : k \in K =>
          k # j /\ k \in 1..Len(batchRefunds') /\ k \in J /\ batchRefunds[k].amount = batchRefunds'[k].amount
    BY <2>0, <1>3
  <2>3. \A k \in 1..Len(batchRefunds') : k \in J => k = j \/ (k \in 1..Len(batchRefunds) /\ k \in K)
    BY <2>0, <1>3, <1>7
  <2>4. Returned' = Cents(batchRefunds', J) /\ Returned = Cents(batchRefunds, K)
    BY <1>6 DEF Returned
  <2> HIDE DEF K, J
  <2>5. batchRefunds'[j].amount = amount
    BY <2>0, <1>5
  <2>6. Cents(batchRefunds', J) = Cents(batchRefunds, K) + amount
    BY <1>6, <2>1, <2>2, <2>3, <2>5, CentsMore
  <2> QED BY <2>4, <2>6
<1>10. ShareRefundsFit'
  <2>1. ASSUME NEW r \in 1..(n + 1) PROVE batchRefunds'[r].total = Cents(batchRefunds', 1..r)
    <3>1. CASE r = n + 1
      <4>1. Returned' = Cents(batchRefunds', 1..r)
        BY <1>6, <3>1 DEF Returned
      <4> QED BY <4>1, <3>1, <1>5, <1>9
    <3>2. CASE r \in 1..n
      <4>1. batchRefunds'[r].total = batchRefunds[r].total /\ batchRefunds[r].total = Cents(batchRefunds, 1..r)
        BY <1>0, <1>3, <3>2 DEF ShareRefundsFit
      <4> DEFINE K == 1..r
      <4>2. \A k \in 1..Len(batchRefunds) : k \in K =>
              k \in 1..Len(batchRefunds') /\ k \in K /\ batchRefunds[k].amount = batchRefunds'[k].amount
        BY <1>3
      <4>3. \A k \in 1..Len(batchRefunds') : k \in K => k \in 1..Len(batchRefunds) /\ k \in K
        BY <1>3, <3>2
      <4> HIDE DEF K
      <4>4. Cents(batchRefunds, K) = Cents(batchRefunds', K)
        BY <1>6, <4>2, <4>3, CentsSame
      <4> QED BY <4>1, <4>4 DEF K
    <3> QED BY <1>7, <3>1, <3>2
  <2>2. ASSUME NEW q \in 1..(n + 1), NEW r \in 1..(n + 1), batchRefunds'[q].of \in Members,
               batchRefunds'[q].of = batchRefunds'[r].of, batchRefunds'[q].amount = batchRefunds'[r].amount
        PROVE  q = r
    <3>1. CASE q \in 1..n /\ r \in 1..n
      BY <3>1, <2>2, <1>0, <1>3 DEF ShareRefundsFit
    <3>2. CASE q = n + 1 /\ r \in 1..n
      BY <3>2, <2>2, <1>3, <1>5
    <3>3. CASE r = n + 1 /\ q \in 1..n
      BY <3>3, <2>2, <1>3, <1>5
    <3> QED BY <1>7, <3>1, <3>2, <3>3
  <2>3. Returned' <= Charge'
    BY <1>1, <1>9 DEF Charge
  <2> QED BY <2>1, <2>2, <2>3, <1>3 DEF ShareRefundsFit
<1>11. RefundsKept
  BY <1>3 DEF RefundsKept
<1> QED BY <1>3, <1>4, <1>5, <1>8, <1>9, <1>10, <1>11

-----------------------------------------------------------------------------
\* What a step of one call leaves alone.

\* Every call but c is as it was, but that it may have been raced.
OthersAlike(c) == \A d \in BatchCalls \ {c} : Alike(d) /\ (batchCall[d].raced => batchCall'[d].raced)

\* The calls fit after a step of one of them that fits.
LEMMA CallsFitStay ==
  ASSUME SInv, ShareShape', NEW c \in BatchCalls, OthersAlike(c), RefundsKept,
         ShareCallFits(c)',
         Len(batchRows) <= Len(batchRows'),
         \A k \in 1..Len(batchRows) : ~(HoldsShare(c) /\ k = batchCall[c].row) => batchRows'[k] = batchRows[k],
         HoldsShare(c)' => batchCall'[c].row > Len(batchRows) \/ (HoldsShare(c) /\ batchCall'[c].row = batchCall[c].row)
  PROVE  ShareCallsFit'
<1>1. ShareShape /\ ShareCallsFit
  BY DEF SInv
<1>2. \A d \in BatchCalls : batchCall[d].row \in Nat /\ batchCall'[d].row \in Nat
  BY <1>1 DEF ShareShape, ShareCall
<1>3. \A d \in BatchCalls \ {c} : HoldsShare(d)' <=> HoldsShare(d)
  BY DEF OthersAlike, Alike, HoldsShare
<1>4. \A d \in BatchCalls : HoldsShare(d) => batchCall[d].row \in 1..Len(batchRows)
  BY <1>1 DEF ShareCallsFit, ShareCallFits
<1>5. ASSUME NEW d \in BatchCalls \ {c} PROVE ShareCallFits(d)'
  <2>1. HoldsShare(d) => batchRows'[batchCall[d].row] = batchRows[batchCall[d].row]
    BY <1>1, <1>4 DEF ShareCallsFit
  <2>2. ShareCallFits(d) /\ Alike(d)
    BY <1>1 DEF ShareCallsFit, OthersAlike
  <2> QED BY <1>1, <2>1, <2>2, CallFitStays
<1>6. ASSUME NEW b \in BatchCalls, NEW d \in BatchCalls, HoldsShare(b)', HoldsShare(d)',
             batchCall'[b].row = batchCall'[d].row
      PROVE  b = d
  <2>1. ASSUME NEW x \in BatchCalls \ {c}, HoldsShare(x)', HoldsShare(c)',
               batchCall'[x].row = batchCall'[c].row
        PROVE  FALSE
    <3>1. HoldsShare(x) /\ batchCall'[x].row = batchCall[x].row /\ batchCall[x].row \in 1..Len(batchRows)
      BY <2>1, <1>3, <1>4 DEF OthersAlike, Alike
    <3>2. Len(batchRows) \in Nat /\ batchCall[x].row \in Nat
      BY <1>1, <1>2 DEF ShareShape
    <3>3. HoldsShare(c) /\ batchCall[c].row = batchCall[x].row
      BY <2>1, <3>1, <3>2
    <3> QED BY <1>1, <3>1, <3>3 DEF ShareCallsFit
  <2>2. CASE b # c /\ d # c
    <3>1. HoldsShare(b) /\ HoldsShare(d) /\ batchCall[b].row = batchCall[d].row
      BY <1>3, <1>6, <2>2 DEF OthersAlike, Alike
    <3> QED BY <1>1, <3>1 DEF ShareCallsFit
  <2> QED BY <1>6, <2>1, <2>2
<1>7. \A d \in BatchCalls : ShareCallFits(d)'
  BY <1>5
<1> QED BY <1>6, <1>7 DEF ShareCallsFit

\* The refunds that were counted are, whatever an asking call learns.
LEMMA CountedStay ==
  ASSUME SInv, ShareShape', NEW c \in BatchCalls, OthersAlike(c), RefundsKept,
         lost \subseteq lost',
         RowsKept,
         HoldsShare(c)' => \/ batchCall'[c].row > Len(batchRows)
                           \/ /\ HoldsShare(c) /\ batchCall'[c].row = batchCall[c].row
                              /\ \/ batchCall[c].step = "asking"
                                 \/ batchCall'[c].step = batchCall[c].step /\ batchCall'[c].answer = batchCall[c].answer
  PROVE  \A r \in 1..Len(batchRefunds) : batchRefunds'[r].of \in Members \ lost' =>
            \E k \in 1..Len(batchRows') : CountsFor(k, r)'
<1>1. ShareShape /\ ShareCallsFit /\ RefundsCounted
  BY DEF SInv
<1> SUFFICES ASSUME NEW r \in 1..Len(batchRefunds), batchRefunds'[r].of \in Members \ lost'
             PROVE  \E k \in 1..Len(batchRows') : CountsFor(k, r)'
  OBVIOUS
<1>2. batchRefunds'[r] = batchRefunds[r] /\ batchRefunds[r].of \in Members \ lost
  BY DEF RefundsKept
<1>3. PICK k \in 1..Len(batchRows) : CountsFor(k, r)
  BY <1>1, <1>2 DEF RefundsCounted
<1>4. /\ batchRows'[k] = batchRows[k] /\ k \in 1..Len(batchRows') /\ k <= Len(batchRows) /\ r # 0
      /\ k \in Nat /\ Len(batchRows) \in Nat
  BY <1>1 DEF RowsKept, ShareShape
<1>5. ~(batchCall[c].step = "asking" /\ batchCall[c].row = k)
  <2>1. batchCall[c].step = "asking" /\ batchCall[c].row = k => HoldsShare(c) /\ batchRows[k].refund = 0
    BY <1>1 DEF ShareCallsFit, ShareCallFits, HoldsShare
  <2> QED BY <1>3, <1>4, <2>1 DEF CountsFor
<1>6. batchCall'[c].row \in Nat
  BY DEF ShareShape, ShareCall
<1>7. ASSUME NEW d \in BatchCalls, HoldsShare(d)', batchCall'[d].row = k
      PROVE  /\ HoldsShare(d) /\ batchCall[d].row = k
             /\ batchCall'[d].step = batchCall[d].step /\ batchCall'[d].answer = batchCall[d].answer
  <2>1. CASE d = c
    BY <2>1, <1>4, <1>5, <1>6, <1>7
  <2>2. CASE d # c
    BY <2>2, <1>7 DEF OthersAlike, Alike, HoldsShare
  <2> QED BY <2>1, <2>2
<1>8. CountsFor(k, r)'
  BY <1>2, <1>3, <1>4, <1>7, CountsStays
<1> QED BY <1>4, <1>8

\* With no refund made and no call let in, there is as much room as there was.
LEMMA RoomLeftStays ==
  ASSUME SInv, ShareShape', batchRefunds' = batchRefunds, lost \subseteq lost',
         Len(batchRows) <= Len(batchRows'),
         \A k \in 1..Len(batchRows) : batchRows'[k].amount = batchRows[k].amount,
         \A c \in BatchCalls : batchCall'[c].step \in {"reserving", "asking"} /\ ~batchCall'[c].raced =>
            Alike(c) /\ ~batchCall[c].raced
  PROVE  RoomLeft'
<1>1. ShareShape /\ ShareCallsFit /\ RoomLeft /\ Charge \in Nat /\ Share \in Nat
  BY ChargeType DEF SInv
<1>2. ASSUME NEW c \in BatchCalls, Alike(c) PROVE SameKey(c)' = SameKey(c)
  BY <1>2 DEF SameKey, Alike
<1>3. ASSUME NEW Z, NEW most, most \in Nat, RoomOn(Z, most) PROVE RoomOn(Z, most)'
  <2>1. \A c \in BatchCalls : c \in FreshOn(Z)' => c \in FreshOn(Z) /\ batchCall'[c].row = batchCall[c].row
    BY <1>2 DEF FreshOn, Alike
  <2>2. \A c \in BatchCalls : c \in WritingOn(Z)' => c \in WritingOn(Z) /\ batchCall'[c].amount = batchCall[c].amount
    BY DEF WritingOn, Alike
  <2> QED BY <1>1, <1>3, <2>1, <2>2, RoomStays
<1>4. Charge' = Charge
  BY DEF Charge
<1>5. RoomOn(Anyone, Charge)' /\ \A m \in Members \ lost' : RoomOn({m}, Share)'
  BY <1>1, <1>3 DEF RoomLeft
<1> QED BY <1>5 DEF RoomLeft

\* A race leaves no call that nothing raced.
LEMMA RoomLeftRaced ==
  ASSUME \A c \in BatchCalls : batchCall'[c].step \in {"reserving", "asking"} => batchCall'[c].raced
  PROVE  RoomLeft' /\ OneWrites'
<1>1. \A Z, most : RoomOn(Z, most)'
  BY RoomWhenRaced
<1> QED BY <1>1 DEF RoomLeft, OneWrites

\* What races the calls that have not asked yet.
LEMMA RacedEffects ==
  ASSUME ShareShape, NEW C \in SUBSET BatchCalls
  PROVE  /\ Raced(C) \in [BatchCalls -> ShareCall]
         /\ \A d \in BatchCalls : LET x == Raced(C)[d] IN
              /\ x.step = batchCall[d].step /\ x.of = batchCall[d].of /\ x.amount = batchCall[d].amount
              /\ x.row = batchCall[d].row /\ x.answer = batchCall[d].answer
              /\ x.raced <=> batchCall[d].raced \/ d \in C
<1>1. batchCall \in [BatchCalls -> ShareCall]
  BY DEF ShareShape
<1>2. ASSUME NEW d \in BatchCalls
      PROVE  /\ Raced(C)[d] = [batchCall[d] EXCEPT !.raced = @ \/ d \in C]
             /\ Raced(C)[d] \in ShareCall
  <2>1. Raced(C)[d] = [batchCall[d] EXCEPT !.raced = @ \/ d \in C]
    BY DEF Raced
  <2>2. batchCall[d] \in ShareCall
    BY <1>1
  <2> QED BY <2>1, <2>2 DEF ShareCall
<1>3. Raced(C) \in [BatchCalls -> ShareCall]
  BY <1>2 DEF Raced
<1>4. ASSUME NEW d \in BatchCalls
      PROVE  LET x == Raced(C)[d] IN
              /\ x.step = batchCall[d].step /\ x.of = batchCall[d].of /\ x.amount = batchCall[d].amount
              /\ x.row = batchCall[d].row /\ x.answer = batchCall[d].answer
              /\ x.raced <=> batchCall[d].raced \/ d \in C
  <2> DEFINE x == Raced(C)[d]
  <2>1. batchCall[d] \in ShareCall /\ x = [batchCall[d] EXCEPT !.raced = @ \/ d \in C]
    BY <1>1, <1>2
  <2> HIDE DEF x
  <2>2. /\ x.step = batchCall[d].step /\ x.of = batchCall[d].of /\ x.amount = batchCall[d].amount
        /\ x.row = batchCall[d].row /\ x.answer = batchCall[d].answer
    BY <2>1 DEF ShareCall
  <2>3. x.raced <=> batchCall[d].raced \/ d \in C
    BY <2>1 DEF ShareCall
  <2> QED BY <2>2, <2>3 DEF x
<1> QED BY <1>3, <1>4

\* The events are recorded as they were, and say no more than was given back.
LEMMA EventsFitMade ==
  ASSUME SInv, NEW m \in Anyone, NEW amount \in Nat, MadeFor(m, amount),
         m \in Members => \A r \in 1..Len(batchRefunds) : ~(batchRefunds[r].of = m /\ batchRefunds[r].amount = amount),
         ShareShape', batchRows' = batchRows, batchDelivery' = batchDelivery
  PROVE  ShareEventsFit' /\ ShareRowsFit' /\ OnSubject' = OnSubject
<1>1. ShareShape /\ ShareRowsFit /\ ShareEventsFit
  BY DEF SInv
<1>2. /\ Len(batchRefunds) \in Nat /\ Len(batchRefunds') = Len(batchRefunds) + 1 /\ RefundsKept
      /\ Len(batchEvents') = Len(batchRefunds') /\ Len(batchEvents) = Len(batchRefunds)
      /\ \A e \in 1..Len(batchRefunds) : batchEvents'[e] = batchEvents[e]
      /\ ~batchEvents'[Len(batchRefunds) + 1]
      /\ Returned' = Returned + amount
  BY <1>1, ShareMadeEffects DEF ShareShape
<1>3. OnSubject' = OnSubject
  BY DEF OnSubject, BackTo, Live
<1>4. OnSubject \in Nat /\ Returned \in Nat
  BY <1>1, SumTypes
<1>5. OnSubject' <= Returned'
  BY <1>1, <1>2, <1>3, <1>4 DEF ShareEventsFit
<1>6. \A e \in 1..Len(batchEvents') : batchEvents'[e] => batchRefunds'[e].total <= OnSubject'
  <2> SUFFICES ASSUME NEW e \in 1..Len(batchEvents'), batchEvents'[e] PROVE batchRefunds'[e].total <= OnSubject'
    OBVIOUS
  <2>1. e \in 1..Len(batchRefunds)
    BY <1>2
  <2> QED BY <1>1, <1>2, <1>3, <2>1 DEF ShareEventsFit, RefundsKept
<1>7. \A d \in BatchDeliveries :
          /\ batchDelivery'[d].event \in 0..Len(batchEvents')
          /\ batchDelivery'[d].step = "applying" =>
                /\ batchDelivery'[d].event \in 1..Len(batchEvents')
                /\ batchDelivery'[d].total = batchRefunds'[batchDelivery'[d].event].total
  BY <1>1, <1>2 DEF ShareEventsFit, RefundsKept
<1> QED BY <1>1, <1>2, <1>3, <1>5, <1>6, <1>7, RowsFitStay DEF ShareEventsFit

\* A refund made by hand.
LEMMA OutsideKeeps ==
  ASSUME SInv, RefundByHand(PartOfShare)
  PROVE  SInv'
<1>1. /\ ShareShape /\ ShareCallsFit /\ RefundsCounted
      /\ NoMember \in Anyone /\ NoMember \notin Members /\ PartOfShare \in Nat
  BY ChargeType DEF SInv, Anyone
<1>2. MadeFor(NoMember, PartOfShare) /\ batchCall' = Raced(Unasked)
      /\ batchRows' = batchRows /\ batchDelivery' = batchDelivery /\ lost' = lost /\ refunded' = refunded
  BY DEF RefundByHand
<1>3. /\ batchRefunds' \in Seq(ShareRefund) /\ batchEvents' \in Seq(BOOLEAN) /\ Len(batchEvents') = Len(batchRefunds')
      /\ Len(batchRefunds) \in Nat /\ Len(batchRefunds') = Len(batchRefunds) + 1 /\ RefundsKept
      /\ batchRefunds'[Len(batchRefunds) + 1].of = NoMember
      /\ ShareRefundsFit'
  BY <1>1, <1>2, ShareMadeEffects
<1>4. /\ batchCall' \in [BatchCalls -> ShareCall] /\ \A d \in BatchCalls : Alike(d)
      /\ \A d \in BatchCalls : batchCall'[d].step \in {"reserving", "asking"} => batchCall'[d].raced
  <2>1. Unasked \in SUBSET BatchCalls
        /\ \A d \in BatchCalls : batchCall[d].step \in {"reserving", "asking"} => d \in Unasked
    BY DEF Unasked
  <2> QED BY <1>1, <1>2, <2>1, RacedEffects DEF Alike
<1>5. ShareShape'
  BY <1>1, <1>2, <1>3, <1>4 DEF ShareShape
<1>6. ShareEventsFit' /\ ShareRowsFit'
  BY <1>1, <1>2, <1>5, EventsFitMade
<1>7. ShareCallsFit'
  <2>1. \A d \in BatchCalls : ShareCallFits(d)'
    <3>1. Len(batchRows) <= Len(batchRows')
      BY <1>1, <1>2 DEF ShareShape
    <3> QED BY <1>1, <1>2, <1>3, <1>4, <1>5, <3>1, CallFitStays DEF ShareCallsFit
  <2> QED BY <1>1, <1>4, <2>1 DEF ShareCallsFit, HoldsShare, Alike
<1>8. RefundsCounted'
  <2> SUFFICES ASSUME NEW r \in 1..Len(batchRefunds'), batchRefunds'[r].of \in Members \ lost'
               PROVE  \E k \in 1..Len(batchRows') : CountsFor(k, r)'
    BY DEF RefundsCounted
  <2>1. r \in 1..Len(batchRefunds) /\ batchRefunds'[r] = batchRefunds[r]
    BY <1>1, <1>3 DEF RefundsKept
  <2>2. PICK k \in 1..Len(batchRows) : CountsFor(k, r)
    BY <1>1, <1>2, <2>1 DEF RefundsCounted
  <2>3. CountsFor(k, r)'
    BY <1>2, <1>4, <2>1, <2>2, CountsStays DEF HoldsShare, Alike
  <2> QED BY <1>2, <2>3
<1>9. RoomLeft' /\ OneWrites'
  BY <1>4, RoomLeftRaced
<1> QED BY <1>3, <1>5, <1>6, <1>7, <1>8, <1>9 DEF SInv

-----------------------------------------------------------------------------
\* The ledger counts what was given back and what is about to be asked for.

\* Refunds the ledger counts and calls about to ask for more have rows apart, live
\* rows of the orders they are on.
LEMMA RowsCover ==
  ASSUME SInv, NEW R \in SUBSET (1..Len(batchRefunds)), NEW Z, NEW Y,
         NEW L \in SUBSET (1..Len(batchRows)),
         \A r \in R : batchRefunds[r].of \in Members \ lost /\ batchRefunds[r].of \in Y,
         \A c \in FreshOn(Z) : batchCall[c].of \in Y,
         \A k \in 1..Len(batchRows) : batchRows[k].live /\ batchRows[k].of \in Y /\ batchRows[k].of \in Members => k \in L
  PROVE  Cents(batchRefunds, R) + AskedOn(Z) <= Cents(batchRows, L)
<1>1. /\ ShareShape /\ ShareCallsFit /\ ShareRefundsFit /\ RefundsCounted
      /\ Cashed(batchRows) /\ Cashed(batchRefunds)
      /\ \A k \in 1..Len(batchRows) : batchRows[k].amount \in Nat
  BY Cash DEF SInv, Cashed
<1> DEFINE f == [r \in 1..Len(batchRefunds) |-> CHOOSE k : k \in 1..Len(batchRows) /\ CountsFor(k, r)]
           K == {f[r] : r \in R}
           A == {batchCall[c].row : c \in FreshOn(Z)}
<1>2. \A r \in R : /\ r \in 1..Len(batchRefunds) /\ f[r] \in K
                   /\ f[r] \in 1..Len(batchRows) /\ CountsFor(f[r], r)
  <2> SUFFICES ASSUME NEW r \in R
               PROVE  r \in 1..Len(batchRefunds) /\ f[r] \in K /\ f[r] \in 1..Len(batchRows) /\ CountsFor(f[r], r)
    OBVIOUS
  <2>1. \E k : k \in 1..Len(batchRows) /\ CountsFor(k, r)
    BY <1>1 DEF RefundsCounted
  <2>2. LET g == CHOOSE k : k \in 1..Len(batchRows) /\ CountsFor(k, r)
        IN  g \in 1..Len(batchRows) /\ CountsFor(g, r)
    BY <2>1
  <2> QED BY <2>2
<1> HIDE DEF f
<1>3. \A c \in FreshOn(Z) : /\ c \in BatchCalls /\ batchCall[c].row \in 1..Len(batchRows) /\ batchRows[batchCall[c].row].live
                            /\ batchRows[batchCall[c].row].of = batchCall[c].of /\ batchCall[c].of \in Members
                            /\ batchRows[batchCall[c].row].amount = batchCall[c].amount /\ SameKey(c) = {}
  BY <1>1 DEF FreshOn, ShareCallsFit, ShareCallFits, HoldsShare
<1>4. \A r \in R : /\ batchRows[f[r]].of = batchRefunds[r].of /\ batchRows[f[r]].amount = batchRefunds[r].amount
                   /\ batchRows[f[r]].live
  BY <1>2 DEF CountsFor
<1>5. \A q, r \in R : f[q] = f[r] => q = r
  <2> SUFFICES ASSUME NEW q \in R, NEW r \in R, f[q] = f[r] PROVE q = r
    OBVIOUS
  <2>1. /\ batchRefunds[q].of = batchRefunds[r].of
        /\ batchRefunds[q].amount = batchRefunds[r].amount
    BY <1>4
  <2>2. batchRefunds[q].of \in Members /\ q \in 1..Len(batchRefunds) /\ r \in 1..Len(batchRefunds)
    OBVIOUS
  <2> QED BY <1>1, <2>1, <2>2 DEF ShareRefundsFit
<1>6. K \cap A = {}
  <2> SUFFICES ASSUME NEW r \in R, NEW c \in FreshOn(Z), f[r] = batchCall[c].row PROVE FALSE
    OBVIOUS
  <2>1. batchRefunds[r].of = batchCall[c].of /\ batchRefunds[r].amount = batchCall[c].amount
    BY <1>3, <1>4
  <2>2. r \in DOMAIN batchRefunds
    BY <1>1, <1>2, Cash
  <2> QED BY <1>3, <2>1, <2>2 DEF SameKey
<1>7. Cents(batchRefunds, R) <= Cents(batchRows, K)
  <2>1. \A i \in 1..Len(batchRefunds) : i \in R =>
            f[i] \in 1..Len(batchRows) /\ f[i] \in K /\ batchRefunds[i].amount <= batchRows[f[i]].amount
    BY <1>1, <1>2, <1>4
  <2>2. \A i, k \in 1..Len(batchRefunds) : i \in R /\ k \in R /\ f[i] = f[k] => i = k
    BY <1>5
  <2> HIDE DEF K
  <2> QED BY <1>1, <2>1, <2>2, CentsInject
<1>8. \A k \in 1..Len(batchRows) : k \in K \cup A => k \in L
  <2>1. \A r \in R : f[r] \in L
    BY <1>2, <1>4
  <2>2. \A c \in FreshOn(Z) : batchCall[c].row \in L
    BY <1>3
  <2> QED BY <2>1, <2>2
<1> HIDE DEF K, A
<1>9. Cents(batchRows, K \cup A) <= Cents(batchRows, L)
  <2>1. \A k \in 1..Len(batchRows) : k \in K \cup A =>
            k \in 1..Len(batchRows) /\ k \in L /\ batchRows[k].amount <= batchRows[k].amount
    BY <1>1, <1>8
  <2> QED BY <1>1, <2>1, CentsMono
<1>10. Cents(batchRows, K \cup A) = Cents(batchRows, K) + Cents(batchRows, A)
  BY <1>1, <1>6, CentsApart
<1>11. /\ Cents(batchRefunds, R) \in Nat /\ Cents(batchRows, K) \in Nat /\ Cents(batchRows, A) \in Nat
       /\ Cents(batchRows, L) \in Nat
  BY <1>1, CentsTotal
<1>12. AskedOn(Z) = Cents(batchRows, A)
  BY DEF AskedOn, A
<1> QED BY <1>7, <1>9, <1>10, <1>11, <1>12

\* Of an order whose every refund was answered: its rows count them all.
LEMMA ShareCounted ==
  ASSUME SInv, NEW m \in Members \ lost
  PROVE  GivenOn({m}) + AskedOn({m}) <= BackTo(m)
<1>1. ShareShape
  BY DEF SInv
<1>2. DOMAIN batchRows = 1..Len(batchRows)
  BY <1>1, Cash
<1> DEFINE R == {r \in 1..Len(batchRefunds) : batchRefunds[r].of \in {m}}
           L == {k \in Live : batchRows[k].of = m}
<1>3. /\ R \in SUBSET (1..Len(batchRefunds)) /\ L \in SUBSET (1..Len(batchRows))
      /\ \A r \in R : batchRefunds[r].of \in Members \ lost /\ batchRefunds[r].of \in {m}
      /\ \A c \in FreshOn({m}) : batchCall[c].of \in {m}
      /\ \A k \in 1..Len(batchRows) : batchRows[k].live /\ batchRows[k].of \in {m} /\ batchRows[k].of \in Members => k \in L
  BY <1>2 DEF Live, FreshOn
<1>4. GivenOn({m}) = Cents(batchRefunds, R) /\ BackTo(m) = Cents(batchRows, L)
  BY DEF GivenOn, BackTo
<1> HIDE DEF R, L
<1>5. Cents(batchRefunds, R) + AskedOn({m}) <= Cents(batchRows, L)
  BY <1>3, RowsCover
<1> QED BY <1>4, <1>5

\* Of the charge, once what only an event can tell is recorded: the refunds up to
\* the last such one are, and those after it have rows.
LEMMA ChargeCounted ==
  ASSUME SInv, ~Unreported
  PROVE  GivenOn(Anyone) + AskedOn(Anyone) <= CountedAll
<1> DEFINE n == Len(batchRefunds)
           Told(r) == batchRefunds[r].of \notin Members \ lost
           T == {e \in 0..n : \A q \in 1..n : Told(q) => q <= e}
<1>1. /\ ShareShape /\ ShareRefundsFit /\ ShareEventsFit /\ n \in Nat
      /\ Cashed(batchRows) /\ Cashed(batchRefunds) /\ DOMAIN batchRows = 1..Len(batchRows) /\ DOMAIN batchRefunds = 1..n
      /\ DOMAIN batchEvents = 1..n /\ Len(batchEvents) = n
      /\ \A r \in 1..n : batchRefunds[r].of \in Anyone
  BY Cash DEF SInv, ShareShape, ShareRefund, Anyone
<1>2. PICK e \in T : \A x \in T : e <= x
  <2>1. n \in T /\ T \in SUBSET Nat
    BY <1>1
  <2> HIDE DEF T
  <2> QED BY <2>1, LeastNatural
<1>3. e \in 0..n /\ e \in Nat /\ \A q \in 1..n : q > e => ~Told(q)
  BY <1>1, <1>2
<1>4. e # 0 => e \in 1..n /\ Told(e)
  <2> SUFFICES ASSUME e # 0, ~Told(e) PROVE FALSE
    BY <1>1, <1>3
  <2>1. e - 1 \in 0..n
    BY <1>1, <1>3
  <2>2. \A q \in 1..n : Told(q) => q <= e /\ q # e
    BY <1>2
  <2>3. \A q \in 1..n : Told(q) => q <= e - 1
    BY <2>2, <1>3
  <2>4. e - 1 \in T
    BY <2>1, <2>3
  <2>5. e <= e - 1
    <3> HIDE DEF T
    <3> QED BY <1>2, <2>4
  <2> QED BY <1>3, <2>5
<1>5. Cents(batchRefunds, 1..e) <= OnSubject
  <2>0. OnSubject \in Nat
    BY <1>1, SumTypes
  <2>1. CASE e = 0
    <3>1. 1..e = {}
      BY <2>1
    <3> QED BY <3>1, <2>0, <1>1, CentsNone
  <2>2. CASE e # 0
    <3>1. e \in 1..n /\ batchRefunds[e].of \in lost \cup {NoMember}
      BY <1>1, <1>4, <2>2 DEF Anyone
    <3>2. batchEvents[e]
      BY <1>1, <3>1 DEF Unreported
    <3> QED BY <1>1, <3>1, <3>2 DEF ShareRefundsFit, ShareEventsFit
  <2> QED BY <2>1, <2>2
<1> DEFINE R == {r \in 1..n : r > e}
           G == {r \in 1..n : batchRefunds[r].of \in Anyone}
           L == {k \in Live : batchRows[k].of # NoMember}
           L0 == {k \in Live : batchRows[k].of = NoMember}
<1>6. Cents(batchRefunds, G) = Cents(batchRefunds, 1..e) + Cents(batchRefunds, R)
  <2>1. (1..e) \cap R = {} /\ G = (1..e) \cup R
    BY <1>1, <1>3
  <2> HIDE DEF R, G
  <2> QED BY <1>1, <2>1, CentsApart
<1>7. Cents(batchRefunds, R) + AskedOn(Anyone) <= Cents(batchRows, L)
  <2>1. /\ R \in SUBSET (1..Len(batchRefunds)) /\ L \in SUBSET (1..Len(batchRows))
        /\ \A r \in R : batchRefunds[r].of \in Members \ lost /\ batchRefunds[r].of \in Anyone
        /\ \A c \in FreshOn(Anyone) : batchCall[c].of \in Anyone
    BY <1>1, <1>3 DEF Live, FreshOn
  <2>2. \A k \in 1..Len(batchRows) : batchRows[k].live /\ batchRows[k].of \in Anyone /\ batchRows[k].of \in Members => k \in L
    BY <1>1, ChargeType DEF Live
  <2> HIDE DEF R, L
  <2> QED BY <2>1, <2>2, RowsCover
<1>8. CountedAll = OnSubject + Cents(batchRows, L)
  <2>1. L0 \cap L = {} /\ Live = L0 \cup L
    OBVIOUS
  <2>2. CountedAll = Cents(batchRows, Live) /\ OnSubject = Cents(batchRows, L0)
    BY DEF CountedAll, OnSubject, BackTo
  <2> HIDE DEF L, L0
  <2>3. Cents(batchRows, L0 \cup L) = Cents(batchRows, L0) + Cents(batchRows, L)
    BY <1>1, <2>1, CentsApart
  <2> QED BY <2>1, <2>2, <2>3
<1>9. GivenOn(Anyone) = Cents(batchRefunds, G)
  BY DEF GivenOn
<1>10. /\ Cents(batchRefunds, 1..e) \in Nat /\ Cents(batchRefunds, R) \in Nat
       /\ AskedOn(Anyone) \in Nat /\ Cents(batchRows, L) \in Nat /\ OnSubject \in Nat
  BY <1>1, SumTypes, CentsTotal
<1> HIDE DEF R, G, L, L0, Told, T
<1> QED BY <1>5, <1>6, <1>7, <1>8, <1>9, <1>10

-----------------------------------------------------------------------------
\* A cancellation or a decision begins.

\* What is owed is left of the share and of the charge.
LEMMA OwedIsLeft ==
  ASSUME SInv, NEW m \in Members, NEW amount \in Nat,
         amount > 0, amount <= OwedTo(m)
  PROVE  BackTo(m) + amount <= Share /\ CountedAll + amount <= Charge
<1>1. BackTo(m) \in Nat /\ CountedAll \in Nat /\ Charge \in Nat /\ Share \in Nat
  BY ChargeType, SumTypes DEF SInv
<1> QED BY <1>1 DEF OwedTo, Lesser, Less

\* What beginning does, whichever it is.
Begun(c, m, amount, close) ==
    /\ batchCall[c] = NoCall /\ amount \in Nat
    /\ BackTo(m) + amount <= Share /\ CountedAll + amount <= Charge
    /\ Asking(c, m, amount, close)
    /\ UNCHANGED <<refunded, batchRows, batchRefunds, batchEvents, batchDelivery, lost, batchFaults>>
\* Both ways to begin do, within what is left.
LEMMA BeginIs ==
  ASSUME SInv, NEW c, NEW m \in Members,
         CancelMember(c, m) \/ DecideMember(c, m)
  PROVE  \E amount \in Nat : \E close \in BOOLEAN : Begun(c, m, amount, close)
<1>1. PartOfShare \in Nat /\ PartOfShare > 0 /\ OwedTo(m) \in Nat
  <2>1. BackTo(m) \in Nat /\ CountedAll \in Nat /\ Charge \in Nat /\ Share \in Nat
    BY ChargeType, SumTypes DEF SInv
  <2> QED BY <2>1, ChargeType DEF OwedTo, Lesser, Less
<1>2. CASE CancelMember(c, m)
  <2>1. OwedTo(m) > 0 /\ OwedTo(m) <= OwedTo(m)
    BY <1>1, <1>2 DEF CancelMember
  <2>2. BackTo(m) + OwedTo(m) <= Share /\ CountedAll + OwedTo(m) <= Charge
    BY <1>1, <2>1, OwedIsLeft
  <2>3. Begun(c, m, OwedTo(m), TRUE)
    BY <1>1, <1>2, <2>2 DEF CancelMember, Begun
  <2> QED BY <2>3, <1>1
<1>3. CASE DecideMember(c, m)
  <2>1. PartOfShare <= OwedTo(m)
    BY <1>3 DEF DecideMember
  <2>2. BackTo(m) + PartOfShare <= Share /\ CountedAll + PartOfShare <= Charge
    BY <1>1, <2>1, OwedIsLeft
  <2>3. Begun(c, m, PartOfShare, m \notin refunded)
    BY <1>1, <1>3, <2>2 DEF DecideMember, Begun
  <2> QED BY <2>3, <1>1
<1> QED BY <1>2, <1>3

\* What was written and recorded fits still where neither changes.
LEMMA StillFit ==
  ASSUME SInv, UNCHANGED <<batchRows, batchRefunds, batchEvents, batchDelivery>>
  PROVE  ShareRowsFit' /\ ShareRefundsFit' /\ ShareEventsFit' /\ RefundsKept /\ RowsKept
         /\ Len(batchRows) <= Len(batchRows') /\ Len(batchRows) \in Nat /\ Len(batchRefunds) \in Nat
<1>1. ShareShape /\ ShareRowsFit /\ ShareRefundsFit /\ ShareEventsFit
  BY DEF SInv
<1>2. Len(batchRows) \in Nat /\ Len(batchRefunds) \in Nat
  BY <1>1 DEF ShareShape
<1>3. /\ Returned' = Returned /\ Charge' = Charge /\ OnSubject' = OnSubject
  BY DEF Returned, Charge, OnSubject, BackTo, Live
<1>4. ShareRowsFit'
  BY <1>1 DEF ShareRowsFit
<1>5. ShareRefundsFit'
  BY <1>1, <1>3 DEF ShareRefundsFit
<1>6. ShareEventsFit'
  BY <1>1, <1>3 DEF ShareEventsFit
<1> QED BY <1>2, <1>4, <1>5, <1>6 DEF RefundsKept, RowsKept

\* As much is given and asked for when no call joins or leaves those that ask.
LEMMA AskedSame ==
  ASSUME NEW Z, UNCHANGED <<batchRows, batchRefunds>>,
         \A d \in BatchCalls : d \in FreshOn(Z)' <=> d \in FreshOn(Z),
         \A d \in FreshOn(Z) : batchCall'[d].row = batchCall[d].row
  PROVE  FreshOn(Z)' = FreshOn(Z) /\ GivenOn(Z)' = GivenOn(Z) /\ AskedOn(Z)' = AskedOn(Z)
<1>1. FreshOn(Z)' \subseteq BatchCalls /\ FreshOn(Z) \subseteq BatchCalls
  BY DEF FreshOn
<1>2. FreshOn(Z)' = FreshOn(Z)
  BY <1>1
<1>3. {batchCall'[d].row : d \in FreshOn(Z)'} = {batchCall[d].row : d \in FreshOn(Z)}
  BY <1>2
<1> QED BY <1>2, <1>3 DEF GivenOn, AskedOn

\* Beginning within what is left leaves room for the call, when nothing races it.
LEMMA BegunKeeps ==
  ASSUME SInv, NEW c \in BatchCalls, NEW m \in Members, NEW amount \in Nat,
         NEW close \in BOOLEAN, Begun(c, m, amount, close)
  PROVE  SInv'
<1> DEFINE x == [NoCall EXCEPT !.step = "reserving", !.of = m, !.amount = amount, !.close = close,
                               !.raced = BegunRaced]
<1>1. /\ ShareShape /\ ShareCallsFit /\ RefundsCounted /\ RoomLeft
      /\ batchCall[c] = NoCall /\ batchCall' = [Raced(Unwritten) EXCEPT ![c] = x]
      /\ UNCHANGED <<refunded, batchRows, batchRefunds, batchEvents, batchDelivery, lost>>
      /\ UNCHANGED <<batchRows, batchRefunds, batchEvents, batchDelivery>>
  BY DEF SInv, Begun, Asking
<1>2. /\ x \in ShareCall /\ x.step = "reserving" /\ x.of = m /\ x.amount = amount
      /\ x.row = 0 /\ x.answer = 0 /\ (x.raced <=> BegunRaced)
  <2>1. BegunRaced \in BOOLEAN
    BY DEF BegunRaced, Unreported
  <2> QED BY <2>1 DEF NoCall, ShareCall
<1>3. /\ Unwritten \in SUBSET BatchCalls
      /\ \A d \in BatchCalls : d \in Unwritten <=> batchCall[d].step = "reserving"
  BY DEF Unwritten
<1>4. /\ batchCall' \in [BatchCalls -> ShareCall] /\ batchCall'[c] = x
      /\ \A d \in BatchCalls \ {c} : /\ Alike(d)
                                     /\ batchCall'[d].raced <=> batchCall[d].raced \/ d \in Unwritten
  <2> DEFINE g == Raced(Unwritten)
  <2>1. /\ g \in [BatchCalls -> ShareCall]
        /\ \A d \in BatchCalls :
              /\ g[d].step = batchCall[d].step /\ g[d].of = batchCall[d].of /\ g[d].amount = batchCall[d].amount
              /\ g[d].row = batchCall[d].row /\ g[d].answer = batchCall[d].answer
              /\ g[d].raced <=> batchCall[d].raced \/ d \in Unwritten
    BY <1>1, <1>3, RacedEffects
  <2> HIDE DEF g
  <2>2. batchCall' = [g EXCEPT ![c] = x]
    BY <1>1 DEF g
  <2> HIDE DEF x
  <2>3. batchCall' \in [BatchCalls -> ShareCall] /\ batchCall'[c] = x /\ \A d \in BatchCalls \ {c} : batchCall'[d] = g[d]
    BY <1>2, <2>1, <2>2
  <2> QED BY <2>1, <2>3 DEF Alike
<1> HIDE DEF x
<1>5. ShareShape'
  BY <1>1, <1>4 DEF ShareShape
<1>6. OthersAlike(c)
  BY <1>4 DEF OthersAlike
<1>7. ShareRowsFit' /\ ShareRefundsFit' /\ ShareEventsFit' /\ RefundsKept /\ RowsKept
      /\ Len(batchRows) <= Len(batchRows') /\ Len(batchRows) \in Nat /\ Len(batchRefunds) \in Nat
  BY <1>1, StillFit
<1>8. ~HoldsShare(c)' /\ ~HoldsShare(c)
  BY <1>1, <1>2, <1>4 DEF HoldsShare, NoCall
<1>9. ShareCallsFit'
  <2>1. ShareCallFits(c)'
    BY <1>1, <1>2, <1>4, <1>7, <1>8 DEF ShareCallFits
  <2> QED BY <1>1, <1>5, <1>6, <1>7, <1>8, <2>1, CallsFitStay
<1>10. RefundsCounted'
  <2>1. \A r \in 1..Len(batchRefunds) : batchRefunds'[r].of \in Members \ lost' =>
            \E k \in 1..Len(batchRows') : CountsFor(k, r)'
    BY <1>1, <1>5, <1>6, <1>7, <1>8, CountedStay
  <2> QED BY <1>1, <2>1 DEF RefundsCounted
<1>11. RoomLeft' /\ OneWrites'
  <2>1. CASE BegunRaced
    <3>1. batchCall'[c].raced /\ \A d \in BatchCalls : batchCall'[d].step = "reserving" => batchCall'[d].raced
      BY <1>2, <1>3, <1>4, <2>1 DEF Alike
    <3>2. \A d \in BatchCalls : batchCall'[d].step \in {"reserving", "asking"} /\ ~batchCall'[d].raced =>
            Alike(d) /\ ~batchCall[d].raced
      BY <3>1, <1>4
    <3>3. RoomLeft'
      BY <1>1, <1>5, <1>7, <3>2, RoomLeftStays
    <3> QED BY <3>1, <3>3 DEF OneWrites
  <2>2. CASE ~BegunRaced
    <3>1. ~Unreported /\ \A d \in BatchCalls : batchCall[d].step # "reserving"
      BY <1>3, <2>2 DEF BegunRaced
    <3>2. \A d \in BatchCalls : batchCall'[d].step = "reserving" <=> d = c
      BY <1>2, <1>4, <3>1 DEF Alike
    <3>3. \A d \in BatchCalls \ {c} : SameKey(d)' = SameKey(d)
      BY <1>1, <1>4 DEF SameKey, Alike
    <3>4. ASSUME NEW Z
          PROVE  /\ FreshOn(Z)' = FreshOn(Z) /\ GivenOn(Z)' = GivenOn(Z)
                 /\ AskedOn(Z)' = AskedOn(Z)
                 /\ \A d \in WritingOn(Z)' : d = c /\ m \in Z
      <4>1. \A d \in BatchCalls : d \in FreshOn(Z)' <=> d \in FreshOn(Z)
        <5>1. c \notin FreshOn(Z)' /\ c \notin FreshOn(Z)
          BY <1>1, <1>2, <1>4 DEF FreshOn, NoCall
        <5>2. ASSUME NEW d \in BatchCalls \ {c} PROVE d \in FreshOn(Z)' <=> d \in FreshOn(Z)
          <6>1. /\ batchCall'[d].raced <=> batchCall[d].raced
                /\ Alike(d) /\ SameKey(d)' = SameKey(d)
            BY <1>3, <1>4, <3>1, <3>3
          <6> QED BY <6>1 DEF FreshOn, Alike
        <5> QED BY <5>1, <5>2
      <4>2. \A d \in FreshOn(Z) : batchCall'[d].row = batchCall[d].row
        BY <1>1, <1>4 DEF FreshOn, Alike, NoCall
      <4>3. \A d \in WritingOn(Z)' : d = c /\ m \in Z
        BY <1>2, <1>4, <3>2 DEF WritingOn
      <4> QED BY <1>1, <4>1, <4>2, <4>3, AskedSame
    <3>5. BackTo(m) + amount <= Share /\ CountedAll + amount <= Charge
      BY DEF Begun
    <3>6. /\ BackTo(m) \in Nat /\ CountedAll \in Nat
          /\ \A Z : GivenOn(Z) \in Nat /\ AskedOn(Z) \in Nat
      BY <1>1, SumTypes
    <3>7. Charge \in Nat /\ Share \in Nat /\ Charge' = Charge
      BY ChargeType DEF Charge
    <3>8. RoomOn(Anyone, Charge)'
      <4>1. GivenOn(Anyone) + AskedOn(Anyone) <= CountedAll
        BY <3>1, ChargeCounted
      <4>2. GivenOn(Anyone) + AskedOn(Anyone) + amount <= Charge
        BY <3>5, <3>6, <3>7, <4>1
      <4>3. FreshOn(Anyone) # {} => GivenOn(Anyone) + AskedOn(Anyone) <= Charge
        BY <1>1 DEF RoomLeft, RoomOn
      <4> QED BY <1>2, <1>4, <3>4, <3>7, <4>2, <4>3 DEF RoomOn
    <3>9. ASSUME NEW o \in Members \ lost' PROVE RoomOn({o}, Share)'
      <4>1. FreshOn({o}) # {} => GivenOn({o}) + AskedOn({o}) <= Share
        BY <1>1 DEF RoomLeft, RoomOn
      <4>2. CASE o = m
        <5>1. GivenOn({o}) + AskedOn({o}) <= BackTo(m)
          BY <1>1, <4>2, ShareCounted
        <5>2. GivenOn({o}) + AskedOn({o}) + amount <= Share
          BY <3>5, <3>6, <3>7, <5>1
        <5> QED BY <1>2, <1>4, <3>4, <4>1, <5>2 DEF RoomOn
      <4>3. CASE o # m
        <5>1. WritingOn({o})' = {}
          BY <3>4, <4>3
        <5> QED BY <3>4, <4>1, <5>1 DEF RoomOn
      <4> QED BY <4>2, <4>3
    <3> QED BY <3>2, <3>8, <3>9 DEF RoomLeft, OneWrites
  <2> QED BY <2>1, <2>2
<1> QED BY <1>5, <1>7, <1>9, <1>10, <1>11 DEF SInv

-----------------------------------------------------------------------------
\* A row is written.

\* What is recorded of the charge is as it was while its rows are.
LEMMA RecordedStays ==
  ASSUME ShareShape, ShareShape', Len(batchRows) <= Len(batchRows'),
         \A k \in 1..Len(batchRows) : /\ batchRows'[k].amount = batchRows[k].amount /\ batchRows'[k].of = batchRows[k].of
                                      /\ batchRows[k].of = NoMember => batchRows'[k].live = batchRows[k].live,
         \A k \in 1..Len(batchRows') : k > Len(batchRows) => batchRows'[k].of # NoMember
  PROVE  OnSubject' = OnSubject
<1> DEFINE K == {k \in Live : batchRows[k].of = NoMember}
           J == {k \in Live' : batchRows'[k].of = NoMember}
<1>1. /\ Cashed(batchRows) /\ Cashed(batchRows') /\ Len(batchRows) \in Nat /\ Len(batchRows') \in Nat
      /\ DOMAIN batchRows = 1..Len(batchRows) /\ DOMAIN batchRows' = 1..Len(batchRows')
  <2>1. batchRows \in Seq(ShareRow) /\ batchRows' \in Seq(ShareRow)
    BY DEF ShareShape
  <2>2. /\ Cashed(batchRows) /\ Cashed(batchRows')
        /\ DOMAIN batchRows = 1..Len(batchRows) /\ DOMAIN batchRows' = 1..Len(batchRows')
    BY <2>1, RowsCash
  <2> QED BY <2>2 DEF Cashed
<1>2. \A k \in 1..Len(batchRows) : k \in K =>
        k \in 1..Len(batchRows') /\ k \in J /\ batchRows[k].amount = batchRows'[k].amount
  BY <1>1 DEF Live
<1>3. \A k \in 1..Len(batchRows') : k \in J => k \in 1..Len(batchRows) /\ k \in K
  BY <1>1 DEF Live
<1>4. OnSubject = Cents(batchRows, K) /\ OnSubject' = Cents(batchRows', J)
  BY DEF OnSubject, BackTo
<1> HIDE DEF K, J
<1> QED BY <1>1, <1>2, <1>3, <1>4, CentsSame

\* The events fit while what is recorded of them is as it was.
LEMMA EventsFitStay ==
  ASSUME SInv, UNCHANGED <<batchRefunds, batchEvents, batchDelivery>>, OnSubject' = OnSubject
  PROVE  ShareEventsFit' /\ ShareRefundsFit' /\ RefundsKept
<1>1. Returned' = Returned /\ Charge' = Charge
  BY DEF Returned, Charge
<1>2. Len(batchRefunds) \in Nat
  BY DEF SInv, ShareShape
<1> QED BY <1>1, <1>2 DEF SInv, ShareEventsFit, ShareRefundsFit, RefundsKept

\* A row written is counted, and what it is of was left.
LEMMA ReserveShareKeeps ==
  ASSUME SInv, NEW c \in BatchCalls, ReserveShare(c)
  PROVE  SInv'
<1> DEFINE n == Len(batchRows)
           x == [of |-> batchCall[c].of, amount |-> batchCall[c].amount, live |-> TRUE, refund |-> 0]
<1>1. /\ ShareShape /\ ShareCallsFit /\ ShareRowsFit /\ RefundsCounted /\ RoomLeft /\ OneWrites
      /\ n \in Nat /\ Len(batchRefunds) \in Nat
      /\ batchCall[c] \in ShareCall /\ batchCall[c].step = "reserving" /\ batchRows' = Append(batchRows, x)
      /\ batchCall' = [batchCall EXCEPT ![c].step = "asking", ![c].row = n + 1]
      /\ UNCHANGED <<refunded, batchRefunds, batchEvents, batchDelivery, lost>>
      /\ UNCHANGED <<batchRefunds, batchEvents, batchDelivery>>
  BY DEF SInv, ReserveShare, ShareShape
<1>2. batchCall[c].of \in Members
  BY <1>1 DEF ShareCallsFit, ShareCallFits
<1>3. /\ x \in ShareRow /\ x.of = batchCall[c].of /\ x.amount = batchCall[c].amount /\ x.live /\ x.refund = 0
  BY <1>1, <1>2 DEF ShareRow, ShareCall
<1>4. /\ batchRows' \in Seq(ShareRow) /\ Len(batchRows') = n + 1 /\ batchRows'[n + 1] = x
      /\ \A k \in 1..n : batchRows'[k] = batchRows[k]
  <2>1. batchRows \in Seq(ShareRow)
    BY <1>1 DEF ShareShape
  <2> HIDE DEF x
  <2> QED BY <2>1, <1>1, <1>3, Grown
<1>5. /\ batchCall' \in [BatchCalls -> ShareCall] /\ \A d \in BatchCalls \ {c} : batchCall'[d] = batchCall[d]
      /\ batchCall'[c].step = "asking" /\ batchCall'[c].row = n + 1 /\ batchCall'[c].of = batchCall[c].of
      /\ batchCall'[c].amount = batchCall[c].amount /\ batchCall'[c].answer = batchCall[c].answer
      /\ batchCall'[c].raced = batchCall[c].raced
  <2> DEFINE z == [batchCall[c] EXCEPT !.step = "asking", !.row = n + 1]
  <2>1. batchCall \in [BatchCalls -> ShareCall] /\ batchCall[c] \in ShareCall /\ n + 1 \in Nat
    BY <1>1 DEF ShareShape
  <2>2. batchCall' = [batchCall EXCEPT ![c] = z]
    BY <1>1, <2>1
  <2>3. ASSUME NEW y \in ShareCall
        PROVE  LET w == [y EXCEPT !.step = "asking", !.row = n + 1] IN
               /\ w \in ShareCall /\ w.step = "asking" /\ w.row = n + 1 /\ w.of = y.of
               /\ w.amount = y.amount /\ w.answer = y.answer /\ w.raced = y.raced
    BY <2>1 DEF ShareCall
  <2>4. /\ z \in ShareCall /\ z.step = "asking" /\ z.row = n + 1 /\ z.of = batchCall[c].of
        /\ z.amount = batchCall[c].amount /\ z.answer = batchCall[c].answer /\ z.raced = batchCall[c].raced
    BY <2>1, <2>3
  <2> HIDE DEF z
  <2> QED BY <2>1, <2>2, <2>4
<1> HIDE DEF x
<1>6. ShareShape'
  BY <1>1, <1>4, <1>5 DEF ShareShape
<1>7. OthersAlike(c) /\ RowsKept /\ Len(batchRows) <= Len(batchRows')
      /\ \A k \in 1..(n + 1) : k = n + 1 \/ k \in 1..n
  BY <1>1, <1>4, <1>5 DEF OthersAlike, Alike, RowsKept
<1>8. ShareEventsFit' /\ ShareRefundsFit' /\ RefundsKept
  <2>1. OnSubject' = OnSubject
    <3>1. \A k \in 1..Len(batchRows') : k > Len(batchRows) => batchRows'[k].of # NoMember
      BY <1>1, <1>2, <1>3, <1>4, <1>7, ChargeType
    <3> QED BY <1>1, <1>4, <1>6, <1>7, <3>1, RecordedStays
  <2> QED BY <1>1, <2>1, EventsFitStay
<1>9. ShareRowsFit'
  BY <1>1, <1>3, <1>4, <1>7 DEF ShareRowsFit
<1>10. ShareCallsFit'
  <2>1. ShareCallFits(c)'
    BY <1>1, <1>2, <1>3, <1>4, <1>5 DEF ShareCallFits, HoldsShare, ShareCallsFit
  <2>2. batchCall'[c].row > Len(batchRows)
    BY <1>1, <1>5
  <2> QED BY <1>6, <1>7, <1>8, <2>1, <2>2, CallsFitStay DEF RowsKept
<1>11. RefundsCounted'
  <2>1. batchCall'[c].row > Len(batchRows)
    BY <1>1, <1>5
  <2>2. \A r \in 1..Len(batchRefunds) : batchRefunds'[r].of \in Members \ lost' =>
            \E k \in 1..Len(batchRows') : CountsFor(k, r)'
    BY <1>1, <1>6, <1>7, <1>8, <2>1, CountedStay
  <2> QED BY <1>1, <2>2 DEF RefundsCounted
<1>12. OneWrites'
  BY <1>1, <1>5 DEF OneWrites
<1>13. RoomLeft'
  <2>1. CASE batchCall[c].raced
    <3>1. \A d \in BatchCalls : batchCall'[d].step \in {"reserving", "asking"} /\ ~batchCall'[d].raced =>
            Alike(d) /\ ~batchCall[d].raced
      BY <1>5, <2>1 DEF Alike
    <3>2. \A k \in 1..Len(batchRows) : batchRows'[k].amount = batchRows[k].amount
      BY <1>4
    <3>3. lost \subseteq lost' /\ batchRefunds' = batchRefunds
      BY <1>1
    <3> QED BY <1>6, <1>7, <3>1, <3>2, <3>3, RoomLeftStays
  <2>2. CASE ~batchCall[c].raced
    <3>1. \A d \in BatchCalls : batchCall'[d].step # "reserving"
      BY <1>1, <1>5, <2>2 DEF OneWrites
    <3>2. SameKey(c)' = SameKey(c) /\ \A d \in BatchCalls : SameKey(d)' = SameKey(d)
      BY <1>1, <1>5 DEF SameKey
    <3>3. ASSUME NEW Z, NEW most, most \in Nat, RoomOn(Z, most) PROVE RoomOn(Z, most)'
      <4>1. WritingOn(Z)' = {}
        BY <3>1 DEF WritingOn
      <4>2. \A d \in BatchCalls \ {c} : d \in FreshOn(Z)' => d \in FreshOn(Z)
        BY <1>5, <3>2 DEF FreshOn
      <4>3. CASE c \notin FreshOn(Z)'
        <5>1. \A d \in BatchCalls : d \in FreshOn(Z)' => d \in FreshOn(Z) /\ batchCall'[d].row = batchCall[d].row
          BY <1>5, <4>2, <4>3
        <5>2. \A d \in BatchCalls : d \in WritingOn(Z)' => d \in WritingOn(Z) /\ batchCall'[d].amount = batchCall[d].amount
          BY <4>1
        <5>3. \A k \in 1..Len(batchRows) : batchRows'[k].amount = batchRows[k].amount
          BY <1>4
        <5>4. batchRefunds' = batchRefunds
          BY <1>1
        <5> QED BY <1>1, <1>6, <1>7, <3>3, <5>1, <5>2, <5>3, <5>4, RoomStays
      <4>4. CASE c \in FreshOn(Z)'
        <5>1. c \in WritingOn(Z)
          BY <1>1, <1>5, <2>2, <4>4 DEF FreshOn, WritingOn
        <5>2. GivenOn(Z) + AskedOn(Z) + batchCall[c].amount <= most
          BY <3>3, <5>1 DEF RoomOn
        <5> DEFINE A == {batchCall[d].row : d \in FreshOn(Z)}
                   A1 == {batchCall'[d].row : d \in FreshOn(Z)'}
                   AA == A \cup {n + 1}
        <5>3. /\ \A d \in FreshOn(Z) : d \in BatchCalls /\ batchCall[d].row \in 1..n
              /\ \A d \in FreshOn(Z)' : d \in BatchCalls
          BY <1>1 DEF FreshOn, ShareCallsFit, ShareCallFits, HoldsShare
        <5>4. (\A k \in A : k \in 1..n) /\ (\A k \in A1 : k \in AA)
          <6>1. \A d \in FreshOn(Z)' : batchCall'[d].row \in AA
            BY <1>5, <4>2, <5>3
          <6> QED BY <5>3, <6>1
        <5>5. Cashed(batchRows) /\ Cashed(batchRows')
          <6>1. batchRows \in Seq(ShareRow) /\ batchRows' \in Seq(ShareRow)
            BY <1>1, <1>4 DEF ShareShape
          <6> QED BY <6>1, RowsCash
        <5>7. PICK j : j = n + 1
          OBVIOUS
        <5>8. j \in 1..Len(batchRows') /\ j \in AA /\ batchRows'[j].amount = batchCall[c].amount
          BY <1>1, <1>3, <1>4, <5>7
        <5>9. \A k \in 1..Len(batchRows) : k \in A =>
                k # j /\ k \in 1..Len(batchRows') /\ k \in AA /\ batchRows[k].amount = batchRows'[k].amount
          BY <1>1, <1>4, <5>7
        <5>10. \A k \in 1..Len(batchRows') : k \in AA => k = j \/ (k \in 1..Len(batchRows) /\ k \in A)
          BY <1>1, <5>4, <5>7
        <5>11. AskedOn(Z) = Cents(batchRows, A) /\ AskedOn(Z)' = Cents(batchRows', A1)
          BY DEF AskedOn
        <5> HIDE DEF A, A1, AA
        <5>6. \A k \in 1..Len(batchRows') : k \in A1 => k \in 1..Len(batchRows') /\ k \in AA
                                                     /\ batchRows'[k].amount <= batchRows'[k].amount
          <6>1. \A k \in 1..Len(batchRows') : batchRows'[k].amount \in Nat
            BY <5>5 DEF Cashed
          <6> QED BY <5>4, <6>1
        <5>12. Cents(batchRows', A1) <= Cents(batchRows', AA)
          BY <5>5, <5>6, CentsMono
        <5>13. Cents(batchRows', AA) = Cents(batchRows, A) + batchCall[c].amount
          BY <5>5, <5>8, <5>9, <5>10, CentsMore
        <5>14. /\ Cents(batchRows', A1) \in Nat /\ Cents(batchRows', AA) \in Nat /\ Cents(batchRows, A) \in Nat
               /\ GivenOn(Z) \in Nat /\ batchCall[c].amount \in Nat
          BY <1>1, <5>5, CentsTotal, SumTypes DEF ShareCall
        <5>15. GivenOn(Z)' = GivenOn(Z)
          BY <1>1 DEF GivenOn
        <5> QED BY <3>3, <4>1, <5>2, <5>11, <5>12, <5>13, <5>14, <5>15 DEF RoomOn
      <4> QED BY <4>3, <4>4
    <3>4. Charge \in Nat /\ Share \in Nat /\ Charge' = Charge
      BY ChargeType DEF Charge
    <3>5. RoomOn(Anyone, Charge)' /\ \A m \in Members \ lost' : RoomOn({m}, Share)'
      BY <1>1, <3>3, <3>4 DEF RoomLeft
    <3> QED BY <3>5 DEF RoomLeft
  <2> QED BY <2>1, <2>2
<1> QED BY <1>6, <1>8, <1>9, <1>10, <1>11, <1>12, <1>13 DEF SInv

-----------------------------------------------------------------------------
\* Steps of one call that write nothing.

\* A call that goes on, or ends, with nothing written.
LEMMA CallOnlyKeeps ==
  ASSUME SInv, NEW c \in BatchCalls, NEW x \in ShareCall,
         batchCall' = [batchCall EXCEPT ![c] = x], x.step \in {"idle", "settling", "closing"},
         x.step # "idle" => x.of \in Members, x.row \in 0..Len(batchRows), x.answer \in 0..Len(batchRefunds),
         x.step = "settling" =>
            /\ batchCall[c].step = "asking" /\ x.row = batchCall[c].row
            /\ x.of = batchCall[c].of /\ x.amount = batchCall[c].amount
            /\ x.answer # 0 => batchRefunds[x.answer].of = x.of /\ batchRefunds[x.answer].amount = x.amount,
         refunded' \subseteq Members, UNCHANGED <<batchRows, batchRefunds, batchEvents, batchDelivery, lost>>
  PROVE  SInv'
<1>1. /\ ShareShape /\ ShareCallsFit /\ RefundsCounted /\ OneWrites
      /\ UNCHANGED <<batchRows, batchRefunds, batchEvents, batchDelivery>> /\ lost \subseteq lost'
  BY DEF SInv
<1>2. /\ batchCall' \in [BatchCalls -> ShareCall] /\ batchCall'[c] = x
      /\ \A d \in BatchCalls \ {c} : batchCall'[d] = batchCall[d]
  BY <1>1 DEF ShareShape
<1>3. ShareShape' /\ OthersAlike(c)
  BY <1>1, <1>2 DEF ShareShape, OthersAlike, Alike
<1>4. ShareRowsFit' /\ ShareRefundsFit' /\ ShareEventsFit' /\ RefundsKept /\ RowsKept
      /\ Len(batchRows) <= Len(batchRows')
  BY <1>1, StillFit
<1>5. HoldsShare(c)' => HoldsShare(c) /\ batchCall'[c].row = batchCall[c].row /\ batchCall[c].step = "asking"
  BY <1>2 DEF HoldsShare
<1>6. ShareCallFits(c)'
  BY <1>1, <1>2 DEF ShareCallFits, ShareCallsFit, HoldsShare
<1>7. ShareCallsFit'
  BY <1>3, <1>4, <1>5, <1>6, CallsFitStay DEF RowsKept
<1>8. RefundsCounted'
  <2>1. \A r \in 1..Len(batchRefunds) : batchRefunds'[r].of \in Members \ lost' =>
            \E k \in 1..Len(batchRows') : CountsFor(k, r)'
    BY <1>1, <1>3, <1>4, <1>5, CountedStay
  <2> QED BY <1>1, <2>1 DEF RefundsCounted
<1>9. OneWrites'
  BY <1>1, <1>2 DEF OneWrites
<1>10. RoomLeft'
  <2>1. \A d \in BatchCalls : batchCall'[d].step \in {"reserving", "asking"} /\ ~batchCall'[d].raced =>
            Alike(d) /\ ~batchCall[d].raced
    BY <1>2 DEF Alike
  <2>2. (\A k \in 1..Len(batchRows) : batchRows'[k].amount = batchRows[k].amount) /\ batchRefunds' = batchRefunds
    BY <1>1
  <2> QED BY <1>1, <1>3, <1>4, <2>1, <2>2, RoomLeftStays
<1> QED BY <1>3, <1>4, <1>7, <1>8, <1>9, <1>10 DEF SInv

\* The order reads refunded, or the call stopped.
LEMMA CloseShareKeeps ==
  ASSUME SInv, NEW c \in BatchCalls, CloseMember(c) \/ StopShare(c)
  PROVE  SInv'
<1>1. ShareShape /\ ShareCallsFit
  BY DEF SInv
<1>2. /\ NoCall \in ShareCall /\ NoCall.step = "idle"
      /\ NoCall.row \in 0..Len(batchRows) /\ NoCall.answer \in 0..Len(batchRefunds)
  BY <1>1 DEF NoCall, ShareCall, ShareShape
<1>3. batchCall' = [batchCall EXCEPT ![c] = NoCall] /\ UNCHANGED <<batchRows, batchRefunds, batchEvents, batchDelivery, lost>>
  BY DEF CloseMember, StopShare
<1>4. refunded' \subseteq Members
  <2>1. CASE StopShare(c)
    BY <1>1, <2>1 DEF StopShare, ShareShape
  <2>2. CASE CloseMember(c)
    <3>1. batchCall[c].of \in Members
      BY <1>1, <2>2 DEF CloseMember, ShareCallsFit, ShareCallFits
    <3> QED BY <1>1, <2>2, <3>1 DEF CloseMember, ShareShape
  <2> QED BY <2>1, <2>2
<1> QED BY <1>2, <1>3, <1>4, CallOnlyKeeps

\* Stripe answers with a refund it made before, or with none.
LEMMA AnsweredKeeps ==
  ASSUME SInv, NEW c \in BatchCalls, batchCall[c].step = "asking",
         NEW r \in SameKey(c) \cup {0},
         batchCall' = [batchCall EXCEPT ![c].step = "settling", ![c].answer = r],
         UNCHANGED <<refunded, batchRows, batchRefunds, batchEvents, batchDelivery, lost>>
  PROVE  SInv'
<1>1. /\ ShareShape /\ ShareCallsFit /\ batchCall[c] \in ShareCall
      /\ DOMAIN batchRefunds = 1..Len(batchRefunds) /\ Len(batchRefunds) \in Nat
  BY Cash DEF SInv, ShareShape
<1> DEFINE x == batchCall'[c]
<1>2. r \in 0..Len(batchRefunds)
      /\ (r # 0 => batchRefunds[r].of = batchCall[c].of /\ batchRefunds[r].amount = batchCall[c].amount)
  BY <1>1 DEF SameKey
<1>3. /\ batchCall' = [batchCall EXCEPT ![c] = x] /\ x \in ShareCall
      /\ x.step = "settling" /\ x.answer = r /\ x.row = batchCall[c].row
      /\ x.of = batchCall[c].of /\ x.amount = batchCall[c].amount
  <2> DEFINE z == [batchCall[c] EXCEPT !.step = "settling", !.answer = r]
  <2>1. batchCall \in [BatchCalls -> ShareCall] /\ batchCall[c] \in ShareCall /\ r \in Nat
    BY <1>1, <1>2 DEF ShareShape
  <2>2. batchCall' = [batchCall EXCEPT ![c] = z]
    BY <1>1, <2>1
  <2>3. ASSUME NEW y \in ShareCall
        PROVE  LET w == [y EXCEPT !.step = "settling", !.answer = r] IN
               /\ w \in ShareCall /\ w.step = "settling" /\ w.answer = r /\ w.of = y.of
               /\ w.amount = y.amount /\ w.row = y.row /\ w.raced = y.raced
    BY <2>1 DEF ShareCall
  <2>4. /\ z \in ShareCall /\ z.step = "settling" /\ z.answer = r /\ z.of = batchCall[c].of
        /\ z.amount = batchCall[c].amount /\ z.row = batchCall[c].row /\ z.raced = batchCall[c].raced
    BY <2>1, <2>3
  <2> HIDE DEF z
  <2> QED BY <2>1, <2>2, <2>4
<1>5. batchCall[c].of \in Members /\ batchCall[c].row \in 0..Len(batchRows)
  BY <1>1 DEF ShareCallsFit, ShareCallFits
<1>6. refunded' \subseteq Members /\ UNCHANGED <<batchRows, batchRefunds, batchEvents, batchDelivery, lost>>
  BY <1>1 DEF ShareShape
<1> HIDE DEF x
<1>7. /\ x.step \in {"idle", "settling", "closing"} /\ x.of \in Members
      /\ x.row \in 0..Len(batchRows) /\ x.answer \in 0..Len(batchRefunds)
      /\ (x.answer # 0 => batchRefunds[x.answer].of = x.of /\ batchRefunds[x.answer].amount = x.amount)
  BY <1>2, <1>3, <1>5
<1> QED BY <1>3, <1>6, <1>7, CallOnlyKeeps

-----------------------------------------------------------------------------
\* Stripe makes the refund a call asks for.

\* What is asked for was given to nobody before.
LEMMA KeyIsNew ==
  ASSUME ShareShape, NEW c \in BatchCalls, SameKey(c) = {}
  PROVE  \A r \in 1..Len(batchRefunds) : ~(batchRefunds[r].of = batchCall[c].of /\ batchRefunds[r].amount = batchCall[c].amount)
<1>1. DOMAIN batchRefunds = 1..Len(batchRefunds)
  BY Cash
<1> QED BY <1>1 DEF SameKey

\* The call's row counts for it, or the order's refunds are no longer known.
LEMMA MadeForCall ==
  ASSUME SInv, NEW c \in BatchCalls, batchCall[c].step = "asking",
         SameKey(c) = {}, MadeFor(batchCall[c].of, batchCall[c].amount),
         UNCHANGED <<refunded, batchRows, batchDelivery>>,
         batchCall' \in [BatchCalls -> ShareCall], OthersAlike(c), NEW a \in {0, Len(batchRefunds) + 1},
         batchCall'[c].step = "settling", batchCall'[c].of = batchCall[c].of, batchCall'[c].amount = batchCall[c].amount,
         batchCall'[c].row = batchCall[c].row, batchCall'[c].answer = a,
         lost \subseteq lost', lost' \subseteq Members, a = 0 => batchCall[c].of \in lost',
         RoomLeft' /\ OneWrites'
  PROVE  SInv'
<1> DEFINE n == Len(batchRefunds)
           k == batchCall[c].row
<1>1. /\ ShareShape /\ ShareCallsFit /\ RefundsCounted
      /\ batchCall[c].of \in Members /\ batchCall[c].of \in Anyone /\ batchCall[c].amount \in Nat
      /\ k \in 1..Len(batchRows) /\ Len(batchRows) \in Nat /\ n \in Nat
      /\ batchRows[k].of = batchCall[c].of /\ batchRows[k].amount = batchCall[c].amount
      /\ batchRows[k].live /\ batchRows[k].refund = 0 /\ HoldsShare(c)
  BY DEF SInv, ShareCallsFit, ShareCallFits, HoldsShare, ShareShape, ShareCall, Anyone
<1>2. \A r \in 1..Len(batchRefunds) : ~(batchRefunds[r].of = batchCall[c].of /\ batchRefunds[r].amount = batchCall[c].amount)
  BY <1>1, KeyIsNew
<1>3. /\ batchRefunds' \in Seq(ShareRefund) /\ batchEvents' \in Seq(BOOLEAN) /\ Len(batchEvents') = Len(batchRefunds')
      /\ Len(batchRefunds') = n + 1 /\ RefundsKept
      /\ batchRefunds'[n + 1].of = batchCall[c].of /\ batchRefunds'[n + 1].amount = batchCall[c].amount
      /\ ShareRefundsFit'
  <2>1. PICK m, amount : m = batchCall[c].of /\ amount = batchCall[c].amount
    OBVIOUS
  <2>2. m \in Anyone /\ amount \in Nat /\ MadeFor(m, amount)
        /\ (m \in Members => \A r \in 1..Len(batchRefunds) : ~(batchRefunds[r].of = m /\ batchRefunds[r].amount = amount))
    BY <1>1, <1>2, <2>1
  <2>3. /\ batchRefunds' \in Seq(ShareRefund) /\ batchEvents' \in Seq(BOOLEAN) /\ Len(batchEvents') = Len(batchRefunds')
        /\ Len(batchRefunds') = n + 1 /\ RefundsKept
        /\ batchRefunds'[n + 1].of = m /\ batchRefunds'[n + 1].amount = amount
        /\ ShareRefundsFit'
    BY <2>2, ShareMadeEffects
  <2> QED BY <2>1, <2>3
<1>4. ShareShape'
  BY <1>1, <1>3 DEF ShareShape
<1>5. ShareEventsFit' /\ ShareRowsFit'
  BY <1>1, <1>2, <1>4, EventsFitMade
<1>6. RowsKept /\ Len(batchRows) <= Len(batchRows')
  BY <1>1 DEF RowsKept
<1>7. ShareCallsFit'
  <2>1. ShareCallFits(c)'
    BY <1>1, <1>3 DEF ShareCallFits, HoldsShare
  <2>2. \A j \in 1..Len(batchRows) : ~(HoldsShare(c) /\ j = batchCall[c].row) => batchRows'[j] = batchRows[j]
    OBVIOUS
  <2>3. HoldsShare(c)' => batchCall'[c].row > Len(batchRows) \/ (HoldsShare(c) /\ batchCall'[c].row = batchCall[c].row)
    BY <1>1
  <2> QED BY <1>3, <1>4, <1>6, <2>1, <2>2, <2>3, CallsFitStay
<1>8. RefundsCounted'
  <2>1. \A r \in 1..Len(batchRefunds) : batchRefunds'[r].of \in Members \ lost' =>
            \E j \in 1..Len(batchRows') : CountsFor(j, r)'
    BY <1>1, <1>3, <1>4, <1>6, CountedStay
  <2>2. ASSUME NEW r, r = n + 1, a = r PROVE \E j \in 1..Len(batchRows') : CountsFor(j, r)'
    <3>1. PICK j \in 1..Len(batchRows) : j = k
      BY <1>1
    <3>2. \A d \in BatchCalls : HoldsShare(d)' /\ batchCall'[d].row = j => d = c
      BY <1>1, <1>7, <3>1 DEF ShareCallsFit, HoldsShare
    <3>3. /\ batchRows'[j].of = batchRefunds'[r].of /\ batchRows'[j].amount = batchRefunds'[r].amount
          /\ batchRows'[j].live /\ batchRows'[j].refund = 0
      BY <1>1, <1>3, <2>2, <3>1
    <3>4. \A d \in BatchCalls : HoldsShare(d)' /\ batchCall'[d].row = j =>
             batchCall'[d].step = "settling" /\ batchCall'[d].answer = r
      BY <2>2, <3>2
    <3>5. CountsFor(j, r)'
      BY <3>3, <3>4 DEF CountsFor
    <3> QED BY <1>1, <3>5
  <2>3. ASSUME NEW r \in 1..Len(batchRefunds'), batchRefunds'[r].of \in Members \ lost'
        PROVE  \E j \in 1..Len(batchRows') : CountsFor(j, r)'
    <3>1. CASE r \in 1..n
      BY <2>1, <2>3, <3>1
    <3>2. CASE r = n + 1
      <4>1. a = n + 1
        BY <1>3, <2>3, <3>2
      <4> QED BY <2>2, <3>2, <4>1
    <3> QED BY <1>1, <1>3, <3>1, <3>2
  <2> QED BY <2>3 DEF RefundsCounted
<1> QED BY <1>3, <1>4, <1>5, <1>7, <1>8 DEF SInv

\* What one of the calls nothing raced is given, it no longer asks for.
LEMMA RoomGiven ==
  ASSUME SInv, NEW c \in BatchCalls, batchCall[c].step = "asking", ~batchCall[c].raced,
         SameKey(c) = {}, MadeFor(batchCall[c].of, batchCall[c].amount), batchRows' = batchRows,
         \A d \in BatchCalls \ {c} : batchCall'[d] = batchCall[d], batchCall'[c].step = "settling",
         NEW Z, NEW most, most \in Nat, RoomOn(Z, most)
  PROVE  RoomOn(Z, most)'
<1> DEFINE A == {batchCall[d].row : d \in FreshOn(Z)}
           A1 == {batchCall'[d].row : d \in FreshOn(Z)'}
           k == batchCall[c].row
           rest == A \ {k}
<1>1. /\ ShareShape /\ ShareCallsFit
      /\ batchCall[c].of \in Members /\ batchCall[c].of \in Anyone /\ batchCall[c].amount \in Nat
      /\ k \in 1..Len(batchRows) /\ batchRows[k].amount = batchCall[c].amount /\ HoldsShare(c)
      /\ Cashed(batchRows) /\ Len(batchRefunds) \in Nat
  BY Cash DEF SInv, ShareCallsFit, ShareCallFits, HoldsShare, ShareShape, ShareCall, Anyone
<1>2. /\ RefundsKept /\ Len(batchRefunds') = Len(batchRefunds) + 1 /\ batchRefunds' \in Seq(ShareRefund)
      /\ GivenOn(Z)' = GivenOn(Z) + IF batchCall[c].of \in Z THEN batchCall[c].amount ELSE 0
  BY <1>1, KeyIsNew, ShareMadeEffects
<1>3. \A d \in BatchCalls \ {c} : SameKey(d)' = {} => SameKey(d) = {}
  <2> SUFFICES ASSUME NEW d \in BatchCalls \ {c}, NEW r \in SameKey(d) PROVE SameKey(d)' # {}
    OBVIOUS
  <2>1. r \in 1..Len(batchRefunds) /\ batchRefunds[r].of = batchCall[d].of /\ batchRefunds[r].amount = batchCall[d].amount
    BY <1>1, Cash DEF SameKey
  <2>2. r \in DOMAIN batchRefunds' /\ batchRefunds'[r] = batchRefunds[r]
    BY <1>1, <1>2, <2>1, RefundsCash DEF RefundsKept
  <2> QED BY <2>1, <2>2 DEF SameKey
<1>4. \A d \in FreshOn(Z)' : d \in BatchCalls \ {c} /\ d \in FreshOn(Z) /\ batchCall'[d].row = batchCall[d].row
  <2>1. \A d \in FreshOn(Z)' : d \in BatchCalls /\ d # c
    BY DEF FreshOn
  <2> QED BY <1>3, <2>1 DEF FreshOn
<1>5. \A d \in FreshOn(Z) : d \in BatchCalls /\ HoldsShare(d)
  BY DEF FreshOn, HoldsShare
<1>6. \A d \in WritingOn(Z)' : /\ d \in WritingOn(Z) /\ batchCall'[d].amount = batchCall[d].amount
                               /\ batchCall[d].amount \in Nat
  BY <1>1 DEF WritingOn, ShareShape, ShareCall
<1>7. \A x \in A1 : x \in rest
  <2>1. \A d \in FreshOn(Z)' : batchCall[d].row # k
    BY <1>1, <1>4, <1>5 DEF ShareCallsFit
  <2> QED BY <1>4, <2>1
<1>8. Cents(batchRows, A1) <= Cents(batchRows, rest)
  <2>1. \A x \in 1..Len(batchRows) : batchRows[x].amount \in Nat
    BY <1>1 DEF Cashed
  <2> HIDE DEF A1, rest
  <2>2. \A x \in 1..Len(batchRows) : x \in A1 =>
          x \in 1..Len(batchRows) /\ x \in rest /\ batchRows[x].amount <= batchRows[x].amount
    BY <1>7, <2>1
  <2> QED BY <1>1, <2>2, CentsMono
<1>9. AskedOn(Z) = Cents(batchRows, A) /\ AskedOn(Z)' = Cents(batchRows, A1)
  BY DEF AskedOn
<1>10. batchCall[c].of \in Z => Cents(batchRows, A) = Cents(batchRows, rest) + batchCall[c].amount
  <2> SUFFICES ASSUME batchCall[c].of \in Z PROVE Cents(batchRows, A) = Cents(batchRows, rest) + batchCall[c].amount
    OBVIOUS
  <2>1. c \in FreshOn(Z)
    BY DEF FreshOn
  <2>2. A = rest \cup {k} /\ rest \cap {k} = {}
    BY <2>1
  <2> HIDE DEF A, rest
  <2>3. Cents(batchRows, rest \cup {k}) = Cents(batchRows, rest) + Cents(batchRows, {k})
    BY <1>1, <2>2, CentsApart
  <2>4. Cents(batchRows, {k}) = batchRows[k].amount
    BY <1>1, CentsOne
  <2> QED BY <1>1, <2>2, <2>3, <2>4
<1>11. Cents(batchRows, rest) <= Cents(batchRows, A)
  <2>1. \A x \in 1..Len(batchRows) : batchRows[x].amount \in Nat
    BY <1>1 DEF Cashed
  <2>2. \A x \in 1..Len(batchRows) : x \in rest =>
          x \in 1..Len(batchRows) /\ x \in A /\ batchRows[x].amount <= batchRows[x].amount
    BY <2>1
  <2> HIDE DEF A, rest
  <2> QED BY <1>1, <2>2, CentsMono
<1>12. /\ Cents(batchRows, A) \in Nat /\ Cents(batchRows, A1) \in Nat /\ Cents(batchRows, rest) \in Nat
       /\ GivenOn(Z) \in Nat
  BY <1>1, CentsTotal, SumTypes
<1> HIDE DEF A, A1, rest
<1>13. GivenOn(Z)' + AskedOn(Z)' <= GivenOn(Z) + AskedOn(Z)
       /\ GivenOn(Z)' + AskedOn(Z)' \in Nat /\ GivenOn(Z) + AskedOn(Z) \in Nat
  <2>1. CASE batchCall[c].of \in Z
    <3>1. GivenOn(Z)' = GivenOn(Z) + batchCall[c].amount /\ batchCall[c].amount \in Nat
      BY <2>1, <1>1, <1>2
    <3>2. Cents(batchRows, A) = Cents(batchRows, rest) + batchCall[c].amount
      BY <2>1, <1>10
    <3> QED BY <3>1, <3>2, <1>8, <1>9, <1>12
  <2>2. CASE batchCall[c].of \notin Z
    <3>1. GivenOn(Z)' = GivenOn(Z)
      BY <2>2, <1>2, <1>12
    <3> QED BY <3>1, <1>8, <1>9, <1>11, <1>12
  <2> QED BY <2>1, <2>2
<1>14. FreshOn(Z)' # {} => FreshOn(Z) # {}
  BY <1>4
<1> QED BY <1>6, <1>13, <1>14 DEF RoomOn

\* Asking makes a refund behind the row of the call, or answers with one there is.
LEMMA AskShareKeeps ==
  ASSUME SInv, NEW c \in BatchCalls, AskShare(c)
  PROVE  SInv'
<1> DEFINE n == Len(batchRefunds)
           racing(r) == [Raced(Unasked) EXCEPT ![c].step = "settling", ![c].answer = r]
           Told(r) == batchCall' = [batchCall EXCEPT ![c].step = "settling", ![c].answer = r]
<1>1. /\ ShareShape /\ ShareCallsFit /\ RoomLeft /\ OneWrites /\ n \in Nat
      /\ batchCall \in [BatchCalls -> ShareCall] /\ batchCall[c] \in ShareCall /\ lost \subseteq Members
      /\ batchCall[c].step = "asking" /\ batchCall[c].of \in Members
      /\ UNCHANGED <<refunded, batchRows, batchDelivery>>
  BY DEF SInv, ShareShape, AskShare, ShareCallsFit, ShareCallFits
<1>2. \/ \E r \in SameKey(c) \cup {0} : Told(r) /\ UNCHANGED <<batchRefunds, batchEvents, lost>>
      \/ /\ SameKey(c) = {} /\ MadeFor(batchCall[c].of, batchCall[c].amount)
         /\ \/ batchCall[c].raced /\ batchCall' = racing(n + 1) /\ lost' = lost
            \/ ~batchCall[c].raced /\ Told(n + 1) /\ lost' = lost
            \/ batchCall' = racing(0) /\ lost' = lost \cup {batchCall[c].of}
  BY DEF AskShare
<1>3. ASSUME NEW r \in SameKey(c) \cup {0}, Told(r),
             UNCHANGED <<batchRefunds, batchEvents, lost>>
      PROVE  SInv'
  <2>1. UNCHANGED <<refunded, batchRows, batchRefunds, batchEvents, batchDelivery, lost>>
    BY <1>1, <1>3
  <2> QED BY <1>1, <1>3, <2>1, AnsweredKeeps
<1>4. ASSUME SameKey(c) = {}, MadeFor(batchCall[c].of, batchCall[c].amount),
             ~batchCall[c].raced, Told(n + 1),
             lost' = lost
      PROVE  SInv'
  <2> DEFINE z == [batchCall[c] EXCEPT !.step = "settling", !.answer = n + 1]
  <2>1. batchCall' = [batchCall EXCEPT ![c] = z]
    BY <1>1, <1>4
  <2>2. /\ z \in ShareCall /\ z.step = "settling" /\ z.answer = n + 1 /\ z.of = batchCall[c].of
        /\ z.amount = batchCall[c].amount /\ z.row = batchCall[c].row
    <3>1. ASSUME NEW y \in ShareCall, NEW q \in Nat
          PROVE  LET w == [y EXCEPT !.step = "settling", !.answer = q] IN
                 /\ w \in ShareCall /\ w.step = "settling" /\ w.answer = q /\ w.of = y.of
                 /\ w.amount = y.amount /\ w.row = y.row
      BY DEF ShareCall
    <3>2. n + 1 \in Nat
      BY <1>1
    <3> HIDE DEF n
    <3> QED BY <1>1, <3>1, <3>2
  <2> HIDE DEF z
  <2>3. /\ batchCall' \in [BatchCalls -> ShareCall] /\ batchCall'[c] = z
        /\ \A d \in BatchCalls \ {c} : batchCall'[d] = batchCall[d]
    BY <1>1, <2>1, <2>2
  <2>4. OthersAlike(c)
    BY <2>3 DEF OthersAlike, Alike
  <2>5. OneWrites'
    BY <1>1, <2>2, <2>3 DEF OneWrites
  <2>6. Charge \in Nat /\ Share \in Nat /\ Charge' = Charge
    BY ChargeType DEF Charge
  <2>7. ASSUME NEW Z, NEW most, most \in Nat, RoomOn(Z, most) PROVE RoomOn(Z, most)'
    <3>1. batchCall'[c].step = "settling" /\ batchRows' = batchRows
      BY <1>1, <2>2, <2>3
    <3> QED BY <1>1, <1>4, <2>3, <2>7, <3>1, RoomGiven
  <2>8. RoomOn(Anyone, Charge)' /\ \A m \in Members \ lost' : RoomOn({m}, Share)'
    BY <1>1, <1>4, <2>6, <2>7 DEF RoomLeft
  <2>9. RoomLeft'
    BY <2>8 DEF RoomLeft
  <2>10. n + 1 \in {0, Len(batchRefunds) + 1} /\ (n + 1 = 0 => batchCall[c].of \in lost')
         /\ lost \subseteq lost' /\ lost' \subseteq Members
    BY <1>1, <1>4
  <2> QED BY <1>1, <1>4, <2>2, <2>3, <2>4, <2>5, <2>9, <2>10, MadeForCall
<1>5. ASSUME SameKey(c) = {}, MadeFor(batchCall[c].of, batchCall[c].amount),
             NEW r \in {0, n + 1}, batchCall' = racing(r),
             lost \subseteq lost', lost' \subseteq Members, r = 0 => batchCall[c].of \in lost'
      PROVE  SInv'
  <2> DEFINE g == Raced(Unasked)
             z == [g[c] EXCEPT !.step = "settling", !.answer = r]
  <2>1. /\ g \in [BatchCalls -> ShareCall]
        /\ \A d \in BatchCalls :
              /\ g[d].step = batchCall[d].step /\ g[d].of = batchCall[d].of /\ g[d].amount = batchCall[d].amount
              /\ g[d].row = batchCall[d].row /\ g[d].answer = batchCall[d].answer
              /\ g[d].raced <=> batchCall[d].raced \/ d \in Unasked
    <3>1. Unasked \in SUBSET BatchCalls
      BY DEF Unasked
    <3> QED BY <1>1, <3>1, RacedEffects
  <2>2. \A d \in BatchCalls : d \in Unasked <=> batchCall[d].step \in {"reserving", "asking"}
    BY DEF Unasked
  <2> HIDE DEF g
  <2>3. batchCall' = [g EXCEPT ![c] = z]
    BY <1>5, <2>1 DEF g
  <2>4. /\ z \in ShareCall /\ z.step = "settling" /\ z.answer = r /\ z.of = batchCall[c].of
        /\ z.amount = batchCall[c].amount /\ z.row = batchCall[c].row
    <3>1. ASSUME NEW y \in ShareCall, NEW q \in Nat
          PROVE  LET w == [y EXCEPT !.step = "settling", !.answer = q] IN
                 /\ w \in ShareCall /\ w.step = "settling" /\ w.answer = q /\ w.of = y.of
                 /\ w.amount = y.amount /\ w.row = y.row
      BY DEF ShareCall
    <3>2. r \in Nat /\ g[c] \in ShareCall
      BY <1>1, <1>5, <2>1
    <3>3. /\ z \in ShareCall /\ z.step = "settling" /\ z.answer = r /\ z.of = g[c].of
          /\ z.amount = g[c].amount /\ z.row = g[c].row
      BY <3>1, <3>2
    <3> QED BY <2>1, <3>3
  <2> HIDE DEF z
  <2>5. /\ batchCall' \in [BatchCalls -> ShareCall] /\ batchCall'[c] = z
        /\ \A d \in BatchCalls \ {c} : batchCall'[d] = g[d]
    BY <2>1, <2>3, <2>4
  <2>6. OthersAlike(c)
    BY <2>1, <2>5 DEF OthersAlike, Alike
  <2>7. \A d \in BatchCalls : batchCall'[d].step \in {"reserving", "asking"} => batchCall'[d].raced
    BY <2>1, <2>2, <2>4, <2>5
  <2>8. RoomLeft' /\ OneWrites'
    BY <2>7, RoomLeftRaced
  <2> QED BY <1>1, <1>5, <2>4, <2>5, <2>6, <2>8, MadeForCall
<1>6. n + 1 \in {0, n + 1} /\ 0 \in {0, n + 1} /\ n + 1 # 0
  BY <1>1
<1>7. CASE \E r \in SameKey(c) \cup {0} : Told(r) /\ UNCHANGED <<batchRefunds, batchEvents, lost>>
  BY <1>3, <1>7
<1>8. CASE /\ SameKey(c) = {} /\ MadeFor(batchCall[c].of, batchCall[c].amount)
           /\ batchCall[c].raced /\ batchCall' = racing(n + 1) /\ lost' = lost
  <2> HIDE DEF racing
  <2> QED BY <1>1, <1>5, <1>6, <1>8
<1>9. CASE /\ SameKey(c) = {} /\ MadeFor(batchCall[c].of, batchCall[c].amount)
           /\ ~batchCall[c].raced /\ Told(n + 1) /\ lost' = lost
  <2> HIDE DEF Told
  <2> QED BY <1>4, <1>9
<1>10. CASE /\ SameKey(c) = {} /\ MadeFor(batchCall[c].of, batchCall[c].amount)
            /\ batchCall' = racing(0) /\ lost' = lost \cup {batchCall[c].of}
  <2> HIDE DEF racing
  <2> QED BY <1>1, <1>5, <1>6, <1>10
<1> HIDE DEF racing, Told
<1> QED BY <1>2, <1>7, <1>8, <1>9, <1>10

-----------------------------------------------------------------------------
\* The answer is written down.

\* A row that falls has no refund that only it stands for.
LEMMA SettleShareKeeps ==
  ASSUME SInv, NEW c \in BatchCalls, SettleShare(c)
  PROVE  SInv'
<1>0. /\ ShareShape /\ ShareCallsFit /\ ShareRowsFit /\ RefundsCounted /\ OneWrites
      /\ batchCall \in [BatchCalls -> ShareCall] /\ batchCall[c] \in ShareCall /\ batchCall[c].step = "settling"
      /\ UNCHANGED <<refunded, batchRefunds, batchEvents, batchDelivery, lost>>
      /\ UNCHANGED <<batchRefunds, batchEvents, batchDelivery>>
      /\ Len(batchRefunds) \in Nat /\ Len(batchRows) \in Nat /\ batchRows \in Seq(ShareRow)
      /\ DOMAIN batchRows = 1..Len(batchRows)
  BY Cash DEF SInv, ShareShape, SettleShare
<1>1. PICK r, k : r = batchCall[c].answer /\ k = batchCall[c].row
  OBVIOUS
<1>2. /\ k \in 1..Len(batchRows) /\ batchRows[k] \in ShareRow /\ batchRows[k].of = batchCall[c].of
      /\ batchRows[k].amount = batchCall[c].amount
      /\ batchRows[k].live /\ batchRows[k].refund = 0 /\ HoldsShare(c) /\ batchCall[c].of \in Members
      /\ r \in 0..Len(batchRefunds)
      /\ (r # 0 => batchRefunds[r].of = batchCall[c].of /\ batchRefunds[r].amount = batchCall[c].amount)
  BY <1>0, <1>1, Cash DEF ShareCallsFit, ShareCallFits, HoldsShare
<1> DEFINE settled == r # 0 /\ \A j \in 1..Len(batchRows) : batchRows[j].refund # r
           y == IF settled THEN [batchRows[k] EXCEPT !.refund = r] ELSE [batchRows[k] EXCEPT !.live = FALSE]
           z == IF settled THEN [batchCall[c] EXCEPT !.step = "closing"] ELSE NoCall
<1>3. batchRows' = [batchRows EXCEPT ![k] = y] /\ batchCall' = [batchCall EXCEPT ![c] = z]
  BY <1>0, <1>1, <1>2 DEF SettleShare
<1>4. /\ y \in ShareRow /\ y.of = batchRows[k].of /\ y.amount = batchRows[k].amount
      /\ settled => y.live /\ y.refund = r
      /\ ~settled => y.refund = 0
  <2>1. ASSUME NEW w \in ShareRow, NEW q \in Nat
        PROVE  /\ LET x == [w EXCEPT !.refund = q] IN
                  x \in ShareRow /\ x.of = w.of /\ x.amount = w.amount /\ x.live = w.live /\ x.refund = q
               /\ LET x == [w EXCEPT !.live = FALSE] IN
                  x \in ShareRow /\ x.of = w.of /\ x.amount = w.amount /\ x.refund = w.refund
    BY DEF ShareRow
  <2>2. r \in Nat
    BY <1>0, <1>2
  <2> QED BY <2>1, <2>2, <1>2
<1>5. /\ z \in ShareCall /\ z.step \in {"closing", "idle"} /\ z.row \in 0..Len(batchRows)
      /\ z.answer \in 0..Len(batchRefunds) /\ (z.step # "idle" => z.of \in Members)
  <2>1. batchCall[c].row \in 0..Len(batchRows) /\ batchCall[c].answer \in 0..Len(batchRefunds)
    BY <1>0 DEF ShareCallsFit, ShareCallFits
  <2>2. CASE settled
    <3>1. ASSUME NEW w \in ShareCall
          PROVE  LET x == [w EXCEPT !.step = "closing"] IN
                 x \in ShareCall /\ x.step = "closing" /\ x.row = w.row /\ x.answer = w.answer
                 /\ x.of = w.of
      BY DEF ShareCall
    <3> QED BY <1>0, <1>2, <2>1, <2>2, <3>1
  <2>3. CASE ~settled
    BY <1>0, <2>3 DEF NoCall, ShareCall
  <2> QED BY <2>2, <2>3
<1> HIDE DEF y, z
<1>6. /\ batchRows' \in Seq(ShareRow) /\ Len(batchRows') = Len(batchRows) /\ batchRows'[k] = y
      /\ \A j \in 1..Len(batchRows) : j # k => batchRows'[j] = batchRows[j]
  BY <1>0, <1>2, <1>3, <1>4, Changed
<1>7. /\ batchCall' \in [BatchCalls -> ShareCall] /\ batchCall'[c] = z
      /\ \A d \in BatchCalls \ {c} : batchCall'[d] = batchCall[d]
  BY <1>0, <1>3, <1>5
<1>8. ShareShape' /\ OthersAlike(c) /\ RefundsKept /\ Len(batchRows) <= Len(batchRows') /\ ~HoldsShare(c)'
  BY <1>0, <1>5, <1>6, <1>7 DEF ShareShape, OthersAlike, Alike, RefundsKept, HoldsShare
<1>9. ShareEventsFit' /\ ShareRefundsFit'
  <2>1. OnSubject' = OnSubject
    <3>1. \A j \in 1..Len(batchRows) : /\ batchRows'[j].amount = batchRows[j].amount /\ batchRows'[j].of = batchRows[j].of
                                       /\ batchRows[j].of = NoMember => batchRows'[j].live = batchRows[j].live
      BY <1>2, <1>4, <1>6, ChargeType
    <3>2. \A j \in 1..Len(batchRows') : j > Len(batchRows) => batchRows'[j].of # NoMember
      BY <1>0, <1>6
    <3> QED BY <1>0, <1>8, <3>1, <3>2, RecordedStays
  <2> QED BY <1>0, <2>1, EventsFitStay
<1>10. ShareCallsFit'
  <2>1. ShareCallFits(c)'
    BY <1>0, <1>5, <1>6, <1>7, <1>8 DEF ShareCallFits, HoldsShare
  <2>2. \A j \in 1..Len(batchRows) : ~(HoldsShare(c) /\ j = batchCall[c].row) => batchRows'[j] = batchRows[j]
    BY <1>1, <1>2, <1>6
  <2> QED BY <1>8, <2>1, <2>2, CallsFitStay
<1>11. ShareRowsFit'
  <2> SUFFICES ASSUME NEW j \in 1..Len(batchRows), batchRows'[j].refund # 0
               PROVE  /\ batchRows'[j].refund \in 1..Len(batchRefunds) /\ batchRows'[j].live
                      /\ batchRows'[j].of = batchRefunds[batchRows'[j].refund].of
                      /\ batchRows'[j].amount = batchRefunds[batchRows'[j].refund].amount
                      /\ \A i \in 1..Len(batchRows) : batchRows'[i].refund = batchRows'[j].refund => i = j
    BY <1>0, <1>6 DEF ShareRowsFit
  <2>1. CASE settled
    <3>1. \A i \in 1..Len(batchRows) : batchRows'[i].refund = IF i = k THEN r ELSE batchRows[i].refund
      BY <1>4, <1>6, <2>1
    <3>2. \A i \in 1..Len(batchRows) : batchRows[i].refund # r
      BY <2>1
    <3>3. CASE j = k
      BY <1>2, <1>4, <1>6, <2>1, <3>1, <3>2, <3>3
    <3>4. CASE j # k
      BY <1>0, <1>6, <3>1, <3>2, <3>4 DEF ShareRowsFit
    <3> QED BY <3>3, <3>4
  <2>2. CASE ~settled
    <3>1. batchRows'[k].refund = 0 /\ j # k
      BY <1>4, <1>6, <2>2
    <3> QED BY <1>0, <1>2, <1>6, <3>1 DEF ShareRowsFit
  <2> QED BY <2>1, <2>2
<1>12. RefundsCounted'
  <2> SUFFICES ASSUME NEW q \in 1..Len(batchRefunds), batchRefunds[q].of \in Members \ lost
               PROVE  \E j \in 1..Len(batchRows) : CountsFor(j, q)'
    BY <1>0, <1>6 DEF RefundsCounted
  <2>1. PICK j \in 1..Len(batchRows) : CountsFor(j, q)
    BY <1>0 DEF RefundsCounted
  <2>2. \A d \in BatchCalls : HoldsShare(d)' => d # c /\ batchCall'[d] = batchCall[d] /\ HoldsShare(d)
    BY <1>7, <1>8 DEF HoldsShare
  <2>3. ASSUME NEW i \in 1..Len(batchRows), i # k, CountsFor(i, q) PROVE CountsFor(i, q)'
    BY <1>0, <1>6, <2>2, <2>3, CountsStays
  <2>4. CASE j # k
    BY <2>1, <2>3, <2>4
  <2>5. CASE j = k
    <3>1. q = r /\ r # 0
      BY <1>0, <1>1, <1>2, <2>1, <2>5 DEF CountsFor
    <3>2. CASE settled
      <4>1. CountsFor(j, q)'
        BY <1>0, <1>2, <1>4, <1>6, <2>5, <3>1, <3>2 DEF CountsFor
      <4> QED BY <4>1
    <3>3. CASE ~settled
      <4>1. PICK i \in 1..Len(batchRows) : batchRows[i].refund = r
        BY <3>1, <3>3
      <4>2. i # k /\ CountsFor(i, q)
        BY <1>0, <1>2, <3>1, <4>1 DEF ShareRowsFit, CountsFor
      <4> QED BY <2>3, <4>2
    <3> QED BY <3>2, <3>3
  <2> QED BY <2>4, <2>5
<1>13. OneWrites'
  BY <1>0, <1>5, <1>7 DEF OneWrites
<1>14. RoomLeft'
  <2>1. \A d \in BatchCalls : batchCall'[d].step \in {"reserving", "asking"} /\ ~batchCall'[d].raced =>
            Alike(d) /\ ~batchCall[d].raced
    BY <1>5, <1>7 DEF Alike
  <2>2. (\A j \in 1..Len(batchRows) : batchRows'[j].amount = batchRows[j].amount)
        /\ batchRefunds' = batchRefunds /\ lost \subseteq lost'
    BY <1>0, <1>4, <1>6
  <2> QED BY <1>8, <2>1, <2>2, RoomLeftStays
<1> QED BY <1>8, <1>9, <1>10, <1>11, <1>12, <1>13, <1>14 DEF SInv

-----------------------------------------------------------------------------
\* An event is delivered, and recorded.

\* The calls and what they rely on stand where no call moves.
LEMMA CallsStand ==
  ASSUME SInv, ShareShape', UNCHANGED <<batchRefunds, batchCall, lost>>, RowsKept
  PROVE  ShareCallsFit' /\ RefundsCounted' /\ RoomLeft' /\ OneWrites'
<1>1. /\ ShareShape /\ ShareCallsFit /\ RefundsCounted /\ OneWrites
      /\ Len(batchRefunds) \in Nat /\ Len(batchRows) \in Nat /\ Len(batchRows') \in Nat
      /\ Len(batchRows) <= Len(batchRows') /\ RefundsKept /\ \A d \in BatchCalls : Alike(d)
  BY DEF SInv, ShareShape, RefundsKept, RowsKept, Alike
<1>2. ShareCallsFit'
  <2>1. \A d \in BatchCalls : ShareCallFits(d)'
    <3> SUFFICES ASSUME NEW d \in BatchCalls PROVE ShareCallFits(d)'
      OBVIOUS
    <3>1. HoldsShare(d) => batchRows'[batchCall[d].row] = batchRows[batchCall[d].row]
      BY <1>1 DEF ShareCallsFit, ShareCallFits, RowsKept
    <3> QED BY <1>1, <3>1, CallFitStays DEF ShareCallsFit
  <2> QED BY <1>1, <2>1 DEF ShareCallsFit, HoldsShare
<1>3. RefundsCounted'
  <2> SUFFICES ASSUME NEW r \in 1..Len(batchRefunds), batchRefunds[r].of \in Members \ lost
               PROVE  \E k \in 1..Len(batchRows') : CountsFor(k, r)'
    BY DEF RefundsCounted
  <2>1. PICK k \in 1..Len(batchRows) : CountsFor(k, r)
    BY <1>1 DEF RefundsCounted
  <2>2. batchRows'[k] = batchRows[k] /\ k \in 1..Len(batchRows') /\ batchRefunds'[r] = batchRefunds[r]
    BY <1>1 DEF RowsKept
  <2>3. CountsFor(k, r)'
    BY <2>1, <2>2, CountsStays DEF HoldsShare
  <2> QED BY <2>2, <2>3
<1>4. OneWrites'
  BY <1>1 DEF OneWrites
<1>5. RoomLeft'
  <2>1. \A k \in 1..Len(batchRows) : batchRows'[k].amount = batchRows[k].amount
    BY DEF RowsKept
  <2>2. \A d \in BatchCalls : batchCall'[d].step \in {"reserving", "asking"} /\ ~batchCall'[d].raced =>
            Alike(d) /\ ~batchCall[d].raced
    BY <1>1
  <2> QED BY <1>1, <2>1, <2>2, RoomLeftStays
<1> QED BY <1>2, <1>3, <1>4, <1>5

\* What a delivery reads fits its event.
LEMMA DeliverShareKeeps ==
  ASSUME SInv, NEW d \in BatchDeliveries, NEW e \in DOMAIN batchEvents, DeliverTotal(d, e)
  PROVE  SInv'
<1> DEFINE x == [step |-> "applying", event |-> e, total |-> batchRefunds[e].total, prior |-> Prior]
<1>1. /\ ShareShape /\ ShareRowsFit /\ ShareRefundsFit /\ ShareEventsFit
      /\ batchDelivery' = [batchDelivery EXCEPT ![d] = x]
      /\ UNCHANGED <<refunded, batchRows, batchRefunds, batchEvents, batchCall, lost>>
      /\ UNCHANGED <<batchRefunds, batchCall, lost>>
      /\ e \in 1..Len(batchEvents) /\ Len(batchEvents) \in Nat /\ Len(batchRows) \in Nat
      /\ batchRefunds[e] \in ShareRefund /\ OnSubject \in Nat
  BY Cash, SumTypes DEF SInv, ShareShape, DeliverTotal
<1>2. /\ x \in ShareDelivery /\ x.event = e /\ x.total = batchRefunds[e].total
  BY <1>1 DEF ShareDelivery, ShareRefund, Prior
<1> HIDE DEF x
<1>3. /\ batchDelivery' \in [BatchDeliveries -> ShareDelivery] /\ batchDelivery'[d] = x
      /\ \A c \in BatchDeliveries \ {d} : batchDelivery'[c] = batchDelivery[c]
  BY <1>1, <1>2 DEF ShareShape
<1>4. ShareShape'
  BY <1>1, <1>3 DEF ShareShape
<1>5. ShareCallsFit' /\ RefundsCounted' /\ RoomLeft' /\ OneWrites'
  <2>1. RowsKept
    BY <1>1 DEF RowsKept
  <2> QED BY <1>1, <1>4, <2>1, CallsStand
<1>6. Returned' = Returned /\ OnSubject' = OnSubject /\ Charge' = Charge
  BY <1>1 DEF Returned, Charge, OnSubject, BackTo, Live
<1>7. ShareRowsFit' /\ ShareRefundsFit'
  BY <1>1, <1>6 DEF ShareRowsFit, ShareRefundsFit
<1>8. ShareEventsFit'
  BY <1>1, <1>2, <1>3, <1>6 DEF ShareEventsFit
<1> QED BY <1>4, <1>5, <1>7, <1>8 DEF SInv

\* Recording the difference brings the submission's own rows to the event's total.
LEMMA ApplyShareKeeps ==
  ASSUME SInv, NEW d \in BatchDeliveries, ApplyTotal(d)
  PROVE  SInv'
<1>1. /\ ShareShape /\ ShareRowsFit /\ ShareRefundsFit /\ ShareEventsFit
      /\ batchDelivery[d].step = "applying" /\ batchDelivery' = [batchDelivery EXCEPT ![d] = NoDelivery]
      /\ UNCHANGED <<refunded, batchRefunds, batchCall, lost>> /\ UNCHANGED <<batchRefunds, batchCall, lost>>
      /\ Len(batchEvents) \in Nat /\ Len(batchRows) \in Nat /\ Len(batchEvents) = Len(batchRefunds)
      /\ batchRows \in Seq(ShareRow) /\ batchEvents \in Seq(BOOLEAN) /\ batchDelivery \in [BatchDeliveries -> ShareDelivery]
      /\ OnSubject \in Nat /\ Returned \in Nat
      /\ \A r \in 1..Len(batchRefunds) : batchRefunds[r].total \in Nat
  BY Cash, SumTypes DEF SInv, ShareShape, ApplyTotal, ShareRefund
<1>2. PICK e : e = batchDelivery[d].event
  OBVIOUS
<1>3. e \in 1..Len(batchEvents) /\ batchDelivery[d].total = batchRefunds[e].total /\ batchDelivery[d].prior \in Nat
  BY <1>1, <1>2 DEF ShareEventsFit, ShareDelivery
<1>4. /\ batchDelivery' \in [BatchDeliveries -> ShareDelivery] /\ batchDelivery'[d] = NoDelivery
      /\ \A c \in BatchDeliveries \ {d} : batchDelivery'[c] = batchDelivery[c]
      /\ NoDelivery.step = "idle" /\ NoDelivery.event = 0
  <2>1. NoDelivery \in ShareDelivery /\ NoDelivery.step = "idle" /\ NoDelivery.event = 0
    BY DEF NoDelivery, ShareDelivery
  <2> QED BY <1>1, <2>1
<1>5. /\ Returned' = Returned /\ Charge' = Charge
  BY <1>1 DEF Returned, Charge
<1>6. ShareRefundsFit'
  BY <1>1, <1>5 DEF ShareRefundsFit
<1>7. ASSUME UNCHANGED <<batchRows, batchEvents>> PROVE SInv'
  <2>1. ShareShape' /\ RowsKept
    BY <1>1, <1>4, <1>7 DEF ShareShape, RowsKept
  <2>2. OnSubject' = OnSubject /\ ShareRowsFit'
    BY <1>1, <1>7 DEF OnSubject, BackTo, Live, ShareRowsFit
  <2>3. ShareEventsFit'
    BY <1>1, <1>4, <1>5, <1>7, <2>2 DEF ShareEventsFit
  <2> QED BY <1>1, <1>6, <2>1, <2>2, <2>3, CallsStand DEF SInv
<1>8. ASSUME ~StaleTotal(d), batchEvents' = [batchEvents EXCEPT ![e] = TRUE],
             batchRows' = IF Less(batchDelivery[d].total, batchDelivery[d].prior) = 0 THEN batchRows
                          ELSE Append(batchRows, [of |-> NoMember, live |-> TRUE, refund |-> 0,
                                                  amount |-> Less(batchDelivery[d].total, batchDelivery[d].prior)])
      PROVE  SInv'
  <2>1. PICK delta : delta = Less(batchDelivery[d].total, batchDelivery[d].prior)
    OBVIOUS
  <2> DEFINE x == [of |-> NoMember, live |-> TRUE, refund |-> 0, amount |-> delta]
             n == Len(batchRows)
  <2>2. /\ batchDelivery[d].prior = OnSubject /\ delta \in Nat
        /\ batchRefunds[e].total <= OnSubject + delta
        /\ delta # 0 => OnSubject + delta = batchRefunds[e].total
    <3>1. batchDelivery[d].prior = OnSubject
      BY <1>8 DEF StaleTotal, Prior
    <3>2. PICK a, b : a = batchRefunds[e].total /\ b = OnSubject
      OBVIOUS
    <3>3. a \in Nat /\ b \in Nat /\ batchDelivery[d].total = a /\ batchDelivery[d].prior = b
      BY <1>1, <1>3, <3>1, <3>2
    <3>4. delta = IF a > b THEN a - b ELSE 0
      BY <2>1, <3>3 DEF Less
    <3>5. delta \in Nat /\ a <= b + delta /\ (delta # 0 => b + delta = a)
      BY <3>3, <3>4
    <3> QED BY <3>1, <3>2, <3>5
  <2>3. x \in ShareRow /\ x.of = NoMember /\ x.amount = delta /\ x.live /\ x.refund = 0
    BY <2>2 DEF ShareRow
  <2>4. batchRows' = IF delta = 0 THEN batchRows ELSE Append(batchRows, x)
    BY <1>8, <2>1
  <2> HIDE DEF x
  <2>5. /\ batchRows' \in Seq(ShareRow) /\ Len(batchRows') \in Nat /\ n <= Len(batchRows') /\ Len(batchRows') <= n + 1
        /\ \A k \in 1..n : batchRows'[k] = batchRows[k]
        /\ \A k \in 1..Len(batchRows') : k \in 1..n \/ (k = n + 1 /\ batchRows'[k] = x)
        /\ delta # 0 => n + 1 \in 1..Len(batchRows') /\ batchRows'[n + 1] = x
        /\ delta = 0 => batchRows' = batchRows
    <3>1. CASE delta = 0
      BY <1>1, <2>4, <3>1
    <3>2. CASE delta # 0
      <4>1. /\ batchRows' \in Seq(ShareRow) /\ Len(batchRows') = n + 1 /\ batchRows'[n + 1] = x
            /\ \A k \in 1..n : batchRows'[k] = batchRows[k]
        BY <1>1, <2>3, <2>4, <3>2, Grown
      <4> QED BY <1>1, <3>2, <4>1
    <3> QED BY <3>1, <3>2
  <2>6. /\ batchEvents' \in Seq(BOOLEAN) /\ Len(batchEvents') = Len(batchEvents)
        /\ \A q \in 1..Len(batchEvents) : q # e => batchEvents'[q] = batchEvents[q]
    <3>1. TRUE \in BOOLEAN /\ e \in DOMAIN batchEvents
      BY <1>1, <1>3
    <3>2. \A b \in BOOLEAN : LET f == [batchEvents EXCEPT ![e] = b] IN
             /\ f \in Seq(BOOLEAN) /\ Len(f) = Len(batchEvents)
             /\ \A q \in 1..Len(batchEvents) : q # e => f[q] = batchEvents[q]
      BY <1>1, <3>1
    <3> QED BY <1>8, <3>1, <3>2
  <2>7. ShareShape' /\ RowsKept
    BY <1>1, <1>4, <2>5, <2>6 DEF ShareShape, RowsKept
  <2>8. ShareRowsFit'
    <3>1. \A k \in 1..Len(batchRows') : batchRows'[k].refund # 0 => k \in 1..n
      BY <2>3, <2>5
    <3> QED BY <1>1, <2>5, <3>1 DEF ShareRowsFit
  <2>9. OnSubject' = OnSubject + delta
    <3> DEFINE K == {k \in Live : batchRows[k].of = NoMember}
               J == {k \in Live' : batchRows'[k].of = NoMember}
    <3>1. OnSubject = Cents(batchRows, K) /\ OnSubject' = Cents(batchRows', J)
      BY DEF OnSubject, BackTo
    <3>2. CASE delta = 0
      <4>1. OnSubject' = OnSubject
        BY <2>5, <3>2 DEF OnSubject, BackTo, Live
      <4> QED BY <1>1, <3>2, <4>1
    <3>3. CASE delta # 0
      <4>1. /\ Cashed(batchRows) /\ Cashed(batchRows')
            /\ DOMAIN batchRows = 1..n /\ DOMAIN batchRows' = 1..Len(batchRows')
        BY <1>1, <2>5, RowsCash
      <4>2. PICK j : j = n + 1
        OBVIOUS
      <4>3. j \in 1..Len(batchRows') /\ j \in J /\ batchRows'[j].amount = delta
        BY <2>3, <2>5, <3>3, <4>1, <4>2 DEF Live
      <4>4. \A k \in 1..Len(batchRows) : k \in K =>
              k # j /\ k \in 1..Len(batchRows') /\ k \in J /\ batchRows[k].amount = batchRows'[k].amount
        BY <1>1, <2>5, <4>1, <4>2 DEF Live
      <4>5. \A k \in 1..Len(batchRows') : k \in J => k = j \/ (k \in 1..Len(batchRows) /\ k \in K)
        BY <2>5, <4>1, <4>2 DEF Live
      <4> HIDE DEF K, J
      <4>6. Cents(batchRows', J) = Cents(batchRows, K) + delta
        BY <4>1, <4>3, <4>4, <4>5, CentsMore
      <4> QED BY <3>1, <4>6
    <3> QED BY <3>2, <3>3
  <2>10. batchRefunds[e].total <= Returned
    <3>1. batchRefunds[e].total = Cents(batchRefunds, 1..e) /\ Returned = Cents(batchRefunds, DOMAIN batchRefunds)
      BY <1>1, <1>3 DEF ShareRefundsFit, Returned
    <3>2. Cashed(batchRefunds) /\ DOMAIN batchRefunds = 1..Len(batchRefunds)
      BY <1>1, Cash
    <3>3. \A k \in 1..Len(batchRefunds) : batchRefunds[k].amount \in Nat
      BY <3>2 DEF Cashed
    <3>4. \A k \in 1..Len(batchRefunds) : k \in 1..e =>
             k \in 1..Len(batchRefunds) /\ k \in DOMAIN batchRefunds /\ batchRefunds[k].amount <= batchRefunds[k].amount
      BY <3>2, <3>3
    <3>5. Cents(batchRefunds, 1..e) <= Cents(batchRefunds, DOMAIN batchRefunds)
      BY <3>2, <3>4, CentsMono
    <3> QED BY <3>1, <3>5
  <2>11. ShareEventsFit'
    <3>1. OnSubject' <= Returned' /\ OnSubject <= OnSubject' /\ batchRefunds[e].total <= OnSubject'
      BY <1>1, <1>3, <1>5, <2>2, <2>9, <2>10 DEF ShareEventsFit
    <3>2. ASSUME NEW q \in 1..Len(batchEvents'), batchEvents'[q] PROVE batchRefunds'[q].total <= OnSubject'
      <4>1. CASE q = e
        BY <1>1, <3>1, <4>1
      <4>2. CASE q # e
        <5>1. batchRefunds[q].total <= OnSubject /\ batchRefunds[q].total \in Nat
          BY <1>1, <2>6, <3>2, <4>2 DEF ShareEventsFit
        <5>2. OnSubject' \in Nat
          BY <1>1, <2>2, <2>9
        <5> QED BY <1>1, <3>1, <5>1, <5>2
      <4> QED BY <4>1, <4>2
    <3>3. \A c \in BatchDeliveries :
          /\ batchDelivery'[c].event \in 0..Len(batchEvents')
          /\ batchDelivery'[c].step = "applying" =>
                /\ batchDelivery'[c].event \in 1..Len(batchEvents')
                /\ batchDelivery'[c].total = batchRefunds'[batchDelivery'[c].event].total
      BY <1>1, <1>4, <2>6 DEF ShareEventsFit
    <3> QED BY <3>1, <3>2, <3>3 DEF ShareEventsFit
  <2> QED BY <1>1, <1>6, <2>7, <2>8, <2>11, CallsStand DEF SInv
<1> QED BY <1>2, <1>7, <1>8 DEF ApplyTotal

\* Every step of a submission's refunds keeps the invariant.
LEMMA NextSInv ==
  ASSUME SInv, [BatchNext]_batchVars
  PROVE  SInv'
<1>1. CASE RefundByHand(PartOfShare)
  BY <1>1, OutsideKeeps
<1>2. ASSUME NEW c \in BatchCalls, NEW m \in Members, CancelMember(c, m) \/ DecideMember(c, m)
      PROVE  SInv'
  <2>1. PICK amount \in Nat, close \in BOOLEAN : Begun(c, m, amount, close)
    BY <1>2, BeginIs
  <2>2. UNCHANGED <<refunded, batchRows, batchRefunds, batchEvents, batchDelivery, lost>>
    BY <1>2 DEF CancelMember, DecideMember
  <2> QED BY <2>1, <2>2, BegunKeeps
<1>3. ASSUME NEW c \in BatchCalls, ReserveShare(c) PROVE SInv'
  BY <1>3, ReserveShareKeeps
<1>4. ASSUME NEW c \in BatchCalls, AskShare(c) PROVE SInv'
  BY <1>4, AskShareKeeps
<1>5. ASSUME NEW c \in BatchCalls, SettleShare(c) PROVE SInv'
  BY <1>5, SettleShareKeeps
<1>6. ASSUME NEW c \in BatchCalls, CloseMember(c) \/ StopShare(c) PROVE SInv'
  BY <1>6, CloseShareKeeps
<1>7. ASSUME NEW d \in BatchDeliveries, NEW e \in DOMAIN batchEvents, DeliverTotal(d, e) PROVE SInv'
  BY <1>7, DeliverShareKeeps
<1>8. ASSUME NEW d \in BatchDeliveries, ApplyTotal(d) PROVE SInv'
  BY <1>8, ApplyShareKeeps
<1>9. CASE UNCHANGED batchVars
  <2>1. UNCHANGED <<refunded, batchRows, batchRefunds, batchEvents, batchCall, batchDelivery, lost>>
    BY <1>9 DEF batchVars
  <2>2. ShareRowsFit' /\ ShareRefundsFit' /\ ShareEventsFit' /\ RowsKept
    BY <2>1, StillFit
  <2>3. ShareShape'
    BY <2>1 DEF SInv, ShareShape
  <2>4. ShareCallsFit' /\ RefundsCounted' /\ RoomLeft' /\ OneWrites'
    BY <2>1, <2>2, <2>3, CallsStand
  <2> QED BY <2>2, <2>3, <2>4 DEF SInv
<1> QED BY <1>1, <1>2, <1>3, <1>4, <1>5, <1>6, <1>7, <1>8, <1>9 DEF BatchNext

\* A submission's refunds keep SInv, for any orders, any number of calls and of
\* deliveries: each refund an order was given stands behind a row that counts, so what
\* refundableOnBatchMember read still is left for a call nothing raced, and what
\* eng_apply_refund recorded never passes what Stripe gave back.
THEOREM SubmissionInv == BatchSpec => []SInv
<1>1. BatchInit => SInv
  BY InitSInv
<1>2. SInv /\ [BatchNext]_batchVars => SInv'
  BY NextSInv
<1> QED BY <1>1, <1>2, PTL DEF BatchSpec

-----------------------------------------------------------------------------
\* What follows from the invariant.

\* A call nothing raced has room for what it asks.
LEMMA RoomForCall ==
  ASSUME SInv, NEW Z, NEW most \in Nat, RoomOn(Z, most), NEW c \in FreshOn(Z)
  PROVE  GivenOn(Z) + batchCall[c].amount <= most
<1> DEFINE K == {batchCall[d].row : d \in FreshOn(Z)}
           k == batchCall[c].row
<1>1. c \in BatchCalls /\ HoldsShare(c)
  BY DEF FreshOn, HoldsShare
<1>2. k \in 1..Len(batchRows) /\ batchRows[k].amount = batchCall[c].amount /\ k \in K
  BY <1>1 DEF SInv, ShareCallsFit, ShareCallFits
<1>3. Cashed(batchRows) /\ GivenOn(Z) \in Nat /\ AskedOn(Z) \in Nat /\ batchCall[c].amount \in Nat
  BY <1>1, Cash, SumTypes DEF SInv, ShareShape, ShareCall
<1>4. AskedOn(Z) = Cents(batchRows, K)
  BY DEF AskedOn
<1> HIDE DEF K, k
<1>5. Cents(batchRows, {k}) <= Cents(batchRows, K)
  <2>1. \A i \in 1..Len(batchRows) : batchRows[i].amount \in Nat
    BY <1>3 DEF Cashed
  <2>2. \A i \in 1..Len(batchRows) : i \in {k} =>
            i \in 1..Len(batchRows) /\ i \in K /\ batchRows[i].amount <= batchRows[i].amount
    BY <1>2, <2>1
  <2> QED BY <1>3, <2>2, CentsMono
<1>6. Cents(batchRows, {k}) = batchCall[c].amount
  BY <1>2, <1>3, CentsOne
<1>7. batchCall[c].amount <= AskedOn(Z)
  BY <1>4, <1>5, <1>6
<1>8. GivenOn(Z) + AskedOn(Z) <= most
  BY DEF RoomOn
<1> QED BY <1>3, <1>7, <1>8

\* What was given back to anyone is all of it; to one order, what it was given.
LEMMA GivenIs ==
  ASSUME SInv
  PROVE  GivenOn(Anyone) = Returned /\ \A m : GivenOn({m}) = GivenTo(m)
<1>1. Cashed(batchRefunds) /\ DOMAIN batchRefunds = 1..Len(batchRefunds)
      /\ \A r \in 1..Len(batchRefunds) : batchRefunds[r] \in ShareRefund
  BY Cash DEF SInv
<1>2. \A r \in 1..Len(batchRefunds) : batchRefunds[r].of \in Anyone
  BY <1>1 DEF ShareRefund, Anyone
<1>3. {r \in 1..Len(batchRefunds) : batchRefunds[r].of \in Anyone} = DOMAIN batchRefunds
  BY <1>1, <1>2
<1>4. \A m : {r \in 1..Len(batchRefunds) : batchRefunds[r].of \in {m}} = {r \in DOMAIN batchRefunds : batchRefunds[r].of = m}
  BY <1>1
<1> QED BY <1>3, <1>4 DEF GivenOn, Returned, GivenTo

\* So it is asked for no more than is left, of the charge and of the share.
LEMMA AskedWithin ==
  ASSUME SInv
  PROVE  AsksWithinWhatIsLeft
<1> SUFFICES ASSUME NEW c \in BatchCalls, batchCall[c].step = "asking", ~batchCall[c].raced,
                    SameKey(c) = {}
             PROVE  /\ Returned + batchCall[c].amount <= Charge
                    /\ GivenTo(batchCall[c].of) + batchCall[c].amount <= Share \/ batchCall[c].of \in lost
  BY DEF AsksWithinWhatIsLeft
<1>1. batchCall[c].of \in Members /\ Charge \in Nat /\ Share \in Nat
  BY ChargeType DEF SInv, ShareCallsFit, ShareCallFits
<1>2. c \in FreshOn(Anyone) /\ c \in FreshOn({batchCall[c].of})
  BY <1>1 DEF FreshOn, Anyone
<1>3. Returned + batchCall[c].amount <= Charge
  <2>1. RoomOn(Anyone, Charge)
    BY DEF SInv, RoomLeft
  <2>2. GivenOn(Anyone) + batchCall[c].amount <= Charge
    BY <1>1, <1>2, <2>1, RoomForCall
  <2> QED BY <2>2, GivenIs
<1>4. CASE batchCall[c].of \notin lost
  <2>1. RoomOn({batchCall[c].of}, Share)
    BY <1>1, <1>4 DEF SInv, RoomLeft
  <2>2. GivenOn({batchCall[c].of}) + batchCall[c].amount <= Share
    BY <1>1, <1>2, <2>1, RoomForCall
  <2> QED BY <1>3, <2>2, GivenIs
<1> QED BY <1>3, <1>4

\* The last event said what was given back, and once recorded it is on the rows.
LEMMA RowsConverge ==
  ASSUME SInv, AllQuiet
  PROVE  OnSubject = Returned
<1> DEFINE n == Len(batchRefunds)
<1>1. /\ n \in Nat /\ DOMAIN batchRefunds = 1..n /\ DOMAIN batchEvents = 1..n /\ Cashed(batchRefunds)
      /\ OnSubject \in Nat /\ Returned \in Nat /\ Len(batchEvents) = n
  BY Cash, SumTypes DEF SInv, ShareShape
<1>2. OnSubject <= Returned
  BY DEF SInv, ShareEventsFit
<1>3. CASE n = 0
  <2>1. Returned = 0
    BY <1>1, <1>3, CentsNone DEF Returned
  <2> QED BY <1>1, <1>2, <2>1
<1>4. CASE n # 0
  <2>1. n \in 1..n /\ batchEvents[n]
    BY <1>1, <1>4 DEF AllQuiet
  <2>2. batchRefunds[n].total <= OnSubject
    BY <1>1, <2>1 DEF SInv, ShareEventsFit
  <2>3. batchRefunds[n].total = Returned
    BY <1>1, <2>1 DEF SInv, ShareRefundsFit, Returned
  <2> QED BY <1>1, <1>2, <2>2, <2>3
<1> QED BY <1>3, <1>4

\* What the rows of the charge's own subject come to is among what counts.
LEMMA CountedCovers ==
  ASSUME SInv
  PROVE  OutsideRefundsStayWithinReturned
<1>1. OnSubject <= Returned
  BY DEF SInv, ShareEventsFit
<1>2. OnSubject <= CountedAll
  <2>1. Cashed(batchRows)
    BY Cash DEF SInv
  <2>2. \A k \in 1..Len(batchRows) : batchRows[k].amount \in Nat
    BY Cash DEF SInv, ShareRow
  <2>3. \A k \in 1..Len(batchRows) : k \in {l \in Live : batchRows[l].of = NoMember} =>
           k \in 1..Len(batchRows) /\ k \in Live /\ batchRows[k].amount <= batchRows[k].amount
    BY <2>2
  <2>4. Cents(batchRows, {l \in Live : batchRows[l].of = NoMember}) <= Cents(batchRows, Live)
    BY <2>1, <2>3, CentsMono
  <2> QED BY <2>4 DEF OnSubject, BackTo, CountedAll
<1>3. AllQuiet => OnSubject = Returned
  BY RowsConverge
<1> QED BY <1>1, <1>2, <1>3 DEF OutsideRefundsStayWithinReturned

\* And what is written, made and recorded has its type.
LEMMA ShareTypes ==
  ASSUME SInv
  PROVE  BatchRefundsTypeOK
<1>1. DOMAIN batchRows = 1..Len(batchRows)
  BY Cash DEF SInv
<1> QED BY <1>1 DEF SInv, ShareShape, ShareRowsFit, ShareRefundsFit, ShareEventsFit,
                    ShareCallsFit, ShareCallFits, BatchRefundsTypeOK

\* No refund passes the charge, and no refund of Stripe's settles two rows
\* (settleRefundRow, cancelAndRefund, settleDecision, eng_apply_refund).
THEOREM SubmissionTypes == BatchSpec => []BatchRefundsTypeOK
<1>1. SInv => BatchRefundsTypeOK
  BY ShareTypes
<1> QED BY <1>1, SubmissionInv, PTL

\* Stripe is asked for no more than is left of the charge and of the order's share by
\* a call whose reading by refundableOnBatchMember nothing raced, whatever the other
\* orders' cancellations and decisions were given before it, for any number of orders
\* and of calls at once.
THEOREM AskedIsLeft == BatchSpec => []AsksWithinWhatIsLeft
<1>1. SInv => AsksWithinWhatIsLeft
  BY AskedWithin
<1> QED BY <1>1, SubmissionInv, PTL

\* 0075: "two refund events cannot both write against one figure": what the submission
\* is told of outside refunds never comes to more than Stripe gave back, in whatever
\* order eng_apply_refund was given the events and however many deliveries ran at
\* once, and once all are recorded nothing given back is missing from what counts.
THEOREM OutsideRefundsFit == BatchSpec => []OutsideRefundsStayWithinReturned
<1>1. SInv => OutsideRefundsStayWithinReturned
  BY CountedCovers
<1> QED BY <1>1, SubmissionInv, PTL

=============================================================================
