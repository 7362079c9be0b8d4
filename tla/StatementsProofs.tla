-------------------------- MODULE StatementsProofs --------------------------
(***************************************************************************)
(* What holds of work on account for any finite number of orders and       *)
(* periods and any number of requests, jobs and deliveries: types, that a  *)
(* charged statement is printed and paid, that an order is billed once,    *)
(* that the header agrees with the lines, and that the credit holds.       *)
(***************************************************************************)
EXTENDS Statements, FiniteSetTheorems, TLAPS

\* What each request carries, and the types of everything.
Task == [step : Steps, of : Periods \cup {NoPeriod}, todo : SUBSET Orders,
         now : SUBSET Orders, saw : Nat, seen : StatementStatuses]

Flags == {"blurred", "crossed", "together", "doubled", "late"}

Shape ==
    /\ working \subseteq Orders
    /\ billedOn \in [Orders -> Periods \cup {NoPeriod}]
    /\ status \in [Periods -> StatementStatuses]
    /\ lines \in [Periods -> SUBSET Orders]
    /\ total \in [Periods -> 0..Cardinality(Orders)]
    /\ session \in [Periods -> [state : {"none", "open", "paid"}, amount : Nat]]
    /\ done \subseteq Periods
    /\ task \in [Tasks -> Task]
    /\ history \subseteq Flags
    /\ faults \in 0..MaxFaults

\* The statement of a period, its lines, its charge and the orders on it.
Issued(p) == status[p] \in {"issued", "paid"}

Books ==
    /\ \A p \in Periods :
          /\ lines[p] \subseteq working
          /\ status[p] = "none" => lines[p] = {} /\ total[p] = 0
          /\ status[p] = "paid" => p \in done
          /\ session[p].state # "none" => Issued(p)
          /\ p \in done => session[p].state = "paid"
          /\ "late" \notin history /\ session[p].state # "none"
                => session[p].amount = Cardinality(lines[p])
          /\ "doubled" \notin history /\ p \in done => status[p] = "paid"
    /\ \A o \in Orders : billedOn[o] # NoPeriod => o \in lines[billedOn[o]]

\* What a request may be in the middle of, given what the books say.
Fitting == {t \in Task :
    /\ t.step \notin {"idle", "weighing", "accepting"} => t.of \in Periods
    /\ t.step \in {"gathering", "lining", "claiming", "totalling", "heading", "issuing"}
          => status[t.of] # "none"
    /\ t.step \in {"lining", "claiming"} => t.todo \subseteq working
    /\ t.step = "claiming" => t.now \subseteq lines[t.of]
    /\ t.step = "heading" => t.saw \in 0..Cardinality(Orders)
    /\ t.step = "checking" => Issued(t.of)
    /\ t.step = "paying" => session[t.of].state = "paid"}

\* Which requests may be under way at once, by what has overlapped.
ClosingSteps == {"opening", "gathering", "lining", "claiming", "totalling", "heading"}

Apart ==
    /\ "together" \notin history =>
          \A i, j \in Tasks : Closing(i) /\ Closing(j) /\ task[i].of = task[j].of => i = j
    /\ "crossed" \notin history =>
          \A i, j \in Tasks : Closing(i) /\ Closing(j) => task[i].of = task[j].of
    /\ "blurred" \notin history =>
          \A i, j \in Tasks : Placing(i) /\ (Placing(j) \/ Closing(j)) => i = j
    /\ "doubled" \notin history =>
          \A i, j \in Tasks : task[i].step = "issuing" /\ task[j].step = "issuing"
                              /\ task[i].of = task[j].of => i = j

\* No close of one period ran into one of another; nor into a submission; nor, if
\* not that, into another of the same period.
Uncrossed == faults = 0 /\ "crossed" \notin history
Clear == Uncrossed /\ "blurred" \notin history
Tidy == Clear \/ (faults = 0 /\ "together" \notin history)

\* What is owed: the orders accepted and not on a statement that was paid.
Owing == {o \in working : ~\E p \in done : o \in lines[p]}

\* What the requests may rely on while that is so: what they read is still so.
Relying == {t \in Task :
    /\ "doubled" \notin history /\ t.step = "issuing" => status[t.of] = "open"
    /\ Uncrossed /\ t.step \in {"lining", "claiming"} =>
          \A o \in t.todo : \A q \in Periods : o \in lines[q] => q = t.of
    /\ Clear /\ t.step \in {"lining", "claiming"} => Unbilled \subseteq t.todo \cup lines[t.of]
    /\ Clear /\ t.step \in {"totalling", "heading"} => Unbilled \subseteq lines[t.of]
    /\ Tidy /\ t.step = "heading" => t.saw = Cardinality(lines[t.of])
    /\ Clear /\ t.step = "weighing" => Cardinality(Owing) <= t.saw + Cardinality(Unbilled)
    /\ Clear /\ t.step = "accepting" => Cardinality(Owing \cup t.todo) <= Limit}

\* Every line's order is claimed for its statement, or is about to be.
LinesClaimed ==
    Uncrossed =>
        \A p \in Periods : \A o \in lines[p] :
            \/ billedOn[o] = p
            \/ \E i \in Tasks : task[i].step = "claiming" /\ o \in task[i].now /\ task[i].of = p

\* Every header agrees with its lines, or a close will write it.
HeadersWritten ==
    Tidy =>
        \A p \in Periods :
            \/ total[p] = Cardinality(lines[p])
            \/ \E i \in Tasks : task[i].step \in ClosingSteps \ {"opening"} /\ task[i].of = p

Sound ==
    /\ Shape
    /\ Books
    /\ \A i \in Tasks : task[i] \in Fitting /\ task[i] \in Relying
    /\ Apart
    /\ LinesClaimed
    /\ HeadersWritten
    /\ BilledOnceUnlessCrossed
    /\ Clear => Cardinality(Owing) <= Limit

-----------------------------------------------------------------------------
\* What the statements come to.

\* Any set of natural numbers that has a member has a least one.
LEMMA LeastNatural ==
  ASSUME NEW T \in SUBSET Nat, T # {}
  PROVE  \E x \in T : \A y \in T : x <= y
<1> DEFINE Below(x) == {y \in T : y <= x}
           Belows == {Below(x) : x \in T}
<1>1. Belows \subseteq FiniteSubsetsOf(Nat)
  <2>1. ASSUME NEW x \in T PROVE IsFiniteSet(Below(x))
    <3>1. Below(x) \in SUBSET Nat /\ x \in Nat /\ \A y \in Below(x) : y <= x
      OBVIOUS
    <3> HIDE DEF Below
    <3> QED BY <3>1, FS_BoundedSetOfNaturals
  <2> QED BY <2>1 DEF FiniteSubsetsOf
<1>2. PICK U \in Belows : \A V \in Belows : <<V, U>> \notin StrictSubsetOrdering(Nat)
  <2>1. IsWellFoundedOn(StrictSubsetOrdering(Nat), FiniteSubsetsOf(Nat))
    BY FS_StrictSubsetOrderingWellFounded
  <2>2. Belows # {}
    OBVIOUS
  <2> HIDE DEF Belows
  <2> QED BY <2>1, <2>2, <1>1, WFMin
<1>3. PICK x \in T : U = Below(x)
  OBVIOUS
<1>4. ASSUME NEW y \in T, ~(x <= y) PROVE FALSE
  <2>1. x \in Nat /\ y \in Nat /\ y < x
    BY <1>4
  <2>2. \A z \in T : z <= y => z <= x
    BY <2>1
  <2>3. x \in Below(x) /\ x \notin Below(y)
    BY <2>1
  <2>5. Below(y) \subseteq Below(x)
    BY <2>2
  <2>4. Below(y) \in SUBSET Nat /\ Below(x) \in SUBSET Nat /\ Below(y) \in Belows
    OBVIOUS
  <2> HIDE DEF Below, Belows
  <2> QED BY <2>3, <2>4, <2>5, <1>2, <1>3 DEF StrictSubsetOrdering
<1> QED BY <1>3, <1>4

\* Induction along an interval, for a set: what holds first, and of the next
\* wherever it holds, holds throughout.
LEMMA IntervalInduction ==
  ASSUME NEW n \in Nat, NEW T, 0 \in T, \A k \in 1..n : k - 1 \in T => k \in T
  PROVE  n \in T /\ \A k \in 0..n : k \in T
<1> DEFINE Out == (0..n) \ T
<1>0. n \in 0..n
  OBVIOUS
<1> SUFFICES ASSUME Out # {} PROVE FALSE
  BY <1>0
<1>1. PICK x \in Out : \A y \in Out : x <= y
  <2>1. Out \in SUBSET Nat
    OBVIOUS
  <2> HIDE DEF Out
  <2> QED BY <2>1, LeastNatural
<1>2. x \in 1..n /\ x - 1 \in 0..n /\ ~(x <= x - 1)
  BY <1>1
<1> QED BY <1>1, <1>2

\* g sums w over every part of S, one member after another.
Picked(s) == CHOOSE x \in s : TRUE
Sums(g, w, S) ==
    g = [s \in SUBSET S |-> IF s = {} THEN 0 ELSE w[Picked(s)] + g[s \ {Picked(s)}]]

\* There is such a g.
LEMMA SumsExist ==
  ASSUME NEW S, IsFiniteSet(S), NEW w \in [S -> Nat]
  PROVE  \E g : Sums(g, w, S)
<1> DEFINE Body(g, s) == IF s = {} THEN 0 ELSE w[Picked(s)] + g[s \ {Picked(s)}]
           Upto(n, g) == \A s \in SUBSET S : Cardinality(s) <= n => g[s] = Body(g, s)
           T == {n \in Nat : \E g \in [SUBSET S -> Nat] : Upto(n, g)}
<1>0. \A s \in SUBSET S : IsFiniteSet(s) /\ Cardinality(s) \in Nat /\ Cardinality(s) <= Cardinality(S)
  BY FS_Subset, FS_CardinalityType
<1>1. Cardinality(S) \in Nat
  BY FS_CardinalityType
<1>2. \A s \in SUBSET S : s # {} =>
         /\ Picked(s) \in s /\ s \ {Picked(s)} \in SUBSET S
         /\ Cardinality(s \ {Picked(s)}) = Cardinality(s) - 1
  BY <1>0, FS_RemoveElement DEF Picked
<1>3. 0 \in T
  <2>1. Upto(0, [s \in SUBSET S |-> 0])
    BY <1>0, FS_EmptySet
  <2> QED BY <2>1
<1>4. ASSUME NEW k \in 1..Cardinality(S), k - 1 \in T PROVE k \in T
  <2>1. PICK g \in [SUBSET S -> Nat] : Upto(k - 1, g)
    BY <1>4
  <2> DEFINE h == [s \in SUBSET S |-> IF Cardinality(s) <= k - 1 THEN g[s] ELSE Body(g, s)]
  <2>2. \A s \in SUBSET S : Body(g, s) \in Nat
    <3>1. \A s \in SUBSET S : s # {} => w[Picked(s)] \in Nat /\ g[s \ {Picked(s)}] \in Nat
      BY <1>2
    <3> QED BY <3>1
  <2>3. h \in [SUBSET S -> Nat]
    BY <2>2
  <2>4. ASSUME NEW s \in SUBSET S, Cardinality(s) <= k PROVE h[s] = Body(h, s)
    <3>1. h[s] = Body(g, s)
      BY <2>1
    <3>2. s # {} => h[s \ {Picked(s)}] = g[s \ {Picked(s)}]
      <4>1. s # {} => s \ {Picked(s)} \in SUBSET S /\ Cardinality(s \ {Picked(s)}) <= k - 1
        BY <1>0, <1>2, <2>4
      <4> QED BY <4>1
    <3> QED BY <3>1, <3>2
  <2>5. Upto(k, h)
    BY <2>4
  <2> HIDE DEF h, Upto
  <2> QED BY <2>3, <2>5
<1>5. Cardinality(S) \in T
  <2> HIDE DEF T
  <2> QED BY <1>1, <1>3, <1>4, IntervalInduction
<1>6. PICK g \in [SUBSET S -> Nat] : Upto(Cardinality(S), g)
  BY <1>5
<1>7. \A s \in SUBSET S : g[s] = Body(g, s)
  BY <1>0, <1>6
<1> QED BY <1>7 DEF Sums

\* Sets that are no larger than what is summed for them come together to no more
\* than the sum.
LEMMA UnionWithinSum ==
  ASSUME NEW S, IsFiniteSet(S), NEW w \in [S -> Nat], NEW g, Sums(g, w, S),
         NEW U, IsFiniteSet(U), NEW L \in [S -> SUBSET U], \A p \in S : Cardinality(L[p]) <= w[p]
  PROVE  g[S] \in Nat /\ Cardinality(UNION {L[p] : p \in S}) <= g[S]
<1> DEFINE All(s) == UNION {L[p] : p \in s}
           T == {s \in SUBSET S : g[s] \in Nat /\ Cardinality(All(s)) <= g[s]}
<1>0. \A v \in SUBSET U : IsFiniteSet(v) /\ Cardinality(v) \in Nat
  BY FS_Subset, FS_CardinalityType
<1>1. g[{}] = 0 /\ \A s \in SUBSET S : s # {} => g[s] = w[Picked(s)] + g[s \ {Picked(s)}]
  BY DEF Sums
<1>2. {} \in T
  <2>1. All({}) = {}
    OBVIOUS
  <2>2. g[{}] \in Nat /\ Cardinality(All({})) <= g[{}]
    <3>1. Cardinality({}) = 0
      BY FS_EmptySet
    <3>2. Cardinality(All({})) = 0
      BY ONLY <2>1, <3>1
    <3>3. g[{}] = 0
      BY <1>1
    <3> HIDE DEF All
    <3> QED BY <3>2, <3>3
  <2> QED BY <2>2
<1>3. ASSUME NEW s \in SUBSET S, s # {}, s \ {Picked(s)} \in T PROVE s \in T
  <2> DEFINE x == Picked(s)
             r == s \ {x}
  <2>1. x \in s /\ g[s] = w[x] + g[r] /\ w[x] \in Nat
    BY <1>1, <1>3 DEF Picked
  <2>2. All(s) = L[x] \cup All(r)
    BY <2>1
  <2>3. L[x] \in SUBSET U /\ All(r) \in SUBSET U
    BY <2>1
  <2>4. Cardinality(All(s)) <= Cardinality(L[x]) + Cardinality(All(r))
    <3>1. Cardinality(L[x] \cup All(r)) =
            Cardinality(L[x]) + Cardinality(All(r)) - Cardinality(L[x] \cap All(r))
      <4> HIDE DEF All, x, r
      <4> QED BY <1>0, <2>3, FS_Union
    <3>2. L[x] \cap All(r) \in SUBSET U
      BY <2>3
    <3> HIDE DEF All, x, r
    <3> QED BY <1>0, <2>2, <2>3, <3>1, <3>2
  <2>5. All(s) \in SUBSET U
    BY <2>2, <2>3
  <2>6. g[r] \in Nat /\ Cardinality(All(r)) <= g[r] /\ Cardinality(L[x]) <= w[x]
    BY <1>3, <2>1
  <2>7. g[s] \in Nat /\ Cardinality(All(s)) <= g[s]
    <3> HIDE DEF All, x, r
    <3> QED BY <1>0, <2>1, <2>3, <2>4, <2>5, <2>6
  <2> QED BY <2>7
<1>4. \A s \in SUBSET S : s \in T
  <2> DEFINE Out == (SUBSET S) \ T
  <2> SUFFICES ASSUME Out # {} PROVE FALSE
    OBVIOUS
  <2>1. PICK u \in Out : \A v \in Out : <<v, u>> \notin StrictSubsetOrdering(S)
    <3>1. IsWellFoundedOn(StrictSubsetOrdering(S), FiniteSubsetsOf(S))
      BY FS_StrictSubsetOrderingWellFounded
    <3>2. Out \subseteq FiniteSubsetsOf(S)
      BY FS_Subset DEF FiniteSubsetsOf
    <3> HIDE DEF Out
    <3> QED BY <3>1, <3>2, WFMin
  <2>2. u \in SUBSET S /\ u \notin T /\ u # {}
    BY <1>2, <2>1
  <2>3. Picked(u) \in u
    BY <2>2 DEF Picked
  <2>4. u \ {Picked(u)} \in SUBSET S /\ <<u \ {Picked(u)}, u>> \in StrictSubsetOrdering(S)
    BY <2>2, <2>3 DEF StrictSubsetOrdering
  <2> HIDE DEF T
  <2> QED BY <1>3, <2>1, <2>2, <2>4
<1> QED BY <1>4

\* accountBalance's first read: the sum of what is on the statements that are owed,
\* and no less than the orders on them while every header agrees with its lines.
LEMMA BilledCovers ==
  ASSUME Shape
  PROVE  /\ Billed \in Nat
         /\ (\A p \in Periods : Cardinality(lines[p]) <= total[p]) =>
               Cardinality(UNION {lines[p] : p \in {q \in Periods : status[q] \in Owed}}) <= Billed
<1> DEFINE Q == {q \in Periods : status[q] \in Owed}
           w == [p \in Q |-> total[p]]
           Fold(g) == g = [s \in SUBSET Q |-> IF s = {} THEN 0
                             ELSE total[CHOOSE x \in s : TRUE] + g[s \ {CHOOSE x \in s : TRUE}]]
           sum == CHOOSE g : Fold(g)
<1>1. Billed = sum[Q]
  BY DEF Billed, MapThenSumSet, MapThenFoldSet
<1>2. IsFiniteSet(Q)
  BY FS_Subset, StatementAssumption
<1>3. w \in [Q -> Nat]
  BY DEF Shape
<1>4. \A g : Sums(g, w, Q) <=> Fold(g)
  <2>1. \A s \in SUBSET Q : s # {} => Picked(s) \in Q /\ w[Picked(s)] = total[Picked(s)]
    BY DEF Picked
  <2>2. \A g : [s \in SUBSET Q |-> IF s = {} THEN 0 ELSE w[Picked(s)] + g[s \ {Picked(s)}]]
               = [s \in SUBSET Q |-> IF s = {} THEN 0 ELSE total[Picked(s)] + g[s \ {Picked(s)}]]
    <3> HIDE DEF w, Q
    <3> QED BY <2>1
  <2> HIDE DEF w, Q
  <2> QED BY <2>2 DEF Sums, Picked
<1>5. PICK g : Sums(g, w, Q)
  <2> HIDE DEF w, Q
  <2> QED BY <1>2, <1>3, SumsExist
<1>6. Sums(sum, w, Q)
  <2> HIDE DEF w, Q, Fold
  <2> QED BY <1>4, <1>5
<1> DEFINE none == [p \in Q |-> {}]
           L == [p \in Q |-> lines[p]]
<1>7. none \in [Q -> SUBSET Orders] /\ \A p \in Q : Cardinality(none[p]) <= w[p]
  <2>1. Cardinality({}) = 0
    BY FS_EmptySet
  <2> QED BY <1>3, <2>1
<1>8. sum[Q] \in Nat
  <2> HIDE DEF w, Q, Fold, sum, none
  <2> QED BY <1>2, <1>3, <1>6, <1>7, UnionWithinSum, StatementAssumption
<1>9. ASSUME \A p \in Periods : Cardinality(lines[p]) <= total[p]
      PROVE  Cardinality(UNION {lines[p] : p \in Q}) <= sum[Q]
  <2>1. L \in [Q -> SUBSET Orders] /\ \A p \in Q : Cardinality(L[p]) <= w[p]
    BY <1>9 DEF Shape
  <2>2. UNION {L[p] : p \in Q} = UNION {lines[p] : p \in Q}
    OBVIOUS
  <2> HIDE DEF w, Q, Fold, sum, L
  <2>3. Cardinality(UNION {L[p] : p \in Q}) <= sum[Q]
    BY <1>2, <1>3, <1>6, <2>1, UnionWithinSum, StatementAssumption
  <2> QED BY <2>2, <2>3
<1> HIDE DEF sum, Fold, w
<1> QED BY <1>1, <1>8, <1>9

-----------------------------------------------------------------------------
\* Nothing is under way at first.
LEMMA IdleFits == Idle \in Task /\ Idle \in Fitting' /\ Idle \in Relying'
<1>1. Idle \in Task
  BY DEF Idle, Task, Steps, StatementStatuses
<1> QED BY <1>1 DEF Fitting, Relying, Idle

LEMMA InitSound == Init => Sound
<1> SUFFICES ASSUME Init PROVE Sound
  OBVIOUS
<1> USE DEF Init
<1>0. /\ Cardinality({}) = 0 /\ Cardinality(Orders) \in Nat
      /\ Owing = {}
  BY FS_EmptySet, FS_CardinalityType, StatementAssumption DEF Owing
<1>1. Idle \in Task
  BY DEF Idle, Task, Steps, StatementStatuses
<1>2. Shape
  <2>1. /\ 0 \in 0..Cardinality(Orders) /\ 0 \in 0..MaxFaults
        /\ NoSession \in [state : {"none", "open", "paid"}, amount : Nat]
    BY <1>0, StatementAssumption DEF NoSession
  <2> QED BY <1>1, <2>1 DEF Shape, StatementStatuses
<1>3. Books
  BY DEF Books, NoSession
<1>4. Idle \in Fitting /\ Idle \in Relying
  BY <1>1 DEF Fitting, Relying, Idle
<1>5. Apart
  BY DEF Apart, Closing, Placing, Idle
<1>6. LinesClaimed /\ HeadersWritten /\ BilledOnceUnlessCrossed
  BY <1>0 DEF LinesClaimed, HeadersWritten, BilledOnceUnlessCrossed, BilledTwice
<1>7. Cardinality(Owing) <= Limit
  BY <1>0, StatementAssumption
<1> QED BY <1>2, <1>3, <1>4, <1>5, <1>6, <1>7 DEF Sound

-----------------------------------------------------------------------------
\* Steps.

\* What is said of one request.
LEMMA Now ==
  ASSUME Sound, NEW i \in Tasks
  PROVE  task[i] \in Task /\ task[i] \in Fitting /\ task[i] \in Relying
  BY DEF Sound, Shape

\* Parts of the orders are finite.
LEMMA PartsAreFinite ==
  ASSUME NEW S, S \subseteq Orders
  PROVE  /\ IsFiniteSet(S) /\ Cardinality(S) \in Nat /\ Cardinality(S) <= Cardinality(Orders)
         /\ \A T \in SUBSET S : Cardinality(T) \in Nat /\ Cardinality(T) <= Cardinality(S)
  BY FS_Subset, FS_CardinalityType, StatementAssumption

LEMMA UnionBound ==
  ASSUME NEW S, S \subseteq Orders, NEW T, T \subseteq Orders
  PROVE  Cardinality(S \cup T) <= Cardinality(S) + Cardinality(T)
<1>1. IsFiniteSet(S) /\ IsFiniteSet(T) /\ S \cap T \subseteq Orders
  BY PartsAreFinite
<1>2. Cardinality(S \cup T) = Cardinality(S) + Cardinality(T) - Cardinality(S \cap T)
  BY <1>1, FS_Union
<1>3. Cardinality(S) \in Nat /\ Cardinality(T) \in Nat /\ Cardinality(S \cap T) \in Nat
  BY <1>1, PartsAreFinite
<1> QED BY <1>2, <1>3

\* What is done stays done.
Onward ==
    /\ working \subseteq working'
    /\ \A p \in Periods :
          /\ lines[p] \subseteq lines'[p]
          /\ status[p] # "none" => status'[p] # "none"
          /\ status[p] \in {"issued", "paid"} => status'[p] \in {"issued", "paid"}
          /\ session[p].state = "paid" => session'[p].state = "paid"
    /\ history \subseteq history'
    /\ faults' = 0 => faults = 0

LEMMA FittingOnward ==
  ASSUME Onward PROVE Fitting \subseteq Fitting'
  BY DEF Fitting, Onward, Issued

\* What has not overlapped yet had not before.
LEMMA FlagsOnward ==
  ASSUME Onward
  PROVE  (Uncrossed' => Uncrossed) /\ (Clear' => Clear) /\ (Tidy' => Tidy)
  BY DEF Onward, Uncrossed, Clear, Tidy

\* What a request relies on is kept by what leaves the orders, their statements and
\* the lines alone.
LEMMA RelyingKept ==
  ASSUME Onward, UNCHANGED <<working, billedOn, lines, done>>,
         \A p \in Periods : status[p] = "open" => status'[p] = "open"
  PROVE  \A t \in Fitting : t \in Relying => t \in Relying'
<1>1. Unbilled' = Unbilled /\ Owing' = Owing
  BY DEF Unbilled, Owing
<1> SUFFICES ASSUME NEW t \in Fitting, t \in Relying PROVE t \in Relying'
  OBVIOUS
<1>2. "doubled" \notin history' => "doubled" \notin history
  BY DEF Onward
<1>3. t.step = "issuing" => t.of \in Periods
  BY DEF Fitting
<1> QED BY <1>1, <1>2, <1>3, FlagsOnward DEF Relying

\* Requests stay apart while one takes a step that begins nothing.
LEMMA ApartKept ==
  ASSUME Sound, NEW i \in Tasks, task' = [task EXCEPT ![i] = task'[i]],
         history \subseteq history',
         Closing(i)' => Closing(i) /\ task'[i].of = task[i].of,
         Placing(i)' => Placing(i),
         task'[i].step = "issuing" => task[i].step = "issuing" /\ task'[i].of = task[i].of
  PROVE  Apart'
<1>1. \A j \in Tasks : j # i => task'[j] = task[j]
  BY DEF Sound, Shape
<1>2. \A j \in Tasks :
        /\ Closing(j)' => Closing(j) /\ task'[j].of = task[j].of
        /\ Placing(j)' => Placing(j)
        /\ task'[j].step = "issuing" => task[j].step = "issuing" /\ task'[j].of = task[j].of
  BY <1>1 DEF Closing, Placing
<1>3. Apart
  BY DEF Sound
<1>4. ASSUME "together" \notin history'
      PROVE  \A j, k \in Tasks : Closing(j)' /\ Closing(k)' /\ task'[j].of = task'[k].of => j = k
  BY <1>2, <1>3, <1>4 DEF Apart
<1>5. ASSUME "crossed" \notin history'
      PROVE  \A j, k \in Tasks : Closing(j)' /\ Closing(k)' => task'[j].of = task'[k].of
  BY <1>2, <1>3, <1>5 DEF Apart
<1>6. ASSUME "blurred" \notin history'
      PROVE  \A j, k \in Tasks : Placing(j)' /\ (Placing(k)' \/ Closing(k)') => j = k
  BY <1>2, <1>3, <1>6 DEF Apart
<1>7. ASSUME "doubled" \notin history'
      PROVE  \A j, k \in Tasks : task'[j].step = "issuing" /\ task'[k].step = "issuing"
                                 /\ task'[j].of = task'[k].of => j = k
  BY <1>2, <1>3, <1>7 DEF Apart
<1> QED BY <1>4, <1>5, <1>6, <1>7 DEF Apart

\* A request that only reads, or begins or ends, leaves the books as they are.
LEMMA QuietStep ==
  ASSUME Sound, NEW i \in Tasks, task' = [task EXCEPT ![i] = task'[i]],
         UNCHANGED <<working, billedOn, status, lines, total, session, done>>,
         history \subseteq history', history' \subseteq Flags,
         faults' \in 0..MaxFaults, faults' = 0 => faults = 0,
         task'[i] \in Fitting', task'[i] \in Relying', Apart',
         faults' = 0 =>
            /\ task[i].step # "claiming"
            /\ task[i].step \in ClosingSteps \ {"opening"} =>
                  task'[i].step \in ClosingSteps \ {"opening"} /\ task'[i].of = task[i].of
  PROVE  Sound'
<1>1. Onward
  BY DEF Onward
<1>2. \A j \in Tasks : j # i => task'[j] = task[j]
  BY DEF Sound, Shape
<1>3. \A j \in Tasks : task'[j] \in Fitting' /\ task'[j] \in Relying'
  BY <1>1, <1>2, Now, FittingOnward, RelyingKept
<1>4. Shape'
  <2>1. task'[i] \in Task
    BY DEF Fitting
  <2>2. task' \in [Tasks -> Task]
    BY <2>1 DEF Sound, Shape
  <2> QED BY <2>2 DEF Sound, Shape
<1>5. Books'
  BY DEF Sound, Books, Issued
<1>6. LinesClaimed'
  <2> SUFFICES ASSUME Uncrossed', NEW p \in Periods, NEW o \in lines[p], billedOn[o] # p
               PROVE  \E j \in Tasks : task'[j].step = "claiming" /\ o \in task'[j].now /\ task'[j].of = p
    BY DEF LinesClaimed
  <2>1. PICK j \in Tasks : task[j].step = "claiming" /\ o \in task[j].now /\ task[j].of = p
    BY <1>1, FlagsOnward DEF Sound, LinesClaimed
  <2>2. j # i
    BY <2>1 DEF Uncrossed
  <2> QED BY <1>2, <2>1, <2>2
<1>7. HeadersWritten'
  <2> SUFFICES ASSUME Tidy', NEW p \in Periods, total[p] # Cardinality(lines[p])
               PROVE  \E j \in Tasks : task'[j].step \in ClosingSteps \ {"opening"} /\ task'[j].of = p
    BY DEF HeadersWritten
  <2>1. PICK j \in Tasks : task[j].step \in ClosingSteps \ {"opening"} /\ task[j].of = p
    BY <1>1, FlagsOnward DEF Sound, HeadersWritten
  <2>2. faults' = 0
    BY DEF Tidy, Clear, Uncrossed
  <2> QED BY <1>2, <2>1, <2>2
<1>8. BilledOnceUnlessCrossed'
  BY DEF Sound, BilledOnceUnlessCrossed, BilledTwice
<1>9. Clear' => Cardinality(Owing') <= Limit
  <2>1. Owing' = Owing
    BY DEF Owing
  <2> QED BY <1>1, <2>1, FlagsOnward DEF Sound
<1> QED BY <1>3, <1>4, <1>5, <1>6, <1>7, <1>8, <1>9 DEF Sound

\* While nobody closes a period, what is owed is on the statements or not yet on one.
LEMMA OwedIsCounted ==
  ASSUME Sound, Clear, \A i \in Tasks : ~Closing(i)
  PROVE  Cardinality(Owing) <= Billed + Cardinality(Unbilled)
<1> DEFINE Bills == UNION {lines[p] : p \in {q \in Periods : status[q] \in Owed}}
<1>1. \A p \in Periods : total[p] = Cardinality(lines[p])
  BY DEF Sound, HeadersWritten, Tidy, Closing, ClosingSteps
<1>2. Billed \in Nat /\ Cardinality(Bills) <= Billed
  <2>1. \A p \in Periods : lines[p] \subseteq Orders
    BY DEF Sound, Shape
  <2>2. \A p \in Periods : Cardinality(lines[p]) <= total[p]
    BY <1>1, <2>1, PartsAreFinite
  <2> QED BY <2>2, BilledCovers DEF Sound
<1>3. Owing \subseteq Unbilled \cup Bills
  <2> SUFFICES ASSUME NEW o \in Owing, billedOn[o] # NoPeriod PROVE o \in Bills
    BY DEF Owing, Unbilled
  <2>1. o \in Orders /\ billedOn[o] \in Periods /\ o \in lines[billedOn[o]]
    BY DEF Owing, Sound, Shape, Books
  <2>2. billedOn[o] \notin done
    BY <2>1 DEF Owing
  <2>3. status[billedOn[o]] \in Owed
    BY <2>1, <2>2 DEF Sound, Shape, Books, Owed, StatementStatuses
  <2> QED BY <2>1, <2>3
<1>4. Owing \subseteq Orders /\ Unbilled \subseteq Orders /\ Bills \subseteq Orders
  BY DEF Owing, Unbilled, Sound, Shape
<1> HIDE DEF Bills
<1>5. Cardinality(Unbilled \cup Bills) <= Cardinality(Unbilled) + Cardinality(Bills)
  BY <1>4, UnionBound
<1>6. Cardinality(Owing) <= Cardinality(Unbilled \cup Bills)
  BY <1>3, <1>4, PartsAreFinite
<1>7. /\ Cardinality(Owing) \in Nat /\ Cardinality(Unbilled) \in Nat /\ Cardinality(Bills) \in Nat
      /\ Cardinality(Unbilled \cup Bills) \in Nat
  BY <1>4, PartsAreFinite
<1> QED BY <1>2, <1>5, <1>6, <1>7

\* The balance is read: the bills first.
LEMMA SubmitKeeps ==
  ASSUME Sound, NEW i \in Tasks, Submit(i) PROVE Sound'
<1> DEFINE t == [Idle EXCEPT !.step = "weighing", !.saw = Billed]
<1>1. task[i] = Idle /\ task' = [task EXCEPT ![i] = t] /\ task'[i] = t
      /\ UNCHANGED <<working, billedOn, status, lines, total, session, done, faults>>
  BY DEF Submit, Begin, Sound, Shape, statements
<1>2. /\ history \subseteq history' /\ history' \subseteq Flags
      /\ "blurred" \notin history' => \A j \in Tasks : ~Placing(j) /\ ~Closing(j)
      /\ \A f \in {"together", "crossed", "doubled"} : f \in history' => f \in history
  BY DEF Submit, Sound, Shape, Flags
<1>3. Onward /\ Owing' = Owing /\ Unbilled' = Unbilled
  BY <1>1, <1>2 DEF Onward, Owing, Unbilled
<1>4. t \in Task /\ t.step = "weighing" /\ t.saw = Billed
  BY BilledCovers, IdleFits DEF Sound, Task, Steps
<1>5. Clear' => Cardinality(Owing) <= Billed + Cardinality(Unbilled)
  BY <1>2, <1>3, FlagsOnward, OwedIsCounted DEF Clear
<1> HIDE DEF t
<1>6. t \in Fitting'
  BY <1>4 DEF Fitting
<1>7. t \in Relying'
  BY <1>3, <1>4, <1>5 DEF Relying
<1>8. Apart'
  <2>1. \A j \in Tasks : j # i => task'[j] = task[j]
    BY <1>1 DEF Sound, Shape
  <2>2. \A j \in Tasks :
          /\ Closing(j)' => Closing(j) /\ task'[j].of = task[j].of
          /\ Placing(j)' => j = i \/ Placing(j)
          /\ task'[j].step = "issuing" => task[j].step = "issuing" /\ task'[j].of = task[j].of
    BY <1>1, <1>4, <2>1 DEF Closing, Placing
  <2>3. Apart /\ ("blurred" \notin history' => \A j \in Tasks : ~Closing(j)' /\ (Placing(j)' => j = i))
    BY <1>2, <2>2 DEF Sound
  <2> QED BY <1>2, <2>2, <2>3 DEF Apart
<1>9. faults' \in 0..MaxFaults /\ task[i].step = "idle"
  BY <1>1 DEF Sound, Shape, Idle
<1> QED BY <1>1, <1>2, <1>6, <1>7, <1>8, <1>9, QuietStep DEF ClosingSteps

\* The decision, from the bills and what is on none.
LEMMA DecideCreditKeeps ==
  ASSUME Sound, NEW i \in Tasks, DecideCredit(i) PROVE Sound'
<1>1. /\ task[i].step = "weighing" /\ task[i] \in Task /\ task[i] \in Relying
      /\ UNCHANGED <<working, billedOn, status, lines, total, session, done, history, faults>>
  BY Now DEF DecideCredit, statements
<1>2. Onward /\ Owing' = Owing
  BY <1>1 DEF Onward, Owing
<1>3. PICK S \in SUBSET Orders :
         IF task[i].saw + Cardinality(Unbilled) + Cardinality(S) > Limit
         THEN Stop(i) ELSE Begin(i, [Idle EXCEPT !.step = "accepting", !.todo = S])
  BY DEF DecideCredit
<1> DEFINE t == [Idle EXCEPT !.step = "accepting", !.todo = S]
<1>4. t \in Task /\ t.step = "accepting" /\ t.todo = S
  BY IdleFits DEF Task, Steps
<1>5. /\ task' = [task EXCEPT ![i] = task'[i]]
      /\ \/ task'[i] = Idle
         \/ task'[i] = t /\ task[i].saw + Cardinality(Unbilled) + Cardinality(S) <= Limit
  <2>1. /\ task[i].saw \in Nat /\ Cardinality(Unbilled) \in Nat /\ Cardinality(S) \in Nat
        /\ Limit \in Nat
    <3>1. Unbilled \subseteq Orders /\ S \subseteq Orders
      BY DEF Unbilled, Sound, Shape
    <3> QED BY <1>1, <3>1, PartsAreFinite, StatementAssumption DEF Task
  <2> HIDE DEF t
  <2>2. CASE Stop(i)
    BY <2>2 DEF Stop, Begin, Sound, Shape
  <2>3. CASE Begin(i, t) /\ ~(task[i].saw + Cardinality(Unbilled) + Cardinality(S) > Limit)
    BY <2>1, <2>3 DEF Begin, Sound, Shape
  <2> QED BY <1>3, <2>2, <2>3 DEF t
<1>6. ASSUME Clear', task[i].saw + Cardinality(Unbilled) + Cardinality(S) <= Limit
      PROVE  Cardinality(Owing \cup S) <= Limit
  <2>1. Cardinality(Owing) <= task[i].saw + Cardinality(Unbilled)
    BY <1>1, <1>2, <1>6, FlagsOnward DEF Relying
  <2>2. Owing \subseteq Orders /\ Unbilled \subseteq Orders
    BY DEF Owing, Unbilled, Sound, Shape
  <2>3. Cardinality(Owing \cup S) <= Cardinality(Owing) + Cardinality(S)
    BY <2>2, UnionBound
  <2>4. /\ Cardinality(Owing) \in Nat /\ Cardinality(S) \in Nat /\ Cardinality(Unbilled) \in Nat
        /\ Cardinality(Owing \cup S) \in Nat /\ task[i].saw \in Nat /\ Limit \in Nat
    BY <1>1, <2>2, PartsAreFinite, StatementAssumption DEF Task
  <2> QED BY <1>6, <2>1, <2>3, <2>4
<1> HIDE DEF t
<1>7. task'[i] \in Fitting' /\ task'[i] \in Relying'
  <2>1. CASE task'[i] = Idle
    BY <2>1, IdleFits
  <2>2. CASE task'[i] = t /\ task[i].saw + Cardinality(Unbilled) + Cardinality(S) <= Limit
    BY <1>2, <1>4, <1>6, <2>2 DEF Fitting, Relying
  <2> QED BY <1>5, <2>1, <2>2
<1>8. Apart'
  <2>1. ~Closing(i)' /\ Placing(i) /\ task'[i].step # "issuing"
    BY <1>1, <1>4, <1>5 DEF Closing, Placing, Idle
  <2> QED BY <1>1, <1>5, <2>1, ApartKept
<1>9. faults' \in 0..MaxFaults /\ history' \subseteq Flags
  BY <1>1 DEF Sound, Shape
<1> QED BY <1>1, <1>5, <1>7, <1>8, <1>9, QuietStep DEF ClosingSteps

\* A close begins.
LEMMA CloseKeeps ==
  ASSUME Sound, NEW i \in Tasks, NEW p \in Periods, Close(i, p) PROVE Sound'
<1> DEFINE t == [Idle EXCEPT !.step = IF status[p] = "none" THEN "opening" ELSE "gathering", !.of = p]
<1>1. task[i] = Idle /\ task' = [task EXCEPT ![i] = t] /\ task'[i] = t
      /\ UNCHANGED <<working, billedOn, status, lines, total, session, done, faults>>
  BY DEF Close, Begin, Sound, Shape, statements
<1>2. /\ history \subseteq history' /\ history' \subseteq Flags
      /\ "blurred" \notin history' => \A j \in Tasks : ~Placing(j)
      /\ "crossed" \notin history' => \A j \in Tasks : Closing(j) => task[j].of = p
      /\ "together" \notin history' => \A j \in Tasks : Closing(j) => task[j].of # p
      /\ "doubled" \notin history' => "doubled" \notin history
  BY DEF Close, Sound, Shape, Flags
<1>3. /\ t \in Task /\ t.step \in {"opening", "gathering"} /\ t.of = p
      /\ t.step = "gathering" => status[p] # "none"
  BY IdleFits DEF Task, Steps
<1> HIDE DEF t
<1>4. t \in Fitting' /\ t \in Relying'
  BY <1>1, <1>3 DEF Fitting, Relying
<1>5. Apart'
  <2>1. \A j \in Tasks : j # i => task'[j] = task[j]
    BY <1>1 DEF Sound, Shape
  <2>2. ~Closing(i) /\ ~Placing(i)'
    BY <1>1, <1>3 DEF Closing, Placing, Idle
  <2>3. \A j \in Tasks :
          /\ Closing(j)' => \/ j = i /\ task'[j].of = p
                            \/ j # i /\ Closing(j) /\ task'[j].of = task[j].of
          /\ Placing(j)' => Placing(j)
          /\ task'[j].step = "issuing" => task[j].step = "issuing" /\ task'[j].of = task[j].of
    BY <1>1, <1>3, <2>1, <2>2 DEF Closing, Placing
  <2>4. Apart
    BY DEF Sound
  <2>5. ASSUME "together" \notin history'
        PROVE  \A j, k \in Tasks : Closing(j)' /\ Closing(k)' /\ task'[j].of = task'[k].of => j = k
    <3>1. \A j, k \in Tasks : Closing(j) /\ Closing(k) /\ task[j].of = task[k].of => j = k
      BY <1>2, <2>4, <2>5 DEF Apart
    <3> QED BY <1>2, <2>3, <2>5, <3>1
  <2>6. ASSUME "crossed" \notin history'
        PROVE  \A j, k \in Tasks : Closing(j)' /\ Closing(k)' => task'[j].of = task'[k].of
    BY <1>2, <2>3, <2>6
  <2>7. ASSUME "blurred" \notin history'
        PROVE  \A j, k \in Tasks : Placing(j)' /\ (Placing(k)' \/ Closing(k)') => j = k
    BY <1>2, <2>3, <2>7
  <2>8. ASSUME "doubled" \notin history'
        PROVE  \A j, k \in Tasks : task'[j].step = "issuing" /\ task'[k].step = "issuing"
                                   /\ task'[j].of = task'[k].of => j = k
    BY <1>2, <2>3, <2>4, <2>8 DEF Apart
  <2> QED BY <2>5, <2>6, <2>7, <2>8 DEF Apart
<1>6. faults' \in 0..MaxFaults /\ task[i].step = "idle"
  BY <1>1 DEF Sound, Shape, Idle
<1> QED BY <1>1, <1>2, <1>4, <1>5, <1>6, QuietStep DEF ClosingSteps

\* A record of a request that moves to another step is one.
LEMMA TaskMoves ==
  ASSUME NEW t \in Task, NEW s \in Steps
  PROVE  /\ [t EXCEPT !.step = s] \in Task /\ [t EXCEPT !.step = s].step = s
         /\ [t EXCEPT !.step = s].of = t.of /\ [t EXCEPT !.step = s].todo = t.todo
  BY DEF Task

\* The orders are gathered.
LEMMA GatherKeeps ==
  ASSUME Sound, NEW i \in Tasks, Gather(i) PROVE Sound'
<1> DEFINE t == [task[i] EXCEPT !.step = "lining", !.todo = Unbilled]
<1>1. /\ task[i].step = "gathering" /\ task' = [task EXCEPT ![i] = t] /\ task'[i] = t
      /\ UNCHANGED <<working, billedOn, status, lines, total, session, done, history, faults>>
      /\ task[i] \in Task /\ task[i] \in Fitting
  BY Now DEF Gather, Begin, Sound, Shape, statements
<1>2. Unbilled \subseteq working /\ working \subseteq Orders /\ Unbilled' = Unbilled
  BY <1>1 DEF Unbilled, Sound, Shape
<1>3. t \in Task /\ t.step = "lining" /\ t.of = task[i].of /\ t.todo = Unbilled
  BY <1>1, <1>2 DEF Task, Steps
<1> HIDE DEF t
<1>4. t.of \in Periods /\ status[t.of] # "none"
  BY <1>1, <1>3 DEF Fitting
<1>5. t \in Fitting'
  BY <1>1, <1>2, <1>3, <1>4 DEF Fitting
<1>6. Uncrossed => \A o \in Unbilled : \A q \in Periods : o \in lines[q] => q = t.of
  <2> SUFFICES ASSUME Uncrossed, NEW o \in Unbilled, NEW q \in Periods, o \in lines[q]
               PROVE  q = t.of
    OBVIOUS
  <2>1. billedOn[o] # q
    BY StatementAssumption DEF Unbilled
  <2>2. PICK j \in Tasks : task[j].step = "claiming" /\ task[j].of = q
    BY <2>1 DEF Sound, LinesClaimed
  <2>3. Closing(i) /\ Closing(j)
    BY <1>1, <2>2 DEF Closing
  <2> QED BY <1>3, <2>2, <2>3 DEF Sound, Apart, Uncrossed
<1>7. t \in Relying'
  <2>1. Uncrossed' <=> Uncrossed
    BY <1>1 DEF Uncrossed
  <2> QED BY <1>1, <1>2, <1>3, <1>6, <2>1 DEF Relying
<1>8. Apart'
  <2>1. Closing(i) /\ ~Placing(i)' /\ task'[i].step # "issuing" /\ task'[i].of = task[i].of
    BY <1>1, <1>3 DEF Closing, Placing
  <2> QED BY <1>1, <2>1, ApartKept
<1>9. faults' \in 0..MaxFaults /\ history' \subseteq Flags
  BY <1>1 DEF Sound, Shape
<1> QED BY <1>1, <1>3, <1>5, <1>7, <1>8, <1>9, QuietStep DEF ClosingSteps

\* The lines are counted.
LEMMA TotalLinesKeeps ==
  ASSUME Sound, NEW i \in Tasks, TotalLines(i) PROVE Sound'
<1> DEFINE t == [task[i] EXCEPT !.step = "heading", !.saw = Cardinality(lines[task[i].of])]
<1>1. /\ task[i].step = "totalling" /\ task' = [task EXCEPT ![i] = t] /\ task'[i] = t
      /\ UNCHANGED <<working, billedOn, status, lines, total, session, done, history, faults>>
      /\ task[i] \in Task /\ task[i] \in Fitting /\ task[i] \in Relying
  BY Now DEF TotalLines, Begin, Sound, Shape, statements
<1>2. task[i].of \in Periods /\ status[task[i].of] # "none" /\ lines[task[i].of] \subseteq Orders
  BY <1>1 DEF Fitting, Sound, Shape
<1>3. Cardinality(lines[task[i].of]) \in 0..Cardinality(Orders) /\ Cardinality(lines[task[i].of]) \in Nat
  <2>1. Cardinality(Orders) \in Nat
    BY FS_CardinalityType, StatementAssumption
  <2> QED BY <1>2, <2>1, PartsAreFinite
<1>4. t \in Task /\ t.step = "heading" /\ t.of = task[i].of /\ t.saw = Cardinality(lines[task[i].of])
  BY <1>1, <1>3 DEF Task, Steps
<1> HIDE DEF t
<1>5. t \in Fitting'
  BY <1>1, <1>2, <1>3, <1>4 DEF Fitting
<1>6. t \in Relying'
  <2>1. (Clear' => Clear) /\ Unbilled' = Unbilled
    BY <1>1 DEF Clear, Uncrossed, Unbilled
  <2> QED BY <1>1, <1>4, <2>1 DEF Relying
<1>7. Apart'
  <2>1. Closing(i) /\ ~Placing(i)' /\ task'[i].step # "issuing" /\ task'[i].of = task[i].of
    BY <1>1, <1>4 DEF Closing, Placing
  <2> QED BY <1>1, <2>1, ApartKept
<1>8. faults' \in 0..MaxFaults /\ history' \subseteq Flags
  BY <1>1 DEF Sound, Shape
<1> QED BY <1>1, <1>4, <1>5, <1>6, <1>7, <1>8, QuietStep DEF ClosingSteps

\* A job issues a statement.
LEMMA IssueKeeps ==
  ASSUME Sound, NEW i \in Tasks, NEW p \in Periods, Issue(i, p) PROVE Sound'
<1> DEFINE t == [Idle EXCEPT !.step = "issuing", !.of = p]
<1>1. task[i] = Idle /\ task' = [task EXCEPT ![i] = t] /\ task'[i] = t /\ status[p] = "open"
      /\ UNCHANGED <<working, billedOn, status, lines, total, session, done, faults>>
  BY DEF Issue, Issuable, Begin, Sound, Shape, statements
<1>2. /\ history \subseteq history' /\ history' \subseteq Flags
      /\ "doubled" \notin history' => \A j \in Tasks : ~(task[j].step = "issuing" /\ task[j].of = p)
      /\ \A f \in {"together", "crossed", "blurred"} : f \in history' => f \in history
  BY DEF Issue, Sound, Shape, Flags
<1>3. t \in Task /\ t.step = "issuing" /\ t.of = p
  BY IdleFits DEF Task, Steps
<1> HIDE DEF t
<1>4. t \in Fitting' /\ t \in Relying'
  BY <1>1, <1>3 DEF Fitting, Relying
<1>5. Apart'
  <2>1. \A j \in Tasks : j # i => task'[j] = task[j]
    BY <1>1 DEF Sound, Shape
  <2>2. \A j \in Tasks :
          /\ Closing(j)' => Closing(j) /\ task'[j].of = task[j].of
          /\ Placing(j)' => Placing(j)
          /\ task'[j].step = "issuing" => \/ j = i /\ task'[j].of = p
                                          \/ task[j].step = "issuing" /\ task'[j].of = task[j].of
    BY <1>1, <1>3, <2>1 DEF Closing, Placing
  <2>3. Apart
    BY DEF Sound
  <2>4. ASSUME "together" \notin history'
        PROVE  \A j, k \in Tasks : Closing(j)' /\ Closing(k)' /\ task'[j].of = task'[k].of => j = k
    BY <1>2, <2>2, <2>3, <2>4 DEF Apart
  <2>5. ASSUME "crossed" \notin history'
        PROVE  \A j, k \in Tasks : Closing(j)' /\ Closing(k)' => task'[j].of = task'[k].of
    BY <1>2, <2>2, <2>3, <2>5 DEF Apart
  <2>6. ASSUME "blurred" \notin history'
        PROVE  \A j, k \in Tasks : Placing(j)' /\ (Placing(k)' \/ Closing(k)') => j = k
    BY <1>2, <2>2, <2>3, <2>6 DEF Apart
  <2>7. ASSUME "doubled" \notin history'
        PROVE  \A j, k \in Tasks : task'[j].step = "issuing" /\ task'[k].step = "issuing"
                                   /\ task'[j].of = task'[k].of => j = k
    BY <1>2, <2>2, <2>3, <2>7 DEF Apart
  <2> QED BY <2>4, <2>5, <2>6, <2>7 DEF Apart
<1>6. faults' \in 0..MaxFaults /\ task[i].step = "idle"
  BY <1>1 DEF Sound, Shape, Idle
<1> QED BY <1>1, <1>2, <1>4, <1>5, <1>6, QuietStep DEF ClosingSteps

\* The customer asks to pay a statement, and Stripe says that it was paid.
LEMMA PaymentBeginKeeps ==
  ASSUME Sound, NEW i \in Tasks, NEW p \in Periods, StartCheckout(i, p) \/ Receive(i, p)
  PROVE  Sound'
<1>1. /\ task[i] = Idle /\ task[i].step = "idle"
      /\ UNCHANGED <<working, billedOn, status, lines, total, session, done, history, faults>>
  BY DEF StartCheckout, Receive, Idle, statements
<1>2. PICK t \in Task : /\ task' = [task EXCEPT ![i] = t] /\ task'[i] = t /\ t.of = p
                        /\ \/ t.step = "checking" /\ Issued(p)
                           \/ t.step = "paying" /\ session[p].state = "paid"
  <2>1. CASE StartCheckout(i, p)
    <3> DEFINE t == [Idle EXCEPT !.step = "checking", !.of = p, !.saw = total[p]]
    <3>1. total[p] \in Nat
      <4>1. Cardinality(Orders) \in Nat
        BY FS_CardinalityType, StatementAssumption
      <4> QED BY <4>1 DEF Sound, Shape
    <3>2. t \in Task /\ t.step = "checking" /\ t.of = p
      BY <3>1, IdleFits DEF Task, Steps
    <3>3. task' = [task EXCEPT ![i] = t] /\ task'[i] = t /\ Issued(p)
      BY <2>1 DEF StartCheckout, Begin, Sound, Shape, Issued
    <3> HIDE DEF t
    <3> QED BY <3>2, <3>3
  <2>2. CASE Receive(i, p)
    <3> DEFINE t == [Idle EXCEPT !.step = "paying", !.of = p, !.seen = status[p]]
    <3>1. status[p] \in StatementStatuses
      BY DEF Sound, Shape
    <3>2. t \in Task /\ t.step = "paying" /\ t.of = p
      BY <3>1, IdleFits DEF Task, Steps
    <3>3. task' = [task EXCEPT ![i] = t] /\ task'[i] = t /\ session[p].state = "paid"
      BY <2>2 DEF Receive, Begin, Sound, Shape
    <3> HIDE DEF t
    <3> QED BY <3>2, <3>3
  <2> QED BY <2>1, <2>2
<1>3. t \in Fitting' /\ t \in Relying'
  BY <1>1, <1>2 DEF Fitting, Relying, Issued
<1>4. Apart'
  <2>1. ~Closing(i)' /\ ~Placing(i)' /\ task'[i].step # "issuing"
    BY <1>2 DEF Closing, Placing
  <2>2. task' = [task EXCEPT ![i] = task'[i]]
    BY <1>2
  <2> QED BY <1>1, <2>1, <2>2, ApartKept
<1>5. faults' \in 0..MaxFaults /\ history' \subseteq Flags
  BY <1>1 DEF Sound, Shape
<1>6. task' = [task EXCEPT ![i] = task'[i]]
  BY <1>2
<1> QED BY <1>1, <1>2, <1>3, <1>4, <1>5, <1>6, QuietStep DEF ClosingSteps

\* A request stops.
LEMMA KillKeeps ==
  ASSUME Sound, NEW i \in Tasks, Kill(i) PROVE Sound'
<1>1. /\ task' = [task EXCEPT ![i] = task'[i]] /\ task'[i] = Idle
      /\ UNCHANGED <<working, billedOn, status, lines, total, session, done>>
  BY DEF Kill, Stop, Begin, Sound, Shape, statements
<1>2. faults' \in 0..MaxFaults /\ faults' > 0 /\ history \subseteq history' /\ history' \subseteq Flags
  BY StatementAssumption DEF Kill, Fault, Sound, Shape, Flags
<1>3. task'[i] \in Fitting' /\ task'[i] \in Relying'
  BY <1>1, IdleFits
<1>4. Apart'
  <2>1. ~Closing(i)' /\ ~Placing(i)' /\ task'[i].step # "issuing"
    BY <1>1 DEF Closing, Placing, Idle
  <2> QED BY <1>1, <1>2, <2>1, ApartKept
<1> QED BY <1>1, <1>2, <1>3, <1>4, QuietStep

-----------------------------------------------------------------------------
\* The steps that write.

\* What a step leaves of the requests that take none.
LEMMA Others ==
  ASSUME Sound, NEW i \in Tasks, task' = [task EXCEPT ![i] = task'[i]],
         Onward, task'[i] \in Fitting', task'[i] \in Relying',
         \A j \in Tasks : j # i => task[j] \in Relying'
  PROVE  /\ \A j \in Tasks : task'[j] \in Fitting' /\ task'[j] \in Relying'
         /\ task' \in [Tasks -> Task]
         /\ \A j \in Tasks : j # i => task'[j] = task[j]
<1>1. \A j \in Tasks : j # i => task'[j] = task[j]
  BY DEF Sound, Shape
<1>2. \A j \in Tasks : task'[j] \in Fitting' /\ task'[j] \in Relying'
  BY <1>1, Now, FittingOnward
<1>3. task'[i] \in Task
  BY DEF Fitting
<1> QED BY <1>1, <1>2, <1>3 DEF Sound, Shape

\* An order is accepted.
LEMMA AcceptOnInvoiceKeeps ==
  ASSUME Sound, NEW i \in Tasks, NEW o \in Orders, AcceptOnInvoice(i, o) PROVE Sound'
<1>1. /\ task[i].step = "accepting" /\ o \in task[i].todo /\ working' = working \cup {o}
      /\ UNCHANGED <<billedOn, status, lines, total, session, done, history, faults>>
      /\ task[i] \in Task /\ task[i] \in Relying
  BY Now DEF AcceptOnInvoice, statements
<1> DEFINE t == [task[i] EXCEPT !.todo = task[i].todo \ {o}]
<1>2. /\ task' = [task EXCEPT ![i] = task'[i]]
      /\ task'[i] = Idle \/ task'[i] = t
  BY DEF AcceptOnInvoice, Stop, Begin, Sound, Shape
<1>3. t \in Task /\ t.step = "accepting" /\ t.todo = task[i].todo \ {o}
  BY <1>1 DEF Task
<1> HIDE DEF t
<1>4. Onward /\ (Clear' => Clear)
  BY <1>1 DEF Onward, Clear, Uncrossed
<1>5. Owing' \subseteq Owing \cup task[i].todo /\ Owing \cup task[i].todo \subseteq Orders
  BY <1>1 DEF Owing, Sound, Shape, Task
<1>6. Clear => Cardinality(Owing') <= Limit /\ Cardinality(Owing' \cup (task[i].todo \ {o})) <= Limit
  <2> SUFFICES ASSUME Clear
               PROVE  Cardinality(Owing') <= Limit /\ Cardinality(Owing' \cup (task[i].todo \ {o})) <= Limit
    OBVIOUS
  <2>1. Cardinality(Owing \cup task[i].todo) <= Limit
    BY <1>1 DEF Relying
  <2>2. \A S \in SUBSET (Owing \cup task[i].todo) : Cardinality(S) <= Limit
    <3>1. Cardinality(Owing \cup task[i].todo) \in Nat /\ Limit \in Nat
      BY <1>5, PartsAreFinite, StatementAssumption
    <3>2. \A S \in SUBSET (Owing \cup task[i].todo) :
             Cardinality(S) \in Nat /\ Cardinality(S) <= Cardinality(Owing \cup task[i].todo)
      BY <1>5, PartsAreFinite
    <3> QED BY <2>1, <3>1, <3>2
  <2> QED BY <1>5, <2>2
<1>7. task'[i] \in Fitting' /\ task'[i] \in Relying'
  <2>1. CASE task'[i] = Idle
    BY <2>1, IdleFits
  <2>2. CASE task'[i] = t
    BY <1>3, <1>4, <1>6, <2>2 DEF Fitting, Relying
  <2> QED BY <1>2, <2>1, <2>2
<1>8. ASSUME NEW j \in Tasks, j # i PROVE task[j] \in Relying'
  <2>1. Clear => ~Placing(j) /\ ~Closing(j)
    BY <1>1, <1>8 DEF Sound, Apart, Clear, Placing
  <2>2. Clear => task[j].step \notin {"lining", "claiming", "totalling", "heading", "weighing", "accepting"}
    BY <2>1 DEF Placing, Closing
  <2>3. /\ task[j] \in Task /\ task[j] \in Relying
        /\ (Uncrossed' <=> Uncrossed) /\ (Tidy' <=> Tidy)
    BY <1>1, Now DEF Uncrossed, Tidy, Clear
  <2> QED BY <1>1, <1>4, <2>2, <2>3 DEF Relying
<1>9. /\ \A j \in Tasks : task'[j] \in Fitting' /\ task'[j] \in Relying'
      /\ task' \in [Tasks -> Task] /\ \A j \in Tasks : j # i => task'[j] = task[j]
  BY <1>2, <1>4, <1>7, <1>8, Others
<1>10. Shape'
  BY <1>1, <1>9 DEF Sound, Shape
<1>11. Books'
  BY <1>1 DEF Sound, Books, Issued
<1>12. Apart'
  <2>1. ~Closing(i)' /\ Placing(i) /\ task'[i].step # "issuing"
    BY <1>1, <1>2, <1>3 DEF Closing, Placing, Idle
  <2> QED BY <1>1, <1>2, <2>1, ApartKept
<1>13. LinesClaimed' /\ HeadersWritten'
  <2>1. \A j \in Tasks : task[j].step \in ClosingSteps => task'[j] = task[j]
    BY <1>1, <1>9 DEF ClosingSteps
  <2>2. LinesClaimed'
    BY <1>1, <2>1 DEF Sound, LinesClaimed, Uncrossed, ClosingSteps
  <2>3. HeadersWritten'
    BY <1>1, <2>1 DEF Sound, HeadersWritten, Tidy, Clear, Uncrossed
  <2> QED BY <2>2, <2>3
<1>14. BilledOnceUnlessCrossed'
  BY <1>1 DEF Sound, BilledOnceUnlessCrossed, BilledTwice
<1> QED BY <1>4, <1>6, <1>9, <1>10, <1>11, <1>12, <1>13, <1>14 DEF Sound

\* A statement is opened, or the one there is used, or left.
LEMMA OpenStatementKeeps ==
  ASSUME Sound, NEW i \in Tasks, OpenStatement(i) PROVE Sound'
<1> DEFINE p == task[i].of
<1>1. /\ task[i].step = "opening" /\ task[i] \in Task /\ p \in Periods
      /\ status' = [status EXCEPT ![p] = IF status[p] = "none" THEN "open" ELSE status[p]]
      /\ UNCHANGED <<working, billedOn, lines, total, session, done, history, faults>>
  BY Now DEF OpenStatement, Fitting
<1> DEFINE t == [task[i] EXCEPT !.step = "gathering"]
<1>2. /\ task' = [task EXCEPT ![i] = task'[i]]
      /\ task'[i] = Idle \/ task'[i] = t
  BY DEF OpenStatement, Goto, Stop, Begin, Sound, Shape
<1>3. t \in Task /\ t.step = "gathering" /\ t.of = p
  BY <1>1, TaskMoves DEF Steps
<1>4. /\ \A q \in Periods : status[q] # "none" => status'[q] = status[q]
      /\ \A q \in Periods : status[q] = "none" => status'[q] \in {"none", "open"}
      /\ status'[p] # "none" /\ status' \in [Periods -> StatementStatuses]
  BY <1>1 DEF Sound, Shape, StatementStatuses
<1> HIDE DEF t, p
<1>5. Onward
  BY <1>1, <1>4 DEF Onward
<1>6. task'[i] \in Fitting' /\ task'[i] \in Relying'
  <2>1. CASE task'[i] = Idle
    BY <2>1, IdleFits
  <2>2. CASE task'[i] = t
    BY <1>1, <1>3, <1>4, <2>2 DEF Fitting, Relying
  <2> QED BY <1>2, <2>1, <2>2
<1>7. \A j \in Tasks : j # i => task[j] \in Relying'
  BY <1>1, <1>4, <1>5, Now, RelyingKept
<1>8. /\ \A j \in Tasks : task'[j] \in Fitting' /\ task'[j] \in Relying'
      /\ task' \in [Tasks -> Task] /\ \A j \in Tasks : j # i => task'[j] = task[j]
  BY <1>2, <1>5, <1>6, <1>7, Others
<1>9. Shape'
  BY <1>1, <1>4, <1>8 DEF Sound, Shape
<1>10. Books'
  BY <1>1, <1>4 DEF Sound, Books, Issued
<1>11. Apart'
  <2>1. /\ Closing(i) /\ ~Placing(i)' /\ task'[i].step # "issuing"
        /\ Closing(i)' => task'[i].of = task[i].of
    BY <1>1, <1>2, <1>3 DEF Closing, Placing, Idle, p
  <2> QED BY <1>1, <1>2, <2>1, ApartKept
<1>12. LinesClaimed'
  <2>1. \A j \in Tasks : task[j].step = "claiming" => task'[j] = task[j]
    BY <1>1, <1>8
  <2> QED BY <1>1, <2>1 DEF Sound, LinesClaimed, Uncrossed
<1>13. HeadersWritten'
  <2>1. \A j \in Tasks : task[j].step \in ClosingSteps \ {"opening"} => task'[j] = task[j]
    BY <1>1, <1>8
  <2> QED BY <1>1, <2>1 DEF Sound, HeadersWritten, Tidy, Clear, Uncrossed
<1>14. BilledOnceUnlessCrossed'
  BY <1>1 DEF Sound, BilledOnceUnlessCrossed, BilledTwice
<1>15. Clear' => Cardinality(Owing') <= Limit
  BY <1>1 DEF Sound, Clear, Uncrossed, Owing
<1> QED BY <1>8, <1>9, <1>10, <1>11, <1>12, <1>13, <1>14, <1>15 DEF Sound

\* The sum of the lines is written on the statement.
LEMMA WriteTotalKeeps ==
  ASSUME Sound, NEW i \in Tasks, WriteTotal(i) PROVE Sound'
<1> DEFINE p == task[i].of
<1>1. /\ task[i].step = "heading" /\ task[i] \in Task /\ task[i] \in Fitting /\ task[i] \in Relying
      /\ total' = [total EXCEPT ![p] = task[i].saw]
      /\ UNCHANGED <<working, billedOn, status, lines, session, done, history, faults>>
  BY Now DEF WriteTotal
<1>2. task' = [task EXCEPT ![i] = task'[i]] /\ task'[i] = Idle
  BY DEF WriteTotal, Stop, Begin, Sound, Shape
<1>3. /\ p \in Periods /\ status[p] # "none" /\ task[i].saw \in 0..Cardinality(Orders)
      /\ Tidy => task[i].saw = Cardinality(lines[p])
  BY <1>1 DEF Fitting, Relying
<1>4. /\ \A q \in Periods : q # p => total'[q] = total[q]
      /\ total'[p] = task[i].saw /\ total' \in [Periods -> 0..Cardinality(Orders)]
  BY <1>1, <1>3 DEF Sound, Shape
<1>5. Onward
  BY <1>1 DEF Onward
<1>6. task'[i] \in Fitting' /\ task'[i] \in Relying'
  BY <1>2, IdleFits
<1>7. \A j \in Tasks : j # i => task[j] \in Relying'
  BY <1>1, <1>5, Now, RelyingKept
<1>8. /\ \A j \in Tasks : task'[j] \in Fitting' /\ task'[j] \in Relying'
      /\ task' \in [Tasks -> Task] /\ \A j \in Tasks : j # i => task'[j] = task[j]
  BY <1>2, <1>5, <1>6, <1>7, Others
<1> HIDE DEF p
<1>9. Shape'
  BY <1>1, <1>4, <1>8 DEF Sound, Shape
<1>10. Books'
  BY <1>1, <1>3, <1>4 DEF Sound, Books, Issued
<1>11. Apart'
  <2>1. ~Closing(i)' /\ ~Placing(i)' /\ task'[i].step # "issuing"
    BY <1>2 DEF Closing, Placing, Idle
  <2> QED BY <1>1, <1>2, <2>1, ApartKept
<1>12. LinesClaimed'
  <2>1. \A j \in Tasks : task[j].step = "claiming" => task'[j] = task[j]
    BY <1>1, <1>8
  <2> QED BY <1>1, <2>1 DEF Sound, LinesClaimed, Uncrossed
<1>13. HeadersWritten'
  <2> SUFFICES ASSUME Tidy', NEW q \in Periods, total'[q] # Cardinality(lines[q])
               PROVE  \E j \in Tasks : task'[j].step \in ClosingSteps \ {"opening"} /\ task'[j].of = q
    BY <1>1 DEF HeadersWritten
  <2>1. Tidy
    BY <1>5, FlagsOnward
  <2>2. q # p
    BY <1>3, <1>4, <2>1
  <2>3. PICK j \in Tasks : task[j].step \in ClosingSteps \ {"opening"} /\ task[j].of = q
    BY <1>4, <2>1, <2>2 DEF Sound, HeadersWritten
  <2>4. j # i
    BY <2>2, <2>3 DEF p
  <2> QED BY <1>8, <2>3, <2>4
<1>14. BilledOnceUnlessCrossed'
  BY <1>1 DEF Sound, BilledOnceUnlessCrossed, BilledTwice
<1>15. Clear' => Cardinality(Owing') <= Limit
  BY <1>1 DEF Sound, Clear, Uncrossed, Owing
<1> QED BY <1>8, <1>9, <1>10, <1>11, <1>12, <1>13, <1>14, <1>15 DEF Sound

\* A line is added; nothing is left to add; or a line fails.
LEMMA AddLineKeeps ==
  ASSUME Sound, NEW i \in Tasks, AddLine(i) PROVE Sound'
<1> DEFINE p == task[i].of
<1>1. /\ task[i].step = "lining" /\ task[i] \in Task /\ task[i] \in Fitting /\ task[i] \in Relying
      /\ UNCHANGED <<working, billedOn, status, total, session, done>>
      /\ p \in Periods /\ status[p] # "none" /\ task[i].todo \subseteq working
  BY Now DEF AddLine, Fitting
<1>2. CASE task[i].todo = {} /\ Goto(i, "totalling") /\ UNCHANGED <<lines, history, faults>>
  <2> DEFINE t == [task[i] EXCEPT !.step = "totalling"]
  <2>1. task' = [task EXCEPT ![i] = t] /\ task'[i] = t
    BY <1>2 DEF Goto, Sound, Shape
  <2>2. t \in Task /\ t.step = "totalling" /\ t.of = p /\ t.todo = {}
    BY <1>1, <1>2, TaskMoves DEF Steps
  <2> HIDE DEF t
  <2>3. (Clear' => Clear) /\ Unbilled' = Unbilled
    BY <1>1, <1>2 DEF Clear, Uncrossed, Unbilled
  <2>4. Clear => Unbilled \subseteq lines[p]
    BY <1>1, <1>2 DEF Relying
  <2>5. t \in Fitting' /\ t \in Relying'
    BY <1>1, <1>2, <2>2, <2>3, <2>4 DEF Fitting, Relying
  <2>6. Apart'
    <3>1. Closing(i) /\ ~Placing(i)' /\ task'[i].step # "issuing" /\ task'[i].of = task[i].of
      BY <1>1, <2>1, <2>2 DEF Closing, Placing
    <3>2. task' = [task EXCEPT ![i] = task'[i]]
      BY <2>1
    <3> QED BY <1>2, <3>1, <3>2, ApartKept
  <2>7. faults' \in 0..MaxFaults /\ history' \subseteq Flags
    BY <1>2 DEF Sound, Shape
  <2>8. task' = [task EXCEPT ![i] = task'[i]]
    BY <2>1
  <2> QED BY <1>1, <1>2, <2>1, <2>2, <2>5, <2>6, <2>7, <2>8, QuietStep DEF ClosingSteps
<1>3. ASSUME NEW o \in task[i].todo, Begin(i, [task[i] EXCEPT !.todo = @ \ {o}]), Fault,
             UNCHANGED <<lines, history>>
      PROVE  Sound'
  <2> DEFINE t == [task[i] EXCEPT !.todo = task[i].todo \ {o}]
  <2>1. task' = [task EXCEPT ![i] = t] /\ task'[i] = t
    BY <1>3 DEF Begin, Sound, Shape
  <2>2. t \in Task /\ t.step = "lining" /\ t.of = p /\ t.todo \subseteq task[i].todo
    BY <1>1 DEF Task
  <2> HIDE DEF t
  <2>3. faults' \in 0..MaxFaults /\ faults' # 0
    BY <1>3, StatementAssumption DEF Fault, Sound, Shape
  <2>4. ~Clear' /\ ~Uncrossed' /\ ~Tidy'
    BY <2>3 DEF Clear, Uncrossed, Tidy
  <2>5. t \in Fitting' /\ t \in Relying'
    BY <1>1, <2>2, <2>4 DEF Fitting, Relying
  <2>6. Apart'
    <3>1. Closing(i) /\ ~Placing(i)' /\ task'[i].step # "issuing" /\ task'[i].of = task[i].of
      BY <1>1, <2>1, <2>2 DEF Closing, Placing
    <3>2. task' = [task EXCEPT ![i] = task'[i]]
      BY <2>1
    <3> QED BY <1>3, <3>1, <3>2, ApartKept
  <2>7. history' \subseteq Flags
    BY <1>3 DEF Sound, Shape
  <2>8. task' = [task EXCEPT ![i] = task'[i]]
    BY <2>1
  <2> QED BY <1>1, <1>3, <2>1, <2>3, <2>5, <2>6, <2>7, <2>8, QuietStep
<1>4. ASSUME NEW o \in task[i].todo,
             lines' = [lines EXCEPT ![p] = @ \cup {o}],
             history' = IF o \notin lines[p] /\ status[p] # "open" THEN history \cup {"late"} ELSE history,
             Begin(i, [task[i] EXCEPT !.step = "claiming", !.now = {o}, !.todo = @ \ {o}]),
             UNCHANGED faults
      PROVE  Sound'
  <2> DEFINE t == [task[i] EXCEPT !.step = "claiming", !.now = {o}, !.todo = task[i].todo \ {o}]
  <2>0. o \in working /\ o \in Orders
    BY <1>1 DEF Sound, Shape
  <2>1. task' = [task EXCEPT ![i] = t] /\ task'[i] = t
    BY <1>4 DEF Begin, Sound, Shape
  <2>2. t \in Task /\ t.step = "claiming" /\ t.of = p /\ t.todo = task[i].todo \ {o} /\ t.now = {o}
    BY <1>1, <2>0 DEF Task, Steps
  <2> HIDE DEF t, p
  <2>3. /\ lines'[p] = lines[p] \cup {o} /\ \A q \in Periods : q # p => lines'[q] = lines[q]
        /\ lines' \in [Periods -> SUBSET Orders]
    BY <1>1, <1>4, <2>0 DEF Sound, Shape
  <2>4. /\ history \subseteq history' /\ history' \subseteq Flags
        /\ \A f \in {"crossed", "blurred", "together", "doubled"} : f \in history' => f \in history
        /\ "late" \notin history' => o \in lines[p] \/ status[p] = "open"
    BY <1>4 DEF Sound, Shape, Flags
  <2>5. Onward
    BY <1>1, <1>4, <2>3, <2>4 DEF Onward
  <2>6. Unbilled' = Unbilled /\ Owing' \subseteq Owing /\ Owing \subseteq Orders
    <3>1. \A q \in Periods : lines[q] \subseteq lines'[q]
      BY <2>3
    <3> QED BY <1>1, <3>1 DEF Unbilled, Owing, Sound, Shape
  <2>7. (Uncrossed' => Uncrossed) /\ (Clear' => Clear) /\ (Tidy' => Tidy)
    BY <2>5, FlagsOnward
  <2>8. Uncrossed => \A q \in Periods : o \in lines[q] => q = p
    BY <1>1 DEF Relying, p
  <2>9. t \in Fitting'
    BY <1>1, <2>2, <2>3 DEF Fitting
  <2>10. t \in Relying'
    <3>1. Uncrossed' => \A x \in t.todo : \A q \in Periods : x \in lines'[q] => q = t.of
      <4>1. Uncrossed => \A x \in task[i].todo : \A q \in Periods : x \in lines[q] => q = p
        BY <1>1 DEF Relying, p
      <4> QED BY <2>2, <2>3, <2>7, <4>1
    <3>2. Clear' => Unbilled' \subseteq t.todo \cup lines'[t.of]
      <4>1. Clear => Unbilled \subseteq task[i].todo \cup lines[p]
        BY <1>1 DEF Relying, p
      <4> QED BY <2>2, <2>3, <2>6, <2>7, <4>1
    <3> QED BY <2>2, <3>1, <3>2 DEF Relying
  <2>11. ASSUME NEW j \in Tasks, j # i PROVE task[j] \in Relying'
    <3>0. task[j] \in Task /\ task[j] \in Fitting /\ task[j] \in Relying
      BY Now
    <3>1. Closing(i) /\ ~Placing(i)
      BY <1>1 DEF Closing, Placing
    <3>2. Clear => ~Placing(j)
      BY <2>11, <3>1 DEF Sound, Apart, Clear
    <3>3. Uncrossed /\ Closing(j) => task[j].of = p
      BY <3>1 DEF Sound, Apart, Uncrossed, p
    <3>4. "doubled" \notin history' /\ task[j].step = "issuing" => status'[task[j].of] = "open"
      BY <1>1, <2>4, <3>0 DEF Relying
    <3>5. Uncrossed' /\ task[j].step \in {"lining", "claiming"} =>
            \A x \in task[j].todo : \A q \in Periods : x \in lines'[q] => q = task[j].of
      <4> SUFFICES ASSUME Uncrossed', task[j].step \in {"lining", "claiming"},
                          NEW x \in task[j].todo, NEW q \in Periods, x \in lines'[q]
                   PROVE  q = task[j].of
        OBVIOUS
      <4>1. Closing(j)
        BY DEF Closing
      <4>2. CASE q = p
        BY <2>7, <3>3, <4>1, <4>2
      <4>3. CASE q # p
        BY <2>3, <2>7, <3>0, <4>3 DEF Relying
      <4> QED BY <4>2, <4>3
    <3>6. \A q \in Periods : lines[q] \subseteq lines'[q]
      BY <2>3
    <3>7. task[j].step \in ClosingSteps => task[j].of \in Periods
      BY <3>0 DEF Fitting, ClosingSteps
    <3>8. Clear' /\ task[j].step \in {"lining", "claiming"} => Unbilled' \subseteq task[j].todo \cup lines'[task[j].of]
      BY <2>6, <2>7, <3>0, <3>6, <3>7 DEF Relying, ClosingSteps
    <3>9. Clear' /\ task[j].step \in {"totalling", "heading"} => Unbilled' \subseteq lines'[task[j].of]
      BY <2>6, <2>7, <3>0, <3>6, <3>7 DEF Relying, ClosingSteps
    <3>10. Tidy' /\ task[j].step = "heading" => task[j].saw = Cardinality(lines'[task[j].of])
      <4> SUFFICES ASSUME Tidy', task[j].step = "heading" PROVE lines'[task[j].of] = lines[task[j].of]
        BY <2>7, <3>0 DEF Relying
      <4>0. Closing(j)
        BY DEF Closing
      <4>1. CASE Clear
        <5>1. task[j].of = p
          BY <3>3, <4>0, <4>1 DEF Clear
        <5>2. CASE billedOn[o] = NoPeriod
          <6>1. o \in Unbilled
            BY <2>0, <5>2 DEF Unbilled
          <6>2. o \in lines[p]
            BY <3>0, <4>1, <5>1, <6>1 DEF Relying
          <6> QED BY <2>3, <5>1, <6>2
        <5>3. CASE billedOn[o] # NoPeriod
          <6>1. billedOn[o] \in Periods /\ o \in lines[billedOn[o]]
            BY <2>0, <5>3 DEF Sound, Shape, Books
          <6>2. o \in lines[p]
            BY <2>8, <4>1, <6>1 DEF Clear
          <6> QED BY <2>3, <5>1, <6>2
        <5> QED BY <5>2, <5>3
      <4>2. CASE "together" \notin history
        <5>1. task[j].of # p
          BY <2>11, <3>1, <4>0, <4>2 DEF Sound, Apart, p
        <5> QED BY <2>3, <3>7, <5>1 DEF ClosingSteps
      <4> QED BY <2>7, <4>1, <4>2 DEF Tidy
    <3>11. Clear' => task[j].step \notin {"weighing", "accepting"}
      BY <2>7, <3>2 DEF Placing
    <3> QED BY <3>0, <3>4, <3>5, <3>8, <3>9, <3>10, <3>11 DEF Relying
  <2>12. task' = [task EXCEPT ![i] = task'[i]]
    BY <2>1
  <2>13. /\ \A j \in Tasks : task'[j] \in Fitting' /\ task'[j] \in Relying'
         /\ task' \in [Tasks -> Task] /\ \A j \in Tasks : j # i => task'[j] = task[j]
    BY <2>1, <2>5, <2>9, <2>10, <2>11, <2>12, Others
  <2>14. Shape'
    BY <1>1, <1>4, <2>3, <2>4, <2>13 DEF Sound, Shape
  <2>15. Books'
    <3>1. \A q \in Periods : "late" \notin history' /\ session[q].state # "none"
                               => session[q].amount = Cardinality(lines'[q])
      <4> SUFFICES ASSUME NEW q \in Periods, "late" \notin history', session[q].state # "none"
                   PROVE  lines'[q] = lines[q]
        BY <2>4 DEF Sound, Books
      <4>1. status[q] # "open"
        BY DEF Sound, Books, Issued
      <4> QED BY <2>3, <2>4, <4>1
    <3>2. \A q \in Periods : lines'[q] \subseteq working
      BY <2>0, <2>3 DEF Sound, Books
    <3>3. \A q \in Periods : status[q] = "none" => lines'[q] = {}
      BY <1>1, <2>3 DEF Sound, Books, p
    <3>4. \A x \in Orders : billedOn[x] # NoPeriod => x \in lines'[billedOn[x]]
      <4>1. \A x \in Orders : billedOn[x] # NoPeriod => billedOn[x] \in Periods /\ x \in lines[billedOn[x]]
        BY DEF Sound, Shape, Books
      <4>2. \A q \in Periods : lines[q] \subseteq lines'[q]
        BY <2>3
      <4> QED BY <4>1, <4>2
    <3>5. "doubled" \notin history' => "doubled" \notin history
      BY <2>4
    <3> QED BY <1>1, <3>1, <3>2, <3>3, <3>4, <3>5 DEF Sound, Books, Issued
  <2>16. Apart'
    <3>1. Closing(i) /\ ~Placing(i)' /\ task'[i].step # "issuing" /\ task'[i].of = task[i].of
      BY <1>1, <2>1, <2>2 DEF Closing, Placing, p
    <3> QED BY <2>4, <2>12, <3>1, ApartKept
  <2>17. LinesClaimed'
    <3> SUFFICES ASSUME Uncrossed', NEW q \in Periods, NEW x \in lines'[q], billedOn[x] # q
                 PROVE  \E j \in Tasks : task'[j].step = "claiming" /\ x \in task'[j].now /\ task'[j].of = q
      BY <1>1 DEF LinesClaimed
    <3>1. CASE x \in lines[q]
      <4>1. PICK j \in Tasks : task[j].step = "claiming" /\ x \in task[j].now /\ task[j].of = q
        BY <2>7, <3>1 DEF Sound, LinesClaimed
      <4>2. j # i
        BY <1>1, <4>1
      <4> QED BY <2>13, <4>1, <4>2
    <3>2. CASE x \notin lines[q]
      <4>1. q = p /\ x = o
        BY <2>3, <3>2
      <4> QED BY <2>1, <2>2, <4>1
    <3> QED BY <3>1, <3>2
  <2>18. HeadersWritten'
    <3> SUFFICES ASSUME Tidy', NEW q \in Periods, total[q] # Cardinality(lines'[q])
                 PROVE  \E j \in Tasks : task'[j].step \in ClosingSteps \ {"opening"} /\ task'[j].of = q
      BY <1>1 DEF HeadersWritten
    <3>1. CASE q = p
      BY <2>1, <2>2, <3>1 DEF ClosingSteps
    <3>2. CASE q # p
      <4>1. PICK j \in Tasks : task[j].step \in ClosingSteps \ {"opening"} /\ task[j].of = q
        BY <2>3, <2>7, <3>2 DEF Sound, HeadersWritten
      <4>2. j # i
        BY <3>2, <4>1 DEF p
      <4> QED BY <2>13, <4>1, <4>2
    <3> QED BY <3>1, <3>2
  <2>19. BilledOnceUnlessCrossed'
    <3> SUFFICES ASSUME Uncrossed', NEW x \in Orders, NEW q \in Periods, NEW r \in Periods, q # r,
                        x \in lines'[q], x \in lines'[r]
                 PROVE  FALSE
      BY DEF BilledOnceUnlessCrossed, BilledTwice, Uncrossed
    <3>1. ~BilledTwice /\ Uncrossed
      BY <2>7 DEF Sound, BilledOnceUnlessCrossed, Uncrossed
    <3>2. ~(x \in lines[q] /\ x \in lines[r])
      BY <3>1 DEF BilledTwice
    <3> QED BY <2>3, <2>8, <3>1, <3>2
  <2>20. Clear' => Cardinality(Owing') <= Limit
    <3>1. /\ Cardinality(Owing') <= Cardinality(Owing)
          /\ Cardinality(Owing') \in Nat /\ Cardinality(Owing) \in Nat /\ Limit \in Nat
      BY <2>6, PartsAreFinite, StatementAssumption
    <3> QED BY <2>7, <3>1 DEF Sound
  <2> QED BY <2>13, <2>14, <2>15, <2>16, <2>17, <2>18, <2>19, <2>20 DEF Sound
<1> QED BY <1>2, <1>3, <1>4 DEF AddLine

\* The order is claimed.
LEMMA ClaimOrderKeeps ==
  ASSUME Sound, NEW i \in Tasks, ClaimOrder(i) PROVE Sound'
<1> DEFINE p == task[i].of
           t == [task[i] EXCEPT !.step = "lining", !.now = {}]
<1>1. /\ task[i].step = "claiming" /\ task[i] \in Task /\ task[i] \in Fitting /\ task[i] \in Relying
      /\ UNCHANGED <<working, status, lines, total, session, done, history>>
      /\ p \in Periods /\ status[p] # "none" /\ task[i].now \subseteq lines[p]
      /\ task[i].todo \subseteq working /\ task[i].todo \subseteq Orders
  BY Now DEF ClaimOrder, Fitting, statements, Task
<1>2. task' = [task EXCEPT ![i] = t] /\ task'[i] = t
  BY DEF ClaimOrder, Begin, Sound, Shape
<1>3. t \in Task /\ t.step = "lining" /\ t.of = p /\ t.todo = task[i].todo
  BY <1>1 DEF Task, Steps
<1> HIDE DEF t, p
<1>4. task' = [task EXCEPT ![i] = task'[i]]
  BY <1>2
<1>5. Apart'
  <2>1. Closing(i) /\ ~Placing(i)' /\ task'[i].step # "issuing" /\ task'[i].of = task[i].of
    BY <1>1, <1>2, <1>3 DEF Closing, Placing, p
  <2> QED BY <1>1, <1>4, <2>1, ApartKept
<1>6. t \in Fitting'
  BY <1>1, <1>3 DEF Fitting
<1>7. CASE UNCHANGED billedOn /\ Fault
  <2>1. faults' \in 0..MaxFaults /\ faults' # 0
    BY <1>7, StatementAssumption DEF Fault, Sound, Shape
  <2>2. ~Clear' /\ ~Uncrossed' /\ ~Tidy'
    BY <2>1 DEF Clear, Uncrossed, Tidy
  <2>3. t \in Relying'
    BY <1>3, <2>2 DEF Relying
  <2>4. history' \subseteq Flags
    BY <1>1 DEF Sound, Shape
  <2> QED BY <1>1, <1>2, <1>4, <1>5, <1>6, <1>7, <2>1, <2>3, <2>4, QuietStep
<1>8. CASE /\ billedOn' = [o \in Orders |-> IF o \in task[i].now THEN p ELSE billedOn[o]]
           /\ UNCHANGED faults
  <2>1. Onward /\ (Uncrossed' => Uncrossed) /\ (Clear' => Clear) /\ (Tidy' => Tidy)
    BY <1>1, <1>8 DEF Onward, Uncrossed, Clear, Tidy
  <2>2. Unbilled' \subseteq Unbilled /\ Owing' = Owing
    BY <1>1, <1>8, StatementAssumption DEF Unbilled, Owing, Sound, Shape
  <2>3. t \in Relying'
    BY <1>1, <1>3, <2>1, <2>2 DEF Relying, p
  <2>4. ASSUME NEW j \in Tasks, j # i PROVE task[j] \in Relying'
    <3>0. task[j] \in Task /\ task[j] \in Relying
      BY Now
    <3>1. Closing(i)
      BY <1>1 DEF Closing
    <3>2. Clear => ~Placing(j)
      BY <2>4, <3>1 DEF Sound, Apart, Clear
    <3>3. Clear => task[j].step \notin {"weighing", "accepting"}
      BY <3>2 DEF Placing
    <3> QED BY <1>1, <2>1, <2>2, <3>0, <3>3 DEF Relying
  <2>5. /\ \A j \in Tasks : task'[j] \in Fitting' /\ task'[j] \in Relying'
        /\ task' \in [Tasks -> Task] /\ \A j \in Tasks : j # i => task'[j] = task[j]
    BY <1>2, <1>4, <1>6, <2>1, <2>3, <2>4, Others
  <2>6. Shape'
    BY <1>1, <1>8, <2>5 DEF Sound, Shape
  <2>7. Books'
    <3>1. \A o \in Orders : billedOn'[o] # NoPeriod => o \in lines[billedOn'[o]]
      BY <1>1, <1>8 DEF Sound, Books
    <3> QED BY <1>1, <3>1 DEF Sound, Books, Issued
  <2>8. LinesClaimed'
    <3> SUFFICES ASSUME Uncrossed', NEW q \in Periods, NEW o \in lines[q], billedOn'[o] # q
                 PROVE  \E j \in Tasks : task'[j].step = "claiming" /\ o \in task'[j].now /\ task'[j].of = q
      BY <1>1 DEF LinesClaimed
    <3>0. o \in Orders /\ ~BilledTwice
      BY <2>1 DEF Sound, Shape, BilledOnceUnlessCrossed, Uncrossed
    <3>1. o \in task[i].now => q = p
      BY <1>1, <3>0 DEF BilledTwice
    <3>2. o \notin task[i].now /\ billedOn[o] # q
      BY <1>8, <3>0, <3>1
    <3>3. PICK j \in Tasks : task[j].step = "claiming" /\ o \in task[j].now /\ task[j].of = q
      BY <2>1, <3>2 DEF Sound, LinesClaimed
    <3>4. j # i
      BY <3>2, <3>3
    <3> QED BY <2>5, <3>3, <3>4
  <2>9. HeadersWritten'
    <3> SUFFICES ASSUME Tidy', NEW q \in Periods, total[q] # Cardinality(lines[q])
                 PROVE  \E j \in Tasks : task'[j].step \in ClosingSteps \ {"opening"} /\ task'[j].of = q
      BY <1>1 DEF HeadersWritten
    <3>1. PICK j \in Tasks : task[j].step \in ClosingSteps \ {"opening"} /\ task[j].of = q
      BY <2>1 DEF Sound, HeadersWritten
    <3>2. CASE j = i
      BY <1>2, <1>3, <3>1, <3>2 DEF ClosingSteps, p
    <3>3. CASE j # i
      BY <2>5, <3>1, <3>3
    <3> QED BY <3>2, <3>3
  <2>10. BilledOnceUnlessCrossed'
    BY <1>1, <1>8 DEF Sound, BilledOnceUnlessCrossed, BilledTwice
  <2>11. Clear' => Cardinality(Owing') <= Limit
    BY <2>1, <2>2 DEF Sound
  <2> QED BY <1>5, <2>5, <2>6, <2>7, <2>8, <2>9, <2>10, <2>11 DEF Sound
<1> QED BY <1>7, <1>8 DEF ClaimOrder, p


-----------------------------------------------------------------------------
\* Issuing and payment.

\* What issuing and payment leave alone: the lines, and who is closing what.
LEMMA LinesLeftAlone ==
  ASSUME Sound, UNCHANGED <<working, billedOn, lines, total, history, faults>>,
         \A j \in Tasks : task[j].step \in ClosingSteps => task'[j] = task[j]
  PROVE  LinesClaimed' /\ HeadersWritten' /\ BilledOnceUnlessCrossed'
<1>1. (Uncrossed' <=> Uncrossed) /\ (Tidy' <=> Tidy)
  BY DEF Uncrossed, Tidy, Clear
<1>2. LinesClaimed'
  BY <1>1 DEF Sound, LinesClaimed, ClosingSteps
<1>3. HeadersWritten'
  BY <1>1 DEF Sound, HeadersWritten
<1>4. BilledOnceUnlessCrossed'
  BY DEF Sound, BilledOnceUnlessCrossed, BilledTwice
<1> QED BY <1>2, <1>3, <1>4

\* A payment only lessens what is owed.
LEMMA OwingLessens ==
  ASSUME Sound, UNCHANGED <<working, billedOn, lines, history, faults>>, done \subseteq done'
  PROVE  /\ Unbilled' = Unbilled
         /\ Clear' => Cardinality(Owing') <= Limit
         /\ \A t \in Task :
               t \in Relying /\ ("doubled" \notin history /\ t.step = "issuing" => status'[t.of] = "open")
                  => t \in Relying'
<1>1. Owing' \subseteq Owing /\ Owing \subseteq Orders /\ Unbilled' = Unbilled
  BY DEF Owing, Unbilled, Sound, Shape
<1>2. (Uncrossed' <=> Uncrossed) /\ (Tidy' <=> Tidy) /\ (Clear' <=> Clear)
  BY DEF Uncrossed, Tidy, Clear
<1>3. \A T \in SUBSET Orders :
        /\ Cardinality(Owing' \cup T) \in Nat /\ Cardinality(Owing \cup T) \in Nat
        /\ Cardinality(Owing' \cup T) <= Cardinality(Owing \cup T)
  <2> SUFFICES ASSUME NEW T \in SUBSET Orders
               PROVE  /\ Cardinality(Owing' \cup T) \in Nat /\ Cardinality(Owing \cup T) \in Nat
                      /\ Cardinality(Owing' \cup T) <= Cardinality(Owing \cup T)
    OBVIOUS
  <2>1. Owing \cup T \subseteq Orders /\ Owing' \cup T \subseteq Owing \cup T
    BY <1>1
  <2> QED BY <2>1, PartsAreFinite
<1>4. /\ Cardinality(Owing') \in Nat /\ Cardinality(Owing) \in Nat
      /\ Cardinality(Owing') <= Cardinality(Owing) /\ Limit \in Nat
  BY <1>1, PartsAreFinite, StatementAssumption
<1>5. Clear' => Cardinality(Owing') <= Limit
  BY <1>2, <1>4 DEF Sound
<1>6. ASSUME NEW t \in Task, t \in Relying,
             "doubled" \notin history /\ t.step = "issuing" => status'[t.of] = "open"
      PROVE  t \in Relying'
  <2>1. Clear /\ t.step = "weighing" => Cardinality(Owing') <= t.saw + Cardinality(Unbilled)
    <3>1. t.saw \in Nat /\ Cardinality(Unbilled) \in Nat
      <4>1. Unbilled \subseteq Orders
        BY DEF Unbilled, Sound, Shape
      <4> QED BY <4>1, PartsAreFinite DEF Task
    <3> QED BY <1>4, <1>6, <3>1 DEF Relying
  <2>2. Clear /\ t.step = "accepting" => Cardinality(Owing' \cup t.todo) <= Limit
    <3>1. t.todo \in SUBSET Orders
      BY DEF Task
    <3>2. /\ Cardinality(Owing' \cup t.todo) \in Nat /\ Cardinality(Owing \cup t.todo) \in Nat
          /\ Cardinality(Owing' \cup t.todo) <= Cardinality(Owing \cup t.todo)
      BY <1>3, <3>1
    <3>3. Clear /\ t.step = "accepting" => Cardinality(Owing \cup t.todo) <= Limit
      BY <1>6 DEF Relying
    <3> QED BY <1>4, <3>2, <3>3
  <2> QED BY <1>1, <1>2, <1>6, <2>1, <2>2 DEF Relying
<1> QED BY <1>1, <1>5, <1>6

\* The statement is issued.
LEMMA WriteIssuedKeeps ==
  ASSUME Sound, NEW i \in Tasks, WriteIssued(i) PROVE Sound'
<1> DEFINE p == task[i].of
<1>1. /\ task[i].step = "issuing" /\ task[i] \in Task /\ p \in Periods /\ status[p] # "none"
      /\ "doubled" \notin history => status[p] = "open"
      /\ status' = [status EXCEPT ![p] = "issued"]
      /\ UNCHANGED <<working, billedOn, lines, total, session, done, history, faults>>
  BY Now DEF WriteIssued, Fitting, Relying
<1>2. task' = [task EXCEPT ![i] = task'[i]] /\ task'[i] = Idle
  BY DEF WriteIssued, Stop, Begin, Sound, Shape
<1>3. /\ \A q \in Periods : q # p => status'[q] = status[q]
      /\ status'[p] = "issued" /\ status' \in [Periods -> StatementStatuses]
  BY <1>1 DEF Sound, Shape, StatementStatuses
<1>4. ASSUME NEW j \in Tasks, j # i, "doubled" \notin history, task[j].step = "issuing"
      PROVE  status'[task[j].of] = "open"
  <2>1. task[j].of # p /\ task[j].of \in Periods /\ status[task[j].of] = "open"
    BY <1>1, <1>4, Now DEF Sound, Apart, Fitting, Relying
  <2> HIDE DEF p
  <2> QED BY <1>3, <2>1
<1> HIDE DEF p
<1>5. Onward
  BY <1>1, <1>3 DEF Onward
<1>6. task'[i] \in Fitting' /\ task'[i] \in Relying'
  BY <1>2, IdleFits
<1>7. \A j \in Tasks : j # i => task[j] \in Relying'
  BY <1>1, <1>4, Now, OwingLessens
<1>8. /\ \A j \in Tasks : task'[j] \in Fitting' /\ task'[j] \in Relying'
      /\ task' \in [Tasks -> Task] /\ \A j \in Tasks : j # i => task'[j] = task[j]
  BY <1>2, <1>5, <1>6, <1>7, Others
<1>9. Shape'
  BY <1>1, <1>3, <1>8 DEF Sound, Shape
<1>10. Books'
  <2>1. "doubled" \notin history => p \notin done
    BY <1>1 DEF Sound, Books
  <2> QED BY <1>1, <1>3, <2>1 DEF Sound, Books, Issued
<1>11. Apart'
  <2>1. ~Closing(i)' /\ ~Placing(i)' /\ task'[i].step # "issuing"
    BY <1>2 DEF Closing, Placing, Idle
  <2> QED BY <1>1, <1>2, <2>1, ApartKept
<1>12. \A j \in Tasks : task[j].step \in ClosingSteps => task'[j] = task[j]
  BY <1>1, <1>8 DEF ClosingSteps
<1>13. Clear' => Cardinality(Owing') <= Limit
  BY <1>1, OwingLessens
<1> QED BY <1>1, <1>8, <1>9, <1>10, <1>11, <1>12, <1>13, LinesLeftAlone DEF Sound

\* A checkout is created, if the lines add up and there is none.
LEMMA CreateCheckoutKeeps ==
  ASSUME Sound, NEW i \in Tasks, CreateCheckout(i) PROVE Sound'
<1> DEFINE p == task[i].of
           s == [state |-> "open", amount |-> task[i].saw]
<1>1. /\ task[i].step = "checking" /\ task[i] \in Task /\ p \in Periods /\ Issued(p)
      /\ task[i].saw \in Nat
      /\ \/ session' = session
         \/ /\ task[i].saw = Cardinality(lines[p]) /\ session[p] = NoSession
            /\ session' = [session EXCEPT ![p] = s]
      /\ UNCHANGED <<working, billedOn, status, lines, total, done, history, faults>>
  BY Now DEF CreateCheckout, Fitting, statements, Task
<1>2. task' = [task EXCEPT ![i] = task'[i]] /\ task'[i] = Idle
  BY DEF CreateCheckout, Stop, Begin, Sound, Shape
<1>3. /\ session' \in [Periods -> [state : {"none", "open", "paid"}, amount : Nat]]
      /\ \A q \in Periods :
            \/ session'[q] = session[q]
            \/ /\ session[q].state = "none" /\ session'[q].state = "open" /\ Issued(q)
               /\ session'[q].amount = Cardinality(lines[q])
  <2>1. CASE session' = session
    BY <2>1 DEF Sound, Shape
  <2>2. CASE /\ task[i].saw = Cardinality(lines[p]) /\ session[p] = NoSession
             /\ session' = [session EXCEPT ![p] = s]
    <3>1. s \in [state : {"none", "open", "paid"}, amount : Nat] /\ s.state = "open" /\ s.amount = task[i].saw
      BY <1>1
    <3>2. session[p].state = "none"
      BY <2>2 DEF NoSession
    <3> HIDE DEF s, p
    <3>3. session' \in [Periods -> [state : {"none", "open", "paid"}, amount : Nat]]
      BY <1>1, <2>2, <3>1 DEF Sound, Shape
    <3>4. session'[p] = s /\ \A q \in Periods : q # p => session'[q] = session[q]
      BY <1>1, <2>2 DEF Sound, Shape
    <3>5. task[i].saw = Cardinality(lines[p]) /\ Issued(p)
      BY <1>1, <2>2
    <3> QED BY <3>1, <3>2, <3>3, <3>4, <3>5
  <2> QED BY <1>1, <2>1, <2>2
<1> HIDE DEF p, s
<1>4. Onward
  BY <1>1, <1>3 DEF Onward
<1>5. task'[i] \in Fitting' /\ task'[i] \in Relying'
  BY <1>2, IdleFits
<1>6. \A j \in Tasks : j # i => task[j] \in Relying'
  BY <1>1, <1>4, Now, RelyingKept
<1>7. /\ \A j \in Tasks : task'[j] \in Fitting' /\ task'[j] \in Relying'
      /\ task' \in [Tasks -> Task] /\ \A j \in Tasks : j # i => task'[j] = task[j]
  BY <1>2, <1>4, <1>5, <1>6, Others
<1>8. Shape'
  BY <1>1, <1>3, <1>7 DEF Sound, Shape
<1>9. Books'
  BY <1>1, <1>3 DEF Sound, Books, Issued
<1>10. Apart'
  <2>1. ~Closing(i)' /\ ~Placing(i)' /\ task'[i].step # "issuing"
    BY <1>2 DEF Closing, Placing, Idle
  <2> QED BY <1>1, <1>2, <2>1, ApartKept
<1>11. \A j \in Tasks : task[j].step \in ClosingSteps => task'[j] = task[j]
  BY <1>1, <1>7 DEF ClosingSteps
<1>12. Clear' => Cardinality(Owing') <= Limit
  BY <1>1, OwingLessens
<1> QED BY <1>1, <1>7, <1>8, <1>9, <1>10, <1>11, <1>12, LinesLeftAlone DEF Sound

\* A checkout is paid, or expires.
LEMMA CheckoutEndKeeps ==
  ASSUME Sound, NEW p \in Periods, Pay(p) \/ Expire(p) PROVE Sound'
<1>1. /\ session[p].state = "open"
      /\ UNCHANGED <<working, billedOn, status, lines, total, done, task, history, faults>>
  BY DEF Pay, Expire, statements
<1>2. /\ session' \in [Periods -> [state : {"none", "open", "paid"}, amount : Nat]]
      /\ \A q \in Periods : q # p => session'[q] = session[q]
      /\ \/ session'[p].state = "none"
         \/ session'[p].state = "paid" /\ session'[p].amount = session[p].amount
  <2>1. session \in [Periods -> [state : {"none", "open", "paid"}, amount : Nat]]
    BY DEF Sound, Shape
  <2>2. CASE Pay(p)
    <3>1. session' = [session EXCEPT ![p] = [session[p] EXCEPT !.state = "paid"]]
      BY <2>2 DEF Pay
    <3>2. [session[p] EXCEPT !.state = "paid"] \in [state : {"none", "open", "paid"}, amount : Nat]
      BY <2>1
    <3> QED BY <2>1, <3>1, <3>2
  <2>3. CASE Expire(p)
    <3>1. NoSession \in [state : {"none", "open", "paid"}, amount : Nat] /\ NoSession.state = "none"
      BY DEF NoSession
    <3> QED BY <2>1, <2>3, <3>1 DEF Expire
  <2> QED BY <2>2, <2>3
<1>3. Onward
  BY <1>1, <1>2 DEF Onward
<1>4. \A j \in Tasks : task'[j] \in Fitting' /\ task'[j] \in Relying'
  BY <1>1, <1>3, Now, FittingOnward, RelyingKept
<1>5. Shape'
  BY <1>1, <1>2 DEF Sound, Shape
<1>6. Books'
  BY <1>1, <1>2 DEF Sound, Books, Issued
<1>7. Apart'
  BY <1>1 DEF Sound, Apart, Closing, Placing
<1>8. Clear' => Cardinality(Owing') <= Limit
  BY <1>1, OwingLessens
<1> QED BY <1>1, <1>4, <1>5, <1>6, <1>7, <1>8, LinesLeftAlone DEF Sound

\* The payment is recorded, or was, or the statement has moved.
LEMMA ApplyPaidKeeps ==
  ASSUME Sound, NEW i \in Tasks, ApplyPaid(i) PROVE Sound'
<1> DEFINE p == task[i].of
<1>1. /\ task[i].step = "paying" /\ task[i] \in Task /\ p \in Periods /\ session[p].state = "paid"
      /\ \/ UNCHANGED <<status, done>>
         \/ status' = [status EXCEPT ![p] = "paid"] /\ done' = done \cup {p}
      /\ UNCHANGED <<working, billedOn, lines, total, session, history, faults>>
  BY Now DEF ApplyPaid, Fitting
<1>2. task' = [task EXCEPT ![i] = task'[i]] /\ task'[i] = Idle
  BY DEF ApplyPaid, Stop, Begin, Sound, Shape
<1>3. Issued(p)
  BY <1>1 DEF Sound, Books
<1> HIDE DEF p
<1>4. /\ status' \in [Periods -> StatementStatuses] /\ done' \subseteq Periods /\ done \subseteq done'
      /\ \A q \in Periods : \/ status'[q] = status[q] /\ (q \in done' <=> q \in done)
                            \/ q = p /\ status'[q] = "paid" /\ q \in done'
  BY <1>1 DEF Sound, Shape, StatementStatuses
<1>5. Onward
  BY <1>1, <1>4 DEF Onward
<1>6. task'[i] \in Fitting' /\ task'[i] \in Relying'
  BY <1>2, IdleFits
<1>7. ASSUME NEW j \in Tasks, j # i PROVE task[j] \in Relying'
  <2>1. task[j] \in Task /\ task[j] \in Fitting /\ task[j] \in Relying
    BY Now
  <2>2. "doubled" \notin history /\ task[j].step = "issuing" => status'[task[j].of] = "open"
    <3> SUFFICES ASSUME "doubled" \notin history, task[j].step = "issuing"
                 PROVE  status'[task[j].of] = "open"
      OBVIOUS
    <3>1. status[task[j].of] = "open" /\ task[j].of \in Periods
      BY <2>1 DEF Fitting, Relying
    <3>2. task[j].of # p
      BY <1>3, <3>1 DEF Issued
    <3> QED BY <1>4, <3>1, <3>2
  <2> QED BY <1>1, <1>4, <2>1, <2>2, OwingLessens
<1>8. /\ \A j \in Tasks : task'[j] \in Fitting' /\ task'[j] \in Relying'
      /\ task' \in [Tasks -> Task] /\ \A j \in Tasks : j # i => task'[j] = task[j]
  BY <1>2, <1>5, <1>6, <1>7, Others
<1>9. Shape'
  BY <1>1, <1>4, <1>8 DEF Sound, Shape
<1>10. Books'
  BY <1>1, <1>3, <1>4 DEF Sound, Books, Issued
<1>11. Apart'
  <2>1. ~Closing(i)' /\ ~Placing(i)' /\ task'[i].step # "issuing"
    BY <1>2 DEF Closing, Placing, Idle
  <2> QED BY <1>1, <1>2, <2>1, ApartKept
<1>12. \A j \in Tasks : task[j].step \in ClosingSteps => task'[j] = task[j]
  BY <1>1, <1>8 DEF ClosingSteps
<1>13. Clear' => Cardinality(Owing') <= Limit
  BY <1>1, <1>4, OwingLessens
<1> QED BY <1>1, <1>8, <1>9, <1>10, <1>11, <1>12, <1>13, LinesLeftAlone DEF Sound

-----------------------------------------------------------------------------
LEMMA NextSound == Sound /\ [Next]_vars => Sound'
<1> SUFFICES ASSUME Sound, [Next]_vars PROVE Sound'
  OBVIOUS
<1>1. CASE UNCHANGED vars
  <2>1. UNCHANGED <<working, billedOn, status, lines, total, session, done, task, history, faults>>
    BY <1>1 DEF vars, statements
  <2>2. Onward
    BY <2>1 DEF Onward
  <2>3. \A j \in Tasks : task'[j] \in Fitting' /\ task'[j] \in Relying'
    BY <2>1, <2>2, Now, FittingOnward, RelyingKept
  <2>4. Shape'
    BY <2>1 DEF Sound, Shape
  <2>5. Books'
    BY <2>1 DEF Sound, Books, Issued
  <2>6. Apart'
    BY <2>1 DEF Sound, Apart, Closing, Placing
  <2>7. Clear' => Cardinality(Owing') <= Limit
    BY <2>1, OwingLessens
  <2> QED BY <2>1, <2>3, <2>4, <2>5, <2>6, <2>7, LinesLeftAlone DEF Sound
<1>2. ASSUME NEW i \in Tasks, Submit(i) PROVE Sound'
  BY <1>2, SubmitKeeps
<1>3. ASSUME NEW i \in Tasks, DecideCredit(i) PROVE Sound'
  BY <1>3, DecideCreditKeeps
<1>4. ASSUME NEW i \in Tasks, NEW o \in Orders, AcceptOnInvoice(i, o) PROVE Sound'
  BY <1>4, AcceptOnInvoiceKeeps
<1>5. ASSUME NEW i \in Tasks, NEW p \in Periods, Close(i, p) PROVE Sound'
  BY <1>5, CloseKeeps
<1>6. ASSUME NEW i \in Tasks, NEW p \in Periods, Issue(i, p) PROVE Sound'
  BY <1>6, IssueKeeps
<1>7. ASSUME NEW i \in Tasks, NEW p \in Periods, StartCheckout(i, p) \/ Receive(i, p) PROVE Sound'
  BY <1>7, PaymentBeginKeeps
<1>8. ASSUME NEW i \in Tasks, OpenStatement(i) PROVE Sound'
  BY <1>8, OpenStatementKeeps
<1>9. ASSUME NEW i \in Tasks, Gather(i) PROVE Sound'
  BY <1>9, GatherKeeps
<1>10. ASSUME NEW i \in Tasks, AddLine(i) PROVE Sound'
  BY <1>10, AddLineKeeps
<1>11. ASSUME NEW i \in Tasks, ClaimOrder(i) PROVE Sound'
  BY <1>11, ClaimOrderKeeps
<1>12. ASSUME NEW i \in Tasks, TotalLines(i) PROVE Sound'
  BY <1>12, TotalLinesKeeps
<1>13. ASSUME NEW i \in Tasks, WriteTotal(i) PROVE Sound'
  BY <1>13, WriteTotalKeeps
<1>14. ASSUME NEW i \in Tasks, WriteIssued(i) PROVE Sound'
  BY <1>14, WriteIssuedKeeps
<1>15. ASSUME NEW i \in Tasks, CreateCheckout(i) PROVE Sound'
  BY <1>15, CreateCheckoutKeeps
<1>16. ASSUME NEW i \in Tasks, ApplyPaid(i) PROVE Sound'
  BY <1>16, ApplyPaidKeeps
<1>17. ASSUME NEW i \in Tasks, Kill(i) PROVE Sound'
  BY <1>17, KillKeeps
<1>18. ASSUME NEW p \in Periods, Pay(p) \/ Expire(p) PROVE Sound'
  BY <1>18, CheckoutEndKeeps
<1> QED BY <1>1, <1>2, <1>3, <1>4, <1>5, <1>6, <1>7, <1>8, <1>9, <1>10, <1>11, <1>12, <1>13,
           <1>14, <1>15, <1>16, <1>17, <1>18 DEF Next

\* The books, and what every request relies on, hold at every step of submissions,
\* closes, issues, checkouts and deliveries, in any order and however many.
THEOREM StatementsKeepSound == Spec => []Sound
<1>1. Init => Sound
  BY InitSound
<1>2. Sound /\ [Next]_vars => Sound'
  BY NextSound
<1> QED BY <1>1, <1>2, PTL DEF Spec

\* Every record of the account keeps its shape, and no statement bills work that was
\* not accepted: the database's columns and checks, and the steps of the code.
THEOREM StatementTypes == Spec => []StatementsTypeOK
<1>1. Sound => StatementsTypeOK
  BY DEF Sound, Shape, Books, StatementsTypeOK, Task, Flags
<1> QED BY <1>1, StatementsKeepSound, PTL

\* An order is billed on one statement, for any number of closes of any number of
\* periods, unless closes of two periods overlapped or one was cut short
\* (closePeriod's claim of an order by an update that is not read).
THEOREM BilledOnceOnly == Spec => []BilledOnceUnlessCrossed
<1>1. Sound => BilledOnceUnlessCrossed
  BY DEF Sound
<1> QED BY <1>1, StatementsKeepSound, PTL

\* What was charged is what is printed and stays paid, unless lines were added to a
\* statement that was issued or two jobs issued it (startStatementCheckout's sum,
\* issueStatement's unguarded update).
THEOREM ChargeStands == Spec => []ChargedIsPrintedAndPaid
<1>1. Sound => ChargedIsPrintedAndPaid
  BY DEF Sound, Shape, Books, ChargedIsPrintedAndPaid
<1> QED BY <1>1, StatementsKeepSound, PTL

\* The account never owes more than its limit, however many submissions there are,
\* unless they were weighed beside another or beside a close, or one was cut short
\* (accountBalance's two reads and the placing that follows the decision).
THEOREM CreditHolds == Spec => []WithinLimitUnlessBlurred
<1>1. Sound => WithinLimitUnlessBlurred
  <2>1. Outstanding = Cardinality(Owing)
    BY DEF Outstanding, Owing
  <2> QED BY <2>1 DEF Sound, WithinLimitUnlessBlurred, Clear, Uncrossed
<1> QED BY <1>1, StatementsKeepSound, PTL

\* The figure at the head of every statement is the sum of its lines once no close is
\* under way, unless two closes of the period overlapped or one was cut short
\* (closePeriod's sum, read and then written).
THEOREM HeaderIsTheSum == Spec => []HeaderAgreesUnlessTogether
<1>1. Sound => HeaderAgreesUnlessTogether
  <2>1. \A i \in Tasks : task[i].step \in ClosingSteps => Closing(i)
    BY DEF Closing, ClosingSteps
  <2> QED BY <2>1 DEF Sound, HeadersWritten, Tidy, HeaderAgreesUnlessTogether, HeaderAgrees
<1> QED BY <1>1, StatementsKeepSound, PTL
=============================================================================
