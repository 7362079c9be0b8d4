--------------------------- MODULE SealingProofs ----------------------------
(***************************************************************************)
(* What holds of the letters of a file for any number of requests,         *)
(* determinations, seal acts and faults: types, that the acts are a        *)
(* register that keeps its promise, that an order is settled once for a    *)
(* determination whose letter was not voided while another was being       *)
(* recorded, and that the bucket and the register agree.                   *)
(***************************************************************************)
EXTENDS Sealing, SequenceTheorems, TLAPS

\* No act is voided twice.
VoidedOnce == \A j, k \in DOMAIN voided : voided[j] = voided[k] => j = k

\* Of some voidings one is the last.
SomeVoidedLast ==
    \A T \in SUBSET (DOMAIN voided) : T # {} => \E k \in T : \A j \in T : j <= k

\* An act nothing replaces is the last of its determination, if that did not slip.
UnreplacedIsLast ==
    \A a \in DOMAIN acts :
       acts[a].det \notin slipped /\ (\A b \in DOMAIN acts : acts[b].replaces # a) =>
          \A b \in DOMAIN acts : b > a => acts[b].det # acts[a].det

\* A determination with letters has a last one.
HasLast ==
    \A d \in Nat : Sealed(d) =>
       \E a \in DOMAIN acts : /\ acts[a].det = d
                              /\ \A b \in DOMAIN acts : acts[b].det = d => b <= a

\* An act that replaces nothing is the first of its determination, likewise.
FirstIsFirst ==
    \A a \in DOMAIN acts : acts[a].det \notin slipped /\ acts[a].replaces = NoAct =>
       \A b \in DOMAIN acts : acts[b].det = acts[a].det => a <= b

\* An act replaces an earlier one of its own determination.
ReplacesOwn ==
    \A a \in DOMAIN acts : acts[a].replaces # NoAct =>
       /\ acts[a].replaces \in DOMAIN acts /\ acts[a].replaces < a
       /\ acts[acts[a].replaces].det = acts[a].det

\* The acts as records of what was sealed and what each replaces.
ActsInv ==
    /\ SealingTypeOK /\ VoidedOnce /\ SomeVoidedLast /\ ReplacesOwn
    /\ UnreplacedIsLast /\ HasLast /\ FirstIsFirst

\* Between the trigger and the indexes: what was read is a voided act of the
\* determination, and unless that slips, its last one, or there is none, or the
\* indexes will refuse.
Between == {"inserting", "abandoned", "orphaned"}
LastOf(r, d) ==
    \/ r = NoAct /\ ~Sealed(d)
    \/ /\ r \in DOMAIN acts /\ acts[r].det = d
       /\ \A b \in DOMAIN acts : acts[b].det = d => b <= r
ReadHolds ==
    \A i \in Invocations : seal[i].step \in Between =>
       /\ seal[i].act # NoAct => /\ seal[i].act \in DOMAIN acts /\ IsVoid(seal[i].act)
                                 /\ acts[seal[i].act].det = seal[i].det
       /\ \/ seal[i].det \in slipped
          \/ LiveFor(seal[i].det)
          \/ LastOf(seal[i].act, seal[i].det)

Acting == {"noticing", "sealing", "delivering", "settling"}

\* Who has just sealed a letter is about that letter, alone, and if it is the
\* first of its determination, the order was not settled for it yet.
OwnActs ==
    \A i \in Invocations : seal[i].step \in Acting =>
       /\ seal[i].act \in DOMAIN acts
       /\ acts[seal[i].act].det = seal[i].det
       /\ seal[i].step # "noticing" =>
             acts[seal[i].act].replaces = NoAct /\ Delivers(seal[i].det)
       /\ acts[seal[i].act].replaces = NoAct /\ seal[i].det \notin slipped =>
             ~Settled(seal[i].det)
ActsApart ==
    \A i, j \in Invocations :
       seal[i].step \in Acting /\ seal[j].step \in Acting /\ seal[i].act = seal[j].act => i = j

SealInv == ActsInv /\ ReadHolds /\ OwnActs /\ ActsApart /\ SettledOnceUnlessSlipped

\* Nothing is sealed at first.
LEMMA InitSealInv == Init => SealInv
<1> SUFFICES ASSUME Init PROVE SealInv
  OBVIOUS
<1> USE DEF Init, SealingInit, Idle, NoAct, NoPdf
<1>1. SealingTypeOK
  BY SealingAssumption DEF SealingTypeOK, OfTheFile, Statuses, Orders, SealStep, Steps
<1>2. /\ VoidedOnce /\ SomeVoidedLast /\ ReplacesOwn /\ UnreplacedIsLast
      /\ HasLast /\ FirstIsFirst
  BY DEF VoidedOnce, SomeVoidedLast, ReplacesOwn, UnreplacedIsLast, HasLast, FirstIsFirst, Sealed
<1>3. ReadHolds /\ OwnActs /\ ActsApart /\ SettledOnceUnlessSlipped
  BY DEF ReadHolds, Between, OwnActs, ActsApart, SettledOnceUnlessSlipped, Acting
<1> QED BY <1>1, <1>2, <1>3 DEF SealInv, ActsInv

-----------------------------------------------------------------------------

Act == [det : Nat, replaces : Nat, pdf : Nat]

\* The sequences of the state have the domains sequences have.
LEMMA Domains ==
  ASSUME SealingTypeOK
  PROVE  /\ DOMAIN acts = 1..Len(acts) /\ Len(acts) \in Nat
         /\ DOMAIN voided = 1..Len(voided) /\ Len(voided) \in Nat
         /\ DOMAIN told = 1..Len(told) /\ Len(told) \in Nat
         /\ DOMAIN dets = 1..Len(dets) /\ Len(dets) \in Nat
  BY DEF SealingTypeOK

\* What the trigger reads is the last of the determination's voided acts that
\* nothing replaces, or there is none.
LEMMA ReadsAVoided ==
  ASSUME ActsInv, NEW d \in Nat
  PROVE  \/ ReplacedBy(d) = NoAct /\ Replaceable(d) = {}
         \/ \E k \in Replaceable(d) : ReplacedBy(d) = voided[k]
<1>1. CASE Replaceable(d) = {}
  BY <1>1 DEF ReplacedBy
<1>2. CASE Replaceable(d) # {}
  <2>1. PICK k \in Replaceable(d) : \A j \in Replaceable(d) : j <= k
    BY <1>2 DEF ActsInv, SomeVoidedLast, Replaceable
  <2>2. (CHOOSE l \in Replaceable(d) : \A j \in Replaceable(d) : j <= l) \in Replaceable(d)
    BY <2>1
  <2> QED BY <1>2, <2>2 DEF ReplacedBy
<1> QED BY <1>1, <1>2

\* So it is void and the determination's own.
LEMMA ReadsOwnVoided ==
  ASSUME ActsInv, NEW d \in Nat, ReplacedBy(d) # NoAct
  PROVE  /\ ReplacedBy(d) \in DOMAIN acts /\ acts[ReplacedBy(d)].det = d
         /\ IsVoid(ReplacedBy(d))
BY ReadsAVoided DEF Replaceable, IsVoid, ActsInv, SealingTypeOK

\* And it is the last act of a determination that did not slip and has no letter
\* that stands.
LEMMA ReadsTheLast ==
  ASSUME ActsInv, NEW d \in Nat, d \notin slipped, ~LiveFor(d)
  PROVE  LastOf(ReplacedBy(d), d)
<1>0. /\ DOMAIN acts = 1..Len(acts) /\ Len(acts) \in Nat
      /\ \A k \in DOMAIN voided : voided[k] \in DOMAIN acts
      /\ \A a \in DOMAIN acts : acts[a].replaces \in 0..(a - 1)
  BY Domains DEF ActsInv, SealingTypeOK
<1>1. CASE ~Sealed(d)
  <2>1. Replaceable(d) = {}
    BY <1>0, <1>1 DEF Replaceable, Sealed
  <2> QED BY <1>1, <2>1 DEF ReplacedBy, LastOf
<1>2. CASE Sealed(d)
  <2>1. PICK m \in DOMAIN acts : acts[m].det = d /\ \A b \in DOMAIN acts : acts[b].det = d => b <= m
    BY <1>2 DEF ActsInv, HasLast
  <2>2. IsVoid(m)
    BY <2>1 DEF LiveFor, IsLive
  <2>3. \A b \in DOMAIN acts : acts[b].replaces # m
    <3> SUFFICES ASSUME NEW b \in DOMAIN acts, acts[b].replaces = m PROVE FALSE
      OBVIOUS
    <3>1. acts[b].det = d /\ b > m
      BY <2>1, <1>0 DEF ActsInv, ReplacesOwn, NoAct
    <3> QED BY <2>1, <3>1, <1>0
  <2>4. Replaceable(d) # {}
    BY <2>1, <2>2, <2>3 DEF Replaceable, IsVoid
  <2>5. PICK k \in Replaceable(d) : ReplacedBy(d) = voided[k]
    BY <2>4, ReadsAVoided
  <2>6. /\ voided[k] \in DOMAIN acts /\ acts[voided[k]].det = d
        /\ \A b \in DOMAIN acts : b > voided[k] => acts[b].det # d
    BY <1>0, <2>5 DEF Replaceable, ActsInv, UnreplacedIsLast
  <2>7. voided[k] = m
    BY <2>6, <2>1, <1>0
  <2> QED BY <2>1, <2>5, <2>7 DEF LastOf
<1> QED BY <1>1, <1>2

-----------------------------------------------------------------------------

\* What the indexes let in replaces a voided act of its own that nothing else does,
\* or nothing; and the last one, unless its determination slipped.
LEMMA LetIn ==
  ASSUME ActsInv, ReadHolds, NEW i \in Invocations, seal[i].step \in Between, ~Refused(seal[i])
  PROVE  /\ seal[i].act = NoAct \/ /\ seal[i].act \in DOMAIN acts /\ IsVoid(seal[i].act)
                                   /\ acts[seal[i].act].det = seal[i].det
                                   /\ \A b \in DOMAIN acts : acts[b].replaces # seal[i].act
         /\ seal[i].det \notin slipped => LastOf(seal[i].act, seal[i].det)
BY DEF ReadHolds, Refused

\* A new act keeps the acts what they are.
LEMMA AddKeepsActs ==
  ASSUME ActsInv, ReadHolds, NEW i \in Invocations, seal[i].step \in Between,
         ~Refused(seal[i]), AddAct(seal[i]), UNCHANGED <<voided, slipped>>
  PROVE  /\ acts' \in Seq(Act)
         /\ \A a \in DOMAIN acts' : acts'[a].det \in DOMAIN dets /\ acts'[a].replaces \in 0..(a - 1)
         /\ Len(acts') = Len(acts) + 1 /\ DOMAIN acts' = 1..(Len(acts) + 1)
         /\ \A a \in DOMAIN acts : acts'[a] = acts[a]
         /\ acts'[Len(acts) + 1] = [det |-> seal[i].det, replaces |-> seal[i].act, pdf |-> seal[i].pdf]
         /\ VoidedOnce' /\ SomeVoidedLast' /\ ReplacesOwn'
         /\ UnreplacedIsLast' /\ HasLast' /\ FirstIsFirst'
<1> DEFINE n == Len(acts) + 1
           d == seal[i].det
           r == seal[i].act
<1>0. /\ DOMAIN acts = 1..Len(acts) /\ Len(acts) \in Nat
      /\ DOMAIN dets \subseteq Nat
      /\ acts \in Seq(Act)
      /\ \A a \in DOMAIN acts : acts[a].det \in DOMAIN dets /\ acts[a].replaces \in 0..(a - 1)
      /\ seal[i] \in SealStep /\ d \in DOMAIN dets
  <2>1. SealingTypeOK /\ seal[i] \in SealStep /\ OfTheFile(seal[i])
    BY DEF ActsInv, SealingTypeOK
  <2>2. d \in DOMAIN dets
    BY <2>1 DEF OfTheFile, Between
  <2>3. acts \in Seq(Act)
    BY <2>1 DEF SealingTypeOK, Act
  <2> QED BY <2>1, <2>2, <2>3, Domains DEF SealingTypeOK
<1>1. /\ r = NoAct \/ /\ r \in DOMAIN acts /\ acts[r].det = d
                      /\ \A b \in DOMAIN acts : acts[b].replaces # r
      /\ d \notin slipped => \/ r = NoAct /\ ~Sealed(d)
                             \/ /\ r \in DOMAIN acts
                                /\ \A b \in DOMAIN acts : acts[b].det = d => b <= r
  BY LetIn DEF LastOf
<1>2. r \in 0..Len(acts) /\ r \in Nat /\ n \in Nat /\ d \in Nat /\ seal[i].pdf \in Nat
  BY <1>0, <1>1 DEF NoAct, SealStep
<1>3. acts' = Append(acts, [det |-> d, replaces |-> r, pdf |-> seal[i].pdf])
  BY DEF AddAct
<1> HIDE DEF d, r
<1>4. /\ acts' \in Seq(Act)
      /\ Len(acts') = n /\ DOMAIN acts' = 1..n
      /\ acts'[n] = [det |-> d, replaces |-> r, pdf |-> seal[i].pdf]
      /\ \A a \in DOMAIN acts : acts'[a] = acts[a]
  <2>1. [det |-> d, replaces |-> r, pdf |-> seal[i].pdf] \in Act
    BY <1>2 DEF Act
  <2> QED BY <1>0, <1>3, <2>1
<1>5. /\ \A a \in DOMAIN acts : a \in Nat /\ a < n /\ a # NoAct /\ a \in DOMAIN acts'
      /\ \A a \in DOMAIN acts' : a \in DOMAIN acts \/ a = n
      /\ n \in DOMAIN acts' /\ n # NoAct /\ \A a \in DOMAIN acts' : a <= n
  BY <1>0, <1>2, <1>4, SMTT(30) DEF NoAct
<1>6. acts'[n].det = d /\ acts'[n].replaces = r
  BY <1>4
<1> HIDE DEF n
<1>7. \A a \in DOMAIN acts' : acts'[a].det \in DOMAIN dets /\ acts'[a].replaces \in 0..(a - 1)
  <2> SUFFICES ASSUME NEW a \in DOMAIN acts'
               PROVE  acts'[a].det \in DOMAIN dets /\ acts'[a].replaces \in 0..(a - 1)
    OBVIOUS
  <2>1. CASE a \in DOMAIN acts
    BY <2>1, <1>0, <1>4
  <2>2. CASE a = n
    BY <2>2, <1>0, <1>2, <1>6 DEF n, d
  <2> QED BY <2>1, <2>2, <1>5
<1>8. VoidedOnce' /\ SomeVoidedLast'
  BY DEF ActsInv, VoidedOnce, SomeVoidedLast
<1>9. ReplacesOwn'
  <2> SUFFICES ASSUME NEW a \in DOMAIN acts', acts'[a].replaces # NoAct
               PROVE  /\ acts'[a].replaces \in DOMAIN acts' /\ acts'[a].replaces < a
                      /\ acts'[acts'[a].replaces].det = acts'[a].det
    BY DEF ReplacesOwn
  <2>1. CASE a \in DOMAIN acts
    BY <2>1, <1>4, <1>5 DEF ActsInv, ReplacesOwn
  <2>2. CASE a = n
    BY <2>2, <1>1, <1>4, <1>5, <1>6
  <2> QED BY <2>1, <2>2, <1>5
<1>10. UnreplacedIsLast'
  <2> SUFFICES ASSUME NEW a \in DOMAIN acts', acts'[a].det \notin slipped,
                      \A b \in DOMAIN acts' : acts'[b].replaces # a,
                      NEW b \in DOMAIN acts', b > a
               PROVE  acts'[b].det # acts'[a].det
    BY DEF UnreplacedIsLast
  <2>1. a \in DOMAIN acts
    BY <1>0, <1>5 DEF n
  <2>2. \A c \in DOMAIN acts : c > a => acts[c].det # acts[a].det
    BY <2>1, <1>4, <1>5, SMTT(30) DEF ActsInv, UnreplacedIsLast
  <2>3. CASE b = n
    <3>1. acts[a].det = d => a = r
      BY <2>1, <2>2, <1>0, <1>1, <1>4, <1>5 DEF Sealed
    <3> QED BY <2>1, <2>3, <3>1, <1>4, <1>5, <1>6
  <2>4. CASE b \in DOMAIN acts
    BY <2>1, <2>2, <2>4, <1>4
  <2> QED BY <2>3, <2>4, <1>5
<1>11. HasLast'
  <2> SUFFICES ASSUME NEW e \in Nat, Sealed(e)'
               PROVE  \E a \in DOMAIN acts' : /\ acts'[a].det = e
                                              /\ \A b \in DOMAIN acts' : acts'[b].det = e => b <= a
    BY DEF HasLast
  <2>1. CASE e = d
    BY <2>1, <1>5, <1>6
  <2>2. CASE e # d
    <3>1. Sealed(e)
      BY <2>2, <1>4, <1>5, <1>6 DEF Sealed
    <3>2. PICK a \in DOMAIN acts : acts[a].det = e /\ \A b \in DOMAIN acts : acts[b].det = e => b <= a
      BY <3>1 DEF ActsInv, HasLast
    <3>3. a \in DOMAIN acts' /\ acts'[a].det = e
      BY <3>2, <1>4, <1>5
    <3>4. ASSUME NEW b \in DOMAIN acts', acts'[b].det = e PROVE b <= a
      <4>1. b \in DOMAIN acts
        BY <2>2, <3>4, <1>5, <1>6
      <4> QED BY <3>2, <3>4, <4>1, <1>4
    <3> QED BY <3>3, <3>4
  <2> QED BY <2>1, <2>2
<1>12. FirstIsFirst'
  <2> SUFFICES ASSUME NEW a \in DOMAIN acts', acts'[a].det \notin slipped, acts'[a].replaces = NoAct,
                      NEW b \in DOMAIN acts', acts'[b].det = acts'[a].det
               PROVE  a <= b
    BY DEF FirstIsFirst
  <2>1. CASE a \in DOMAIN acts /\ b \in DOMAIN acts
    BY <2>1, <1>4 DEF ActsInv, FirstIsFirst
  <2>2. CASE a = n /\ b \in DOMAIN acts
    BY <2>2, <1>1, <1>4, <1>5, <1>6 DEF Sealed
  <2>3. CASE b = n
    BY <2>3, <1>2, <1>5
  <2> QED BY <2>1, <2>2, <2>3, <1>5
<1> QED BY <1>4, <1>6, <1>7, <1>8, <1>9, <1>10, <1>11, <1>12 DEF n, r, d

-----------------------------------------------------------------------------

Early == {"idle", "storing", "recording", "inserting", "abandoned", "orphaned", "removing"}

\* What an invocation is in the middle of stays among the determinations and the acts.
LEMMA SlotTyped ==
  ASSUME SealingTypeOK, NEW i \in Invocations, NEW s \in SealStep, OfTheFile(s),
         seal' = [seal EXCEPT ![i] = s], UNCHANGED <<dets, acts>>
  PROVE  seal' \in [Invocations -> SealStep] /\ \A j \in Invocations : OfTheFile(seal[j])'
BY DEF SealingTypeOK, OfTheFile

\* So it does when it returns,
LEMMA ReturnTyped ==
  ASSUME SealingTypeOK, NEW i \in Invocations, Return(i), UNCHANGED <<dets, acts>>
  PROVE  seal' \in [Invocations -> SealStep] /\ \A j \in Invocations : OfTheFile(seal[j])'
<1>1. Idle \in SealStep /\ OfTheFile(Idle)
  BY DEF Idle, SealStep, Steps, OfTheFile, NoAct, NoPdf
<1> QED BY <1>1, SlotTyped DEF Return

\* and when it goes on.
LEMMA GotoTyped ==
  ASSUME SealingTypeOK, NEW i \in Invocations, NEW step \in Steps, Goto(i, step),
         seal[i].step \notin {"idle", "voiding"}, UNCHANGED <<dets, acts>>,
         step \in Early \/ seal[i].step \notin Early
  PROVE  seal' \in [Invocations -> SealStep] /\ \A j \in Invocations : OfTheFile(seal[j])'
<1> DEFINE s == [seal[i] EXCEPT !.step = step]
<1>1. seal[i] \in SealStep /\ OfTheFile(seal[i]) /\ seal' = [seal EXCEPT ![i] = s]
  BY DEF SealingTypeOK, Goto
<1>2. s \in SealStep /\ s.step = step /\ s.det = seal[i].det /\ s.act = seal[i].act
  BY <1>1 DEF SealStep
<1>3. seal[i].det \in DOMAIN dets
  BY <1>1 DEF OfTheFile
<1>5. seal[i].act \in DOMAIN acts \/ (seal[i].act = NoAct /\ step \in Early)
  BY <1>1, Zenon DEF OfTheFile, Early
<1> HIDE DEF s
<1>4. OfTheFile(s)
  BY <1>2, <1>3, <1>5 DEF OfTheFile, Early
<1> QED BY <1>1, <1>2, <1>4, SlotTyped

\* Acts and voidings that stay as they are keep what is said of them.
LEMMA SameActs ==
  ASSUME ActsInv, UNCHANGED <<acts, voided, slipped>>, SealingTypeOK'
  PROVE  ActsInv'
<1>1. VoidedOnce' /\ SomeVoidedLast'
  BY DEF ActsInv, VoidedOnce, SomeVoidedLast
<1>2. ReplacesOwn' /\ FirstIsFirst'
  BY DEF ActsInv, ReplacesOwn, FirstIsFirst
<1>3. UnreplacedIsLast' /\ HasLast'
  BY DEF ActsInv, UnreplacedIsLast, HasLast, Sealed
<1> QED BY <1>1, <1>2, <1>3 DEF ActsInv

\* Typed but for what an invocation does to its slot.
LEMMA OthersTyped ==
  ASSUME SealingTypeOK, UNCHANGED <<dets, acts, voided, told, noticed, faults, history>>,
         seal' \in [Invocations -> SealStep] /\ \A j \in Invocations : OfTheFile(seal[j])',
         file' \in Statuses, order' \in Orders, pdfs' \subseteq Names
  PROVE  SealingTypeOK'
BY DEF SealingTypeOK, history

\* A voiding adds one act to those that are void.
LEMMA OneMoreVoided ==
  ASSUME ActsInv, NEW a \in DOMAIN acts, ~IsVoid(a), voided' = Append(voided, a)
  PROVE  /\ voided' \in Seq(Nat) /\ DOMAIN voided' = 1..(Len(voided) + 1)
         /\ \A k \in DOMAIN voided : k \in DOMAIN voided' /\ voided'[k] = voided[k]
         /\ voided'[Len(voided) + 1] = a
         /\ \A k \in DOMAIN voided' : k \in DOMAIN voided \/ k = Len(voided) + 1
         /\ \A k \in DOMAIN voided' : voided'[k] \in DOMAIN acts
         /\ \A b : IsVoid(b)' <=> IsVoid(b) \/ b = a
         /\ VoidedOnce' /\ SomeVoidedLast'
<1>0. voided \in Seq(Nat) /\ a \in Nat /\ \A k \in DOMAIN voided : voided[k] \in DOMAIN acts
  BY Domains DEF ActsInv, SealingTypeOK
<1>1. DOMAIN voided = 1..Len(voided) /\ Len(voided) \in Nat
  BY <1>0
<1>2. /\ voided' \in Seq(Nat) /\ DOMAIN voided' = 1..(Len(voided) + 1)
      /\ \A k \in DOMAIN voided : k \in DOMAIN voided' /\ voided'[k] = voided[k]
      /\ voided'[Len(voided) + 1] = a
      /\ \A k \in DOMAIN voided' : k \in DOMAIN voided \/ k = Len(voided) + 1
      /\ Len(voided) + 1 \in DOMAIN voided'
  BY <1>0, <1>1
<1>3. \A k \in DOMAIN voided' : voided'[k] \in DOMAIN acts
  BY <1>0, <1>2
<1>4. \A b : IsVoid(b)' <=> IsVoid(b) \/ b = a
  BY <1>2 DEF IsVoid
<1>5. VoidedOnce'
  BY <1>2 DEF ActsInv, VoidedOnce, IsVoid
<1>6. SomeVoidedLast'
  <2> SUFFICES ASSUME NEW T \in SUBSET (DOMAIN voided'), T # {}
               PROVE  \E k \in T : \A j \in T : j <= k
    BY DEF SomeVoidedLast
  <2>1. CASE Len(voided) + 1 \in T
    BY <2>1, <1>1, <1>2
  <2>2. CASE Len(voided) + 1 \notin T
    <3>1. T \in SUBSET (DOMAIN voided)
      BY <2>2, <1>2
    <3> QED BY <3>1 DEF ActsInv, SomeVoidedLast
  <2> QED BY <2>1, <2>2
<1> QED BY <1>2, <1>3, <1>4, <1>5, <1>6

\* Every step keeps the types and the acts.
LEMMA StepActs == ActsInv /\ ReadHolds /\ [Next]_vars => ActsInv'
<1> SUFFICES ASSUME ActsInv, ReadHolds, [Next]_vars PROVE ActsInv'
  OBVIOUS
<1>0. /\ SealingTypeOK /\ file \in Statuses /\ order \in Orders /\ pdfs \subseteq Names
      /\ seal \in [Invocations -> SealStep] /\ \A i \in Invocations : OfTheFile(seal[i])
  BY DEF ActsInv, SealingTypeOK
<1> USE SealingAssumption
<1>1. ASSUME NEW i \in Invocations, NEW d \in DOMAIN dets, BeginSeal(i, d) PROVE ActsInv'
  <2> DEFINE s == [step |-> "storing", det |-> d, act |-> NoAct, pdf |-> NoPdf]
  <2>a. d \in Nat
    BY <1>0, Domains
  <2>1. s \in SealStep /\ OfTheFile(s)
    BY <2>a DEF SealStep, Steps, OfTheFile, NoAct, NoPdf
  <2>2. SealingTypeOK'
    BY <1>0, <1>1, <2>1, SlotTyped, OthersTyped DEF BeginSeal
  <2> QED BY <1>1, <2>2, SameActs DEF BeginSeal, history
<1>2. ASSUME NEW i \in Invocations, StoreLetter(i) PROVE ActsInv'
  <2>1. PICK name \in Names :
           /\ pdfs' = pdfs \cup {name}
           /\ seal' = [seal EXCEPT ![i].step = "recording", ![i].pdf = name]
    BY <1>2 DEF StoreLetter
  <2> DEFINE s == [seal[i] EXCEPT !.step = "recording", !.pdf = name]
  <2>2. seal' = [seal EXCEPT ![i] = s]
    BY <1>0, <2>1
  <2>3. s \in SealStep
    BY <1>0 DEF SealStep, Steps
  <2>4. OfTheFile(s)
    <3>1. OfTheFile(seal[i]) /\ seal[i].step = "storing"
      BY <1>0, <1>2 DEF StoreLetter
    <3>2. s.step = "recording" /\ s.det = seal[i].det /\ s.act = seal[i].act
      BY <1>0 DEF SealStep
    <3> HIDE DEF s
    <3> QED BY <3>1, <3>2 DEF OfTheFile
  <2> HIDE DEF s
  <2>5. SealingTypeOK'
    BY <1>0, <1>2, <2>1, <2>2, <2>3, <2>4, SlotTyped, OthersTyped DEF StoreLetter
  <2> QED BY <1>2, <2>5, SameActs DEF StoreLetter, history
<1>3. ASSUME NEW i \in Invocations, ReadReplaced(i) PROVE ActsInv'
  <2> DEFINE s == [seal[i] EXCEPT !.step = "inserting", !.act = ReplacedBy(seal[i].det)]
  <2>1. OfTheFile(seal[i]) /\ seal[i].step = "recording" /\ seal[i] \in SealStep
    BY <1>0, <1>3 DEF ReadReplaced
  <2>2. seal[i].det \in DOMAIN dets /\ seal[i].det \in Nat
    BY <2>1 DEF OfTheFile, SealStep
  <2>3. ReplacedBy(seal[i].det) = NoAct \/ ReplacedBy(seal[i].det) \in DOMAIN acts
    BY <2>2, ReadsOwnVoided
  <2>4. ReplacedBy(seal[i].det) \in Nat
    BY <1>0, <2>3, Domains DEF NoAct
  <2>5. s \in SealStep /\ s.step = "inserting" /\ s.det = seal[i].det /\ s.act = ReplacedBy(seal[i].det)
    BY <2>1, <2>4 DEF SealStep, Steps
  <2>6. seal' = [seal EXCEPT ![i] = s]
    BY <1>0, <1>3 DEF ReadReplaced
  <2> HIDE DEF s
  <2>7. OfTheFile(s)
    BY <2>2, <2>3, <2>5 DEF OfTheFile
  <2>8. SealingTypeOK'
    BY <1>0, <1>3, <2>5, <2>6, <2>7, SlotTyped, OthersTyped DEF ReadReplaced
  <2> QED BY <1>3, <2>8, SameActs DEF ReadReplaced, history
<1>4. ASSUME NEW i \in Invocations, RecordSeal(i) PROVE ActsInv'
  <2>0. seal[i].step = "inserting" /\ seal[i] \in SealStep /\ OfTheFile(seal[i])
    BY <1>0, <1>4 DEF RecordSeal
  <2>1. CASE Refused(seal[i])
    <3>1. Goto(i, "removing") /\ UNCHANGED <<file, dets, acts, voided, pdfs, order, told, noticed, faults, history>>
      BY <1>4, <2>1 DEF RecordSeal
    <3>2. SealingTypeOK'
      BY <1>0, <2>0, <3>1, GotoTyped, OthersTyped DEF Early, Steps
    <3> QED BY <3>1, <3>2, SameActs DEF history
  <2>2. CASE ~Refused(seal[i])
    <3> DEFINE s == [seal[i] EXCEPT !.step = "noticing", !.act = Len(acts) + 1]
    <3>1. /\ AddAct(seal[i]) /\ seal' = [seal EXCEPT ![i] = s]
          /\ UNCHANGED <<file, dets, voided, pdfs, order, told, noticed, faults, givenUp, slipped>>
      BY <1>0, <1>4, <2>2 DEF RecordSeal, history
    <3>2. /\ acts' \in Seq(Act) /\ DOMAIN acts' = 1..(Len(acts) + 1)
          /\ \A a \in DOMAIN acts' : acts'[a].det \in DOMAIN dets /\ acts'[a].replaces \in 0..(a - 1)
          /\ VoidedOnce' /\ SomeVoidedLast' /\ ReplacesOwn'
          /\ UnreplacedIsLast' /\ HasLast' /\ FirstIsFirst'
      BY <2>0, <2>2, <3>1, AddKeepsActs DEF Between
    <3>3. DOMAIN acts \subseteq DOMAIN acts' /\ Len(acts) + 1 \in DOMAIN acts' /\ Len(acts) + 1 \in Nat
      BY <1>0, <3>2, Domains
    <3>4. seal[i].det \in DOMAIN dets
      BY <2>0 DEF OfTheFile
    <3>5. s \in SealStep /\ s.det = seal[i].det /\ s.act = Len(acts) + 1
      BY <2>0, <3>3 DEF SealStep, Steps
    <3> HIDE DEF s
    <3>6. seal' \in [Invocations -> SealStep] /\ \A j \in Invocations : OfTheFile(seal[j])'
      BY <1>0, <3>1, <3>3, <3>4, <3>5 DEF OfTheFile
    <3>7. SealingTypeOK'
      BY <1>0, <3>1, <3>2, <3>3, <3>6 DEF SealingTypeOK, Act
    <3> QED BY <3>2, <3>7 DEF ActsInv
  <2> QED BY <2>1, <2>2
<1>5. ASSUME NEW i \in Invocations, GiveUp(i) PROVE ActsInv'
  <2>1. /\ Goto(i, "abandoned") /\ seal[i].step = "inserting"
        /\ UNCHANGED <<file, dets, acts, voided, pdfs, order, told, noticed, givenUp, slipped>>
        /\ faults' \in Nat
    BY <1>0, <1>5 DEF GiveUp, Fault, history, SealingTypeOK
  <2>2. seal' \in [Invocations -> SealStep] /\ \A j \in Invocations : OfTheFile(seal[j])'
    BY <1>0, <2>1, GotoTyped DEF Early, Steps
  <2>3. SealingTypeOK'
    BY <1>0, <2>1, <2>2 DEF SealingTypeOK
  <2> QED BY <2>1, <2>3, SameActs
<1>6. ASSUME NEW i \in Invocations, RecordAbandoned(i) PROVE ActsInv'
  <2>0. seal[i].step \in {"abandoned", "orphaned"} /\ seal[i] \in SealStep /\ OfTheFile(seal[i])
    BY <1>0, <1>6 DEF RecordAbandoned
  <2>1. CASE Refused(seal[i])
    <3>1. /\ Goto(i, "removing") \/ Return(i)
          /\ UNCHANGED <<file, dets, acts, voided, pdfs, order, told, noticed, faults, history>>
      BY <1>6, <2>1 DEF RecordAbandoned, history
    <3>2. seal' \in [Invocations -> SealStep] /\ \A j \in Invocations : OfTheFile(seal[j])'
      BY <1>0, <2>0, <3>1, GotoTyped, ReturnTyped DEF Early, Steps
    <3>3. SealingTypeOK'
      BY <1>0, <3>1, <3>2, OthersTyped
    <3> QED BY <3>1, <3>3, SameActs DEF history
  <2>2. CASE ~Refused(seal[i])
    <3>1. /\ AddAct(seal[i]) /\ (Goto(i, "removing") \/ Return(i))
          /\ givenUp' = givenUp \cup {Len(acts) + 1}
          /\ UNCHANGED <<file, dets, voided, pdfs, order, told, noticed, faults, slipped>>
      BY <1>6, <2>2 DEF RecordAbandoned
    <3>2. /\ acts' \in Seq(Act) /\ DOMAIN acts' = 1..(Len(acts) + 1)
          /\ \A a \in DOMAIN acts' : acts'[a].det \in DOMAIN dets /\ acts'[a].replaces \in 0..(a - 1)
          /\ VoidedOnce' /\ SomeVoidedLast' /\ ReplacesOwn'
          /\ UnreplacedIsLast' /\ HasLast' /\ FirstIsFirst'
      BY <2>0, <2>2, <3>1, AddKeepsActs DEF Between
    <3>3. DOMAIN acts \subseteq DOMAIN acts' /\ Len(acts) + 1 \in DOMAIN acts' /\ Len(acts) + 1 \in Nat
      BY <1>0, <3>2, Domains
    <3>4. seal[i].det \in DOMAIN dets /\ (seal[i].act \in DOMAIN acts \/ seal[i].act = NoAct)
      BY <2>0 DEF OfTheFile
    <3>5. PICK s \in SealStep : /\ seal' = [seal EXCEPT ![i] = s]
                                /\ \/ s = Idle
                                   \/ s.step = "removing" /\ s.det = seal[i].det /\ s.act = seal[i].act
      <4>1. CASE Return(i)
        BY <4>1 DEF Return, Idle, SealStep, Steps, NoAct, NoPdf
      <4>2. CASE Goto(i, "removing")
        <5> DEFINE t == [seal[i] EXCEPT !.step = "removing"]
        <5>1. t \in SealStep /\ t.step = "removing" /\ t.det = seal[i].det /\ t.act = seal[i].act
          BY <2>0 DEF SealStep, Steps
        <5>2. seal' = [seal EXCEPT ![i] = t]
          BY <1>0, <4>2 DEF Goto
        <5> QED BY <5>1, <5>2
      <4> QED BY <3>1, <4>1, <4>2
    <3>6. seal' \in [Invocations -> SealStep] /\ \A j \in Invocations : OfTheFile(seal[j])'
      BY <1>0, <3>1, <3>3, <3>4, <3>5 DEF OfTheFile, Idle
    <3>7. SealingTypeOK'
      BY <1>0, <3>1, <3>2, <3>3, <3>6 DEF SealingTypeOK, Act
    <3> QED BY <3>2, <3>7 DEF ActsInv
  <2> QED BY <2>1, <2>2
<1>7. ASSUME NEW i \in Invocations, RemoveLetter(i) PROVE ActsInv'
  <2>1. /\ Goto(i, "orphaned") \/ Return(i)
        /\ seal[i].step \in {"removing", "abandoned"} /\ pdfs' = pdfs \ {seal[i].pdf}
        /\ UNCHANGED <<file, dets, acts, voided, order, told, noticed, faults, history>>
    BY <1>7 DEF RemoveLetter
  <2>2. seal' \in [Invocations -> SealStep] /\ \A j \in Invocations : OfTheFile(seal[j])'
    BY <1>0, <2>1, GotoTyped, ReturnTyped DEF Early, Steps
  <2>3. SealingTypeOK'
    BY <1>0, <2>1, <2>2, OthersTyped
  <2> QED BY <2>1, <2>3, SameActs DEF history
<1>8. ASSUME NEW i \in Invocations, Notice(i) PROVE ActsInv'
  <2>1. /\ Goto(i, "sealing") \/ Return(i)
        /\ seal[i].step = "noticing" /\ noticed' \subseteq noticed \cup {seal[i].act}
        /\ UNCHANGED <<file, dets, acts, voided, pdfs, order, told, faults, history>>
    BY <1>8 DEF Notice
  <2>2. seal' \in [Invocations -> SealStep] /\ \A j \in Invocations : OfTheFile(seal[j])'
    BY <1>0, <2>1, GotoTyped, ReturnTyped DEF Early, Steps
  <2>3. seal[i].act \in DOMAIN acts
    <3>1. OfTheFile(seal[i])
      BY <1>0
    <3> QED BY <2>1, <3>1 DEF OfTheFile
  <2>4. SealingTypeOK'
    BY <1>0, <2>1, <2>2, <2>3 DEF SealingTypeOK, history
  <2> QED BY <2>1, <2>4, SameActs DEF history
<1>9. ASSUME NEW i \in Invocations, MoveToSealed(i) \/ MoveToDelivered(i) \/ Complete(i) PROVE ActsInv'
  <2>1. /\ Goto(i, "delivering") \/ Goto(i, "settling") \/ Return(i)
        /\ seal[i].step \in {"sealing", "delivering", "completing"}
        /\ file' \in Statuses /\ order' \in Orders
        /\ UNCHANGED <<dets, acts, voided, pdfs, told, noticed, faults, history>>
    BY <1>0, <1>9 DEF MoveToSealed, MoveToDelivered, Complete, Statuses, Orders
  <2>2. seal' \in [Invocations -> SealStep] /\ \A j \in Invocations : OfTheFile(seal[j])'
    BY <1>0, <2>1, GotoTyped, ReturnTyped DEF Early, Steps
  <2>3. SealingTypeOK'
    BY <1>0, <2>1, <2>2, OthersTyped
  <2> QED BY <2>1, <2>3, SameActs DEF history
<1>10. ASSUME NEW i \in Invocations, Settle(i) PROVE ActsInv'
  <2>1. /\ told' = Append(told, seal[i].det) /\ Goto(i, "completing") /\ seal[i].step = "settling"
        /\ UNCHANGED <<file, dets, acts, voided, pdfs, order, noticed, faults, history>>
    BY <1>10 DEF Settle
  <2>2. told' \in Seq(Nat)
    BY <1>0, <2>1 DEF SealingTypeOK, SealStep
  <2>3. seal' \in [Invocations -> SealStep] /\ \A j \in Invocations : OfTheFile(seal[j])'
    BY <1>0, <2>1, GotoTyped DEF Early, Steps
  <2>4. SealingTypeOK'
    BY <1>0, <2>1, <2>2, <2>3 DEF SealingTypeOK, history
  <2> QED BY <2>1, <2>4, SameActs DEF history
<1>11. ASSUME NEW i \in Invocations, NEW a \in DOMAIN acts, BeginVoid(i, a) PROVE ActsInv'
  <2> DEFINE s == [step |-> "voiding", det |-> 0, act |-> a, pdf |-> NoPdf]
  <2>a. a \in Nat
    BY <1>0, Domains
  <2>1. s \in SealStep /\ OfTheFile(s)
    BY <2>a DEF SealStep, Steps, OfTheFile, NoPdf
  <2>2. SealingTypeOK'
    BY <1>0, <1>11, <2>1, SlotTyped, OthersTyped DEF BeginVoid
  <2> QED BY <1>11, <2>2, SameActs DEF BeginVoid, history
<1>12. ASSUME NEW i \in Invocations, VoidSeal(i) PROVE ActsInv'
  <2>0. /\ Return(i) /\ UNCHANGED <<file, dets, acts, pdfs, order, told, noticed, faults, givenUp>>
    BY <1>12 DEF VoidSeal
  <2>1. seal' \in [Invocations -> SealStep] /\ \A j \in Invocations : OfTheFile(seal[j])'
    BY <1>0, <2>0, ReturnTyped
  <2>2. CASE ~IsLive(seal[i].act)
    <3>1. UNCHANGED <<voided, slipped>>
      BY <1>12, <2>2 DEF VoidSeal
    <3>2. SealingTypeOK'
      BY <1>0, <2>0, <2>1, <3>1, OthersTyped DEF history
    <3> QED BY <2>0, <3>1, <3>2, SameActs
  <2>3. CASE IsLive(seal[i].act)
    <3> DEFINE a == seal[i].act
    <3>1. /\ a \in DOMAIN acts /\ ~IsVoid(a) /\ voided' = Append(voided, a)
          /\ slipped \subseteq slipped' /\ slipped' \subseteq slipped \cup {acts[a].det}
      BY <1>12, <2>3 DEF VoidSeal, IsLive
    <3> HIDE DEF a
    <3>2. acts[a].det \in DOMAIN dets
      BY <1>0, <3>1 DEF SealingTypeOK
    <3>3. /\ voided' \in Seq(Nat) /\ \A k \in DOMAIN voided' : voided'[k] \in DOMAIN acts
          /\ VoidedOnce' /\ SomeVoidedLast'
      BY <3>1, OneMoreVoided
    <3>4. SealingTypeOK'
      BY <1>0, <2>0, <2>1, <3>1, <3>2, <3>3 DEF SealingTypeOK
    <3>5. ReplacesOwn' /\ FirstIsFirst'
      BY <2>0, <3>1 DEF ActsInv, ReplacesOwn, FirstIsFirst
    <3>6. UnreplacedIsLast' /\ HasLast'
      BY <2>0, <3>1 DEF ActsInv, UnreplacedIsLast, HasLast, Sealed
    <3> QED BY <3>3, <3>4, <3>5, <3>6 DEF ActsInv
  <2> QED BY <2>2, <2>3
<1>13. ASSUME NEW i \in Invocations, Stop(i) PROVE ActsInv'
  <2>1. /\ Return(i) /\ faults' \in Nat
        /\ UNCHANGED <<file, dets, acts, voided, pdfs, order, told, noticed, givenUp, slipped>>
    BY <1>0, <1>13 DEF Stop, Fault, SealingTypeOK, history
  <2>2. seal' \in [Invocations -> SealStep] /\ \A j \in Invocations : OfTheFile(seal[j])'
    BY <1>0, <2>1, ReturnTyped
  <2>3. SealingTypeOK'
    BY <1>0, <2>1, <2>2 DEF SealingTypeOK
  <2> QED BY <2>1, <2>3, SameActs
<1>14. ASSUME NEW kind \in Kinds, Decide(kind) PROVE ActsInv'
  <2>1. /\ dets' \in Seq(Kinds) /\ DOMAIN dets \subseteq DOMAIN dets'
        /\ \A d \in DOMAIN dets : dets'[d] = dets[d]
    BY <1>0, <1>14, Domains DEF Decide, SealingTypeOK, OfTheFile
  <2>2. file' \in Statuses
    BY <1>14 DEF Decide, Statuses
  <2>3. SealingTypeOK'
    BY <1>0, <1>14, <2>1, <2>2 DEF Decide, sealVars, history, SealingTypeOK, OfTheFile
  <2> QED BY <1>14, <2>3, SameActs DEF Decide, sealVars, history
<1>15. ASSUME Wander \/ GiveBack \/ (\E to \in {"sealed", "delivered"} : MoveByHand(to)) \/ UNCHANGED vars
       PROVE  ActsInv'
  <2>1. /\ file' \in Statuses /\ order' \in Orders
        /\ UNCHANGED <<dets, acts, voided, pdfs, told, noticed, seal, faults, givenUp, slipped>>
    BY <1>0, <1>15 DEF Wander, GiveBack, MoveByHand, vars, sealVars, history, Statuses, Orders
  <2>2. SealingTypeOK'
    BY <1>0, <2>1 DEF SealingTypeOK, OfTheFile
  <2> QED BY <2>1, <2>2, SameActs
<1> QED BY <1>1, <1>2, <1>3, <1>4, <1>5, <1>6, <1>7, <1>8, <1>9, <1>10, <1>11, <1>12,
           <1>13, <1>14, <1>15 DEF Next, SealingNext, SealSteps

-----------------------------------------------------------------------------

\* What an act that goes in leaves as it was, and what it changes: its determination
\* has a letter that stands.
LEMMA Added ==
  ASSUME ActsInv, ReadHolds, NEW i \in Invocations, seal[i].step \in Between,
         ~Refused(seal[i]), AddAct(seal[i]), UNCHANGED <<voided, slipped>>
  PROVE  /\ DOMAIN acts = 1..Len(acts) /\ Len(acts) \in Nat /\ seal[i].det \in Nat
         /\ DOMAIN acts' = 1..(Len(acts) + 1)
         /\ \A a \in DOMAIN acts : a \in DOMAIN acts' /\ acts'[a] = acts[a]
         /\ \A a \in DOMAIN acts' : a \in DOMAIN acts \/ a = Len(acts) + 1
         /\ acts'[Len(acts) + 1].det = seal[i].det
         /\ acts'[Len(acts) + 1].replaces = seal[i].act
         /\ acts'[Len(acts) + 1].pdf = seal[i].pdf
         /\ Len(acts) + 1 \in DOMAIN acts' /\ Len(acts) + 1 \notin DOMAIN acts
         /\ ~IsVoid(Len(acts) + 1)
         /\ \A d : d = seal[i].det => LiveFor(d)'
<1>1. /\ SealingTypeOK /\ DOMAIN acts = 1..Len(acts) /\ Len(acts) \in Nat
      /\ \A k \in DOMAIN voided : voided[k] \in DOMAIN acts
  BY Domains DEF ActsInv, SealingTypeOK
<1>2. /\ DOMAIN acts' = 1..(Len(acts) + 1)
      /\ \A a \in DOMAIN acts : acts'[a] = acts[a]
      /\ acts'[Len(acts) + 1] = [det |-> seal[i].det, replaces |-> seal[i].act, pdf |-> seal[i].pdf]
  BY AddKeepsActs
<1>3. Len(acts) + 1 \in DOMAIN acts' /\ Len(acts) + 1 \notin DOMAIN acts /\ ~IsVoid(Len(acts) + 1)
  BY <1>1, <1>2 DEF IsVoid
<1>4. /\ acts'[Len(acts) + 1].det = seal[i].det
      /\ acts'[Len(acts) + 1].replaces = seal[i].act /\ acts'[Len(acts) + 1].pdf = seal[i].pdf
  BY <1>2
<1>5. ASSUME NEW d, d = seal[i].det PROVE LiveFor(d)'
  <2>1. PICK n : n = Len(acts) + 1
    OBVIOUS
  <2>2. ~IsVoid(n)' /\ n \in DOMAIN acts' /\ acts'[n].det = d
    BY <1>3, <1>4, <1>5, <2>1 DEF IsVoid
  <2> QED BY <2>2 DEF LiveFor, IsLive
<1>6. seal[i].det \in Nat
  BY <1>1 DEF SealingTypeOK, SealStep
<1>7. \A a \in DOMAIN acts' : a \in DOMAIN acts \/ a = Len(acts) + 1
  BY <1>1, <1>2
<1>8. \A a \in DOMAIN acts : a \in DOMAIN acts' /\ acts'[a] = acts[a]
  BY <1>1, <1>2
<1> QED BY <1>1, <1>2, <1>3, <1>4, <1>5, <1>6, <1>7, <1>8

\* What was read between the trigger and the indexes holds until the indexes.
LEMMA StepReadHolds == ActsInv /\ ReadHolds /\ [Next]_vars => ReadHolds'
<1> SUFFICES ASSUME ActsInv, ReadHolds, [Next]_vars PROVE ReadHolds'
  OBVIOUS
<1>0. SealingTypeOK /\ seal \in [Invocations -> SealStep]
  BY DEF ActsInv, SealingTypeOK
<1>a. ASSUME UNCHANGED <<acts, voided, slipped>>,
             \A j \in Invocations : seal'[j].step \in Between =>
                /\ seal[j].step \in Between
                /\ seal'[j].det = seal[j].det /\ seal'[j].act = seal[j].act
      PROVE  ReadHolds'
  <2> SUFFICES ASSUME NEW j \in Invocations, seal'[j].step \in Between
               PROVE  /\ seal'[j].act # NoAct =>
                            /\ seal'[j].act \in DOMAIN acts /\ IsVoid(seal'[j].act)
                            /\ acts[seal'[j].act].det = seal'[j].det
                      /\ \/ seal'[j].det \in slipped
                         \/ LiveFor(seal'[j].det)
                         \/ LastOf(seal'[j].act, seal'[j].det)
    BY <1>a DEF ReadHolds, IsVoid, LiveFor, IsLive, LastOf, Sealed
  <2> QED BY <1>a DEF ReadHolds
<1>b. ASSUME NEW i \in Invocations, \A j \in Invocations \ {i} : seal'[j] = seal[j],
             UNCHANGED <<acts, voided, slipped>>,
             \/ seal'[i].step \notin Between
             \/ /\ seal[i].step \in Between
                /\ seal'[i].det = seal[i].det /\ seal'[i].act = seal[i].act
      PROVE  ReadHolds'
  BY <1>a, <1>b
<1>1. ASSUME NEW i \in Invocations, NEW d \in DOMAIN dets, BeginSeal(i, d) PROVE ReadHolds'
  BY <1>0, <1>1, <1>b DEF BeginSeal, Between, history
<1>2. ASSUME NEW i \in Invocations, StoreLetter(i) PROVE ReadHolds'
  <2>1. PICK name \in Names : seal' = [seal EXCEPT ![i].step = "recording", ![i].pdf = name]
    BY <1>2 DEF StoreLetter
  <2>2. seal'[i].step = "recording" /\ \A j \in Invocations \ {i} : seal'[j] = seal[j]
    BY <1>0, <2>1 DEF SealStep
  <2> QED BY <1>2, <1>b, <2>2 DEF StoreLetter, Between, history
<1>3. ASSUME NEW i \in Invocations, ReadReplaced(i) PROVE ReadHolds'
  <2> DEFINE d == seal[i].det
  <2>1. /\ UNCHANGED <<acts, voided, slipped>>
        /\ \A j \in Invocations \ {i} : seal'[j] = seal[j]
        /\ seal'[i].det = d /\ seal'[i].act = ReplacedBy(d) /\ d \in Nat
    BY <1>0, <1>3 DEF ReadReplaced, history, SealStep
  <2> HIDE DEF d
  <2>2. \/ d \in slipped \/ LiveFor(d) \/ LastOf(ReplacedBy(d), d)
    BY <2>1, ReadsTheLast
  <2>3. ReplacedBy(d) # NoAct => /\ ReplacedBy(d) \in DOMAIN acts /\ IsVoid(ReplacedBy(d))
                                 /\ acts[ReplacedBy(d)].det = d
    BY <2>1, ReadsOwnVoided
  <2> SUFFICES ASSUME NEW j \in Invocations, seal'[j].step \in Between
               PROVE  /\ seal'[j].act # NoAct =>
                            /\ seal'[j].act \in DOMAIN acts /\ IsVoid(seal'[j].act)
                            /\ acts[seal'[j].act].det = seal'[j].det
                      /\ \/ seal'[j].det \in slipped
                         \/ LiveFor(seal'[j].det)
                         \/ LastOf(seal'[j].act, seal'[j].det)
    BY <2>1 DEF ReadHolds, IsVoid, LiveFor, IsLive, LastOf, Sealed
  <2>4. CASE j = i
    BY <2>1, <2>2, <2>3, <2>4
  <2>5. CASE j # i
    BY <2>1, <2>5 DEF ReadHolds
  <2> QED BY <2>4, <2>5
<1>4. ASSUME NEW i \in Invocations, ~Refused(seal[i]), AddAct(seal[i]), seal[i].step \in Between,
             UNCHANGED <<voided, slipped>>, seal'[i].step \notin Between,
             \A j \in Invocations \ {i} : seal'[j] = seal[j]
      PROVE  ReadHolds'
  <2> PICK n, d : n = Len(acts) + 1 /\ d = seal[i].det
    OBVIOUS
  <2>1. /\ \A a \in DOMAIN acts : a \in DOMAIN acts' /\ acts'[a] = acts[a]
        /\ \A a \in DOMAIN acts' : a \in DOMAIN acts \/ a = n
        /\ acts'[n].det = d /\ LiveFor(d)'
    BY <1>4, Added
  <2>2. \A a : IsVoid(a)' <=> IsVoid(a)
    BY <1>4 DEF IsVoid
  <2>3. \A e : LiveFor(e) => LiveFor(e)'
    BY <2>1, <2>2 DEF LiveFor, IsLive
  <2>4. \A r, e : e # d /\ LastOf(r, e) => LastOf(r, e)'
    BY <2>1 DEF LastOf, Sealed
  <2> SUFFICES ASSUME NEW j \in Invocations, seal'[j].step \in Between,
                      NEW r, NEW e, r = seal'[j].act, e = seal'[j].det
               PROVE  /\ r # NoAct => r \in DOMAIN acts' /\ IsVoid(r)' /\ acts'[r].det = e
                      /\ e \in slipped' \/ LiveFor(e)' \/ LastOf(r, e)'
    BY DEF ReadHolds, IsVoid, LiveFor, IsLive, LastOf, Sealed
  <2>5. seal'[j] = seal[j]
    BY <1>4
  <2>6. /\ r # NoAct => r \in DOMAIN acts /\ IsVoid(r) /\ acts[r].det = e
        /\ e \in slipped \/ LiveFor(e) \/ LastOf(r, e)
    BY <2>5 DEF ReadHolds
  <2> QED BY <1>4, <2>1, <2>2, <2>3, <2>4, <2>6
<1>5. ASSUME NEW i \in Invocations, RecordSeal(i) PROVE ReadHolds'
  <2>1. CASE Refused(seal[i])
    BY <1>0, <1>5, <1>b, <2>1 DEF RecordSeal, Goto, Between, SealStep, history
  <2>2. CASE ~Refused(seal[i])
    <3>1. /\ seal[i].step \in Between /\ AddAct(seal[i]) /\ UNCHANGED <<voided, slipped>>
          /\ seal' = [seal EXCEPT ![i].step = "noticing", ![i].act = Len(acts) + 1]
      BY <1>5, <2>2 DEF RecordSeal, Between, history
    <3>2. seal'[i].step = "noticing" /\ \A j \in Invocations \ {i} : seal'[j] = seal[j]
      BY <1>0, <3>1 DEF SealStep
    <3> QED BY <1>4, <2>2, <3>1, <3>2 DEF Between
  <2> QED BY <2>1, <2>2
<1>6. ASSUME NEW i \in Invocations, RecordAbandoned(i) PROVE ReadHolds'
  <2>1. /\ seal'[i].step \in {"removing", "idle"} /\ seal[i].step \in Between
        /\ \A j \in Invocations \ {i} : seal'[j] = seal[j]
        /\ UNCHANGED <<voided, slipped>>
        /\ \/ ~Refused(seal[i]) /\ AddAct(seal[i])
           \/ UNCHANGED acts
    BY <1>0, <1>6 DEF RecordAbandoned, Goto, Return, Idle, SealStep, Between
  <2> QED BY <1>4, <1>b, <2>1 DEF Between
<1>7. ASSUME NEW i \in Invocations, GiveUp(i) PROVE ReadHolds'
  BY <1>0, <1>7, <1>b DEF GiveUp, Goto, Between, SealStep, history
<1>8. ASSUME NEW i \in Invocations, RemoveLetter(i) PROVE ReadHolds'
  BY <1>0, <1>8, <1>b DEF RemoveLetter, Goto, Return, Idle, Between, SealStep, history
<1>9. ASSUME NEW i \in Invocations, Notice(i) \/ MoveToSealed(i) \/ MoveToDelivered(i) PROVE ReadHolds'
  BY <1>0, <1>9, <1>b
     DEF Notice, MoveToSealed, MoveToDelivered, Goto, Return, Idle, Between, SealStep, history
<1>10. ASSUME NEW i \in Invocations, Settle(i) \/ Complete(i) \/ Stop(i) PROVE ReadHolds'
  BY <1>0, <1>10, <1>b
     DEF Settle, Complete, Stop, Goto, Return, Idle, Between, SealStep, history
<1>11. ASSUME NEW i \in Invocations, NEW a \in DOMAIN acts, BeginVoid(i, a) PROVE ReadHolds'
  BY <1>0, <1>11, <1>b DEF BeginVoid, Between, history
<1>12. ASSUME NEW i \in Invocations, VoidSeal(i) PROVE ReadHolds'
  <2>0. /\ seal'[i].step = "idle" /\ \A j \in Invocations \ {i} : seal'[j] = seal[j]
        /\ UNCHANGED acts
    BY <1>0, <1>12 DEF VoidSeal, Return, Idle
  <2>1. CASE ~IsLive(seal[i].act)
    BY <1>12, <1>b, <2>0, <2>1 DEF VoidSeal, Between
  <2>2. CASE IsLive(seal[i].act)
    <3> DEFINE a == seal[i].act
    <3>1. /\ a \in DOMAIN acts /\ ~IsVoid(a) /\ voided' = Append(voided, a)
          /\ slipped \subseteq slipped'
          /\ Inserting(acts[a].det) => acts[a].det \in slipped'
      BY <1>12, <2>2 DEF VoidSeal, IsLive
    <3> HIDE DEF a
    <3>2. \A b : IsVoid(b)' <=> IsVoid(b) \/ b = a
      BY <3>1, OneMoreVoided
    <3> SUFFICES ASSUME NEW j \in Invocations, seal'[j].step \in Between
                 PROVE  /\ seal'[j].act # NoAct =>
                              /\ seal'[j].act \in DOMAIN acts' /\ IsVoid(seal[j].act)'
                              /\ acts'[seal'[j].act].det = seal'[j].det
                        /\ \/ seal'[j].det \in slipped'
                           \/ LiveFor(seal[j].det)'
                           \/ LastOf(seal[j].act, seal[j].det)'
      BY DEF ReadHolds
    <3>3. seal'[j] = seal[j] /\ seal[j].step \in Between
      BY <2>0 DEF Between
    <3>4. /\ seal[j].act # NoAct => /\ seal[j].act \in DOMAIN acts /\ IsVoid(seal[j].act)
                                    /\ acts[seal[j].act].det = seal[j].det
          /\ \/ seal[j].det \in slipped \/ LiveFor(seal[j].det)
             \/ LastOf(seal[j].act, seal[j].det)
      BY <3>3 DEF ReadHolds
    <3>5. seal'[j].act # NoAct => /\ seal'[j].act \in DOMAIN acts' /\ IsVoid(seal[j].act)'
                                  /\ acts'[seal'[j].act].det = seal'[j].det
      BY <2>0, <3>2, <3>3, <3>4 DEF IsVoid
    <3>6. LastOf(seal[j].act, seal[j].det) => LastOf(seal[j].act, seal[j].det)'
      BY <2>0, <3>3 DEF LastOf, Sealed
    <3>7. seal[j].det = acts[a].det => seal[j].det \in slipped'
      BY <3>1, <3>3 DEF Inserting, Between
    <3>8. seal[j].det # acts[a].det /\ LiveFor(seal[j].det) => LiveFor(seal[j].det)'
      BY <2>0, <3>2, <3>3 DEF LiveFor, IsLive, IsVoid
    <3> QED BY <3>1, <3>3, <3>4, <3>5, <3>6, <3>7, <3>8
  <2> QED BY <2>1, <2>2
<1>13. CASE Wander \/ GiveBack \/ (\E kind \in Kinds : Decide(kind))
            \/ (\E to \in {"sealed", "delivered"} : MoveByHand(to)) \/ UNCHANGED vars
  <2>1. UNCHANGED <<acts, voided, slipped, seal>>
    BY <1>13 DEF Wander, GiveBack, Decide, MoveByHand, vars, sealVars, history
  <2> QED BY <1>a, <2>1
<1> QED BY <1>1, <1>2, <1>3, <1>5, <1>6, <1>7, <1>8, <1>9, <1>10, <1>11, <1>12, <1>13
        DEF Next, SealingNext, SealSteps

-----------------------------------------------------------------------------

\* Who acts on a letter goes on with it or stops, and the acts, the determinations
\* and those that slipped only grow.
LEMMA GoesOn ==
  ASSUME SealInv, ActsInv', ReadHolds', UNCHANGED told, slipped \subseteq slipped',
         \A d \in DOMAIN dets : d \in DOMAIN dets' /\ dets'[d] = dets[d],
         \A a \in DOMAIN acts : a \in DOMAIN acts' /\ acts'[a] = acts[a],
         \A j \in Invocations : seal'[j].step \in Acting =>
            /\ seal[j].step \in Acting
            /\ seal'[j].det = seal[j].det /\ seal'[j].act = seal[j].act
            /\ seal'[j].step # "noticing" =>
                  acts[seal[j].act].replaces = NoAct /\ Delivers(seal[j].det)
  PROVE  SealInv'
<1>1. \A j \in Invocations : seal[j].step \in Acting => seal[j].det \in DOMAIN dets
  BY DEF SealInv, ActsInv, SealingTypeOK, OfTheFile, Acting
<1>2. OwnActs'
  BY <1>1 DEF SealInv, OwnActs, Delivers, Settled
<1>3. ActsApart'
  BY DEF SealInv, ActsApart
<1>4. SettledOnceUnlessSlipped'
  <2>1. \A k \in DOMAIN told : told[k] \in DOMAIN dets
    BY DEF SealInv, SettledOnceUnlessSlipped, Sealed, ActsInv, SealingTypeOK
  <2>2. \A k \in DOMAIN told : Delivers(told[k])'
    BY <2>1 DEF SealInv, SettledOnceUnlessSlipped, Delivers
  <2>3. \A k \in DOMAIN told : Sealed(told[k])'
    BY DEF SealInv, SettledOnceUnlessSlipped, Sealed
  <2> QED BY <2>2, <2>3 DEF SealInv, SettledOnceUnlessSlipped
<1> QED BY <1>2, <1>3, <1>4 DEF SealInv

\* A letter just recorded is nobody else's, and a first one is not settled.
LEMMA RecordKeeps ==
  ASSUME SealInv, ActsInv', ReadHolds', NEW i \in Invocations, RecordSeal(i) PROVE SealInv'
<1>0. ActsInv /\ ReadHolds /\ SealingTypeOK
  BY DEF SealInv, ActsInv
<1>1. CASE Refused(seal[i])
  <2>1. /\ seal'[i].step = "removing" /\ \A j \in Invocations \ {i} : seal'[j] = seal[j]
        /\ UNCHANGED <<acts, dets, told, slipped>>
    BY <1>0, <1>1 DEF RecordSeal, Goto, SealingTypeOK, SealStep, history
  <2>2. \A j \in Invocations : seal'[j].step \in Acting => j # i /\ seal'[j] = seal[j]
    BY <2>1 DEF Acting
  <2> QED BY <2>1, <2>2, GoesOn DEF SealInv, OwnActs
<1>2. CASE ~Refused(seal[i])
  <2> PICK n, d, r : n = Len(acts) + 1 /\ d = seal[i].det /\ r = seal[i].act
    OBVIOUS
  <2>1. /\ AddAct(seal[i]) /\ seal[i].step = "inserting" /\ seal[i].step \in Between
        /\ seal' = [seal EXCEPT ![i].step = "noticing", ![i].act = n]
        /\ UNCHANGED <<dets, voided, told, slipped>>
    BY <1>2 DEF RecordSeal, Between, history
  <2>2. /\ \A a \in DOMAIN acts : a \in DOMAIN acts' /\ acts'[a] = acts[a]
        /\ n \in DOMAIN acts' /\ acts'[n].det = d /\ acts'[n].replaces = r
        /\ n \notin DOMAIN acts
    BY <1>0, <1>2, <2>1, Added
  <2>4. r = NoAct /\ d \notin slipped => ~Settled(d)
    <3>1. r = NoAct /\ d \notin slipped => ~Sealed(d)
      <4>1. DOMAIN acts = 1..Len(acts)
        BY <1>0, Domains
      <4>2. d \notin slipped => LastOf(r, d)
        BY <1>0, <1>2, <2>1, LetIn
      <4>3. NoAct \notin DOMAIN acts
        BY <4>1 DEF NoAct
      <4> QED BY <4>2, <4>3 DEF LastOf
    <3> QED BY <3>1 DEF SealInv, SettledOnceUnlessSlipped, Settled
  <2>5. /\ seal'[i].step = "noticing" /\ seal'[i].det = d /\ seal'[i].act = n
        /\ \A j \in Invocations \ {i} : seal'[j] = seal[j]
    BY <1>0, <2>1 DEF SealingTypeOK, SealStep
  <2>6. \A j \in Invocations \ {i} : seal'[j].step \in Acting =>
           seal'[j].act \in DOMAIN acts /\ seal'[j].det \in DOMAIN dets
    BY <2>5 DEF SealInv, OwnActs, ActsInv, SealingTypeOK, OfTheFile, Acting
  <2>7. OwnActs'
    <3> SUFFICES ASSUME NEW j \in Invocations, seal'[j].step \in Acting
                 PROVE  /\ seal'[j].act \in DOMAIN acts'
                        /\ acts'[seal'[j].act].det = seal'[j].det
                        /\ seal'[j].step # "noticing" =>
                              acts'[seal'[j].act].replaces = NoAct /\ Delivers(seal'[j].det)
                        /\ acts'[seal'[j].act].replaces = NoAct /\ seal'[j].det \notin slipped =>
                              ~Settled(seal'[j].det)
      BY <2>1 DEF OwnActs, Delivers, Settled
    <3>1. CASE j = i
      BY <3>1, <2>2, <2>4, <2>5
    <3>2. CASE j # i
      BY <3>2, <2>2, <2>5, <2>6 DEF SealInv, OwnActs
    <3> QED BY <3>1, <3>2
  <2>8. ActsApart'
    BY <2>2, <2>5, <2>6 DEF SealInv, ActsApart
  <2>9. SettledOnceUnlessSlipped'
    BY <2>1, <2>2 DEF SealInv, SettledOnceUnlessSlipped, Sealed, Delivers
  <2> QED BY <2>7, <2>8, <2>9 DEF SealInv
<1> QED BY <1>1, <1>2

\* Settling is for a first letter, and no other invocation has it unless the
\* determination slipped.
LEMMA SettleKeeps ==
  ASSUME SealInv, ActsInv', ReadHolds', NEW i \in Invocations, Settle(i) PROVE SealInv'
<1> DEFINE d == seal[i].det
<1>0. SealingTypeOK
  BY DEF SealInv, ActsInv
<1>1. /\ seal[i].step = "settling" /\ told' = Append(told, d)
      /\ seal' = [seal EXCEPT ![i].step = "completing"] /\ UNCHANGED <<dets, acts, voided, slipped>>
  BY DEF Settle, Goto, history
<1>2. /\ seal[i].act \in DOMAIN acts /\ acts[seal[i].act].det = d
      /\ acts[seal[i].act].replaces = NoAct /\ Delivers(d) /\ (d \notin slipped => ~Settled(d))
  BY <1>1 DEF SealInv, OwnActs, Acting
<1>3. /\ seal'[i].step = "completing"
      /\ \A j \in Invocations \ {i} : seal'[j] = seal[j]
  BY <1>0, <1>1 DEF SealingTypeOK, SealStep
<1>4. d \in Nat /\ told \in Seq(Nat) /\ DOMAIN told = 1..Len(told) /\ Len(told) \in Nat
  BY <1>0, Domains DEF SealingTypeOK, SealStep
<1> HIDE DEF d
<1>5. /\ DOMAIN told' = 1..(Len(told) + 1) /\ told'[Len(told) + 1] = d
      /\ \A k \in DOMAIN told : told'[k] = told[k]
      /\ \A k \in DOMAIN told' : k \in DOMAIN told \/ k = Len(told) + 1
  BY <1>1, <1>4
<1>6. ASSUME NEW j \in Invocations, j # i, seal[j].step \in Acting, d \notin slipped,
             acts[seal[j].act].replaces = NoAct
      PROVE  seal[j].det # d
  <2> SUFFICES ASSUME seal[j].det = d PROVE FALSE
    OBVIOUS
  <2>1. seal[j].act \in DOMAIN acts /\ acts[seal[j].act].det = d
    BY <1>6 DEF SealInv, OwnActs
  <2>2. seal[j].act <= seal[i].act /\ seal[i].act <= seal[j].act
    BY <1>2, <1>6, <2>1 DEF SealInv, ActsInv, FirstIsFirst
  <2>3. seal[j].act = seal[i].act
    BY <1>0, <1>2, <2>1, <2>2, Domains
  <2> QED BY <1>1, <1>6, <2>3 DEF SealInv, ActsApart, Acting
<1>7. OwnActs'
  <2>1. ASSUME NEW e, Settled(e)', ~Settled(e) PROVE e = d
    BY <2>1, <1>5 DEF Settled
  <2> SUFFICES ASSUME NEW j \in Invocations, seal'[j].step \in Acting
               PROVE  /\ seal'[j].act \in DOMAIN acts'
                      /\ acts'[seal'[j].act].det = seal'[j].det
                      /\ seal'[j].step # "noticing" =>
                            acts'[seal'[j].act].replaces = NoAct /\ Delivers(seal'[j].det)
                      /\ acts'[seal'[j].act].replaces = NoAct /\ seal'[j].det \notin slipped =>
                            ~Settled(seal[j].det)'
    BY <1>1 DEF OwnActs, Delivers, Settled
  <2>2. j # i /\ seal'[j] = seal[j]
    BY <1>3 DEF Acting
  <2> QED BY <1>1, <1>6, <2>1, <2>2 DEF SealInv, OwnActs
<1>8. ActsApart'
  BY <1>3 DEF SealInv, ActsApart, Acting
<1>9. SettledOnceUnlessSlipped'
  <2>1. d \notin slipped => \A k \in DOMAIN told : told[k] # d
    BY <1>2 DEF Settled
  <2>2. \A j, k \in DOMAIN told' : told'[j] = told'[k] /\ told'[j] \notin slipped => j = k
    BY <1>5, <2>1 DEF SealInv, SettledOnceUnlessSlipped
  <2>3. \A k \in DOMAIN told' : Delivers(told'[k]) /\ Sealed(told'[k])
    BY <1>2, <1>5 DEF SealInv, SettledOnceUnlessSlipped, Sealed
  <2> QED BY <1>1, <2>2, <2>3 DEF SettledOnceUnlessSlipped, Delivers, Sealed
<1> QED BY <1>7, <1>8, <1>9 DEF SealInv

\* Every step keeps all of it.
LEMMA StepSealInv == SealInv /\ [Next]_vars => SealInv'
<1> SUFFICES ASSUME SealInv, [Next]_vars PROVE SealInv'
  OBVIOUS
<1>0. ActsInv' /\ ReadHolds' /\ SealingTypeOK /\ seal \in [Invocations -> SealStep]
  BY StepActs, StepReadHolds DEF SealInv, ActsInv, SealingTypeOK
<1>1. ASSUME NEW i \in Invocations, UNCHANGED <<dets, acts, told>>, slipped \subseteq slipped',
             \A j \in Invocations \ {i} : seal'[j] = seal[j],
             \/ seal'[i].step \notin Acting
             \/ /\ seal[i].step \in Acting \ {"noticing"}
                /\ seal'[i].det = seal[i].det /\ seal'[i].act = seal[i].act
      PROVE  SealInv'
  <2>1. \A j \in Invocations : seal'[j].step \in Acting =>
            /\ seal[j].step \in Acting
            /\ seal'[j].det = seal[j].det /\ seal'[j].act = seal[j].act
            /\ seal'[j].step # "noticing" =>
                  acts[seal[j].act].replaces = NoAct /\ Delivers(seal[j].det)
    BY <1>1 DEF SealInv, OwnActs
  <2> QED BY <1>0, <1>1, <2>1, GoesOn
<1>2. ASSUME UNCHANGED <<acts, told, seal, slipped>>,
             \A d \in DOMAIN dets : d \in DOMAIN dets' /\ dets'[d] = dets[d]
      PROVE  SealInv'
  BY <1>0, <1>2, GoesOn DEF SealInv, OwnActs
<1>3. ASSUME NEW i \in Invocations, NEW d \in DOMAIN dets, BeginSeal(i, d) PROVE SealInv'
  BY <1>0, <1>1, <1>3 DEF BeginSeal, Acting, history
<1>4. ASSUME NEW i \in Invocations, StoreLetter(i) \/ ReadReplaced(i) PROVE SealInv'
  <2>1. /\ seal'[i].step \in {"recording", "inserting"}
        /\ \A j \in Invocations \ {i} : seal'[j] = seal[j]
    BY <1>0, <1>4 DEF StoreLetter, ReadReplaced, SealStep
  <2> QED BY <1>1, <1>4, <2>1 DEF StoreLetter, ReadReplaced, Acting, history
<1>5. ASSUME NEW i \in Invocations, Notice(i) PROVE SealInv'
  <2>1. seal[i].step = "noticing" /\ UNCHANGED <<dets, acts, told, slipped>>
    BY <1>5 DEF Notice, history
  <2>2. /\ \A j \in Invocations \ {i} : seal'[j] = seal[j]
        /\ \/ seal'[i] = Idle
           \/ /\ seal'[i].step = "sealing"
              /\ seal'[i].det = seal[i].det /\ seal'[i].act = seal[i].act
              /\ acts[seal[i].act].replaces = NoAct /\ Delivers(seal[i].det)
    BY <1>0, <1>5 DEF Notice, Goto, Return, SealStep
  <2>3. \A j \in Invocations : seal'[j].step \in Acting =>
            /\ seal[j].step \in Acting
            /\ seal'[j].det = seal[j].det /\ seal'[j].act = seal[j].act
            /\ seal'[j].step # "noticing" =>
                  acts[seal[j].act].replaces = NoAct /\ Delivers(seal[j].det)
    BY <2>1, <2>2 DEF SealInv, OwnActs, Acting, Idle
  <2> QED BY <1>0, <2>1, <2>3, GoesOn
<1>6. ASSUME NEW i \in Invocations, MoveToSealed(i) \/ MoveToDelivered(i) PROVE SealInv'
  BY <1>0, <1>1, <1>6 DEF MoveToSealed, MoveToDelivered, Goto, Acting, SealStep, history
<1>7. ASSUME NEW i \in Invocations, GiveUp(i) \/ RemoveLetter(i) PROVE SealInv'
  BY <1>0, <1>1, <1>7 DEF GiveUp, RemoveLetter, Goto, Return, Idle, Acting, SealStep, history
<1>8. ASSUME NEW i \in Invocations, Complete(i) PROVE SealInv'
  BY <1>0, <1>1, <1>8 DEF Complete, Return, Idle, Acting, history
<1>9. ASSUME NEW i \in Invocations, NEW a \in DOMAIN acts, BeginVoid(i, a) PROVE SealInv'
  BY <1>0, <1>1, <1>9 DEF BeginVoid, Acting, history
<1>10. ASSUME NEW i \in Invocations, VoidSeal(i) PROVE SealInv'
  <2>1. slipped \subseteq slipped' /\ UNCHANGED <<dets, acts, told>>
    BY <1>10 DEF VoidSeal
  <2> QED BY <1>0, <1>1, <1>10, <2>1 DEF VoidSeal, Return, Idle, Acting
<1>11. ASSUME NEW i \in Invocations, Stop(i) PROVE SealInv'
  BY <1>0, <1>1, <1>11 DEF Stop, Return, Idle, Acting, history
<1>12. ASSUME NEW i \in Invocations, RecordAbandoned(i) PROVE SealInv'
  <2>1. /\ seal'[i].step \in {"removing", "idle"} /\ seal[i].step \in Between
        /\ \A j \in Invocations \ {i} : seal'[j] = seal[j]
        /\ UNCHANGED <<dets, told, voided, slipped>>
        /\ \/ ~Refused(seal[i]) /\ AddAct(seal[i])
           \/ UNCHANGED acts
    BY <1>0, <1>12 DEF RecordAbandoned, Goto, Return, Idle, SealStep, Between
  <2>2. \A a \in DOMAIN acts : a \in DOMAIN acts' /\ acts'[a] = acts[a]
    BY <2>1, Added DEF SealInv
  <2>3. \A j \in Invocations : seal'[j].step \in Acting => seal'[j] = seal[j]
    BY <2>1 DEF Acting
  <2> QED BY <1>0, <2>1, <2>2, <2>3, GoesOn DEF SealInv, OwnActs
<1>13. ASSUME NEW kind \in Kinds, Decide(kind) PROVE SealInv'
  <2>1. \A d \in DOMAIN dets : d \in DOMAIN dets' /\ dets'[d] = dets[d]
    <3>1. dets' = Append(dets, kind) /\ dets \in Seq(Kinds)
      BY <1>0, <1>13 DEF Decide, SealingTypeOK
    <3> QED BY <3>1
  <2> QED BY <1>2, <1>13, <2>1 DEF Decide, sealVars, history
<1>14. CASE Wander \/ GiveBack \/ (\E to \in {"sealed", "delivered"} : MoveByHand(to)) \/ UNCHANGED vars
  BY <1>2, <1>14 DEF Wander, GiveBack, MoveByHand, vars, sealVars, history
<1> QED BY <1>0, <1>3, <1>4, <1>5, <1>6, <1>7, <1>8, <1>9, <1>10, <1>11, <1>12, <1>13,
           <1>14, RecordKeeps, SettleKeeps DEF Next, SealingNext, SealSteps

\* So it holds always.
LEMMA AlwaysSealInv == Spec => []SealInv
BY InitSealInv, StepSealInv, PTL DEF Spec

\* The state of sealing keeps its types, whatever overlaps, stops or goes
\* unanswered.
THEOREM SealingTypes == Spec => []SealingTypeOK
<1>1. SealInv => SealingTypeOK
  BY DEF SealInv, ActsInv
<1> QED BY <1>1, InitSealInv, StepSealInv, PTL DEF Spec

\* deliverSealedFile settles an order only for a determination whose letter was
\* sealed and delivers, and once, however often the letter is voided and sealed
\* again, unless it was voided while another was between its trigger and its indexes.
THEOREM OneSettlement == Spec => []SettledOnceUnlessSlipped
<1>1. SealInv => SettledOnceUnlessSlipped
  BY DEF SealInv
<1> QED BY <1>1, InitSealInv, StepSealInv, PTL DEF Spec

-----------------------------------------------------------------------------

\* The determinations stay within their bound.
LEMMA FewDets == Spec => [](Len(dets) <= MaxDets)
<1>1. Init => Len(dets) <= MaxDets
  BY SealingAssumption DEF Init
<1>2. SealInv /\ Len(dets) <= MaxDets /\ [Next]_vars => (Len(dets) <= MaxDets)'
  <2> SUFFICES ASSUME SealInv, Len(dets) <= MaxDets, [Next]_vars PROVE Len(dets') <= MaxDets
    OBVIOUS
  <2>1. CASE \E kind \in Kinds : Decide(kind)
    BY <2>1, SealingAssumption DEF Decide, SealInv, ActsInv, SealingTypeOK
  <2>2. CASE SealingNext \/ Wander \/ GiveBack \/ UNCHANGED vars
    <3>1. UNCHANGED dets
      BY <2>2 DEF SealingNext, SealSteps, Wander, GiveBack, vars, BeginSeal, BeginVoid, StoreLetter,
                  ReadReplaced, RecordSeal, GiveUp, RecordAbandoned, RemoveLetter, Notice,
                  MoveToSealed, MoveToDelivered, Settle, Complete, VoidSeal, Stop, MoveByHand
    <3> QED BY <3>1
  <2> QED BY <2>1, <2>2 DEF Next
<1> QED BY <1>1, <1>2, InitSealInv, StepSealInv, PTL DEF Spec

\* A letter recorded is one sealed in the register.
LEMMA SealInRegister ==
  ASSUME SealInv, Len(dets) <= MaxDets, NEW i \in Invocations, seal[i].step \in Between,
         ~Refused(seal[i]), AddAct(seal[i]), UNCHANGED <<voided, slipped>>,
         NEW d, d = seal[i].det
  PROVE  Register!Seal(d) /\ d \in 1..MaxDets
<1> PICK n, r : n = Len(acts) + 1 /\ r = seal[i].act
  OBVIOUS
<1>0. ActsInv /\ ReadHolds /\ SealingTypeOK
  BY DEF SealInv, ActsInv
<1>1. /\ DOMAIN acts = 1..Len(acts) /\ Len(acts) \in Nat
      /\ d \in Nat /\ d \in 1..MaxDets
  <2>1. OfTheFile(seal[i])
    BY <1>0 DEF SealingTypeOK
  <2>2. d \in DOMAIN dets
    BY <2>1 DEF OfTheFile, Between
  <2> QED BY <1>0, <2>2, Domains, SealingAssumption
<1>2. /\ DOMAIN acts' = 1..n
      /\ acts'[n].det = d /\ acts'[n].replaces = r
      /\ \A a \in DOMAIN acts : acts'[a] = acts[a]
  BY <1>0, Added
<1>3. /\ r = NoAct \/ /\ r \in DOMAIN acts /\ acts[r].det = d /\ IsVoid(r)
                      /\ \A b \in DOMAIN acts : acts[b].replaces # r
      /\ d \notin slipped => LastOf(r, d)
  BY <1>0, LetIn
<1>4. \A a \in DOMAIN acts : IsVoid(a)' <=> IsVoid(a)
  BY DEF IsVoid
<1>5. ~IsVoid(n)'
  BY <1>0, <1>1 DEF IsVoid, SealingTypeOK
<1>6. RegisterOf' = Append(RegisterOf, Register!Act(d, r))
  <2>1. /\ DOMAIN RegisterOf = 1..Len(acts) /\ Len(RegisterOf) = Len(acts)
        /\ DOMAIN RegisterOf' = 1..n
    BY <1>1, <1>2 DEF RegisterOf
  <2>2. RegisterOf'[n] = Register!Act(d, r)
    <3>1. RegisterOf'[n] = [det |-> acts'[n].det, live |-> (~IsVoid(n))',
                            replaces |-> acts'[n].replaces]
      BY <1>1, <1>2 DEF RegisterOf
    <3>2. (~IsVoid(n))' = TRUE
      BY <1>5
    <3>3. acts'[n].det = d /\ acts'[n].replaces = r
      BY <1>2
    <3>4. RegisterOf'[n] = [det |-> d, live |-> TRUE, replaces |-> r]
      BY <3>1, <3>2, <3>3, Zenon
    <3> QED BY <3>4 DEF Register!Act
  <2>3. \A a \in DOMAIN acts : RegisterOf'[a] = RegisterOf[a]
    BY <1>1, <1>2, <1>4 DEF RegisterOf
  <2> DEFINE Rec == [det : Nat, live : BOOLEAN, replaces : Nat]
  <2>4. RegisterOf \in Seq(Rec)
    <3>1. acts \in Seq(Act)
      BY <1>0 DEF SealingTypeOK, Act
    <3>2. \A a \in 1..Len(acts) :
             acts[a].det \in Nat /\ acts[a].replaces \in Nat /\ (~IsVoid(a)) \in BOOLEAN
      <4>1. \A a \in 1..Len(acts) : acts[a] \in Act
        BY <3>1, ElementOfSeq
      <4> QED BY <4>1 DEF Act, IsVoid
    <3>3. RegisterOf = [a \in 1..Len(acts) |-> RegisterOf[a]]
      BY <1>1 DEF RegisterOf
    <3>4. \A a \in 1..Len(acts) : RegisterOf[a] \in Rec
      BY <1>1, <3>2 DEF RegisterOf
    <3> HIDE DEF Rec
    <3>5. RegisterOf \in [1..Len(acts) -> Rec]
      BY <3>3, <3>4
    <3> QED BY <1>1, <3>5
  <2>5. RegisterOf' \in Seq(Rec)
    <3>1. Register!Act(d, r) \in Rec
      BY <1>0, <1>1, <1>3 DEF Register!Act, SealingTypeOK, NoAct
    <3>2. \A a \in 1..n : RegisterOf'[a] \in Rec
      <4>1. \A a \in 1..Len(acts) : RegisterOf[a] \in Rec
        <5> HIDE DEF Rec
        <5> QED BY <2>1, <2>4, ElementOfSeq
      <4>2. \A a \in 1..Len(acts) : RegisterOf'[a] \in Rec
        <5> HIDE DEF Rec
        <5> QED BY <1>1, <2>3, <4>1
      <4>3. RegisterOf'[n] \in Rec
        BY <2>2, <3>1, Zenon
      <4>4. \A a \in 1..n : a \in 1..Len(acts) \/ a = n
        BY <1>1
      <4> HIDE DEF Rec
      <4> QED BY <4>2, <4>3, <4>4
    <3>3. RegisterOf' = [a \in 1..n |-> RegisterOf'[a]]
      BY <1>2 DEF RegisterOf
    <3> HIDE DEF Rec
    <3>4. RegisterOf' \in [1..n -> Rec] /\ n \in Nat
      BY <1>1, <3>2, <3>3
    <3> QED BY <3>4
  <2> QED BY <1>1, <2>1, <2>2, <2>3, <2>4, <2>5, SeqEqual, AppendProperties
<1>7. Register!Live(d) = {}
  BY DEF Register!Live, Register!Of, LiveFor, IsLive, RegisterOf, Refused
<1>8. CASE r # NoAct
  <2>1. r \in Register!Unreplaced(d)
    BY <1>3, <1>8 DEF Register!Unreplaced, Register!Of, RegisterOf
  <2> QED BY <1>1, <1>6, <1>7, <2>1 DEF Register!Seal, RegisterOf
<1>9. CASE r = NoAct
  <2>1. Register!Unreplaced(d) = {} \/ d \in slipped
    <3>1. d \notin slipped => ~Sealed(d)
      BY <1>1, <1>3, <1>9 DEF LastOf, NoAct
    <3> QED BY <3>1 DEF Register!Unreplaced, Register!Of, Sealed, RegisterOf
  <2>2. RegisterOf' = Append(RegisterOf, Register!Act(d, Register!NoAct))
    BY <1>6, <1>9 DEF NoAct, Register!NoAct
  <2> QED BY <1>1, <1>7, <2>1, <2>2, Zenon DEF Register!Seal, RegisterOf
<1> QED BY <1>8, <1>9

\* Every step is one of the register's, or leaves it as it is.
LEMMA StepRegister ==
  SealInv /\ Len(dets) <= MaxDets /\ [Next]_vars => [Register!Next]_<<RegisterOf, slipped>>
<1> SUFFICES ASSUME SealInv, Len(dets) <= MaxDets, [Next]_vars
             PROVE  Register!Next \/ UNCHANGED <<RegisterOf, slipped>>
  OBVIOUS
<1>0. SealingTypeOK
  BY DEF SealInv, ActsInv
<1>1. ASSUME UNCHANGED <<acts, voided, slipped>> PROVE UNCHANGED <<RegisterOf, slipped>>
  BY <1>1 DEF RegisterOf, IsVoid
<1>2. ASSUME NEW i \in Invocations, RecordSeal(i) \/ RecordAbandoned(i)
      PROVE  Register!Next \/ UNCHANGED <<RegisterOf, slipped>>
  <2>1. /\ UNCHANGED <<voided, slipped>> /\ seal[i].step \in Between
        /\ \/ UNCHANGED acts
           \/ ~Refused(seal[i]) /\ AddAct(seal[i])
    BY <1>2 DEF RecordSeal, RecordAbandoned, history, Between
  <2>2. CASE UNCHANGED acts
    BY <1>1, <2>1, <2>2
  <2>3. CASE ~Refused(seal[i]) /\ AddAct(seal[i])
    BY <2>1, <2>3, SealInRegister DEF Register!Next
  <2> QED BY <2>1, <2>2, <2>3
<1>3. ASSUME NEW i \in Invocations, VoidSeal(i)
      PROVE  Register!Next \/ UNCHANGED <<RegisterOf, slipped>>
  <2> PICK a : a = seal[i].act
    OBVIOUS
  <2>1. CASE ~IsLive(a)
    BY <1>1, <1>3, <2>1 DEF VoidSeal
  <2>2. CASE IsLive(a)
    <3>1. /\ a \in DOMAIN acts /\ ~IsVoid(a) /\ voided' = Append(voided, a) /\ acts' = acts
          /\ slipped' \in {slipped, slipped \cup {acts[a].det}}
      BY <1>3, <2>2 DEF VoidSeal, IsLive
    <3>2. \A b \in DOMAIN acts : IsVoid(b)' <=> IsVoid(b) \/ b = a
      BY <3>1, OneMoreVoided DEF SealInv
    <3>3. RegisterOf' = [RegisterOf EXCEPT ![a].live = FALSE]
      BY <3>1, <3>2 DEF RegisterOf
    <3>4. a \in DOMAIN RegisterOf /\ RegisterOf[a].det = acts[a].det /\ RegisterOf[a].live
      BY <3>1 DEF RegisterOf
    <3> QED BY <3>1, <3>3, <3>4 DEF Register!Next, Register!Void
  <2> QED BY <2>1, <2>2
<1> QED BY <1>1, <1>2, <1>3
    DEF Next, SealingNext, SealSteps, Wander, GiveBack, vars, sealVars, history, BeginSeal,
        BeginVoid, StoreLetter, ReadReplaced, GiveUp, RemoveLetter, Notice, MoveToSealed,
        MoveToDelivered, Settle, Complete, Stop, MoveByHand, Decide

\* Sealing implements the register: the acts recorded by requests that overlap,
\* stop and are given up are acts of a register that never has two letters of a
\* determination that stand, nor one replaced twice, each letter replacing the one
\* sealed before it but where a voiding slipped in.
THEOREM SealingKeepsRegister == Spec => KeepsRegister
<1>1. Init => Register!Init
  BY DEF Init, SealingInit, Register!Init, RegisterOf
<1> QED BY <1>1, InitSealInv, StepSealInv, StepRegister, FewDets, PTL
        DEF Spec, KeepsRegister, Register!Spec, Register!vars

-----------------------------------------------------------------------------
\* What the register's promise amounts to.

\* An act nothing replaces is the last of its determination, if that did not slip.
UnreplacedEnds ==
    \A a \in DOMAIN RegisterOf :
       /\ RegisterOf[a].det \notin slipped
       /\ \A b \in DOMAIN RegisterOf : RegisterOf[b].replaces # a
       => \A b \in DOMAIN RegisterOf : b > a => RegisterOf[b].det # RegisterOf[a].det

\* A determination with letters has a last one.
HasEnd ==
    \A d \in 1..MaxDets : Register!Of(d) # {} => \E a \in Register!Of(d) : \A b \in Register!Of(d) : b <= a

\* OneChain says nothing of how the chain grows: it grows at the end because
\* what nothing replaces is an end, and because there is one.
ChainInv ==
    /\ Register!RegisterTypeOK /\ Register!OneLiveLetter /\ Register!ReplacedOnce
    /\ Register!OneChain /\ UnreplacedEnds /\ HasEnd

\* The register starts empty, which is a chain.
LEMMA InitChain == Register!Init => ChainInv
<1> SUFFICES ASSUME Register!Init PROVE ChainInv
  OBVIOUS
<1>1. Register!RegisterTypeOK /\ Register!OneLiveLetter /\ Register!ReplacedOnce
  BY DEF Register!Init, Register!RegisterTypeOK, Register!OneLiveLetter, Register!Live,
         Register!Of, Register!ReplacedOnce
<1>2. Register!OneChain /\ UnreplacedEnds /\ HasEnd
  BY DEF Register!Init, Register!OneChain, UnreplacedEnds, HasEnd, Register!Of
<1> QED BY <1>1, <1>2 DEF ChainInv

\* What appending an act leaves alone, and what it adds.
LEMMA Appended ==
  ASSUME Register!RegisterTypeOK, NEW act \in [det : 1..MaxDets, live : BOOLEAN, replaces : Nat],
         RegisterOf' = Append(RegisterOf, act)
  PROVE  /\ Register!RegisterTypeOK'
         /\ Len(RegisterOf) \in Nat
         /\ DOMAIN RegisterOf = 1..Len(RegisterOf)
         /\ DOMAIN RegisterOf' = 1..(Len(RegisterOf) + 1)
         /\ RegisterOf'[Len(RegisterOf) + 1] = act
         /\ \A a \in DOMAIN RegisterOf : RegisterOf'[a] = RegisterOf[a]
  BY DEF Register!RegisterTypeOK

\* A seal extends the chain of its determination and no other.
LEMMA SealKeepsChain ==
  ASSUME ChainInv, NEW d \in 1..MaxDets, Register!Seal(d)
  PROVE  ChainInv'
<1> DEFINE n == Len(RegisterOf) + 1
<1>0. RegisterOf \in Seq([det : 1..MaxDets, live : BOOLEAN, replaces : Nat])
  BY DEF ChainInv, Register!RegisterTypeOK
<1>1. PICK r \in Nat : /\ RegisterOf' = Append(RegisterOf, Register!Act(d, r))
                       /\ \/ /\ Register!Unreplaced(d) = {} \/ d \in slipped
                             /\ r = Register!NoAct
                          \/ r \in Register!Unreplaced(d)
  <2>1. \A a \in Register!Unreplaced(d) : a \in Nat
    BY <1>0 DEF Register!Unreplaced, Register!Of
  <2> QED BY <2>1 DEF Register!Seal, Register!NoAct
<1>a. UNCHANGED slipped
  BY DEF Register!Seal
<1>2. Register!Act(d, r) \in [det : 1..MaxDets, live : BOOLEAN, replaces : Nat]
  BY <1>1 DEF Register!Act
<1>3. /\ Register!RegisterTypeOK'
      /\ Len(RegisterOf) \in Nat
      /\ DOMAIN RegisterOf = 1..Len(RegisterOf)
      /\ DOMAIN RegisterOf' = 1..n
      /\ RegisterOf'[n] = Register!Act(d, r)
      /\ \A a \in DOMAIN RegisterOf : RegisterOf'[a] = RegisterOf[a]
  BY <1>1, <1>2, Appended DEF ChainInv
<1>4. \A a \in DOMAIN RegisterOf : RegisterOf[a].det = d => ~RegisterOf[a].live
  BY DEF Register!Seal, Register!Live, Register!Of
<1>5. r # Register!NoAct =>
         /\ r \in DOMAIN RegisterOf /\ RegisterOf[r].det = d
         /\ \A b \in DOMAIN RegisterOf : RegisterOf[b].replaces # r
         /\ d \notin slipped => \A b \in DOMAIN RegisterOf : b > r => RegisterOf[b].det # d
  BY <1>1, <1>3 DEF ChainInv, UnreplacedEnds, Register!Unreplaced, Register!Of, Register!NoAct
<1>6. r = Register!NoAct /\ d \notin slipped => Register!Of(d) = {}
  <2> SUFFICES ASSUME r = Register!NoAct, d \notin slipped, Register!Of(d) # {} PROVE FALSE
    OBVIOUS
  <2>1. PICK m \in Register!Of(d) : \A b \in Register!Of(d) : b <= m
    BY DEF ChainInv, HasEnd
  <2>2. Register!Unreplaced(d) = {}
    BY <1>1, <1>3 DEF Register!NoAct, Register!Unreplaced, Register!Of
  <2>3. PICK b \in DOMAIN RegisterOf : RegisterOf[b].replaces = m
    BY <2>1, <2>2, <1>4 DEF Register!Unreplaced, Register!Of
  <2>4. m \in DOMAIN RegisterOf /\ RegisterOf[m].det = d /\ m # Register!NoAct
    BY <2>1, <1>3 DEF Register!Of, Register!NoAct
  <2>5. m < b /\ RegisterOf[m].det = RegisterOf[b].det
    BY <2>3, <2>4 DEF ChainInv, Register!ReplacedOnce
  <2> QED BY <2>1, <2>3, <2>4, <2>5, <1>3 DEF Register!Of
<1>7. /\ \A a \in DOMAIN RegisterOf : a \in 1..n /\ a < n /\ a \in Nat
      /\ \A a \in 1..n : a \in DOMAIN RegisterOf \/ a = n
      /\ n \in Nat /\ n # Register!NoAct
  BY <1>3 DEF Register!NoAct
<1>8. Register!OneChain'
  <2> SUFFICES ASSUME NEW a \in DOMAIN RegisterOf', RegisterOf'[a].det \notin slipped
               PROVE  /\ RegisterOf'[a].replaces = Register!NoAct <=>
                           ~\E b \in DOMAIN RegisterOf' : b < a /\ RegisterOf'[b].det = RegisterOf'[a].det
                      /\ RegisterOf'[a].replaces # Register!NoAct =>
                           RegisterOf'[a].replaces \in DOMAIN RegisterOf' /\ Register!Previous(a, RegisterOf[a].replaces)'
                      /\ RegisterOf'[a].live =>
                           \A b \in DOMAIN RegisterOf' : b > a => RegisterOf'[b].det # RegisterOf'[a].det
    BY <1>a DEF Register!OneChain
  <2>1. CASE a \in DOMAIN RegisterOf
    <3>1. RegisterOf'[a] = RegisterOf[a]
      BY <2>1, <1>3
    <3>2. RegisterOf[a].replaces = Register!NoAct <=>
             ~\E b \in DOMAIN RegisterOf : b < a /\ RegisterOf[b].det = RegisterOf[a].det
      BY <2>1, <3>1 DEF ChainInv, Register!OneChain
    <3>3. RegisterOf'[a].replaces = Register!NoAct <=>
             ~\E b \in DOMAIN RegisterOf' : b < a /\ RegisterOf'[b].det = RegisterOf'[a].det
      BY <2>1, <3>1, <3>2, <1>3, <1>7
    <3>4. RegisterOf[a].replaces # Register!NoAct =>
             RegisterOf[a].replaces \in DOMAIN RegisterOf /\ Register!Previous(a, RegisterOf[a].replaces)
      BY <2>1, <3>1 DEF ChainInv, Register!OneChain
    <3>5. RegisterOf'[a].replaces # Register!NoAct =>
             RegisterOf'[a].replaces \in DOMAIN RegisterOf' /\ Register!Previous(a, RegisterOf[a].replaces)'
      BY <2>1, <3>1, <3>4, <1>3, <1>7 DEF Register!Previous
    <3>6. RegisterOf[a].live =>
             \A b \in DOMAIN RegisterOf : b > a => RegisterOf[b].det # RegisterOf[a].det
      BY <2>1, <3>1 DEF ChainInv, Register!OneChain
    <3>7. RegisterOf[a].live => RegisterOf[a].det # d
      BY <2>1, <1>4
    <3>8. RegisterOf'[a].live =>
             \A b \in DOMAIN RegisterOf' : b > a => RegisterOf'[b].det # RegisterOf'[a].det
      BY <2>1, <3>1, <3>6, <3>7, <1>3, <1>7 DEF Register!Act
    <3> QED BY <3>3, <3>5, <3>8
  <2>2. CASE a = n
    <3>1. /\ RegisterOf'[a].det = d /\ RegisterOf'[a].replaces = r /\ RegisterOf'[a].live
      BY <2>2, <1>3 DEF Register!Act
    <3>2. r = Register!NoAct => ~\E b \in DOMAIN RegisterOf' : b < a /\ RegisterOf'[b].det = d
      BY <2>2, <3>1, <1>3, <1>6, <1>7 DEF Register!Of
    <3>3. r # Register!NoAct => /\ r \in DOMAIN RegisterOf'
                       /\ r < a /\ RegisterOf'[r].det = d
                       /\ \A c \in DOMAIN RegisterOf' : r < c /\ c < a => RegisterOf'[c].det # d
      BY <2>2, <3>1, <1>3, <1>5, <1>7
    <3>4. r # Register!NoAct => Register!Previous(a, RegisterOf[a].replaces)'
      BY <3>1, <3>3 DEF Register!Previous
    <3>5. \A b \in DOMAIN RegisterOf' : ~(b > a)
      BY <2>2, <1>3, <1>7
    <3> QED BY <3>1, <3>2, <3>3, <3>4, <3>5
  <2> QED BY <2>1, <2>2, <1>3, <1>7
<1>9. UnreplacedEnds'
  <2> SUFFICES ASSUME NEW a \in DOMAIN RegisterOf', RegisterOf'[a].det \notin slipped,
                      \A b \in DOMAIN RegisterOf' : RegisterOf'[b].replaces # a,
                      NEW b \in DOMAIN RegisterOf', b > a
               PROVE  RegisterOf'[b].det # RegisterOf'[a].det
    BY <1>a DEF UnreplacedEnds
  <2>1. a \in DOMAIN RegisterOf
    BY <1>3, <1>7
  <2>2. \A c \in DOMAIN RegisterOf : RegisterOf[c].replaces # a
    BY <1>3, <1>7
  <2>3. /\ RegisterOf[a].det \notin slipped
        /\ \A c \in DOMAIN RegisterOf : c > a => RegisterOf[c].det # RegisterOf[a].det
    BY <2>1, <2>2, <1>3 DEF ChainInv, UnreplacedEnds
  <2>4. a # r
    BY <1>3, <1>7 DEF Register!Act
  <2>5. CASE b = n
    <3>1. r = Register!NoAct => RegisterOf[a].det # d
      BY <2>1, <2>3, <1>6 DEF Register!Of
    <3>2. r # Register!NoAct /\ RegisterOf[a].det = d => a < r \/ r < a
      BY <2>1, <2>4, <1>5, <1>7
    <3>3. r # Register!NoAct /\ RegisterOf[a].det = d => FALSE
      BY <2>1, <2>3, <3>2, <1>5, <1>7
    <3> QED BY <2>1, <2>5, <3>1, <3>3, <1>3 DEF Register!Act
  <2>6. CASE b \in DOMAIN RegisterOf
    BY <2>1, <2>3, <2>6, <1>3
  <2> QED BY <2>5, <2>6, <1>3, <1>7
<1>10. HasEnd'
  <2> SUFFICES ASSUME NEW e \in 1..MaxDets, Register!Of(e)' # {}
               PROVE  \E a \in Register!Of(e)' : \A b \in Register!Of(e)' : b <= a
    BY DEF HasEnd
  <2>1. CASE e = d
    <3>1. n \in Register!Of(e)'
      BY <2>1, <1>3, <1>7 DEF Register!Of, Register!Act
    <3> QED BY <3>1, <1>3, <1>7 DEF Register!Of
  <2>2. CASE e # d
    <3>1. Register!Of(e)' = Register!Of(e)
      BY <2>2, <1>3, <1>7 DEF Register!Of, Register!Act
    <3> QED BY <3>1 DEF ChainInv, HasEnd
  <2> QED BY <2>1, <2>2
<1>11. Register!OneLiveLetter'
  <2> SUFFICES ASSUME NEW e \in 1..MaxDets, NEW a \in DOMAIN RegisterOf', NEW b \in DOMAIN RegisterOf',
                      RegisterOf'[a].det = e, RegisterOf'[a].live,
                      RegisterOf'[b].det = e, RegisterOf'[b].live
               PROVE  a = b
    BY DEF Register!OneLiveLetter, Register!Live, Register!Of
  <2>1. CASE e = d
    BY <2>1, <1>3, <1>4, <1>7
  <2>2. CASE e # d
    <3>1. a \in DOMAIN RegisterOf /\ b \in DOMAIN RegisterOf
      BY <2>2, <1>3, <1>7 DEF Register!Act
    <3> QED BY <3>1, <1>3 DEF ChainInv, Register!OneLiveLetter, Register!Live, Register!Of
  <2> QED BY <2>1, <2>2
<1>12. Register!ReplacedOnce'
  <2> SUFFICES ASSUME NEW a \in DOMAIN RegisterOf', NEW q, q = RegisterOf'[a].replaces,
                      q # Register!NoAct
               PROVE  /\ q \in DOMAIN RegisterOf' /\ q < a /\ RegisterOf'[q].det = RegisterOf'[a].det
                      /\ \A b \in DOMAIN RegisterOf' : RegisterOf'[b].replaces = q => a = b
    BY DEF Register!ReplacedOnce
  <2>1. CASE a \in DOMAIN RegisterOf
    <3>1. /\ q \in DOMAIN RegisterOf /\ q < a /\ RegisterOf[q].det = RegisterOf[a].det
          /\ \A b \in DOMAIN RegisterOf : RegisterOf[b].replaces = q => a = b
      BY <2>1, <1>3 DEF ChainInv, Register!ReplacedOnce
    <3>2. q # r
      BY <2>1, <1>3, <1>5
    <3> QED BY <2>1, <3>1, <3>2, <1>3, <1>7 DEF Register!Act
  <2>2. CASE a = n
    <3>1. q = r
      BY <2>2, <1>3 DEF Register!Act
    <3> QED BY <2>2, <3>1, <1>3, <1>5, <1>7 DEF Register!Act
  <2> QED BY <2>1, <2>2, <1>3, <1>7
<1> QED BY <1>3, <1>8, <1>9, <1>10, <1>11, <1>12 DEF ChainInv

\* Voiding changes whether an act stands and nothing the chain is made of.
LEMMA VoidKeepsChain ==
  ASSUME ChainInv, NEW v \in DOMAIN RegisterOf, Register!Void(v)
  PROVE  ChainInv'
<1>1. /\ Register!RegisterTypeOK'
      /\ DOMAIN RegisterOf' = DOMAIN RegisterOf
      /\ \A a \in DOMAIN RegisterOf : /\ RegisterOf'[a].det = RegisterOf[a].det
                                      /\ RegisterOf'[a].replaces = RegisterOf[a].replaces
                                      /\ RegisterOf'[a].live => RegisterOf[a].live
      /\ slipped \subseteq slipped'
  <2> DEFINE Record == [det : 1..MaxDets, live : BOOLEAN, replaces : Nat]
  <2>1. RegisterOf \in Seq(Record) /\ DOMAIN RegisterOf = 1..Len(RegisterOf) /\ Len(RegisterOf) \in Nat
    BY DEF ChainInv, Register!RegisterTypeOK
  <2>2. \A a \in DOMAIN RegisterOf : RegisterOf[a] \in Record
    BY <2>1, ElementOfSeq
  <2>3. /\ DOMAIN RegisterOf' = DOMAIN RegisterOf
        /\ \A a \in DOMAIN RegisterOf :
              RegisterOf'[a] = IF a = v THEN [RegisterOf[v] EXCEPT !.live = FALSE] ELSE RegisterOf[a]
    BY DEF Register!Void
  <2>4. \A a \in DOMAIN RegisterOf :
           /\ RegisterOf'[a] \in Record
           /\ RegisterOf'[a].det = RegisterOf[a].det
           /\ RegisterOf'[a].replaces = RegisterOf[a].replaces
           /\ RegisterOf'[a].live => RegisterOf[a].live
    BY <2>2, <2>3
  <2>5. RegisterOf' \in Seq(Record)
    <3>1. RegisterOf' = [RegisterOf EXCEPT ![v] = RegisterOf'[v]]
      BY <2>1, <2>3 DEF Register!Void
    <3>2. v \in 1..Len(RegisterOf) /\ RegisterOf'[v] \in Record
      BY <2>1, <2>4
    <3> HIDE DEF Record
    <3>3. [RegisterOf EXCEPT ![v] = RegisterOf'[v]] \in Seq(Record)
      BY <2>1, <3>2, ExceptSeq
    <3> QED BY <3>1, <3>3
  <2>6. slipped \subseteq slipped'
    BY DEF Register!Void
  <2> QED BY <2>3, <2>4, <2>5, <2>6 DEF Register!RegisterTypeOK
<1>2. Register!OneChain'
  <2> SUFFICES ASSUME NEW a \in DOMAIN RegisterOf, RegisterOf[a].det \notin slipped
               PROVE  /\ RegisterOf'[a].replaces = Register!NoAct <=>
                           ~\E b \in DOMAIN RegisterOf : b < a /\ RegisterOf'[b].det = RegisterOf'[a].det
                      /\ RegisterOf'[a].replaces # Register!NoAct =>
                           RegisterOf'[a].replaces \in DOMAIN RegisterOf /\ Register!Previous(a, RegisterOf[a].replaces)'
                      /\ RegisterOf'[a].live =>
                           \A b \in DOMAIN RegisterOf : b > a => RegisterOf'[b].det # RegisterOf'[a].det
    BY <1>1 DEF Register!OneChain
  <2>1. /\ RegisterOf[a].replaces = Register!NoAct <=>
             ~\E b \in DOMAIN RegisterOf : b < a /\ RegisterOf[b].det = RegisterOf[a].det
        /\ RegisterOf[a].replaces # Register!NoAct =>
             RegisterOf[a].replaces \in DOMAIN RegisterOf /\ Register!Previous(a, RegisterOf[a].replaces)
        /\ RegisterOf[a].live =>
             \A b \in DOMAIN RegisterOf : b > a => RegisterOf[b].det # RegisterOf[a].det
    BY DEF ChainInv, Register!OneChain
  <2>2. ASSUME RegisterOf[a].replaces # Register!NoAct
        PROVE  Register!Previous(a, RegisterOf[a].replaces)'
    <3>1. PICK r : r = RegisterOf[a].replaces
      OBVIOUS
    <3>2. /\ r \in DOMAIN RegisterOf /\ r < a /\ RegisterOf[r].det = RegisterOf[a].det
          /\ \A c \in DOMAIN RegisterOf : r < c /\ c < a => RegisterOf[c].det # RegisterOf[a].det
      BY <2>1, <2>2, <3>1 DEF Register!Previous
    <3>3. /\ RegisterOf'[a].replaces = r /\ RegisterOf'[r].det = RegisterOf'[a].det
          /\ \A c \in DOMAIN RegisterOf' : r < c /\ c < a => RegisterOf'[c].det # RegisterOf'[a].det
      BY <1>1, <3>1, <3>2
    <3> QED BY <3>2, <3>3 DEF Register!Previous
  <2>3. /\ RegisterOf'[a].replaces = RegisterOf[a].replaces
        /\ RegisterOf'[a].live => RegisterOf[a].live
        /\ \A b \in DOMAIN RegisterOf : RegisterOf'[b].det = RegisterOf[b].det
    BY <1>1
  <2> QED BY <2>1, <2>2, <2>3
<1>3. UnreplacedEnds'
  <2> SUFFICES ASSUME NEW a \in DOMAIN RegisterOf, RegisterOf[a].det \notin slipped,
                      \A b \in DOMAIN RegisterOf : RegisterOf'[b].replaces # a,
                      NEW b \in DOMAIN RegisterOf, b > a
               PROVE  RegisterOf'[b].det # RegisterOf'[a].det
    BY <1>1 DEF UnreplacedEnds
  <2> QED BY <1>1 DEF ChainInv, UnreplacedEnds
<1>4. HasEnd'
  <2> SUFFICES ASSUME NEW d \in 1..MaxDets, NEW c \in DOMAIN RegisterOf, RegisterOf'[c].det = d
               PROVE  \E a \in DOMAIN RegisterOf :
                         /\ RegisterOf'[a].det = d
                         /\ \A b \in DOMAIN RegisterOf : RegisterOf'[b].det = d => b <= a
    BY <1>1 DEF HasEnd, Register!Of
  <2> QED BY <1>1 DEF ChainInv, HasEnd, Register!Of
<1>5. Register!OneLiveLetter'
  BY <1>1 DEF ChainInv, Register!OneLiveLetter, Register!Live, Register!Of
<1>6. Register!ReplacedOnce'
  <2> SUFFICES ASSUME NEW a \in DOMAIN RegisterOf, NEW q, q = RegisterOf[a].replaces,
                      q # Register!NoAct
               PROVE  /\ q \in DOMAIN RegisterOf /\ q < a /\ RegisterOf'[q].det = RegisterOf'[a].det
                      /\ \A b \in DOMAIN RegisterOf : RegisterOf'[b].replaces = q => a = b
    BY <1>1 DEF Register!ReplacedOnce
  <2>1. /\ q \in DOMAIN RegisterOf /\ q < a /\ RegisterOf[q].det = RegisterOf[a].det
        /\ \A b \in DOMAIN RegisterOf : RegisterOf[b].replaces = q => a = b
    BY DEF ChainInv, Register!ReplacedOnce
  <2> QED BY <2>1, <1>1
<1> QED BY <1>1, <1>2, <1>3, <1>4, <1>5, <1>6 DEF ChainInv

\* A register that keeps its promise never has two letters that stand nor one
\* replaced twice, and is one chain per determination that did not slip, always.
THEOREM RegisterIsChain == Register!Spec => []ChainInv
<1>1. ChainInv /\ [Register!Next]_<<RegisterOf, slipped>> => ChainInv'
  <2> SUFFICES ASSUME ChainInv, [Register!Next]_<<RegisterOf, slipped>> PROVE ChainInv'
    OBVIOUS
  <2>1. CASE \E d \in 1..MaxDets : Register!Seal(d)
    BY <2>1, SealKeepsChain
  <2>2. CASE \E a \in DOMAIN RegisterOf : Register!Void(a)
    BY <2>2, VoidKeepsChain
  <2>3. CASE UNCHANGED <<RegisterOf, slipped>>
    <3>1. Register!RegisterTypeOK'
      BY <2>3 DEF ChainInv, Register!RegisterTypeOK
    <3>2. UnreplacedEnds'
      BY <2>3 DEF ChainInv, UnreplacedEnds
    <3>3. HasEnd'
      BY <2>3 DEF ChainInv, HasEnd, Register!Of
    <3>4. Register!OneChain'
      BY <2>3 DEF ChainInv, Register!OneChain, Register!Previous
    <3>5. Register!OneLiveLetter' /\ Register!ReplacedOnce'
      BY <2>3 DEF ChainInv, Register!OneLiveLetter, Register!Live, Register!Of, Register!ReplacedOnce
    <3> QED BY <3>1, <3>2, <3>3, <3>4, <3>5 DEF ChainInv
  <2> QED BY <2>1, <2>2, <2>3 DEF Register!Next
<1> QED BY InitChain, <1>1, PTL DEF Register!Spec, Register!vars

\* Whatever requests overlap, stop or are given up, and whatever is voided while
\* they are at it, a determination never has two letters that stand: what
\* eng_seal_acts_one_live_letter (0062) is trusted with.
THEOREM NeverTwoLetters == Spec => []Register!OneLiveLetter
<1>1. ChainInv => Register!OneLiveLetter
  BY DEF ChainInv
<1> QED BY SealingKeepsRegister, RegisterIsChain, <1>1, PTL DEF KeepsRegister

\* The letters of a determination none of whose letters was voided between another's
\* trigger and its indexes are one chain: each replaces the one sealed before it, the
\* first replaces none, and only the last may stand.  Of every determination, no
\* letter is replaced twice.
THEOREM EachReplacesTheLast == Spec => [](Register!OneChain /\ Register!ReplacedOnce)
<1>1. ChainInv => Register!OneChain /\ Register!ReplacedOnce
  BY DEF ChainInv
<1> QED BY SealingKeepsRegister, RegisterIsChain, <1>1, PTL DEF KeepsRegister

-----------------------------------------------------------------------------
\* The bucket and the register.

\* A letter in the bucket that no act names yet, but one given up.
Holding == {"recording", "inserting", "abandoned", "removing"}
Named(name) == \E a \in DOMAIN acts : acts[a].pdf = name

\* What a request knows of its letter: it is in the bucket until it is removed, no
\* act that its request waited for has it until its own does, and it is let go of
\* only then.
Slot(i) ==
    /\ seal[i].step \in {"recording", "inserting"} => seal[i].pdf \in pdfs
    /\ seal[i].step \in Holding =>
          \A a \in DOMAIN acts \ givenUp : acts[a].pdf # seal[i].pdf
    /\ seal[i].step \in {"idle", "storing", "voiding"} => seal[i].pdf = NoPdf
    /\ seal[i].step \in Acting \cup {"completing"} => Named(seal[i].pdf)
    /\ seal[i].step \in {"abandoned", "orphaned"} => faults > 0
HoldersApart ==
    \A i, j \in Invocations :
       seal[i].step \in Holding /\ seal[j].step \in Holding /\ seal[i].pdf = seal[j].pdf => i = j
Stored == \A a \in DOMAIN acts \ givenUp : acts[a].pdf \in pdfs
NoneLeft ==
    faults = 0 => \A name \in pdfs : Named(name) \/ \E i \in Invocations : seal[i].pdf = name

BucketInv == (\A i \in Invocations : Slot(i)) /\ HoldersApart /\ Stored /\ NoneLeft

\* Nothing is in the bucket at first.
LEMMA InitBucket == Init => BucketInv
<1> SUFFICES ASSUME Init PROVE BucketInv
  OBVIOUS
<1>1. \A i \in Invocations : Slot(i)
  BY DEF Init, SealingInit, Idle, Slot, Holding, Acting
<1>2. HoldersApart /\ Stored /\ NoneLeft
  BY DEF Init, SealingInit, Idle, HoldersApart, Holding, Stored, NoneLeft
<1> QED BY <1>1, <1>2 DEF BucketInv

\* A fault is never taken back.
LEMMA FaultsStay == SealingTypeOK /\ [Next]_vars /\ faults' = 0 => faults = 0
<1> SUFFICES ASSUME SealingTypeOK, [Next]_vars, faults' = 0 PROVE faults = 0
  OBVIOUS
<1>1. faults' = faults \/ faults' = faults + 1
  BY DEF Next, SealingNext, SealSteps, BeginSeal, StoreLetter, ReadReplaced, RecordSeal, GiveUp,
         RecordAbandoned, RemoveLetter, Notice, MoveToSealed, MoveToDelivered, Settle, Complete,
         BeginVoid, VoidSeal, Stop, Fault, Decide, Wander, GiveBack, MoveByHand, vars, sealVars
<1> QED BY <1>1 DEF SealingTypeOK

\* A request that stores nothing, records nothing and removes nothing keeps the
\* bucket, if it lets go of no letter that no act names.
LEMMA BucketStays ==
  ASSUME SealingTypeOK, BucketInv, NEW i \in Invocations, UNCHANGED <<acts, pdfs, givenUp>>,
         faults' \in {faults, faults + 1},
         \A j \in Invocations \ {i} : seal'[j] = seal[j],
         Slot(i)',
         seal'[i].step \in Holding => seal[i].step \in Holding /\ seal'[i].pdf = seal[i].pdf,
         faults' = 0 => \/ seal'[i].pdf = seal[i].pdf
                        \/ seal[i].pdf = NoPdf
                        \/ Named(seal[i].pdf)
  PROVE  BucketInv'
<1>0. faults \in Nat /\ pdfs \subseteq Nat \ {0}
  BY SealingAssumption DEF SealingTypeOK
<1>1. ASSUME NEW j \in Invocations PROVE Slot(j)'
  <2>1. CASE j = i
    BY <2>1
  <2>2. CASE j # i
    <3>1. seal'[j] = seal[j] /\ Slot(j)
      BY <2>2 DEF BucketInv
    <3> QED BY <3>1, <1>0 DEF Slot, Named
  <2> QED BY <2>1, <2>2
<1>2. HoldersApart'
  <2> SUFFICES ASSUME NEW j \in Invocations, NEW k \in Invocations, seal'[j].step \in Holding,
                      seal'[k].step \in Holding, seal'[j].pdf = seal'[k].pdf
               PROVE  j = k
    BY DEF HoldersApart
  <2>1. /\ seal[j].step \in Holding /\ seal[j].pdf = seal'[j].pdf
        /\ seal[k].step \in Holding /\ seal[k].pdf = seal'[k].pdf
    OBVIOUS
  <2> QED BY <2>1 DEF BucketInv, HoldersApart
<1>3. Stored'
  BY DEF BucketInv, Stored
<1>4. NoneLeft'
  <2> SUFFICES ASSUME faults' = 0, NEW name \in pdfs
               PROVE  Named(name) \/ \E j \in Invocations : seal'[j].pdf = name
    BY DEF NoneLeft, Named
  <2>1. faults = 0
    BY <1>0
  <2>2. Named(name) \/ \E j \in Invocations : seal[j].pdf = name
    BY <2>1 DEF BucketInv, NoneLeft
  <2>3. CASE seal[i].pdf = name
    BY <2>3, <1>0 DEF NoPdf
  <2>4. CASE \E j \in Invocations \ {i} : seal[j].pdf = name
    BY <2>4
  <2> QED BY <2>2, <2>3, <2>4
<1> QED BY <1>1, <1>2, <1>3, <1>4 DEF BucketInv

\* A letter that goes in goes in under a name nothing has.
LEMMA StoreKeepsBucket ==
  ASSUME SealingTypeOK, BucketInv, NEW i \in Invocations, StoreLetter(i)
  PROVE  BucketInv'
<1>0. faults \in Nat /\ pdfs \subseteq Nat \ {0} /\ seal \in [Invocations -> SealStep]
  BY SealingAssumption DEF SealingTypeOK
<1>1. PICK name \in Names \ Taken :
         /\ pdfs' = pdfs \cup {name}
         /\ seal' = [seal EXCEPT ![i].step = "recording", ![i].pdf = name]
  BY DEF StoreLetter
<1>2. /\ UNCHANGED <<acts, faults, givenUp>> /\ seal[i].step = "storing"
      /\ seal'[i].step = "recording" /\ seal'[i].pdf = name
      /\ \A j \in Invocations \ {i} : seal'[j] = seal[j]
  BY <1>0, <1>1 DEF StoreLetter, history, SealStep
<1>3. /\ \A a \in DOMAIN acts : acts[a].pdf # name
      /\ \A j \in Invocations : seal[j].pdf # name
  BY <1>1 DEF Taken
<1>4. ASSUME NEW j \in Invocations PROVE Slot(j)'
  <2>1. CASE j = i
    <3>1. seal'[j].step = "recording" /\ seal'[j].pdf \in pdfs'
      BY <2>1, <1>1, <1>2
    <3>2. \A a \in DOMAIN acts' \ givenUp' : acts'[a].pdf # seal'[j].pdf
      BY <2>1, <1>2, <1>3
    <3> QED BY <3>1, <3>2 DEF Slot, Acting
  <2>2. CASE j # i
    <3>1. seal'[j] = seal[j] /\ Slot(j)
      BY <2>2, <1>2 DEF BucketInv
    <3> QED BY <3>1, <1>1, <1>2 DEF Slot, Named
  <2> QED BY <2>1, <2>2
<1>5. HoldersApart'
  BY <1>2, <1>3 DEF BucketInv, HoldersApart
<1>6. Stored'
  BY <1>1, <1>2 DEF BucketInv, Stored
<1>7. NoneLeft'
  <2> SUFFICES ASSUME faults' = 0, NEW n \in pdfs'
               PROVE  Named(n) \/ \E j \in Invocations : seal'[j].pdf = n
    BY <1>2 DEF NoneLeft, Named
  <2>1. CASE n = name
    BY <2>1, <1>2
  <2>2. CASE n \in pdfs
    <3>1. Named(n) \/ \E j \in Invocations : seal[j].pdf = n
      BY <2>2, <1>2 DEF BucketInv, NoneLeft
    <3>2. seal[i].pdf = NoPdf /\ n # NoPdf
      BY <2>2, <1>0, <1>2 DEF BucketInv, Slot, NoPdf
    <3> QED BY <3>1, <3>2, <1>2
  <2> QED BY <2>1, <2>2, <1>1
<1> QED BY <1>4, <1>5, <1>6, <1>7 DEF BucketInv

\* An act that goes in has its letter in the bucket, unless its request gave it up.
LEMMA RecordKeepsBucket ==
  ASSUME SealInv, BucketInv, NEW i \in Invocations, RecordSeal(i) \/ RecordAbandoned(i),
         ~Refused(seal[i])
  PROVE  BucketInv'
<1>0. /\ SealingTypeOK /\ ActsInv /\ ReadHolds /\ faults \in Nat
      /\ seal \in [Invocations -> SealStep] /\ givenUp \subseteq DOMAIN acts
  BY DEF SealInv, ActsInv, SealingTypeOK
<1> PICK n, p : n = Len(acts) + 1 /\ p = seal[i].pdf
  OBVIOUS
<1>1. /\ seal[i].step \in Between /\ AddAct(seal[i])
      /\ UNCHANGED <<voided, slipped, pdfs, faults>>
      /\ \A j \in Invocations \ {i} : seal'[j] = seal[j]
      /\ \/ /\ seal[i].step = "inserting" /\ givenUp' = givenUp
            /\ seal'[i].step = "noticing" /\ seal'[i].pdf = p
         \/ /\ seal[i].step = "abandoned" /\ givenUp' = givenUp \cup {n}
            /\ seal'[i].step = "removing" /\ seal'[i].pdf = p
         \/ /\ seal[i].step = "orphaned" /\ givenUp' = givenUp \cup {n} /\ seal'[i] = Idle
  BY <1>0 DEF RecordSeal, RecordAbandoned, Goto, Return, Between, history, SealStep
<1>2. /\ DOMAIN acts' = 1..n /\ n \notin DOMAIN acts /\ n \in DOMAIN acts'
      /\ \A a \in DOMAIN acts : acts'[a] = acts[a] /\ a \in DOMAIN acts'
      /\ \A a \in DOMAIN acts' : a \in DOMAIN acts \/ a = n
      /\ acts'[n].pdf = p
  <2>1. /\ DOMAIN acts' = 1..(Len(acts) + 1)
        /\ \A a \in DOMAIN acts : acts'[a] = acts[a]
        /\ acts'[Len(acts) + 1] = [det |-> seal[i].det, replaces |-> seal[i].act, pdf |-> seal[i].pdf]
    BY <1>0, <1>1, AddKeepsActs
  <2>2. DOMAIN acts = 1..Len(acts) /\ Len(acts) \in Nat
    BY <1>0, Domains
  <2> QED BY <2>1, <2>2
<1>3. \A name : Named(name) => Named(name)'
  BY <1>2 DEF Named
<1>4. ASSUME NEW j \in Invocations PROVE Slot(j)'
  <2>1. CASE j = i
    <3>1. CASE seal'[i].step = "noticing"
      <4>1. seal'[j].step = "noticing" /\ seal'[j].pdf = p
        BY <2>1, <3>1, <1>1 DEF Idle
      <4>2. Named(p)'
        BY <1>2 DEF Named
      <4>3. Named(seal[j].pdf)'
        BY <4>1, <4>2 DEF Named
      <4> QED BY <4>1, <4>3 DEF Slot, Holding
    <3>2. CASE seal[i].step = "abandoned"
      BY <2>1, <3>2, <1>0, <1>1, <1>2 DEF Slot, Holding, Acting, BucketInv
    <3>3. CASE seal[i].step = "orphaned"
      BY <2>1, <3>3, <1>1 DEF Slot, Idle, Holding, Acting
    <3> QED BY <3>1, <3>2, <3>3, <1>1
  <2>2. CASE j # i
    <3>1. seal'[j] = seal[j] /\ Slot(j)
      BY <2>2, <1>1 DEF BucketInv
    <3>2. seal[j].step \in Holding /\ seal[i].step = "inserting" => seal[j].pdf # p
      BY <2>2 DEF BucketInv, HoldersApart, Holding
    <3> QED BY <3>1, <3>2, <1>1, <1>2, <1>3 DEF Slot
  <2> QED BY <2>1, <2>2
<1>5. HoldersApart'
  <2> SUFFICES ASSUME NEW j \in Invocations, NEW k \in Invocations, seal'[j].step \in Holding,
                      seal'[k].step \in Holding, seal'[j].pdf = seal'[k].pdf
               PROVE  j = k
    BY DEF HoldersApart
  <2>1. \A l \in Invocations : seal'[l].step \in Holding =>
           seal[l].step \in Holding /\ seal'[l].pdf = seal[l].pdf
    BY <1>1 DEF Holding, Idle
  <2> QED BY <2>1 DEF BucketInv, HoldersApart
<1>6. Stored'
  <2>1. seal[i].step = "inserting" => p \in pdfs
    BY DEF BucketInv, Slot
  <2> QED BY <2>1, <1>1, <1>2 DEF BucketInv, Stored
<1>7. NoneLeft'
  <2> SUFFICES ASSUME faults' = 0, NEW name \in pdfs'
               PROVE  Named(name)' \/ \E j \in Invocations : seal'[j].pdf = name
    BY DEF NoneLeft
  <2>1. Named(name) \/ \E j \in Invocations : seal[j].pdf = name
    BY <1>1 DEF BucketInv, NoneLeft
  <2>2. CASE seal[i].pdf = name
    BY <2>2, <1>2 DEF Named
  <2> QED BY <2>1, <2>2, <1>1, <1>3
<1> QED BY <1>4, <1>5, <1>6, <1>7 DEF BucketInv

\* What is removed is the request's own letter, which no act but one given up names.
LEMMA RemoveKeepsBucket ==
  ASSUME SealingTypeOK, BucketInv, NEW i \in Invocations, RemoveLetter(i)
  PROVE  BucketInv'
<1>0. faults \in Nat /\ seal \in [Invocations -> SealStep]
  BY DEF SealingTypeOK
<1> PICK p : p = seal[i].pdf
  OBVIOUS
<1>1. /\ UNCHANGED <<acts, faults, givenUp>> /\ pdfs' = pdfs \ {p} /\ seal[i].step \in Holding
      /\ \A j \in Invocations \ {i} : seal'[j] = seal[j]
      /\ \/ seal[i].step = "abandoned" /\ seal'[i].step = "orphaned"
         \/ seal'[i] = Idle
  BY <1>0 DEF RemoveLetter, Goto, Return, history, Holding, SealStep
<1>2. ASSUME NEW j \in Invocations PROVE Slot(j)'
  <2>1. CASE j = i /\ seal'[i] = Idle
    BY <2>1 DEF Slot, Idle, Holding, Acting
  <2>2. CASE j = i /\ seal[i].step = "abandoned" /\ seal'[i].step = "orphaned"
    BY <2>2, <1>1 DEF Slot, Holding, Acting, BucketInv
  <2>3. CASE j # i
    <3>1. seal'[j] = seal[j] /\ Slot(j)
      BY <2>3, <1>1 DEF BucketInv
    <3>2. seal[j].step \in Holding => seal[j].pdf # p
      BY <2>3, <1>1 DEF BucketInv, HoldersApart
    <3> QED BY <3>1, <3>2, <1>1 DEF Slot, Holding, Named
  <2> QED BY <2>1, <2>2, <2>3, <1>1
<1>3. HoldersApart'
  BY <1>1 DEF BucketInv, HoldersApart, Holding, Idle
<1>4. Stored'
  BY <1>1 DEF BucketInv, Slot, Stored
<1>5. NoneLeft'
  BY <1>1 DEF BucketInv, NoneLeft, Named
<1> QED BY <1>2, <1>3, <1>4, <1>5 DEF BucketInv

\* Every step keeps the bucket and the register agreeing.
LEMMA StepBucket == SealInv /\ BucketInv /\ [Next]_vars => BucketInv'
<1> SUFFICES ASSUME SealInv, BucketInv, [Next]_vars PROVE BucketInv'
  OBVIOUS
<1>0. /\ SealingTypeOK /\ ActsInv /\ faults \in Nat /\ seal \in [Invocations -> SealStep]
      /\ \A i \in Invocations : Slot(i)
  BY DEF SealInv, ActsInv, SealingTypeOK, BucketInv
<1>1. ASSUME UNCHANGED <<acts, pdfs, givenUp, seal, faults>> PROVE BucketInv'
  <2>1. \A i \in Invocations : Slot(i)'
    BY <1>0, <1>1 DEF Slot, Named
  <2> QED BY <1>1, <2>1 DEF BucketInv, HoldersApart, Stored, NoneLeft, Named
<1>2. ASSUME NEW i \in Invocations, UNCHANGED <<acts, pdfs, givenUp>>,
             faults' \in {faults, faults + 1},
             NEW s, seal' = [seal EXCEPT ![i] = s],
             s.step \in Holding => seal[i].step \in Holding /\ s.pdf = seal[i].pdf,
             faults' = 0 => s.pdf = seal[i].pdf \/ seal[i].pdf = NoPdf \/ Named(seal[i].pdf),
             s.step \in {"recording", "inserting"} => seal[i].pdf \in pdfs,
             s.step \in {"idle", "storing", "voiding"} => s.pdf = NoPdf,
             s.step \in Acting \cup {"completing"} => Named(s.pdf),
             s.step \in {"abandoned", "orphaned"} => faults' > 0
      PROVE  BucketInv'
  <2>1. seal'[i] = s /\ \A j \in Invocations \ {i} : seal'[j] = seal[j]
    BY <1>0, <1>2
  <2>2. Slot(i)'
    <3>1. s.step \in {"recording", "inserting"} => s.pdf \in pdfs
      BY <1>2 DEF Holding
    <3>2. s.step \in Holding => \A a \in DOMAIN acts \ givenUp : acts[a].pdf # s.pdf
      BY <1>0, <1>2 DEF Slot
    <3> QED BY <1>2, <2>1, <3>1, <3>2 DEF Slot, Named
  <2> QED BY <1>0, <1>2, <2>1, <2>2, BucketStays
<1>3. ASSUME NEW i \in Invocations, NEW d \in DOMAIN dets, BeginSeal(i, d) PROVE BucketInv'
  <2> PICK s : s = [step |-> "storing", det |-> d, act |-> NoAct, pdf |-> NoPdf]
    OBVIOUS
  <2>1. /\ seal[i] = Idle /\ UNCHANGED <<acts, pdfs, givenUp, faults>>
        /\ seal' = [seal EXCEPT ![i] = s]
    BY <1>3 DEF BeginSeal, history
  <2>2. s.step = "storing" /\ s.pdf = NoPdf /\ seal[i].pdf = NoPdf
    BY <2>1 DEF Idle
  <2> QED BY <2>1, <2>2, <1>2 DEF Holding, Acting
<1>4. ASSUME NEW i \in Invocations, NEW a \in DOMAIN acts, BeginVoid(i, a) PROVE BucketInv'
  <2> PICK s : s = [step |-> "voiding", det |-> 0, act |-> a, pdf |-> NoPdf]
    OBVIOUS
  <2>1. /\ seal[i] = Idle /\ UNCHANGED <<acts, pdfs, givenUp, faults>>
        /\ seal' = [seal EXCEPT ![i] = s]
    BY <1>4 DEF BeginVoid, history
  <2>2. s.step = "voiding" /\ s.pdf = NoPdf /\ seal[i].pdf = NoPdf
    BY <2>1 DEF Idle
  <2> QED BY <2>1, <2>2, <1>2 DEF Holding, Acting
<1>5. ASSUME NEW i \in Invocations, ReadReplaced(i) PROVE BucketInv'
  <2> DEFINE s == [seal[i] EXCEPT !.step = "inserting", !.act = ReplacedBy(seal[i].det)]
  <2>1. /\ seal[i].step = "recording" /\ UNCHANGED <<acts, pdfs, givenUp, faults>>
        /\ seal' = [seal EXCEPT ![i] = s]
    BY <1>5 DEF ReadReplaced, history
  <2>2. s.step = "inserting" /\ s.pdf = seal[i].pdf
    BY <1>0 DEF SealStep
  <2>3. seal[i].pdf \in pdfs
    BY <1>0, <2>1 DEF Slot
  <2> HIDE DEF s
  <2> QED BY <1>2, <2>1, <2>2, <2>3 DEF Holding, Acting
<1>6. ASSUME NEW i \in Invocations, NEW step \in Steps, Goto(i, step),
             UNCHANGED <<acts, pdfs, givenUp>>, faults' \in {faults, faults + 1},
             \/ seal[i].step = "inserting" /\ step = "removing"
             \/ seal[i].step = "inserting" /\ step = "abandoned" /\ faults' > 0
             \/ seal[i].step = "abandoned" /\ step = "removing"
             \/ seal[i].step \in Acting /\ step \in Acting \cup {"completing"}
      PROVE  BucketInv'
  <2> DEFINE s == [seal[i] EXCEPT !.step = step]
  <2>1. seal' = [seal EXCEPT ![i] = s]
    BY <1>6 DEF Goto
  <2>2. s.step = step /\ s.pdf = seal[i].pdf
    BY <1>0 DEF SealStep
  <2>3. step \in Acting \cup {"completing"} => Named(seal[i].pdf)
    BY <1>0, <1>6 DEF Slot, Acting
  <2> HIDE DEF s
  <2> QED BY <1>2, <1>6, <2>1, <2>2, <2>3 DEF Holding, Acting
<1>7. ASSUME NEW i \in Invocations, Return(i), UNCHANGED <<acts, pdfs, givenUp>>,
             faults' \in {faults, faults + 1},
             \/ faults' # 0
             \/ seal[i].step \in Acting \cup {"completing", "voiding"}
      PROVE  BucketInv'
  <2>1. faults' = 0 => seal[i].pdf = NoPdf \/ Named(seal[i].pdf)
    BY <1>0, <1>7 DEF Slot
  <2> QED BY <1>2, <1>7, <2>1 DEF Return, Idle, Holding, Acting
<1>8. ASSUME NEW i \in Invocations, StoreLetter(i) PROVE BucketInv'
  BY <1>0, <1>8, StoreKeepsBucket
<1>9. ASSUME NEW i \in Invocations, RemoveLetter(i) PROVE BucketInv'
  BY <1>0, <1>9, RemoveKeepsBucket
<1>10. ASSUME NEW i \in Invocations, RecordSeal(i) PROVE BucketInv'
  <2>1. CASE ~Refused(seal[i])
    BY <1>10, <2>1, RecordKeepsBucket
  <2>2. CASE Refused(seal[i])
    BY <1>6, <1>10, <2>2 DEF RecordSeal, history, Steps
  <2> QED BY <2>1, <2>2
<1>11. ASSUME NEW i \in Invocations, RecordAbandoned(i) PROVE BucketInv'
  <2>1. CASE ~Refused(seal[i])
    BY <1>11, <2>1, RecordKeepsBucket
  <2>2. CASE Refused(seal[i])
    <3>1. /\ seal[i].step \in {"abandoned", "orphaned"} /\ UNCHANGED <<acts, pdfs, givenUp, faults>>
          /\ seal[i].step = "abandoned" => Goto(i, "removing")
          /\ seal[i].step = "orphaned" => Return(i)
      BY <1>11, <2>2 DEF RecordAbandoned
    <3>2. faults' # 0
      BY <1>0, <3>1 DEF Slot
    <3>3. CASE seal[i].step = "abandoned"
      BY <1>6, <3>1, <3>3 DEF Steps
    <3>4. CASE seal[i].step = "orphaned"
      BY <1>7, <3>1, <3>2, <3>4
    <3> QED BY <3>1, <3>3, <3>4
  <2> QED BY <2>1, <2>2
<1>12. ASSUME NEW i \in Invocations, GiveUp(i) PROVE BucketInv'
  <2>1. /\ seal[i].step = "inserting" /\ Goto(i, "abandoned") /\ UNCHANGED <<acts, pdfs, givenUp>>
        /\ faults' = faults + 1
    BY <1>12 DEF GiveUp, Fault, history
  <2> QED BY <1>0, <1>6, <2>1 DEF Steps
<1>13. ASSUME NEW i \in Invocations, Stop(i) PROVE BucketInv'
  <2>1. Return(i) /\ UNCHANGED <<acts, pdfs, givenUp>> /\ faults' = faults + 1
    BY <1>13 DEF Stop, Fault, history
  <2> QED BY <1>0, <1>7, <2>1
<1>14. ASSUME NEW i \in Invocations, Notice(i) PROVE BucketInv'
  <2>1. /\ seal[i].step = "noticing" /\ UNCHANGED <<acts, pdfs, givenUp, faults>>
        /\ Goto(i, "sealing") \/ Return(i)
    BY <1>14 DEF Notice, history
  <2>2. CASE Goto(i, "sealing")
    BY <1>6, <2>1, <2>2 DEF Steps, Acting
  <2>3. CASE Return(i)
    BY <1>7, <2>1, <2>3 DEF Acting
  <2> QED BY <2>1, <2>2, <2>3
<1>15. ASSUME NEW i \in Invocations, MoveToSealed(i) \/ MoveToDelivered(i) \/ Settle(i)
       PROVE  BucketInv'
  <2>1. /\ seal[i].step \in Acting /\ UNCHANGED <<acts, pdfs, givenUp, faults>>
        /\ Goto(i, "delivering") \/ Goto(i, "settling") \/ Goto(i, "completing")
    BY <1>15 DEF MoveToSealed, MoveToDelivered, Settle, history, Acting
  <2> QED BY <1>6, <2>1 DEF Steps, Acting
<1>16. ASSUME NEW i \in Invocations, Complete(i) \/ VoidSeal(i) PROVE BucketInv'
  <2>1. /\ seal[i].step \in {"completing", "voiding"} /\ Return(i)
        /\ UNCHANGED <<acts, pdfs, givenUp, faults>>
    BY <1>16 DEF Complete, VoidSeal, history
  <2> QED BY <1>7, <2>1
<1>17. CASE (\E kind \in Kinds : Decide(kind)) \/ Wander \/ UNCHANGED vars
  BY <1>1, <1>17 DEF Decide, Wander, vars, sealVars, history
<1>18. CASE GiveBack \/ \E to \in {"sealed", "delivered"} : MoveByHand(to)
  BY <1>1, <1>18 DEF GiveBack, MoveByHand, sealVars, history
<1> QED BY <1>3, <1>4, <1>5, <1>8, <1>9, <1>10, <1>11, <1>12, <1>13, <1>14, <1>15, <1>16, <1>17,
           <1>18 DEF Next, SealingNext, SealSteps

\* A letter is uploaded under a name of its own and, on an error, only that one is
\* removed (letter-seal.ts:953-988): a letter that stands is in the bucket unless its
\* own request gave it up, and where nothing stopped no other PDF is left there.
THEOREM LettersAreStored == Spec => []BucketAndRegisterAgree
<1>1. SealInv /\ BucketInv => BucketAndRegisterAgree
  BY DEF BucketInv, Stored, NoneLeft, Named, BucketAndRegisterAgree, IsLive
<1> QED BY <1>1, InitSealInv, StepSealInv, InitBucket, StepBucket, PTL DEF Spec

-----------------------------------------------------------------------------

\* While nothing stopped, a determination with a letter that delivers was settled or
\* is about to be, by the invocation that has its first letter.
Underway(d) ==
    \E i \in Invocations : /\ seal[i].step \in Acting /\ seal[i].det = d
                           /\ acts[seal[i].act].replaces = NoAct
SettledOrUnderway ==
    faults = 0 => \A a \in DOMAIN acts : Delivers(acts[a].det) =>
                     Settled(acts[a].det) \/ Underway(acts[a].det)

\* What was settled stays so, and who has a first letter has it until it is.
LEMMA UnderwayStays ==
  ASSUME SealInv, SettledOrUnderway, faults = 0, UNCHANGED acts,
         \A d \in DOMAIN dets : dets'[d] = dets[d],
         \A d \in Nat : Settled(d) => Settled(d)',
         \A i \in Invocations :
            /\ seal[i].step \in Acting /\ acts[seal[i].act].replaces = NoAct
            /\ Delivers(seal[i].det)
            => \/ seal'[i].step \in Acting
                  /\ seal'[i].det = seal[i].det /\ seal'[i].act = seal[i].act
               \/ \E k \in DOMAIN told' : told'[k] = seal[i].det
  PROVE  SettledOrUnderway'
<1> SUFFICES ASSUME NEW a \in DOMAIN acts, Delivers(acts[a].det)'
             PROVE  Settled(acts[a].det)' \/ Underway(acts[a].det)'
  BY DEF SettledOrUnderway
<1>1. acts[a].det \in DOMAIN dets /\ acts[a].det \in Nat
  BY Domains DEF SealInv, ActsInv, SealingTypeOK
<1>2. Delivers(acts[a].det)
  BY <1>1 DEF Delivers
<1>3. CASE Settled(acts[a].det)
  BY <1>1, <1>3 DEF Settled
<1>4. CASE Underway(acts[a].det)
  <2>1. PICK i \in Invocations : /\ seal[i].step \in Acting /\ seal[i].det = acts[a].det
                                 /\ acts[seal[i].act].replaces = NoAct
    BY <1>4 DEF Underway
  <2>2. \/ seal'[i].step \in Acting
           /\ seal'[i].det = seal[i].det /\ seal'[i].act = seal[i].act
        \/ \E k \in DOMAIN told' : told'[k] = seal[i].det
    BY <1>2, <2>1
  <2>3. CASE \E k \in DOMAIN told' : told'[k] = seal[i].det
    BY <2>1, <2>3 DEF Settled
  <2>4. CASE seal'[i].step \in Acting /\ seal'[i].det = seal[i].det /\ seal'[i].act = seal[i].act
    BY <2>1, <2>4 DEF Underway
  <2> QED BY <2>2, <2>3, <2>4
<1> QED BY <1>2, <1>3, <1>4 DEF SettledOrUnderway

\* A letter just recorded is a first one, which its invocation goes on to settle,
\* or replaces one whose determination was settled or is being.
LEMMA RecordUnderway ==
  ASSUME SealInv, SettledOrUnderway, faults = 0, NEW i \in Invocations, RecordSeal(i)
  PROVE  SettledOrUnderway'
<1>0. SealingTypeOK /\ ActsInv /\ ReadHolds
  BY DEF SealInv, ActsInv
<1>1. CASE Refused(seal[i])
  <2>1. /\ UNCHANGED <<acts, dets, told>> /\ seal[i].step = "inserting"
        /\ \A j \in Invocations \ {i} : seal'[j] = seal[j]
    BY <1>0, <1>1 DEF RecordSeal, Goto, SealingTypeOK
  <2> QED BY <2>1, UnderwayStays DEF Settled, Acting
<1>2. CASE ~Refused(seal[i])
  <2> PICK n, d, r : n = Len(acts) + 1 /\ d = seal[i].det /\ r = seal[i].act
    OBVIOUS
  <2>1. /\ AddAct(seal[i]) /\ seal[i].step = "inserting"
        /\ seal' = [seal EXCEPT ![i].step = "noticing", ![i].act = n]
        /\ UNCHANGED <<dets, voided, slipped, told>>
    BY <1>2 DEF RecordSeal, history
  <2>2. DOMAIN acts = 1..Len(acts) /\ Len(acts) \in Nat
    BY <1>0, Domains
  <2>3. /\ \A a \in DOMAIN acts' : a \in DOMAIN acts \/ a = n
        /\ \A a \in DOMAIN acts : acts'[a] = acts[a]
        /\ acts'[n].det = d /\ acts'[n].replaces = r
    <3>1. /\ DOMAIN acts' = 1..(Len(acts) + 1)
          /\ \A a \in DOMAIN acts : acts'[a] = acts[a]
          /\ acts'[Len(acts) + 1] = [det |-> d, replaces |-> r, pdf |-> seal[i].pdf]
      BY <1>0, <1>2, <2>1, AddKeepsActs DEF Between
    <3> QED BY <2>2, <3>1
  <2>4. /\ seal'[i].step = "noticing" /\ seal'[i].det = d /\ seal'[i].act = n
        /\ \A j \in Invocations \ {i} : seal'[j] = seal[j]
    BY <1>0, <2>1 DEF SealingTypeOK, SealStep
  <2>5. r = NoAct \/ (r \in DOMAIN acts /\ acts[r].det = d)
    BY <1>0, <1>2, <2>1, LetIn DEF Between
  <2>6. ASSUME NEW e, Underway(e)
        PROVE  \E j \in Invocations : /\ seal'[j].step \in Acting /\ seal'[j].det = e
                                      /\ acts'[seal'[j].act].replaces = NoAct
    <3>1. PICK j \in Invocations : /\ seal[j].step \in Acting /\ seal[j].det = e
                                   /\ acts[seal[j].act].replaces = NoAct
      BY <2>6 DEF Underway
    <3>2. j # i /\ seal[j].act \in DOMAIN acts
      BY <2>1, <3>1 DEF Acting, SealInv, OwnActs
    <3> QED BY <2>3, <2>4, <3>1, <3>2
  <2>7. ASSUME NEW a \in DOMAIN acts, Delivers(acts[a].det)'
        PROVE  \/ \E k \in DOMAIN told' : told'[k] = acts[a].det
               \/ \E j \in Invocations : /\ seal'[j].step \in Acting
                                         /\ seal'[j].det = acts[a].det
                                         /\ acts'[seal'[j].act].replaces = NoAct
    <3>1. Delivers(acts[a].det)
      BY <2>1, <2>3, <2>7 DEF Delivers
    <3>2. Settled(acts[a].det) \/ Underway(acts[a].det)
      BY <3>1 DEF SettledOrUnderway
    <3> QED BY <2>1, <2>6, <3>2 DEF Settled
  <2> SUFFICES ASSUME NEW a \in DOMAIN acts', Delivers(acts[a].det)'
               PROVE  Settled(acts[a].det)' \/ Underway(acts[a].det)'
    BY DEF SettledOrUnderway
  <2>8. CASE a \in DOMAIN acts
    BY <2>3, <2>7, <2>8 DEF Settled, Underway, Delivers
  <2>9. CASE a = n /\ r = NoAct
    BY <2>3, <2>4, <2>9 DEF Underway, Acting
  <2>10. CASE a = n /\ r # NoAct
    BY <2>3, <2>5, <2>7, <2>10 DEF Settled, Underway, Delivers
  <2> QED BY <2>3, <2>8, <2>9, <2>10
<1> QED BY <1>1, <1>2

\* Every step that is not a fault keeps it.
LEMMA StepUnderway == SealInv /\ BucketInv /\ SettledOrUnderway /\ [Next]_vars => SettledOrUnderway'
<1> SUFFICES ASSUME SealInv, BucketInv, SettledOrUnderway, [Next]_vars, faults' = 0
             PROVE  SettledOrUnderway'
  BY DEF SettledOrUnderway
<1>0. SealingTypeOK /\ faults = 0 /\ dets \in Seq(Kinds) /\ told \in Seq(Nat)
  BY FaultsStay DEF SealInv, ActsInv, SealingTypeOK
<1>1. ASSUME NEW i \in Invocations, UNCHANGED <<dets, acts, told>>,
             \A j \in Invocations \ {i} : seal'[j] = seal[j],
             \/ seal[i].step \notin Acting
             \/ /\ seal'[i].step \in Acting
                /\ seal'[i].det = seal[i].det /\ seal'[i].act = seal[i].act
             \/ acts[seal[i].act].replaces # NoAct
             \/ ~Delivers(seal[i].det)
      PROVE  SettledOrUnderway'
  BY <1>0, <1>1, UnderwayStays DEF Settled
<1>2. ASSUME UNCHANGED <<acts, told, seal>>,
             \A d \in DOMAIN dets : dets'[d] = dets[d]
      PROVE  SettledOrUnderway'
  BY <1>0, <1>2, UnderwayStays DEF Settled
<1>3. ASSUME NEW i \in Invocations, NEW d \in DOMAIN dets, BeginSeal(i, d)
      PROVE  SettledOrUnderway'
  <2>1. /\ UNCHANGED <<dets, acts, told>> /\ seal[i].step = "idle"
        /\ \A j \in Invocations \ {i} : seal'[j] = seal[j]
    BY <1>0, <1>3 DEF BeginSeal, Idle, SealingTypeOK
  <2> QED BY <1>1, <2>1 DEF Acting
<1>4. ASSUME NEW i \in Invocations, StoreLetter(i) \/ ReadReplaced(i) \/ RemoveLetter(i)
      PROVE  SettledOrUnderway'
  <2>1. /\ UNCHANGED <<dets, acts, told>> /\ seal[i].step \notin Acting
        /\ \A j \in Invocations \ {i} : seal'[j] = seal[j]
    BY <1>0, <1>4 DEF StoreLetter, ReadReplaced, RemoveLetter, Goto, Return, Acting, SealingTypeOK
  <2> QED BY <1>1, <2>1
<1>5. ASSUME NEW i \in Invocations, Notice(i) PROVE SettledOrUnderway'
  <2>1. CASE acts[seal[i].act].replaces # NoAct
    BY <1>0, <1>1, <1>5, <2>1 DEF Notice, Return, Idle, SealingTypeOK
  <2>2. CASE acts[seal[i].act].replaces = NoAct /\ ~Delivers(seal[i].det)
    BY <1>0, <1>1, <1>5, <2>2 DEF Notice, Return, SealingTypeOK
  <2>3. CASE acts[seal[i].act].replaces = NoAct /\ Delivers(seal[i].det)
    BY <1>0, <1>1, <1>5, <2>3 DEF Notice, Goto, Acting, SealingTypeOK, SealStep
  <2> QED BY <2>1, <2>2, <2>3
<1>6. ASSUME NEW i \in Invocations, MoveToSealed(i) PROVE SettledOrUnderway'
  BY <1>0, <1>1, <1>6 DEF MoveToSealed, Goto, Acting, SealingTypeOK, SealStep
<1>7. ASSUME NEW i \in Invocations, MoveToDelivered(i) PROVE SettledOrUnderway'
  BY <1>0, <1>1, <1>7 DEF MoveToDelivered, Goto, Acting, SealingTypeOK, SealStep
<1>8. ASSUME NEW i \in Invocations, Complete(i) PROVE SettledOrUnderway'
  BY <1>0, <1>1, <1>8 DEF Complete, Return, Acting, SealingTypeOK
<1>9. ASSUME NEW i \in Invocations, NEW a \in DOMAIN acts, BeginVoid(i, a)
      PROVE  SettledOrUnderway'
  <2>1. /\ UNCHANGED <<dets, acts, told>> /\ seal[i].step = "idle"
        /\ \A j \in Invocations \ {i} : seal'[j] = seal[j]
    BY <1>0, <1>9 DEF BeginVoid, Idle, SealingTypeOK
  <2> QED BY <1>1, <2>1 DEF Acting
<1>10. ASSUME NEW i \in Invocations, VoidSeal(i) PROVE SettledOrUnderway'
  BY <1>0, <1>1, <1>10 DEF VoidSeal, Return, Acting, SealingTypeOK
<1>11. ASSUME NEW i \in Invocations, Settle(i) PROVE SettledOrUnderway'
  <2>1. /\ told' = Append(told, seal[i].det) /\ UNCHANGED <<dets, acts>>
        /\ \A j \in Invocations \ {i} : seal'[j] = seal[j]
    BY <1>0, <1>11 DEF Settle, Goto, SealingTypeOK
  <2>2. /\ DOMAIN told = 1..Len(told) /\ Len(told) \in Nat
        /\ DOMAIN told' = 1..(Len(told) + 1) /\ told'[Len(told) + 1] = seal[i].det
        /\ \A k \in DOMAIN told : told'[k] = told[k]
    <3>1. seal[i].det \in Nat
      BY <1>0 DEF SealingTypeOK, SealStep
    <3> QED BY <1>0, <2>1, <3>1
  <2>3. \A d \in Nat : Settled(d) => Settled(d)'
    BY <2>2 DEF Settled
  <2>4. \E k \in DOMAIN told' : told'[k] = seal[i].det
    BY <2>2
  <2> QED BY <1>0, <2>1, <2>3, <2>4, UnderwayStays
<1>12. ASSUME NEW i \in Invocations, RecordAbandoned(i) \/ GiveUp(i) \/ Stop(i) PROVE FALSE
  BY <1>0, <1>12 DEF RecordAbandoned, GiveUp, Stop, Fault, BucketInv, Slot, SealingTypeOK
<1>13. ASSUME NEW kind \in Kinds, Decide(kind) PROVE SettledOrUnderway'
  <2>1. \A d \in DOMAIN dets : dets'[d] = dets[d]
    BY <1>0, <1>13 DEF Decide
  <2> QED BY <1>2, <1>13, <2>1 DEF Decide, sealVars
<1>14. CASE Wander
  BY <1>2, <1>14 DEF Wander, sealVars
<1>15. ASSUME NEW to \in {"sealed", "delivered"}, MoveByHand(to) PROVE SettledOrUnderway'
  BY <1>2, <1>15 DEF MoveByHand, sealVars
<1>16. CASE UNCHANGED vars
  BY <1>2, <1>16 DEF vars, sealVars
<1>17. ASSUME NEW i \in Invocations, RecordSeal(i) PROVE SettledOrUnderway'
  BY <1>0, <1>17, RecordUnderway
<1>18. CASE GiveBack
  BY <1>2, <1>18 DEF GiveBack
<1> QED BY <1>3, <1>4, <1>5, <1>6, <1>7, <1>8, <1>9, <1>10, <1>11, <1>12, <1>13, <1>14,
           <1>15, <1>16, <1>17, <1>18 DEF Next, SealingNext, SealSteps

\* replacementNotice tells of a reissue and settles nothing: where no request
\* stopped or was given up, the first letter settled the order or is about to.
THEOREM ReissuesWereSettled == Spec => []ReissueWasSettledUnlessStopped
<1>1. Init => SettledOrUnderway
  BY DEF Init, SealingInit, SettledOrUnderway
<1>2. SealInv /\ SettledOrUnderway => ReissueWasSettledUnlessStopped
  <2> SUFFICES ASSUME SealInv, SettledOrUnderway, faults = 0,
                      NEW a \in noticed, Delivers(acts[a].det)
               PROVE  \/ Settled(acts[a].det)
                      \/ \E i \in Invocations :
                            /\ seal[i].det = acts[a].det
                            /\ seal[i].step \in {"noticing", "sealing", "delivering", "settling"}
    BY DEF ReissueWasSettledUnlessStopped, ReissueWasSettled
  <2>1. a \in DOMAIN acts
    BY DEF SealInv, ActsInv, SealingTypeOK
  <2>2. Settled(acts[a].det) \/ Underway(acts[a].det)
    BY <2>1 DEF SettledOrUnderway
  <2> QED BY <2>2 DEF Underway, Acting
<1> QED BY <1>1, <1>2, InitSealInv, StepSealInv, InitBucket, StepBucket, StepUnderway, PTL DEF Spec
=============================================================================
