------------------------ MODULE PaymentEventsProofs -------------------------
(***************************************************************************)
(* Proofs about the payment path, for any number of checkouts, concurrent  *)
(* invocations, faults and repeated deliveries: it keeps the promise of    *)
(* OrderLedger, and a paid order whose work is not released can be found.  *)
(***************************************************************************)
EXTENDS PaymentEvents, TLAPS

\* The statuses of an order that was put to work.
Taken == {"in_fulfilment", "refunded"}

\* What an invocation carries fits the step it is at: the events it handles are
\* of the kind the step is for and of a checkout, only a waiting order is judged
\* to be closed, and a release is under way only on an order at work.
Fits(t, o, w) ==
    /\ t.step \notin {"idle", "opening"} => SessionOf(t.event) \in Sessions
    /\ t.step \in {"paying", "releasing", "finishing"} => t.event[1] \in {"completed", "reconcile"}
    /\ t.step \in {"expiring", "closing"} => t.event[1] = "expired"
    /\ t.step \in {"asking", "abandoning"} => t.event[1] = "reconcile"
    /\ t.closes => t.seen = "awaiting_payment"
    /\ t.step \in {"releasing", "finishing"} => o \in Taken
    /\ t.step = "finishing" => w

TasksFit == \A i \in Invocations : Fits(task[i], order, work)

\* Stripe delivers completions and expiries, each of a checkout.
PostedFit ==
    \A e \in posted : e[1] \in {"completed", "expired"} /\ SessionOf(e) \in Sessions

\* An event is claimed only for an order that was put to work.
ClaimsFit == \A e \in EventIds : ledger[e] = "claimed" => order \in Taken

IInv == PaymentTypeOK /\ TasksFit /\ PostedFit /\ ClaimsFit /\ UnreleasedIsClaimed

-----------------------------------------------------------------------------

\* An event id is its kind and its checkout.
LEMMA EventParts ==
    /\ \A s \in Sessions \cup {NoSession} :
          /\ Completed(s) \in EventIds /\ Expired(s) \in EventIds /\ Reconciled(s) \in EventIds
          /\ SessionOf(Completed(s)) = s /\ SessionOf(Expired(s)) = s
          /\ SessionOf(Reconciled(s)) = s
    /\ \A e \in EventIds :
          /\ e[1] = "completed" => e = Completed(SessionOf(e))
          /\ e[1] = "expired" => e = Expired(SessionOf(e))
          /\ e[1] = "reconcile" => e = Reconciled(SessionOf(e))
          /\ SessionOf(e) \in Sessions \cup {NoSession}
BY DEF EventIds, Completed, Expired, Reconciled, SessionOf

\* A fact about what an invocation carries outlives the progress of others: an
\* order at work stays at work, and released work stays released.
LEMMA FitsPersists ==
    ASSUME NEW t, NEW o, NEW w \in BOOLEAN, NEW o2, NEW w2 \in BOOLEAN, Fits(t, o, w),
           o \in Taken => o2 \in Taken, w => w2
    PROVE  Fits(t, o2, w2)
BY DEF Fits

\* A step in which one invocation moves on.
LEMMA OneMoves ==
    ASSUME PaymentTypeOK, TasksFit, work' \in BOOLEAN,
           order \in Taken => order' \in Taken, work => work',
           NEW i \in Invocations, NEW t \in Task, Fits(t, order', work'),
           task' = [task EXCEPT ![i] = t]
    PROVE  task' \in [Invocations -> Task] /\ TasksFit'
<1>1. task' \in [Invocations -> Task]
  BY DEF PaymentTypeOK
<1>2. ASSUME NEW j \in Invocations PROVE Fits(task'[j], order', work')
  <2>1. CASE j = i
    BY <2>1 DEF PaymentTypeOK
  <2>2. CASE j # i
    <3>1. task'[j] = task[j] /\ Fits(task[j], order, work)
      BY <2>2 DEF PaymentTypeOK, TasksFit
    <3>2. work \in BOOLEAN
      BY DEF PaymentTypeOK
    <3> QED
      BY <3>1, <3>2, FitsPersists
  <2> QED
    BY <2>1, <2>2
<1> QED
  BY <1>1, <1>2 DEF TasksFit

\* A step in which no invocation does.
LEMMA NoneMoves ==
    ASSUME PaymentTypeOK, TasksFit, work' \in BOOLEAN, order \in Taken => order' \in Taken,
           work => work', UNCHANGED task
    PROVE  task' \in [Invocations -> Task] /\ TasksFit'
<1>1. ASSUME NEW j \in Invocations PROVE Fits(task'[j], order', work')
  <2>1. Fits(task[j], order, work) /\ work \in BOOLEAN
    BY DEF TasksFit, PaymentTypeOK
  <2> QED
    BY <2>1, FitsPersists
<1> QED
  BY <1>1 DEF TasksFit, PaymentTypeOK

\* An invocation at another step of its way.
After(i, step) == [task[i] EXCEPT !.step = step]

\* Moving an invocation to another step keeps everything else it carries.
LEMMA Going ==
    ASSUME PaymentTypeOK, NEW i \in Invocations, NEW step \in Steps, Goto(i, step)
    PROVE  /\ After(i, step) \in Task
           /\ After(i, step).step = step
           /\ After(i, step).event = task[i].event
           /\ After(i, step).seen = task[i].seen
           /\ After(i, step).closes = task[i].closes
           /\ task' = [task EXCEPT ![i] = After(i, step)]
BY DEF PaymentTypeOK, Task, Goto, After

\* Stopping it.
LEMMA Stopping ==
    /\ Idle \in Task
    /\ \A o, w : Fits(Idle, o, w)
    /\ \A i \in Invocations : Stop(i) => task' = [task EXCEPT ![i] = Idle]
<1>1. Idle \in Task
  BY EventParts DEF Idle, Task, Steps, Statuses
<1>2. \A o, w : Fits(Idle, o, w)
  BY DEF Idle, Fits
<1> QED
  BY <1>1, <1>2 DEF Stop

\* An invocation that has just read the order.
LEMMA ReadingType ==
    ASSUME PaymentTypeOK, NEW step \in Steps, NEW e \in EventIds
    PROVE  /\ Reading(step, e) \in Task
           /\ Reading(step, e).step = step
           /\ Reading(step, e).event = e
           /\ Reading(step, e).closes = FALSE
BY DEF Reading, PaymentTypeOK, Task

\* A step that leaves the order and its records alone leaves their invariants.
LEMMA RecordsRest ==
    ASSUME ClaimsFit, UnreleasedIsClaimed, UNCHANGED <<order, ledger, charged, work>>
    PROVE  ClaimsFit' /\ UnreleasedIsClaimed'
BY DEF ClaimsFit, UnreleasedIsClaimed

-----------------------------------------------------------------------------

\* The empty ledger satisfies the inductive invariant.
LEMMA InitIInv == Init => IInv
<1> SUFFICES ASSUME Init PROVE IInv
  OBVIOUS
<1> USE DEF Init
<1>1. task \in [Invocations -> Task]
  BY Stopping
<1>2. session \in [Sessions -> SessionStates] /\ told \in [Sessions -> {"nobody", "staff", "log"}]
  BY DEF SessionStates
<1>3. ledger \in [EventIds -> {"unknown", "claimed", "done"}]
  OBVIOUS
<1>4. PaymentTypeOK
  BY <1>1, <1>2, <1>3 DEF PaymentTypeOK, Statuses
<1>5. TasksFit
  BY Stopping DEF TasksFit
<1>6. PostedFit /\ UnreleasedIsClaimed
  BY DEF PostedFit, UnreleasedIsClaimed
<1>7. ClaimsFit
  BY DEF ClaimsFit
<1> QED
  BY <1>4, <1>5, <1>6, <1>7 DEF IInv

\* The requests that open a checkout.
LEMMA CheckoutSteps ==
    ASSUME IInv, NEW i \in Invocations,
           OpenCheckout(i) \/ CreateSession(i) \/ RecordStarted(i)
    PROVE  IInv'
<1> USE DEF IInv
<1>a. NoSession \in Sessions \cup {NoSession}
  OBVIOUS
<1>b. work' = work /\ order' = order /\ work \in BOOLEAN
  BY DEF OpenCheckout, CreateSession, RecordStarted, records, PaymentTypeOK
<1>1. CASE OpenCheckout(i)
  <2>1. Completed(NoSession) \in EventIds /\ "opening" \in Steps
    BY EventParts, <1>a DEF Steps
  <2> DEFINE t == Reading("opening", Completed(NoSession))
  <2>2. t \in Task /\ t.step = "opening" /\ t.closes = FALSE
    BY <2>1, ReadingType
  <2>3. Fits(t, order', work')
    BY <2>2 DEF Fits
  <2>4. task' = [task EXCEPT ![i] = t]
    BY <1>1 DEF OpenCheckout
  <2> HIDE DEF t
  <2>5. task' \in [Invocations -> Task] /\ TasksFit'
    BY <2>2, <2>3, <2>4, <1>b, OneMoves
  <2>6. PaymentTypeOK' /\ PostedFit'
    BY <2>5, <1>1 DEF OpenCheckout, PaymentTypeOK, PostedFit, records, stripe, counts
  <2> QED
    BY <2>5, <2>6, <1>1, RecordsRest DEF OpenCheckout, records
<1>2. CASE CreateSession(i)
  <2>1. CASE Stop(i) /\ UNCHANGED <<session, raced>>
    <3>1. task' \in [Invocations -> Task] /\ TasksFit'
      BY <2>1, <1>b, Stopping, OneMoves
    <3>2. PaymentTypeOK' /\ PostedFit'
      BY <3>1, <2>1, <1>2 DEF CreateSession, PaymentTypeOK, PostedFit, records, counts
    <3> QED
      BY <3>1, <3>2, <1>2, RecordsRest DEF CreateSession, records
  <2>2. ASSUME NEW s \in Sessions,
               task' = [task EXCEPT ![i].step = "starting", ![i].event = Completed(s)],
               \/ UNCHANGED <<session, raced>>
               \/ session' = [session EXCEPT ![s] = "made"] /\ raced' = (raced \/ Judging)
        PROVE  IInv'
    <3> DEFINE t == [task[i] EXCEPT !.step = "starting", !.event = Completed(s)]
    <3>1. Completed(s) \in EventIds /\ SessionOf(Completed(s)) = s
      BY EventParts
    <3>2. t \in Task /\ t.step = "starting" /\ t.event = Completed(s)
          /\ t.closes = task[i].closes /\ t.seen = task[i].seen
      BY <3>1 DEF PaymentTypeOK, Task, Steps
    <3>3. task[i].closes => task[i].seen = "awaiting_payment"
      BY DEF TasksFit, Fits
    <3>4. Fits(t, order', work')
      BY <3>1, <3>2, <3>3 DEF Fits
    <3>5. task' = [task EXCEPT ![i] = t]
      BY <2>2 DEF PaymentTypeOK
    <3> HIDE DEF t
    <3>6. task' \in [Invocations -> Task] /\ TasksFit'
      BY <3>2, <3>4, <3>5, <1>b, OneMoves
    <3>7. session' \in [Sessions -> SessionStates] /\ raced' \in BOOLEAN
      BY <2>2 DEF PaymentTypeOK, SessionStates, Judging
    <3>8. PaymentTypeOK' /\ PostedFit'
      BY <3>6, <3>7, <1>2 DEF CreateSession, PaymentTypeOK, PostedFit, records, counts
    <3> QED
      BY <3>6, <3>8, <1>2, RecordsRest DEF CreateSession, records
  <2> QED
    BY <2>1, <2>2, <1>2 DEF CreateSession
<1>3. CASE RecordStarted(i)
  <2>1. SessionOf(task[i].event) \in Sessions
    BY <1>3 DEF RecordStarted, TasksFit, Fits
  <2>2. task' \in [Invocations -> Task] /\ TasksFit'
    BY <1>3, <1>b, Stopping, OneMoves DEF RecordStarted
  <2>3. session' \in [Sessions -> SessionStates]
    BY <1>3 DEF RecordStarted, PaymentTypeOK, SessionStates
  <2>4. latest' \in Sessions \cup {NoSession} /\ faults' \in Nat
    BY <1>3, <2>1, PaymentEventsAssumption DEF RecordStarted, PaymentTypeOK
  <2>5. PaymentTypeOK' /\ PostedFit'
    BY <2>2, <2>3, <2>4, <1>3 DEF RecordStarted, PaymentTypeOK, PostedFit, records
  <2> QED
    BY <2>2, <2>5, <1>3, RecordsRest DEF RecordStarted, records
<1> QED
  BY <1>1, <1>2, <1>3

\* What happens at Stripe.
LEMMA StripeSteps ==
    ASSUME IInv, NEW s \in Sessions, Pay(s) \/ Expire(s)
    PROVE  IInv'
<1> USE DEF IInv
<1>1. work' = work /\ order' = order /\ work \in BOOLEAN /\ UNCHANGED task
  BY DEF Pay, Expire, records, PaymentTypeOK
<1>2. task' \in [Invocations -> Task] /\ TasksFit'
  BY <1>1, NoneMoves
<1>3. /\ Completed(s) \in EventIds /\ Expired(s) \in EventIds
      /\ SessionOf(Completed(s)) = s /\ SessionOf(Expired(s)) = s
      /\ Completed(s)[1] = "completed" /\ Expired(s)[1] = "expired"
  BY EventParts DEF Completed, Expired
<1>4. posted' \subseteq posted \cup {Completed(s), Expired(s)} /\ faults' \in Nat
  BY PaymentEventsAssumption DEF Pay, Expire, PaymentTypeOK, counts
<1>5. session' \in [Sessions -> SessionStates]
  BY DEF Pay, Expire, PaymentTypeOK, SessionStates
<1>6. PostedFit' /\ posted' \subseteq EventIds
  BY <1>3, <1>4 DEF PostedFit, PaymentTypeOK
<1>7. PaymentTypeOK'
  BY <1>2, <1>4, <1>5, <1>6 DEF Pay, Expire, PaymentTypeOK, records, counts
<1> QED
  BY <1>1, <1>2, <1>6, <1>7, RecordsRest DEF Pay, Expire, records

\* A delivery begins, or an invocation stops.
LEMMA BeginAndKill ==
    ASSUME IInv, NEW i \in Invocations,
           Kill(i) \/ \E e \in posted : Receive(i, e)
    PROVE  IInv'
<1> USE DEF IInv
<1>1. CASE Kill(i)
  <2>1. work' = work /\ order' = order /\ work \in BOOLEAN
    BY <1>1 DEF Kill, records, PaymentTypeOK
  <2>2. task' \in [Invocations -> Task] /\ TasksFit'
    BY <1>1, <2>1, Stopping, OneMoves DEF Kill
  <2>3. faults' \in Nat
    BY <1>1, PaymentEventsAssumption DEF Kill, PaymentTypeOK
  <2>4. PaymentTypeOK' /\ PostedFit'
    BY <1>1, <2>2, <2>3 DEF Kill, PaymentTypeOK, PostedFit, records, stripe
  <2> QED
    BY <2>2, <2>4, <1>1, RecordsRest DEF Kill, records
<1>2. ASSUME NEW e \in posted, Receive(i, e) PROVE IInv'
  <2> DEFINE step == IF e = Completed(SessionOf(e)) THEN "paying" ELSE "expiring"
             t == Reading(step, e)
  <2>1. work' = work /\ order' = order /\ work \in BOOLEAN
    BY <1>2 DEF Receive, records, PaymentTypeOK
  <2>2. /\ e \in EventIds /\ SessionOf(e) \in Sessions
        /\ e[1] \in {"completed", "expired"}
        /\ e[1] = "completed" => step = "paying"
    BY EventParts DEF PostedFit, PaymentTypeOK
  <2>3. step = "paying" => e[1] = "completed"
    BY <2>2, EventParts DEF Completed
  <2>4. step \in {"paying", "expiring"} /\ step \in Steps
    BY DEF Steps
  <2> HIDE DEF step
  <2>5. t \in Task /\ t.step = step /\ t.event = e /\ t.closes = FALSE
    BY <2>2, <2>4, ReadingType
  <2>6. task' = [task EXCEPT ![i] = t]
    BY <1>2 DEF Receive, step
  <2> HIDE DEF t
  <2>7. Fits(t, order', work')
    BY <2>2, <2>3, <2>4, <2>5 DEF Fits
  <2>8. task' \in [Invocations -> Task] /\ TasksFit'
    BY <2>1, <2>5, <2>6, <2>7, OneMoves
  <2>9. resends' \in Nat
    BY <1>2, PaymentEventsAssumption DEF Receive, PaymentTypeOK
  <2>10. PaymentTypeOK' /\ PostedFit'
    BY <1>2, <2>8, <2>9 DEF Receive, PaymentTypeOK, PostedFit, records, stripe
  <2> QED
    BY <2>8, <2>10, <1>2, RecordsRest DEF Receive, records
<1> QED
  BY <1>1, <1>2

\* Staff are told, and a delivery is answered.
LEMMA TellAndAnswer ==
    ASSUME IInv, NEW i \in Invocations, TellStaff(i) \/ Answer(i)
    PROVE  IInv'
<1> USE DEF IInv
<1>1. CASE TellStaff(i)
  <2>1. work' = work /\ order' = order /\ work \in BOOLEAN
    BY <1>1 DEF TellStaff, PaymentTypeOK
  <2>2. Goto(i, "answering") /\ "answering" \in Steps
    BY <1>1 DEF TellStaff, Steps
  <2> DEFINE t == After(i, "answering")
  <2>3. /\ t \in Task /\ t.step = "answering" /\ t.event = task[i].event
        /\ t.seen = task[i].seen /\ t.closes = task[i].closes
        /\ task' = [task EXCEPT ![i] = t]
    BY <2>2, Going
  <2>4. SessionOf(task[i].event) \in Sessions
        /\ (task[i].closes => task[i].seen = "awaiting_payment")
    BY <1>1 DEF TellStaff, TasksFit, Fits
  <2> HIDE DEF t
  <2>5. Fits(t, order', work')
    BY <2>3, <2>4 DEF Fits
  <2>6. task' \in [Invocations -> Task] /\ TasksFit'
    BY <2>1, <2>3, <2>5, OneMoves
  <2>7. told' \in [Sessions -> {"nobody", "staff", "log"}] /\ faults' \in Nat
    BY <1>1, PaymentEventsAssumption DEF TellStaff, PaymentTypeOK
  <2>8. PaymentTypeOK' /\ PostedFit'
    BY <1>1, <2>6, <2>7 DEF TellStaff, PaymentTypeOK, PostedFit, stripe
  <2> QED
    BY <2>6, <2>8, <1>1, RecordsRest DEF TellStaff
<1>2. CASE Answer(i)
  <2>1. work' = work /\ order' = order /\ work \in BOOLEAN
    BY <1>2 DEF Answer, records, PaymentTypeOK
  <2>2. task' \in [Invocations -> Task] /\ TasksFit'
    BY <1>2, <2>1, Stopping, OneMoves DEF Answer
  <2>3. task[i] \in Task /\ task[i].event \in EventIds
    BY DEF PaymentTypeOK, Task
  <2>4. acked' \subseteq EventIds
    BY <1>2, <2>3 DEF Answer, PaymentTypeOK
  <2>5. PaymentTypeOK' /\ PostedFit'
    BY <1>2, <2>2, <2>4 DEF Answer, PaymentTypeOK, PostedFit, records, stripe, counts
  <2> QED
    BY <2>2, <2>5, <1>2, RecordsRest DEF Answer, records
<1> QED
  BY <1>1, <1>2

\* The judgements that write nothing.
LEMMA JudgeSteps ==
    ASSUME IInv, NEW i \in Invocations, JudgeExpiry(i) \/ SweepOrder(i) \/ AskProvider(i)
    PROVE  IInv'
<1> USE DEF IInv
<1>1. work' = work /\ order' = order /\ work \in BOOLEAN
  BY DEF JudgeExpiry, SweepOrder, AskProvider, records, PaymentTypeOK
<1>2. /\ UNCHANGED <<order, latest, records, stripe, acked, counts>>
      /\ raced' \in BOOLEAN
  BY DEF JudgeExpiry, SweepOrder, AskProvider, PaymentTypeOK, Unrecorded
<1>3. ASSUME task' \in [Invocations -> Task], TasksFit' PROVE IInv'
  <2>1. PaymentTypeOK' /\ PostedFit'
    BY <1>2, <1>3 DEF PaymentTypeOK, PostedFit, records, stripe, counts
  <2> QED
    BY <1>2, <1>3, <2>1, RecordsRest DEF records
<1>4. ASSUME NEW t \in Task, Fits(t, order, work), task' = [task EXCEPT ![i] = t]
      PROVE  IInv'
  <2>1. task' \in [Invocations -> Task] /\ TasksFit'
    BY <1>1, <1>4, OneMoves
  <2> QED
    BY <2>1, <1>3
<1>5. CASE JudgeExpiry(i)
  <2> DEFINE closes == /\ task[i].seen = "awaiting_payment"
                       /\ ~Superseded(SessionOf(task[i].event))
             t == [task[i] EXCEPT !.step = "closing", !.closes = closes]
  <2>1. closes \in BOOLEAN /\ (closes => task[i].seen = "awaiting_payment")
    OBVIOUS
  <2>2. /\ SessionOf(task[i].event) \in Sessions /\ task[i].event[1] = "expired"
        /\ task[i] \in Task
    BY <1>5 DEF JudgeExpiry, TasksFit, Fits, PaymentTypeOK
  <2>3. task' = [task EXCEPT ![i] = t]
    BY <1>5 DEF JudgeExpiry, PaymentTypeOK
  <2> HIDE DEF closes
  <2>4. /\ t \in Task /\ t.step = "closing" /\ t.event = task[i].event
        /\ t.seen = task[i].seen /\ t.closes = closes
    BY <2>1, <2>2 DEF Task, Steps
  <2> HIDE DEF t
  <2>5. Fits(t, order, work)
    BY <2>1, <2>2, <2>4 DEF Fits
  <2> QED
    BY <2>3, <2>4, <2>5, <1>4
<1>6. CASE SweepOrder(i)
  <2>1. latest \in Sessions /\ "asking" \in Steps
    BY <1>6 DEF SweepOrder, PaymentTypeOK, Steps
  <2>2. /\ Reconciled(latest) \in EventIds /\ SessionOf(Reconciled(latest)) = latest
        /\ Reconciled(latest)[1] = "reconcile"
    BY <2>1, EventParts DEF Reconciled
  <2> DEFINE t == Reading("asking", Reconciled(latest))
  <2>3. t \in Task /\ t.step = "asking" /\ t.event = Reconciled(latest) /\ t.closes = FALSE
    BY <2>1, <2>2, ReadingType
  <2>4. task' = [task EXCEPT ![i] = t]
    BY <1>6 DEF SweepOrder
  <2> HIDE DEF t
  <2>5. Fits(t, order, work)
    BY <2>1, <2>2, <2>3 DEF Fits
  <2> QED
    BY <2>3, <2>4, <2>5, <1>4
<1>7. CASE AskProvider(i)
  <2>1. /\ SessionOf(task[i].event) \in Sessions /\ task[i].event[1] = "reconcile"
        /\ task[i].event \in EventIds
    BY <1>7 DEF AskProvider, TasksFit, Fits, PaymentTypeOK, Task
  <2>2. ASSUME NEW step \in {"paying", "abandoning"},
               task' = [task EXCEPT ![i] = Reading(step, task[i].event)]
        PROVE  IInv'
    <3>1. step \in Steps
      BY DEF Steps
    <3> DEFINE t == Reading(step, task[i].event)
    <3>2. t \in Task /\ t.step = step /\ t.event = task[i].event /\ t.closes = FALSE
      BY <2>1, <3>1, ReadingType
    <3>3. task' = [task EXCEPT ![i] = t]
      BY <2>2
    <3> HIDE DEF t
    <3>4. Fits(t, order, work)
      BY <2>1, <3>2 DEF Fits
    <3> QED
      BY <3>2, <3>3, <3>4, <1>4
  <2>3. CASE task' = [task EXCEPT ![i] = Idle]
    BY <2>3, Stopping, <1>4
  <2>4. \/ task' = [task EXCEPT ![i] = Reading("paying", task[i].event)]
        \/ task' = [task EXCEPT ![i] = Reading("abandoning", task[i].event)]
        \/ task' = [task EXCEPT ![i] = Idle]
    <3>1. CASE session[SessionOf(task[i].event)] = "paid"
      BY <1>7, <3>1 DEF AskProvider
    <3>2. CASE session[SessionOf(task[i].event)] = "expired"
      BY <1>7, <3>2 DEF AskProvider
    <3>3. CASE session[SessionOf(task[i].event)] \notin {"paid", "expired"}
      BY <1>7, <3>3 DEF AskProvider
    <3> QED
      BY <3>1, <3>2, <3>3
  <2> QED
    BY <2>2, <2>3, <2>4
<1> QED
  BY <1>5, <1>6, <1>7

-----------------------------------------------------------------------------

\* Answering a payment, whoever is told on the way.
LEMMA Telling ==
    ASSUME IInv, NEW i \in Invocations, task[i].step = "paying", Told(i),
           UNCHANGED <<order, work>>
    PROVE  task' \in [Invocations -> Task] /\ TasksFit'
<1> USE DEF IInv
<1> DEFINE step == IF task[i].seen = "cancelled" THEN "telling" ELSE "answering"
           t == After(i, step)
<1>1. step \in Steps /\ step \in {"telling", "answering"} /\ Goto(i, step)
  BY DEF Told, Steps
<1> HIDE DEF step
<1>2. /\ t \in Task /\ t.step = step /\ t.event = task[i].event
      /\ t.seen = task[i].seen /\ t.closes = task[i].closes
      /\ task' = [task EXCEPT ![i] = t]
  BY <1>1, Going
<1>3. SessionOf(task[i].event) \in Sessions
      /\ (task[i].closes => task[i].seen = "awaiting_payment")
  BY DEF TasksFit, Fits
<1> HIDE DEF t
<1>4. Fits(t, order', work')
  BY <1>1, <1>2, <1>3 DEF Fits
<1>5. /\ work' \in BOOLEAN /\ (work => work')
      /\ order \in Taken => order' \in Taken
  BY DEF PaymentTypeOK
<1> QED
  BY <1>2, <1>4, <1>5, OneMoves

\* Going on to the release of an order at work.
LEMMA Releasing ==
    ASSUME IInv, NEW i \in Invocations, task[i].step \in {"paying", "releasing"},
           NEW step \in {"releasing", "finishing"}, Goto(i, step),
           order' \in Taken, work' \in BOOLEAN, work => work', step = "finishing" => work'
    PROVE  task' \in [Invocations -> Task] /\ TasksFit'
<1> USE DEF IInv
<1> DEFINE t == After(i, step)
<1>1. step \in Steps
  BY DEF Steps
<1>2. /\ t \in Task /\ t.step = step /\ t.event = task[i].event
      /\ t.seen = task[i].seen /\ t.closes = task[i].closes
      /\ task' = [task EXCEPT ![i] = t]
  BY <1>1, Going
<1>3. /\ SessionOf(task[i].event) \in Sessions
      /\ task[i].event[1] \in {"completed", "reconcile"}
      /\ (task[i].closes => task[i].seen = "awaiting_payment")
  BY DEF TasksFit, Fits
<1> HIDE DEF t
<1>4. Fits(t, order', work')
  BY <1>2, <1>3 DEF Fits
<1> QED
  BY <1>2, <1>4, OneMoves

\* What a payment's transaction touches keeps its types and Stripe's side.
LEMMA PaidTypes ==
    ASSUME IInv, task' \in [Invocations -> Task],
           order' \in Statuses, ledger' \in [EventIds -> {"unknown", "claimed", "done"}],
           charged' \subseteq Sessions, flagged' \subseteq Sessions,
           UNCHANGED <<latest, told, work, stripe, acked, counts, raced>>
    PROVE  PaymentTypeOK' /\ PostedFit'
BY DEF IInv, PaymentTypeOK, PostedFit, stripe, counts

\* The transaction of a payment, branch by branch.
LEMMA ApplyOrderPaidStep ==
    ASSUME IInv, NEW i \in Invocations, ApplyOrderPaid(i)
    PROVE  IInv'
<1> USE DEF IInv
<1> DEFINE e == task[i].event
           s == SessionOf(task[i].event)
<1>0. /\ task[i].step = "paying" /\ e \in EventIds /\ s \in Sessions
      /\ e[1] \in {"completed", "reconcile"}
      /\ UNCHANGED <<latest, told, work, stripe, acked, counts, raced>>
  BY DEF ApplyOrderPaid, TasksFit, Fits, PaymentTypeOK, Task
<1>a. e \in {Completed(s), Reconciled(s)}
  BY <1>0, EventParts
<1>b. /\ ledger \in [EventIds -> {"unknown", "claimed", "done"}]
      /\ charged \subseteq Sessions /\ flagged \subseteq Sessions
      /\ order \in Statuses /\ work \in BOOLEAN /\ work' = work
  BY <1>0 DEF PaymentTypeOK
<1>1. CASE /\ ledger[e] = "done" /\ Told(i)
           /\ UNCHANGED <<order, ledger, charged, flagged>>
  <2>1. task' \in [Invocations -> Task] /\ TasksFit'
    BY <1>0, <1>1, Telling
  <2>2. PaymentTypeOK' /\ PostedFit'
    BY <1>0, <1>1, <1>b, <2>1, PaidTypes
  <2> QED
    BY <2>1, <2>2, <1>0, <1>1, RecordsRest
<1>2. CASE /\ ledger[e] = "claimed" /\ Goto(i, "releasing")
           /\ UNCHANGED <<order, ledger, charged, flagged>>
  <2>1. order' \in Taken
    BY <1>0, <1>2 DEF ClaimsFit
  <2>2. task' \in [Invocations -> Task] /\ TasksFit'
    BY <1>0, <1>2, <1>b, <2>1, Releasing
  <2>3. PaymentTypeOK' /\ PostedFit'
    BY <1>0, <1>2, <1>b, <2>2, PaidTypes
  <2> QED
    BY <2>2, <2>3, <1>0, <1>2, RecordsRest
<1>3. CASE /\ ledger[e] = "unknown" /\ s \in charged
           /\ ledger' = [ledger EXCEPT ![e] = "done"] /\ Told(i)
           /\ UNCHANGED <<order, charged, flagged>>
  <2>1. task' \in [Invocations -> Task] /\ TasksFit'
    BY <1>0, <1>3, Telling
  <2>2. ledger' \in [EventIds -> {"unknown", "claimed", "done"}]
    BY <1>0, <1>3, <1>b
  <2>3. PaymentTypeOK' /\ PostedFit'
    BY <1>0, <1>3, <1>b, <2>1, <2>2, PaidTypes
  <2>4. \A f \in EventIds : (ledger'[f] = "claimed" <=> ledger[f] = "claimed")
    BY <1>0, <1>3, <1>b
  <2>5. \A c \in Sessions : Completed(c) \in EventIds /\ Reconciled(c) \in EventIds
    BY EventParts
  <2>6. ClaimsFit'
    BY <2>4, <1>3 DEF ClaimsFit
  <2>7. UnreleasedIsClaimed'
    BY <2>4, <2>5, <1>0, <1>3, <1>b DEF UnreleasedIsClaimed
  <2> QED
    BY <2>1, <2>3, <2>6, <2>7
<1>4. CASE /\ ledger[e] = "unknown" /\ Stop(i)
           /\ UNCHANGED <<order, ledger, charged, flagged>>
  <2>1. task' \in [Invocations -> Task] /\ TasksFit'
    BY <1>4, <1>b, Stopping, OneMoves
  <2>2. PaymentTypeOK' /\ PostedFit'
    BY <1>0, <1>4, <1>b, <2>1, PaidTypes
  <2> QED
    BY <2>1, <2>2, <1>0, <1>4, RecordsRest
<1>5. CASE /\ ledger[e] = "unknown" /\ charged' = charged \cup {s}
           /\ order = "awaiting_payment" /\ order' = "in_fulfilment"
           /\ ledger' = [ledger EXCEPT ![e] = "claimed"]
           /\ Goto(i, "releasing") /\ UNCHANGED flagged
  <2>1. order' \in Taken
    BY <1>5 DEF Taken
  <2>2. task' \in [Invocations -> Task] /\ TasksFit'
    BY <1>0, <1>5, <1>b, <2>1, Releasing
  <2>3. ledger' \in [EventIds -> {"unknown", "claimed", "done"}] /\ ledger'[e] = "claimed"
    BY <1>0, <1>5, <1>b
  <2>4. PaymentTypeOK' /\ PostedFit'
    BY <1>0, <1>5, <1>b, <2>2, <2>3, PaidTypes DEF Statuses
  <2>5. ClaimsFit'
    BY <2>1 DEF ClaimsFit
  <2>6. s \in charged' /\ "claimed" \in {ledger'[Completed(s)], ledger'[Reconciled(s)]}
    BY <2>3, <1>5, <1>a
  <2>7. UnreleasedIsClaimed'
    BY <2>6 DEF UnreleasedIsClaimed
  <2> QED
    BY <2>2, <2>4, <2>5, <2>7
<1>6. CASE /\ ledger[e] = "unknown" /\ charged' = charged \cup {s}
           /\ flagged' = flagged \cup {s}
           /\ ledger' = [ledger EXCEPT ![e] = "done"]
           /\ Told(i) /\ UNCHANGED order
  <2>1. task' \in [Invocations -> Task] /\ TasksFit'
    BY <1>0, <1>6, Telling
  <2>2. ledger' \in [EventIds -> {"unknown", "claimed", "done"}]
    BY <1>0, <1>6, <1>b
  <2>3. PaymentTypeOK' /\ PostedFit'
    BY <1>0, <1>6, <1>b, <2>1, <2>2, PaidTypes
  <2>4. \A f \in EventIds : (ledger'[f] = "claimed" <=> ledger[f] = "claimed")
    BY <1>0, <1>6, <1>b
  <2>5. \A c \in Sessions : Completed(c) \in EventIds /\ Reconciled(c) \in EventIds
    BY EventParts
  <2>6. ClaimsFit'
    BY <2>4, <1>6 DEF ClaimsFit
  <2>7. UnreleasedIsClaimed'
    BY <2>4, <2>5, <1>0, <1>6, <1>b DEF UnreleasedIsClaimed
  <2> QED
    BY <2>1, <2>3, <2>6, <2>7
<1> QED
  BY <1>1, <1>2, <1>3, <1>4, <1>5, <1>6 DEF ApplyOrderPaid

\* The release, whole or not, and the event it finishes.
LEMMA ReleaseSteps ==
    ASSUME IInv, NEW i \in Invocations,
           ReleaseWork(i) \/ ReleaseIncomplete(i) \/ FinishEvent(i)
    PROVE  IInv'
<1> USE DEF IInv
<1>a. /\ order' = order /\ charged' = charged /\ flagged' = flagged
      /\ UNCHANGED <<latest, told, stripe, acked, counts, raced>>
      /\ work \in BOOLEAN
  BY DEF ReleaseWork, ReleaseIncomplete, FinishEvent, PaymentTypeOK
<1>b. /\ order \in Statuses /\ charged \subseteq Sessions /\ flagged \subseteq Sessions
      /\ ledger \in [EventIds -> {"unknown", "claimed", "done"}]
  BY DEF PaymentTypeOK
<1>1. CASE ReleaseWork(i)
  <2>1. order' \in Taken /\ work' = TRUE
    BY <1>1, <1>a DEF ReleaseWork, TasksFit, Fits
  <2>2. task' \in [Invocations -> Task] /\ TasksFit'
    BY <1>1, <2>1, Releasing DEF ReleaseWork
  <2>3. PaymentTypeOK' /\ PostedFit'
    BY <1>1, <1>a, <2>1, <2>2 DEF ReleaseWork, PaymentTypeOK, PostedFit, stripe, counts
  <2>4. ClaimsFit'
    BY <1>1, <1>a DEF ReleaseWork, ClaimsFit
  <2>5. UnreleasedIsClaimed'
    BY <2>1 DEF UnreleasedIsClaimed
  <2> QED
    BY <2>2, <2>3, <2>4, <2>5
<1>2. CASE ReleaseIncomplete(i)
  <2>a. work' \in {work, TRUE} /\ Stop(i) /\ ledger' = ledger
    BY <1>2 DEF ReleaseIncomplete
  <2>c. work' \in BOOLEAN /\ (work => work')
    <3>1. CASE work' = work
      BY <1>a, <3>1
    <3>2. CASE work' = TRUE
      BY <3>2
    <3> QED
      BY <2>a, <3>1, <3>2
  <2>1. /\ work' \in BOOLEAN /\ (work => work') /\ Stop(i) /\ ledger' = ledger
        /\ order \in Taken => order' \in Taken
    BY <1>a, <2>a, <2>c
  <2>2. task' \in [Invocations -> Task] /\ TasksFit'
    BY <2>1, Stopping, OneMoves
  <2>3. PaymentTypeOK' /\ PostedFit'
    BY <1>a, <2>1, <2>2 DEF PaymentTypeOK, PostedFit, stripe, counts
  <2>4. ClaimsFit'
    BY <2>1, <1>a DEF ClaimsFit
  <2>5. UnreleasedIsClaimed'
    BY <2>1, <1>a DEF UnreleasedIsClaimed
  <2> QED
    BY <2>2, <2>3, <2>4, <2>5
<1>3. CASE FinishEvent(i)
  <2> DEFINE t == After(i, "answering")
  <2>1. /\ SessionOf(task[i].event) \in Sessions /\ order \in Taken /\ work = TRUE
        /\ (task[i].closes => task[i].seen = "awaiting_payment")
        /\ work' = work
    BY <1>3, <1>a DEF FinishEvent, TasksFit, Fits
  <2>2. Goto(i, "answering") /\ "answering" \in Steps
    BY <1>3 DEF FinishEvent, Steps
  <2>3. /\ t \in Task /\ t.step = "answering" /\ t.event = task[i].event
        /\ t.seen = task[i].seen /\ t.closes = task[i].closes
        /\ task' = [task EXCEPT ![i] = t]
    BY <2>2, Going
  <2> HIDE DEF t
  <2>4. Fits(t, order', work')
    BY <2>1, <2>3 DEF Fits
  <2>5. /\ work' \in BOOLEAN /\ (work => work')
        /\ order \in Taken => order' \in Taken
    BY <1>a, <2>1
  <2>6. task' \in [Invocations -> Task] /\ TasksFit'
    BY <2>3, <2>4, <2>5, OneMoves
  <2>7. ledger' = [ledger EXCEPT ![task[i].event] = "done"]
    BY <1>3 DEF FinishEvent
  <2>8. ledger' \in [EventIds -> {"unknown", "claimed", "done"}]
    BY <2>7, <1>b
  <2>9. PaymentTypeOK' /\ PostedFit'
    BY <1>a, <2>1, <2>6, <2>8 DEF PaymentTypeOK, PostedFit, stripe, counts
  <2>10. ClaimsFit'
    BY <2>1, <1>a DEF ClaimsFit
  <2>11. UnreleasedIsClaimed'
    BY <2>1 DEF UnreleasedIsClaimed
  <2> QED
    BY <2>6, <2>9, <2>10, <2>11
<1> QED
  BY <1>1, <1>2, <1>3

\* The transaction of an expiry: it closes only an order it was judged waiting.
LEMMA ApplyExpiredStep ==
    ASSUME IInv, NEW i \in Invocations, ApplyExpired(i)
    PROVE  /\ IInv'
           /\ \/ order' = order
              \/ order = "awaiting_payment" /\ order' = "cancelled"
<1> USE DEF IInv
<1> DEFINE e == task[i].event
<1>0. /\ task[i].step = "closing" /\ e \in EventIds /\ SessionOf(e) \in Sessions
      /\ e[1] = "expired"
      /\ (task[i].closes => task[i].seen = "awaiting_payment")
      /\ UNCHANGED <<latest, charged, flagged, told, work, stripe, acked, counts, raced>>
  BY DEF ApplyExpired, TasksFit, Fits, PaymentTypeOK, Task
<1>1. \/ order' = order
      \/ order = "awaiting_payment" /\ order' = "cancelled"
  BY <1>0 DEF ApplyExpired, Moved
<1>2. \/ ledger' = ledger
      \/ ledger' = [ledger EXCEPT ![e] = "done"]
  BY DEF ApplyExpired
<1>3. /\ ledger' \in [EventIds -> {"unknown", "claimed", "done"}]
      /\ \A f \in EventIds : f # e => ledger'[f] = ledger[f]
      /\ \A f \in EventIds : ledger'[f] = "claimed" => ledger[f] = "claimed"
  BY <1>0, <1>2 DEF PaymentTypeOK
<1>4. /\ work' \in BOOLEAN /\ (work => work')
      /\ order \in Taken => order' \in Taken
  BY <1>0, <1>1 DEF PaymentTypeOK, Taken
<1>5. task' \in [Invocations -> Task] /\ TasksFit'
  <2>1. CASE Stop(i)
    BY <2>1, <1>4, Stopping, OneMoves
  <2>2. CASE Goto(i, "answering")
    <3> DEFINE t == After(i, "answering")
    <3>1. "answering" \in Steps
      BY DEF Steps
    <3>2. /\ t \in Task /\ t.step = "answering" /\ t.event = e
          /\ t.seen = task[i].seen /\ t.closes = task[i].closes
          /\ task' = [task EXCEPT ![i] = t]
      BY <2>2, <3>1, Going
    <3> HIDE DEF t
    <3>3. Fits(t, order', work')
      BY <1>0, <3>2 DEF Fits
    <3> QED
      BY <1>4, <3>2, <3>3, OneMoves
  <2> QED
    BY <2>1, <2>2 DEF ApplyExpired
<1>6. order' \in Statuses
  BY <1>1 DEF PaymentTypeOK, Statuses
<1>7. PaymentTypeOK' /\ PostedFit'
  BY <1>0, <1>3, <1>5, <1>6 DEF PaymentTypeOK, PostedFit, stripe, counts
<1>8. ClaimsFit'
  BY <1>3, <1>4 DEF ClaimsFit
<1>9. UnreleasedIsClaimed'
  <2>1. \A c \in Sessions :
           /\ Completed(c) \in EventIds /\ Completed(c) # e
           /\ Reconciled(c) \in EventIds /\ Reconciled(c) # e
    <3> SUFFICES ASSUME NEW c \in Sessions
                 PROVE  /\ Completed(c) \in EventIds /\ Completed(c) # e
                        /\ Reconciled(c) \in EventIds /\ Reconciled(c) # e
      OBVIOUS
    <3>1. Completed(c)[1] = "completed" /\ Reconciled(c)[1] = "reconcile"
      BY DEF Completed, Reconciled
    <3> QED
      BY <1>0, <3>1, EventParts
  <2>2. order' = "in_fulfilment" => order = "in_fulfilment"
    BY <1>1
  <2>3. \A c \in Sessions : /\ ledger'[Completed(c)] = ledger[Completed(c)]
                            /\ ledger'[Reconciled(c)] = ledger[Reconciled(c)]
    BY <1>3, <2>1
  <2>4. charged' = charged /\ work' = work /\ charged \subseteq Sessions
    BY <1>0 DEF PaymentTypeOK
  <2>5. SUFFICES ASSUME order' = "in_fulfilment", ~work'
                 PROVE  \E c \in charged' :
                           "claimed" \in {ledger'[Completed(c)], ledger'[Reconciled(c)]}
    BY DEF UnreleasedIsClaimed, Completed, Reconciled
  <2>6. PICK c \in charged : "claimed" \in {ledger[Completed(c)], ledger[Reconciled(c)]}
    BY <2>2, <2>4, <2>5 DEF UnreleasedIsClaimed
  <2> QED
    BY <2>3, <2>4, <2>6
<1> QED
  BY <1>1, <1>5, <1>7, <1>8, <1>9

\* The sweep's close and the refund.
LEMMA CloseAndRefund ==
    ASSUME IInv, (\E i \in Invocations : MarkAbandoned(i)) \/ MarkRefunded
    PROVE  IInv'
<1> USE DEF IInv
<1>1. /\ UNCHANGED <<latest, records, stripe, acked, counts, raced>>
      /\ \/ order' = order
         \/ order = "awaiting_payment" /\ order' = "cancelled"
         \/ order = "in_fulfilment" /\ order' = "refunded"
  BY DEF MarkAbandoned, MarkRefunded
<1>2. /\ work' \in BOOLEAN /\ (work => work') /\ work' = work
      /\ order \in Taken => order' \in Taken
  BY <1>1 DEF PaymentTypeOK, Taken, records
<1>3. task' \in [Invocations -> Task] /\ TasksFit'
  <2>1. ASSUME NEW i \in Invocations, MarkAbandoned(i)
        PROVE  task' \in [Invocations -> Task] /\ TasksFit'
    BY <2>1, <1>2, Stopping, OneMoves DEF MarkAbandoned
  <2>2. CASE MarkRefunded
    BY <2>2, <1>2, NoneMoves DEF MarkRefunded
  <2> QED
    BY <2>1, <2>2
<1>4. PaymentTypeOK' /\ PostedFit'
  BY <1>1, <1>3 DEF PaymentTypeOK, PostedFit, Statuses, records, stripe, counts
<1>5. ClaimsFit'
  BY <1>1, <1>2 DEF ClaimsFit, records
<1>6. UnreleasedIsClaimed'
  BY <1>1 DEF UnreleasedIsClaimed, records
<1> QED
  BY <1>3, <1>4, <1>5, <1>6

\* Every action keeps the inductive invariant.
LEMMA StepIInv == IInv /\ [Next]_vars => IInv'
<1> SUFFICES ASSUME IInv, [Next]_vars PROVE IInv'
  OBVIOUS
<1>1. ASSUME NEW i \in Invocations, Handle(i) PROVE IInv'
  BY <1>1, CheckoutSteps, ApplyOrderPaidStep, TellAndAnswer, ReleaseSteps, JudgeSteps,
     ApplyExpiredStep, CloseAndRefund, BeginAndKill DEF Handle
<1>2. ASSUME NEW i \in Invocations, NEW e \in posted, Receive(i, e) PROVE IInv'
  BY <1>2, BeginAndKill
<1>3. ASSUME NEW s \in Sessions, Pay(s) \/ Expire(s) PROVE IInv'
  BY <1>3, StripeSteps
<1>4. CASE MarkRefunded
  BY <1>4, CloseAndRefund
<1>5. CASE UNCHANGED vars
  <2>1. ClaimsFit' /\ UnreleasedIsClaimed'
    BY <1>5, RecordsRest DEF vars, IInv
  <2>2. PaymentTypeOK' /\ PostedFit' /\ TasksFit'
    BY <1>5 DEF vars, IInv, PaymentTypeOK, PostedFit, TasksFit
  <2> QED
    BY <2>1, <2>2 DEF IInv
<1> QED
  BY <1>1, <1>2, <1>3, <1>4, <1>5 DEF Next

\* The inductive invariant holds in every state the payment path reaches.
LEMMA IInvInvariant == Spec => []IInv
BY InitIInv, StepIInv, PTL DEF Spec

\* The order, Stripe's checkouts, the ledger and every invocation keep their types.
THEOREM PaymentTypes == Spec => []PaymentTypeOK
<1>1. IInv => PaymentTypeOK
  BY DEF IInv
<1> QED
  BY IInvInvariant, <1>1, PTL

\* "Paid, work not released" can always be seen: an event of a charge on file is
\* still claimed, whatever stopped, failed or was delivered again on the way.
THEOREM UnreleasedStaysClaimed == Spec => []UnreleasedIsClaimed
<1>1. IInv => UnreleasedIsClaimed
  BY DEF IInv
<1> QED
  BY IInvInvariant, <1>1, PTL

-----------------------------------------------------------------------------

\* Every step of the payment path is a step of the promise, or none of its own.
LEMMA StepRefines == IInv /\ [Next]_vars => [Promise!Next]_(Promise!ledgerVars)
<1> SUFFICES ASSUME IInv, [Next]_vars PROVE [Promise!Next]_(Promise!ledgerVars)
  OBVIOUS
<1> USE DEF Promise!ledgerVars
<1>1. ASSUME UNCHANGED <<order, charged, flagged, work>>
      PROVE  [Promise!Next]_(Promise!ledgerVars)
  BY <1>1
<1>2. ASSUME NEW i \in Invocations, ApplyOrderPaid(i)
      PROVE  [Promise!Next]_(Promise!ledgerVars)
  <2> DEFINE s == SessionOf(task[i].event)
  <2>1. s \in Sessions /\ work' = work
    BY <1>2 DEF ApplyOrderPaid, IInv, TasksFit, Fits
  <2>2. \/ UNCHANGED <<order, charged, flagged>>
        \/ Promise!ReceivePayment(s)
        \/ Promise!ReceiveUnexpected(s)
    BY <1>2 DEF ApplyOrderPaid, Promise!ReceivePayment, Promise!ReceiveUnexpected
  <2> QED
    BY <1>1, <2>1, <2>2 DEF Promise!Next
<1>3. ASSUME NEW i \in Invocations, ReleaseWork(i) \/ ReleaseIncomplete(i)
      PROVE  [Promise!Next]_(Promise!ledgerVars)
  <2>1. order \in {"in_fulfilment", "refunded"}
    BY <1>3 DEF ReleaseWork, ReleaseIncomplete, IInv, TasksFit, Fits, Taken
  <2>2. UNCHANGED <<order, charged, flagged, work>> \/ Promise!ReleaseWork
    BY <1>3, <2>1 DEF ReleaseWork, ReleaseIncomplete, Promise!ReleaseWork
  <2> QED
    BY <1>1, <2>2 DEF Promise!Next
<1>4. ASSUME NEW i \in Invocations, ApplyExpired(i) \/ MarkAbandoned(i)
      PROVE  [Promise!Next]_(Promise!ledgerVars)
  <2>1. UNCHANGED <<charged, flagged, work>>
    BY <1>4 DEF ApplyExpired, MarkAbandoned, records
  <2>2. \/ order' = order
        \/ order = "awaiting_payment" /\ order' = "cancelled"
    BY <1>4, ApplyExpiredStep DEF MarkAbandoned
  <2>3. UNCHANGED <<order, charged, flagged, work>> \/ Promise!Close
    BY <2>1, <2>2 DEF Promise!Close
  <2> QED
    BY <1>1, <2>3 DEF Promise!Next
<1>5. CASE MarkRefunded
  <2>1. Promise!Refund
    BY <1>5 DEF MarkRefunded, Promise!Refund, records
  <2> QED
    BY <2>1 DEF Promise!Next
<1>6. ASSUME NEW i \in Invocations,
             \/ OpenCheckout(i) \/ CreateSession(i) \/ RecordStarted(i) \/ TellStaff(i)
             \/ FinishEvent(i) \/ Answer(i) \/ JudgeExpiry(i) \/ SweepOrder(i)
             \/ AskProvider(i) \/ Kill(i) \/ \E e \in posted : Receive(i, e)
      PROVE  [Promise!Next]_(Promise!ledgerVars)
  <2>1. UNCHANGED <<order, charged, flagged, work>>
    BY <1>6 DEF OpenCheckout, CreateSession, RecordStarted, TellStaff, FinishEvent, Answer,
                JudgeExpiry, SweepOrder, AskProvider, Kill, Receive, records
  <2> QED
    BY <1>1, <2>1
<1>7. ASSUME NEW s \in Sessions, Pay(s) \/ Expire(s)
      PROVE  [Promise!Next]_(Promise!ledgerVars)
  <2>1. UNCHANGED <<order, charged, flagged, work>>
    BY <1>7 DEF Pay, Expire, records
  <2> QED
    BY <1>1, <2>1
<1>8. CASE UNCHANGED vars
  BY <1>8, <1>1 DEF vars
<1> QED
  BY <1>2, <1>3, <1>4, <1>5, <1>6, <1>7, <1>8 DEF Next, Handle

\* The payment path implements the promise: whatever is delivered, repeated,
\* stopped or swept, each charge is recorded once, one charge puts the order to
\* work, every other is flagged, and no order with money on file is closed.
THEOREM Implements == Spec => KeepsPromise
<1>1. Init => Promise!Init
  BY DEF Init, Promise!Init
<1> QED
  BY <1>1, IInvInvariant, StepRefines, PTL DEF Spec, KeepsPromise, Promise!Spec

-----------------------------------------------------------------------------
\* What the promise amounts to, of any ledger that keeps it.

\* Until the order has left awaiting_payment nothing is on file for it.
Uncharged == order = "awaiting_payment" => charged = {}

\* The order itself moves one way: from waiting to work or to closed, and from
\* work to refunded.
PromiseInv == Uncharged /\ Promise!EveryChargeAccounted

\* The empty ledger has every charge accounted for.
LEMMA InitPromise == Promise!Init => PromiseInv
<1> SUFFICES ASSUME Promise!Init PROVE PromiseInv
  OBVIOUS
<1>1. Uncharged
  BY DEF Promise!Init, Uncharged
<1>2. {} \in SUBSET Sessions
  OBVIOUS
<1>3. Promise!EveryChargeAccounted
  BY <1>2 DEF Promise!Init, Promise!EveryChargeAccounted
<1> QED
  BY <1>1, <1>3 DEF PromiseInv

\* Every action of the promise keeps every charge accounted for.
LEMMA StepPromise == PromiseInv /\ [Promise!Next]_(Promise!ledgerVars) => PromiseInv'
<1> SUFFICES ASSUME PromiseInv, [Promise!Next]_(Promise!ledgerVars) PROVE PromiseInv'
  OBVIOUS
<1> USE DEF PromiseInv
<1>1. ASSUME NEW s \in Sessions, Promise!ReceivePayment(s) PROVE PromiseInv'
  <2>1. charged' = {s} /\ flagged = {} /\ flagged' = {} /\ order' = "in_fulfilment"
    BY <1>1 DEF Promise!ReceivePayment, Uncharged, Promise!EveryChargeAccounted
  <2>2. {s} \in SUBSET Sessions /\ charged' = flagged' \cup {s} /\ {s} \cap flagged' = {}
    BY <2>1
  <2>3. Promise!EveryChargeAccounted'
    BY <2>1, <2>2 DEF Promise!EveryChargeAccounted
  <2> QED
    BY <2>1, <2>3 DEF Uncharged
<1>2. ASSUME NEW s \in Sessions, Promise!ReceiveUnexpected(s) PROVE PromiseInv'
  <2> PICK S \in SUBSET Sessions :
        /\ charged = flagged \cup S
        /\ S \cap flagged = {}
        /\ IF order \in {"in_fulfilment", "refunded"}
           THEN \E t \in Sessions : S = {t}
           ELSE S = {}
    BY DEF Promise!EveryChargeAccounted
  <2>1. charged' = flagged' \cup S /\ S \cap flagged' = {} /\ flagged' \subseteq charged'
    BY <1>2 DEF Promise!ReceiveUnexpected, Promise!EveryChargeAccounted
  <2>2. Promise!EveryChargeAccounted'
    BY <1>2, <2>1 DEF Promise!ReceiveUnexpected, Promise!EveryChargeAccounted
  <2> QED
    BY <1>2, <2>2 DEF Promise!ReceiveUnexpected, Uncharged
<1>3. CASE Promise!Close
  BY <1>3 DEF Promise!Close, Uncharged, Promise!EveryChargeAccounted
<1>4. CASE Promise!Refund
  BY <1>4 DEF Promise!Refund, Uncharged, Promise!EveryChargeAccounted
<1>5. CASE Promise!ReleaseWork
  BY <1>5 DEF Promise!ReleaseWork, Uncharged, Promise!EveryChargeAccounted
<1>6. CASE UNCHANGED Promise!ledgerVars
  BY <1>6 DEF Promise!ledgerVars, Uncharged, Promise!EveryChargeAccounted
<1> QED
  BY <1>1, <1>2, <1>3, <1>4, <1>5, <1>6 DEF Promise!Next

\* Every charge on file is either the one that put the order to work or flagged
\* for a person, whatever is paid, expires or is refunded in whatever order: what
\* eng_apply_order_paid's branches (0075) add up to.
THEOREM ChargesAccounted == Promise!Spec => []Promise!EveryChargeAccounted
<1>1. PromiseInv => Promise!EveryChargeAccounted
  BY DEF PromiseInv
<1> QED
  BY InitPromise, StepPromise, <1>1, PTL DEF Promise!Spec

\* What the promise amounts to holds of the payment path: every charge on file,
\* however it came in, put the order to work or is flagged for a person.
THEOREM EveryChargeIsAccounted == Spec => []Promise!EveryChargeAccounted
BY Implements, ChargesAccounted, PTL DEF KeepsPromise

-----------------------------------------------------------------------------

\* Every charge on a cancelled order is told or about to be, while nothing failed,
\* and an order still waiting has none.
AllTold ==
    faults = 0 /\ order = "cancelled" =>
        \A s \in charged : \/ told[s] # "nobody"
                           \/ \E i \in Invocations :
                                 task[i].step = "telling" /\ SessionOf(task[i].event) = s
Telled == AllTold /\ Uncharged

\* A step without a fault that charges nothing and leaves who tells at it.
LEMMA StillTold ==
    ASSUME IInv, Telled, UNCHANGED <<charged, told>>, faults' = 0 => faults = 0,
           order' = order \/ order = "awaiting_payment",
           order' = "awaiting_payment" => order = "awaiting_payment",
           faults' = 0 => \A i \in Invocations :
                             task[i].step = "telling" =>
                                task'[i].step = "telling" /\ task'[i].event = task[i].event
    PROVE  Telled'
<1>1. Uncharged'
  BY DEF Telled, Uncharged
<1>2. AllTold'
  BY DEF Telled, AllTold, Uncharged, SessionOf
<1> QED
  BY <1>1, <1>2 DEF Telled

\* Every step keeps it: a payment found on a cancelled order goes on to its telling.
LEMMA StepTelled == IInv /\ Telled /\ [Next]_vars => Telled'
<1> SUFFICES ASSUME IInv, Telled, [Next]_vars PROVE Telled'
  OBVIOUS
<1>0. PaymentTypeOK /\ TasksFit
  BY DEF IInv
<1>1. ASSUME NEW i \in Invocations, ApplyOrderPaid(i) PROVE Telled'
  <2> DEFINE s == SessionOf(task[i].event)
  <2>1. /\ task[i].step = "paying" /\ UNCHANGED <<told, faults>>
        /\ s \in Sessions
    BY <1>0, <1>1 DEF ApplyOrderPaid, counts, TasksFit, Fits
  <2>2. \A j \in Invocations \ {i} : task'[j] = task[j]
    BY <1>0, <1>1 DEF ApplyOrderPaid, Told, Goto, Stop, PaymentTypeOK
  <2>3. CASE UNCHANGED <<order, charged>>
    BY <1>0, <2>1, <2>2, <2>3, StillTold
  <2>4. CASE /\ charged' = charged \cup {s} /\ order = "awaiting_payment"
             /\ order' = "in_fulfilment"
    BY <2>4 DEF Telled, AllTold, Uncharged
  <2>5. CASE /\ charged' = charged \cup {s} /\ order # "awaiting_payment"
             /\ order' = order /\ ~Moved(i) /\ Told(i)
    <3>1. Uncharged'
      BY <2>5 DEF Uncharged
    <3>2. ASSUME faults' = 0, order' = "cancelled", NEW x \in charged'
          PROVE  \/ told'[x] # "nobody"
                 \/ \E j \in Invocations :
                       task'[j].step = "telling" /\ SessionOf(task'[j].event) = x
      <4>1. CASE x = s
        <5>1. task[i].seen = "cancelled"
          BY <2>5, <3>2 DEF Moved
        <5>2. task'[i].step = "telling" /\ task'[i].event = task[i].event
          BY <1>0, <2>5, <5>1 DEF Told, Goto, PaymentTypeOK, Task
        <5> QED
          BY <4>1, <5>2
      <4>2. CASE x \in charged
        BY <2>1, <2>2, <2>5, <3>2, <4>2 DEF Telled, AllTold
      <4> QED
        BY <2>5, <3>2, <4>1, <4>2
    <3>3. AllTold'
      BY <3>2 DEF AllTold
    <3> QED
      BY <3>1, <3>3 DEF Telled
  <2> QED
    BY <1>1, <2>3, <2>4, <2>5 DEF ApplyOrderPaid
<1>2. ASSUME NEW i \in Invocations, TellStaff(i) PROVE Telled'
  <2> DEFINE s == SessionOf(task[i].event)
  <2>1. /\ UNCHANGED <<order, charged>> /\ s \in Sessions
        /\ \A j \in Invocations \ {i} : task'[j] = task[j]
        /\ faults' = 0 => faults = 0
    BY <1>0, <1>2 DEF TellStaff, Goto, PaymentTypeOK, TasksFit, Fits
  <2>2. /\ told'[s] # "nobody"
        /\ \A x \in Sessions : told[x] # "nobody" => told'[x] # "nobody"
    BY <1>0, <1>2, <2>1 DEF TellStaff, PaymentTypeOK
  <2>3. Uncharged'
    BY <2>1 DEF Telled, Uncharged
  <2>4. ASSUME faults' = 0, order' = "cancelled", NEW x \in charged'
        PROVE  \/ told'[x] # "nobody"
               \/ \E j \in Invocations :
                     task'[j].step = "telling" /\ SessionOf(task'[j].event) = x
    <3>1. x \in Sessions /\ x \in charged
      BY <1>0, <2>1, <2>4 DEF PaymentTypeOK
    <3>2. CASE x = s
      BY <2>2, <3>2
    <3>3. CASE x # s
      BY <2>1, <2>2, <2>4, <3>1, <3>3 DEF Telled, AllTold
    <3> QED
      BY <3>2, <3>3
  <2>5. AllTold'
    BY <2>4 DEF AllTold
  <2> QED
    BY <2>3, <2>5 DEF Telled
<1>3. ASSUME NEW i \in Invocations,
             \/ OpenCheckout(i) \/ CreateSession(i) \/ RecordStarted(i) \/ SweepOrder(i)
             \/ AskProvider(i) \/ \E e \in posted : Receive(i, e)
      PROVE  Telled'
  <2>1. UNCHANGED <<order, charged, told>> /\ (faults' = 0 => faults = 0)
    BY <1>0, <1>3 DEF OpenCheckout, CreateSession, RecordStarted, SweepOrder, AskProvider,
                      Receive, records, counts, PaymentTypeOK
  <2>2. task[i].step # "telling" /\ \E t : task' = [task EXCEPT ![i] = t]
    <3>1. CASE CreateSession(i)
      <4>1. \/ Stop(i)
            \/ \E s \in Sessions : task' = [task EXCEPT ![i].step = "starting",
                                                        ![i].event = Completed(s)]
        BY <3>1 DEF CreateSession
      <4> QED
        BY <3>1, <4>1 DEF CreateSession, Stop
    <3> QED
      BY <1>3, <3>1 DEF OpenCheckout, RecordStarted, SweepOrder, AskProvider, Receive, Stop, Idle
  <2> QED
    BY <1>0, <2>1, <2>2, StillTold DEF PaymentTypeOK
<1>9. ASSUME NEW i \in Invocations,
             \/ ReleaseWork(i) \/ ReleaseIncomplete(i) \/ FinishEvent(i) \/ Answer(i)
             \/ JudgeExpiry(i)
      PROVE  Telled'
  <2>1. UNCHANGED <<order, charged, told, faults>>
    BY <1>9 DEF ReleaseWork, ReleaseIncomplete, FinishEvent, Answer, JudgeExpiry, records, counts
  <2>2. /\ task[i].step # "telling"
        /\ \A j \in Invocations \ {i} : task'[j] = task[j]
    BY <1>0, <1>9 DEF ReleaseWork, ReleaseIncomplete, FinishEvent, Answer, JudgeExpiry,
                      Goto, Stop, PaymentTypeOK
  <2> QED
    BY <2>1, <2>2, StillTold
<1>4. ASSUME NEW i \in Invocations, ApplyExpired(i) \/ MarkAbandoned(i) PROVE Telled'
  <2>1. /\ UNCHANGED <<charged, told, faults>>
        /\ order' = order \/ (order = "awaiting_payment" /\ order' = "cancelled")
    BY <1>4, ApplyExpiredStep DEF ApplyExpired, MarkAbandoned, records, counts
  <2>2. /\ task[i].step # "telling"
        /\ \A j \in Invocations \ {i} : task'[j] = task[j]
    BY <1>0, <1>4 DEF ApplyExpired, MarkAbandoned, Goto, Stop, PaymentTypeOK
  <2> QED
    BY <2>1, <2>2, StillTold
<1>5. ASSUME NEW i \in Invocations, Kill(i) PROVE Telled'
  <2>1. UNCHANGED <<order, charged, told>> /\ faults' # 0
    BY <1>0, <1>5 DEF Kill, records, PaymentTypeOK
  <2> QED
    BY <2>1, StillTold
<1>6. ASSUME NEW s \in Sessions, Pay(s) \/ Expire(s) PROVE Telled'
  <2>1. UNCHANGED <<order, charged, told, task>> /\ (faults' = 0 => faults = 0)
    BY <1>0, <1>6 DEF Pay, Expire, records, counts, PaymentTypeOK
  <2> QED
    BY <2>1, StillTold
<1>7. CASE MarkRefunded
  BY <1>7 DEF MarkRefunded, Telled, AllTold, Uncharged
<1>8. CASE UNCHANGED vars
  <2>1. UNCHANGED <<order, charged, told, task, faults>>
    BY <1>8 DEF vars, records, counts
  <2> QED
    BY <2>1, StillTold
<1> QED
  BY <1>1, <1>2, <1>3, <1>4, <1>5, <1>6, <1>7, <1>8, <1>9 DEF Next, Handle

\* Money that arrives on a cancelled order reaches somebody before Stripe is
\* answered (markPaid), for any number of checkouts and overlapping deliveries, as
\* long as nothing failed.
THEOREM CancelledMoneyTold == Spec => []CancelledMoneyToldWithoutFaults
<1>1. Init => Telled
  BY DEF Init, Telled, AllTold, Uncharged
<1>2. Telled => CancelledMoneyToldWithoutFaults
  BY DEF Telled, AllTold, CancelledMoneyToldWithoutFaults
<1> QED
  BY <1>1, <1>2, IInvInvariant, StepTelled, PTL DEF Spec

-----------------------------------------------------------------------------

\* What a close is judged on: the checkout that expired has expired, and, unless
\* the close was raced, no other one can be paid.
JudgedRightly(t) ==
    /\ t.step \in {"expiring", "closing"} => session[SessionOf(t.event)] = "expired"
    /\ ~raced /\ t.step = "asking" =>
          \A s \in Sessions \ {SessionOf(t.event)} : session[s] \notin Live
    /\ ~raced /\ (t.step = "abandoning" \/ (t.step = "closing" /\ t.closes)) =>
          \A s \in Sessions : session[s] \notin Live
Judged ==
    /\ \A e \in posted : e[1] = "expired" => session[SessionOf(e)] = "expired"
    /\ \A i \in Invocations : JudgedRightly(task[i])

\* Sessions that expired stay so, and no checkout is opened under a close unless it
\* is marked as raced: what is judged stays judged.
SessionsKeep ==
    /\ \A s \in Sessions : session[s] = "expired" => session'[s] = "expired"
    /\ raced => raced'
    /\ ~raced' /\ Judging => \A s \in Sessions : session'[s] \in Live => session[s] \in Live
    /\ \A e \in posted' : e[1] = "expired" => session'[SessionOf(e)] = "expired"

LEMMA StillJudged ==
    ASSUME IInv, Judged, SessionsKeep, NEW j \in Invocations, task'[j] = task[j]
    PROVE  JudgedRightly(task[j])'
<1>1. JudgedRightly(task[j])
  BY DEF Judged
<1>2. task[j].step \in {"expiring", "closing"} => SessionOf(task[j].event) \in Sessions
  BY DEF IInv, TasksFit, Fits
<1>3. task[j].step \in {"expiring", "closing", "asking", "abandoning"} => Judging
  BY DEF Judging
<1> QED
  BY <1>1, <1>2, <1>3 DEF JudgedRightly, SessionsKeep

\* So a step keeps it if what its own invocation goes on with is judged rightly.
LEMMA OneJudges ==
    ASSUME IInv, Judged, SessionsKeep, NEW i \in Invocations,
           \A j \in Invocations \ {i} : task'[j] = task[j], JudgedRightly(task[i])'
    PROVE  Judged'
BY StillJudged DEF Judged, SessionsKeep
LEMMA NoneJudges ==
    ASSUME IInv, Judged, SessionsKeep, UNCHANGED task
    PROVE  Judged'
BY StillJudged DEF Judged, SessionsKeep

\* Every step keeps it.
LEMMA StepJudged == IInv /\ Judged /\ [Next]_vars => Judged'
<1> SUFFICES ASSUME IInv, Judged, [Next]_vars PROVE Judged'
  OBVIOUS
<1>0. PaymentTypeOK /\ PostedFit
  BY DEF IInv
<1>a. ASSUME UNCHANGED <<session, posted>>, raced => raced' PROVE SessionsKeep
  BY <1>a DEF Judged, SessionsKeep
<1>2. ASSUME NEW i \in Invocations,
             \/ OpenCheckout(i) \/ ApplyOrderPaid(i) \/ TellStaff(i) \/ ReleaseWork(i)
             \/ ReleaseIncomplete(i) \/ FinishEvent(i) \/ Answer(i) \/ ApplyExpired(i)
             \/ MarkAbandoned(i) \/ Kill(i)
      PROVE  Judged'
  <2>1. UNCHANGED <<session, posted, raced>>
    BY <1>2 DEF OpenCheckout, ApplyOrderPaid, TellStaff, ReleaseWork, ReleaseIncomplete,
                FinishEvent, Answer, ApplyExpired, MarkAbandoned, Kill, stripe
  <2>2. \E step \in {"opening", "telling", "answering", "releasing", "finishing", "idle"} :
           \/ task' = [task EXCEPT ![i] = Reading(step, Completed(NoSession))]
           \/ task' = [task EXCEPT ![i].step = step]
           \/ task' = [task EXCEPT ![i] = Idle]
    BY <1>2
       DEF OpenCheckout, ApplyOrderPaid, TellStaff, ReleaseWork, ReleaseIncomplete,
           FinishEvent, Answer, ApplyExpired, MarkAbandoned, Kill, Told, Goto, Stop
  <2>3. /\ \A j \in Invocations \ {i} : task'[j] = task[j]
        /\ task'[i].step \notin {"expiring", "closing", "asking", "abandoning"}
    BY <1>0, <2>2 DEF Idle, Reading, PaymentTypeOK, Task
  <2>4. JudgedRightly(task[i])'
    BY <2>3 DEF JudgedRightly
  <2> QED
    BY <1>a, <2>1, <2>3, <2>4, OneJudges
<1>3. ASSUME NEW i \in Invocations, CreateSession(i) PROVE Judged'
  <2>1. /\ \A j \in Invocations \ {i} : task'[j] = task[j]
        /\ task'[i].step \in {"idle", "starting"}
        /\ posted' = posted
    BY <1>0, <1>3 DEF CreateSession, Stop, Idle, PaymentTypeOK, Task
  <2>2. JudgedRightly(task[i])'
    BY <2>1 DEF JudgedRightly
  <2>3. SessionsKeep
    <3>1. CASE UNCHANGED <<session, raced>>
      BY <1>a, <2>1, <3>1
    <3>2. CASE \E s \in Sessions : /\ session[s] = "none"
                                   /\ session' = [session EXCEPT ![s] = "made"]
                                   /\ raced' = (raced \/ Judging)
      <4>1. /\ raced => raced'
            /\ ~raced' => ~Judging
            /\ \A x \in Sessions : session[x] = "expired" => session'[x] = "expired"
        BY <1>0, <3>2 DEF PaymentTypeOK
      <4>2. \A e \in posted' : e[1] = "expired" => session'[SessionOf(e)] = "expired"
        BY <1>0, <2>1, <4>1 DEF Judged, PostedFit
      <4> QED
        BY <4>1, <4>2 DEF SessionsKeep
    <3> QED
      BY <1>3, <3>1, <3>2 DEF CreateSession
  <2> QED
    BY <2>1, <2>2, <2>3, OneJudges
<1>4. ASSUME NEW i \in Invocations, RecordStarted(i) PROVE Judged'
  <2> DEFINE s == SessionOf(task[i].event)
  <2>1. /\ \A j \in Invocations \ {i} : task'[j] = task[j]
        /\ task'[i].step = "idle" /\ posted' = posted /\ raced' = raced
        /\ session' = [session EXCEPT ![s] = IF @ = "made" THEN "open" ELSE @]
    BY <1>0, <1>4 DEF RecordStarted, Stop, Idle, PaymentTypeOK, Task
  <2>2. /\ \A x \in Sessions : session[x] = "expired" => session'[x] = "expired"
        /\ \A x \in Sessions : session'[x] \in Live => session[x] \in Live
    BY <1>0, <2>1 DEF PaymentTypeOK, Live
  <2>3. \A e \in posted' : e[1] = "expired" => session'[SessionOf(e)] = "expired"
    BY <1>0, <2>1, <2>2 DEF Judged, PostedFit
  <2>4. JudgedRightly(task[i])' /\ SessionsKeep
    BY <2>1, <2>2, <2>3 DEF JudgedRightly, SessionsKeep
  <2> QED
    BY <2>1, <2>4, OneJudges
<1>5. ASSUME NEW i \in Invocations, NEW e \in posted, Receive(i, e) PROVE Judged'
  <2>1. /\ \A j \in Invocations \ {i} : task'[j] = task[j]
        /\ task'[i].event = e
        /\ task'[i].step \in {"paying", "expiring"}
        /\ task'[i].step = "expiring" => e # Completed(SessionOf(e))
        /\ UNCHANGED <<session, posted, raced>>
    BY <1>0, <1>5 DEF Receive, Reading, PaymentTypeOK, Task, stripe
  <2>2. e # Completed(SessionOf(e)) => e[1] = "expired"
    BY <1>0, EventParts DEF PostedFit, PaymentTypeOK
  <2>3. JudgedRightly(task[i])'
    BY <2>1, <2>2 DEF JudgedRightly, Judged
  <2> QED
    BY <1>a, <2>1, <2>3, OneJudges
<1>6. ASSUME NEW s \in Sessions, Pay(s) \/ Expire(s) PROVE Judged'
  <2>1. /\ session[s] \in Live /\ UNCHANGED <<task, raced>>
        /\ session' = [session EXCEPT ![s] = "paid"] \/ session' = [session EXCEPT ![s] = "expired"]
    BY <1>6 DEF Pay, Expire, Live
  <2>2. /\ \A x \in Sessions : session[x] = "expired" => session'[x] = "expired"
        /\ \A x \in Sessions : session'[x] \in Live => session[x] \in Live
    BY <1>0, <2>1 DEF PaymentTypeOK, Live
  <2>3. \A e \in posted' : e[1] = "expired" => session'[SessionOf(e)] = "expired"
    <3>1. CASE Pay(s)
      <4>1. posted' \subseteq posted \cup {Completed(s)} /\ Completed(s)[1] # "expired"
        BY <3>1 DEF Pay, Completed
      <4> QED
        BY <1>0, <2>2, <4>1 DEF Judged, PostedFit
    <3>2. CASE Expire(s)
      <4>1. /\ posted' = posted \cup {Expired(s)} /\ SessionOf(Expired(s)) = s
            /\ session'[s] = "expired"
        BY <1>0, <3>2 DEF Expire, PaymentTypeOK, SessionOf, Expired
      <4> QED
        BY <1>0, <2>2, <4>1 DEF Judged, PostedFit
    <3> QED
      BY <1>6, <3>1, <3>2
  <2>4. SessionsKeep
    BY <2>1, <2>2, <2>3 DEF SessionsKeep
  <2> QED
    BY <2>1, <2>4, NoneJudges
<1>7. ASSUME NEW i \in Invocations, JudgeExpiry(i) PROVE Judged'
  <2> DEFINE s == SessionOf(task[i].event)
  <2>1. /\ \A j \in Invocations \ {i} : task'[j] = task[j]
        /\ task'[i].event = task[i].event /\ task'[i].step = "closing"
        /\ task'[i].closes => ~Superseded(s)
        /\ UNCHANGED <<session, posted>> /\ raced' = (raced \/ Unrecorded)
        /\ task[i].step = "expiring"
    BY <1>0, <1>7 DEF JudgeExpiry, PaymentTypeOK, Task, stripe
  <2>2. s \in Sessions /\ session[s] = "expired"
    BY <2>1 DEF Judged, JudgedRightly, IInv, TasksFit, Fits
  <2>3. ASSUME ~raced', task'[i].closes, NEW x \in Sessions PROVE session[x] \notin Live
    <3>1. latest \in {NoSession, s} /\ ~Unrecorded
      BY <2>1, <2>3 DEF Superseded
    <3>2. CASE x = s
      BY <2>2, <3>2 DEF Live
    <3>3. CASE x # s
      BY <3>1, <3>3, PaymentEventsAssumption DEF Unrecorded
    <3> QED
      BY <3>2, <3>3
  <2>4. JudgedRightly(task[i])'
    BY <2>1, <2>2, <2>3 DEF JudgedRightly
  <2> QED
    BY <1>a, <2>1, <2>4, OneJudges
<1>8. ASSUME NEW i \in Invocations, SweepOrder(i) PROVE Judged'
  <2>1. /\ \A j \in Invocations \ {i} : task'[j] = task[j]
        /\ SessionOf(task'[i].event) = latest /\ task'[i].step = "asking"
        /\ UNCHANGED <<session, posted>> /\ raced' = (raced \/ Unrecorded)
    BY <1>0, <1>8 DEF SweepOrder, Reading, Reconciled, SessionOf, PaymentTypeOK, Task, stripe
  <2>2. JudgedRightly(task[i])'
    BY <2>1 DEF JudgedRightly, Unrecorded
  <2> QED
    BY <1>a, <2>1, <2>2, OneJudges
<1>9. ASSUME NEW i \in Invocations, AskProvider(i) PROVE Judged'
  <2> DEFINE s == SessionOf(task[i].event)
  <2>1. /\ \A j \in Invocations \ {i} : task'[j] = task[j]
        /\ task[i].step = "asking" /\ UNCHANGED <<session, posted, raced>>
        /\ task'[i].step \in {"paying", "abandoning", "idle"}
        /\ task'[i].step = "abandoning" => session[s] = "expired"
    BY <1>0, <1>9 DEF AskProvider, Reading, Idle, PaymentTypeOK, Task, stripe
  <2>2. JudgedRightly(task[i])'
    BY <2>1 DEF JudgedRightly, Judged, Live
  <2> QED
    BY <1>a, <2>1, <2>2, OneJudges
<1>10. CASE MarkRefunded \/ UNCHANGED vars
  <2>1. UNCHANGED <<session, posted, raced, task>>
    BY <1>10 DEF MarkRefunded, vars, stripe
  <2> QED
    BY <1>a, <2>1, NoneJudges
<1> QED
  BY <1>2, <1>3, <1>4, <1>5, <1>6, <1>7, <1>8, <1>9, <1>10 DEF Next, Handle

\* An order is closed by an expiry or the sweep only, and what it was judged on holds.
LEMMA ClosedAsJudged ==
    ASSUME IInv, Judged, [Next]_vars, order # "cancelled", order' = "cancelled", ~raced'
    PROVE  \A s \in Sessions : session[s] \notin Live
<1>1. ASSUME NEW i \in Invocations, ApplyExpired(i) \/ MarkAbandoned(i)
      PROVE  \A s \in Sessions : session[s] \notin Live
  <2>1. ~raced /\ (task[i].step = "abandoning" \/ (task[i].step = "closing" /\ task[i].closes))
    BY <1>1 DEF ApplyExpired, MarkAbandoned
  <2> QED
    BY <2>1 DEF Judged, JudgedRightly
<1>2. ASSUME NEW i \in Invocations,
             \/ OpenCheckout(i) \/ CreateSession(i) \/ RecordStarted(i) \/ ApplyOrderPaid(i)
             \/ TellStaff(i) \/ ReleaseWork(i) \/ ReleaseIncomplete(i) \/ FinishEvent(i)
             \/ Answer(i) \/ JudgeExpiry(i) \/ SweepOrder(i) \/ AskProvider(i) \/ Kill(i)
             \/ \E e \in posted : Receive(i, e)
      PROVE  FALSE
  BY <1>2 DEF OpenCheckout, CreateSession, RecordStarted, ApplyOrderPaid, TellStaff,
              ReleaseWork, ReleaseIncomplete, FinishEvent, Answer, JudgeExpiry, SweepOrder,
              AskProvider, Kill, Receive
<1>3. ASSUME NEW s \in Sessions, Pay(s) \/ Expire(s) PROVE FALSE
  BY <1>3 DEF Pay, Expire
<1>4. CASE MarkRefunded \/ UNCHANGED vars
  BY <1>4 DEF MarkRefunded, vars
<1> QED
  BY <1>1, <1>2, <1>3, <1>4 DEF Next, Handle

\* No order is closed under a checkout the customer can still pay, unless one was
\* opened, or had missed its event on the order, while the close was judged
\* (expireCheckout, markAbandoned).
THEOREM LiveCheckoutKept == Spec => ClosesNoLiveCheckoutUnlessRaced
<1>1. Init => Judged
  BY DEF Init, Judged, JudgedRightly, Idle
<1>2. IInv /\ Judged /\ [Next]_vars
        => [(order # "cancelled" /\ order' = "cancelled" /\ ~raced')
              => \A s \in Sessions : session[s] \notin Live]_vars
  BY ClosedAsJudged
<1> QED
  BY <1>1, <1>2, IInvInvariant, StepJudged, PTL DEF Spec, ClosesNoLiveCheckoutUnlessRaced

=============================================================================
