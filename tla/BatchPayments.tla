--------------------------- MODULE BatchPayments ----------------------------
(***************************************************************************)
(* One bulk submission paid by card: placeBatch (src/lib/ops-bulk.ts),     *)
(* startBatchCheckout, markBatchPaid, releaseAndFinish and the batch's     *)
(* side of expireCheckout (src/lib/ops-payments.ts), with                  *)
(* eng_apply_batch_paid and eng_apply_checkout_expired (0075), and what    *)
(* the reconciliation sweep, which asks about every order awaiting         *)
(* payment, does to the orders of a submission (src/lib/ops-reconcile.ts). *)
(*                                                                         *)
(* One payment covers every order of the submission.  Stripe is external,  *)
(* as in PaymentEvents, whose order has no submission.                     *)
(***************************************************************************)
EXTENDS Naturals, FiniteSets

CONSTANTS
    Members,      \* the properties submitted
    Sessions,     \* the checkouts Stripe can open for the submission
    NoSession,    \* no checkout.started event on an order yet
    Invocations,  \* slots for requests, webhook deliveries and sweeps
    MaxFaults,    \* bound: stopped invocations, lost writes, lost events
    MaxResends    \* bound: deliveries of an event already answered

ASSUME BatchAssumption ==
    NoSession \notin Sessions /\ MaxFaults \in Nat /\ MaxResends \in Nat

VARIABLES
    batch,    \* eng_order_batches.status, "none" before there is a row
    total,    \* the orders whose shares the row's total_cents adds up
    member,   \* the status of each property's order, "none" if not joined
    session,  \* each checkout, as Stripe has it
    latest,   \* the session of each order's newest checkout.started event
    ledger,   \* eng_payment_events: the status of each event
    charged,  \* the sessions whose charge is on file on the submission
    own,      \* the sessions whose charge is on file on an order of it
    told,     \* the sessions a person was given a task about
    work,     \* the orders whose work has been released
    posted,   \* the events Stripe has to deliver
    acked,    \* the events answered with a 2xx
    saved,    \* whether the customer was told it is saved and waiting to be paid
    task,     \* what each invocation is in the middle of
    faults,   \* how many faults there have been
    resends,  \* how many deliveries after a 2xx
    raced     \* history: a checkout opened, or was on none of the orders yet,
              \* while a close was being judged

records == <<ledger, charged, own, told, work>>
stripe == <<session, posted, acked>>
vars == <<batch, total, member, latest, records, stripe, saved, task, faults, resends, raced>>

BatchStatuses == {"none", "draft", "awaiting_payment", "accepted", "cancelled"}
Statuses == {"none", "awaiting_payment", "in_fulfilment", "cancelled", "refunded"}
SessionStates == {"none", "made", "open", "paid", "expired"}
Live == {"made", "open"}

Completed(s)  == <<"completed", s>>
Expired(s)    == <<"expired", s>>
Reconciled(s) == <<"reconcile", s>>
EventIds == {"completed", "expired", "reconcile"} \X (Sessions \cup {NoSession})
SessionOf(e) == e[2]

Steps == {"idle", "placing", "opening", "creating", "starting", "paying", "releasing",
          "finishing", "answering", "expiring", "closing", "asking", "settling", "abandoning"}

\* What an invocation carries: the statuses it read, the orders it has yet to go
\* through, those it went through, and whether what it decided still holds.
Task == [step : Steps, event : EventIds, seen : BatchStatuses, saw : [Members -> Statuses],
         todo : SUBSET Members, past : SUBSET Members, holds : BOOLEAN]
Idle == [step |-> "idle", event |-> Completed(NoSession), seen |-> "none",
         saw |-> [m \in Members |-> "none"], todo |-> {}, past |-> {}, holds |-> TRUE]

Reading(step, e) == [Idle EXCEPT !.step = step, !.event = e, !.seen = batch, !.saw = member]
Goto(i, step) == task' = [task EXCEPT ![i].step = step]
Begin(i, t) == task' = [task EXCEPT ![i] = t]
Stop(i) == Begin(i, Idle)
Fault == faults < MaxFaults /\ faults' = faults + 1

Joined == {m \in Members : member[m] # "none"}
Waiting == {m \in Members : member[m] = "awaiting_payment"}

\* Something moved since the invocation read it: the transaction raises.
Moved(i) == batch # task[i].seen \/ member # task[i].saw

\* MUTANT of Superseded: only a submission none of whose orders names the expired
\* session is left alone.
SupersededByAll(s) == \A m \in Joined : latest[m] \notin {NoSession, s}

\* An order of the submission opened a newer checkout than this one.
Superseded(s) == \E m \in Joined : latest[m] \notin {NoSession, s}

Judging == \E i \in Invocations :
             task[i].step \in {"expiring", "closing", "asking", "abandoning"}
Unrecorded == \E s \in Sessions : session[s] \in Live /\ \A m \in Joined : latest[m] # s

Init ==
    /\ batch = "none"
    /\ total = {}
    /\ member = [m \in Members |-> "none"]
    /\ session = [s \in Sessions |-> "none"]
    /\ latest = [m \in Members |-> NoSession]
    /\ ledger = [e \in EventIds |-> "unknown"]
    /\ charged = {} /\ own = {} /\ told = {} /\ work = {} /\ posted = {} /\ acked = {}
    /\ saved = FALSE
    /\ task = [i \in Invocations |-> Idle]
    /\ faults = 0 /\ resends = 0
    /\ raced = FALSE

-----------------------------------------------------------------------------

\* placeBatch: the row first, as a draft.  The same submission sent again finds
\* the row, whatever became of it, and goes on to its checkout.
Submit(i) ==
    /\ task[i] = Idle
    /\ IF batch = "none"
       THEN batch' = "draft" /\ Begin(i, [Idle EXCEPT !.step = "placing", !.todo = Members])
       ELSE UNCHANGED batch /\ Begin(i, [Idle EXCEPT !.step = "opening"])
    /\ UNCHANGED <<total, member, latest, records, stripe, saved, faults, resends, raced>>

\* One order at a time, placed and then joined to the submission.  A join that
\* fails is left out, and so is one that went unanswered after it was made.
PlaceOrder(i, m) ==
    /\ task[i].step = "placing" /\ m \in task[i].todo
    /\ \/ /\ member' = [member EXCEPT ![m] = "awaiting_payment"]
          /\ Begin(i, [task[i] EXCEPT !.todo = @ \ {m}, !.past = @ \cup {m}])
          /\ UNCHANGED faults
       \/ /\ member' \in {member, [member EXCEPT ![m] = "awaiting_payment"]}
          /\ Begin(i, [task[i] EXCEPT !.todo = @ \ {m}])
          /\ Fault
    /\ UNCHANGED <<batch, total, latest, records, stripe, saved, resends, raced>>

\* The total of what was placed, and the status, in one update that is not read.
FinishPlacing(i) ==
    /\ task[i].step = "placing" /\ task[i].todo = {}
    /\ IF task[i].past = {}
       THEN batch' = "cancelled" /\ Stop(i) /\ UNCHANGED <<total, faults>>
       ELSE /\ \/ batch' = "awaiting_payment" /\ total' = task[i].past /\ UNCHANGED faults
               \/ UNCHANGED <<batch, total>> /\ Fault
            /\ Begin(i, [Idle EXCEPT !.step = "opening"])
    /\ UNCHANGED <<member, latest, records, stripe, saved, resends, raced>>

\* startBatchCheckout: a submission waiting to be paid whose orders, whatever
\* their status, add up to its total.  Refused, the customer is told it is saved.
CheckPayable(i) ==
    /\ task[i].step = "opening"
    /\ IF batch = "awaiting_payment" /\ Joined = total
       THEN Goto(i, "creating") /\ UNCHANGED saved
       ELSE Stop(i) /\ saved' = TRUE
    /\ UNCHANGED <<batch, total, member, latest, records, stripe, faults, resends, raced>>

\* Idempotent on the submission for a day: the checkout comes back, paid or not,
\* and a new one is made when the last has expired, or was paid and the day is
\* over.  The provider may refuse.
CreateSession(i) ==
    /\ task[i].step = "creating"
    /\ \/ Stop(i) /\ UNCHANGED <<session, raced>>
       \/ \E s \in Sessions :
            /\ \/ session[s] \in Live \cup {"paid"} /\ UNCHANGED <<session, raced>>
               \/ /\ session[s] = "none"
                  /\ \A t \in Sessions : session[t] \notin Live
                  /\ session' = [session EXCEPT ![s] = "made"]
                  /\ raced' = (raced \/ Judging)
            /\ Begin(i, [Idle EXCEPT !.step = "starting", !.event = Completed(s),
                                     !.todo = Joined])
    /\ UNCHANGED <<batch, total, member, latest, records, posted, acked, saved, faults, resends>>

\* checkout.started on each order in turn; its insert is not read.  Only then is
\* the customer sent there.
RecordStarted(i) ==
    LET s == SessionOf(task[i].event) IN
    /\ task[i].step = "starting"
    /\ \/ \E m \in task[i].todo :
            /\ \/ latest' = [latest EXCEPT ![m] = s] /\ UNCHANGED faults
               \/ UNCHANGED latest /\ Fault
            /\ Begin(i, [task[i] EXCEPT !.todo = @ \ {m}])
            /\ UNCHANGED session
       \/ /\ task[i].todo = {}
          /\ session' = [session EXCEPT ![s] = IF @ = "made" THEN "open" ELSE @]
          /\ Stop(i)
          /\ UNCHANGED <<latest, faults>>
    /\ UNCHANGED <<batch, total, member, records, posted, acked, saved, resends, raced>>

Pay(s) ==
    /\ session[s] = "open"
    /\ session' = [session EXCEPT ![s] = "paid"]
    /\ \/ posted' = posted \cup {Completed(s)} /\ UNCHANGED faults
       \/ UNCHANGED posted /\ Fault
    /\ UNCHANGED <<batch, total, member, latest, records, acked, saved, task, resends, raced>>

\* A day passes, and no invocation lasts one.
Expire(s) ==
    /\ session[s] \in Live
    /\ \A i \in Invocations : task[i].step \notin {"creating", "starting"}
    /\ session' = [session EXCEPT ![s] = "expired"]
    /\ posted' = posted \cup {Expired(s)}
    /\ UNCHANGED <<batch, total, member, latest, records, acked, saved, task, faults, resends, raced>>

-----------------------------------------------------------------------------

\* A delivery reads the submission and its orders before anything is written.
Receive(i, e) ==
    /\ task[i] = Idle
    /\ e \in posted
    /\ \/ e \notin acked /\ UNCHANGED resends
       \/ e \in acked /\ resends < MaxResends /\ resends' = resends + 1
    /\ Begin(i, Reading(IF e = Completed(SessionOf(e)) THEN "paying" ELSE "expiring", e))
    /\ UNCHANGED <<batch, total, member, latest, records, stripe, saved, faults, raced>>

\* markBatchPaid goes to the release of what eng_apply_batch_paid answers, and
\* with nothing to release answers Stripe.
GoRelease(i, orders) ==
    IF orders = {} THEN Goto(i, "answering")
    ELSE Begin(i, [task[i] EXCEPT !.step = "releasing", !.todo = orders])

TakesPayment(i) == {m \in Joined : task[i].saw[m] = "awaiting_payment"}

\* eng_apply_batch_paid: one charge, the submission accepted from whatever it
\* was, and the orders that can be paid in fulfilment, under what was read.
ApplyBatchPaid(i) ==
    LET e == task[i].event
        s == SessionOf(e)
    IN
    /\ task[i].step = "paying"
    /\ \/ /\ ledger[e] = "done"
          /\ Goto(i, "answering")
          /\ UNCHANGED <<batch, member, ledger, charged>>
       \/ /\ ledger[e] = "claimed"
          /\ GoRelease(i, {m \in Joined : member[m] = "in_fulfilment"})
          /\ UNCHANGED <<batch, member, ledger, charged>>
       \/ /\ ledger[e] = "unknown" /\ s \in charged \cup own
          /\ ledger' = [ledger EXCEPT ![e] = "done"]
          /\ Goto(i, "answering")
          /\ UNCHANGED <<batch, member, charged>>
       \/ /\ ledger[e] = "unknown" /\ s \notin charged \cup own
          /\ Moved(i)
          /\ Stop(i)
          /\ UNCHANGED <<batch, member, ledger, charged>>
       \/ /\ ledger[e] = "unknown" /\ s \notin charged \cup own
          /\ ~Moved(i)
          /\ charged' = charged \cup {s}
          /\ batch' = "accepted"
          /\ member' = [m \in Members |-> IF m \in TakesPayment(i) THEN "in_fulfilment" ELSE member[m]]
          /\ ledger' = [ledger EXCEPT ![e] = IF TakesPayment(i) = {} THEN "done" ELSE "claimed"]
          /\ GoRelease(i, TakesPayment(i))
    /\ UNCHANGED <<total, latest, own, told, work, stripe, saved, faults, resends, raced>>

\* MUTANT of ReleaseOne: an order whose release is missing something stops nothing.
ReleaseAnyhow(i) ==
    /\ task[i].step = "releasing"
    /\ \E m \in task[i].todo :
          /\ work' \in {work, work \cup {m}}
          /\ Begin(i, [task[i] EXCEPT !.todo = @ \ {m}])
    /\ UNCHANGED <<batch, total, member, latest, ledger, charged, own, told, stripe, saved,
                   faults, resends, raced>>

\* releaseAndFinish: each order's release, whole or with something missing, which
\* does not keep the others from theirs.
ReleaseOne(i) ==
    /\ task[i].step = "releasing"
    /\ \E m \in task[i].todo :
          \/ /\ work' = work \cup {m}
             /\ Begin(i, [task[i] EXCEPT !.todo = @ \ {m}])
          \/ /\ work' \in {work, work \cup {m}}
             /\ Begin(i, [task[i] EXCEPT !.todo = @ \ {m}, !.holds = FALSE])
    /\ UNCHANGED <<batch, total, member, latest, ledger, charged, own, told, stripe, saved,
                   faults, resends, raced>>

\* The event is done once every order's release is whole; else it stays claimed
\* and the delivery is answered with an error.
FinishRelease(i) ==
    /\ task[i].step = "releasing" /\ task[i].todo = {}
    /\ IF task[i].holds
       THEN ledger' = [ledger EXCEPT ![task[i].event] = "done"] /\ Goto(i, "answering")
       ELSE UNCHANGED ledger /\ Stop(i)
    /\ UNCHANGED <<batch, total, member, latest, charged, own, told, work, stripe, saved,
                   faults, resends, raced>>

\* A 2xx to Stripe; a sweep has nobody to answer.
Answer(i) ==
    /\ task[i].step = "answering"
    /\ acked' = acked \cup ({task[i].event} \cap posted)
    /\ Stop(i)
    /\ UNCHANGED <<batch, total, member, latest, records, session, posted, saved, faults,
                   resends, raced>>

-----------------------------------------------------------------------------

\* expireCheckout: a submission that was paid, or one of whose orders opened a
\* newer checkout, is left as it is.
JudgeExpiry(i) ==
    /\ task[i].step = "expiring"
    /\ Begin(i, [task[i] EXCEPT !.step = "closing",
          !.holds = /\ task[i].seen \in {"awaiting_payment", "draft"}
                    /\ ~Superseded(SessionOf(task[i].event))])
    /\ raced' = (raced \/ Unrecorded)
    /\ UNCHANGED <<batch, total, member, latest, records, stripe, saved, faults, resends>>

\* MUTANT of ApplyExpired: a submission closed without its orders.
ApplyExpiredToBatch(i) ==
    LET e == task[i].event IN
    /\ task[i].step = "closing" /\ ledger[e] = "unknown" /\ ~Moved(i)
    /\ batch' = IF task[i].holds THEN "cancelled" ELSE batch
    /\ ledger' = [ledger EXCEPT ![e] = "done"]
    /\ Goto(i, "answering")
    /\ UNCHANGED <<member, total, latest, charged, own, told, work, stripe, saved, faults,
                   resends, raced>>

\* eng_apply_checkout_expired: the submission and every order still waiting, in
\* one transaction, under what was read.
ApplyExpired(i) ==
    LET e == task[i].event IN
    /\ task[i].step = "closing"
    /\ \/ /\ ledger[e] # "unknown"
          /\ Goto(i, "answering")
          /\ UNCHANGED <<batch, member, ledger>>
       \/ /\ ledger[e] = "unknown" /\ Moved(i)
          /\ Stop(i)
          /\ UNCHANGED <<batch, member, ledger>>
       \/ /\ ledger[e] = "unknown" /\ ~Moved(i)
          /\ IF task[i].holds
             THEN /\ batch' = "cancelled"
                  /\ member' = [m \in Members |-> IF m \in Waiting THEN "cancelled" ELSE member[m]]
             ELSE UNCHANGED <<batch, member>>
          /\ ledger' = [ledger EXCEPT ![e] = "done"]
          /\ Goto(i, "answering")
    /\ UNCHANGED <<total, latest, charged, own, told, work, stripe, saved, faults, resends, raced>>

-----------------------------------------------------------------------------

\* The sweep takes an order awaiting payment, of a submission or not, and asks
\* about the session of its newest checkout.started event.
SweepOrder(i, m) ==
    /\ task[i] = Idle
    /\ m \in Waiting /\ latest[m] # NoSession
    /\ Begin(i, [Idle EXCEPT !.step = "asking", !.event = Reconciled(latest[m]), !.past = {m}])
    /\ raced' = (raced \/ Unrecorded)
    /\ UNCHANGED <<batch, total, member, latest, records, stripe, saved, faults, resends>>

\* MUTANT of AskProvider: a payment is the order's whatever its amount.
AskProviderUnpriced(i) ==
    LET state == session[SessionOf(task[i].event)] IN
    /\ task[i].step = "asking"
    /\ IF state = "paid"
       THEN Begin(i, [Reading("settling", task[i].event) EXCEPT !.past = task[i].past])
       ELSE IF state = "expired" THEN Goto(i, "abandoning") ELSE Stop(i)
    /\ UNCHANGED <<batch, total, member, latest, records, stripe, saved, faults, resends, raced>>

\* judge: a payment is the order's if it is for the order's own total, which is
\* the session's only in a submission of one; else the amounts disagree, which is
\* a line on the order.  markPaid reads the order next, in the same step.
AskProvider(i) ==
    LET state == session[SessionOf(task[i].event)] IN
    /\ task[i].step = "asking"
    /\ IF state = "paid" /\ Joined = task[i].past
       THEN Begin(i, [Reading("settling", task[i].event) EXCEPT !.past = task[i].past])
       ELSE IF state = "expired" THEN Goto(i, "abandoning") ELSE Stop(i)
    /\ UNCHANGED <<batch, total, member, latest, records, stripe, saved, faults, resends, raced>>

\* markPaid and eng_apply_order_paid, of the one order; a charge on a cancelled
\* order is a task for a person.
ApplyOrderPaid(i) ==
    LET e == task[i].event
        s == SessionOf(e)
        m == CHOOSE x \in Members : task[i].past = {x}
        tells == IF task[i].saw[m] = "cancelled" THEN told \cup {s} ELSE told
    IN
    /\ task[i].step = "settling"
    /\ \/ /\ ledger[e] = "done"
          /\ told' = tells /\ Stop(i)
          /\ UNCHANGED <<member, ledger, own>>
       \/ /\ ledger[e] = "claimed"
          /\ Begin(i, [task[i] EXCEPT !.step = "releasing", !.todo = {m}])
          /\ UNCHANGED <<member, ledger, own, told>>
       \/ /\ ledger[e] = "unknown" /\ s \in charged \cup own
          /\ ledger' = [ledger EXCEPT ![e] = "done"]
          /\ told' = tells /\ Stop(i)
          /\ UNCHANGED <<member, own>>
       \/ /\ ledger[e] = "unknown" /\ s \notin charged \cup own
          /\ member[m] # task[i].saw[m]
          /\ Stop(i)
          /\ UNCHANGED <<member, ledger, own, told>>
       \/ /\ ledger[e] = "unknown" /\ s \notin charged \cup own
          /\ member[m] = task[i].saw[m]
          /\ own' = own \cup {s}
          /\ IF member[m] = "awaiting_payment"
             THEN /\ member' = [member EXCEPT ![m] = "in_fulfilment"]
                  /\ ledger' = [ledger EXCEPT ![e] = "claimed"]
                  /\ Begin(i, [task[i] EXCEPT !.step = "releasing", !.todo = {m}])
                  /\ UNCHANGED told
             ELSE /\ ledger' = [ledger EXCEPT ![e] = "done"]
                  /\ told' = tells /\ Stop(i)
                  /\ UNCHANGED member
    /\ UNCHANGED <<batch, total, latest, charged, work, stripe, saved, faults, resends, raced>>

\* markAbandoned: the order alone, and "Nothing was charged".
MarkAbandoned(i) ==
    /\ task[i].step = "abandoning"
    /\ member' = [m \in Members |-> IF m \in task[i].past \cap Waiting THEN "cancelled" ELSE member[m]]
    /\ Stop(i)
    /\ UNCHANGED <<batch, total, latest, records, stripe, saved, faults, resends, raced>>

\* An order refunded its share of the submission's charge (module BatchRefunds).
MarkRefunded(m) ==
    /\ member[m] = "in_fulfilment" /\ charged # {}
    /\ member' = [member EXCEPT ![m] = "refunded"]
    /\ UNCHANGED <<batch, total, latest, records, stripe, saved, task, faults, resends, raced>>

\* MUTANT of Kill: a delivery that fails is answered as if it were done.
KillAnswered(i) ==
    /\ task[i] # Idle
    /\ Fault
    /\ Stop(i)
    /\ acked' = acked \cup ({task[i].event} \cap posted)
    /\ UNCHANGED <<batch, total, member, latest, records, session, posted, saved, resends, raced>>

\* An invocation stops between two awaits, or a read, a transaction or a write
\* fails and it answers with an error.
Kill(i) ==
    /\ task[i] # Idle
    /\ Fault
    /\ Stop(i)
    /\ UNCHANGED <<batch, total, member, latest, records, stripe, saved, resends, raced>>

\* What an invocation does once begun, unless it is stopped.
Proceed(i) ==
    \/ \E m \in Members : PlaceOrder(i, m)
    \/ FinishPlacing(i) \/ CheckPayable(i) \/ CreateSession(i) \/ RecordStarted(i)
    \/ ApplyBatchPaid(i) \/ ReleaseOne(i) \/ FinishRelease(i) \/ Answer(i)
    \/ JudgeExpiry(i) \/ ApplyExpired(i)
    \/ AskProvider(i) \/ ApplyOrderPaid(i) \/ MarkAbandoned(i)

Next ==
    \/ \E i \in Invocations :
         \/ Submit(i) \/ Proceed(i) \/ Kill(i)
         \/ \E m \in Members : SweepOrder(i, m)
         \/ \E e \in posted : Receive(i, e)
    \/ \E s \in Sessions : Pay(s) \/ Expire(s)
    \/ \E m \in Members : MarkRefunded(m)

Spec == Init /\ [][Next]_vars

(***************************************************************************)
(* A handler runs to its end unless it is stopped, Stripe resends an event *)
(* until it is answered with a 2xx, and a release tried again and again is *)
(* whole once.                                                             *)
(***************************************************************************)
Fairness ==
    /\ \A i \in Invocations : WF_vars(Proceed(i))
    /\ \A i \in Invocations, m \in Members :
          SF_vars(ReleaseOne(i) /\ m \in work' /\ task'[i].todo = task[i].todo \ {m}
                                /\ task'[i].holds = task[i].holds)
    /\ \A s \in Sessions :
          SF_vars(\E i \in Invocations : Completed(s) \in posted /\ Receive(i, Completed(s)))

FairSpec == Spec /\ Fairness

-----------------------------------------------------------------------------

\* Every record keeps its shape.
BatchTypeOK ==
    /\ batch \in BatchStatuses /\ total \subseteq Joined
    /\ member \in [Members -> Statuses]
    /\ session \in [Sessions -> SessionStates]
    /\ latest \in [Members -> Sessions \cup {NoSession}]
    /\ ledger \in [EventIds -> {"unknown", "claimed", "done"}]
    /\ charged \subseteq Sessions /\ own \subseteq Sessions /\ told \subseteq Sessions
    /\ work \subseteq Joined
    /\ posted \subseteq EventIds /\ acked \subseteq posted
    /\ saved \in BOOLEAN /\ raced \in BOOLEAN
    /\ task \in [Invocations -> Task]
    /\ faults \in Nat /\ resends \in Nat

\* A submission that was paid or closed has no order still waiting: all of them
\* went with it, and nobody is left at a checkout that will not come.  One given
\* up because no order was placed is apart: a join that was made and went
\* unanswered leaves its order waiting for a payment nobody can make.
SettledTogether == batch \in {"accepted", "cancelled"} /\ total # {} => Waiting = {}

\* No order goes to work that was closed: once cancelled, an order stays so,
\* whatever is paid or delivered after.
CancelledStays ==
    [][\A m \in Members : member[m] = "cancelled" => member'[m] = "cancelled"]_vars

\* "Paid, work not released" shows the submission as long as the work of any of
\* its paid orders has not moved.
UnreleasedIsClaimed ==
    \A m \in Members : member[m] = "in_fulfilment" /\ m \notin work =>
        \E s \in charged \cup own : "claimed" \in {ledger[Completed(s)], ledger[Reconciled(s)]}

\* No submission is closed under a checkout the customer can still pay, unless the
\* checkout was opened, or had its event on none of the orders, while it was judged.
ClosesNoLiveCheckoutUnlessRaced ==
    [][(batch = "awaiting_payment" /\ batch' = "cancelled" /\ ~raced')
          => \A s \in Sessions : session[s] \notin Live]_vars

\* A payment Stripe tells us of is written down, whatever stops on the way.
PaidIsRecorded == \A s \in Sessions : Completed(s) \in posted ~> s \in charged \cup own

\* Every order a payment of the submission put to work is released, whichever of
\* them fails first: the event stays claimed, its delivery is refused, and the
\* next one tries again.  A payment the sweep wrote down is not resent.
PaidIsReleased ==
    \A m \in Members : (member[m] = "in_fulfilment" /\ own = {})
                        ~> (m \in work \/ member[m] = "refunded" \/ own # {})

\* A checkout's charge is on file once: on the submission, or, which only the
\* sweep does, on the one order it is the whole of, and never on both.
ChargeIsOnFileOnce ==
    /\ charged \cap own = {}
    /\ own # {} => Cardinality(Joined) = 1

\* ops-payments.ts, markPaid: money on a cancelled order is a person's job.
CancelledMoneyIsTold ==
    \A s \in charged : (\E m \in Joined : member[m] = "cancelled") => s \in told

\* ops-payments.ts, markBatchPaid: none of its orders gets a charge row of its own.
NoOwnCharge == own = {}

\* The bulk routes: a submission said to be saved and waiting to be paid is.
SavedMeansPayable == saved ~> batch # "draft"

\* payment-events.ts, unreleasedPayments: an event left claimed is money that is
\* written and work that is not released.
ClaimedIsUnreleased ==
    \A s \in Sessions :
       /\ ledger[Completed(s)] = "claimed" /\ Completed(s) \in acked
       /\ \A i \in Invocations : task[i].event # Completed(s)
       => \E m \in Members : member[m] = "in_fulfilment" /\ m \notin work

=============================================================================
