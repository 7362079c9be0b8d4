---------------------------- MODULE PaymentEvents ---------------------------
(***************************************************************************)
(* One order and the money for it: startCheckout, the Stripe webhook,      *)
(* markPaid, expireCheckout, markAbandoned (src/lib/ops-payments.ts), the  *)
(* reconciliation sweep (src/lib/ops-reconcile.ts) and the payment event   *)
(* ledger with its transactions (src/lib/payment-events.ts, migration      *)
(* 0075).  Stripe is an external party: it opens, completes and expires    *)
(* checkouts, and delivers an event until it is answered with a 2xx, and   *)
(* now and then again.                                                     *)
(*                                                                         *)
(* Each invocation of the platform is a slot that moves from await to      *)
(* await and may stop at any of them.  The release of the work is one step *)
(* that succeeds or does not; Release models what it is made of.           *)
(***************************************************************************)
EXTENDS Naturals, FiniteSets

CONSTANTS
    Sessions,     \* the checkouts Stripe can open for the order
    NoSession,    \* no checkout.started event on the order yet
    Invocations,  \* slots for requests, webhook deliveries and sweeps
    MaxFaults,    \* bound: stopped invocations, swallowed writes, lost events
    MaxResends    \* bound: deliveries of an event already answered

ASSUME PaymentEventsAssumption ==
    /\ NoSession \notin Sessions
    /\ MaxFaults \in Nat
    /\ MaxResends \in Nat

VARIABLES
    order,    \* eng_service_orders.status
    session,  \* each checkout, as Stripe has it
    latest,   \* the session of the order's newest checkout.started event
    ledger,   \* eng_payment_events: the status of each event
    charged,  \* eng_order_payments: the sessions whose charge is on file
    flagged,  \* the charges with a payment.unexpected event
    told,     \* who knows of a charge on a cancelled order: staff, or only a log
    work,     \* whether the work has been released
    posted,   \* the events Stripe has to deliver
    acked,    \* the events answered with a 2xx
    task,     \* what each invocation is in the middle of
    faults,   \* how many faults there have been
    resends,  \* how many deliveries after a 2xx
    raced     \* history: a checkout opened, or was not yet on the order, while
              \* its close was being judged

vars == <<order, session, latest, ledger, charged, flagged, told, work,
          posted, acked, task, faults, resends, raced>>

Statuses == {"awaiting_payment", "in_fulfilment", "cancelled", "refunded"}

\* "made" at Stripe, and "open" once the customer has its address.
SessionStates == {"none", "made", "open", "paid", "expired"}
Live == {"made", "open"}

\* An event id: Stripe's own for a completion and an expiry, and the sweep's
\* reconcile:<session>.
Completed(s)  == <<"completed", s>>
Expired(s)    == <<"expired", s>>
Reconciled(s) == <<"reconcile", s>>
EventIds == {"completed", "expired", "reconcile"} \X (Sessions \cup {NoSession})
SessionOf(e) == e[2]
FromStripe(e) == e[1] # "reconcile"

Steps == {"idle", "opening", "starting", "paying", "telling", "releasing",
          "finishing", "answering", "expiring", "closing", "asking", "abandoning"}

Task == [step : Steps, event : EventIds, seen : Statuses, closes : BOOLEAN]

Idle == [step |-> "idle", event |-> Completed(NoSession),
         seen |-> "awaiting_payment", closes |-> FALSE]

\* An invocation that has read the order's status on its way to an event.
Reading(step, e) == [step |-> step, event |-> e, seen |-> order, closes |-> FALSE]

Goto(i, step) == task' = [task EXCEPT ![i].step = step]
Stop(i) == task' = [task EXCEPT ![i] = Idle]

\* A status that moved since the invocation read it: the transaction raises.
\* Mutant: a transaction that takes the order as it finds it.
MovedIgnored(i) == FALSE
Moved(i) == order # task[i].seen

\* Mutant: an expiry that does not ask which checkout is the order's newest.
SupersededIgnored(s) == FALSE
Superseded(s) == latest \notin {NoSession, s}

\* Somebody is deciding whether the order is abandoned.
Judging == \E i \in Invocations :
             task[i].step \in {"expiring", "closing", "asking", "abandoning"}

\* A checkout the customer can be sent to that no event on the order names yet.
Unrecorded == \E s \in Sessions \ {latest} : session[s] \in Live

-----------------------------------------------------------------------------

Init ==
    /\ order = "awaiting_payment"
    /\ session = [s \in Sessions |-> "none"]
    /\ latest = NoSession
    /\ ledger = [e \in EventIds |-> "unknown"]
    /\ charged = {}
    /\ flagged = {}
    /\ told = [s \in Sessions |-> "nobody"]
    /\ work = FALSE
    /\ posted = {}
    /\ acked = {}
    /\ task = [i \in Invocations |-> Idle]
    /\ faults = 0
    /\ resends = 0
    /\ raced = FALSE

records == <<ledger, charged, flagged, told, work>>
stripe  == <<session, posted>>
counts  == <<faults, resends>>

(***************************************************************************)
(* startCheckout: the order is waiting for payment, the provider is asked  *)
(* for a checkout, the order gets its checkout.started event, and only     *)
(* then is the customer sent there.                                        *)
(***************************************************************************)
OpenCheckout(i) ==
    /\ task[i] = Idle
    /\ order = "awaiting_payment"
    /\ task' = [task EXCEPT ![i] = Reading("opening", Completed(NoSession))]
    /\ UNCHANGED <<order, latest, records, stripe, acked, counts, raced>>

\* The idempotency key is the order, so a checkout still live comes back; a new
\* one is made only when there is none, a day later.  No invocation lasts a day.
\* The provider may also refuse.
CreateSession(i) ==
    /\ task[i].step = "opening"
    /\ \/ Stop(i) /\ UNCHANGED <<session, raced>>
       \/ \E s \in Sessions :
            /\ \/ /\ session[s] \in Live
                  /\ UNCHANGED <<session, raced>>
               \/ /\ session[s] = "none"
                  /\ \A t \in Sessions : session[t] \notin Live
                  /\ session' = [session EXCEPT ![s] = "made"]
                  /\ raced' = (raced \/ Judging)
            /\ task' = [task EXCEPT ![i].step = "starting", ![i].event = Completed(s)]
    /\ UNCHANGED <<order, latest, records, posted, acked, counts>>

\* The event's insert is not checked: it may be refused, and nobody is told.
RecordStarted(i) ==
    LET s == SessionOf(task[i].event) IN
    /\ task[i].step = "starting"
    /\ \/ latest' = s /\ UNCHANGED faults
       \/ latest' = latest /\ faults < MaxFaults /\ faults' = faults + 1
    /\ session' = [session EXCEPT ![s] = IF @ = "made" THEN "open" ELSE @]
    /\ Stop(i)
    /\ UNCHANGED <<order, records, posted, acked, resends, raced>>

\* The customer pays, and Stripe has a completion to deliver, unless the
\* endpoint was never subscribed to it.
Pay(s) ==
    /\ session[s] = "open"
    /\ session' = [session EXCEPT ![s] = "paid"]
    /\ \/ posted' = posted \cup {Completed(s)} /\ UNCHANGED faults
       \/ posted' = posted /\ faults < MaxFaults /\ faults' = faults + 1
    /\ UNCHANGED <<order, latest, records, acked, task, resends, raced>>

\* A day passes: the checkout expires, and whoever opened it is long gone.
Expire(s) ==
    /\ session[s] \in Live
    /\ \A i \in Invocations : task[i].step # "starting"
    /\ session' = [session EXCEPT ![s] = "expired"]
    /\ posted' = posted \cup {Expired(s)}
    /\ UNCHANGED <<order, latest, records, acked, task, counts, raced>>

-----------------------------------------------------------------------------

\* A delivery: the branch for its kind reads the order's status first.
Receive(i, e) ==
    /\ task[i] = Idle
    /\ e \in posted
    /\ \/ e \notin acked /\ UNCHANGED resends
       \/ e \in acked /\ resends < MaxResends /\ resends' = resends + 1
    /\ task' = [task EXCEPT ![i] =
          Reading(IF e = Completed(SessionOf(e)) THEN "paying" ELSE "expiring", e)]
    /\ UNCHANGED <<order, latest, records, stripe, acked, faults, raced>>

\* Mutant: nobody is told.
ToldNobody(i) == Goto(i, "answering")

\* What is left of markPaid once its transaction has answered: a person is told
\* of money on a cancelled order before the delivery is answered.
Told(i) == Goto(i, IF task[i].seen = "cancelled" THEN "telling" ELSE "answering")

(***************************************************************************)
(* eng_apply_order_paid, one transaction.  An event already done, and a    *)
(* charge already on file, change nothing more; a claimed event goes       *)
(* straight to its release; a status that moved since it was read raises   *)
(* and writes nothing.                                                     *)
(***************************************************************************)
ApplyOrderPaid(i) ==
    LET e == task[i].event
        s == SessionOf(e)
    IN
    /\ task[i].step = "paying"
    /\ \/ /\ ledger[e] = "done"
          /\ Told(i)
          /\ UNCHANGED <<order, ledger, charged, flagged>>
       \/ /\ ledger[e] = "claimed"
          /\ Goto(i, "releasing")
          /\ UNCHANGED <<order, ledger, charged, flagged>>
       \/ /\ ledger[e] = "unknown"
          /\ s \in charged
          /\ ledger' = [ledger EXCEPT ![e] = "done"]
          /\ Told(i)
          /\ UNCHANGED <<order, charged, flagged>>
       \/ /\ ledger[e] = "unknown"
          /\ s \notin charged
          /\ Moved(i)
          /\ Stop(i)
          /\ UNCHANGED <<order, ledger, charged, flagged>>
       \/ /\ ledger[e] = "unknown"
          /\ s \notin charged
          /\ ~Moved(i)
          /\ charged' = charged \cup {s}
          /\ IF order = "awaiting_payment"
             THEN /\ order' = "in_fulfilment"
                  /\ ledger' = [ledger EXCEPT ![e] = "claimed"]
                  /\ Goto(i, "releasing")
                  /\ UNCHANGED flagged
             ELSE /\ flagged' = flagged \cup {s}
                  /\ ledger' = [ledger EXCEPT ![e] = "done"]
                  /\ Told(i)
                  /\ UNCHANGED order
    /\ UNCHANGED <<latest, told, work, stripe, acked, counts, raced>>

\* The staff task, keyed on the order and the charge; its failure is only logged.
TellStaff(i) ==
    /\ task[i].step = "telling"
    /\ \/ /\ told' = [told EXCEPT ![SessionOf(task[i].event)] = "staff"]
          /\ UNCHANGED faults
       \/ /\ told' = [told EXCEPT ![SessionOf(task[i].event)] =
                            IF @ = "nobody" THEN "log" ELSE @]
          /\ faults < MaxFaults
          /\ faults' = faults + 1
    /\ Goto(i, "answering")
    /\ UNCHANGED <<order, latest, ledger, charged, flagged, work, stripe, acked,
                   resends, raced>>

\* releaseForFulfilment, whole.
ReleaseWork(i) ==
    /\ task[i].step = "releasing"
    /\ work' = TRUE
    /\ Goto(i, "finishing")
    /\ UNCHANGED <<order, latest, ledger, charged, flagged, told, stripe, acked,
                   counts, raced>>

\* Mutants: a release whose missing steps are not read, so its event is finished,
\* and one that leaves the event claimed but answers the delivery with a 2xx.
ReleaseTakenAsWhole(i) ==
    /\ task[i].step = "releasing"
    /\ work' \in {work, TRUE}
    /\ Goto(i, "finishing")
    /\ UNCHANGED <<order, latest, ledger, charged, flagged, told, stripe, acked,
                   counts, raced>>
ReleaseIncompleteAnswered(i) ==
    /\ task[i].step = "releasing"
    /\ work' \in {work, TRUE}
    /\ Goto(i, "answering")
    /\ UNCHANGED <<order, latest, ledger, charged, flagged, told, stripe, acked,
                   counts, raced>>

\* releaseForFulfilment with something missing, before or after the work moved:
\* the event stays claimed and the delivery is answered with an error.
ReleaseIncomplete(i) ==
    /\ task[i].step = "releasing"
    /\ work' \in {work, TRUE}
    /\ Stop(i)
    /\ UNCHANGED <<order, latest, ledger, charged, flagged, told, stripe, acked,
                   counts, raced>>

\* finishPaymentEvent, once the work is released.
FinishEvent(i) ==
    /\ task[i].step = "finishing"
    /\ ledger' = [ledger EXCEPT ![task[i].event] = "done"]
    /\ Goto(i, "answering")
    /\ UNCHANGED <<order, latest, charged, flagged, told, work, stripe, acked,
                   counts, raced>>

\* A 2xx to Stripe.  A sweep has nobody to answer.
Answer(i) ==
    LET e == task[i].event IN
    /\ task[i].step = "answering"
    /\ acked' = IF FromStripe(e) THEN acked \cup {e} ELSE acked
    /\ Stop(i)
    /\ UNCHANGED <<order, latest, records, stripe, counts, raced>>

-----------------------------------------------------------------------------

\* expireCheckout goes on to read the order's newest checkout.started event: a
\* session it does not name, or an order past closing, closes nothing.
JudgeExpiry(i) ==
    /\ task[i].step = "expiring"
    /\ task' = [task EXCEPT ![i].step = "closing",
          ![i].closes = /\ task[i].seen = "awaiting_payment"
                        /\ ~Superseded(SessionOf(task[i].event))]
    /\ raced' = (raced \/ Unrecorded)
    /\ UNCHANGED <<order, latest, records, stripe, acked, counts>>

\* eng_apply_checkout_expired, one transaction, under the status it was judged at.
ApplyExpired(i) ==
    LET e == task[i].event IN
    /\ task[i].step = "closing"
    /\ \/ /\ ledger[e] # "unknown"
          /\ ledger' = [ledger EXCEPT ![e] = "done"]
          /\ Goto(i, "answering")
          /\ UNCHANGED order
       \/ /\ ledger[e] = "unknown"
          /\ Moved(i)
          /\ Stop(i)
          /\ UNCHANGED <<order, ledger>>
       \/ /\ ledger[e] = "unknown"
          /\ ~Moved(i)
          /\ order' = IF task[i].closes THEN "cancelled" ELSE order
          /\ ledger' = [ledger EXCEPT ![e] = "done"]
          /\ Goto(i, "answering")
    /\ UNCHANGED <<latest, charged, flagged, told, work, stripe, acked, counts, raced>>

-----------------------------------------------------------------------------

(***************************************************************************)
(* The reconciliation sweep takes an order awaiting payment, reads its     *)
(* newest checkout.started event and asks the provider about it.           *)
(***************************************************************************)
SweepOrder(i) ==
    /\ task[i] = Idle
    /\ order = "awaiting_payment"
    /\ latest # NoSession
    /\ task' = [task EXCEPT ![i] = Reading("asking", Reconciled(latest))]
    /\ raced' = (raced \/ Unrecorded)
    /\ UNCHANGED <<order, latest, records, stripe, acked, counts>>

\* judge.  A paid checkout stays paid, so reading the order's status for markPaid
\* together with the answer loses no interleaving.
AskProvider(i) ==
    LET state == session[SessionOf(task[i].event)] IN
    /\ task[i].step = "asking"
    /\ task' = [task EXCEPT ![i] =
          CASE state = "paid"    -> Reading("paying", task[i].event)
            [] state = "expired" -> Reading("abandoning", task[i].event)
            [] OTHER             -> Idle]
    /\ UNCHANGED <<order, latest, records, stripe, acked, counts, raced>>

\* markAbandoned: an order still waiting is cancelled under the status it reads.
\* The status never returns to a waiting one, so read and write are one step.
MarkAbandoned(i) ==
    /\ task[i].step = "abandoning"
    /\ order' = IF order = "awaiting_payment" THEN "cancelled" ELSE order
    /\ Stop(i)
    /\ UNCHANGED <<latest, records, stripe, acked, counts, raced>>

\* A refund of the order, by the firm or at the provider.
MarkRefunded ==
    /\ order = "in_fulfilment"
    /\ order' = "refunded"
    /\ UNCHANGED <<latest, records, stripe, acked, task, counts, raced>>

\* Mutant: a write that was cut off behind a 2xx.
KillAnswered(i) ==
    /\ task[i] # Idle
    /\ faults < MaxFaults
    /\ faults' = faults + 1
    /\ acked' = acked \cup ({task[i].event} \cap posted)
    /\ Stop(i)
    /\ UNCHANGED <<order, latest, records, stripe, resends, raced>>

\* The invocation stops between two awaits, or a read, a transaction or a write
\* fails and it answers with an error: whatever it has not written, it has not.
Kill(i) ==
    /\ task[i] # Idle
    /\ faults < MaxFaults
    /\ faults' = faults + 1
    /\ Stop(i)
    /\ UNCHANGED <<order, latest, records, stripe, acked, resends, raced>>

Handle(i) ==
    \/ OpenCheckout(i) \/ CreateSession(i) \/ RecordStarted(i)
    \/ ApplyOrderPaid(i) \/ TellStaff(i)
    \/ ReleaseWork(i) \/ ReleaseIncomplete(i) \/ FinishEvent(i) \/ Answer(i)
    \/ JudgeExpiry(i) \/ ApplyExpired(i)
    \/ SweepOrder(i) \/ AskProvider(i) \/ MarkAbandoned(i)
    \/ Kill(i)

Next ==
    \/ \E i \in Invocations : Handle(i)
    \/ \E i \in Invocations : \E e \in posted : Receive(i, e)
    \/ \E s \in Sessions : Pay(s) \/ Expire(s)
    \/ MarkRefunded

Spec == Init /\ [][Next]_vars

\* What an invocation does once begun, unless it is stopped.
Proceed(i) ==
    \/ CreateSession(i) \/ RecordStarted(i)
    \/ ApplyOrderPaid(i) \/ TellStaff(i)
    \/ ReleaseWork(i) \/ ReleaseIncomplete(i) \/ FinishEvent(i) \/ Answer(i)
    \/ JudgeExpiry(i) \/ ApplyExpired(i)
    \/ AskProvider(i) \/ MarkAbandoned(i)

(***************************************************************************)
(* Stripe resends an event until it is answered with a 2xx, a handler runs *)
(* to its end unless it is stopped, and a release that is tried again and  *)
(* again is complete once: what can make it incomplete is a read or a      *)
(* write that failed, or an account a person is asked to attach.           *)
(***************************************************************************)
Fairness ==
    /\ \A i \in Invocations : WF_vars(Proceed(i))
    /\ SF_vars(\E i \in Invocations : ReleaseWork(i))
    /\ \A s \in Sessions :
          SF_vars(\E i \in Invocations : Completed(s) \in posted /\ Receive(i, Completed(s)))

FairSpec == Spec /\ Fairness

-----------------------------------------------------------------------------

\* Every record keeps its shape: the rows, Stripe's side, and what each
\* invocation carries between its awaits.
PaymentTypeOK ==
    /\ order \in Statuses
    /\ session \in [Sessions -> SessionStates]
    /\ latest \in Sessions \cup {NoSession}
    /\ ledger \in [EventIds -> {"unknown", "claimed", "done"}]
    /\ charged \subseteq Sessions
    /\ flagged \subseteq Sessions
    /\ told \in [Sessions -> {"nobody", "staff", "log"}]
    /\ work \in BOOLEAN
    /\ posted \subseteq EventIds
    /\ acked \subseteq EventIds
    /\ task \in [Invocations -> Task]
    /\ faults \in Nat
    /\ resends \in Nat
    /\ raced \in BOOLEAN

\* The payment path keeps what OrderLedger promises: a completion, an expiry, a
\* sweep and a refund in any order and any number of deliveries record each
\* charge once, let one of them release the work, and close no paid order.
Promise == INSTANCE OrderLedger
KeepsPromise == Promise!Spec

\* "Paid, work not released" can always be seen: as long as a paid order's work
\* has not moved, some event of a charge on file stays claimed, which is what the
\* dashboard and the health watch look for.
UnreleasedIsClaimed ==
    (order = "in_fulfilment" /\ ~work) =>
        \E s \in charged : "claimed" \in {ledger[Completed(s)], ledger[Reconciled(s)]}

\* No order is closed under a checkout the customer can still pay, unless that
\* checkout was opened, or missed its event on the order, while the close was
\* being judged.
ClosesNoLiveCheckoutUnlessRaced ==
    [][(order # "cancelled" /\ order' = "cancelled" /\ ~raced')
          => \A s \in Sessions : session[s] \notin Live]_vars

\* "An expired session that is not the order's latest closes nothing": when an
\* expiry closes the order, no newer checkout of the order can be paid.
SupersededExpiryClosesNothing ==
    [][\A i \in Invocations :
         (task[i].step = "closing" /\ order # "cancelled" /\ order' = "cancelled")
            => \A s \in Sessions : session[s] \notin Live]_vars

\* A payment Stripe tells us of is written down, whatever fails on the way.
PaidIsRecorded == \A s \in Sessions : Completed(s) \in posted ~> s \in charged

\* A payment event claimed on a delivery is released by a later one and done.
DeliveredClaimFinishes ==
    \A s \in Sessions : ledger[Completed(s)] = "claimed" ~> ledger[Completed(s)] = "done"

\* "The event stays claimed, so the next delivery releases again", for every
\* event the ledger can hold, the sweep's own included.
EveryClaimFinishes ==
    \A s \in Sessions, kind \in {"completed", "reconcile"} :
        ledger[<<kind, s>>] = "claimed" ~> ledger[<<kind, s>>] = "done"

\* Money on a cancelled order reaches a person, or a log when the task itself
\* cannot be raised: once Stripe has been answered and will not resend, somebody
\* was told or is about to be.  It takes a fault and an overlapping delivery that
\* read the order before it was cancelled to lose this.
CancelledMoneyToldWithoutFaults ==
    faults = 0 =>
        \A s \in Sessions :
            (order = "cancelled" /\ s \in charged /\ Completed(s) \in acked)
                => \/ told[s] # "nobody"
                   \/ \E i \in Invocations :
                         task[i].step = "telling" /\ SessionOf(task[i].event) = s

=============================================================================
