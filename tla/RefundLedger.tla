---------------------------- MODULE RefundLedger ----------------------------
(***************************************************************************)
(* The refunds of one paid order: the refunds the platform issues          *)
(* (cancelAndRefund, settleDecision, reserveRefundRow, settleRefundRow),   *)
(* the refunds somebody issues in Stripe's dashboard (recordExternalRefund *)
(* and eng_apply_refund, 0075), and what Stripe later says became of one   *)
(* (recordRefundUpdate, refundUpdateFor and eng_apply_refund_update,       *)
(* 0076), in src/lib/ops-payments.ts and src/lib/refund-update.ts.         *)
(*                                                                         *)
(* The ledger is not Stripe: it is brought to agree with it by calls that  *)
(* are answered late or never and by events that arrive in any order, more *)
(* than once.  The order is not a member of a bulk submission.             *)
(***************************************************************************)
EXTENDS Naturals, Sequences

CONSTANTS
    Paid,        \* what the order's one charge took
    Part,        \* what an engineer's decision gives back of it
    Answers,     \* what Stripe answers of a refund it makes: pending, succeeded
    Calls,       \* slots for the refunds the platform is issuing
    Deliveries,  \* slots for the webhook deliveries being handled
    MaxRefunds,  \* bound: refunds at Stripe
    MaxEvents,   \* bound: events about them
    MaxRows,     \* bound: refund rows, beyond which no refund is begun here
    MaxFaults    \* bound: invocations stopped, answers and requests lost

ASSUME RefundAssumption ==
    /\ Paid \in Nat /\ Part \in 1..Paid /\ Answers \subseteq {"pending", "succeeded"}
    /\ MaxRefunds \in Nat /\ MaxEvents \in Nat /\ MaxRows \in Nat /\ MaxFaults \in Nat

VARIABLES
    order,     \* the order's status
    rows,      \* the refund rows of eng_order_payments, in insertion order
    refunds,   \* Stripe's refunds of the charge, in the order they were made
    events,    \* the events Stripe has sent about them
    reversed,  \* refunded cents whose commission was reversed
    told,      \* the refunds the firm was alerted or tasked about
    call,      \* what each refund being issued is in the middle of
    delivery,  \* what each delivery is in the middle of
    faults     \* how many faults there have been

vars == <<order, rows, refunds, events, reversed, told, call, delivery, faults>>

\* What a row's provider_ref can be: the platform's own before the answer, a
\* refund's id, an event's id, or the one name of every call that failed.
Ref(kind, of) == [kind |-> kind, of |-> of]
Reserved == Ref("reserved", 0)
FailedCall == Ref("failed", 0)

Statuses == {"pending", "succeeded", "failed", "cancelled"}
Counts(status) == status \in {"pending", "succeeded"}

CentsOf(seq) ==
    LET sum[k \in 0..Len(seq)] ==
          IF k = 0 THEN 0
          ELSE sum[k - 1] + IF Counts(seq[k].status) THEN seq[k].amount ELSE 0
    IN  sum[Len(seq)]
Counted == CentsOf(rows)       \* what the ledger says was given back
GivenBack == CentsOf(refunds)  \* what Stripe gave back: amount_refunded

Owed == IF Counted >= Paid THEN 0 ELSE Paid - Counted   \* refundableOn

\* reversalFor: no more than is left of what was accrued.
ReverseOf(cents) == IF reversed + cents > Paid THEN Paid ELSE reversed + cents

IdleCall == [step |-> "idle", amount |-> 0, row |-> 0, answer |-> 0, close |-> FALSE]
IdleDelivery == [step |-> "idle", event |-> 0, prior |-> 0, row |-> 0, status |-> "none", close |-> FALSE]

Init ==
    /\ order = "in_fulfilment"
    /\ rows = <<>>
    /\ refunds = <<>>
    /\ events = <<>>
    /\ reversed = 0
    /\ told = {}
    /\ call = [c \in Calls |-> IdleCall]
    /\ delivery = [d \in Deliveries |-> IdleDelivery]
    /\ faults = 0

Fault == faults < MaxFaults /\ faults' = faults + 1

-----------------------------------------------------------------------------

\* Stripe makes a refund of the charge and says so with the charge's new total.
Made(amount, key, status) ==
    /\ Len(refunds) < MaxRefunds /\ Len(events) < MaxEvents
    /\ GivenBack + amount <= Paid
    /\ refunds' = Append(refunds, [amount |-> amount, key |-> key, status |-> status,
                                   answered |-> status])
    /\ events' = Append(events, [kind |-> "charge.refunded", total |-> GivenBack + amount,
                                 refund |-> 0, status |-> "none", state |-> "sent"])

\* Somebody refunds in the dashboard, where a refund that does not fail at once
\* reads succeeded, and may fail later.
RefundOutside(amount) ==
    /\ Made(amount, "dashboard", "succeeded")
    /\ UNCHANGED <<order, rows, reversed, told, call, delivery, faults>>

\* A refund Stripe had accepted settles, or fails, even after it succeeded.
SettleAtStripe(r) ==
    /\ Len(events) < MaxEvents
    /\ \E status \in {"succeeded", "failed"} :
          /\ \/ refunds[r].status = "pending"
             \/ refunds[r].status = "succeeded" /\ status = "failed"
          /\ refunds' = [refunds EXCEPT ![r].status = status]
          /\ events' = Append(events, [kind |-> "charge.refund.updated", total |-> 0,
                                       refund |-> r, status |-> status, state |-> "sent"])
    /\ UNCHANGED <<order, rows, reversed, told, call, delivery, faults>>

-----------------------------------------------------------------------------

\* cancelAndRefund up to its first write: a paid order, for all that is owed.
BeginCancel(c) ==
    /\ call[c] = IdleCall
    /\ Len(rows) < MaxRows
    /\ order # "refunded"
    /\ Owed > 0
    /\ call' = [call EXCEPT ![c] = [IdleCall EXCEPT !.step = "reserving",
                                    !.amount = Owed, !.close = TRUE]]
    /\ UNCHANGED <<order, rows, refunds, events, reversed, told, delivery, faults>>

\* settleDecision up to its first write: the rule's figure, if it is still owed.
BeginDecision(c) ==
    /\ call[c] = IdleCall
    /\ Len(rows) < MaxRows
    /\ Part <= Owed
    /\ call' = [call EXCEPT ![c] = [IdleCall EXCEPT !.step = "reserving",
                                    !.amount = Part, !.close = (order # "refunded")]]
    /\ UNCHANGED <<order, rows, refunds, events, reversed, told, delivery, faults>>

\* reserveRefundRow: the refund is written down before Stripe is asked.
Reserve(c) ==
    /\ call[c].step = "reserving"
    /\ rows' = Append(rows, [amount |-> call[c].amount, status |-> "pending",
                             ref |-> Reserved])
    /\ call' = [call EXCEPT ![c].step = "asking", ![c].row = Len(rows) + 1]
    /\ UNCHANGED <<order, refunds, events, reversed, told, delivery, faults>>

\* The refund asked of Stripe, idempotent on the charge and the amount: a key
\* Stripe has seen is answered with the refund it made then.  Whatever is thrown,
\* a refusal or an answer that never came, is returned as a failure.
Answered(c, r) == call' = [call EXCEPT ![c].step = "settling", ![c].answer = r]
Keyed(c) == {r \in DOMAIN refunds : refunds[r].key = "platform"
                                    /\ refunds[r].amount = call[c].amount}

Ask(c) ==
    /\ call[c].step = "asking"
    /\ \/ /\ \E r \in Keyed(c) : Answered(c, r)
          /\ UNCHANGED <<refunds, events, faults>>
       \/ /\ Keyed(c) = {}
          /\ \E status \in Answers : Made(call[c].amount, "platform", status)
          /\ \/ Answered(c, Len(refunds) + 1) /\ UNCHANGED faults
             \/ Answered(c, 0) /\ Fault
       \/ /\ Keyed(c) = {} /\ GivenBack + call[c].amount > Paid
          /\ Answered(c, 0)
          /\ UNCHANGED <<refunds, events, faults>>
       \/ /\ Answered(c, 0) /\ Fault
          /\ UNCHANGED <<refunds, events>>
    /\ UNCHANGED <<order, rows, reversed, told, delivery>>

\* MUTANT of Settle: what follows a recorded refund follows any answer.
SettleRegardless(c) ==
    /\ call[c].step = "settling"
    /\ LET r == call[c].answer
           ref == IF r = 0 THEN FailedCall ELSE Ref("refund", r)
       IN  rows' = [rows EXCEPT ![call[c].row] =
              IF \E k \in DOMAIN rows : rows[k].ref = ref THEN [@ EXCEPT !.status = "cancelled"]
              ELSE [@ EXCEPT !.ref = ref,
                             !.status = IF r = 0 THEN "failed" ELSE refunds[r].answered]]
    /\ call' = [call EXCEPT ![c].step = "closing"]
    /\ UNCHANGED <<order, refunds, events, reversed, told, delivery, faults>>

\* settleRefundRow: the row takes the answer's id and status, unless another row
\* has that id, and then it no longer counts.  What follows happens only for a
\* refund that was made and written down.
Settle(c) ==
    /\ call[c].step = "settling"
    /\ LET r == call[c].answer
           ref == IF r = 0 THEN FailedCall ELSE Ref("refund", r)
           taken == \E k \in DOMAIN rows : rows[k].ref = ref
           recorded == r # 0 /\ ~taken
       IN  /\ rows' = [rows EXCEPT ![call[c].row] =
                 IF taken THEN [@ EXCEPT !.status = "cancelled"]
                 ELSE [@ EXCEPT !.ref = ref,
                                !.status = IF r = 0 THEN "failed" ELSE refunds[r].answered]]
           /\ call' = IF recorded THEN [call EXCEPT ![c].step = "closing"]
                      ELSE [call EXCEPT ![c] = IdleCall]
    /\ UNCHANGED <<order, refunds, events, reversed, told, delivery, faults>>

\* The order is refunded, whatever it has become meanwhile.
Close(c) ==
    /\ call[c].step = "closing"
    /\ order' = IF call[c].close THEN "refunded" ELSE order
    /\ call' = [call EXCEPT ![c].step = "reversing"]
    /\ UNCHANGED <<rows, refunds, events, reversed, told, delivery, faults>>

\* reverseForRefund, for this row.
ReverseCommission(c) ==
    /\ call[c].step = "reversing"
    /\ reversed' = ReverseOf(call[c].amount)
    /\ call' = [call EXCEPT ![c] = IdleCall]
    /\ UNCHANGED <<order, rows, refunds, events, told, delivery, faults>>

\* An invocation stopped between two writes.
StopCall(c) ==
    /\ call[c].step \in {"asking", "settling", "closing", "reversing"}
    /\ Fault
    /\ call' = [call EXCEPT ![c] = IdleCall]
    /\ UNCHANGED <<order, rows, refunds, events, reversed, told, delivery>>

-----------------------------------------------------------------------------

\* The refund row that carries a Stripe refund's id: 0 when none does.
RowOf(r) ==
    IF \E k \in DOMAIN rows : rows[k].ref = Ref("refund", r)
    THEN CHOOSE k \in DOMAIN rows : rows[k].ref = Ref("refund", r)
    ELSE 0

RowStatus(k) == IF k = 0 THEN "none" ELSE rows[k].status

\* A delivery of an event, and what is read for it before anything is written.  Two
\* of one event may be at work; one begun after it is recorded changes nothing.
Deliver(d, e) ==
    /\ delivery[d] = IdleDelivery
    /\ events[e].state = "sent"
    /\ LET row == RowOf(events[e].refund) IN
       delivery' = [delivery EXCEPT ![d] = [IdleDelivery EXCEPT
           !.step = "applying", !.event = e,
           !.prior = IF events[e].kind = "charge.refunded" THEN Counted ELSE 0,
           !.row = row, !.status = RowStatus(row),
           !.close = (events[e].total >= Paid /\ order # "refunded")]]
    /\ UNCHANGED <<order, rows, refunds, events, reversed, told, call, faults>>

Done(d) == delivery' = [delivery EXCEPT ![d] = IdleDelivery]
Recorded(e) == events' = [events EXCEPT ![e].state = "recorded"]

\* eng_claim_payment_event: an event on file is answered, whatever was read.
AnswerRecorded(d) ==
    /\ delivery[d].step = "applying"
    /\ events[delivery[d].event].state = "recorded"
    /\ Done(d)
    /\ UNCHANGED <<order, rows, refunds, events, reversed, told, call, faults>>

\* MUTANT of Stale: what was read is taken to be what is there.
NeverStale(d) == FALSE

\* The ledger, or the order, is not what the difference was worked out from.
Stale(d) ==
    \/ Counted # delivery[d].prior
    \/ delivery[d].close /\ order = "refunded"

\* eng_apply_refund: the difference, with the commission it takes back.
ApplyRefund(d) ==
    LET e == delivery[d].event
        total == events[e].total
    IN  /\ delivery[d].step = "applying"
        /\ events[e].kind = "charge.refunded"
        /\ events[e].state = "sent"
        /\ ~Stale(d)
        /\ IF total > delivery[d].prior
           THEN /\ rows' = Append(rows, [amount |-> total - delivery[d].prior,
                                         status |-> "succeeded", ref |-> Ref("event", e)])
                /\ reversed' = ReverseOf(total - delivery[d].prior)
                /\ order' = IF delivery[d].close THEN "refunded" ELSE order
           ELSE UNCHANGED <<rows, reversed, order>>
        /\ Recorded(e)
        /\ Done(d)
        /\ UNCHANGED <<refunds, told, call, faults>>

\* MUTANT of Becomes: whatever Stripe says last.
BecomesAnything(was, status) == status

\* refundUpdateFor: what the row becomes, from the status it was read at; a row
\* that failed or was cancelled is final, and succeeding twice is nothing new.
Becomes(was, status) ==
    IF Counts(was) /\ (was = "pending" \/ status = "failed") THEN status ELSE was

\* eng_apply_refund_update: under the status it was judged at.  A row not on file
\* changes nothing, and the event is done with all the same.
Moved(d) ==
    LET row == RowOf(events[delivery[d].event].refund)
    IN  row # delivery[d].row \/ RowStatus(row) # delivery[d].status

\* MUTANT of Tells: a failed refund without a row is let pass.
TellsOfRows(d) ==
    LET status == events[delivery[d].event].status
    IN  /\ status = "failed"
        /\ delivery[d].row # 0
        /\ Becomes(delivery[d].status, status) # delivery[d].status

\* A row that fell is an alert; a failure without a row is a task.
Tells(d) ==
    LET status == events[delivery[d].event].status
    IN  /\ status = "failed"
        /\ \/ delivery[d].row = 0
           \/ Becomes(delivery[d].status, status) # delivery[d].status

ApplyUpdate(d) ==
    LET e == delivery[d].event
        row == delivery[d].row
    IN  /\ delivery[d].step = "applying"
        /\ events[e].kind = "charge.refund.updated"
        /\ events[e].state = "sent"
        /\ ~Moved(d)
        /\ rows' = IF row = 0 THEN rows
                   ELSE [rows EXCEPT ![row].status = Becomes(delivery[d].status, events[e].status)]
        /\ Recorded(e)
        /\ IF Tells(d) THEN delivery' = [delivery EXCEPT ![d].step = "telling"] ELSE Done(d)
        /\ UNCHANGED <<order, refunds, reversed, told, call, faults>>

\* A refused apply answers non 2xx, and Stripe delivers the event again.
Refuse(d) ==
    /\ delivery[d].step = "applying"
    /\ events[delivery[d].event].state = "sent"
    /\ IF events[delivery[d].event].kind = "charge.refunded" THEN Stale(d) ELSE Moved(d)
    /\ Done(d)
    /\ UNCHANGED <<order, rows, refunds, events, reversed, told, call, faults>>

\* After commit: the firm's alert for a row that fell, a task for one not on file.
Tell(d) ==
    /\ delivery[d].step = "telling"
    /\ told' = told \cup {events[delivery[d].event].refund}
    /\ Done(d)
    /\ UNCHANGED <<order, rows, refunds, events, reversed, call, faults>>

StopDelivery(d) ==
    /\ delivery[d].step = "telling"
    /\ Fault
    /\ Done(d)
    /\ UNCHANGED <<order, rows, refunds, events, reversed, told, call>>

Next ==
    \/ \E amount \in 1..Paid : RefundOutside(amount)
    \/ \E r \in DOMAIN refunds : SettleAtStripe(r)
    \/ \E c \in Calls :
         \/ BeginCancel(c) \/ BeginDecision(c) \/ Reserve(c) \/ Ask(c)
         \/ Settle(c) \/ Close(c) \/ ReverseCommission(c) \/ StopCall(c)
    \/ \E d \in Deliveries :
         \/ \E e \in DOMAIN events : Deliver(d, e)
         \/ AnswerRecorded(d) \/ ApplyRefund(d) \/ ApplyUpdate(d)
         \/ Refuse(d) \/ Tell(d) \/ StopDelivery(d)

Spec == Init /\ [][Next]_vars

-----------------------------------------------------------------------------

\* The refund rows, Stripe's refunds and their events keep their shape: no refund past
\* the charge, no commission reversed past it, and no row named for a refund or an
\* event that is not there.
RefundTypeOK ==
    /\ order \in {"in_fulfilment", "refunded"}
    /\ \A k \in DOMAIN rows :
          /\ rows[k].amount \in 1..Paid
          /\ rows[k].status \in Statuses
          /\ rows[k].ref \in {Reserved, FailedCall}
                \cup {Ref("refund", r) : r \in DOMAIN refunds}
                \cup {Ref("event", e) : e \in DOMAIN events}
    /\ \A r \in DOMAIN refunds : refunds[r].amount \in 1..Paid
    /\ GivenBack <= Paid
    /\ reversed \in 0..Paid
    /\ told \subseteq DOMAIN refunds
    /\ \A c \in Calls : call[c].row \in 0..Len(rows) /\ call[c].answer \in 0..Len(refunds)
    /\ \A d \in Deliveries : delivery[d].event \in 0..Len(events)
    /\ faults \in 0..MaxFaults

\* Nothing is being issued or handled, and every event has been recorded.
Quiet ==
    /\ \A c \in Calls : call[c] = IdleCall
    /\ \A d \in Deliveries : delivery[d] = IdleDelivery
    /\ \A e \in DOMAIN events : events[e].state = "recorded"

NoneFell == \A r \in DOMAIN refunds : refunds[r].status # "failed"
AllStand == \A k \in DOMAIN rows : Counts(rows[k].status)

\* Once every event is recorded, the ledger counts exactly what Stripe gave back,
\* however the platform's own refunds, the dashboard's and their events crossed,
\* as long as no refund failed, no row written here had to be taken back, and
\* nothing was stopped or lost.
LedgerAgreesWhileRowsStand ==
    Quiet /\ faults = 0 /\ NoneFell /\ AllStand => Counted = GivenBack

\* What follows a refund follows from one there was, and once.  A partner's commission
\* is never reversed for more than Stripe gave back: no refund is recorded both as the
\* platform's own and as one issued outside it (the money audit's F2), as long as none
\* failed and nothing was lost.  The order reads refunded only once the ledger holds a
\* refund under Stripe's name for it: one that failed, or could not be recorded,
\* closes no order.
FollowsFromRefunds ==
    /\ faults = 0 /\ NoneFell => reversed <= GivenBack
    /\ order = "refunded" => \E k \in DOMAIN rows : rows[k].ref.kind \in {"refund", "event"}

\* A row that failed or was cancelled is final: no late answer and no late event
\* brings it back into the count.
FallenRowsStayFallen ==
    [][\A k \in DOMAIN rows : ~Counts(rows[k].status) => rows'[k] = rows[k]]_vars

\* A refund that fails after Stripe accepted it is never silent: once its event is
\* recorded the firm has been told, whether or not a row carried its id by then.
FailedRefundIsTold ==
    Quiet /\ faults = 0 => \A r \in DOMAIN refunds : refunds[r].status = "failed" => r \in told

\* The comment in payments-stripe.ts (366-369), taken at its word: recording the
\* difference makes the ledger converge on what Stripe gave back, whichever
\* events arrive.
LedgerConverges == Quiet /\ faults = 0 /\ NoneFell => Counted = GivenBack

=============================================================================
