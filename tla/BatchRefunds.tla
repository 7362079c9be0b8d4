---------------------------- MODULE BatchRefunds ----------------------------
(***************************************************************************)
(* The refunds of a paid bulk submission: one charge, and each order given *)
(* back its own share of it (refundableOnBatchMember, cancelAndRefund,     *)
(* settleDecision, settleRefundRow), while somebody may refund the charge  *)
(* in Stripe's dashboard and every refund comes back as an event           *)
(* (recordExternalRefund in src/lib/ops-payments.ts, eng_apply_refund in   *)
(* 0075).                                                                  *)
(*                                                                         *)
(* What Stripe answers of a refund is final here: a refund that fails      *)
(* later, and the commission it reverses, are in RefundLedger, whose order *)
(* has no submission.                                                      *)
(***************************************************************************)
EXTENDS Naturals, Sequences, FiniteSets

CONSTANTS
    Members,          \* the orders of the submission, all of them paid
    NoMember,         \* what a row that names no order names
    Share,            \* what each order paid of the charge
    PartOfShare,      \* what a decision after a visit gives back of a share
    BatchCalls,       \* slots for the refunds the platform is issuing
    BatchDeliveries,  \* slots for the webhook deliveries being handled
    MaxBatchRefunds,  \* bound: refunds at Stripe
    MaxBatchRows,     \* bound: rows, beyond which no refund is begun here
    MaxBatchFaults    \* bound: calls stopped, answers and requests lost

ASSUME BatchRefundAssumption ==
    /\ IsFiniteSet(Members) /\ NoMember \notin Members
    /\ Share \in Nat /\ PartOfShare \in 1..Share
    /\ MaxBatchRefunds \in Nat /\ MaxBatchRows \in Nat /\ MaxBatchFaults \in Nat

VARIABLES
    refunded,       \* the orders that read refunded
    batchRows,      \* the refund rows of the submission, in insertion order
    batchRefunds,   \* Stripe's refunds of the charge, in the order they were made
    batchEvents,    \* for each of them, whether its charge.refunded is recorded
    batchCall,      \* what each refund being issued is in the middle of
    batchDelivery,  \* what each delivery is in the middle of
    lost,           \* history: the orders one of whose refunds was made unanswered
    batchFaults     \* how many faults there have been

batchVars == <<refunded, batchRows, batchRefunds, batchEvents, batchCall, batchDelivery, lost,
               batchFaults>>

Charge == Share * Cardinality(Members)

\* What the members of seq at the places K come to.
Cents(seq, K) ==
    LET sum[k \in 0..Len(seq)] ==
          IF k = 0 THEN 0 ELSE sum[k - 1] + IF k \in K THEN seq[k].amount ELSE 0
    IN  sum[Len(seq)]

Live == {k \in DOMAIN batchRows : batchRows[k].live}
CountedAll == Cents(batchRows, Live)                  \* refunds against the submission
BackTo(m) == Cents(batchRows, {k \in Live : batchRows[k].of = m})
OnSubject == BackTo(NoMember)                         \* on the charge's own subject
Returned == Cents(batchRefunds, DOMAIN batchRefunds)  \* amount_refunded
GivenTo(m) == Cents(batchRefunds, {r \in DOMAIN batchRefunds : batchRefunds[r].of = m})

Lesser(a, b) == IF a < b THEN a ELSE b
Less(a, b) == IF a > b THEN a - b ELSE 0

\* MUTANT of OwedTo: every order is owed its share, whatever went back before.
OwedInFull(m) == Lesser(Share, Less(Charge, CountedAll))

\* MUTANT of OwedTo: an order's own share, whatever is left of the charge.
OwedOfShare(m) == Less(Share, BackTo(m))

\* refundableOn, of a member: what is left of its share, and never more than is
\* left of the charge, a refund that is still pending counting as given back.
OwedTo(m) == Lesser(Less(Share, BackTo(m)), Less(Charge, CountedAll))

NoCall == [step |-> "idle", of |-> NoMember, amount |-> 0, row |-> 0, answer |-> 0,
           close |-> FALSE, raced |-> FALSE]
NoDelivery == [step |-> "idle", event |-> 0, total |-> 0, prior |-> 0]

BatchInit ==
    /\ refunded = {} /\ batchRows = <<>> /\ batchRefunds = <<>> /\ batchEvents = <<>>
    /\ batchCall = [c \in BatchCalls |-> NoCall]
    /\ batchDelivery = [d \in BatchDeliveries |-> NoDelivery]
    /\ lost = {} /\ batchFaults = 0

BatchFault == batchFaults < MaxBatchFaults /\ batchFaults' = batchFaults + 1

\* History: a call is raced by a refund made by hand, made unanswered or made by a
\* call that was itself raced, between its read of the ledger and its question to
\* Stripe, by one begun before its row is written, and by a refund the ledger can only
\* learn of from an event not recorded yet.
Unwritten == {c \in BatchCalls : batchCall[c].step = "reserving"}
Unasked == {c \in BatchCalls : batchCall[c].step \in {"reserving", "asking"}}
Raced(C) == [c \in BatchCalls |-> [batchCall[c] EXCEPT !.raced = @ \/ c \in C]]
Unreported == \E r \in DOMAIN batchRefunds :
    ~batchEvents[r] /\ batchRefunds[r].of \in lost \cup {NoMember}
BegunRaced == Unreported \/ Unwritten # {}

-----------------------------------------------------------------------------

\* Stripe makes a refund of the charge, and says so with the charge's new total.
MadeFor(m, amount) ==
    /\ Len(batchRefunds) < MaxBatchRefunds
    /\ Returned + amount <= Charge
    /\ batchRefunds' = Append(batchRefunds,
          [of |-> m, amount |-> amount, total |-> Returned + amount])
    /\ batchEvents' = Append(batchEvents, FALSE)

\* Somebody refunds the charge in the dashboard, which knows of no order.
RefundByHand(amount) ==
    /\ MadeFor(NoMember, amount)
    /\ batchCall' = Raced(Unasked)
    /\ UNCHANGED <<refunded, batchRows, batchDelivery, lost, batchFaults>>

-----------------------------------------------------------------------------

Asking(c, m, amount, close) ==
    batchCall' = [Raced(Unwritten) EXCEPT ![c] =
        [NoCall EXCEPT !.step = "reserving", !.of = m, !.amount = amount, !.close = close,
                       !.raced = BegunRaced]]

\* cancelAndRefund: an order not refunded, for what is left of its share; refused
\* when the charge has less than that left.
CancelMember(c, m) ==
    /\ batchCall[c] = NoCall
    /\ Len(batchRows) < MaxBatchRows
    /\ m \notin refunded
    /\ OwedTo(m) > 0 /\ OwedTo(m) >= Less(Share, BackTo(m))
    /\ Asking(c, m, OwedTo(m), TRUE)
    /\ UNCHANGED <<refunded, batchRows, batchRefunds, batchEvents, batchDelivery, lost, batchFaults>>

\* settleDecision: the rule's figure after a visit, refused when less is left; the
\* whole share, given back without one, is what a cancellation gives.
DecideMember(c, m) ==
    /\ batchCall[c] = NoCall
    /\ Len(batchRows) < MaxBatchRows
    /\ PartOfShare <= OwedTo(m)
    /\ Asking(c, m, PartOfShare, m \notin refunded)
    /\ UNCHANGED <<refunded, batchRows, batchRefunds, batchEvents, batchDelivery, lost, batchFaults>>

\* The refund is written down, naming the order and its submission.
ReserveShare(c) ==
    /\ batchCall[c].step = "reserving"
    /\ batchRows' = Append(batchRows,
          [of |-> batchCall[c].of, amount |-> batchCall[c].amount, live |-> TRUE, refund |-> 0])
    /\ batchCall' = [batchCall EXCEPT ![c].step = "asking", ![c].row = Len(batchRows) + 1]
    /\ UNCHANGED <<refunded, batchRefunds, batchEvents, batchDelivery, lost, batchFaults>>

\* The order joins the key: equal shares of one charge are separate refunds.
SameKey(c) == {r \in DOMAIN batchRefunds :
    batchRefunds[r].of = batchCall[c].of /\ batchRefunds[r].amount = batchCall[c].amount}

\* Stripe is asked.  A key it has seen is answered with the refund made then; more
\* than the charge has left is refused; an answer may be lost, the refund made.
AskShare(c) ==
    LET answered(r) == batchCall' = [batchCall EXCEPT ![c].step = "settling", ![c].answer = r]
        racing(r) == [Raced(Unasked) EXCEPT ![c].step = "settling", ![c].answer = r]
        made == Len(batchRefunds) + 1
    IN
    /\ batchCall[c].step = "asking"
    /\ \/ /\ \E r \in SameKey(c) : answered(r)
          /\ UNCHANGED <<batchRefunds, batchEvents, lost, batchFaults>>
       \/ /\ SameKey(c) = {}
          /\ MadeFor(batchCall[c].of, batchCall[c].amount)
          /\ \/ /\ IF batchCall[c].raced THEN batchCall' = racing(made) ELSE answered(made)
                /\ UNCHANGED <<lost, batchFaults>>
             \/ batchCall' = racing(0) /\ BatchFault /\ lost' = lost \cup {batchCall[c].of}
       \/ /\ SameKey(c) = {} /\ Returned + batchCall[c].amount > Charge
          /\ answered(0)
          /\ UNCHANGED <<batchRefunds, batchEvents, lost, batchFaults>>
       \/ answered(0) /\ BatchFault /\ UNCHANGED <<batchRefunds, batchEvents, lost>>
    /\ UNCHANGED <<refunded, batchRows, batchDelivery>>

\* settleRefundRow: the row takes the answer's id, unless another row has it; a row
\* that does not, and one of a refund that failed, no longer counts.
SettleShare(c) ==
    LET r == batchCall[c].answer
        taken == \E k \in DOMAIN batchRows : batchRows[k].refund = r
        settled == r # 0 /\ ~taken
    IN
    /\ batchCall[c].step = "settling"
    /\ batchRows' = [batchRows EXCEPT ![batchCall[c].row] =
          IF settled THEN [@ EXCEPT !.refund = r] ELSE [@ EXCEPT !.live = FALSE]]
    /\ IF settled
       THEN batchCall' = [batchCall EXCEPT ![c].step = "closing"]
       ELSE batchCall' = [batchCall EXCEPT ![c] = NoCall]
    /\ UNCHANGED <<refunded, batchRefunds, batchEvents, batchDelivery, lost, batchFaults>>

\* The order reads refunded, whatever it has become meanwhile.
CloseMember(c) ==
    /\ batchCall[c].step = "closing"
    /\ refunded' = IF batchCall[c].close THEN refunded \cup {batchCall[c].of} ELSE refunded
    /\ batchCall' = [batchCall EXCEPT ![c] = NoCall]
    /\ UNCHANGED <<batchRows, batchRefunds, batchEvents, batchDelivery, lost, batchFaults>>

\* A call stopped between two awaits.
StopShare(c) ==
    /\ batchCall[c].step \in {"asking", "settling", "closing"}
    /\ BatchFault
    /\ batchCall' = [batchCall EXCEPT ![c] = NoCall]
    /\ UNCHANGED <<refunded, batchRows, batchRefunds, batchEvents, batchDelivery, lost>>

-----------------------------------------------------------------------------

\* recordExternalRefund: the refunds on the charge's own subject, and a member's
\* refund names an order where the charge of a submission names none.
Prior == OnSubject

\* A delivery of a refund's event, not recorded yet, and what is read for it.
DeliverTotal(d, e) ==
    /\ batchDelivery[d] = NoDelivery
    /\ ~batchEvents[e]
    /\ batchDelivery' = [batchDelivery EXCEPT ![d] =
          [step |-> "applying", event |-> e, total |-> batchRefunds[e].total, prior |-> Prior]]
    /\ UNCHANGED <<refunded, batchRows, batchRefunds, batchEvents, batchCall, lost, batchFaults>>

\* MUTANT of StaleTotal: what was read is taken to be what is there.
NeverStaleTotal(d) == FALSE
StaleTotal(d) == batchDelivery[d].prior # Prior

\* eng_apply_refund: the difference, on the submission, under the total it was
\* worked out from; else it raises and Stripe delivers the event again.  A member's
\* order keeps its status.
ApplyTotal(d) ==
    LET e == batchDelivery[d].event
        delta == Less(batchDelivery[d].total, batchDelivery[d].prior)
    IN
    /\ batchDelivery[d].step = "applying"
    /\ IF batchEvents[e] \/ StaleTotal(d)
       THEN UNCHANGED <<batchRows, batchEvents>>
       ELSE /\ batchEvents' = [batchEvents EXCEPT ![e] = TRUE]
            /\ batchRows' = IF delta = 0 THEN batchRows
                            ELSE Append(batchRows, [of |-> NoMember, amount |-> delta,
                                                    live |-> TRUE, refund |-> 0])
    /\ batchDelivery' = [batchDelivery EXCEPT ![d] = NoDelivery]
    /\ UNCHANGED <<refunded, batchRefunds, batchCall, lost, batchFaults>>

BatchNext ==
    \/ RefundByHand(PartOfShare)
    \/ \E c \in BatchCalls :
         \/ \E m \in Members : CancelMember(c, m) \/ DecideMember(c, m)
         \/ ReserveShare(c) \/ AskShare(c) \/ SettleShare(c) \/ CloseMember(c) \/ StopShare(c)
    \/ \E d \in BatchDeliveries :
         \/ \E e \in DOMAIN batchEvents : DeliverTotal(d, e)
         \/ ApplyTotal(d)

BatchSpec == BatchInit /\ [][BatchNext]_batchVars

-----------------------------------------------------------------------------

AllQuiet ==
    /\ \A c \in BatchCalls : batchCall[c] = NoCall
    /\ \A d \in BatchDeliveries : batchDelivery[d] = NoDelivery
    /\ \A e \in DOMAIN batchEvents : batchEvents[e]

\* The ledger and Stripe keep their shape: no refund past the charge, a row settled
\* under a refund of its own order and amount, and none of them under two rows.
BatchRefundsTypeOK ==
    /\ refunded \subseteq Members /\ lost \subseteq Members
    /\ Len(batchEvents) = Len(batchRefunds) /\ Returned <= Charge
    /\ \A k \in DOMAIN batchRows : batchRows[k].refund # 0 =>
          /\ batchRows[k].of = batchRefunds[batchRows[k].refund].of
          /\ batchRows[k].amount = batchRefunds[batchRows[k].refund].amount
          /\ \A j \in DOMAIN batchRows :
                batchRows[j].refund = batchRows[k].refund => j = k
    /\ \A c \in BatchCalls :
          /\ batchCall[c].row \in 0..Len(batchRows)
          /\ batchCall[c].answer \in 0..Len(batchRefunds)
    /\ \A d \in BatchDeliveries : batchDelivery[d].event \in 0..Len(batchEvents)

\* Stripe is asked for no more than is left of the charge, and for no more than is
\* left of the order's share, by any call that nothing raced: not by the decisions
\* and cancellations on the other orders that came before it, nor by the refunds
\* made by hand.  A share one of whose refunds went unanswered may be given again.
AsksWithinWhatIsLeft ==
    \A c \in BatchCalls :
        batchCall[c].step = "asking" /\ ~batchCall[c].raced /\ SameKey(c) = {} =>
            /\ Returned + batchCall[c].amount <= Charge
            /\ \/ GivenTo(batchCall[c].of) + batchCall[c].amount <= Share
               \/ batchCall[c].of \in lost

\* 0075: "two refund events cannot both write against one figure".  Each event carries
\* the charge's total so far, and in whatever order and however often they come, what
\* the submission is told of refunds made outside never comes to more than Stripe gave
\* back; and once all are recorded, nothing Stripe gave back is missing from what
\* counts against the charge, unless a row that counted was given up since.
OutsideRefundsStayWithinReturned ==
    /\ OnSubject <= Returned
    /\ AllQuiet /\ Live = DOMAIN batchRows => CountedAll >= Returned

\* 0075, eng_apply_refund: a refund the platform made is not recorded a second time.
PlatformRefundsCountOnce == AllQuiet /\ batchFaults = 0 => CountedAll <= Returned

\* The proof script of a member's refund: never past what is left of its share.
NeverPastItsShare == \A m \in Members : GivenTo(m) <= Share

=============================================================================
