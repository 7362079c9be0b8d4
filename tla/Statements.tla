----------------------------- MODULE Statements -----------------------------
(***************************************************************************)
(* Work on account: an invoiced submission and the credit it is placed on  *)
(* (placeBatch, accountBalance and creditDecision in src/lib/ops-bulk.ts   *)
(* and account-credit.ts, acceptOnInvoice in ops-payments.ts), and the     *)
(* statement it is billed on: closed, issued, and paid by card             *)
(* (closePeriod, issueStatement, startStatementCheckout, markStatementPaid *)
(* in ops-statements.ts, eng_apply_statement_paid in 0075).                *)
(*                                                                         *)
(* One account.  Every order costs one unit.  Nothing else moves an        *)
(* invoiced order that has not been billed: it has no checkout to expire   *)
(* and no charge to refund.                                                *)
(***************************************************************************)
EXTENDS Naturals, FiniteSetsExt

CONSTANTS
    Orders,     \* the orders the account may place
    Periods,    \* the periods it is billed for
    NoPeriod,   \* the statement of an order not on one
    Limit,      \* the credit agreed
    Tasks,      \* slots for requests, jobs and webhook deliveries
    MaxFaults   \* bound: requests stopped, writes that fail unread

ASSUME StatementAssumption ==
    /\ IsFiniteSet(Orders) /\ IsFiniteSet(Periods)
    /\ NoPeriod \notin Periods
    /\ Limit \in Nat /\ MaxFaults \in Nat

VARIABLES
    working,  \* the orders accepted on the account
    billedOn, \* each order's statement_id
    status,   \* each period's statement, "none" before there is one
    lines,    \* the orders a statement has a line for
    total,    \* its total_cents
    session,  \* its checkout at Stripe, and the amount of it
    done,     \* the payments eng_payment_events has finished with
    task,     \* what each request is in the middle of
    history,  \* history: what has overlapped, and what was added late
    faults

statements == <<status, lines, total>>
vars == <<working, billedOn, statements, session, done, task, history, faults>>

StatementStatuses == {"none", "open", "issued", "paid"}
NoSession == [state |-> "none", amount |-> 0]
Steps == {"idle", "weighing", "accepting", "opening", "gathering", "lining", "claiming",
          "totalling", "heading", "issuing", "checking", "paying"}

Idle == [step |-> "idle", of |-> NoPeriod, todo |-> {}, now |-> {}, saw |-> 0, seen |-> "none"]
Begin(i, t) == task' = [task EXCEPT ![i] = t]
Stop(i) == Begin(i, Idle)
Goto(i, step) == task' = [task EXCEPT ![i].step = step]
Fault == faults < MaxFaults /\ faults' = faults + 1

Placing(i) == task[i].step \in {"weighing", "accepting"}
Closing(i) == task[i].step \in {"opening", "gathering", "lining", "claiming", "totalling", "heading"}

Unbilled == {o \in working : billedOn[o] = NoPeriod}
Placed == UNION {task[i].todo : i \in {j \in Tasks : task[j].step = "accepting"}}

\* MUTANT of Owed: a statement counts once it is issued.
OwedIssued == {"issued"}

\* OWED_STATEMENT_STATUSES: a closed period counts before it is issued.
Owed == {"open", "issued"}

Billed == MapThenSumSet(LAMBDA p : total[p], {p \in Periods : status[p] \in Owed})

Init ==
    /\ working = {}
    /\ billedOn = [o \in Orders |-> NoPeriod]
    /\ status = [p \in Periods |-> "none"]
    /\ lines = [p \in Periods |-> {}]
    /\ total = [p \in Periods |-> 0]
    /\ session = [p \in Periods |-> NoSession]
    /\ done = {}
    /\ task = [i \in Tasks |-> Idle]
    /\ history = {}
    /\ faults = 0

-----------------------------------------------------------------------------

\* placeBatch: the balance is two reads, what is on a statement and then what is
\* not, and the decision.  Its orders are placed and joined one by one, which
\* counts for nothing until each is accepted.
Submit(i) ==
    /\ task[i] = Idle
    /\ Begin(i, [Idle EXCEPT !.step = "weighing", !.saw = Billed])
    /\ history' = IF \E j \in Tasks : Placing(j) \/ Closing(j) THEN history \cup {"blurred"} ELSE history
    /\ UNCHANGED <<working, billedOn, statements, session, done, faults>>

DecideCredit(i) ==
    /\ task[i].step = "weighing"
    /\ \E S \in (SUBSET (Orders \ (working \cup Placed))) \ {{}} :
          IF task[i].saw + Cardinality(Unbilled) + Cardinality(S) > Limit
          THEN Stop(i)
          ELSE Begin(i, [Idle EXCEPT !.step = "accepting", !.todo = S])
    /\ UNCHANGED <<working, billedOn, statements, session, done, history, faults>>

\* acceptOnInvoice, whose answer is not read; the last one ends the submission.
AcceptOnInvoice(i, o) ==
    /\ task[i].step = "accepting" /\ o \in task[i].todo
    /\ working' = working \cup {o}
    /\ IF task[i].todo = {o} THEN Stop(i) ELSE Begin(i, [task[i] EXCEPT !.todo = @ \ {o}])
    /\ UNCHANGED <<billedOn, statements, session, done, history, faults>>

-----------------------------------------------------------------------------

\* closePeriod: an issued statement is closed; an open one, or a new one, takes the
\* orders no statement has.
Close(i, p) ==
    /\ task[i] = Idle
    /\ status[p] \in {"none", "open"}
    /\ Begin(i, [Idle EXCEPT !.step = IF status[p] = "none" THEN "opening" ELSE "gathering", !.of = p])
    /\ history' = history
          \cup (IF \E j \in Tasks : Placing(j) THEN {"blurred"} ELSE {})
          \cup (IF \E j \in Tasks : Closing(j) /\ task[j].of # p THEN {"crossed"} ELSE {})
          \cup (IF \E j \in Tasks : Closing(j) /\ task[j].of = p THEN {"together"} ELSE {})
    /\ UNCHANGED <<working, billedOn, statements, session, done, faults>>

\* One statement for a period: another close may have opened it a moment ago, and
\* then that one is used unless it has been issued since.
OpenStatement(i) ==
    LET p == task[i].of IN
    /\ task[i].step = "opening"
    /\ status' = [status EXCEPT ![p] = IF @ = "none" THEN "open" ELSE @]
    /\ IF status[p] \in {"none", "open"} THEN Goto(i, "gathering") ELSE Stop(i)
    /\ UNCHANGED <<working, billedOn, lines, total, session, done, history, faults>>

\* MUTANT of Gather: everything accepted is gathered.
GatherAll(i) ==
    /\ task[i].step = "gathering"
    /\ Begin(i, [task[i] EXCEPT !.step = "lining", !.todo = working])
    /\ UNCHANGED <<working, billedOn, statements, session, done, history, faults>>

Gather(i) ==
    /\ task[i].step = "gathering"
    /\ Begin(i, [task[i] EXCEPT !.step = "lining", !.todo = Unbilled])
    /\ UNCHANGED <<working, billedOn, statements, session, done, history, faults>>

\* A line for each, once; a line that fails leaves its order for another close.
AddLine(i) ==
    LET p == task[i].of IN
    /\ task[i].step = "lining"
    /\ IF task[i].todo = {}
       THEN Goto(i, "totalling") /\ UNCHANGED <<lines, history, faults>>
       ELSE \E o \in task[i].todo :
            \/ /\ lines' = [lines EXCEPT ![p] = @ \cup {o}]
               /\ history' = IF o \notin lines[p] /\ status[p] # "open" THEN history \cup {"late"} ELSE history
               /\ Begin(i, [task[i] EXCEPT !.step = "claiming", !.now = {o}, !.todo = @ \ {o}])
               /\ UNCHANGED faults
            \/ /\ Begin(i, [task[i] EXCEPT !.todo = @ \ {o}]) /\ Fault
               /\ UNCHANGED <<lines, history>>
    /\ UNCHANGED <<working, billedOn, status, total, session, done>>

\* The order is claimed for it, by an update that is not read.
ClaimOrder(i) ==
    /\ task[i].step = "claiming"
    /\ \/ /\ billedOn' = [o \in Orders |-> IF o \in task[i].now THEN task[i].of ELSE billedOn[o]]
          /\ UNCHANGED faults
       \/ UNCHANGED billedOn /\ Fault
    /\ Begin(i, [task[i] EXCEPT !.step = "lining", !.now = {}])
    /\ UNCHANGED <<working, statements, session, done, history>>

\* The total is read from the lines, and then written.
TotalLines(i) ==
    /\ task[i].step = "totalling"
    /\ Begin(i, [task[i] EXCEPT !.step = "heading", !.saw = Cardinality(lines[task[i].of])])
    /\ UNCHANGED <<working, billedOn, statements, session, done, history, faults>>

\* MUTANT of WriteTotal: the close adds its sum to what is there.
WriteTotalAdded(i) ==
    /\ task[i].step = "heading"
    /\ total' = [total EXCEPT ![task[i].of] = @ + task[i].saw]
    /\ Stop(i)
    /\ UNCHANGED <<working, billedOn, status, lines, session, done, history, faults>>

WriteTotal(i) ==
    /\ task[i].step = "heading"
    /\ total' = [total EXCEPT ![task[i].of] = task[i].saw]
    /\ Stop(i)
    /\ UNCHANGED <<working, billedOn, status, lines, session, done, history, faults>>

-----------------------------------------------------------------------------

\* MUTANT of Issuable: a statement is issued again.
IssuableAgain(p) == status[p] # "none" /\ total[p] > 0

\* issuableStatement: an open statement with something on it.
Issuable(p) == status[p] = "open" /\ total[p] > 0

Issue(i, p) ==
    /\ task[i] = Idle
    /\ Issuable(p)
    /\ Begin(i, [Idle EXCEPT !.step = "issuing", !.of = p])
    /\ history' = IF \E j \in Tasks : task[j].step = "issuing" /\ task[j].of = p
                  THEN history \cup {"doubled"} ELSE history
    /\ UNCHANGED <<working, billedOn, statements, session, done, faults>>

\* issueStatement: the status, whatever it has become meanwhile.
WriteIssued(i) ==
    /\ task[i].step = "issuing"
    /\ status' = [status EXCEPT ![task[i].of] = "issued"]
    /\ Stop(i)
    /\ UNCHANGED <<working, billedOn, lines, total, session, done, history, faults>>

-----------------------------------------------------------------------------

\* startStatementCheckout: an issued statement, and its total.
StartCheckout(i, p) ==
    /\ task[i] = Idle
    /\ status[p] = "issued"
    /\ Begin(i, [Idle EXCEPT !.step = "checking", !.of = p, !.saw = total[p]])
    /\ UNCHANGED <<working, billedOn, statements, session, done, history, faults>>

\* MUTANT of CreateCheckout: the total is charged unchecked.
CreateCheckoutUnchecked(i) ==
    LET p == task[i].of IN
    /\ task[i].step = "checking"
    /\ session' = IF session[p] = NoSession
                  THEN [session EXCEPT ![p] = [state |-> "open", amount |-> task[i].saw]]
                  ELSE session
    /\ Stop(i)
    /\ UNCHANGED <<working, billedOn, statements, done, history, faults>>

\* Its lines, which must add up to that total, and a checkout of it.  The key names
\* the statement: the same request gets the same session, and one for another
\* amount is refused until the first has expired.
CreateCheckout(i) ==
    LET p == task[i].of IN
    /\ task[i].step = "checking"
    /\ session' = IF task[i].saw = Cardinality(lines[p]) /\ session[p] = NoSession
                  THEN [session EXCEPT ![p] = [state |-> "open", amount |-> task[i].saw]]
                  ELSE session
    /\ Stop(i)
    /\ UNCHANGED <<working, billedOn, statements, done, history, faults>>

Pay(p) ==
    /\ session[p].state = "open"
    /\ session' = [session EXCEPT ![p].state = "paid"]
    /\ UNCHANGED <<working, billedOn, statements, done, task, history, faults>>

\* A day later; nothing is written of a statement's checkout that expires.
Expire(p) ==
    /\ session[p].state = "open"
    /\ session' = [session EXCEPT ![p] = NoSession]
    /\ UNCHANGED <<working, billedOn, statements, done, task, history, faults>>

\* markStatementPaid reads the statement, and the payment is recorded under that
\* status, once; a statement that moved raises, and Stripe resends.
Receive(i, p) ==
    /\ task[i] = Idle
    /\ session[p].state = "paid" /\ p \notin done
    /\ Begin(i, [Idle EXCEPT !.step = "paying", !.of = p, !.seen = status[p]])
    /\ UNCHANGED <<working, billedOn, statements, session, done, history, faults>>

ApplyPaid(i) ==
    LET p == task[i].of IN
    /\ task[i].step = "paying"
    /\ IF p \in done \/ status[p] # task[i].seen
       THEN UNCHANGED <<status, done>>
       ELSE status' = [status EXCEPT ![p] = "paid"] /\ done' = done \cup {p}
    /\ Stop(i)
    /\ UNCHANGED <<working, billedOn, lines, total, session, history, faults>>

\* A request or a job stops between two awaits.
Kill(i) ==
    /\ task[i] # Idle
    /\ Fault
    /\ Stop(i)
    /\ history' = IF Closing(i) THEN history \cup {"blurred"} ELSE history
    /\ UNCHANGED <<working, billedOn, statements, session, done>>

Next ==
    \/ \E i \in Tasks :
         \/ Submit(i) \/ DecideCredit(i) \/ \E o \in Orders : AcceptOnInvoice(i, o)
         \/ \E p \in Periods : Close(i, p) \/ Issue(i, p) \/ StartCheckout(i, p) \/ Receive(i, p)
         \/ OpenStatement(i) \/ Gather(i) \/ AddLine(i) \/ ClaimOrder(i)
         \/ TotalLines(i) \/ WriteTotal(i)
         \/ WriteIssued(i) \/ CreateCheckout(i) \/ ApplyPaid(i) \/ Kill(i)
    \/ \E p \in Periods : Pay(p) \/ Expire(p)

Spec == Init /\ [][Next]_vars

-----------------------------------------------------------------------------

\* Every record keeps its shape, and no statement bills work that was not accepted.
StatementsTypeOK ==
    /\ working \subseteq Orders
    /\ billedOn \in [Orders -> Periods \cup {NoPeriod}]
    /\ status \in [Periods -> StatementStatuses]
    /\ total \in [Periods -> 0..Cardinality(Orders)]
    /\ \A p \in Periods :
          /\ lines[p] \subseteq working
          /\ status[p] = "none" => lines[p] = {} /\ total[p] = 0
          /\ session[p].state \in {"none", "open", "paid"}
    /\ done \subseteq Periods
    /\ \A i \in Tasks : task[i].step \in Steps /\ task[i].todo \subseteq Orders
    /\ history \subseteq {"blurred", "crossed", "together", "doubled", "late"}
    /\ faults \in 0..MaxFaults

BilledTwice == \E o \in Orders, p, q \in Periods : p # q /\ o \in lines[p] /\ o \in lines[q]

\* No order is billed on two statements, however often its period is closed and by
\* how many at once, unless closes of two periods overlapped or one was cut short.
BilledOnceUnlessCrossed == "crossed" \notin history /\ faults = 0 => ~BilledTwice

\* What the customer was charged for a statement is what is printed on it, unless a
\* close that had begun before it was issued added to it after; and a statement whose
\* charge is on file is never a bill again, unless two jobs issued it.
ChargedIsPrintedAndPaid ==
    \A p \in done :
        /\ "late" \notin history => session[p].amount = Cardinality(lines[p])
        /\ "doubled" \notin history => status[p] = "paid"

\* The account never owes more than its limit, unless submissions were weighed
\* while another was being placed or a close was under way, or one was cut short.
Outstanding == Cardinality({o \in working : ~\E p \in done : o \in lines[p]})
WithinLimitUnlessBlurred ==
    "blurred" \notin history /\ faults = 0 /\ "crossed" \notin history => Outstanding <= Limit

\* ops-statements.ts, closePeriod: orders are claimed by setting statement_id, which
\* is the lock.
BilledOnce == ~BilledTwice

\* ops-statements.ts, closePeriod: an issued statement is closed.
IssuedIsClosed ==
    [][\A p \in Periods : status[p] = "issued" => lines'[p] = lines[p] /\ total'[p] = total[p]]_vars

\* ops-statements.ts, closePeriod: a close that ran twice cannot leave a header that
\* disagrees with what is printed beneath it.
HeaderAgrees ==
    faults = 0 /\ (\A i \in Tasks : ~Closing(i)) => \A p \in Periods : total[p] = Cardinality(lines[p])

\* So it is unless two closes of the period overlapped: the figure the customer is
\* sent is the sum of the lines, however many closes each added to them.
HeaderAgreesUnlessTogether == "together" \notin history => HeaderAgrees

\* ops-bulk.ts, accountBalance: the credit gate may never read low; a closed period
\* counts before it is issued.
WithinLimit == Outstanding <= Limit

=============================================================================
