------------------------------- MODULE Review -------------------------------
(***************************************************************************)
(* One file in front of the firm's engineers: taking it into review        *)
(* (openReview), deciding it (decideReview, canReview and the one          *)
(* transaction eng_record_review_decision, 0068) and crediting the reviews *)
(* the decision could not credit (creditUncreditedReviews), in             *)
(* src/lib/ops-engineer.ts and src/lib/ops-review.ts.                      *)
(*                                                                         *)
(* Every rule is judged in TypeScript over what earlier requests read; the *)
(* transaction judges again only the file's status and the unique indexes  *)
(* of 0004.  What is in between is what the two engineers, the two tabs of *)
(* one engineer and the technician do meanwhile.  A seal is a fact here    *)
(* (module Sealing has its steps), and the package is complete.            *)
(***************************************************************************)
EXTENDS Naturals, Sequences

CONSTANTS
    Engineers,    \* who holds the licence
    Nobody,       \* a file no engineer is assigned to
    Actions,      \* the review actions taken
    Invocations,  \* slots for requests being handled
    MaxSessions,  \* bound: review sessions
    MaxDecisions, \* bound: decisions
    MaxFaults     \* bound: stopped invocations and requests that fail

Target == [seal |-> "under_review",       \* the seal act moves it, not this
           revisions |-> "revisions_requested",
           site_visit |-> "needs_dispatch",
           repairs |-> "repairs_required",
           refuse |-> "refused"]

ASSUME ReviewAssumption ==
    /\ Nobody \notin Engineers
    /\ Actions \subseteq DOMAIN Target
    /\ MaxSessions \in Nat /\ MaxDecisions \in Nat /\ MaxFaults \in Nat

VARIABLES
    file,      \* the file's status
    assignee,  \* eng_files.assigned_engineer_id
    sessions,  \* eng_review_sessions, in the order they were opened
    decided,   \* the decisions: determination, charge log row and job of each
    ledger,    \* the review sessions eng_production_ledger has rows for
    sealed,    \* the decisions whose determination has a live seal act
    inv,       \* what each invocation is in the middle of
    faults     \* how many faults there have been

reviewVars == <<assignee, sessions, ledger, inv, faults>>
vars == <<file, decided, sealed, reviewVars>>

Statuses == {"evidence_submitted", "under_review", "revisions_requested",
             "needs_dispatch", "repairs_required", "refused", "sealed",
             "delivered"}
Steps == {"idle", "moving", "assigning", "opening", "guarding", "recording", "crediting"}

NoSession == 0
NoAction == "none"
IdleInv == [step |-> "idle", engineer |-> Nobody, action |-> NoAction,
            session |-> NoSession, list |-> {}]

ReviewInit ==
    /\ assignee = Nobody
    /\ sessions = <<>>
    /\ ledger = <<>>
    /\ inv = [i \in Invocations |-> IdleInv]
    /\ faults = 0

Init ==
    /\ file = "evidence_submitted"
    /\ decided = <<>>
    /\ sealed = {}
    /\ ReviewInit

Open(e) == {s \in DOMAIN sessions : sessions[s].engineer = e /\ ~sessions[s].ended}
\* The oldest open one; the index of 0004 leaves no more than one.
SessionOf(e) ==
    IF Open(e) = {} THEN NoSession ELSE CHOOSE s \in Open(e) : \A t \in Open(e) : s <= t
Logged(s) == \E d \in DOMAIN decided : decided[d].session = s
Credited(s) == \E k \in DOMAIN ledger : ledger[k] = s

Goto(i, step) == inv' = [inv EXCEPT ![i].step = step]
Return(i) == inv' = [inv EXCEPT ![i] = IdleInv]
Fault == faults < MaxFaults /\ faults' = faults + 1

-----------------------------------------------------------------------------

\* openReview up to its first write: another engineer's review is not opened,
\* and an open session of one's own is answered with.
BeginOpen(i, e) ==
    /\ inv[i] = IdleInv
    /\ file \in {"evidence_submitted", "under_review"}
    /\ ~(file = "under_review" /\ assignee \notin {Nobody, e})
    /\ Open(e) = {}
    /\ inv' = [inv EXCEPT ![i].engineer = e,
                          ![i].step = IF file = "under_review" THEN "opening" ELSE "moving"]
    /\ UNCHANGED <<file, decided, sealed, assignee, sessions, ledger, faults>>

\* transitionFile reads the status again and moves the file only from it, where
\* the grammar lets it be reviewed; otherwise openReview answers the refusal.
TakeIn(i) ==
    /\ inv[i].step = "moving"
    /\ IF file \in {"evidence_submitted", "revisions_requested"}
       THEN file' = "under_review" /\ Goto(i, "assigning")
       ELSE UNCHANGED file /\ Return(i)
    /\ UNCHANGED <<decided, sealed, assignee, sessions, ledger, faults>>

\* The assignee is a second request, by id, and nobody reads its answer.
Assign(i) ==
    /\ inv[i].step = "assigning"
    /\ \/ assignee' = inv[i].engineer /\ UNCHANGED faults
       \/ UNCHANGED assignee /\ Fault
    /\ Goto(i, "opening")
    /\ UNCHANGED <<file, decided, sealed, sessions, ledger>>

\* The session: the index refuses a second open one of the same engineer.
OpenSession(i) ==
    /\ inv[i].step = "opening"
    /\ IF Open(inv[i].engineer) = {} /\ Len(sessions) < MaxSessions
       THEN sessions' = Append(sessions, [engineer |-> inv[i].engineer,
                                          ended |-> FALSE, decision |-> NoAction])
       ELSE UNCHANGED sessions
    /\ Return(i)
    /\ UNCHANGED <<file, decided, sealed, assignee, ledger, faults>>

-----------------------------------------------------------------------------

\* decideReview's package: status, assignee and session as they stand now.
\* canReview judges these, so what it refuses of them is refused here.
BeginDecide(i, e, action) ==
    /\ inv[i] = IdleInv
    /\ file = "under_review"
    /\ assignee \in {Nobody, e}
    /\ inv' = [inv EXCEPT ![i] = [step |-> "guarding", engineer |-> e, action |-> action,
                                  session |-> SessionOf(e), list |-> {}]]
    /\ UNCHANGED <<file, decided, sealed, assignee, sessions, ledger, faults>>

UnsealedPass ==
    \E d \in DOMAIN decided : decided[d].action = "seal" /\ d \notin sealed

\* ONE DECISION AT A TIME: a pass still waiting for its seal refuses another.
OneDecisionAtATime(i) ==
    /\ inv[i].step = "guarding"
    /\ IF UnsealedPass THEN Return(i) ELSE Goto(i, "recording")
    /\ UNCHANGED <<file, decided, sealed, assignee, sessions, ledger, faults>>

\* What the transaction writes: one row each, and the credit if there is one.
Write(i, paid) ==
    LET run == inv[i] IN
    /\ Len(decided) < MaxDecisions
    /\ decided' = Append(decided, [action |-> run.action, engineer |-> run.engineer,
                                   session |-> run.session])
    /\ file' = Target[run.action]
    /\ sessions' = IF run.session = NoSession THEN sessions
                   ELSE [sessions EXCEPT ![run.session].ended = TRUE,
                                         ![run.session].decision = run.action]
    /\ ledger' = IF run.session # NoSession /\ paid THEN Append(ledger, run.session) ELSE ledger

\* MUTANT of RecordDecision: the file's status is not read again under the lock.
RecordStale(i) ==
    /\ inv[i].step = "recording"
    /\ \/ \E paid \in BOOLEAN : ~Logged(inv[i].session) /\ Write(i, paid)
       \/ Logged(inv[i].session) /\ UNCHANGED <<file, decided, sessions, ledger>>
    /\ Return(i)
    /\ UNCHANGED <<assignee, sealed, faults>>

\* MUTANT of RecordDecision: no unique index holds one log row per session.
RecordTwice(i) ==
    /\ inv[i].step = "recording"
    /\ \/ \E paid \in BOOLEAN : file = "under_review" /\ Write(i, paid)
       \/ file # "under_review" /\ UNCHANGED <<file, decided, sessions, ledger>>
    /\ Return(i)
    /\ UNCHANGED <<assignee, sealed, faults>>

\* eng_record_review_decision: all of it or none.  It locks the file and looks
\* at its status again; eng_rcl_once_per_review refuses a session's second row.
RecordDecision(i) ==
    LET refused == \/ file # "under_review"
                   \/ inv[i].session # NoSession /\ Logged(inv[i].session)
    IN
    /\ inv[i].step = "recording"
    /\ \/ ~refused /\ \E paid \in BOOLEAN : Write(i, paid)
       \/ refused /\ UNCHANGED <<file, decided, sessions, ledger>>
    /\ Return(i)
    /\ UNCHANGED <<assignee, sealed, faults>>

-----------------------------------------------------------------------------

Uncredited ==
    {s \in DOMAIN sessions : sessions[s].decision # NoAction /\ ~Credited(s)}

\* creditUncreditedReviews: the list is read, then credited a row at a time.
BeginCredit(i) ==
    /\ inv[i] = IdleInv
    /\ Uncredited # {}
    /\ inv' = [inv EXCEPT ![i].step = "crediting", ![i].list = Uncredited]
    /\ UNCHANGED <<file, decided, sealed, assignee, sessions, ledger, faults>>

\* MUTANT of CreditOne: no unique index on the ledger's review session.
CreditOneTwice(i) ==
    /\ inv[i].step = "crediting"
    /\ \E s \in inv[i].list :
          /\ ledger' = Append(ledger, s)
          /\ IF inv[i].list = {s} THEN Return(i)
             ELSE inv' = [inv EXCEPT ![i].list = @ \ {s}]
    /\ UNCHANGED <<file, decided, sealed, assignee, sessions, faults>>

\* A duplicate key is passed over: somebody credited it since the list was read.
CreditOne(i) ==
    /\ inv[i].step = "crediting"
    /\ \E s \in inv[i].list :
          /\ ledger' = IF Credited(s) THEN ledger ELSE Append(ledger, s)
          /\ IF inv[i].list = {s} THEN Return(i)
             ELSE inv' = [inv EXCEPT ![i].list = @ \ {s}]
    /\ UNCHANGED <<file, decided, sealed, assignee, sessions, faults>>

\* A process stops, or a request fails, and nothing after it is done.
Stop(i) ==
    /\ inv[i] # IdleInv
    /\ Fault
    /\ Return(i)
    /\ UNCHANGED <<file, decided, sealed, assignee, sessions, ledger>>

-----------------------------------------------------------------------------

\* New evidence: field work brings a file that was sent back, to be taken again.
Resubmit ==
    /\ file \in {"revisions_requested", "needs_dispatch", "repairs_required"}
    /\ file' = "evidence_submitted"
    /\ UNCHANGED <<decided, sealed, reviewVars>>

\* By hand on the Files screen: the engineer pushes the file back out of review.
PushBack ==
    /\ file = "under_review"
    /\ file' = "evidence_submitted"
    /\ UNCHANGED <<decided, sealed, reviewVars>>

\* A letter is sealed, and delivered where the grammar lets it, or voided again.
SealFact(d) ==
    /\ decided[d].action \in {"seal", "refuse"} /\ d \notin sealed
    /\ sealed' = sealed \cup {d}
    /\ file' = IF file \in {"under_review", "refused"} THEN "delivered" ELSE file
    /\ UNCHANGED <<decided, reviewVars>>
VoidFact(d) ==
    /\ d \in sealed
    /\ sealed' = sealed \ {d}
    /\ UNCHANGED <<file, decided, reviewVars>>

InvocationSteps(i) ==
    \/ \E e \in Engineers : BeginOpen(i, e)
    \/ \E e \in Engineers, action \in Actions : BeginDecide(i, e, action)
    \/ BeginCredit(i)
    \/ TakeIn(i) \/ Assign(i) \/ OpenSession(i)
    \/ OneDecisionAtATime(i) \/ RecordDecision(i) \/ CreditOne(i) \/ Stop(i)

ReviewNext == (\E i \in Invocations : InvocationSteps(i)) \/ Resubmit \/ PushBack
SealNext == \E d \in DOMAIN decided : SealFact(d) \/ VoidFact(d)
Next == ReviewNext \/ SealNext
Spec == Init /\ [][Next]_vars

-----------------------------------------------------------------------------

SessionRow == [engineer : Engineers, ended : BOOLEAN, decision : Actions \cup {NoAction}]
Decision == [action : Actions, engineer : Engineers, session : Nat]
Invocation == [step : Steps, engineer : Engineers \cup {Nobody},
               action : Actions \cup {NoAction}, session : Nat, list : SUBSET Nat]

\* Every variable has its type, and what names a session names one there is.
ReviewTypeOK ==
    /\ file \in Statuses
    /\ assignee \in Engineers \cup {Nobody}
    /\ sessions \in Seq(SessionRow)
    /\ decided \in Seq(Decision)
    /\ \A d \in DOMAIN decided : decided[d].session \in DOMAIN sessions \cup {NoSession}
    /\ ledger \in Seq(Nat)
    /\ \A k \in DOMAIN ledger : ledger[k] \in DOMAIN sessions
    /\ sealed \subseteq DOMAIN decided
    /\ inv \in [Invocations -> Invocation]
    /\ \A i \in Invocations : /\ inv[i].session \in DOMAIN sessions \cup {NoSession}
                              /\ inv[i].list \subseteq DOMAIN sessions
    /\ faults \in Nat

\* The review clock and the regulatory log tell one story: a session that ended
\* has exactly one row of the log, by its engineer, with its decision; one that
\* did not has none.  Two tabs deciding at once race for the same session.
SessionAndLogAgree ==
    \A s \in DOMAIN sessions :
       LET rows == {d \in DOMAIN decided : decided[d].session = s} IN
       IF sessions[s].ended
       THEN \E d \in rows : /\ rows = {d}
                            /\ decided[d].action = sessions[s].decision
                            /\ decided[d].engineer = sessions[s].engineer
       ELSE rows = {} /\ sessions[s].decision = NoAction

\* A review is paid once: a decision's own credit and two people fixing the
\* record late leave one ledger row, of a review that was decided.
CreditedOnce ==
    /\ \A j, k \in DOMAIN ledger : ledger[j] = ledger[k] => j = k
    /\ \A k \in DOMAIN ledger : sessions[ledger[k]].ended

\* A refused file never returns to review: what foundation-decline-rules.ts
\* rests its answer to "letter or refund" on.
RefusedNeverReturns == [][file = "refused" => file' \in {"refused", "sealed", "delivered"}]_vars

\* decideReview: a second decision on top of an unsealed pass is refused.
NoDecisionOverUnsealedPass == [][decided' # decided => ~UnsealedPass]_vars

\* canReview: a file is decided by the engineer it is assigned to.
DecidedByItsAssignee ==
    [][decided' # decided => assignee \in {Nobody, decided'[Len(decided')].engineer}]_vars

=============================================================================
