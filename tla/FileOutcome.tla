---------------------------- MODULE FileOutcome -----------------------------
(***************************************************************************)
(* What becomes of a reviewed file and its order: Review and Sealing over  *)
(* one file, and the job a decision queues (review.after_decision, in      *)
(* src/lib/job-handlers.ts), which refunds a refused order.  Review's seal *)
(* is Sealing's live act, and Sealing's determinations are Review's        *)
(* decisions.  The refund itself is module RefundLedger's.                 *)
(***************************************************************************)
EXTENDS Review

CONSTANTS
    Sealers,  \* slots for the requests that seal and void
    MaxActs,  \* bound: seal acts
    Names     \* bound: names PDFs are stored under

ASSUME OutcomeAssumption == MaxActs \in Nat /\ Names \subseteq Nat \ {0}

VARIABLES
    acts, voided, pdfs, order, told, noticed, seal, sealFaults, givenUp, slipped,  \* Sealing's
    foundation, \* whether the file is worked to 254-FC-001
    job,      \* how far the job each decision queued has come
    refunds,  \* how many refunds of the order refusals wrote down
    crossed   \* history: the file was decided, pushed back or its letter voided
              \* while the order waited to be settled for a letter

sealOnly == <<acts, voided, pdfs, order, told, noticed, seal, sealFaults, givenUp, slipped>>
outcomeVars == <<vars, sealOnly, foundation, job, refunds, crossed>>

reviewButFaults == <<file, decided, sealed, assignee, sessions, ledger, inv>>

JobSteps == {"waiting", "counting", "reserving", "refunding", "telling", "done"}

\* What a decision's determination is to a letter.
KindOf(action) ==
    CASE action = "seal" -> "pass"
      [] action = "repairs" -> "repairs"
      [] action = "refuse" /\ foundation -> "decline"
      [] OTHER -> "none"

S == INSTANCE Sealing WITH
        Kinds <- {"pass", "decline", "repairs", "none"},
        Invocations <- Sealers,
        MaxDets <- MaxDecisions,
        faults <- sealFaults,
        dets <- [d \in DOMAIN decided |-> KindOf(decided[d].action)]

OutcomeInit ==
    /\ Init /\ S!SealingInit
    /\ foundation \in BOOLEAN
    /\ job = [d \in 1..MaxDecisions |-> "waiting"]
    /\ refunds = 0 /\ crossed = FALSE

\* A first letter whose request has yet to settle the order.
OnItsWay(i) ==
    /\ seal[i].step \in {"noticing", "sealing", "delivering", "settling"}
    /\ acts[seal[i].act].replaces = S!NoAct
    /\ S!Delivers(seal[i].det)

\* A decision the order is still to be settled for: its letter delivers, and is
\* not sealed yet or on its way.
Awaited(d) ==
    /\ S!Delivers(d)
    /\ ~S!Sealed(d) \/ \E i \in Sealers : OnItsWay(i) /\ seal[i].det = d

SomeAwaited == \E d \in DOMAIN decided : Awaited(d)

-----------------------------------------------------------------------------

\* MUTANT of LettersInsteadOfRefund: as before F12, nobody asks the decisions.
NeverLettersInstead == FALSE

\* lettersInsteadOfRefund: the file's determinations hold a 254-FC-001 decline.
LettersInsteadOfRefund ==
    \E d \in DOMAIN decided : KindOf(decided[d].action) = "decline"

JobGoto(d, step) == job' = [job EXCEPT ![d] = step]

\* review.after_decision of a refusal asks the file's determinations first: where a
\* letter answers it, nothing is refunded; nor where the order cannot be read.
AskDeterminations(d) ==
    /\ decided[d].action = "refuse" /\ job[d] = "waiting"
    /\ \/ JobGoto(d, IF LettersInsteadOfRefund THEN "telling" ELSE "counting")
          /\ UNCHANGED faults
       \/ ~LettersInsteadOfRefund /\ Fault /\ JobGoto(d, "telling")
    /\ UNCHANGED <<reviewButFaults, sealOnly, foundation, refunds, crossed>>

\* MUTANT of CountRefunds: a run does not ask what an earlier one did.
CountNothing(d) ==
    /\ job[d] = "counting"
    /\ JobGoto(d, "reserving")
    /\ UNCHANGED <<vars, sealOnly, foundation, refunds, crossed>>

\* Then whether the order has a refund on file, whatever became of it.
CountRefunds(d) ==
    /\ job[d] = "counting"
    /\ JobGoto(d, IF refunds > 0 THEN "telling" ELSE "reserving")
    /\ UNCHANGED <<vars, sealOnly, foundation, refunds, crossed>>

\* settleDecision("refuse") writes the refund down before it asks for it, where
\* there is one to make and the row goes in; else the office is told instead.
ReserveRefund(d) ==
    /\ job[d] = "reserving"
    /\ \/ refunds' = refunds + 1 /\ JobGoto(d, "refunding")
       \/ UNCHANGED refunds /\ JobGoto(d, "telling")
    /\ UNCHANGED <<vars, sealOnly, foundation, crossed>>

\* The provider refunds and the order, complete or not, is refunded; or it refuses,
\* which is told to the office and not tried again.
Refund(d) ==
    /\ job[d] = "refunding"
    /\ order' \in {order, "refunded"}
    /\ JobGoto(d, "telling")
    /\ UNCHANGED <<vars, acts, voided, pdfs, told, noticed, seal, sealFaults, givenUp, slipped,
                   foundation, refunds, crossed>>

\* The administrators are told, and the job is done.
TellAdmins(d) ==
    /\ job[d] = "telling"
    /\ JobGoto(d, "done")
    /\ UNCHANGED <<vars, sealOnly, foundation, refunds, crossed>>

\* Its worker stops, or a read fails, and the queue runs it again from the start.
RunAgain(d) ==
    /\ job[d] \notin {"waiting", "done"}
    /\ Fault
    /\ JobGoto(d, "waiting")
    /\ UNCHANGED <<reviewButFaults, sealOnly, foundation, refunds, crossed>>

JobStep(d) ==
    \/ AskDeterminations(d) \/ CountRefunds(d) \/ ReserveRefund(d) \/ Refund(d)
    \/ TellAdmins(d) \/ RunAgain(d)

-----------------------------------------------------------------------------

\* A step of the review; what decides the file or pushes it back crosses a letter
\* that is awaited.
ReviewStep ==
    /\ UNCHANGED <<sealOnly, foundation, job, refunds>>
    /\ \/ /\ \E i \in Invocations : InvocationSteps(i)
          /\ crossed' = (crossed \/ (decided' # decided /\ SomeAwaited))
       \/ Resubmit /\ UNCHANGED crossed
       \/ PushBack /\ crossed' = (crossed \/ SomeAwaited)

\* A step of the letters, and what it makes of the decisions that have one; what
\* voids a first letter on its way crosses it.
SealStep ==
    /\ UNCHANGED <<decided, reviewVars, foundation, job, refunds>>
    /\ S!SealingNext
    /\ sealed' = {d \in DOMAIN decided : S!LiveFor(d)'}
    /\ crossed' = (crossed \/ \E i \in Sealers : /\ OnItsWay(i) /\ S!IsLive(seal[i].act)
                                                  /\ \E k \in DOMAIN voided' : voided'[k] = seal[i].act)

OutcomeNext == ReviewStep \/ SealStep \/ (\E d \in DOMAIN decided : JobStep(d))
OutcomeSpec == OutcomeInit /\ [][OutcomeNext]_outcomeVars

-----------------------------------------------------------------------------

\* job-handlers.ts: a refusal is answered by a letter or by a refund: the money
\* of a file whose letter was settled as sealed work is not given back.
RefundOrLetter == ~(refunds > 0 /\ told # <<>>)

\* So it is, and one determination of the file is settled, whatever was decided,
\* sealed, voided and sealed again in requests and jobs that overlap and stop,
\* unless one of them crossed a letter the order waited for.
OneOutcomeUnlessCrossed ==
    crossed \/ slipped # {} \/ (RefundOrLetter /\ Len(told) <= 1)

\* A refusal is refunded once, however often its job is run again, even from
\* between the refund and its last word.
RefusedMoneyGoesBackOnce == refunds <= 1

=============================================================================
