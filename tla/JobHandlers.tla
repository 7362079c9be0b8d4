---------------------------- MODULE JobHandlers -----------------------------
(***************************************************************************)
(* The job queue running its two handlers that reach a person's inbox:     *)
(* email.send and notification.deliver (src/lib/job-handlers.ts), with the *)
(* mail provider (Resend, through src/lib/notify.ts) as an external party. *)
(*                                                                         *)
(* A row's key says which handler runs it.  An email is one row: it        *)
(* carries the idempotency key email-job-<id> to the provider, which keeps *)
(* keys for a limited time, and is stamped with the provider's message id. *)
(* A notification is one row of eng_notifications, which is its key here,  *)
(* and is stamped with emailed_at.                                         *)
(***************************************************************************)
EXTENDS JobQueue

CONSTANTS
    EmailKeys,   \* keys of email.send
    NoticeKeys,  \* keys of notification.deliver: the notifications themselves
    Suppressed,  \* keys whose jobs may reach nobody (effect_mode, a fixture)
    MaxSlips     \* bound: answers and stamps lost between us and the provider

ASSUME JobHandlersAssumption ==
    /\ Keys = EmailKeys \cup NoticeKeys
    /\ EmailKeys \cap NoticeKeys = {}
    /\ Jobs \cap Keys = {}
    /\ Suppressed \subseteq Keys
    /\ MaxSlips \in Nat

VARIABLES
    run,      \* the handler each worker is inside of
    seen,     \* the rows whose claim came back with sentMessageId on the payload
    stamped,  \* the rows stamped with sentMessageId, the keys with emailed_at
    sent,     \* how many messages the provider has delivered, per row or key
    kept,     \* the rows whose idempotency key the provider still remembers
    slips,    \* how many answers and stamps have been lost
    unstamped \* history: how many accepted sends of a row got no stamp

mail == <<sent, kept, unstamped>>

handlerVars == <<run, seen, stamped, mail, slips>>

hvars == <<vars, handlerVars>>

\* A worker outside of any handler, and inside one at a step of it.
Resting == [step |-> "resting"]
At(step, c) == [step |-> step, claim |-> c]
Ended(c, outcome) == [step |-> "ended", claim |-> c, outcome |-> outcome]

KeyOf(c) == job[c.job].key

\* What a claim is about: the row for an email, the notification for a notice.
Subject(c) == IF KeyOf(c) \in EmailKeys THEN c.job ELSE KeyOf(c)

HandlersInit ==
    /\ Init
    /\ run = [w \in Workers |-> Resting]
    /\ seen = [w \in Workers |-> {}]
    /\ stamped = {}
    /\ sent = [s \in Jobs \cup NoticeKeys |-> 0]
    /\ kept = {}
    /\ slips = 0
    /\ unstamped = [j \in Jobs |-> 0]

\* A claim returns each row whole, with the stamp its payload has at that time.
ClaimRows(w) ==
    /\ run[w] = Resting
    /\ ClaimBatch(w)
    /\ seen' = [seen EXCEPT ![w] = {c.job : c \in batch'[w]} \cap stamped]
    /\ UNCHANGED <<run, stamped, mail, slips>>

\* Mutants: a notice that does not look at emailed_at, and an email that does not
\* look at its stamp.
AlreadySentEmail(w, c) == KeyOf(c) \in EmailKeys /\ c.job \in seen[w]
AlreadySentNotice(w, c) == KeyOf(c) \in NoticeKeys /\ KeyOf(c) \in stamped

\* An email reads its stamp off the claimed row; a notice reads emailed_at now.
AlreadySent(w, c) ==
    IF KeyOf(c) \in EmailKeys THEN c.job \in seen[w] ELSE KeyOf(c) \in stamped

\* The handler up to its send: it may have nothing to do, or nobody to send to.
Begin(w, c) ==
    /\ run[w] = Resting
    /\ c \in batch[w]
    /\ \/ /\ AlreadySent(w, c) \/ KeyOf(c) \in Suppressed
          /\ run' = [run EXCEPT ![w] = Ended(c, "done")]
       \/ /\ ~(AlreadySent(w, c) \/ KeyOf(c) \in Suppressed)
          /\ run' = [run EXCEPT ![w] = At("sending", c)]
       \/ /\ ~(AlreadySent(w, c) \/ KeyOf(c) \in Suppressed)
          /\ run' = [run EXCEPT ![w] = Ended(c, "fatal")]
    /\ UNCHANGED <<vars, seen, stamped, mail, slips>>

\* The provider takes a message.  A send that carries a key it still remembers
\* is answered with the first message; a notice carries none.
Deliver(c) ==
    IF KeyOf(c) \in EmailKeys /\ c.job \in kept
    THEN UNCHANGED <<sent, kept>>
    ELSE /\ sent' = [sent EXCEPT ![Subject(c)] = @ + 1]
         /\ kept' = IF KeyOf(c) \in EmailKeys THEN kept \cup {c.job} ELSE kept

\* An email accepted by the provider, and no stamp will say so.
LeaveUnstamped(c) ==
    unstamped' = IF KeyOf(c) \in EmailKeys
                 THEN [unstamped EXCEPT ![c.job] = @ + 1] ELSE unstamped

\* The provider forgets a key.  It keeps one for about a day, an invocation is
\* over in minutes: the claims taken before the send are over by then.
Forget(j) ==
    /\ j \in kept
    /\ \A w \in Workers : \A c \in batch[w] : c.job # j
    /\ kept' = kept \ {j}
    /\ UNCHANGED <<vars, run, seen, stamped, sent, slips, unstamped>>

SendAccepted(w) ==
    /\ run[w].step = "sending"
    /\ Deliver(run[w].claim)
    /\ run' = [run EXCEPT ![w] = At("stamping", @.claim)]
    /\ UNCHANGED <<vars, seen, stamped, slips, unstamped>>

\* The provider took it and its answer was lost: notify reports an error.
SendAnswerLost(w) ==
    /\ run[w].step = "sending"
    /\ slips < MaxSlips
    /\ slips' = slips + 1
    /\ Deliver(run[w].claim)
    /\ LeaveUnstamped(run[w].claim)
    /\ run' = [run EXCEPT ![w] = Ended(@.claim, "retry")]
    /\ UNCHANGED <<vars, seen, stamped>>

\* Mutant: a refused send that ends the job as done.
SendRefusalSwallowed(w) ==
    /\ run[w].step = "sending"
    /\ run' = [run EXCEPT ![w] = Ended(@.claim, "done")]
    /\ UNCHANGED <<vars, seen, stamped, mail, slips>>

\* An error is tried again (so is a known key under another body, which a run
\* that signs its links anew has); a missing mailer or an empty body never is.
SendRefused(w) ==
    /\ run[w].step = "sending"
    /\ \E outcome \in {"retry", "fatal"} :
          run' = [run EXCEPT ![w] = Ended(@.claim, outcome)]
    /\ UNCHANGED <<vars, seen, stamped, mail, slips>>

\* stampSent, or the update of emailed_at: its failure is not the job's.
Stamp(w) ==
    /\ run[w].step = "stamping"
    /\ stamped' = stamped \cup {Subject(run[w].claim)}
    /\ run' = [run EXCEPT ![w] = Ended(@.claim, "done")]
    /\ UNCHANGED <<vars, seen, mail, slips>>

StampLost(w) ==
    /\ run[w].step = "stamping"
    /\ slips < MaxSlips
    /\ slips' = slips + 1
    /\ LeaveUnstamped(run[w].claim)
    /\ run' = [run EXCEPT ![w] = Ended(@.claim, "done")]
    /\ UNCHANGED <<vars, seen, stamped, sent, kept>>

\* runBatch takes the handler's outcome and goes on to its next row.
Conclude(w) ==
    /\ run[w].step = "ended"
    /\ \/ Finish(w, run[w].claim, run[w].outcome)
       \/ FinishUnrecorded(w, run[w].claim)
    /\ run' = [run EXCEPT ![w] = Resting]
    /\ UNCHANGED <<seen, stamped, mail, slips>>

KillHandler(w) ==
    /\ Kill(w)
    /\ run' = [run EXCEPT ![w] = Resting]
    /\ IF run[w].step = "stamping" THEN LeaveUnstamped(run[w].claim) ELSE UNCHANGED unstamped
    /\ UNCHANGED <<seen, stamped, sent, kept, slips>>

\* The clock is the queue's, and so are the claims it ages.
TickHandlers ==
    /\ Tick
    /\ run' = [w \in Workers |->
                 IF run[w] = Resting THEN Resting
                 ELSE [run[w] EXCEPT !.claim.left = Less(@)]]
    /\ UNCHANGED <<seen, stamped, mail, slips>>

Enqueue(c) ==
    /\ (\E k \in Keys : EnqueueCheck(c, k)) \/ EnqueueInsert(c) \/ EnqueueRefused(c)
    /\ UNCHANGED handlerVars

RetryByOperator(j) ==
    /\ RetryDeadJob(j)
    /\ UNCHANGED handlerVars

HandlersNext ==
    \/ \E c \in Callers : Enqueue(c)
    \/ \E j \in Jobs : RetryByOperator(j) \/ Forget(j)
    \/ TickHandlers
    \/ \E w \in Workers :
         \/ ClaimRows(w)
         \/ \E c \in batch[w] : Begin(w, c)
         \/ SendAccepted(w) \/ SendAnswerLost(w) \/ SendRefused(w)
         \/ Stamp(w) \/ StampLost(w)
         \/ Conclude(w) \/ KillHandler(w)

HandlersSpec == HandlersInit /\ [][HandlersNext]_hvars

-----------------------------------------------------------------------------

\* The handlers' steps and the marks they leave have their shapes.
HandlersTypeOK ==
    /\ TypeOK
    /\ run \in [Workers -> {Resting}
                              \cup [step : {"sending", "stamping"}, claim : Claim]
                              \cup [step : {"ended"}, claim : Claim, outcome : Outcomes]]
    /\ seen \in [Workers -> SUBSET Jobs]
    /\ stamped \subseteq Jobs \cup NoticeKeys
    /\ sent \in [Jobs \cup NoticeKeys -> Nat]
    /\ kept \subseteq Jobs
    /\ slips \in Nat
    /\ unstamped \in [Jobs -> Nat]

\* One email job is one message in the inbox, and one more at most for every send
\* that got no stamp.  Alone the key holds it while the provider remembers, alone
\* the stamp holds it later: neither a worker that outlives its lease and sends
\* beside another, nor a lost write-back, nor an operator's retry of a dead row
\* days after its message went out adds a message.
EmailSendsAgainOnlyUnstamped ==
    \A j \in Jobs : job[j].key \in EmailKeys => sent[j] <= 1 + unstamped[j]

\* A done row has reached somebody: no path ends a job "done" unsent, whoever
\* wrote the row last, except a job that was never allowed to reach anybody.
DoneMeansSent ==
    \A j \in Jobs :
        /\ (job[j].status = "done" /\ job[j].key \in EmailKeys \ Suppressed)
              => sent[j] > 0
        /\ (job[j].status = "done" /\ job[j].key \in NoticeKeys \ Suppressed)
              => sent[job[j].key] > 0

\* A notice sent by a queue in which nothing was killed, lost or outlived its
\* lease is sent once, also when it is queued again after it was delivered.
NoticeSendsOnceInQuiet ==
    (faults = 0 /\ slips = 0 /\ ~overrun) => \A k \in NoticeKeys : sent[k] <= 1

\* What email.send says of its key: "a re-run that gets past a failed stamp is
\* answered by Resend with the first message rather than a second one".
AnsweredWithTheFirst == \A j \in Jobs : job[j].key \in EmailKeys => sent[j] <= 1

\* What notification.deliver says of its emailed_at check: "the one that
\* actually holds when a lease expires mid send ... this stops a duplicate SEND".
\* Lost answers, lost stamps and killed workers are set aside.
LeaseExpiryNeverSendsTwice ==
    (faults = 0 /\ slips = 0) => \A k \in NoticeKeys : sent[k] <= 1

=============================================================================
