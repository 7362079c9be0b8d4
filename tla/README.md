# A TLA+ model of 254 Engineering's platform

The repository is the platform of an engineering firm: a Next.js application on
Vercel over a Postgres database at Supabase, with Stripe taking the money and
Resend delivering the mail. A customer orders a sealed letter, pays, a technician
visits, an engineer reviews and seals, and the customer downloads the document.
Nothing of this runs in one long-lived process: every operation is a short
invocation that makes a sequence of database and provider requests, may be killed
between any two of them (a 20 second bound on each request, a timeout on the whole
invocation), and may overlap with another invocation of itself. This project models
the parts where that matters most, checks them with TLC and proves what it can with
TLAPS.

Paths below are relative to the repository; `src/lib/x.ts:10` is line 10 of that file
and `0075` a migration of `supabase/migrations`.

## 1. Inventory

State is in database tables unless said otherwise.

| component | state | operations | what makes it correct | here |
|---|---|---|---|---|
| Job queue (`ops-jobs.ts`, `job-rules.ts`, 0011, `api/cron/jobs`) | `eng_jobs` | enqueue, claim, run a batch, write back, retry a dead job | one live row per key, one holder per lease, bounded attempts, nothing lost | JobQueue, proofs |
| Job handlers that send mail (`job-handlers.ts`, `notify.ts`) | a stamp on the job's payload, `eng_notifications.emailed_at` | email.send, notification.deliver | a person gets one message and a second only after a send that left no stamp, a done job was sent | JobHandlers, proofs |
| The other job handlers (`job-handlers.ts`) | each its own tables | reconcile, statement issue, after a decision; thumbnails, binders, metrics, credentials, insurance, alerts, exports | idempotent under a second run | the first three, in the modules of what they act on; the rest not |
| Payments of an order (`ops-payments.ts`, `payment-events.ts`, 0075, webhook, `ops-reconcile.ts`) | `eng_service_orders.status`, `eng_order_payments`, `eng_payment_events`, the order's events | open a checkout, receive a completion or an expiry, sweep, close | each charge is recorded once, releases work once or is flagged, no paid order is closed | PaymentEvents, OrderLedger, proofs |
| Release of a paid order (`ops-payments.ts`, `account-creation.ts`) | the file's stage, the order's account, events, queued mail | move the file, match or open an account, confirm, attach by a person | a release that stops anywhere is finished by a later one, one confirmation, to the right address, no second account | Release, proofs |
| Refunds (`ops-payments.ts`, `refund-update.ts`, 0075, 0076, `ops-partner-comp.ts`) | refund rows, Stripe's refunds, commission entries | firm cancellation, engineer's decision, dashboard refund, refund update | the ledger agrees with Stripe, no refund is counted twice, a failed one reaches a person | RefundLedger, proofs |
| Bulk submissions by card (`ops-bulk.ts`, `ops-payments.ts`, 0075) | `eng_order_batches`, the member orders, one charge | place, open the one checkout, pay, expire, sweep a member, refund a member's share | a submission settles as one, one charge on file, a member's refund stays in its share | BatchPayments, BatchRefunds, proofs |
| Statements and account credit (`ops-bulk.ts`, `account-credit.ts`, `ops-statements.ts`, 0009, 0075) | `eng_statements`, their lines, the account's orders | submit on credit, close a period, issue, pay | an order is billed on one statement, printed as charged, credit stays in its limit | Statements, proofs |
| Engineer review (`ops-engineer.ts`, `ops-review.ts`, 0004, 0068) | the file's status and assignee, `eng_review_sessions`, determinations, production ledger | open, decide, credit late, push back, resubmit | one story of clock and log, one credit, one decision awaiting its seal | Review, proofs |
| Sealing (`letter-seal.ts`, `own-document-seal.ts`, 0062, 0089, 0097, 0110) | `eng_seal_acts`, voids, PDFs in the bucket, the file and its order | seal, void, reissue, deliver, settle | one live letter per determination, an order settled once, the bucket and the register agree | Sealing, SealRegister, proofs |
| From decision to outcome (`job-handlers.ts`, `foundation-decline-rules.ts`) | the above, and the refund of a refusal | the job of a refusal | a customer has a letter or a refund, and a refund once | FileOutcome, proofs |
| Dispatch, holds, field work, evidence | `eng_files`, assignments, evidence | assign, visit, collect, submit | only complete evidence reaches review | not modelled |
| Partner compensation and partner billing | commission entries, statements, subscriptions | accrue, close a period, pay out, bill | an accrual is paid once and reversed at most once | reversal cap only (RefundLedger) |
| Offline queue of the field app | IndexedDB in the browser | queue, flush, retry | captured evidence is uploaded once | not modelled |
| Order intake, quotes, pricing | orders, quotes, prices | place, quote, accept, supersede a price | an order keeps the figure that was agreed | not modelled |
| Sign-in limiter, sessions, second factor | attempts, cookies | attempt, lock, release, verify | access control | not modelled |
| Line gates, protocols, scope addenda; retention; onboarding, roles, CRM, messages, reports, exports, insurance, academy | their tables | forms, lists, signatures, deletions | mostly one guarded write each | not modelled |
| Public site, content, e-mail templates, launch gate, observability | none or configuration | rendering, watching | out of a model checker's reach | not modelled |

How they interact. A request or a cron tick starts an invocation. Invocations share
only the database. `enqueue` is the only way work outlives an invocation: the cron
calls `/api/cron/jobs` every minute (`vercel.json`), which claims rows by a SQL
function and runs handlers. Stripe calls `/api/stripe/webhook`, and resends every
event until it gets a 2xx. The webhook hands a completion to `markPaid`,
`markBatchPaid` or `markStatementPaid`, an expiry to `expireCheckout`, a refund to
`recordExternalRefund` and its later fate to `recordRefundUpdate`; each reads, decides
in TypeScript, and then writes in one SQL transaction that re-checks part of what was
read. A paid order is released by `releaseForFulfilment`, a sequence of some fifteen
separate requests, rerun by every later delivery of an event still `claimed`. The
reconciliation sweep is a job that asks Stripe about orders awaiting payment, members
of a submission among them, and calls the same `markPaid`. A reviewed file is decided
by one transaction, sealed by another over the register of seal acts, and settled by
requests that follow it; a refusal leaves a job behind that settles and refunds.

What is hard: two invocations between each other's reads and writes; an invocation
that stops between two writes; a provider's answer that is lost after it acted;
events that come late, twice or in the wrong order; a refused insert that nobody
reads (`event()` in `src/lib/ops-intake.ts:677` returns nothing); a lease that runs
out under a worker that is still alive. The list, each at its line, is `hazards` in
PROJECT.json.

## 2. Modules

| module | models | extends / instances |
|---|---|---|
| `JobQueue` | the queue: rows with attempts, run_after and lease as remaining ticks, callers of `enqueue` between check and insert, workers with what a claim gave them | |
| `JobHandlers` | the queue with its two mail handlers and Resend: sending, stamping, lost answers, lost stamps | EXTENDS JobQueue |
| `OrderLedger` | abstract: what the payment path promises of one order | |
| `PaymentEvents` | the payment path in detail, with Stripe's checkouts and deliveries | `Promise == INSTANCE OrderLedger` |
| `Release` | the release as the requests it is made of, and the attach panel | refines the one step `ReleaseWork` / `ReleaseIncomplete` of PaymentEvents by description, not formally |
| `RefundLedger` | refund rows against Stripe's refunds of one charge | |
| `BatchPayments` | a submission of many orders under one checkout | |
| `BatchRefunds` | the shares of a submission's charge given back, by the platform and by hand | its names apart from RefundLedger's, since RefundLedgerProofs extends both |
| `Statements` | an account: submissions on credit, closes, issues and payments of its statements | |
| `Review` | a file before the engineers, from its evidence to its decision | |
| `SealRegister` | abstract: what the register of seal acts promises | |
| `Sealing` | the letters of a file in detail, to the settlement of the order | `Register == INSTANCE SealRegister WITH ...` |
| `FileOutcome` | review, sealing and the job of a refusal, over one file and order | EXTENDS Review, `S == INSTANCE Sealing WITH dets <- ...`; implements Sealing, in FileOutcomeProofs: `L == INSTANCE SealingProofs WITH file <- LetterFile, ...` |
| `JobHandlersProofs`, `PaymentEventsProofs`, `ReleaseProofs`, `RefundLedgerProofs`, `BatchPaymentsProofs`, `StatementsProofs`, `SealingProofs`, `FileOutcomeProofs` | the theorems | extend the module they are named for, and with it what that extends or instances |
| `MC*` | small instances; each cfg is one question | |

Correspondence, beyond what PROJECT.json's `map` gives definition by definition:

- **JobQueue.** `job` is `eng_jobs`. `enqueue` is two actions (`EnqueueCheck`,
  `EnqueueInsert`/`EnqueueRefused`) because its look for a live row and its insert
  are two requests; the partial unique index is `KeyIsFree`. `ClaimBatch` is
  `eng_claim_jobs`, one statement. A worker's `batch` holds what its claim returned,
  including `attempts`, since `nextState` computes from that copy and not from the
  row. `Finish` is the write-back, by id only, as in the code. `Kill` is the function
  timeout. Time is relative: a tick takes one from every `wait`, `lease` and `left`.
  A claim fills its batch with any claimable rows, an abstraction of
  `order by run_after, id`.
- **JobHandlers.** A row's key decides its handler. `seen` is the payload as the claim
  returned it: the email handler looks there for `sentMessageId`, the notification
  handler reads `emailed_at` afresh. Resend (external) answers an idempotency key it remembers
  with the first message, and forgets it some time later: `kept` are the rows whose key it
  remembers, and `Forget` drops one when no worker holds a claim of the row, since Resend
  keeps a key for about a day and an invocation lasts minutes. A run that signs the links of
  its mail anew sends another body under the old key, which Resend refuses
  (`SendRefused`). `unstamped` is a history variable: how many accepted sends of a row
  were never stamped, because the answer, the stamp or the worker was lost. The run has
  a batch of one: a worker runs its
  rows one after the other, so a larger batch only makes a lease run out sooner, which
  the model allows at any time anyway.
- **PaymentEvents.** `task[i]` is an invocation: its step, its event, the status it
  read. The five-branch `ApplyOrderPaid` is the SQL function `eng_apply_order_paid` with
  the ledger claim inside. `latest` is the newest `checkout.started` event,
  written only after Stripe has made the session. `charged` is the unique
  `(provider, provider_ref)` of `eng_order_payments`. `raced` is a history variable.
- **Release.** `marks` are the order's events that steer later runs. A request can
  fail (`Fault`) or be the invocation's last (`Kill`). An event whose insert fails is
  lost without trace, as in the code; one cut off by the 20 second bound is counted
  as missing. Several reads are merged into the step that uses them where no other
  actor's write in the model falls between them. The order is taken to have an address
  and, as the code orders it, the account is settled before the confirmation.
- **RefundLedger.** `rows` are the refund rows, `refunds` Stripe's truth, `events` what
  Stripe sent. A row is reserved as pending before Stripe is asked and settled after.
  Stripe's answer to a request that throws, and its answer `failed`, are one outcome:
  a failed answer has a refund id in reality and `failed:<charge>` in the throwing case,
  and the model keeps the latter, whose collision with an earlier failed row is a real
  path of `settleRefundRow`. Stripe's idempotency keys are kept for ever. A refund
  recorded from a `charge.refunded` event carries the event's id, since Stripe does not
  expand the charge's refund list in it (`payments-stripe.ts:346`).
- **BatchPayments.** `member` is the status of each property's order, `total` the orders
  whose shares the row's total adds up. Placing creates and joins orders one at a time
  and ends with one update that is not read; a member whose join went unanswered is
  joined and not counted. A checkout is made for the submission and its
  `checkout.started` written on each member in turn. `ApplyBatchPaid` and
  `ApplyExpired` are the SQL functions, which re-check the statuses that were read
  (`Moved`). The sweep judges a member on its own and goes through
  `eng_apply_order_paid`. Amounts are abstracted to "the session's amount is this
  order's total", which is so when it is the only one joined.
- **BatchRefunds.** What Stripe answers is final here; a refund that fails later is
  RefundLedger's. `Share` is every member's share and `PartOfShare` what a decision after
  a visit gives back; `raced` of a call is a history field: a refund the call did not know
  of was made, or begun, between its read of the ledger and its question to Stripe. A
  refund made by a call that was itself raced races the others, since its row may have
  been written when there was no room for it.
- **Statements.** One account, one unit per order. A close is gather, line by line and
  claim by claim, then the sum and the total, each its own request; `history` records
  which overlaps there were, for the exceptions of the properties.
- **Review.** `inv[i]` is a request with what it read; deciding reads the file, the
  session and the log, and then calls the transaction `eng_record_review_decision`.
  `Resubmit` and `PushBack` are the technician's and an administrator's moves of the
  file. That a determination has a live letter is the variable `sealed` here and
  Sealing's acts in FileOutcome.
- **Sealing.** The PDF goes into the bucket under a fresh name (`StoreLetter`), then the
  act is recorded, then the file moves, and the order is settled and completed. The
  recording (`eng_record_letter_seal`, 0089) takes no lock and runs under READ COMMITTED,
  so it is two steps: `ReadReplaced` is the insert's trigger, which reads what the act
  replaces (0097:143), and `RecordSeal` the unique indexes on live and on replaced acts
  (0062:96), which judge the act when it goes in. A void that commits between them lets in
  an act that names nothing although there is something to name; `slipped` is the history
  of the determinations this happened to, or might have. An act the indexes refuse has its
  PDF removed again (`RemoveLetter`). A call given up after 20 seconds (`GiveUp`) counts
  as refused, and may commit all the same, before or after its PDF is removed
  (`RecordAbandoned`; `bounded-fetch.ts:28`); `givenUp` are the acts that did. `Register`
  maps the acts to records with a `live` flag, computed from `voided`; `KeepsRegister` is
  `Register!Spec`. What happens to the file between letters is its environment: `Decide`
  moves it as a decision does (one that makes no letter may refuse the file), `Wander` as
  the grammar of `ops-files.ts:127` lets it move otherwise, `GiveBack` refunds its order,
  as `cancelAndRefund` and the job of a refusal do without asking the register. That this
  environment is wide enough for the review and the job of a refusal is
  `OutcomeImplementsSealing`.
- **FileOutcome.** The variables of Review are its own; the determinations of Sealing are
  the decisions of Review under `KindOf`, and each step of the letters leaves Review's
  `sealed` the decisions with a live act. The job of a refusal is the requests it makes,
  each a step: it asks the determinations whether a letter answers the refusal
  (`AskDeterminations`), counts the refunds on file, writes the refund down, asks for it,
  and tells the administrators; a worker that stops anywhere is followed by a run from the
  start (`RunAgain`). `crossed` is a history variable: the file was decided or pushed back,
  or the letter voided, while the order waited to be settled for that letter.

## 3. Runs

Every bound is a CONSTANT named in its module, or a CONSTRAINT of the MC module. Where a
cfg says `CHECK_DEADLOCK FALSE` the system really comes to rest: all work done, all
bounded events used up. Where there is a SYMMETRY the run has no temporal property with
fairness.

| run | question | bounds, and why they suffice |
|---|---|---|
| `jobqueue` | does the queue keep one live row per key, one holder, finished rows finished, and does it drain | 2 rows sharing 1 key, or with none, 2 callers, 2 workers, batch of 2, lease of 2 ticks, 2 attempts, 1 fault, 1 operator retry. Every race is between two rows of a key or two workers of a row; a lease of 2 lets a worker outlive it and not |
| `jobhandlers` | does an email go out a second time only after a send without a stamp, although its key is forgotten and its dead row retried; is a done job a delivered one; is a notice sent once in a quiet queue | 2 rows, 2 callers, 2 workers, a batch and a lease of 1, 2 attempts, with an email key, a notice key and a suppressed email key; 1 killed worker or lost write-back, 1 lost answer or stamp, 1 operator retry, an outlived lease, any two of them (the CONSTRAINT `TwoTroubles`): a second send takes one, a kill at the stamp or a lost answer, and the retry of a dead row one more |
| `payments` | does the payment path keep OrderLedger's promise and its own invariants | 2 checkouts (a second opens only after the first expired, so 2 show supersession), 2 invocations at once, 1 fault, 1 redelivery after a 2xx |
| `payments_live` | is every payment Stripe delivers recorded, and is its claim finished | 1 checkout, 2 invocations, 2 faults, with fairness |
| `release` | does a release stopped anywhere end whole, with one confirmation, to the right address, opening one account | 3 accounts (two present and one opened, or two opened by overlapping runs), 2 invocations, 1 fault |
| `refunds` | does the ledger agree with Stripe, is commission reversed once, do fallen rows stay fallen, is a failed refund told | a charge of 2 cents of which a decision returns 1, 2 refunds at Stripe, 3 events, 2 platform refunds, 2 deliveries at once, 1 fault; after a fault one event fewer is followed (a CONSTRAINT) |
| `batch` | does a submission settle as one, is its charge on file once, is unreleased work found, is nothing closed under a live checkout | 2 members (all and some), 2 checkouts, 2 invocations, 1 fault; a delivery answered with an error is delivered again, one answered is not |
| `batch_refunds` | do refunds stay in the charge and in the share, and does what events record of refunds made outside stay within what Stripe gave back, missing nothing once all are recorded | 2 members of 2 cents, a decision of 1, 2 platform calls and 2 deliveries at once, 2 refunds, 3 rows, 1 fault |
| `statements` | is work billed once, printed with its sum, charged as printed and then never a bill again, in the limit | 2 orders, 2 periods, a limit of 1, 2 requests at once, 1 fault: two closes of one period, two of two, a close and an issue, two submissions |
| `review` | do the review clock, the log and the pay tell one story, and does a refusal last | 2 engineers, 2 requests at once, 2 sessions, 2 decisions of three kinds, 1 fault |
| `sealing` | does the register keep its promise, is an order settled once and, unless stopped, always, and do bucket and register agree | 2 determinations, of passes (a decline's letter differs only in where the file is; the other kinds are in `outcome`), 2 acts (a seal and its reissue, with a void between the second's trigger and its indexes, or a letter of each), 2 requests, 3 names of PDFs (two letters and one that is refused), 1 stop or request given up; every safety property of it is proved for any number of acts |
| `outcome` | does a file end with a letter or a refund, settled once, and is a refusal refunded once | 1 engineer, 1 request that decides and 2 that seal and void (alike, so SYMMETRY), no sessions (they are `review`'s), 2 decisions of three kinds, 2 acts, 2 names of PDFs; 1 fault of the review or a job, 1 of the letters, or a letter crossed, one of the three (the CONSTRAINT `OneTrouble`; the theorems have no such bound); the job step by step; foundation work and other |

Each takes from a few seconds to three minutes on two cores.

The runs check what relates several pieces of state or several steps. The type
invariants are not among their properties: they are the theorems `TypeCorrect`,
`HandlersTypes`, `PaymentTypes`, `ReleaseTypes`, `RefundTypesHold`, `BatchTypes`,
`StatementTypes`, `ReviewTypes`, `SealingTypes` and `SubmissionTypes`, for every value of
the constants. `AttemptsBoundedWithoutFaults` and `CancelledStays` are theorems too and in
no run.

Two calls at once are enough for the races of `batch_refunds` but one: two calls that were
raced may together use the room a third had found, which needs three. `AskedIsLeft`
proves it for any number of calls; TLC agrees on three, without deliveries, with three
refunds, three rows and one fault (3.4 million states, not a listed run).

Properties carry their exceptions in their names and formulas: `HeldByOneUnlessOverrun`
holds while no worker has outlived its lease, `ReleasesOnceUnlessOverlapped` while no
two releases overlap, `...WithoutFaults` and `...UnlessStopped` while nothing stopped,
`...UnlessCrossed` in `statements` while no two closes overlapped or stopped and in
`outcome` while nothing took back a letter the order waited for (another decision, a push
back, a void), `...UnlessSlipped` while no letter of the determination was voided as
another was between trigger and indexes. Each exception was tried without and
fails in the model, so each is a statement about the code and not a convenience; many
are what section 4 lists.

## 4. What the repository says and the model refutes

The modules state these sentences of the repository as properties without exception, and
TLC finds each violated by what the code does. They are kept in the modules, in no
listed run; to see one, make it the only INVARIANT (or PROPERTY, where it says []) of the
cfg of its module; `SealedByItsLetter` needs `"repairs"` among that cfg's Kinds.

| property | the repository says | what happens |
|---|---|---|
| `JobQueue!LeaseNamesHolder` | the lease says which worker holds a job (`api/cron/jobs/route.ts:34`) | a worker that outlived its lease writes back by id (`ops-jobs.ts:461`) and clears the lease of the worker that holds the job now, which may then be claimed a third time |
| `JobHandlers!LeaseExpiryNeverSendsTwice` | the `emailed_at` check "is the one that actually holds when a lease expires mid send" (`job-handlers.ts:287`) | the second worker reads `emailed_at` while the first is inside its send; no provider key is sent with a notice, so two messages go out |
| `JobHandlers!AnsweredWithTheFirst` | "a re-run that gets past a failed stamp is answered by Resend with the first message rather than a second one" (`job-handlers.ts:130`) | Resend forgets a key; a dead row whose message went out and was not stamped, retried by the operator after that (`ops-jobs.ts:616`), sends a second message |
| `PaymentEvents!SupersededExpiryClosesNothing` [] | "an expired session that is not the order's latest closes nothing" (`ops-payments.ts:504`) | a checkout opened between the expiry's read of the newest `checkout.started` and its write, or whose event was refused, does not stop the close |
| `PaymentEvents!EveryClaimFinishes` [], FairSpec | "the event stays claimed, so the next delivery releases again" (`payment-events.ts:77`) | an event the sweep wrote has no deliveries, and the sweep no longer looks at an order in fulfilment; Stripe's own event finds the charge on file and releases nothing |
| `Release!NeverToTheAddressThatMerelyPaid` [] | a matched order's confirmation goes to the account, "never to an address that merely paid" (`ops-payments.ts:772`) | the link and the event that says so are two requests; a stop between them leaves an account with no event, and the next run confirms to the paying address |
| `RefundLedger!LedgerConverges` | the difference makes "the ledger converge on the truth" (`payments-stripe.ts:368`) | a dashboard refund reported while a platform refund is reserved leaves no difference to record; when the reserved one is refused, nothing ever counts the first |
| `BatchPayments!CancelledMoneyIsTold` | "money on a cancelled order is a person's job" (`ops-payments.ts:619`) | `markBatchPaid` has no such branch: a submission, or one order of it, that was closed and is then paid is charged with nobody told |
| `BatchPayments!NoOwnCharge` | of a submission's orders, "none of them gets a charge row of its own" (`ops-payments.ts:371`) | the sweep records the payment of a submission of one on its order; the submission itself stays awaiting payment |
| `BatchPayments!SavedMeansPayable` [], FairSpec | the submission "is saved and waiting to be paid" (`api/account/bulk/route.ts:195`) | a placing that stopped, or whose last update was refused unread, leaves a draft, which the checkout refuses for ever |
| `BatchPayments!ClaimedIsUnreleased` | an event left claimed is "money that is written and work that is not released" (`payment-events.ts:107`) | a claimed event whose orders were refunded has nothing to release, and `markBatchPaid` returns without finishing it (`ops-payments.ts:437`) |
| `BatchPayments!SettledTogether` without `total # {}` (1 order) | "None of these properties could be placed" (`ops-bulk.ts:345`) | a join that was made and went unanswered leaves its order awaiting payment under a cancelled submission |
| `BatchRefunds!PlatformRefundsCountOnce` | a platform refund "is not recorded a second time" (0075:419) | the refunds on file for a submission's charge are looked for among rows that name no order, and a member's row names one: each is recorded again |
| `BatchRefunds!NeverPastItsShare` | "never twice and never past what is left" (`scripts/proofs/a-bulk-member-is-refunded-its-own-share.mjs:178`) | a cancellation and a decision on one order that overlap both find the whole share left |
| `Statements!BilledOnce` | "orders are claimed by setting statement_id, which is the lock" (`ops-statements.ts:68`) | the claim is by id alone: closes of two periods that overlap bill one order twice |
| `Statements!IssuedIsClosed` [] | "an issued statement is closed" (`ops-statements.ts:114`) | the status is read once; a close still at work adds to a statement issued meanwhile |
| `Statements!HeaderAgrees` | the total "cannot ... disagree with what is printed beneath it" (`ops-statements.ts:244`) | of two closes of one period the one that summed first can write last |
| `Statements!WithinLimit` | the gate may not read low because that "grants credit past the limit" (`ops-bulk.ts:448`) | a submission counts only after it was placed: two of the whole limit are both accepted |
| `Review!NoDecisionOverUnsealedPass` [] | a second decision on an unsealed pass is refused (`ops-engineer.ts:746`) | two decisions that both read before either records are both recorded |
| `Review!DecidedByItsAssignee` [] | a file is "decided by the engineer who took it into review" (`ops-review.ts:241`) | between the move and the assignment, or after a lost assignment, anyone may decide |
| `Sealing!SettledOnce` | "the order is not settled a second time: it was settled with the first letter" (`letter-seal.ts:1002`) | a void that commits between the trigger's read (0097:143) and the unique indexes (0062:96) of another letter of the determination lets that letter in naming nothing it replaces; it is taken for a first letter and settles the order again |
| `Sealing!ReissueWasSettled` | the order of a reissue "was settled with the first letter" (`letter-seal.ts:1003`) | a first seal that stopped after its act was recorded leaves it unsettled, and void and reissue never settle it |
| `Sealing!LiveLetterIsStored` | an error means "nothing was sealed" (`letter-seal.ts:988`) | a request given up after 20 seconds may commit all the same; its PDF is removed and its act stands |
| `Sealing!SealedByItsLetter` [] | "a file is sealed by sealing its letter, never by moving its status" (0110:62) | any live letter of the file satisfies the trigger, so a repairs letter lets a person move it by hand |
| `FileOutcome!RefundOrLetter` | a refusal gives a letter or a refund (`job-handlers.ts:1050`) | a pass and a refusal recorded one over the other give both: the letter of the pass was on its way as the refusal was recorded |

## 5. Fairness

Safety runs assume none. `QueueDrains` assumes that the database clock moves, that the
worker route is called again (every minute, `vercel.json`) and that a handler returns or
is killed; nothing obliges a caller, an operator or a fault. `PaidIsRecorded` and
`DeliveredClaimFinishes` assume that an invocation that is not stopped goes on, that
Stripe keeps delivering an event it has not had a 2xx for (its documented behaviour,
and what the code's non-2xx answers rely on), and that a release tried again and again is
once complete. The last is strong fairness, since tries are interrupted by faults and
incomplete runs; what makes a release incomplete is a failed request or an account a
person is asked to attach, so it is an assumption about the database and the staff.
`EveryClaimFinishes` is refuted under the same fairness. `SealedIsSettledUnlessStopped`
assumes only that a request that was not stopped goes on (weak fairness of its steps).
`BatchPayments` states the fairness of `payments_live` for a submission, with
`PaidIsRecorded` and `PaidIsReleased`; both were checked with one checkout and are in no
listed run.

## 6. Proofs

TLAPS proves, for every value of the constants that satisfies the modules' ASSUMEs
(which TLC evaluates in each run), the theorems below. The bounds of the models
(`MaxFaults`, `MaxActs`, `MaxResends`, ...) are parameters here: naturals of any
size, so a theorem covers any number of rows, sessions, requests and faults.
`[]Inv` theorems rest on an inductive invariant: it holds initially, every step keeps
it, and it implies what is stated. Each proof has a step per action; the lemmas before
it say what an action does to one row, one invocation or one sequence.

What a property adds up or counts is proved by induction over sets, not over
sequences: a total of naturals is what any function that adds them up comes to
(`Total`, in RefundLedgerProofs), such a function exists because the set of lengths that
have one has no least member outside it (`LeastNatural`, from the library's facts on
well-founded orders), and the lemmas after it say what one more value, one changed value
or a pairing of two ledgers makes of a total. The recursive functions of the modules are
then shown to be such totals.

**JobHandlersProofs**, of the queue — `TypeCorrect`, `OneLiveRow`, `HeldByOne`,
`AttemptsBounded`, `FinishedStaysFinished`. `HeldByOneUnlessOverrun` is not inductive
alone: a row whose lease ended before its claim did would be claimed a second time, so
`HeldInv` makes a claim and its row agree in every column the claim wrote.
`AttemptsBounded` needs `AttemptsInv`: without faults a running row is in somebody's
hands and a pending row has an attempt left. `SettledInv` says the clock does not touch
a finished row.

Of the handlers — `HandlersUseQueue` (every behaviour of the queue with its
handlers is one of the queue, so the theorems above hold of it), `HandlersTypes`,
`OneMessage`, `DoneIsDelivered`, `NoticeIsOneMessage`. `HandlersInv` adds: whatever is
claimed has a row with a key (`Keyed`), whatever is stamped was sent (`StampsTrue`), a
handler that is about to stamp or ends well has sent, and what is stamped or remembered by
Resend was sent (`RunsTrue`, `StampsTrue`). `OneMessage` needs more than a count, since
neither the key nor the stamp alone keeps a second message away: in `EmailInv`, every send of
a row is matched by one that got no stamp (`Matched`), or all but one are, and then the row
is stamped or its stamp is about to be written, it is stamped or Resend remembers its key,
and each worker that holds a claim of it saw the stamp or is covered by the key
(`OneEmail`). So whoever gets past the stamp meets the key, a key is forgotten only under a
stamp or after a send without one, and a stamp that is lost, answers included, matches its
send. A notice is sent once in a quiet queue because one key is
in one claim at a time: `OneOnKey` combines `OneLiveRow` with `HeldInv`, and is used
where a handler finds no stamp and where a send is accepted.

**PaymentEventsProofs** — of the promise, `ChargesAccounted`: each charge on file put the
order to work or is flagged, strengthened with "nothing is on file while the order
waits". Of the payment path, `PaymentTypes`, `UnreleasedStaysClaimed`, `Implements` (it
implements `OrderLedger`), `EveryChargeIsAccounted` (the promise's theorem
carried over through the refinement), `CancelledMoneyTold`, `LiveCheckoutKept`. `IInv`
says what an invocation carries fits the step it is at (`TasksFit`), what Stripe
delivers is about checkouts there are (`PostedFit`), and only an order put to work has
a claimed event (`ClaimsFit`): without them a release could begin on an order nobody
paid for. `CancelledMoneyTold` adds that a waiting order has no charge on file, so what is
on file of a cancelled one was found there by an invocation on its way to tell it.
`LiveCheckoutKept` adds `Judged`: what a close was judged on still holds when it is
made, because a checkout opened meanwhile sets `raced`.

**ReleaseProofs** — `ReleaseTypes`, `DoneLeavesNothing`, `ReleasedOnce`,
`ConfirmedToAccount`. An event is answered as done by an invocation that has looked at
every part of the order or done it, at different times, while others were at work. So
`Fitting` says, step by step, what an invocation has behind it, in terms of what no step
takes back (a file that moved, a mark, an account, a mail: `Onward`), and every
invocation keeps it whoever else moves. What holds only of an invocation alone on the
release is `Lone`: that no confirmation was queued since it looked, that no account was
opened since it found none, that the order's events have not come to name an account
since it chose the address. `ChoiceNoted` says who chose the account is in the order's
events or about to be, which is what keeps a mail from the address that merely paid.

**RefundLedgerProofs** — `RefundTypesHold`, `LedgerAgreement`, `RefundsAreFollowed`,
`FailedRefundsAreTold`, `FallenRowsAreFinal`. The ledger agrees at rest because every
row stands for what its reference says (`RowsFit`), no refund is named by two rows, a
call holds its reserved row alone (`CallsFit`), and, where nothing stopped, a refund of
the platform's has a row or a call about to write it (`Held`). `Totals` compares sums: what
the recorded events said is never more than is counted, and the last event says what
Stripe gave back. `OutsideFit` bounds the rows written for events by the refunds made
outside, row by row, so that nothing is counted twice. `FailuresTold` says a failure on
record was told or is being told.

Of a submission (BatchRefunds) — `SubmissionInv`, `SubmissionTypes`, `AskedIsLeft`,
`OutsideRefundsFit`. `SInv` compares three sums over chosen places (`Cents`): what
Stripe gave back, the live rows, the rows of calls in flight. A refund an order was given
and a call was answered has a row of its order and amount that counts, settled or about
to be (`RefundsCounted`); since an order is given an amount once (the key), two refunds
never share one, so what was given back and what unraced calls still ask for come to no
more than what counts (`RowsCover`), and what `refundableOnBatchMember` found left is left
(`ShareCounted`, `ChargeCounted`: refunds the ledger learns of from events alone are
under the total of the last event recorded). `RoomLeft` then carries the room from the
read to the question: for all unraced calls that ask, and for one more before its row is
written (`OneWrites`). The proof settled what races a call: with three calls, a refund
made by a call that was itself raced has to count as a race, which no instance of two
calls shows. What is recorded of refunds made outside needs only `ShareEventsFit`: it lies
between the total of each recorded event and what Stripe gave back. That nothing given back
is missing once all are recorded (`CountedCovers`) adds up two parts: the refunds
up to the last event, which the rows cover because an event brings them to its total, and
those after it, which are the platform's and have rows that count.

**BatchPaymentsProofs** — `BatchTypes`, `SettlesAsOne`, `ChargedOnce`,
`UnreleasedIsFound`, `ClosedStaysClosed`, `LiveCheckoutKept`. `BatchInv` is made of:
before a checkout exists nobody handles events (`BeforeCheckout`) and one request
places (`OnePlaces`); the orders of a submission are in work together (`WorkTogether`);
an invocation that finishes an event has released all it read (`Fits`, `Covers`), so
finishing leaves nothing unreleased and unfindable; what an expiry was judged on holds
(`JudgedRightly`). The proof settled the form of `SettledTogether`: a submission none of
whose orders was counted may be closed with one waiting that was joined and whose join
went unanswered (section 4).

**StatementsProofs** — `StatementTypes`, `BilledOnceOnly`, `ChargeStands`, `CreditHolds`,
`HeaderIsTheSum`, for any finite sets of orders and periods. The parts of `Sound`: the
statements, their lines and their charges fit each other (`Books`) and each request fits
them (`Fitting`); as long as a kind of overlap has not happened, the requests of that kind
are apart (`Apart`), and then what each has read is still so (`Relying`): a close's list
still holds every order that is unbilled and no order that is on another statement, its
sum is that of the lines there are, and a submission's balance covers every order that
is owed. Between a line and its claim, and between the lines and the header, the books
are excused by the close that is at it (`LinesClaimed`, `HeadersWritten`).

**SealingProofs** — of the promise, `RegisterIsChain` and `NeverTwoLetters`: the acts of a
determination are a chain, each replacing the one before it, of which at most the last
stands. Of sealing, `SealingTypes`, `SealingKeepsRegister` (it implements `SealRegister`
under its mapping), `EachReplacesTheLast`, `OneSettlement`, `LettersAreStored`,
`ReissuesWereSettled`. The trigger reads the last act of the determination
(`ReplacesTheLast`) because no act is voided twice, each replaces an earlier one of its
own, and one that nothing replaces is the last, if the determination has not slipped
(`ActsInv`). What it read is used later, after other requests recorded and voided, and
`ReadHolds` says what is left of it then: it is a void act of the determination, and it
still is the last one, unless a letter stands, which the indexes refuse, or the
determination slipped. So an act that goes in replaces the last one or its determination
has slipped, which is the register's promise; that no act is replaced twice and no two
letters stand holds without that condition, since an index of its own checks each. An
order is settled once because who settles has the first letter of its determination and
has it alone (`OwnActs`, `ActsApart`), again if it did not slip. `BucketInv` follows a PDF
through the requests: each has its own name (`HoldersApart`), which no act but one given
up has until its own does (`Slot`), so that a removal takes away no letter that stands
(`Stored`), and none is forgotten but by a stop (`NoneLeft`). While nothing stopped, a
determination with letters was settled or its first letter is in the hands of an
invocation (`SettledOrUnderway`).

**FileOutcomeProofs** — of the review, `ReviewTypes`, `OneStory`, `PaidOnce`,
`RefusedStays`. `ReviewInv` needs that an engineer has one session open (`OneOpen`), that
a request decides about a session of its own engineer (`OwnSessions`) and that what a
late credit listed had been decided (`ListedEnded`); with those the log's one row per
session and the session's end are written by the same transaction or not at all.

Of the whole, `RefundedOnce`, `OneOutcome`, `OneStoryInOutcome`. Some of it holds whatever
overlaps (`JobInv`): a refusal is the last decision of its file, since a refused file never
returns (`Refusals`), so one job refunds; jobs that do are of refusals no letter
answers (`JobsOfRefusals`, `RefundsOfRefusals`); and a run that is about to write a refund
down found none, however often it began again (`Counted`). The rest needs that nothing crossed
a letter the order waits for and that none slipped (`Quiet`): then what is awaited is the
last decision and the file has not left it (`LastIsAwaited`), a first letter on its way
stands until it has moved the file (`AllStand`), and what was settled is the last decision,
with the file sealed or delivered, after which nothing is decided any more (`LastIsTold`).
So what was settled is one decision, the last, which delivers a letter, and a refund is for
a refusal no letter answers, which is the last too: there are not both.

Of the two together, `OutcomeImplementsSealing`, `OutcomeKeepsRegister`, `OutcomeSettles`.
Every behaviour of FileOutcome is one of Sealing, with the decisions of the review as its
determinations and the file's statuses as Sealing tells them apart (`LetterFile`: the
three it waits for review in are "elsewhere"). The steps of the letters are Sealing's own
(`SealStepIsOne`); a decision is its `Decide` (`DecisionIsOne`), the review's other moves
its `Wander` or nothing (`ReviewStepIsMove`), what follows a refusal its `GiveBack` or
nothing (`JobStepIsOne`). The theorems of SealingProofs then hold of the composition
through the instance `L`, whose assumption follows from Review's and `OutcomeAssumption`:
the register keeps its promise whoever decides or refunds meanwhile, an order is settled
at most once for each determination that did not slip, and the bucket and the register
agree. The first attempt failed on two steps that Sealing's environment had not, a refund
of the order under its letters and a decision without a letter that refuses the file; it
has them now.

Only model-checked: the liveness properties (`QueueDrains`, `PaidIsRecorded`,
`DeliveredClaimFinishes`, `SealedIsSettledUnlessStopped`), since reasoning under fairness
is out of this prover's reach. Out of reach as well are theorems of the library that take an
operator (the induction above does without them) and recursive operators, of which there
are none in the modules here.

## 7. Plan

Done: the job queue and its mail handlers, the payment path with its promise, release,
refunds, bulk submissions, statements, review, sealing with its promise, and the
composition of the last two; the proofs of section 6.

What would come next, in this order: the field part of a file's life (dispatch, visit,
submission, holds) in front of Review; partner commission from accrual to payout; the
formal refinement of `ReleaseWork` by Release, and of the one-order submission by
OrderLedger.

## 8. Not modelled

- **Field work, dispatch and holds.** Long forms over many tables whose rules are about
  the content of the evidence; the moves of the file they make before
  `evidence_submitted` are not in Review's file.
- **The offline queue** of the field app lives in the browser's IndexedDB, one tab, one
  uploader; the server side of a repeated upload is an upsert.
- **Partner compensation and billing.** Only the cap and the counting of reversals.
- **Order intake, quotes, pricing.** An order starts awaiting payment here; a figure is
  what was agreed. Amounts are abstracted in PaymentEvents and BatchPayments.
- **Sign-in limiter, sessions, second factor, permissions.** Access control, not the
  work's correctness.
- **The rest** of section 1's last rows: single guarded writes, lists and rendering.
- Within the modelled parts: the wording and layout of mail, demonstration and fixture
  modes except suppressed mail, Stripe's signature and account checks, the success mail
  after a pending refund succeeds, the welcome mail of an account whose opening stopped
  (`ops-payments.ts:1050`), approving and paying the production ledger, drafts, fresh
  codes and protocol signatures before a seal, and database errors that the code turns
  into a non-2xx answer before any write, which are `Kill`.
- The job of a refusal is run by one worker at a time in FileOutcome. That a lease can run
  out under a live worker and a second one run the same job beside it is JobQueue's
  (`HeldByOneUnlessOverrun`) and is not composed with it, so `RefusedMoneyGoesBackOnce` says
  nothing of such a pair.
- How long Resend keeps a key is not a number here: it may forget one whenever no claim of
  the row is held. An upload of a PDF whose answer is lost is a `Stop`.
- Three hazards have no property: a claimed event delivered again after its order was
  refunded releases it (0075:194), which the promise allows; the tie of a file's
  status to its letter (0110:53), and a platform refund of a submission that its own event
  counts again (0075:447), both of which section 4 refutes.
