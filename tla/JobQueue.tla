------------------------------ MODULE JobQueue ------------------------------
(***************************************************************************)
(* The durable job queue: the table eng_jobs (migration 0011), enqueue,    *)
(* runBatch and retryDeadJob (src/lib/ops-jobs.ts), the transition rule    *)
(* nextState (src/lib/job-rules.ts) and the every-minute worker route      *)
(* (src/app/api/cron/jobs/route.ts), whose invocations may overlap and may *)
(* be killed by the function timeout.                                      *)
(*                                                                         *)
(* What a handler does is not modelled here: a run ends with one of the    *)
(* three outcomes.  JobHandlers composes this module with two handlers.    *)
(*                                                                         *)
(* Time is relative: a row stores how many ticks are left before its       *)
(* run_after and before its leased_until, and so does a claim.  The order  *)
(* "run_after, id" in which a claim fills its batch is abstracted to any   *)
(* batch of the right size, and so is the order inside a batch.            *)
(***************************************************************************)
EXTENDS Naturals, FiniteSets

CONSTANTS
    Jobs,         \* rows the table can hold
    Keys,         \* (kind, idempotency_key) pairs
    NoKey,        \* the null key of a kind declared "naturally" idempotent
    Callers,      \* requests, each of which calls enqueue once
    Workers,      \* slots for worker invocations
    Nobody,       \* a null leased_by
    MaxAttempts,  \* max_attempts of a row
    BatchSize,    \* BATCH_SIZE
    Lease,        \* LEASE_SECONDS, in ticks
    MaxWait,      \* longest backoff, in ticks
    MaxFaults,    \* bound: killed invocations and lost write-backs
    MaxRetries    \* bound: retries by an operator

ASSUME JobQueueAssumption ==
    /\ IsFiniteSet(Jobs)
    /\ NoKey \notin Keys
    /\ Nobody \notin Workers
    /\ MaxAttempts \in Nat \ {0}
    /\ BatchSize \in Nat \ {0}
    /\ Lease \in Nat \ {0}
    /\ MaxWait \in Nat \ {0}
    /\ MaxFaults \in Nat
    /\ MaxRetries \in Nat

VARIABLES
    job,      \* the rows of eng_jobs
    caller,   \* where each caller of enqueue stands
    batch,    \* the claims each worker invocation still has to run
    faults,   \* how many kills and lost writes have happened
    retries,  \* how many operator retries have happened
    overrun   \* history: some worker has held a claim past its lease

vars == <<job, caller, batch, faults, retries, overrun>>

Statuses == {"absent", "pending", "running", "done", "dead"}
LiveStatuses == {"pending", "running"}
Outcomes == {"done", "retry", "fatal"}

Row == [status : Statuses,
        key : Keys \cup {NoKey},
        attempts : Nat,
        wait : 0 .. MaxWait,
        lease : 0 .. Lease,
        leasedBy : Workers \cup {Nobody}]

\* What a claim returned to the worker and the worker goes on using.
Claim == [job : Jobs, attempts : Nat, left : 0 .. Lease]

AbsentRow == [status |-> "absent", key |-> NoKey, attempts |-> 0,
              wait |-> 0, lease |-> 0, leasedBy |-> Nobody]

Answered == [step |-> "answered", key |-> NoKey]

Live(j) == job[j].status \in LiveStatuses

\* Mutant: an index over pending rows only.
KeyIsFreeOfPending(k, j) ==
    k = NoKey \/ \A i \in Jobs \ {j} : ~(job[i].status = "pending" /\ job[i].key = k)

\* The partial unique index eng_jobs_idempotency: may j be live with key k?
KeyIsFree(k, j) ==
    k = NoKey \/ \A i \in Jobs \ {j} : ~(Live(i) /\ job[i].key = k)

\* Mutants: a claim that takes a running row whose lease still runs, and one that
\* never takes a running row back.
ClaimableUnderLease(j) == job[j].wait = 0 /\ Live(j)
ClaimablePending(j) == job[j].wait = 0 /\ job[j].status = "pending"

Claimable(j) ==
    /\ job[j].wait = 0
    /\ \/ job[j].status = "pending"
       \/ job[j].status = "running" /\ job[j].lease = 0

-----------------------------------------------------------------------------

Init ==
    /\ job = [j \in Jobs |-> AbsentRow]
    /\ caller = [c \in Callers |-> [step |-> "asking", key |-> NoKey]]
    /\ batch = [w \in Workers |-> {}]
    /\ faults = 0
    /\ retries = 0
    /\ overrun = FALSE

(***************************************************************************)
(* enqueue reads the live rows of its key and inserts only if there is     *)
(* none, a row eligible at once (no caller passes runAfter).  An unkeyed   *)
(* kind is inserted without looking.                                       *)
(***************************************************************************)
EnqueueCheck(c, k) ==
    /\ caller[c].step = "asking"
    /\ LET found == k # NoKey /\ \E j \in Jobs : Live(j) /\ job[j].key = k
       IN caller' = [caller EXCEPT ![c] =
             IF found THEN Answered ELSE [step |-> "inserting", key |-> k]]
    /\ UNCHANGED <<job, batch, faults, retries, overrun>>

\* By the insert another caller may have taken the key: the index refuses it
\* (23505), and the answer is "duplicate" all the same.
EnqueueInsert(c) ==
    /\ caller[c].step = "inserting"
    /\ caller' = [caller EXCEPT ![c] = Answered]
    /\ \/ \E j \in Jobs :
            /\ job[j].status = "absent"
            /\ KeyIsFree(caller[c].key, j)
            /\ job' = [job EXCEPT ![j] = [AbsentRow EXCEPT !.status = "pending",
                                                           !.key = caller[c].key]]
       \/ /\ \A j \in Jobs : job[j].status = "absent" => ~KeyIsFree(caller[c].key, j)
          /\ UNCHANGED job
    /\ UNCHANGED <<batch, faults, retries, overrun>>

\* A read or an insert that fails refuses the enqueue: the job never existed.
EnqueueRefused(c) ==
    /\ caller[c].step # "answered"
    /\ caller' = [caller EXCEPT ![c] = Answered]
    /\ UNCHANGED <<job, batch, faults, retries, overrun>>

Leased(row, w) ==
    [row EXCEPT !.status = "running", !.leasedBy = w, !.lease = Lease,
                !.attempts = @ + 1]

\* eng_claim_jobs: one statement, at most BatchSize of the eligible rows.
ClaimBatch(w) ==
    /\ batch[w] = {}
    /\ \E S \in SUBSET {j \in Jobs : Claimable(j)} :
         /\ S # {}
         /\ Cardinality(S) <= BatchSize
         /\ Cardinality(S) < BatchSize => \A j \in Jobs : Claimable(j) => j \in S
         /\ job' = [j \in Jobs |-> IF j \in S THEN Leased(job[j], w) ELSE job[j]]
         /\ batch' = [batch EXCEPT ![w] =
                        {[job |-> j, attempts |-> job[j].attempts + 1,
                          left |-> Lease] : j \in S}]
    /\ UNCHANGED <<caller, faults, retries, overrun>>

(***************************************************************************)
(* nextState: where a row goes, from the attempts read at the claim.       *)
(***************************************************************************)
NextStatus(attempts, outcome) ==
    CASE outcome = "done"  -> "done"
      [] outcome = "fatal" -> "dead"
      [] outcome = "retry" -> IF attempts >= MaxAttempts THEN "dead" ELSE "pending"

\* backoffMs: the delay before the next attempt, jittered and capped.
Waits(status) == IF status = "pending" THEN 1 .. MaxWait ELSE {0}

\* The write-back at the end of a run: by id alone, whoever holds the row now.
\* Its error is not read, so an update the index refuses is an update skipped.
WriteBack(c, outcome) ==
    LET status == NextStatus(c.attempts, outcome)
        j == c.job
    IN IF status = "pending" /\ ~KeyIsFree(job[j].key, j)
       THEN UNCHANGED job
       ELSE \E wait \in Waits(status) :
              job' = [job EXCEPT ![j] = [@ EXCEPT !.status = status,
                                                  !.wait = wait,
                                                  !.lease = 0,
                                                  !.leasedBy = Nobody]]

\* A handler ended and the worker records where its row goes.
Finish(w, c, outcome) ==
    /\ c \in batch[w]
    /\ WriteBack(c, outcome)
    /\ batch' = [batch EXCEPT ![w] = @ \ {c}]
    /\ UNCHANGED <<caller, faults, retries, overrun>>

\* The same, with the update lost on the way to the database.
FinishUnrecorded(w, c) ==
    /\ c \in batch[w]
    /\ faults < MaxFaults
    /\ faults' = faults + 1
    /\ batch' = [batch EXCEPT ![w] = @ \ {c}]
    /\ UNCHANGED <<job, caller, retries, overrun>>

\* The function timeout kills an invocation with its rows still leased.
Kill(w) ==
    /\ batch[w] # {}
    /\ faults < MaxFaults
    /\ faults' = faults + 1
    /\ batch' = [batch EXCEPT ![w] = {}]
    /\ UNCHANGED <<job, caller, retries, overrun>>

\* Mutant: a retry that forgets to reset the attempts.
RetryKeepingAttempts(j) ==
    /\ job[j].status = "dead"
    /\ KeyIsFree(job[j].key, j)
    /\ retries < MaxRetries
    /\ retries' = retries + 1
    /\ job' = [job EXCEPT ![j] = [@ EXCEPT !.status = "pending", !.wait = 0,
                                           !.lease = 0, !.leasedBy = Nobody]]
    /\ UNCHANGED <<caller, batch, faults, overrun>>

\* retryDeadJob, guarded by status = dead in the update itself.
RetryDeadJob(j) ==
    /\ job[j].status = "dead"
    /\ KeyIsFree(job[j].key, j)
    /\ retries < MaxRetries
    /\ retries' = retries + 1
    /\ job' = [job EXCEPT ![j] = [@ EXCEPT !.status = "pending", !.attempts = 0,
                                           !.wait = 0, !.lease = 0,
                                           !.leasedBy = Nobody]]
    /\ UNCHANGED <<caller, batch, faults, overrun>>

Less(n) == IF n = 0 THEN 0 ELSE n - 1

AgedRow(row) == [row EXCEPT !.wait = Less(@), !.lease = Less(@)]

AgedBatch(b) == {[c EXCEPT !.left = Less(@)] : c \in b}

\* The database clock moves.
Tick ==
    /\ \E j \in Jobs : job[j].wait > 0 \/ job[j].lease > 0
    /\ job' = [j \in Jobs |-> AgedRow(job[j])]
    /\ batch' = [w \in Workers |-> AgedBatch(batch[w])]
    /\ overrun' = (overrun \/ \E w \in Workers : \E c \in batch[w] : c.left <= 1)
    /\ UNCHANGED <<caller, faults, retries>>

Next ==
    \/ \E c \in Callers, k \in Keys \cup {NoKey} : EnqueueCheck(c, k)
    \/ \E c \in Callers : EnqueueInsert(c) \/ EnqueueRefused(c)
    \/ \E w \in Workers : ClaimBatch(w)
    \/ \E w \in Workers : \E c \in batch[w], o \in Outcomes : Finish(w, c, o)
    \/ \E w \in Workers : \E c \in batch[w] : FinishUnrecorded(w, c)
    \/ \E w \in Workers : Kill(w)
    \/ \E j \in Jobs : RetryDeadJob(j)
    \/ Tick

Spec == Init /\ [][Next]_vars

(***************************************************************************)
(* The route is called every minute and its handlers return or are killed, *)
(* and the clock moves.  Nothing obliges a caller, an operator or a fault. *)
(***************************************************************************)
Fairness ==
    /\ WF_vars(Tick)
    /\ \A w \in Workers :
         /\ WF_vars(ClaimBatch(w))
         /\ WF_vars(\E c \in batch[w], o \in Outcomes : Finish(w, c, o))

FairSpec == Spec /\ Fairness

-----------------------------------------------------------------------------

\* Every variable keeps its shape: the columns of eng_jobs and the records
\* runBatch and enqueue carry between their awaits.
TypeOK ==
    /\ job \in [Jobs -> Row]
    /\ caller \in [Callers -> [step : {"asking", "inserting", "answered"}, key : Keys \cup {NoKey}]]
    /\ batch \in [Workers -> SUBSET Claim]
    /\ faults \in Nat
    /\ retries \in Nat
    /\ overrun \in BOOLEAN

\* One live row per key, whatever the race between two enqueues, an enqueue and
\* a stale write-back that reopens a finished row, or an operator's retry of a
\* dead row whose work was queued again meanwhile.
OneLiveRowPerKey ==
    \A i, j \in Jobs :
        (Live(i) /\ Live(j) /\ job[i].key = job[j].key /\ job[i].key # NoKey)
            => i = j

\* "Each invocation gets its own id so the lease says which worker holds a
\* job": a worker whose lease has not run out is the one its row names.
LeaseNamesHolder ==
    \A w \in Workers : \A c \in batch[w] :
        c.left > 0 => /\ job[c.job].status = "running"
                      /\ job[c.job].leasedBy = w

\* As long as no worker has outlived a lease (the lease is longer than the
\* slowest batch, which is what LEASE_SECONDS is chosen for), a job is held by
\* at most one worker and its row says which, kills and lost writes included.
HeldByOneUnlessOverrun ==
    ~overrun =>
        /\ LeaseNamesHolder
        /\ \A v, w \in Workers : \A c \in batch[v], d \in batch[w] :
               c.job = d.job => v = w /\ c = d

\* The attempts of a row stay within max_attempts while no worker is killed,
\* loses a write or outlives a lease.
AttemptsBoundedWithoutFaults ==
    (faults = 0 /\ ~overrun) => \A j \in Jobs : job[j].attempts <= MaxAttempts

\* A finished row is history: while no worker has outlived a lease, nothing
\* changes a done row, and a dead row only comes back by an operator's retry,
\* with its attempts counted from zero.
FinishedRowsStayFinished ==
    [][~overrun' => \A j \in Jobs :
          /\ job[j].status = "done" => job'[j] = job[j]
          /\ (job[j].status = "dead" /\ job'[j] # job[j]) =>
                 /\ job'[j].status = "pending"
                 /\ job'[j].attempts = 0
                 /\ retries' = retries + 1]_vars

\* No job is lost and none runs for ever: with finitely many faults and
\* operator retries every queued row ends done or dead and stays so, also when
\* workers are killed mid-run or outlive their leases.
QueueDrains == <>[](\A j \in Jobs : ~Live(j))

=============================================================================
