------------------------- MODULE JobHandlersProofs --------------------------
(***************************************************************************)
(* What holds of the job queue for any number of rows, keys, callers,      *)
(* workers, attempts, ticks, faults and operator retries, and then of the  *)
(* mail it carries, for any notifications, kills, lost answers and lost    *)
(* stamps: the handlers only use the queue as the queue allows, an email   *)
(* job is one message, and a done job has reached somebody.                *)
(***************************************************************************)
EXTENDS JobHandlers, FiniteSetTheorems, TLAPS

-----------------------------------------------------------------------------
\* The queue.

\* While no lease has been outlived, a claim still in a worker's hands and its
\* row agree in every column the claim wrote.
HeldInv ==
    ~overrun => \A w \in Workers : \A c \in batch[w] :
        /\ c.left > 0
        /\ job[c.job].status = "running"
        /\ job[c.job].leasedBy = w
        /\ job[c.job].lease = c.left
        /\ job[c.job].attempts = c.attempts

\* Without faults and overruns a running row is in somebody's hands, so it is
\* not claimed a second time, and a pending row has an attempt left.
AttemptsInv ==
    (faults = 0 /\ ~overrun) => \A j \in Jobs :
        /\ job[j].attempts <= MaxAttempts
        /\ job[j].status = "pending" => job[j].attempts < MaxAttempts
        /\ job[j].status = "running" =>
               \E w \in Workers : \E c \in batch[w] : c.job = j

\* A finished row waits for nothing and is leased to nobody, so the clock does
\* not touch it.
SettledInv ==
    \A j \in Jobs : job[j].status \in {"done", "dead"} =>
        job[j].wait = 0 /\ job[j].lease = 0

IInv == TypeOK /\ OneLiveRowPerKey /\ HeldInv /\ AttemptsInv /\ SettledInv

-----------------------------------------------------------------------------

\* The constants in the ranges of the columns.
LEMMA Bounds == /\ Lease \in 0 .. Lease
                /\ 0 \in 0 .. Lease
                /\ 0 \in 0 .. MaxWait
                /\ 0 \in Nat
BY JobQueueAssumption

\* What the queue writes to one row keeps the row a row.
LEMMA RowWrites ==
    ASSUME NEW row \in Row
    PROVE  /\ \A w \in Workers : Leased(row, w) \in Row
           /\ AgedRow(row) \in Row
           /\ \A status \in Statuses : \A wait \in 0 .. MaxWait :
                 [row EXCEPT !.status = status, !.wait = wait, !.lease = 0,
                             !.leasedBy = Nobody] \in Row
           /\ [row EXCEPT !.status = "pending", !.attempts = 0, !.wait = 0, !.lease = 0,
                          !.leasedBy = Nobody] \in Row
<1>1. ASSUME NEW w \in Workers PROVE Leased(row, w) \in Row
  <2>1. row.attempts + 1 \in Nat
    BY DEF Row
  <2>2. QED
    BY <2>1, Bounds DEF Row, Leased, Statuses
<1>2. /\ Less(row.wait) \in 0 .. MaxWait
      /\ Less(row.lease) \in 0 .. Lease
  BY JobQueueAssumption DEF Row, Less
<1>3. AgedRow(row) \in Row
  BY <1>2 DEF Row, AgedRow
<1>4. ASSUME NEW status \in Statuses, NEW wait \in 0 .. MaxWait
      PROVE  [row EXCEPT !.status = status, !.wait = wait, !.lease = 0,
                         !.leasedBy = Nobody] \in Row
  BY Bounds DEF Row
<1>5. [row EXCEPT !.status = "pending", !.attempts = 0, !.wait = 0, !.lease = 0,
                  !.leasedBy = Nobody] \in Row
  BY Bounds DEF Row, Statuses
<1>6. QED
  BY <1>1, <1>3, <1>4, <1>5

\* nextState answers with one of three statuses, and only a pending row waits.
LEMMA NextStatusType ==
    ASSUME NEW attempts \in Nat, NEW outcome \in Outcomes
    PROVE  /\ NextStatus(attempts, outcome) \in {"pending", "done", "dead"}
           /\ Waits(NextStatus(attempts, outcome)) \subseteq 0 .. MaxWait
           /\ NextStatus(attempts, outcome) = "pending" => attempts < MaxAttempts
BY JobQueueAssumption DEF NextStatus, Waits, Outcomes

\* A write-back either leaves the table alone or writes one row as nextState
\* says, and in the second case the index has agreed.
LEMMA WriteBackRow ==
    ASSUME TypeOK, NEW c \in Claim, NEW outcome \in Outcomes, WriteBack(c, outcome)
    PROVE  \/ /\ job' = job
              /\ NextStatus(c.attempts, outcome) = "pending"
              /\ ~KeyIsFree(job[c.job].key, c.job)
           \/ /\ NextStatus(c.attempts, outcome) = "pending" =>
                      KeyIsFree(job[c.job].key, c.job)
              /\ \E wait \in 0 .. MaxWait :
                    /\ NextStatus(c.attempts, outcome) # "pending" => wait = 0
                    /\ job' = [job EXCEPT ![c.job] =
                              [job[c.job] EXCEPT
                                  !.status = NextStatus(c.attempts, outcome),
                                  !.wait = wait, !.lease = 0, !.leasedBy = Nobody]]
<1>1. c.job \in Jobs /\ c.attempts \in Nat
  BY DEF Claim
<1>2. Waits(NextStatus(c.attempts, outcome)) \subseteq 0 .. MaxWait
  BY <1>1, NextStatusType
<1>3. \A wait \in Waits(NextStatus(c.attempts, outcome)) :
         NextStatus(c.attempts, outcome) # "pending" => wait = 0
  BY DEF Waits
<1>4. QED
  BY <1>1, <1>2, <1>3 DEF WriteBack

-----------------------------------------------------------------------------

\* The empty queue satisfies the inductive invariant.
LEMMA InitIInv == Init => IInv
<1> SUFFICES ASSUME Init PROVE IInv
  OBVIOUS
<1>2. AbsentRow \in Row
  BY Bounds DEF AbsentRow, Row, Statuses
<1>3. TypeOK
  <2>1. job \in [Jobs -> Row]
    BY <1>2 DEF Init
  <2>2. caller \in [Callers -> [step : {"asking", "inserting", "answered"},
                               key : Keys \cup {NoKey}]]
    BY DEF Init
  <2>3. batch \in [Workers -> SUBSET Claim]
    BY DEF Init
  <2>4. QED
    BY <2>1, <2>2, <2>3 DEF Init, TypeOK
<1>4. /\ \A j \in Jobs : job[j].status = "absent" /\ job[j].attempts = 0
      /\ \A w \in Workers : batch[w] = {}
  BY DEF Init, AbsentRow
<1>5. OneLiveRowPerKey /\ HeldInv
  BY <1>4 DEF OneLiveRowPerKey, HeldInv, Live, LiveStatuses
<1>6. AttemptsInv
  BY <1>4, JobQueueAssumption DEF AttemptsInv
<1>7. SettledInv
  BY <1>4 DEF SettledInv
<1>8. QED
  BY <1>3, <1>5, <1>6, <1>7 DEF IInv

\* Every action keeps the types.
LEMMA TypeStep == TypeOK /\ [Next]_vars => TypeOK'
<1>1. SUFFICES ASSUME TypeOK, [Next]_vars PROVE TypeOK'
  OBVIOUS
<1> USE DEF TypeOK
<1>2. ASSUME NEW c \in Callers, NEW k \in Keys \cup {NoKey}, EnqueueCheck(c, k)
      PROVE  TypeOK'
  BY <1>1, <1>2 DEF EnqueueCheck, Answered
<1>3. ASSUME NEW c \in Callers, EnqueueInsert(c)
      PROVE  TypeOK'
  <2>1. caller[c].key \in Keys \cup {NoKey}
    BY <1>1
  <2>2. [AbsentRow EXCEPT !.status = "pending", !.key = caller[c].key] \in Row
    BY <2>1, Bounds DEF Row, AbsentRow, Statuses
  <2>3. QED
    BY <1>1, <1>3, <2>2 DEF EnqueueInsert, Answered
<1>4. ASSUME NEW c \in Callers, EnqueueRefused(c)
      PROVE  TypeOK'
  BY <1>1, <1>4 DEF EnqueueRefused, Answered
<1>5. ASSUME NEW w \in Workers, ClaimBatch(w)
      PROVE  TypeOK'
  <2>1. PICK S \in SUBSET {j \in Jobs : Claimable(j)} :
          /\ job' = [j \in Jobs |-> IF j \in S THEN Leased(job[j], w) ELSE job[j]]
          /\ batch' = [batch EXCEPT ![w] =
                         {[job |-> j, attempts |-> job[j].attempts + 1,
                           left |-> Lease] : j \in S}]
    BY <1>5 DEF ClaimBatch
  <2>2. job' \in [Jobs -> Row]
    BY <1>1, <2>1, RowWrites
  <2>3. {[job |-> j, attempts |-> job[j].attempts + 1, left |-> Lease] : j \in S}
            \subseteq Claim
    BY <1>1, JobQueueAssumption DEF Claim, Row
  <2>4. QED
    BY <1>1, <1>5, <2>1, <2>2, <2>3 DEF ClaimBatch
<1>6. ASSUME NEW w \in Workers, NEW c \in batch[w], NEW o \in Outcomes,
             Finish(w, c, o)
      PROVE  TypeOK'
  <2>1. c \in Claim /\ c.job \in Jobs /\ c.attempts \in Nat
    BY <1>1 DEF Claim
  <2>2. NextStatus(c.attempts, o) \in Statuses
    BY <2>1, NextStatusType DEF Statuses
  <2>3. job' \in [Jobs -> Row]
    <3>1. CASE job' = job
      BY <1>1, <3>1
    <3>2. CASE job' # job
      <4>1. PICK wait \in 0 .. MaxWait :
              job' = [job EXCEPT ![c.job] =
                        [job[c.job] EXCEPT !.status = NextStatus(c.attempts, o),
                                           !.wait = wait, !.lease = 0,
                                           !.leasedBy = Nobody]]
        BY <1>1, <1>6, <2>1, <3>2, WriteBackRow DEF Finish
      <4>2. QED
        BY <1>1, <2>1, <2>2, <4>1, RowWrites
    <3>3. QED
      BY <3>1, <3>2
  <2>4. QED
    BY <1>1, <1>6, <2>3 DEF Finish
<1>7. ASSUME NEW w \in Workers, NEW c \in batch[w], FinishUnrecorded(w, c)
      PROVE  TypeOK'
  BY <1>1, <1>7 DEF FinishUnrecorded
<1>8. ASSUME NEW w \in Workers, Kill(w)
      PROVE  TypeOK'
  BY <1>1, <1>8 DEF Kill
<1>9. ASSUME NEW j \in Jobs, RetryDeadJob(j)
      PROVE  TypeOK'
  <2>1. [job[j] EXCEPT !.status = "pending", !.attempts = 0, !.wait = 0,
                       !.lease = 0, !.leasedBy = Nobody] \in Row
    <3>1. job[j] \in Row
      BY <1>1
    <3>2. QED
      BY <3>1, RowWrites
  <2>2. QED
    BY <1>1, <1>9, <2>1 DEF RetryDeadJob
<1>10. ASSUME Tick
       PROVE  TypeOK'
  <2>1. job' \in [Jobs -> Row]
    BY <1>1, <1>10, RowWrites DEF Tick
  <2>2. \A c \in Claim : [c EXCEPT !.left = Less(@)] \in Claim
    BY JobQueueAssumption DEF Claim, Less
  <2>3. batch' \in [Workers -> SUBSET Claim]
    BY <1>1, <1>10, <2>2 DEF Tick, AgedBatch
  <2>4. QED
    BY <1>1, <1>10, <2>1, <2>3 DEF Tick
<1>11. CASE UNCHANGED vars
  BY <1>1, <1>11 DEF vars
<1>12. QED
  BY <1>1, <1>2, <1>3, <1>4, <1>5, <1>6, <1>7, <1>8, <1>9, <1>10, <1>11 DEF Next

\* The columns of eng_jobs, the callers of enqueue and the claims of the workers
\* keep their types in every run of the queue.
THEOREM TypeCorrect == Spec => []TypeOK
<1>1. Init => TypeOK
  BY InitIInv DEF IInv
<1>2. QED
  BY <1>1, TypeStep, PTL DEF Spec

-----------------------------------------------------------------------------

\* A step that gives no row a new key and brings no row to life keeps the index.
LEMMA NoneRevived ==
    ASSUME OneLiveRowPerKey,
           \A j \in Jobs : Live(j)' => Live(j) /\ job'[j].key = job[j].key
    PROVE  OneLiveRowPerKey'
BY DEF OneLiveRowPerKey, Live

\* A step that writes one row keeps it if the key was free for that row.
LEMMA OneRevived ==
    ASSUME OneLiveRowPerKey, NEW j \in Jobs,
           \A i \in Jobs \ {j} : job'[i] = job[i],
           KeyIsFree(job'[j].key, j)
    PROVE  OneLiveRowPerKey'
BY DEF OneLiveRowPerKey, KeyIsFree, Live

\* Every write that can bring a row to life goes through the index.
LEMMA OneLiveStep == TypeOK /\ OneLiveRowPerKey /\ [Next]_vars => OneLiveRowPerKey'
<1> SUFFICES ASSUME TypeOK, OneLiveRowPerKey, [Next]_vars PROVE OneLiveRowPerKey'
  OBVIOUS
<1>1. CASE job' = job
  BY <1>1 DEF OneLiveRowPerKey, Live
<1>2. ASSUME NEW c \in Callers, EnqueueInsert(c), job' # job
      PROVE  OneLiveRowPerKey'
  <2>1. PICK j \in Jobs :
          /\ KeyIsFree(caller[c].key, j)
          /\ job' = [job EXCEPT ![j] = [AbsentRow EXCEPT !.status = "pending",
                                                        !.key = caller[c].key]]
    BY <1>2 DEF EnqueueInsert
  <2>2. job'[j].key = caller[c].key
    BY <2>1 DEF TypeOK, AbsentRow
  <2>3. QED
    BY <2>1, <2>2, OneRevived DEF TypeOK
<1>3. ASSUME NEW w \in Workers, ClaimBatch(w)
      PROVE  OneLiveRowPerKey'
  <2>1. PICK S \in SUBSET {j \in Jobs : Claimable(j)} :
          job' = [j \in Jobs |-> IF j \in S THEN Leased(job[j], w) ELSE job[j]]
    BY <1>3 DEF ClaimBatch
  <2>2. ASSUME NEW j \in Jobs, Live(j)'
        PROVE  Live(j) /\ job'[j].key = job[j].key
    <3>1. CASE j \in S
      <4>1. Live(j)
        BY <3>1 DEF Claimable, Live, LiveStatuses
      <4>2. job'[j].key = job[j].key
        BY <2>1, <3>1 DEF Leased, TypeOK, Row
      <4>3. QED
        BY <4>1, <4>2
    <3>2. CASE j \notin S
      BY <2>1, <2>2, <3>2 DEF Live
    <3>3. QED
      BY <3>1, <3>2
  <2>3. QED
    BY <2>2, NoneRevived
<1>4. ASSUME NEW w \in Workers, NEW c \in batch[w], NEW o \in Outcomes,
             Finish(w, c, o), job' # job
      PROVE  OneLiveRowPerKey'
  <2>1. c \in Claim /\ c.job \in Jobs /\ c.attempts \in Nat
    BY DEF TypeOK, Claim
  <2> DEFINE status == NextStatus(c.attempts, o)
  <2>2. status = "pending" => KeyIsFree(job[c.job].key, c.job)
    BY <1>4, <2>1, WriteBackRow DEF Finish
  <2>3. PICK wait \in 0 .. MaxWait :
          job' = [job EXCEPT ![c.job] =
                    [job[c.job] EXCEPT !.status = status, !.wait = wait,
                                       !.lease = 0, !.leasedBy = Nobody]]
    BY <1>4, <2>1, WriteBackRow DEF Finish
  <2>4. /\ job'[c.job].key = job[c.job].key
        /\ job'[c.job].status = status
        /\ \A i \in Jobs \ {c.job} : job'[i] = job[i]
    BY <2>1, <2>3 DEF TypeOK, Row
  <2>5. CASE status = "pending"
    BY <2>1, <2>2, <2>4, <2>5, OneRevived
  <2>6. CASE status # "pending"
    <3>1. status \notin LiveStatuses
      BY <2>1, <2>6, NextStatusType DEF LiveStatuses
    <3>2. QED
      BY <2>4, <3>1, NoneRevived DEF Live
  <2>7. QED
    BY <2>5, <2>6
<1>5. ASSUME NEW j \in Jobs, RetryDeadJob(j)
      PROVE  OneLiveRowPerKey'
  <2>1. /\ job'[j].key = job[j].key
        /\ \A i \in Jobs \ {j} : job'[i] = job[i]
    BY <1>5 DEF RetryDeadJob, TypeOK, Row
  <2>2. KeyIsFree(job[j].key, j)
    BY <1>5 DEF RetryDeadJob
  <2>3. QED
    BY <2>1, <2>2, OneRevived
<1>6. ASSUME Tick
      PROVE  OneLiveRowPerKey'
  <2>1. \A j \in Jobs : job'[j].status = job[j].status /\ job'[j].key = job[j].key
    BY <1>6 DEF Tick, AgedRow, TypeOK, Row
  <2>2. QED
    BY <2>1, NoneRevived DEF Live
<1>7. QED
  <2>1. ASSUME NEW c \in Callers, NEW k \in Keys \cup {NoKey}, EnqueueCheck(c, k)
        PROVE  job' = job
    BY <2>1 DEF EnqueueCheck
  <2>2. ASSUME NEW c \in Callers, EnqueueRefused(c)
        PROVE  job' = job
    BY <2>2 DEF EnqueueRefused
  <2>3. ASSUME NEW w \in Workers, NEW c \in batch[w], FinishUnrecorded(w, c)
        PROVE  job' = job
    BY <2>3 DEF FinishUnrecorded
  <2>4. ASSUME NEW w \in Workers, Kill(w)
        PROVE  job' = job
    BY <2>4 DEF Kill
  <2>5. CASE UNCHANGED vars
    BY <1>1, <2>5 DEF vars
  <2>6. QED
    BY <1>1, <1>2, <1>3, <1>4, <1>5, <1>6, <2>1, <2>2, <2>3, <2>4, <2>5 DEF Next

-----------------------------------------------------------------------------

\* While no lease has been outlived a row is in one worker's hands, once.
LEMMA HeldOnce ==
    ASSUME TypeOK, HeldInv, ~overrun,
           NEW v \in Workers, NEW w \in Workers, NEW c \in batch[v], NEW d \in batch[w],
           c.job = d.job
    PROVE  v = w /\ c = d
<1>1. c \in Claim /\ d \in Claim
  BY DEF TypeOK
<1>2. v = w /\ c.attempts = d.attempts /\ c.left = d.left
  BY DEF HeldInv
<1>3. QED
  BY <1>1, <1>2 DEF Claim

\* The history of overruns and the count of faults only grow.
LEMMA Monotone ==
    ASSUME TypeOK, [Next]_vars
    PROVE  (overrun => overrun') /\ (faults' = 0 => faults = 0)
<1>1. CASE UNCHANGED <<faults, overrun>>
  BY <1>1
<1>2. ASSUME faults' = faults + 1, overrun' = overrun
      PROVE  (overrun => overrun') /\ (faults' = 0 => faults = 0)
  BY <1>2 DEF TypeOK
<1>3. CASE Tick
  BY <1>3 DEF Tick
<1>4. QED
  BY <1>1, <1>2, <1>3
  DEF Next, vars, EnqueueCheck, EnqueueInsert, EnqueueRefused, ClaimBatch, Finish,
      FinishUnrecorded, Kill, RetryDeadJob

\* Every action keeps claims and rows in agreement unless a lease is outlived.
LEMMA HeldStep == TypeOK /\ HeldInv /\ [Next]_vars => HeldInv'
<1> SUFFICES ASSUME TypeOK, HeldInv, [Next]_vars, ~overrun'
             PROVE  \A w \in Workers : \A c \in batch'[w] :
                      /\ c.left > 0
                      /\ job'[c.job].status = "running"
                      /\ job'[c.job].leasedBy = w
                      /\ job'[c.job].lease = c.left
                      /\ job'[c.job].attempts = c.attempts
  BY DEF HeldInv
<1> DEFINE Agree(w, c) == /\ c.left > 0
                          /\ job'[c.job].status = "running"
                          /\ job'[c.job].leasedBy = w
                          /\ job'[c.job].lease = c.left
                          /\ job'[c.job].attempts = c.attempts
<1>1. ~overrun
  BY Monotone
<1>2. \A w \in Workers : \A c \in batch[w] :
        /\ c \in Claim /\ c.job \in Jobs /\ c.left > 0
        /\ job[c.job].status = "running"
        /\ job[c.job].leasedBy = w
        /\ job[c.job].lease = c.left
        /\ job[c.job].attempts = c.attempts
  BY <1>1 DEF HeldInv, TypeOK, Claim
<1>3. ASSUME \A w \in Workers : batch'[w] \subseteq batch[w],
             \A w \in Workers : \A c \in batch'[w] : job'[c.job] = job[c.job]
      PROVE  \A w \in Workers : \A c \in batch'[w] : Agree(w, c)
  BY <1>2, <1>3
<1>4. ASSUME NEW c \in Callers, EnqueueInsert(c)
      PROVE  \A w \in Workers : \A d \in batch'[w] : Agree(w, d)
  <2>1. \A w \in Workers : \A d \in batch'[w] : job'[d.job] = job[d.job]
    BY <1>2, <1>4 DEF EnqueueInsert, TypeOK
  <2>2. QED
    BY <1>3, <1>4, <2>1 DEF EnqueueInsert
<1>5. ASSUME NEW w \in Workers, ClaimBatch(w)
      PROVE  \A v \in Workers : \A c \in batch'[v] : Agree(v, c)
  <2>1. PICK S \in SUBSET {j \in Jobs : Claimable(j)} :
          /\ job' = [j \in Jobs |-> IF j \in S THEN Leased(job[j], w) ELSE job[j]]
          /\ batch' = [batch EXCEPT ![w] =
                         {[job |-> j, attempts |-> job[j].attempts + 1,
                           left |-> Lease] : j \in S}]
    BY <1>5 DEF ClaimBatch
  <2>2. ASSUME NEW c \in batch'[w]
        PROVE  Agree(w, c)
    <3>1. PICK j \in S : c = [job |-> j, attempts |-> job[j].attempts + 1, left |-> Lease]
      BY <2>1, <2>2 DEF TypeOK
    <3>2. job'[j] = Leased(job[j], w)
      BY <2>1, <3>1
    <3>3. /\ job'[j].status = "running"
          /\ job'[j].leasedBy = w
          /\ job'[j].lease = Lease
          /\ job'[j].attempts = job[j].attempts + 1
      BY <3>2 DEF Leased, TypeOK, Row
    <3>4. Lease > 0
      BY JobQueueAssumption
    <3>5. QED
      BY <3>1, <3>3, <3>4
  <2>3. ASSUME NEW v \in Workers \ {w}, NEW c \in batch'[v]
        PROVE  Agree(v, c)
    <3>1. c \in batch[v]
      BY <2>1, <2>3 DEF TypeOK
    <3>2. job[c.job].lease # 0 /\ job[c.job].status # "pending"
      BY <1>2, <3>1 DEF Claim
    <3>3. c.job \notin S
      BY <3>2 DEF Claimable
    <3>4. QED
      BY <1>2, <2>1, <3>1, <3>3
  <2>4. QED
    BY <2>2, <2>3
<1>6. ASSUME NEW w \in Workers, NEW c \in batch[w], NEW o \in Outcomes, Finish(w, c, o)
      PROVE  \A v \in Workers : \A d \in batch'[v] : Agree(v, d)
  <2>1. \A v \in Workers : batch'[v] \subseteq batch[v]
    BY <1>6 DEF Finish, TypeOK
  <2>2. \A v \in Workers : \A d \in batch'[v] : d.job # c.job
    <3>1. \A v \in Workers : \A d \in batch'[v] : v = w => d # c
      BY <1>6 DEF Finish, TypeOK
    <3>2. QED
      BY <1>1, <2>1, <3>1, HeldOnce
  <2>3. \A i \in Jobs : i # c.job => job'[i] = job[i]
    <3>1. CASE job' = job
      BY <3>1
    <3>2. CASE job' # job
      <4>1. PICK wait \in 0 .. MaxWait :
              job' = [job EXCEPT ![c.job] =
                        [job[c.job] EXCEPT !.status = NextStatus(c.attempts, o),
                                           !.wait = wait, !.lease = 0,
                                           !.leasedBy = Nobody]]
        <5>1. c \in Claim
          BY <1>2
        <5>2. QED
          BY <1>6, <3>2, <5>1, WriteBackRow DEF Finish
      <4>2. QED
        BY <4>1 DEF TypeOK
    <3>3. QED
      BY <3>1, <3>2
  <2>4. QED
    BY <1>2, <1>3, <2>1, <2>2, <2>3
<1>7. ASSUME NEW w \in Workers, NEW c \in batch[w], FinishUnrecorded(w, c)
      PROVE  \A v \in Workers : \A d \in batch'[v] : Agree(v, d)
  BY <1>3, <1>7 DEF FinishUnrecorded, TypeOK
<1>8. ASSUME NEW w \in Workers, Kill(w)
      PROVE  \A v \in Workers : \A d \in batch'[v] : Agree(v, d)
  BY <1>3, <1>8 DEF Kill, TypeOK
<1>9. ASSUME NEW j \in Jobs, RetryDeadJob(j)
      PROVE  \A v \in Workers : \A d \in batch'[v] : Agree(v, d)
  <2>1. \A v \in Workers : \A d \in batch'[v] : job'[d.job] = job[d.job]
    BY <1>2, <1>9 DEF RetryDeadJob, TypeOK
  <2>2. QED
    BY <1>3, <1>9, <2>1 DEF RetryDeadJob
<1>10. ASSUME Tick
       PROVE  \A v \in Workers : \A d \in batch'[v] : Agree(v, d)
  <2>1. ASSUME NEW v \in Workers, NEW d \in batch'[v]
        PROVE  Agree(v, d)
    <3>1. PICK c \in batch[v] : d = [c EXCEPT !.left = Less(@)]
      BY <1>10, <2>1 DEF Tick, AgedBatch
    <3>2. c.left \in Nat /\ c.left > 1
      <4>1. c.left \in 0 .. Lease
        BY <1>2 DEF Claim
      <4>2. ~(c.left <= 1)
        BY <1>10 DEF Tick
      <4>3. QED
        BY <4>1, <4>2, JobQueueAssumption
    <3>3. /\ d.job = c.job /\ d.attempts = c.attempts /\ d.left = c.left - 1
          /\ d.left > 0
      BY <1>2, <3>1, <3>2 DEF Less, Claim
    <3>4. job'[c.job] = AgedRow(job[c.job])
      BY <1>2, <1>10 DEF Tick
    <3>5. job[c.job] \in Row
      BY <1>2 DEF TypeOK
    <3>6. /\ job'[c.job].status = job[c.job].status
          /\ job'[c.job].leasedBy = job[c.job].leasedBy
          /\ job'[c.job].attempts = job[c.job].attempts
          /\ job'[c.job].lease = Less(job[c.job].lease)
      BY <3>4, <3>5 DEF AgedRow, Row
    <3>7. Less(c.left) = c.left - 1
      BY <3>2 DEF Less
    <3>8. QED
      BY <1>2, <3>3, <3>6, <3>7
  <2>2. QED
    BY <2>1
<1>11. QED
  <2>1. ASSUME NEW c \in Callers, NEW k \in Keys \cup {NoKey}, EnqueueCheck(c, k)
        PROVE  job' = job /\ batch' = batch
    BY <2>1 DEF EnqueueCheck
  <2>2. ASSUME NEW c \in Callers, EnqueueRefused(c)
        PROVE  job' = job /\ batch' = batch
    BY <2>2 DEF EnqueueRefused
  <2>3. CASE job' = job /\ batch' = batch
    BY <1>3, <2>3
  <2>4. CASE UNCHANGED vars
    BY <2>3, <2>4 DEF vars
  <2>5. QED
    BY <1>4, <1>5, <1>6, <1>7, <1>8, <1>9, <1>10, <2>1, <2>2, <2>3, <2>4 DEF Next

-----------------------------------------------------------------------------

\* Every action keeps the attempts within their bound while nothing has failed.
LEMMA AttemptsStep == IInv /\ [Next]_vars => AttemptsInv'
<1> SUFFICES ASSUME IInv, [Next]_vars, faults' = 0, ~overrun'
             PROVE  \A j \in Jobs :
                      /\ job'[j].attempts <= MaxAttempts
                      /\ job'[j].status = "pending" => job'[j].attempts < MaxAttempts
                      /\ job'[j].status = "running" =>
                             \E w \in Workers : \E c \in batch'[w] : c.job = j
  BY DEF AttemptsInv
<1> DEFINE Sound(j) == /\ job'[j].attempts <= MaxAttempts
                       /\ job'[j].status = "pending" => job'[j].attempts < MaxAttempts
                       /\ job'[j].status = "running" =>
                              \E w \in Workers : \E c \in batch'[w] : c.job = j
<1>1. TypeOK /\ HeldInv /\ OneLiveRowPerKey /\ ~overrun /\ faults = 0
  BY Monotone DEF IInv
<1>2. \A j \in Jobs :
        /\ job[j].attempts <= MaxAttempts
        /\ job[j].status = "pending" => job[j].attempts < MaxAttempts
        /\ job[j].status = "running" =>
               \E w \in Workers : \E c \in batch[w] : c.job = j
  BY <1>1 DEF IInv, AttemptsInv
<1>3. MaxAttempts \in Nat /\ 0 < MaxAttempts
  BY JobQueueAssumption
<1>4. ASSUME NEW c \in Callers, EnqueueInsert(c)
      PROVE  \A j \in Jobs : Sound(j)
  <2>1. batch' = batch
    BY <1>4 DEF EnqueueInsert
  <2>2. CASE job' = job
    BY <1>2, <2>1, <2>2
  <2>3. CASE job' # job
    <3>1. PICK j \in Jobs :
            job' = [job EXCEPT ![j] = [AbsentRow EXCEPT !.status = "pending",
                                                        !.key = caller[c].key]]
      BY <1>4, <2>3 DEF EnqueueInsert
    <3>2. job'[j].attempts = 0 /\ job'[j].status = "pending"
      BY <1>1, <3>1 DEF TypeOK, AbsentRow
    <3>3. \A i \in Jobs \ {j} : job'[i] = job[i]
      BY <1>1, <3>1 DEF TypeOK
    <3>4. QED
      BY <1>2, <1>3, <2>1, <3>2, <3>3
  <2>4. QED
    BY <2>2, <2>3
<1>5. ASSUME NEW w \in Workers, ClaimBatch(w)
      PROVE  \A j \in Jobs : Sound(j)
  <2>1. PICK S \in SUBSET {j \in Jobs : Claimable(j)} :
          /\ job' = [j \in Jobs |-> IF j \in S THEN Leased(job[j], w) ELSE job[j]]
          /\ batch' = [batch EXCEPT ![w] =
                         {[job |-> j, attempts |-> job[j].attempts + 1,
                           left |-> Lease] : j \in S}]
    BY <1>5 DEF ClaimBatch
  <2>2. batch[w] = {}
    BY <1>5 DEF ClaimBatch
  <2>3. ASSUME NEW j \in S
        PROVE  Sound(j)
    <3>1. job[j].status = "pending"
      <4>1. SUFFICES ASSUME job[j].status = "running", job[j].lease = 0
                     PROVE  FALSE
        BY <2>3 DEF Claimable
      <4>2. PICK v \in Workers : \E c \in batch[v] : c.job = j
        BY <1>2, <2>3, <4>1
      <4>3. PICK c \in batch[v] : c.job = j
        BY <4>2
      <4>4. job[j].lease = c.left /\ c.left > 0
        BY <1>1, <4>3 DEF HeldInv
      <4>5. c.left \in Nat
        BY <1>1, <4>3, JobQueueAssumption DEF TypeOK, Claim
      <4>6. QED
        BY <4>1, <4>4, <4>5
    <3>2. job[j].attempts \in Nat /\ job[j].attempts < MaxAttempts
      BY <1>1, <1>2, <3>1 DEF TypeOK, Row
    <3>3. /\ job'[j].attempts = job[j].attempts + 1
          /\ job'[j].status = "running"
      BY <1>1, <2>1 DEF TypeOK, Row, Leased
    <3>4. \E c \in batch'[w] : c.job = j
      <4>1. [job |-> j, attempts |-> job[j].attempts + 1, left |-> Lease] \in batch'[w]
        BY <1>1, <2>1, <2>3 DEF TypeOK
      <4>2. QED
        BY <4>1
    <3>5. QED
      BY <1>3, <3>2, <3>3, <3>4
  <2>4. ASSUME NEW j \in Jobs \ S
        PROVE  Sound(j)
    <3>1. job'[j] = job[j]
      BY <2>1
    <3>2. \A v \in Workers : batch[v] \subseteq batch'[v]
      BY <1>1, <2>1, <2>2 DEF TypeOK
    <3>3. QED
      BY <1>2, <3>1, <3>2
  <2>5. QED
    BY <2>3, <2>4
<1>6. ASSUME NEW w \in Workers, NEW c \in batch[w], NEW o \in Outcomes, Finish(w, c, o)
      PROVE  \A j \in Jobs : Sound(j)
  <2>1. c \in Claim /\ c.job \in Jobs /\ c.attempts \in Nat
    BY <1>1 DEF TypeOK, Claim
  <2>2. job[c.job].status = "running" /\ job[c.job].attempts = c.attempts
    BY <1>1 DEF HeldInv
  <2>3. KeyIsFree(job[c.job].key, c.job)
    BY <1>1, <2>1, <2>2 DEF OneLiveRowPerKey, KeyIsFree, Live, LiveStatuses
  <2> DEFINE status == NextStatus(c.attempts, o)
  <2>4. PICK wait \in 0 .. MaxWait :
          job' = [job EXCEPT ![c.job] =
                    [job[c.job] EXCEPT !.status = status, !.wait = wait,
                                       !.lease = 0, !.leasedBy = Nobody]]
    <3>1. WriteBack(c, o)
      BY <1>6 DEF Finish
    <3>2. QED
      BY <1>1, <2>1, <2>3, <3>1, WriteBackRow
  <2>5. /\ job'[c.job].status = status
        /\ job'[c.job].attempts = c.attempts
        /\ \A i \in Jobs \ {c.job} : job'[i] = job[i]
    BY <1>1, <2>1, <2>2, <2>4 DEF TypeOK, Row
  <2>6. Sound(c.job)
    <3>1. status # "running"
      BY <2>1, NextStatusType
    <3>2. status = "pending" => c.attempts < MaxAttempts
      BY <2>1, NextStatusType
    <3>3. c.attempts <= MaxAttempts
      BY <1>2, <2>1, <2>2
    <3>4. QED
      BY <2>5, <3>1, <3>2, <3>3
  <2>7. ASSUME NEW j \in Jobs \ {c.job}
        PROVE  Sound(j)
    <3>1. ASSUME NEW v \in Workers, NEW d \in batch[v], d.job = j
          PROVE  d \in batch'[v]
      BY <1>1, <1>6, <2>7, <3>1 DEF Finish, TypeOK
    <3>2. QED
      BY <1>2, <2>5, <3>1
  <2>8. QED
    BY <2>6, <2>7
<1>7. ASSUME NEW j \in Jobs, RetryDeadJob(j)
      PROVE  \A i \in Jobs : Sound(i)
  <2>1. /\ job'[j].attempts = 0
        /\ job'[j].status = "pending"
        /\ \A i \in Jobs \ {j} : job'[i] = job[i]
    BY <1>1, <1>7 DEF RetryDeadJob, TypeOK, Row
  <2>2. QED
    BY <1>2, <1>3, <1>7, <2>1 DEF RetryDeadJob
<1>8. ASSUME Tick
      PROVE  \A j \in Jobs : Sound(j)
  <2>1. \A j \in Jobs : /\ job'[j].status = job[j].status
                         /\ job'[j].attempts = job[j].attempts
    BY <1>1, <1>8 DEF Tick, AgedRow, TypeOK, Row
  <2>2. ASSUME NEW w \in Workers, NEW c \in batch[w]
        PROVE  \E d \in batch'[w] : d.job = c.job
    <3>1. [c EXCEPT !.left = Less(@)] \in batch'[w]
      BY <1>8, <2>2 DEF Tick, AgedBatch
    <3>2. [c EXCEPT !.left = Less(@)].job = c.job
      BY <1>1 DEF TypeOK, Claim
    <3>3. QED
      BY <3>1, <3>2
  <2>3. QED
    BY <1>2, <2>1, <2>2
<1>9. QED
  <2>1. ASSUME NEW c \in Callers, NEW k \in Keys \cup {NoKey}, EnqueueCheck(c, k)
        PROVE  job' = job /\ batch' = batch
    BY <2>1 DEF EnqueueCheck
  <2>2. ASSUME NEW c \in Callers, EnqueueRefused(c)
        PROVE  job' = job /\ batch' = batch
    BY <2>2 DEF EnqueueRefused
  <2>3. ASSUME NEW w \in Workers, NEW c \in batch[w], FinishUnrecorded(w, c)
        PROVE  FALSE
    BY <1>1, <2>3 DEF FinishUnrecorded
  <2>4. ASSUME NEW w \in Workers, Kill(w)
        PROVE  FALSE
    BY <1>1, <2>4 DEF Kill
  <2>5. CASE job' = job /\ batch' = batch
    BY <1>2, <2>5
  <2>6. CASE UNCHANGED vars
    BY <2>5, <2>6 DEF vars
  <2>7. QED
    BY <1>4, <1>5, <1>6, <1>7, <1>8, <2>1, <2>2, <2>3, <2>4, <2>5, <2>6 DEF Next

-----------------------------------------------------------------------------

\* One row of what a step does to the table: which rows it may write, and how
\* a write leaves the two clocks of a finished row.
LEMMA RowStep ==
    ASSUME IInv, [Next]_vars, NEW j \in Jobs
    PROVE  /\ (job'[j].status \in {"done", "dead"} /\ job'[j] # job[j]) =>
                  /\ job'[j].wait = 0
                  /\ job'[j].lease = 0
           /\ ~overrun' =>
                  /\ job[j].status = "done" => job'[j] = job[j]
                  /\ (job[j].status = "dead" /\ job'[j] # job[j]) =>
                         /\ job'[j].status = "pending"
                         /\ job'[j].attempts = 0
                         /\ retries' = retries + 1
<1> DEFINE Finished == job[j].status \in {"done", "dead"}
           Settled == job'[j].wait = 0 /\ job'[j].lease = 0
           Kept == Finished => job'[j] = job[j]
<1>1. TypeOK /\ HeldInv /\ SettledInv /\ job \in [Jobs -> Row]
  BY DEF IInv, TypeOK
<1>2. CASE job'[j] = job[j]
  BY <1>2
<1>3. ASSUME job'[j] # job[j], NEW c \in Callers, EnqueueInsert(c)
      PROVE  ~Finished /\ job'[j].status = "pending"
  <2>1. job[j].status = "absent" /\ job'[j].status = "pending"
    BY <1>1, <1>3 DEF EnqueueInsert, AbsentRow
  <2>2. QED
    BY <2>1
<1>4. ASSUME job'[j] # job[j], NEW w \in Workers, ClaimBatch(w)
      PROVE  ~Finished /\ job'[j].status = "running"
  <2>1. PICK S \in SUBSET {i \in Jobs : Claimable(i)} :
          job' = [i \in Jobs |-> IF i \in S THEN Leased(job[i], w) ELSE job[i]]
    BY <1>4 DEF ClaimBatch
  <2>2. Claimable(j) /\ job'[j] = Leased(job[j], w)
    BY <1>4, <2>1
  <2>3. job'[j].status = "running"
    BY <1>1, <2>2 DEF Leased, Row
  <2>4. QED
    BY <2>2, <2>3 DEF Claimable
<1>5. ASSUME job'[j] # job[j], NEW w \in Workers, NEW c \in batch[w],
             NEW o \in Outcomes, Finish(w, c, o)
      PROVE  /\ job'[j].status \in {"done", "dead"} => Settled
             /\ ~overrun' => ~Finished
  <2>1. c \in Claim /\ c.job \in Jobs
    BY <1>1 DEF TypeOK, Claim
  <2>2. PICK wait \in 0 .. MaxWait :
          /\ NextStatus(c.attempts, o) # "pending" => wait = 0
          /\ job' = [job EXCEPT ![c.job] =
                       [job[c.job] EXCEPT !.status = NextStatus(c.attempts, o),
                                          !.wait = wait, !.lease = 0,
                                          !.leasedBy = Nobody]]
    BY <1>1, <1>5, <2>1, WriteBackRow DEF Finish
  <2>3. j = c.job
    BY <1>1, <1>5, <2>1, <2>2
  <2>4. /\ job'[j].status = NextStatus(c.attempts, o)
        /\ job'[j].wait = wait
        /\ job'[j].lease = 0
    BY <1>1, <2>1, <2>2, <2>3 DEF Row
  <2>5. ~overrun' => job[j].status = "running"
    BY <1>1, <1>5, <2>3 DEF Finish, HeldInv
  <2>6. QED
    BY <2>2, <2>4, <2>5
<1>6. ASSUME job'[j] # job[j], NEW i \in Jobs, RetryDeadJob(i)
      PROVE  /\ job[j].status = "dead"
             /\ job'[j].status = "pending"
             /\ job'[j].attempts = 0
             /\ retries' = retries + 1
  <2>1. i = j
    BY <1>1, <1>6 DEF RetryDeadJob
  <2>2. QED
    BY <1>1, <1>6, <2>1 DEF RetryDeadJob, Row
<1>7. ASSUME job'[j] # job[j], Tick
      PROVE  ~Finished /\ job'[j].status = job[j].status
  <2>1. job'[j] = AgedRow(job[j]) /\ job[j] \in Row
    BY <1>1, <1>7 DEF Tick
  <2>2. job'[j].status = job[j].status
    BY <2>1 DEF AgedRow, Row
  <2>3. ~(job[j].wait = 0 /\ job[j].lease = 0)
    <3>1. SUFFICES ASSUME job[j].wait = 0, job[j].lease = 0
                   PROVE  AgedRow(job[j]) = job[j]
      BY <1>7, <2>1
    <3>2. AgedRow(job[j]) = [job[j] EXCEPT !.wait = job[j].wait, !.lease = job[j].lease]
      BY <3>1 DEF AgedRow, Less
    <3>3. QED
      BY <2>1, <3>2 DEF Row
  <2>4. QED
    BY <1>1, <2>2, <2>3 DEF SettledInv
<1>8. QED
  <2>1. CASE job' = job
    BY <1>2, <2>1
  <2>2. ASSUME NEW c \in Callers, NEW k \in Keys \cup {NoKey}, EnqueueCheck(c, k)
        PROVE  job' = job
    BY <2>2 DEF EnqueueCheck
  <2>3. ASSUME NEW c \in Callers, EnqueueRefused(c)
        PROVE  job' = job
    BY <2>3 DEF EnqueueRefused
  <2>4. ASSUME NEW w \in Workers, NEW c \in batch[w], FinishUnrecorded(w, c)
        PROVE  job' = job
    BY <2>4 DEF FinishUnrecorded
  <2>5. ASSUME NEW w \in Workers, Kill(w)
        PROVE  job' = job
    BY <2>5 DEF Kill
  <2>6. CASE UNCHANGED vars
    BY <2>1, <2>6 DEF vars
  <2>7. QED
    BY <1>2, <1>3, <1>4, <1>5, <1>6, <1>7, <2>1, <2>2, <2>3, <2>4, <2>5, <2>6 DEF Next

\* The inductive invariant holds in every state the queue reaches.
LEMMA IInvInvariant == Spec => []IInv
<1>1. IInv /\ [Next]_vars => SettledInv'
  BY RowStep DEF IInv, SettledInv
<1>2. IInv /\ [Next]_vars => IInv'
  BY <1>1, TypeStep, OneLiveStep, HeldStep, AttemptsStep DEF IInv
<1>3. QED
  BY InitIInv, <1>2, PTL DEF Spec

\* eng_jobs_idempotency holds through every race of enqueues, write-backs and
\* operator retries.
THEOREM OneLiveRow == Spec => []OneLiveRowPerKey
<1>1. IInv => OneLiveRowPerKey
  BY DEF IInv
<1>2. QED
  BY IInvInvariant, <1>1, PTL

\* A lease longer than the slowest batch is enough for a job to be in one
\* worker's hands at a time and for its row to say whose, whatever crashes and
\* whichever write-backs are lost.
THEOREM HeldByOne == Spec => []HeldByOneUnlessOverrun
<1>1. IInv => HeldByOneUnlessOverrun
  <2> SUFFICES ASSUME IInv, ~overrun
               PROVE  /\ LeaseNamesHolder
                      /\ \A v, w \in Workers : \A c \in batch[v], d \in batch[w] :
                             c.job = d.job => v = w /\ c = d
    BY DEF HeldByOneUnlessOverrun
  <2>1. LeaseNamesHolder
    BY DEF IInv, HeldInv, LeaseNamesHolder
  <2>2. QED
    BY <2>1, HeldOnce DEF IInv
<1>2. QED
  BY IInvInvariant, <1>1, PTL

\* max_attempts is a bound as long as no worker dies, loses a write or outlives
\* its lease; without that condition it is not one.
THEOREM AttemptsBounded == Spec => []AttemptsBoundedWithoutFaults
<1>1. IInv => AttemptsBoundedWithoutFaults
  BY DEF IInv, AttemptsInv, AttemptsBoundedWithoutFaults
<1>2. QED
  BY IInvInvariant, <1>1, PTL

\* While no lease is outlived, a done row never changes again and a dead row
\* comes back only by an operator's retry, with its attempts counted from zero.
THEOREM FinishedStaysFinished == Spec => FinishedRowsStayFinished
<1>1. IInv /\ [Next]_vars =>
        [~overrun' => \A j \in Jobs :
            /\ job[j].status = "done" => job'[j] = job[j]
            /\ (job[j].status = "dead" /\ job'[j] # job[j]) =>
                   /\ job'[j].status = "pending"
                   /\ job'[j].attempts = 0
                   /\ retries' = retries + 1]_vars
  BY RowStep
<1>2. QED
  BY IInvInvariant, <1>1, PTL DEF Spec, FinishedRowsStayFinished

-----------------------------------------------------------------------------
\* The mail handlers, on top of the queue.

Running == [step : {"sending", "stamping"}, claim : Claim]
Ending == [step : {"ended"}, claim : Claim, outcome : Outcomes]

\* Every row the handlers meet has a key, which says what it is, and a worker
\* inside a handler is there with a claim of its batch.
Keyed ==
    /\ \A j \in Jobs : job[j].status # "absent" => job[j].key \in Keys
    /\ \A c \in Callers : caller[c].step = "inserting" => caller[c].key \in Keys
    /\ \A w \in Workers : \A c \in batch[w] : job[c.job].status # "absent"
    /\ \A w \in Workers : run[w] # Resting => run[w].claim \in batch[w]

\* Whatever carries a stamp, or a key the provider remembers, was sent; what a
\* claim saw stamped is stamped.
StampsTrue ==
    /\ \A s \in stamped : sent[s] > 0
    /\ \A j \in kept : sent[j] > 0
    /\ \A w \in Workers : seen[w] \subseteq stamped

\* A handler that is about to stamp, or ends well, has sent, now or before, or
\* was not to reach anybody.
RunsTrue ==
    \A w \in Workers :
       /\ run[w].step = "stamping" => sent[Subject(run[w].claim)] > 0
       /\ (run[w].step = "ended" /\ run[w].outcome = "done") =>
             \/ KeyOf(run[w].claim) \in Suppressed
             \/ sent[Subject(run[w].claim)] > 0

HandlersInv == HandlersTypeOK /\ Keyed /\ StampsTrue /\ RunsTrue /\ DoneMeansSent

LEMMA InitHandlers == HandlersInit => HandlersInv
<1> SUFFICES ASSUME HandlersInit PROVE HandlersInv
  OBVIOUS
<1>1. TypeOK
  BY InitIInv DEF HandlersInit, IInv
<1>2. HandlersTypeOK
  BY <1>1, JobHandlersAssumption DEF HandlersInit, HandlersTypeOK
<1>3. Keyed /\ StampsTrue /\ DoneMeansSent
  BY DEF HandlersInit, Init, AbsentRow, Keyed, StampsTrue, DoneMeansSent
<1>4. RunsTrue
  BY DEF HandlersInit, RunsTrue, Resting
<1> QED BY <1>2, <1>3, <1>4 DEF HandlersInv

-----------------------------------------------------------------------------

\* A worker inside a handler, at each of its steps.
LEMMA RunShapes ==
  ASSUME HandlersInv, NEW w \in Workers
  PROVE  /\ run[w].step = "resting" <=> run[w] = Resting
         /\ run[w].step \in {"sending", "stamping"} => run[w] \in Running
         /\ run[w].step = "ended" => run[w] \in Ending
         /\ run[w] # Resting => /\ run[w].claim \in Claim /\ run[w].claim \in batch[w]
                                /\ run[w].claim.job \in Jobs
                                /\ job[run[w].claim.job].status # "absent"
                                /\ KeyOf(run[w].claim) \in Keys
                                /\ Subject(run[w].claim) \in Jobs \cup NoticeKeys
<1>1. run[w] = Resting \/ run[w] \in Running \/ run[w] \in Ending
  BY DEF HandlersInv, HandlersTypeOK, Running, Ending
<1>2. Resting.step = "resting"
  BY DEF Resting
<1>3. run[w] \in Running => run[w].step \in {"sending", "stamping"} /\ run[w].claim \in Claim
  BY DEF Running
<1>4. run[w] \in Ending => run[w].step = "ended" /\ run[w].claim \in Claim
  BY DEF Ending
<1>5. ASSUME run[w] # Resting
      PROVE  /\ run[w].claim \in Claim /\ run[w].claim \in batch[w]
             /\ run[w].claim.job \in Jobs
             /\ job[run[w].claim.job].status # "absent"
             /\ KeyOf(run[w].claim) \in Keys
             /\ Subject(run[w].claim) \in Jobs \cup NoticeKeys
  <2>1. run[w].claim \in Claim /\ run[w].claim \in batch[w]
    BY <1>1, <1>3, <1>4, <1>5 DEF HandlersInv, Keyed
  <2>2. run[w].claim.job \in Jobs
    BY <2>1 DEF Claim
  <2>3. job[run[w].claim.job].status # "absent" /\ KeyOf(run[w].claim) \in Keys
    BY <2>1, <2>2 DEF HandlersInv, Keyed, KeyOf
  <2> QED BY <2>1, <2>2, <2>3, JobHandlersAssumption DEF Subject
<1> QED BY <1>1, <1>2, <1>3, <1>4, <1>5

\* Every step of the handlers is a step of the queue, or leaves it alone.
LEMMA HandlersStepQueue == HandlersInv /\ [HandlersNext]_hvars => [Next]_vars
<1> SUFFICES ASSUME HandlersInv, HandlersNext PROVE Next \/ UNCHANGED vars
  BY DEF hvars
<1>1. ASSUME NEW c \in Callers, Enqueue(c) PROVE Next
  BY <1>1 DEF Enqueue, Next
<1>2. ASSUME NEW w \in Workers, Conclude(w) PROVE Next
  <2>1. run[w] \in Ending /\ run[w].claim \in batch[w]
    BY <1>2, RunShapes DEF Conclude, Resting
  <2>2. run[w].outcome \in Outcomes
    BY <2>1 DEF Ending
  <2> QED BY <1>2, <2>1, <2>2 DEF Conclude, Next
<1>3. ASSUME NEW j \in Jobs, RetryByOperator(j) PROVE Next
  BY <1>3 DEF RetryByOperator, Next
<1>4. CASE TickHandlers
  BY <1>4 DEF TickHandlers, Next
<1>5. ASSUME NEW w \in Workers, ClaimRows(w) \/ KillHandler(w) PROVE Next
  BY <1>5 DEF ClaimRows, KillHandler, Next
<1>6. ASSUME NEW w \in Workers,
             \/ \E c \in batch[w] : Begin(w, c)
             \/ SendAccepted(w) \/ SendAnswerLost(w) \/ SendRefused(w) \/ Stamp(w) \/ StampLost(w)
      PROVE  UNCHANGED vars
  BY <1>6 DEF Begin, SendAccepted, SendAnswerLost, SendRefused, Stamp, StampLost
<1>7. ASSUME NEW j \in Jobs, Forget(j) PROVE UNCHANGED vars
  BY <1>7 DEF Forget
<1> QED BY <1>1, <1>2, <1>3, <1>4, <1>5, <1>6, <1>7 DEF HandlersNext

\* A finished run writes its own row and keeps its key.
LEMMA FinishRow ==
  ASSUME TypeOK, NEW w \in Workers, NEW c \in batch[w], NEW o \in Outcomes, Finish(w, c, o),
         NEW j \in Jobs, job'[j] # job[j]
  PROVE  /\ c.job = j /\ job'[j].status # "absent" /\ job'[j].key = job[j].key
         /\ job'[j].status = "done" => o = "done"
<1>1. c \in Claim /\ c.job \in Jobs /\ c.attempts \in Nat /\ job \in [Jobs -> Row]
  BY DEF TypeOK, Claim
<1>2. PICK wait \in 0 .. MaxWait :
        job' = [job EXCEPT ![c.job] =
                  [job[c.job] EXCEPT !.status = NextStatus(c.attempts, o),
                                     !.wait = wait, !.lease = 0, !.leasedBy = Nobody]]
  BY <1>1, WriteBackRow DEF Finish
<1>3. j = c.job
  BY <1>1, <1>2
<1>4. job'[j].status = NextStatus(c.attempts, o) /\ job'[j].key = job[j].key
  BY <1>1, <1>2, <1>3 DEF Row
<1>5. NextStatus(c.attempts, o) # "absent" /\ (NextStatus(c.attempts, o) = "done" => o = "done")
  BY DEF NextStatus, Outcomes
<1> QED BY <1>3, <1>4, <1>5

\* Nothing else makes a row done, and only an enqueue gives a row a key.
LEMMA OtherRow ==
  ASSUME TypeOK, NEW j \in Jobs, job'[j] # job[j],
         \/ \E c \in Callers : EnqueueInsert(c)
         \/ \E w \in Workers : ClaimBatch(w)
         \/ \E i \in Jobs : RetryDeadJob(i)
         \/ Tick
  PROVE  /\ job'[j].status = "done" => job[j].status = "done"
         /\ \/ job'[j].key = job[j].key /\ (job'[j].status = "absent" <=> job[j].status = "absent")
            \/ /\ job[j].status = "absent" /\ job'[j].status = "pending"
               /\ \E c \in Callers : caller[c].step = "inserting" /\ job'[j].key = caller[c].key
<1>0. job \in [Jobs -> Row]
  BY DEF TypeOK
<1>1. ASSUME NEW c \in Callers, EnqueueInsert(c)
      PROVE  /\ job[j].status = "absent" /\ job'[j].status = "pending"
             /\ caller[c].step = "inserting" /\ job'[j].key = caller[c].key
  BY <1>0, <1>1 DEF EnqueueInsert, AbsentRow
<1>2. ASSUME NEW w \in Workers, ClaimBatch(w)
      PROVE  /\ job[j].status # "absent" /\ job'[j].status = "running"
             /\ job'[j].key = job[j].key
  <2>1. PICK S \in SUBSET {i \in Jobs : Claimable(i)} :
          job' = [i \in Jobs |-> IF i \in S THEN Leased(job[i], w) ELSE job[i]]
    BY <1>2 DEF ClaimBatch
  <2>2. Claimable(j) /\ job'[j] = Leased(job[j], w)
    BY <2>1
  <2> QED BY <1>0, <2>2 DEF Leased, Row, Claimable
<1>3. ASSUME NEW i \in Jobs, RetryDeadJob(i)
      PROVE  job[j].status # "absent" /\ job'[j].status = "pending" /\ job'[j].key = job[j].key
  <2>1. i = j
    BY <1>0, <1>3 DEF RetryDeadJob
  <2> QED BY <1>0, <1>3, <2>1 DEF RetryDeadJob, Row
<1>4. ASSUME Tick
      PROVE  job'[j].status = job[j].status /\ job'[j].key = job[j].key
  <2>1. job'[j] = AgedRow(job[j]) /\ job[j] \in Row
    BY <1>0, <1>4 DEF Tick
  <2> QED BY <2>1 DEF AgedRow, Row
<1> QED BY <1>1, <1>2, <1>3, <1>4

\* A row once written keeps its key, and one that is new has its caller's.
LEMMA RowsKeepKeys ==
  ASSUME TypeOK, [Next]_vars, NEW j \in Jobs,
         \A w \in Workers : \A c \in batch[w] : job[c.job].status # "absent"
  PROVE  /\ job[j].status # "absent" =>
              job'[j].status # "absent" /\ job'[j].key = job[j].key
         /\ (job[j].status = "absent" /\ job'[j].status # "absent") =>
              \E c \in Callers : caller[c].step = "inserting" /\ job'[j].key = caller[c].key
<1>1. CASE job'[j] = job[j]
  BY <1>1
<1>2. CASE job'[j] # job[j]
  <2>1. CASE \E w \in Workers : \E c \in batch[w], o \in Outcomes : Finish(w, c, o)
    <3>1. PICK w \in Workers : \E c \in batch[w], o \in Outcomes : Finish(w, c, o)
      BY <2>1
    <3>2. PICK c \in batch[w], o \in Outcomes : Finish(w, c, o)
      BY <3>1
    <3>3. c.job = j /\ job'[j].status # "absent" /\ job'[j].key = job[j].key
      BY <1>2, <3>2, FinishRow
    <3> QED BY <3>3
  <2>2. CASE \/ \E c \in Callers : EnqueueInsert(c)
             \/ \E w \in Workers : ClaimBatch(w)
             \/ \E i \in Jobs : RetryDeadJob(i)
             \/ Tick
    BY <1>2, <2>2, OtherRow
  <2> QED BY <1>2, <2>1, <2>2
          DEF Next, vars, EnqueueCheck, EnqueueRefused, FinishUnrecorded, Kill
<1> QED BY <1>1, <1>2

\* The rows' part of the invariant, of the queue's own steps.
LEMMA RowsStayKeyed ==
  ASSUME HandlersInv, [HandlersNext]_hvars
  PROVE  /\ TypeOK'
         /\ \A j \in Jobs : job[j].status # "absent" =>
                job'[j].status # "absent" /\ job'[j].key = job[j].key
         /\ \A j \in Jobs : job'[j].status # "absent" => job'[j].key \in Keys
         /\ \A c \in Callers : caller'[c].step = "inserting" => caller'[c].key \in Keys
         /\ \A w \in Workers : \A c \in batch'[w] : job'[c.job].status # "absent"
<1>0. /\ TypeOK /\ [Next]_vars
      /\ \A w \in Workers : \A c \in batch[w] : job[c.job].status # "absent"
      /\ \A j \in Jobs : job[j].status # "absent" => job[j].key \in Keys
      /\ \A c \in Callers : caller[c].step = "inserting" => caller[c].key \in Keys
  BY HandlersStepQueue DEF HandlersInv, HandlersTypeOK, Keyed
<1>1. TypeOK'
  BY <1>0, TypeStep
<1>2. \A j \in Jobs : job[j].status # "absent" =>
          job'[j].status # "absent" /\ job'[j].key = job[j].key
  BY <1>0, RowsKeepKeys
<1>3. \A j \in Jobs : job'[j].status # "absent" => job'[j].key \in Keys
  <2> SUFFICES ASSUME NEW j \in Jobs, job'[j].status # "absent" PROVE job'[j].key \in Keys
    OBVIOUS
  <2>1. CASE job[j].status # "absent"
    BY <1>0, <1>2, <2>1
  <2>2. CASE job[j].status = "absent"
    <3>1. PICK c \in Callers : caller[c].step = "inserting" /\ job'[j].key = caller[c].key
      BY <1>0, <2>2, RowsKeepKeys
    <3> QED BY <1>0, <3>1
  <2> QED BY <2>1, <2>2
<1>4. \A c \in Callers : caller'[c].step = "inserting" => caller'[c].key \in Keys
  <2>1. ASSUME NEW c \in Callers, NEW k \in Keys, EnqueueCheck(c, k) 
          PROVE  \A d \in Callers : caller'[d].step = "inserting" => caller'[d].key \in Keys
    BY <1>0, <2>1 DEF EnqueueCheck, TypeOK, Answered
  <2>2. ASSUME NEW c \in Callers, EnqueueInsert(c) \/ EnqueueRefused(c) 
          PROVE  \A d \in Callers : caller'[d].step = "inserting" => caller'[d].key \in Keys
    BY <1>0, <2>2 DEF EnqueueInsert, EnqueueRefused, TypeOK, Answered
  <2>3. CASE UNCHANGED caller
    BY <1>0, <2>3
  <2> QED BY <2>1, <2>2, <2>3
          DEF HandlersNext, Enqueue, RetryByOperator, RetryDeadJob, TickHandlers, Tick, ClaimRows,
              ClaimBatch, Begin, SendAccepted, SendAnswerLost, SendRefused, Stamp, StampLost,
              Conclude, Finish, FinishUnrecorded, KillHandler, Kill, Forget, hvars, vars
<1>5. \A w \in Workers : \A c \in batch'[w] : job'[c.job].status # "absent"
  <2> SUFFICES ASSUME NEW w \in Workers, NEW c \in batch'[w] PROVE job'[c.job].status # "absent"
    OBVIOUS
  <2>1. batch \in [Workers -> SUBSET Claim] /\ job \in [Jobs -> Row]
    BY <1>0 DEF TypeOK
  <2>2. CASE \E d \in batch[w] : d.job = c.job
    <3>1. PICK d \in batch[w] : d.job = c.job
      BY <2>2
    <3>2. d.job \in Jobs /\ job[d.job].status # "absent"
      BY <1>0, <2>1 DEF Claim
    <3> QED BY <1>2, <3>1, <3>2
  <2>3. ASSUME NEW v \in Workers, ClaimBatch(v), batch'[w] # batch[w] PROVE job'[c.job].status # "absent"
    <3>1. PICK S \in SUBSET {i \in Jobs : Claimable(i)} :
            batch' = [batch EXCEPT ![v] = {[job |-> j, attempts |-> job[j].attempts + 1,
                                            left |-> Lease] : j \in S}]
      BY <2>3 DEF ClaimBatch
    <3>2. c.job \in S
      BY <2>1, <2>3, <3>1
    <3>3. c.job \in Jobs /\ job[c.job].status # "absent"
      BY <3>2 DEF Claimable
    <3> QED BY <1>2, <3>3
  <2>4. CASE Tick
    <3>1. batch'[w] = AgedBatch(batch[w])
      BY <2>4 DEF Tick
    <3>2. PICK d \in batch[w] : c = [d EXCEPT !.left = Less(@)]
      BY <3>1 DEF AgedBatch
    <3>3. d \in Claim
      BY <2>1
    <3>4. c.job = d.job
      BY <3>2, <3>3 DEF Claim
    <3> QED BY <2>2, <3>4
  <2>5. CASE batch'[w] \subseteq batch[w]
    BY <2>2, <2>5
  <2>6. Tick \/ (\E v \in Workers : ClaimBatch(v)) \/ batch'[w] \subseteq batch[w]
    BY <1>0, <2>1 DEF Next, vars, EnqueueCheck, EnqueueInsert, EnqueueRefused, Finish,
                      FinishUnrecorded, Kill, RetryDeadJob
  <2> QED BY <2>3, <2>4, <2>5, <2>6
<1> QED BY <1>1, <1>2, <1>3, <1>4, <1>5

-----------------------------------------------------------------------------

\* A row's mail has reached somebody, or was not to.
Reached(j) ==
    \/ job[j].key \in Suppressed
    \/ sent[IF job[j].key \in EmailKeys THEN j ELSE job[j].key] > 0

LEMMA DoneIsReached ==
  ASSUME Keyed
  PROVE  DoneMeansSent <=> \A j \in Jobs : job[j].status = "done" => Reached(j)
<1>1. \A j \in Jobs : job[j].status = "done" => job[j].key \in Keys
  BY DEF Keyed
<1> QED BY <1>1, JobHandlersAssumption DEF DoneMeansSent, Reached

LEMMA DoneIsReachedAfter ==
  ASSUME Keyed', \A j \in Jobs : job'[j].status = "done" => Reached(j)'
  PROVE  DoneMeansSent'
<1>1. \A j \in Jobs : job'[j].status = "done" => job'[j].key \in Keys
  BY DEF Keyed
<1> QED BY <1>1, JobHandlersAssumption DEF DoneMeansSent, Reached

\* A step inside a handler, which leaves the queue alone: what it sends, once,
\* and what it stamps is sent.
LEMMA HandlerKeeps ==
  ASSUME HandlersInv, UNCHANGED <<vars, seen>>, NEW w \in Workers, NEW r \in Running \cup Ending,
         run' = [run EXCEPT ![w] = r], r.claim \in batch[w],
         stamped \subseteq stamped', stamped' \subseteq Jobs \cup NoticeKeys,
         sent' \in [Jobs \cup NoticeKeys -> Nat], kept' \subseteq Jobs, slips' \in Nat,
         unstamped' \in [Jobs -> Nat],
         \A s \in Jobs \cup NoticeKeys : sent[s] > 0 => sent'[s] > 0,
         \A s \in stamped' : sent'[s] > 0, \A j \in kept' : sent'[j] > 0,
         r.step = "stamping" => sent'[Subject(r.claim)] > 0,
         (r.step = "ended" /\ r.outcome = "done") =>
            KeyOf(r.claim) \in Suppressed \/ sent'[Subject(r.claim)] > 0
  PROVE  HandlersInv'
<1>0. /\ UNCHANGED <<job, caller, batch, faults, retries, overrun>>
      /\ \A c : KeyOf(c)' = KeyOf(c) /\ Subject(c)' = Subject(c)
      /\ \A v \in Workers : run'[v] = IF v = w THEN r ELSE run[v]
      /\ r # Resting /\ r.claim \in Claim
  <2>1. \A v \in Workers : run'[v] = IF v = w THEN r ELSE run[v]
    <3>1. DOMAIN run = Workers
      BY DEF HandlersInv, HandlersTypeOK
    <3> QED BY <3>1
  <2>2. r # Resting /\ r.claim \in Claim
    BY DEF Running, Ending, Resting
  <2> QED BY <2>1, <2>2 DEF vars, KeyOf, Subject
<1>1. HandlersTypeOK'
  <2>1. TypeOK'
    BY <1>0 DEF HandlersInv, HandlersTypeOK, TypeOK
  <2> QED BY <1>0, <2>1 DEF HandlersInv, HandlersTypeOK, Running, Ending
<1>2. Keyed'
  BY <1>0 DEF HandlersInv, Keyed
<1>3. StampsTrue'
  BY DEF HandlersInv, StampsTrue
<1>4. RunsTrue'
  <2> SUFFICES ASSUME NEW v \in Workers
               PROVE  /\ run'[v].step = "stamping" => sent'[Subject(run'[v].claim)] > 0
                      /\ (run'[v].step = "ended" /\ run'[v].outcome = "done") =>
                            \/ KeyOf(run'[v].claim) \in Suppressed
                            \/ sent'[Subject(run'[v].claim)] > 0
    BY <1>0 DEF RunsTrue
  <2>1. CASE v = w
    BY <1>0, <2>1
  <2>2. CASE v # w
    <3>1. run'[v] = run[v]
      BY <1>0, <2>2
    <3>2. run[v] # Resting => Subject(run[v].claim) \in Jobs \cup NoticeKeys
      BY RunShapes
    <3>3. run[v] = Resting => run[v].step = "resting"
      BY DEF Resting
    <3> QED BY <3>1, <3>2, <3>3 DEF HandlersInv, RunsTrue
  <2> QED BY <2>1, <2>2
<1>5. DoneMeansSent'
  <2>1. \A j \in Jobs : job[j].status = "done" => Reached(j)
    BY DoneIsReached DEF HandlersInv
  <2>2. ASSUME NEW j \in Jobs, job[j].status = "done" PROVE Reached(j)'
    <3>1. job[j].key \in Keys
      BY <2>2 DEF HandlersInv, Keyed
    <3>2. (IF job[j].key \in EmailKeys THEN j ELSE job[j].key) \in Jobs \cup NoticeKeys
      BY <3>1, JobHandlersAssumption
    <3> QED BY <1>0, <2>1, <2>2, <3>2 DEF Reached
  <2> QED BY <1>0, <1>2, <2>2, DoneIsReachedAfter
<1> QED BY <1>1, <1>2, <1>3, <1>4, <1>5 DEF HandlersInv

\* A step of the queue, which sends and stamps nothing: a run goes on as it was
\* or ends, and what it makes done has reached somebody.
LEMMA QueueKeeps ==
  ASSUME HandlersInv, [HandlersNext]_hvars, UNCHANGED <<stamped, sent, kept, slips>>,
         unstamped' \in [Jobs -> Nat],
         seen' \in [Workers -> SUBSET Jobs], \A w \in Workers : seen'[w] \subseteq stamped,
         run' \in [Workers -> {Resting} \cup Running \cup Ending],
         \A w \in Workers : run'[w] # Resting =>
            /\ run[w] # Resting /\ run'[w].step = run[w].step
            /\ run[w].step = "ended" => run'[w].outcome = run[w].outcome
            /\ run'[w].claim.job = run[w].claim.job
            /\ run'[w].claim \in batch'[w],
         \A j \in Jobs : job'[j].status = "done" =>
            job[j].status = "done" \/ (job[j].status # "absent" /\ Reached(j))
  PROVE  HandlersInv'
<1>0. /\ TypeOK'
      /\ \A j \in Jobs : job[j].status # "absent" =>
            job'[j].status # "absent" /\ job'[j].key = job[j].key
      /\ \A j \in Jobs : job'[j].status # "absent" => job'[j].key \in Keys
      /\ \A c \in Callers : caller'[c].step = "inserting" => caller'[c].key \in Keys
      /\ \A w \in Workers : \A c \in batch'[w] : job'[c.job].status # "absent"
  BY RowsStayKeyed
<1>1. HandlersTypeOK'
  BY <1>0 DEF HandlersInv, HandlersTypeOK, Running, Ending
<1>2. Keyed'
  BY <1>0 DEF Keyed
<1>3. StampsTrue'
  BY DEF HandlersInv, StampsTrue
<1>4. RunsTrue'
  <2> SUFFICES ASSUME NEW w \in Workers, run'[w] # Resting
               PROVE  /\ run'[w].step = "stamping" => (sent[Subject(run[w].claim)] > 0)'
                      /\ (run'[w].step = "ended" /\ run'[w].outcome = "done") =>
                            \/ (KeyOf(run[w].claim) \in Suppressed)'
                            \/ (sent[Subject(run[w].claim)] > 0)'
    BY DEF RunsTrue, Resting
  <2>1. run[w] # Resting /\ run[w].claim.job \in Jobs /\ job[run[w].claim.job].status # "absent"
    BY RunShapes
  <2>2. job'[run[w].claim.job].key = job[run[w].claim.job].key
    BY <1>0, <2>1
  <2>3. KeyOf(run[w].claim)' = KeyOf(run[w].claim)
    BY <2>2 DEF KeyOf
  <2>4. Subject(run[w].claim)' = Subject(run[w].claim)
    BY <2>3 DEF Subject
  <2>5. /\ run[w].step = "stamping" => sent[Subject(run[w].claim)] > 0
        /\ (run[w].step = "ended" /\ run[w].outcome = "done") =>
              KeyOf(run[w].claim) \in Suppressed \/ sent[Subject(run[w].claim)] > 0
    BY DEF HandlersInv, RunsTrue
  <2> QED BY <2>3, <2>4, <2>5
<1>5. DoneMeansSent'
  <2>1. \A j \in Jobs : job[j].status = "done" => Reached(j)
    BY DoneIsReached DEF HandlersInv
  <2>2. ASSUME NEW j \in Jobs, job'[j].status = "done" PROVE Reached(j)'
    <3>1. Reached(j) /\ job[j].status # "absent"
      BY <2>1, <2>2
    <3> QED BY <1>0, <3>1 DEF Reached
  <2> QED BY <1>2, <2>2, DoneIsReachedAfter
<1> QED BY <1>1, <1>2, <1>3, <1>4, <1>5 DEF HandlersInv

-----------------------------------------------------------------------------

\* What a send leaves unstamped is counted.
LEMMA LeaveUnstampedType ==
  ASSUME unstamped \in [Jobs -> Nat], NEW c, LeaveUnstamped(c) \/ UNCHANGED unstamped
  PROVE  unstamped' \in [Jobs -> Nat]
BY DEF LeaveUnstamped

\* Every step keeps the invariant.
LEMMA StepHandlers == HandlersInv /\ [HandlersNext]_hvars => HandlersInv'
<1> SUFFICES ASSUME HandlersInv, [HandlersNext]_hvars PROVE HandlersInv'
  OBVIOUS
<1>0. /\ TypeOK /\ [Next]_vars /\ TypeOK'
      /\ run \in [Workers -> {Resting} \cup Running \cup Ending]
      /\ seen \in [Workers -> SUBSET Jobs] /\ stamped \subseteq Jobs \cup NoticeKeys
      /\ sent \in [Jobs \cup NoticeKeys -> Nat] /\ kept \subseteq Jobs /\ slips \in Nat
      /\ unstamped \in [Jobs -> Nat]
      /\ \A w \in Workers : seen[w] \subseteq stamped
      /\ \A s \in stamped : sent[s] > 0
      /\ \A j \in kept : sent[j] > 0
      /\ batch \in [Workers -> SUBSET Claim] /\ batch' \in [Workers -> SUBSET Claim]
  <2>1. TypeOK /\ [Next]_vars /\ TypeOK'
    BY HandlersStepQueue, TypeStep DEF HandlersInv, HandlersTypeOK
  <2> QED BY <2>1 DEF HandlersInv, HandlersTypeOK, StampsTrue, Running, Ending, TypeOK
<1>1. ASSUME NEW w \in Workers, ClaimRows(w) PROVE HandlersInv'
  <2>1. /\ UNCHANGED <<run, stamped, sent, kept, slips, unstamped>> /\ run[w] = Resting
        /\ seen' = [seen EXCEPT ![w] = {c.job : c \in batch'[w]} \cap stamped]
        /\ \A v \in Workers : run[v] # Resting => run[v].claim \in batch'[v]
    <3>1. \A v \in Workers \ {w} : batch'[v] = batch[v]
      BY <1>0, <1>1 DEF ClaimRows, ClaimBatch
    <3> QED BY <1>1, <3>1 DEF ClaimRows, mail, HandlersInv, Keyed
  <2>2. seen' \in [Workers -> SUBSET Jobs] /\ \A v \in Workers : seen'[v] \subseteq stamped
    <3>1. \A c \in batch'[w] : c.job \in Jobs
      BY <1>0 DEF Claim
    <3> QED BY <1>0, <2>1, <3>1
  <2>3. \A j \in Jobs : job'[j].status = "done" => job[j].status = "done"
    BY <1>0, <1>1, OtherRow DEF ClaimRows
  <2> QED BY <1>0, <2>1, <2>2, <2>3, QueueKeeps
<1>2. ASSUME NEW w \in Workers, NEW c \in batch[w], Begin(w, c) PROVE HandlersInv'
  <2>1. c \in Claim /\ c.job \in Jobs /\ KeyOf(c) \in Keys
    BY <1>0 DEF Claim, HandlersInv, Keyed, KeyOf
  <2>2. AlreadySent(w, c) => sent[Subject(c)] > 0
    BY <1>0, <2>1, JobHandlersAssumption DEF AlreadySent, Subject
  <2>3. \E r \in Running \cup Ending :
          /\ run' = [run EXCEPT ![w] = r] /\ r.claim = c /\ r.step \in {"sending", "ended"}
          /\ (r.step = "ended" /\ r.outcome = "done") => AlreadySent(w, c) \/ KeyOf(c) \in Suppressed
    <3>1. Ended(c, "done") \in Ending /\ Ended(c, "fatal") \in Ending /\ At("sending", c) \in Running
      BY <2>1 DEF Ended, At, Ending, Running, Outcomes
    <3>2. /\ Ended(c, "done").claim = c /\ Ended(c, "done").step = "ended"
          /\ Ended(c, "fatal").claim = c /\ Ended(c, "fatal").step = "ended"
          /\ Ended(c, "fatal").outcome = "fatal"
          /\ At("sending", c).claim = c /\ At("sending", c).step = "sending"
      BY DEF Ended, At
    <3> QED BY <1>2, <3>1, <3>2 DEF Begin
  <2>4. UNCHANGED <<vars, seen, stamped, sent, kept, slips, unstamped>>
    BY <1>2 DEF Begin, mail
  <2> QED BY <1>0, <2>2, <2>3, <2>4, HandlerKeeps
<1>3. ASSUME NEW w \in Workers, run[w].step \in {"sending", "stamping", "ended"}
      PROVE  /\ run[w].claim \in Claim /\ run[w].claim \in batch[w]
             /\ run[w].claim.job \in Jobs /\ KeyOf(run[w].claim) \in Keys
             /\ Subject(run[w].claim) \in Jobs \cup NoticeKeys
  BY <1>3, RunShapes DEF Resting
<1>4. ASSUME NEW w \in Workers, run[w].step = "sending", Deliver(run[w].claim)
      PROVE  /\ sent' \in [Jobs \cup NoticeKeys -> Nat] /\ kept' \subseteq Jobs
             /\ \A s \in Jobs \cup NoticeKeys : sent[s] > 0 => sent'[s] > 0
             /\ sent'[Subject(run[w].claim)] > 0
             /\ \A j \in kept' : sent'[j] > 0
  <2> DEFINE c == run[w].claim
  <2>1. /\ c.job \in Jobs /\ KeyOf(c) \in Keys /\ Subject(c) \in Jobs \cup NoticeKeys
    BY <1>3, <1>4
  <2> HIDE DEF c
  <2>3. CASE KeyOf(c) \in EmailKeys /\ c.job \in kept
    <3>1. sent[c.job] > 0
      BY <2>1, <2>3 DEF HandlersInv, StampsTrue
    <3> QED BY <1>0, <1>4, <2>1, <2>3, <3>1 DEF Deliver, Subject, c
  <2>4. CASE ~(KeyOf(c) \in EmailKeys /\ c.job \in kept)
    <3>1. /\ sent' = [sent EXCEPT ![Subject(c)] = @ + 1]
          /\ kept' = kept \/ (kept' = kept \cup {c.job} /\ Subject(c) = c.job)
      BY <1>4, <2>4 DEF Deliver, Subject, c
    <3>2. /\ sent' \in [Jobs \cup NoticeKeys -> Nat]
          /\ sent'[Subject(c)] = sent[Subject(c)] + 1 /\ sent[Subject(c)] \in Nat
          /\ \A s \in Jobs \cup NoticeKeys : s # Subject(c) => sent'[s] = sent[s]
      BY <1>0, <2>1, <3>1
    <3> QED BY <1>0, <2>1, <3>1, <3>2 DEF c
  <2> QED BY <2>3, <2>4
<1>5. ASSUME NEW w \in Workers, SendAccepted(w) PROVE HandlersInv'
  <2> DEFINE r == At("stamping", run[w].claim)
  <2>1. /\ r \in Running /\ r.step = "stamping" /\ r.claim = run[w].claim
        /\ run' = [run EXCEPT ![w] = r] /\ UNCHANGED <<vars, seen, stamped, slips, unstamped>>
        /\ Deliver(run[w].claim) /\ run[w].step = "sending"
    BY <1>3, <1>5 DEF SendAccepted, At, Running
  <2> HIDE DEF r
  <2> QED BY <1>0, <1>3, <1>4, <2>1, HandlerKeeps
<1>6. ASSUME NEW w \in Workers, SendAnswerLost(w) PROVE HandlersInv'
  <2> DEFINE r == Ended(run[w].claim, "retry")
  <2>1. /\ r \in Ending /\ r.step = "ended" /\ r.outcome = "retry" /\ r.claim = run[w].claim
        /\ run' = [run EXCEPT ![w] = r] /\ UNCHANGED <<vars, seen, stamped>> /\ slips' \in Nat
        /\ Deliver(run[w].claim) /\ run[w].step = "sending" /\ LeaveUnstamped(run[w].claim)
    BY <1>0, <1>3, <1>6 DEF SendAnswerLost, Ended, Ending, Outcomes
  <2>2. unstamped' \in [Jobs -> Nat]
    BY <1>0, <2>1, LeaveUnstampedType
  <2> HIDE DEF r
  <2> QED BY <1>0, <1>3, <1>4, <2>1, <2>2, HandlerKeeps
<1>7. ASSUME NEW w \in Workers, SendRefused(w) PROVE HandlersInv'
  <2>1. PICK outcome \in {"retry", "fatal"} : run' = [run EXCEPT ![w] = Ended(@.claim, outcome)]
    BY <1>7 DEF SendRefused
  <2> DEFINE r == Ended(run[w].claim, outcome)
  <2>2. /\ r \in Ending /\ r.step = "ended" /\ r.outcome # "done" /\ r.claim = run[w].claim
        /\ run' = [run EXCEPT ![w] = r] /\ UNCHANGED <<vars, seen, stamped, mail, slips>>
        /\ run[w].step = "sending"
    BY <1>3, <1>7, <2>1 DEF SendRefused, Ended, Ending, Outcomes
  <2> HIDE DEF r
  <2> QED BY <1>0, <1>3, <2>2, HandlerKeeps DEF mail
<1>8. ASSUME NEW w \in Workers, Stamp(w) \/ StampLost(w) PROVE HandlersInv'
  <2> DEFINE r == Ended(run[w].claim, "done")
  <2>1. /\ r \in Ending /\ r.step = "ended" /\ r.claim = run[w].claim
        /\ run' = [run EXCEPT ![w] = r] /\ UNCHANGED <<vars, seen, sent, kept>> /\ slips' \in Nat
        /\ run[w].step = "stamping"
        /\ stamped' \in {stamped, stamped \cup {Subject(run[w].claim)}}
        /\ UNCHANGED unstamped \/ LeaveUnstamped(run[w].claim)
    BY <1>0, <1>3, <1>8 DEF Stamp, StampLost, mail, Ended, Ending, Outcomes
  <2>2. sent[Subject(run[w].claim)] > 0
    BY <2>1 DEF HandlersInv, RunsTrue
  <2>3. unstamped' \in [Jobs -> Nat]
    BY <1>0, <2>1, LeaveUnstampedType
  <2> HIDE DEF r
  <2> QED BY <1>0, <1>3, <2>1, <2>2, <2>3, HandlerKeeps
<1>9. ASSUME NEW w \in Workers, Conclude(w) PROVE HandlersInv'
  <2> DEFINE c == run[w].claim
  <2>1. run[w] \in Ending /\ c \in batch[w] /\ c.job \in Jobs /\ run[w].outcome \in Outcomes
        /\ job[c.job].status # "absent"
    <3>1. run[w] \in Ending /\ run[w] # Resting
      BY <1>9, RunShapes DEF Conclude, Resting
    <3> QED BY <3>1, RunShapes DEF Ending
  <2>2. /\ UNCHANGED <<seen, stamped, sent, kept, slips, unstamped>> /\ run' = [run EXCEPT ![w] = Resting]
        /\ \A v \in Workers \ {w} : batch'[v] = batch[v]
        /\ Finish(w, c, run[w].outcome) \/ UNCHANGED job
    BY <1>0, <1>9 DEF Conclude, mail, Finish, FinishUnrecorded
  <2>3. ASSUME NEW j \in Jobs, job'[j].status = "done", job[j].status # "done"
        PROVE  job[j].status # "absent" /\ Reached(j)
    <3>1. Finish(w, c, run[w].outcome) /\ job'[j] # job[j]
      BY <2>2, <2>3
    <3>2. c.job = j /\ run[w].outcome = "done"
      BY <1>0, <2>1, <2>3, <3>1, FinishRow
    <3>3. KeyOf(c) \in Suppressed \/ sent[Subject(c)] > 0
      BY <1>9, <3>2 DEF HandlersInv, RunsTrue, Conclude
    <3> QED BY <2>1, <3>2, <3>3 DEF Reached, KeyOf, Subject
  <2>4. \A v \in Workers : run'[v] # Resting => /\ v # w /\ run'[v] = run[v]
                                                /\ run'[v].claim \in batch'[v]
    BY <1>0, <2>2 DEF HandlersInv, Keyed
  <2>5. run' \in [Workers -> {Resting} \cup Running \cup Ending]
    BY <1>0, <2>2
  <2> QED BY <1>0, <2>2, <2>3, <2>4, <2>5, QueueKeeps
<1>10. ASSUME NEW w \in Workers, KillHandler(w) PROVE HandlersInv'
  <2>1. /\ UNCHANGED <<job, seen, stamped, sent, kept, slips>> /\ run' = [run EXCEPT ![w] = Resting]
        /\ \A v \in Workers \ {w} : batch'[v] = batch[v]
        /\ UNCHANGED unstamped \/ LeaveUnstamped(run[w].claim)
    BY <1>0, <1>10 DEF KillHandler, Kill
  <2>4. unstamped' \in [Jobs -> Nat]
    BY <1>0, <2>1, LeaveUnstampedType
  <2>2. \A v \in Workers : run'[v] # Resting => /\ v # w /\ run'[v] = run[v]
                                                /\ run'[v].claim \in batch'[v]
    BY <1>0, <2>1 DEF HandlersInv, Keyed
  <2>3. run' \in [Workers -> {Resting} \cup Running \cup Ending]
    BY <1>0, <2>1
  <2> QED BY <1>0, <2>1, <2>2, <2>3, <2>4, QueueKeeps
<1>11. CASE TickHandlers
  <2>1. /\ UNCHANGED <<seen, stamped, sent, kept, slips, unstamped>> /\ Tick
        /\ \A w \in Workers : batch'[w] = AgedBatch(batch[w])
        /\ run' = [w \in Workers |-> IF run[w] = Resting THEN Resting
                                     ELSE [run[w] EXCEPT !.claim.left = Less(@)]]
    BY <1>11 DEF TickHandlers, mail, Tick
  <2>2. ASSUME NEW w \in Workers, run[w] # Resting
        PROVE  /\ run'[w] \in Running \cup Ending /\ run'[w].step = run[w].step
               /\ run[w].step = "ended" => run'[w].outcome = run[w].outcome
               /\ run'[w].claim.job = run[w].claim.job
               /\ run'[w].claim \in batch'[w]
    <3> DEFINE c == run[w].claim
               aged == [c EXCEPT !.left = Less(@)]
    <3>1. run[w] \in Running \cup Ending /\ c \in Claim /\ c \in batch[w]
      BY <1>0, <2>2, RunShapes
    <3>2. run'[w] = [run[w] EXCEPT !.claim = aged]
      BY <2>1, <2>2
    <3>3. aged \in batch'[w]
      BY <2>1, <3>1 DEF AgedBatch
    <3>4. aged \in Claim /\ aged.job = c.job
      BY <1>0, <3>1, <3>3 DEF Claim
    <3> HIDE DEF aged
    <3> QED BY <3>1, <3>2, <3>3, <3>4 DEF Running, Ending
  <2>3. \A w \in Workers : run[w] = Resting => run'[w] = Resting
    BY <2>1
  <2>4. run' \in [Workers -> {Resting} \cup Running \cup Ending]
    <3>1. DOMAIN run' = Workers /\ \A w \in Workers : run'[w] \in {Resting} \cup Running \cup Ending
      BY <2>1, <2>2, <2>3
    <3>2. run' = [w \in Workers |-> run'[w]]
      BY <2>1
    <3> QED BY <3>1, <3>2
  <2>5. \A j \in Jobs : job'[j].status = "done" => job[j].status = "done"
    BY <1>0, <2>1, OtherRow
  <2> QED BY <1>0, <2>1, <2>2, <2>3, <2>4, <2>5, QueueKeeps
<1>12. ASSUME UNCHANGED <<batch, handlerVars>>,
              \A j \in Jobs : job'[j].status = "done" => job[j].status = "done"
       PROVE  HandlersInv'
  <2>1. UNCHANGED <<batch, run, seen, stamped, sent, kept, slips, unstamped>>
    BY <1>12 DEF handlerVars, mail
  <2> QED BY <1>0, <1>12, <2>1, QueueKeeps DEF HandlersInv, Keyed
<1>13. ASSUME NEW c \in Callers, Enqueue(c) PROVE HandlersInv'
  <2>1. UNCHANGED <<batch, handlerVars>> /\ (EnqueueInsert(c) \/ UNCHANGED job)
    BY <1>13 DEF Enqueue, EnqueueCheck, EnqueueInsert, EnqueueRefused
  <2>2. \A j \in Jobs : job'[j].status = "done" => job[j].status = "done"
    BY <1>0, <2>1, OtherRow
  <2> QED BY <1>12, <2>1, <2>2
<1>14. ASSUME NEW i \in Jobs, RetryByOperator(i) PROVE HandlersInv'
  <2>1. UNCHANGED <<batch, handlerVars>> /\ RetryDeadJob(i)
    BY <1>14 DEF RetryByOperator, RetryDeadJob
  <2>2. \A j \in Jobs : job'[j].status = "done" => job[j].status = "done"
    BY <1>0, <2>1, OtherRow
  <2> QED BY <1>12, <2>1, <2>2
<1>15. ASSUME NEW j \in Jobs, Forget(j) PROVE HandlersInv'
  <2>1. /\ UNCHANGED <<vars, run, seen, stamped, sent, slips, unstamped>>
        /\ kept' \subseteq kept
    BY <1>15 DEF Forget
  <2>2. TypeOK'
    BY <1>0
  <2> QED BY <1>0, <2>1, <2>2
          DEF HandlersInv, HandlersTypeOK, Keyed, StampsTrue, RunsTrue, DoneMeansSent, KeyOf,
              Subject, vars
<1>16. CASE UNCHANGED hvars
  BY <1>12, <1>16 DEF hvars, vars, handlerVars
<1> QED BY <1>1, <1>2, <1>5, <1>6, <1>7, <1>8, <1>9, <1>10, <1>11, <1>13, <1>14, <1>15, <1>16
        DEF HandlersNext

LEMMA HandlersInvariant == HandlersSpec => []HandlersInv
  BY InitHandlers, StepHandlers, PTL DEF HandlersSpec

\* The handlers and the claims they are in the middle of keep their shapes.
THEOREM HandlersTypes == HandlersSpec => []HandlersTypeOK
<1>1. HandlersInv => HandlersTypeOK
  BY DEF HandlersInv
<1> QED BY <1>1, HandlersInvariant, PTL

\* email.send and notification.deliver: no row is done without its message out,
\* unless it was to reach nobody.
THEOREM DoneIsDelivered == HandlersSpec => []DoneMeansSent
<1>1. HandlersInv => DoneMeansSent
  BY DEF HandlersInv
<1> QED BY <1>1, HandlersInvariant, PTL

\* The handlers take no liberty with the queue: with them it is the queue of
\* JobQueue, and what holds of every user of it holds here.
THEOREM HandlersUseQueue == HandlersSpec => Spec
<1>1. HandlersInit => Init
  BY DEF HandlersInit
<1> QED BY <1>1, HandlersInvariant, HandlersStepQueue, PTL DEF HandlersSpec, Spec

-----------------------------------------------------------------------------

\* Every message of the row is matched by a send that got no stamp.
Matched(j) == sent[j] <= unstamped[j]

Stamping(j) == \E w \in Workers : run[w].step = "stamping" /\ run[w].claim.job = j

\* An email's messages, against its stamp and its key: one that is not matched has
\* its stamp or is about to get it, has its stamp or its key, and every claim that
\* could still send has seen the stamp or meets the key.
OneEmail(j) ==
    /\ (job[j].status = "absent" \/ job[j].key \notin EmailKeys) => sent[j] = 0
    /\ sent[j] <= 1 + unstamped[j]
    /\ j \in stamped \/ Stamping(j) \/ Matched(j)
    /\ j \in stamped \/ j \in kept \/ Matched(j)
    /\ \A w \in Workers : \A c \in batch[w] :
          c.job = j => j \in seen[w] \/ j \in kept \/ Matched(j)
    /\ \A w \in Workers :
          (run[w].step = "sending" /\ run[w].claim.job = j /\ job[j].key \in EmailKeys)
             => j \notin seen[w]

EmailInv == \A j \in Jobs : OneEmail(j)

\* A step that sends and forgets nothing, drops no stamp, and of this row neither
\* begins a send nor ends a stamping.
LEMMA EmailKeeps ==
  ASSUME NEW j \in Jobs, OneEmail(j), UNCHANGED <<seen, kept>>, stamped \subseteq stamped',
         sent'[j] = sent[j], unstamped'[j] = unstamped[j],
         (job'[j].status = "absent" \/ job'[j].key \notin EmailKeys) => sent[j] = 0,
         job'[j].key \in EmailKeys => job[j].key \in EmailKeys \/ job[j].status = "absent",
         \A w \in Workers : \A c \in batch'[w] : c.job = j => \E d \in batch[w] : d.job = j,
         \/ j \in stamped' \/ sent[j] = 0
         \/ \A w \in Workers : run[w].step = "stamping" /\ run[w].claim.job = j =>
                                  run'[w].step = "stamping" /\ run'[w].claim.job = j,
         \A w \in Workers : run'[w].step = "sending" /\ run'[w].claim.job = j =>
            /\ run[w].step = "sending" /\ run[w].claim.job = j
            /\ job[j].status # "absent",
         unstamped[j] \in Nat
  PROVE  OneEmail(j)'
<1>1. Matched(j)' <=> Matched(j)
  BY DEF Matched
<1>2. sent[j] = 0 => Matched(j)
  BY DEF Matched
<1>3. \A w \in Workers : \A c \in batch'[w] :
         c.job = j => j \in seen'[w] \/ j \in kept' \/ Matched(j)'
  BY <1>1 DEF OneEmail
<1>4. j \in stamped' \/ Stamping(j)' \/ Matched(j)'
  BY <1>1, <1>2 DEF OneEmail, Stamping
<1>5. j \in stamped' \/ j \in kept' \/ Matched(j)'
  BY <1>1 DEF OneEmail
<1>6. sent'[j] <= 1 + unstamped'[j]
  BY DEF OneEmail
<1>7. \A w \in Workers :
          (run'[w].step = "sending" /\ run'[w].claim.job = j /\ job'[j].key \in EmailKeys)
             => j \notin seen'[w]
  BY DEF OneEmail
<1> QED BY <1>3, <1>4, <1>5, <1>6, <1>7 DEF OneEmail

\* Once a row's messages are all matched, all that is left to show is that no
\* handler sends past a stamp it has seen.
LEMMA MatchedIsFine ==
  ASSUME NEW j \in Jobs, Matched(j)', sent'[j] \in Nat, unstamped'[j] \in Nat,
         (job'[j].status = "absent" \/ job'[j].key \notin EmailKeys) => sent'[j] = 0,
         \A w \in Workers :
            (run'[w].step = "sending" /\ run'[w].claim.job = j /\ job'[j].key \in EmailKeys)
               => j \notin seen'[w]
  PROVE  OneEmail(j)'
<1>1. sent'[j] <= 1 + unstamped'[j]
  BY DEF Matched
<1> QED BY <1>1 DEF OneEmail

\* Every step keeps it.
LEMMA StepEmail == HandlersInv /\ EmailInv /\ [HandlersNext]_hvars => EmailInv'
<1> SUFFICES ASSUME HandlersInv, EmailInv, [HandlersNext]_hvars, NEW j \in Jobs
             PROVE  OneEmail(j)'
  BY DEF EmailInv
<1>0. /\ OneEmail(j) /\ sent[j] \in Nat /\ unstamped[j] \in Nat
      /\ sent \in [Jobs \cup NoticeKeys -> Nat] /\ unstamped \in [Jobs -> Nat]
      /\ DOMAIN run = Workers /\ DOMAIN seen = Workers
      /\ batch \in [Workers -> SUBSET Claim] /\ batch' \in [Workers -> SUBSET Claim]
      /\ seen \in [Workers -> SUBSET Jobs]
  BY RowsStayKeyed DEF EmailInv, HandlersInv, HandlersTypeOK, TypeOK
<1>1. /\ job[j].status # "absent" => job'[j].status # "absent" /\ job'[j].key = job[j].key
      /\ (job'[j].status = "absent" \/ job'[j].key \notin EmailKeys) => sent[j] = 0
      /\ job'[j].key \in EmailKeys => job[j].key \in EmailKeys \/ job[j].status = "absent"
  <2>1. job[j].status # "absent" => job'[j].status # "absent" /\ job'[j].key = job[j].key
    BY RowsStayKeyed
  <2>2. (job[j].status = "absent" \/ job[j].key \notin EmailKeys) => sent[j] = 0
    BY <1>0 DEF OneEmail
  <2> QED BY <2>1, <2>2
<1>2. \A w \in Workers : run[w].step \in {"sending", "stamping", "ended"} =>
         /\ run[w].claim \in batch[w] /\ run[w].claim.job \in Jobs
         /\ job[run[w].claim.job].status # "absent"
         /\ Subject(run[w].claim) = IF KeyOf(run[w].claim) \in EmailKeys
                                    THEN run[w].claim.job ELSE KeyOf(run[w].claim)
         /\ KeyOf(run[w].claim) \notin Jobs
         /\ KeyOf(run[w].claim) = job[run[w].claim.job].key
  <2> SUFFICES ASSUME NEW w \in Workers, run[w].step \in {"sending", "stamping", "ended"}
               PROVE  /\ run[w].claim \in batch[w] /\ run[w].claim.job \in Jobs
                      /\ job[run[w].claim.job].status # "absent"
                      /\ KeyOf(run[w].claim) \notin Jobs
    BY DEF Subject, KeyOf
  <2> QED BY RunShapes, JobHandlersAssumption DEF Resting
<1>3. ASSUME UNCHANGED <<run, handlerVars>>,
             \A w \in Workers : \A c \in batch'[w] : c.job = j => \E d \in batch[w] : d.job = j
      PROVE  OneEmail(j)'
  <2>1. UNCHANGED <<run, seen, stamped, sent, kept, unstamped>>
    BY <1>3 DEF handlerVars, mail
  <2> QED BY <1>0, <1>1, <1>2, <1>3, <2>1, EmailKeeps
<1>4. ASSUME NEW c \in Callers, Enqueue(c) PROVE OneEmail(j)'
  <2>1. UNCHANGED <<batch, handlerVars>>
    BY <1>4 DEF Enqueue, EnqueueCheck, EnqueueInsert, EnqueueRefused
  <2> QED BY <1>3, <2>1 DEF handlerVars
<1>5. ASSUME NEW i \in Jobs, RetryByOperator(i) PROVE OneEmail(j)'
  <2>1. UNCHANGED <<batch, handlerVars>>
    BY <1>5 DEF RetryByOperator, RetryDeadJob
  <2> QED BY <1>3, <2>1 DEF handlerVars
<1>6. CASE UNCHANGED hvars
  BY <1>3, <1>6 DEF hvars, vars, handlerVars
<1>7. CASE TickHandlers
  <2>1. /\ UNCHANGED <<seen, stamped, sent, kept, unstamped>>
        /\ \A w \in Workers : batch'[w] = AgedBatch(batch[w])
    BY <1>7 DEF TickHandlers, mail, Tick
  <2>2. ASSUME NEW w \in Workers, NEW c \in batch'[w], c.job = j
        PROVE  \E d \in batch[w] : d.job = j
    <3>1. PICK d \in batch[w] : c = [d EXCEPT !.left = Less(@)]
      BY <2>1 DEF AgedBatch
    <3>2. d \in Claim
      BY <1>0
    <3> QED BY <2>2, <3>1, <3>2 DEF Claim
  <2>3. ASSUME NEW w \in Workers
        PROVE  /\ run'[w].step = run[w].step
               /\ run[w].step \in {"sending", "stamping"} =>
                     run'[w].claim.job = run[w].claim.job
    <3>1. CASE run[w] = Resting
      BY <1>7, <3>1 DEF TickHandlers, Resting
    <3>2. CASE run[w] # Resting
      <4>1. run'[w] = [run[w] EXCEPT !.claim = [run[w].claim EXCEPT !.left = Less(run[w].claim.left)]]
        BY <1>7, <3>2 DEF TickHandlers
      <4>2. run[w] \in Running \/ run[w] \in Ending
        BY <3>2 DEF HandlersInv, HandlersTypeOK, Running, Ending
      <4>3. [run[w].claim EXCEPT !.left = Less(run[w].claim.left)].job = run[w].claim.job
        BY <3>2, RunShapes DEF Claim
      <4> QED BY <4>1, <4>2, <4>3 DEF Running, Ending
    <3> QED BY <3>1, <3>2
  <2> QED BY <1>0, <1>1, <1>2, <2>1, <2>2, <2>3, EmailKeeps
<1>8. ASSUME NEW w \in Workers, NEW r, run' = [run EXCEPT ![w] = r], r.step \notin {"sending", "stamping"},
             UNCHANGED <<seen, sent, kept>>, unstamped'[j] = unstamped[j], stamped \subseteq stamped',
             \A v \in Workers : batch'[v] \subseteq batch[v],
             run[w].step = "stamping" => \/ run[w].claim.job # j
                                         \/ KeyOf(run[w].claim) \notin EmailKeys
                                         \/ j \in stamped'
      PROVE  OneEmail(j)'
  <2>1. \A v \in Workers : run'[v] = IF v = w THEN r ELSE run[v]
    BY <1>0, <1>8
  <2>2. ASSUME run[w].step = "stamping" PROVE run[w].claim.job # j \/ sent[j] = 0 \/ j \in stamped'
    BY <1>0, <1>2, <1>8, <2>2 DEF OneEmail
  <2> QED BY <1>0, <1>1, <1>2, <1>8, <2>1, <2>2, EmailKeeps
<1>9. ASSUME NEW w \in Workers, Conclude(w) PROVE OneEmail(j)'
  <2>1. /\ run[w].step = "ended" /\ run' = [run EXCEPT ![w] = Resting]
        /\ UNCHANGED <<seen, stamped, sent, kept, unstamped>>
        /\ \A v \in Workers : batch'[v] \subseteq batch[v]
    BY <1>0, <1>9 DEF Conclude, mail, Finish, FinishUnrecorded
  <2> QED BY <1>8, <2>1 DEF Resting
<1>10. ASSUME NEW w \in Workers, SendRefused(w) PROVE OneEmail(j)'
  <2>1. PICK o \in {"retry", "fatal"} : run' = [run EXCEPT ![w] = Ended(run[w].claim, o)]
    BY <1>10 DEF SendRefused
  <2>2. /\ run[w].step = "sending"
        /\ UNCHANGED <<batch, seen, stamped, sent, kept, unstamped>>
    BY <1>10 DEF SendRefused, mail, vars
  <2> QED BY <1>8, <2>1, <2>2 DEF Ended
<1>11. ASSUME NEW w \in Workers, Stamp(w) PROVE OneEmail(j)'
  <2>1. /\ run[w].step = "stamping" /\ run' = [run EXCEPT ![w] = Ended(run[w].claim, "done")]
        /\ stamped' = stamped \cup {Subject(run[w].claim)}
        /\ UNCHANGED <<batch, seen, sent, kept, unstamped>>
    BY <1>11 DEF Stamp, mail, vars
  <2>2. run[w].claim.job # j \/ KeyOf(run[w].claim) \notin EmailKeys \/ j \in stamped'
    BY <1>2, <2>1
  <2> QED BY <1>8, <2>1, <2>2 DEF Ended
<1>12. ASSUME NEW w \in Workers, StampLost(w) \/ KillHandler(w) PROVE OneEmail(j)'
  <2>1. PICK r : /\ run' = [run EXCEPT ![w] = r] /\ r.step \notin {"sending", "stamping"}
                 /\ UNCHANGED <<seen, stamped, sent, kept>>
                 /\ \A v \in Workers : batch'[v] \subseteq batch[v]
                 /\ IF run[w].step = "stamping" THEN LeaveUnstamped(run[w].claim)
                                                ELSE UNCHANGED unstamped
                 /\ UNCHANGED job
    <3>1. CASE StampLost(w)
      <4> DEFINE r == Ended(run[w].claim, "done")
      <4>1. r.step \notin {"sending", "stamping"}
        BY DEF Ended
      <4> QED BY <3>1, <4>1 DEF StampLost, vars
    <3>2. CASE KillHandler(w)
      <4>1. Resting.step \notin {"sending", "stamping"}
        BY DEF Resting
      <4> QED BY <1>0, <3>2, <4>1 DEF KillHandler, Kill
    <3> QED BY <1>12, <3>1, <3>2
  <2>2. CASE unstamped'[j] = unstamped[j]
    <3>1. ASSUME run[w].step = "stamping" PROVE run[w].claim.job # j \/ KeyOf(run[w].claim) \notin EmailKeys
      BY <1>0, <1>2, <2>1, <2>2, <3>1 DEF LeaveUnstamped
    <3> QED BY <1>8, <2>1, <2>2, <3>1
  <2>3. CASE unstamped'[j] # unstamped[j]
    <3>1. unstamped'[j] = unstamped[j] + 1
      BY <1>0, <2>1, <2>3 DEF LeaveUnstamped
    <3>2. Matched(j)' /\ unstamped'[j] \in Nat /\ sent'[j] \in Nat
      BY <1>0, <2>1, <3>1 DEF Matched, OneEmail
    <3>3. \A v \in Workers : run'[v] = IF v = w THEN r ELSE run[v]
      BY <1>0, <2>1
    <3> QED BY <1>0, <1>1, <2>1, <3>2, <3>3, MatchedIsFine DEF OneEmail
  <2> QED BY <2>2, <2>3
<1>13. ASSUME NEW w \in Workers, NEW c \in batch[w], Begin(w, c) PROVE OneEmail(j)'
  <2>1. run[w].step = "resting" /\ UNCHANGED <<job, batch, seen, stamped, sent, kept, unstamped>>
    BY <1>13 DEF Begin, Resting, mail, vars
  <2>2. ASSUME NEW o, run' = [run EXCEPT ![w] = Ended(c, o)] PROVE OneEmail(j)'
    BY <1>8, <2>1, <2>2 DEF Ended
  <2>3. CASE ~AlreadySent(w, c) /\ run' = [run EXCEPT ![w] = At("sending", c)]
    <3> DEFINE r == At("sending", c)
    <3>1. \A v \in Workers : run'[v] = IF v = w THEN r ELSE run[v]
      BY <1>0, <2>3
    <3>2. r.step = "sending" /\ r.claim = c
      BY DEF At
    <3> HIDE DEF r
    <3>3. c.job = j /\ job[j].key \in EmailKeys => j \notin seen[w]
      BY <2>3 DEF AlreadySent, KeyOf
    <3>4. Matched(j)' <=> Matched(j)
      BY <2>1 DEF Matched
    <3>5. Stamping(j) => Stamping(j)'
      BY <2>1, <3>1 DEF Stamping
    <3> QED BY <1>0, <2>1, <3>1, <3>2, <3>3, <3>4, <3>5 DEF OneEmail
  <2> QED BY <1>13, <2>2, <2>3 DEF Begin
<1>14. ASSUME NEW w \in Workers, ClaimRows(w) PROVE OneEmail(j)'
  <2>1. /\ UNCHANGED <<run, stamped, sent, kept, unstamped>> /\ run[w].step = "resting"
        /\ seen' = [seen EXCEPT ![w] = {c.job : c \in batch'[w]} \cap stamped]
        /\ \A v \in Workers \ {w} : batch'[v] = batch[v]
    BY <1>0, <1>14 DEF ClaimRows, ClaimBatch, mail, Resting
  <2>2. Matched(j)' <=> Matched(j)
    BY <2>1 DEF Matched
  <2>3. ASSUME NEW v \in Workers, NEW c \in batch'[v], c.job = j
        PROVE  j \in seen'[v] \/ j \in kept' \/ Matched(j)'
    <3>1. CASE v = w
      <4>1. j \in stamped => j \in seen'[w]
        BY <1>0, <2>1, <2>3, <3>1
      <4> QED BY <1>0, <2>1, <2>2, <3>1, <4>1 DEF OneEmail
    <3>2. CASE v # w
      BY <1>0, <2>1, <2>2, <2>3, <3>2 DEF OneEmail
    <3> QED BY <3>1, <3>2
  <2>4. ASSUME NEW v \in Workers, run'[v].step = "sending", run'[v].claim.job = j,
               job'[j].key \in EmailKeys
        PROVE  j \notin seen'[v]
    <3>1. v # w /\ run[v].step = "sending" /\ run[v].claim.job = j
      BY <2>1, <2>4
    <3>2. job[j].key \in EmailKeys
      BY <1>1, <1>2, <2>4, <3>1
    <3> QED BY <1>0, <2>1, <3>1, <3>2 DEF OneEmail
  <2>5. Stamping(j)' <=> Stamping(j)
    BY <2>1 DEF Stamping
  <2> QED BY <1>0, <1>1, <2>1, <2>2, <2>3, <2>4, <2>5 DEF OneEmail
<1>15. ASSUME NEW w \in Workers, run[w].step = "sending", Deliver(run[w].claim),
              run[w].claim.job = j, KeyOf(run[w].claim) \in EmailKeys
       PROVE  \/ sent'[j] = sent[j] /\ kept' = kept /\ j \in kept
              \/ sent'[j] = sent[j] + 1 /\ kept' = kept \cup {j} /\ Matched(j)
  <2>1. CASE j \in kept
    BY <1>15, <2>1 DEF Deliver
  <2>2. CASE j \notin kept
    <3>1. j \notin seen[w]
      BY <1>0, <1>2, <1>15 DEF OneEmail
    <3>2. Matched(j)
      BY <1>0, <1>2, <1>15, <2>2, <3>1 DEF OneEmail
    <3>3. sent'[j] = sent[j] + 1 /\ kept' = kept \cup {j}
      BY <1>0, <1>2, <1>15, <2>2 DEF Deliver
    <3> QED BY <3>2, <3>3
  <2> QED BY <2>1, <2>2
<1>16. ASSUME NEW w \in Workers, run[w].step = "sending", Deliver(run[w].claim),
              ~(run[w].claim.job = j /\ KeyOf(run[w].claim) \in EmailKeys)
       PROVE  /\ sent'[j] = sent[j] /\ (j \in kept' <=> j \in kept)
              /\ run[w].claim.job = j => sent[j] = 0
  <2>1. Subject(run[w].claim) # j
    BY <1>2, <1>16
  <2>2. sent'[j] = sent[j]
    BY <1>0, <1>16, <2>1 DEF Deliver
  <2>3. j \in kept' <=> j \in kept
    BY <1>16 DEF Deliver
  <2>4. run[w].claim.job = j => sent[j] = 0
    BY <1>0, <1>2, <1>16 DEF OneEmail
  <2> QED BY <2>2, <2>3, <2>4
<1>17. ASSUME NEW w \in Workers, SendAccepted(w) PROVE OneEmail(j)'
  <2> DEFINE c == run[w].claim
             r == At("stamping", c)
  <2>1. /\ run[w].step = "sending" /\ UNCHANGED <<job, batch, seen, stamped, unstamped>>
        /\ Deliver(c) /\ \A v \in Workers : run'[v] = IF v = w THEN r ELSE run[v]
    BY <1>0, <1>17 DEF SendAccepted, vars
  <2>2. r.step = "stamping" /\ r.claim = c
    BY DEF At
  <2> HIDE DEF r
  <2>3. \A v \in Workers :
          (run'[v].step = "sending" /\ run'[v].claim.job = j /\ job'[j].key \in EmailKeys)
             => j \notin seen'[v]
    BY <1>0, <2>1, <2>2 DEF OneEmail
  <2>4. CASE c.job = j /\ KeyOf(c) \in EmailKeys
    <3>0. /\ run[w].step = "sending" /\ Deliver(run[w].claim) /\ run[w].claim.job = j
          /\ KeyOf(run[w].claim) \in EmailKeys
      BY <2>1, <2>4
    <3>1. \/ sent'[j] = sent[j] /\ kept' = kept /\ j \in kept
          \/ sent'[j] = sent[j] + 1 /\ kept' = kept \cup {j} /\ Matched(j)
      BY <1>15, <3>0
    <3>2. Stamping(j)'
      BY <2>1, <2>2, <2>4 DEF Stamping
    <3>3. sent'[j] <= 1 + unstamped'[j] /\ j \in kept'
      BY <1>0, <2>1, <3>1 DEF Matched, OneEmail
    <3>4. job'[j].status # "absent" /\ job'[j].key \in EmailKeys
      BY <1>2, <2>1, <2>4
    <3> QED BY <2>3, <3>2, <3>3, <3>4 DEF OneEmail
  <2>5. CASE ~(c.job = j /\ KeyOf(c) \in EmailKeys)
    <3>1. sent'[j] = sent[j] /\ (j \in kept' <=> j \in kept)
      BY <1>16, <2>1, <2>5
    <3>2. Matched(j)' <=> Matched(j)
      BY <2>1, <3>1 DEF Matched
    <3>3. Stamping(j) => Stamping(j)'
      BY <2>1, <2>2 DEF Stamping
    <3> QED BY <1>0, <2>1, <2>3, <3>1, <3>2, <3>3 DEF OneEmail
  <2> QED BY <2>4, <2>5
<1>18. ASSUME NEW w \in Workers, SendAnswerLost(w) PROVE OneEmail(j)'
  <2> DEFINE c == run[w].claim
             r == Ended(c, "retry")
  <2>1. /\ run[w].step = "sending" /\ UNCHANGED <<job, batch, seen, stamped>>
        /\ Deliver(c) /\ LeaveUnstamped(c)
        /\ \A v \in Workers : run'[v] = IF v = w THEN r ELSE run[v]
    BY <1>0, <1>18 DEF SendAnswerLost, vars
  <2>2. r.step = "ended"
    BY DEF Ended
  <2> HIDE DEF r
  <2>3. \A v \in Workers :
          (run'[v].step = "sending" /\ run'[v].claim.job = j /\ job'[j].key \in EmailKeys)
             => j \notin seen'[v]
    BY <1>0, <2>1, <2>2 DEF OneEmail
  <2>4. CASE c.job = j /\ KeyOf(c) \in EmailKeys
    <3>0. /\ run[w].step = "sending" /\ Deliver(run[w].claim) /\ run[w].claim.job = j
          /\ KeyOf(run[w].claim) \in EmailKeys
      BY <2>1, <2>4
    <3>1. \/ sent'[j] = sent[j] /\ kept' = kept /\ j \in kept
          \/ sent'[j] = sent[j] + 1 /\ kept' = kept \cup {j} /\ Matched(j)
      BY <1>15, <3>0
    <3>2. unstamped'[j] = unstamped[j] + 1
      BY <1>0, <2>1, <2>4 DEF LeaveUnstamped
    <3>3. Matched(j)' /\ sent'[j] \in Nat /\ unstamped'[j] \in Nat
      BY <1>0, <3>1, <3>2 DEF Matched, OneEmail
    <3>4. job'[j].status # "absent" /\ job'[j].key \in EmailKeys
      BY <1>2, <2>1, <2>4
    <3> QED BY <2>3, <3>3, <3>4, MatchedIsFine
  <2>5. CASE ~(c.job = j /\ KeyOf(c) \in EmailKeys)
    <3>1. sent'[j] = sent[j] /\ (j \in kept' <=> j \in kept)
      BY <1>16, <2>1, <2>5
    <3>2. unstamped'[j] = unstamped[j]
      BY <1>0, <1>2, <2>1, <2>5 DEF LeaveUnstamped
    <3>3. Matched(j)' <=> Matched(j)
      BY <3>1, <3>2 DEF Matched
    <3>4. Stamping(j) => Stamping(j)'
      BY <2>1, <2>2 DEF Stamping
    <3> QED BY <1>0, <2>1, <2>3, <3>1, <3>2, <3>3, <3>4 DEF OneEmail
  <2> QED BY <2>4, <2>5
<1>19. ASSUME NEW i \in Jobs, Forget(i) PROVE OneEmail(j)'
  <2>1. /\ UNCHANGED <<job, batch, run, seen, stamped, sent, unstamped>>
        /\ kept' = kept \ {i}
        /\ \A w \in Workers : \A c \in batch[w] : c.job # i
    BY <1>19 DEF Forget, vars
  <2>2. (Matched(j)' <=> Matched(j)) /\ (Stamping(j)' <=> Stamping(j))
    BY <2>1 DEF Matched, Stamping
  <2>3. i = j => ~Stamping(j)
    BY <1>2, <2>1 DEF Stamping
  <2> QED BY <1>0, <2>1, <2>2, <2>3 DEF OneEmail
<1> QED BY <1>4, <1>5, <1>6, <1>7, <1>9, <1>10, <1>11, <1>12, <1>13, <1>14, <1>17, <1>18, <1>19
        DEF HandlersNext

\* email.send: one email job is one message, and one more at most for every send
\* that got no stamp, whatever is killed, lost, retried by an operator after the
\* provider has forgotten the key, or handed to a second worker meanwhile.
THEOREM OneMessage == HandlersSpec => []EmailSendsAgainOnlyUnstamped
<1>1. HandlersInit => EmailInv
  <2> SUFFICES ASSUME HandlersInit, NEW j \in Jobs PROVE OneEmail(j)
    BY DEF EmailInv
  <2>1. /\ sent[j] = 0 /\ unstamped[j] = 0 /\ \A w \in Workers : run[w].step = "resting"
    BY DEF HandlersInit, Resting
  <2> QED BY <2>1 DEF OneEmail, Matched
<1>2. EmailInv => EmailSendsAgainOnlyUnstamped
  BY DEF EmailInv, OneEmail, EmailSendsAgainOnlyUnstamped
<1> QED BY <1>1, <1>2, HandlersInvariant, StepEmail, PTL DEF HandlersSpec

-----------------------------------------------------------------------------

\* Nothing was killed, lost or outlived.
Quiet == faults = 0 /\ slips = 0 /\ ~overrun

\* A notification is sent once and, once sent, is stamped or about to be, so that
\* no handler still sends it.
NoticeOnce(k) ==
    /\ sent[k] <= 1
    /\ sent[k] = 1 => \/ k \in stamped
                      \/ \E w \in Workers : run[w].step = "stamping" /\ KeyOf(run[w].claim) = k
    /\ \A w \in Workers : run[w].step = "sending" /\ KeyOf(run[w].claim) = k => sent[k] = 0

QuietInv == Quiet => \A k \in NoticeKeys : NoticeOnce(k)

\* While no lease is outlived, a key is in one claim at a time: one row of it is
\* live, and one worker holds that row.
LEMMA OneOnKey ==
  ASSUME HandlersInv, IInv, ~overrun, NEW v \in Workers, NEW w \in Workers,
         NEW c \in batch[v], NEW d \in batch[w], KeyOf(c) = KeyOf(d), KeyOf(c) \in Keys
  PROVE  v = w /\ c = d
<1>1. c.job \in Jobs /\ d.job \in Jobs
  BY DEF IInv, TypeOK, Claim
<1>2. job[c.job].status = "running" /\ job[d.job].status = "running"
  BY DEF IInv, HeldInv
<1>3. c.job = d.job
  BY <1>1, <1>2, JobQueueAssumption DEF IInv, OneLiveRowPerKey, Live, LiveStatuses, KeyOf
<1> QED BY <1>3, HeldOnce DEF IInv

\* A step that sends and stamps nothing, and leaves each handler at its step or
\* takes it from one that is not the stamping to one that is not the sending.
LEMMA QuietKeeps ==
  ASSUME NEW k \in NoticeKeys, NoticeOnce(k), UNCHANGED <<sent, stamped>>,
         \A w \in Workers :
            \/ /\ run'[w].step = run[w].step
               /\ run[w].step \in {"sending", "stamping"} =>
                     KeyOf(run[w].claim)' = KeyOf(run[w].claim)
            \/ /\ run[w].step # "stamping" \/ KeyOf(run[w].claim) # k
               /\ run'[w].step # "sending" \/ KeyOf(run[w].claim)' # k
  PROVE  NoticeOnce(k)'
  BY DEF NoticeOnce

\* In a quiet queue every step keeps it.
LEMMA StepQuiet == HandlersInv /\ IInv /\ QuietInv /\ [HandlersNext]_hvars => QuietInv'
<1> SUFFICES ASSUME HandlersInv, IInv, QuietInv, [HandlersNext]_hvars, Quiet',
                    NEW k \in NoticeKeys
             PROVE  NoticeOnce(k)'
  BY DEF QuietInv
<1>0. /\ TypeOK /\ HandlersTypeOK /\ [Next]_vars /\ k \in Keys /\ k \notin EmailKeys
      /\ k \notin Jobs
  BY HandlersStepQueue, JobHandlersAssumption DEF IInv, HandlersInv
<1>1. slips' = slips \/ slips' = slips + 1
  BY DEF HandlersNext, Enqueue, RetryByOperator, TickHandlers, ClaimRows, Begin, SendAccepted,
         SendAnswerLost, SendRefused, Stamp, StampLost, Conclude, KillHandler, Forget, hvars,
         handlerVars
<1>2. Quiet /\ NoticeOnce(k)
  <2>1. slips = 0
    BY <1>0, <1>1 DEF Quiet, HandlersTypeOK
  <2>2. faults = 0 /\ ~overrun
    BY <1>0, Monotone DEF Quiet, TypeOK
  <2> QED BY <2>1, <2>2 DEF Quiet, QuietInv
<1>4. \A w \in Workers : run[w] # Resting =>
          /\ job'[run[w].claim.job].key = KeyOf(run[w].claim)
          /\ run[w].claim \in batch[w] /\ run[w].claim \in Claim
  BY RunShapes, RowsStayKeyed DEF KeyOf
<1>5. ASSUME UNCHANGED <<run, sent, stamped>> PROVE NoticeOnce(k)'
  BY <1>2, <1>4, <1>5, QuietKeeps DEF KeyOf, Resting
<1>6. ASSUME NEW w \in Workers, UNCHANGED <<job, sent, stamped>>, NEW r, r.step # "sending",
             run[w].step # "stamping" \/ KeyOf(run[w].claim) # k, run' = [run EXCEPT ![w] = r]
      PROVE  NoticeOnce(k)'
  <2>1. \A v \in Workers : run'[v] = IF v = w THEN r ELSE run[v]
    <3>1. DOMAIN run = Workers
      BY <1>0 DEF HandlersTypeOK
    <3> QED BY <1>6, <3>1
  <2> QED BY <1>2, <1>6, <2>1, QuietKeeps DEF KeyOf
<1>7. ASSUME NEW c \in Callers, Enqueue(c) PROVE NoticeOnce(k)'
  BY <1>5, <1>7 DEF Enqueue, handlerVars, mail
<1>8. ASSUME NEW j \in Jobs, RetryByOperator(j) PROVE NoticeOnce(k)'
  BY <1>5, <1>8 DEF RetryByOperator, handlerVars, mail
<1>9. ASSUME NEW w \in Workers, ClaimRows(w) PROVE NoticeOnce(k)'
  BY <1>5, <1>9 DEF ClaimRows, mail
<1>10. ASSUME NEW w \in Workers,
              KillHandler(w) \/ SendAnswerLost(w) \/ StampLost(w)
       PROVE  NoticeOnce(k)'
  BY <1>0, <1>2, <1>10
     DEF Quiet, KillHandler, Kill, SendAnswerLost, StampLost, HandlersTypeOK, TypeOK
<1>11. ASSUME NEW w \in Workers, Conclude(w) PROVE NoticeOnce(k)'
  <2>1. /\ run[w].step = "ended" /\ run[w] # Resting /\ run' = [run EXCEPT ![w] = Resting]
        /\ UNCHANGED <<sent, stamped>>
    BY <1>11 DEF Conclude, mail, Resting
  <2>2. \A v \in Workers : run'[v] = IF v = w THEN Resting ELSE run[v]
    <3>1. DOMAIN run = Workers
      BY <1>0 DEF HandlersTypeOK
    <3> QED BY <2>1, <3>1
  <2>3. \A v \in Workers \ {w} : run[v].step \in {"sending", "stamping"} =>
            KeyOf(run[v].claim)' = KeyOf(run[v].claim)
    BY <1>4, <2>2 DEF KeyOf, Resting
  <2> QED BY <1>2, <2>1, <2>2, <2>3, QuietKeeps DEF Resting
<1>12. ASSUME NEW w \in Workers, SendRefused(w) PROVE NoticeOnce(k)'
  <2>1. PICK o \in {"retry", "fatal"} : run' = [run EXCEPT ![w] = Ended(run[w].claim, o)]
    BY <1>12 DEF SendRefused
  <2>2. UNCHANGED <<job, sent, stamped>> /\ run[w].step = "sending"
    BY <1>12 DEF SendRefused, mail, vars
  <2> QED BY <1>6, <2>1, <2>2 DEF Ended
<1>13. ASSUME NEW w \in Workers, Stamp(w) PROVE NoticeOnce(k)'
  <2> DEFINE r == Ended(run[w].claim, "done")
  <2>1. /\ run[w].step = "stamping" /\ UNCHANGED <<job, sent>>
        /\ stamped' = stamped \cup {Subject(run[w].claim)}
        /\ \A v \in Workers : run'[v] = IF v = w THEN r ELSE run[v]
    <3>1. DOMAIN run = Workers
      BY <1>0 DEF HandlersTypeOK
    <3> QED BY <1>13, <3>1 DEF Stamp, mail, vars
  <2>2. \A v \in Workers : KeyOf(run[v].claim) = job[run[v].claim.job].key
    BY DEF KeyOf
  <2>3. KeyOf(run[w].claim) = k => k \in stamped'
    BY <1>0, <2>1 DEF Subject
  <2>4. r.step = "ended"
    BY DEF Ended
  <2> HIDE DEF r
  <2> QED BY <1>2, <2>1, <2>2, <2>3, <2>4 DEF NoticeOnce, KeyOf
<1>14. ASSUME NEW w \in Workers, SendAccepted(w) PROVE NoticeOnce(k)'
  <2> DEFINE c == run[w].claim
             r == At("stamping", c)
  <2>1. /\ run[w].step = "sending" /\ UNCHANGED <<job, batch, stamped>> /\ Deliver(c)
        /\ \A v \in Workers : run'[v] = IF v = w THEN r ELSE run[v]
    <3>1. DOMAIN run = Workers
      BY <1>0 DEF HandlersTypeOK
    <3> QED BY <1>14, <3>1 DEF SendAccepted, vars
  <2>2. r.step = "stamping" /\ r.claim = c
    BY DEF At
  <2>3. c \in batch[w] /\ c.job \in Jobs /\ KeyOf(c) \in Keys
    BY <2>1, RunShapes DEF Resting
  <2> HIDE DEF r
  <2>4. CASE KeyOf(c) # k
    <3>1. sent'[k] = sent[k]
      <4>1. Subject(c) # k
        BY <1>0, <2>3, <2>4 DEF Subject
      <4> QED BY <1>0, <2>1, <4>1 DEF Deliver, HandlersTypeOK
    <3> QED BY <1>2, <2>1, <2>2, <2>4, <3>1 DEF NoticeOnce, KeyOf
  <2>5. CASE KeyOf(c) = k
    <3>1. sent[k] = 0
      BY <1>2, <2>1, <2>5 DEF NoticeOnce
    <3>2. sent'[k] = 1
      BY <1>0, <2>1, <2>5, <3>1 DEF Deliver, Subject, HandlersTypeOK
    <3>3. ASSUME NEW v \in Workers, run'[v].step = "sending", KeyOf(run'[v].claim) = k PROVE FALSE
      <4>1. v # w /\ run[v].step = "sending" /\ KeyOf(run[v].claim) = k
        BY <2>1, <2>2, <3>3
      <4>2. run[v].claim \in batch[v]
        BY <4>1, RunShapes DEF Resting
      <4> QED BY <1>2, <2>3, <2>5, <4>1, <4>2, OneOnKey DEF Quiet
    <3> QED BY <2>1, <2>2, <2>5, <3>2, <3>3 DEF NoticeOnce, KeyOf
  <2> QED BY <2>4, <2>5
<1>15. ASSUME NEW w \in Workers, NEW c \in batch[w], Begin(w, c) PROVE NoticeOnce(k)'
  <2>1. run[w] = Resting /\ run[w].step = "resting" /\ UNCHANGED <<job, batch, sent, stamped>>
    BY <1>15 DEF Begin, Resting, mail, vars
  <2>2. ASSUME NEW o, run' = [run EXCEPT ![w] = Ended(c, o)] PROVE NoticeOnce(k)'
    BY <1>6, <2>1, <2>2 DEF Ended
  <2>3. CASE ~AlreadySent(w, c) /\ run' = [run EXCEPT ![w] = At("sending", c)]
    <3> DEFINE r == At("sending", c)
    <3>1. \A v \in Workers : run'[v] = IF v = w THEN r ELSE run[v]
      <4>1. DOMAIN run = Workers
        BY <1>0 DEF HandlersTypeOK
      <4> QED BY <2>3, <4>1
    <3>2. r.step = "sending" /\ r.claim = c
      BY DEF At
    <3> HIDE DEF r
    <3>3. ASSUME KeyOf(c) = k PROVE sent[k] = 0
      <4>1. k \notin stamped
        BY <1>0, <2>3, <3>3 DEF AlreadySent
      <4>2. ASSUME NEW v \in Workers, run[v].step = "stamping", KeyOf(run[v].claim) = k PROVE FALSE
        <5>1. run[v].claim \in batch[v]
          BY <4>2, RunShapes DEF Resting
        <5>2. v = w
          BY <1>0, <1>2, <3>3, <4>2, <5>1, OneOnKey DEF Quiet
        <5> QED BY <2>1, <4>2, <5>2
      <4>3. sent[k] # 1 /\ sent[k] <= 1 /\ sent[k] \in Nat
        BY <1>0, <1>2, <4>1, <4>2 DEF NoticeOnce, HandlersTypeOK
      <4> QED BY <4>3
    <3> QED BY <1>2, <2>1, <3>1, <3>2, <3>3 DEF NoticeOnce, KeyOf
  <2> QED BY <1>15, <2>2, <2>3 DEF Begin
<1>16. CASE TickHandlers
  <2>1. UNCHANGED <<sent, stamped>>
    BY <1>16 DEF TickHandlers, mail
  <2>2. ASSUME NEW w \in Workers
        PROVE  /\ run'[w].step = run[w].step
               /\ run[w].step \in {"sending", "stamping"} =>
                     run'[w].claim.job = run[w].claim.job
    <3>1. CASE run[w] = Resting
      BY <1>16, <3>1 DEF TickHandlers, Resting
    <3>2. CASE run[w] # Resting
      <4>1. run'[w] = [run[w] EXCEPT !.claim = [run[w].claim EXCEPT !.left = Less(run[w].claim.left)]]
        BY <1>16, <3>2 DEF TickHandlers
      <4>2. run[w] \in Running \/ run[w] \in Ending
        BY <1>0, <3>2 DEF HandlersTypeOK, Running, Ending
      <4>3. [run[w].claim EXCEPT !.left = Less(run[w].claim.left)].job = run[w].claim.job
        BY <1>4, <3>2 DEF Claim
      <4> QED BY <4>1, <4>2, <4>3 DEF Running, Ending
    <3> QED BY <3>1, <3>2
  <2>3. \A w \in Workers : run[w].step \in {"sending", "stamping"} =>
            KeyOf(run[w].claim)' = KeyOf(run[w].claim)
    BY <1>4, <2>2 DEF KeyOf, Resting
  <2> QED BY <1>2, <2>1, <2>2, <2>3, QuietKeeps
<1>17. CASE UNCHANGED hvars
  BY <1>5, <1>17 DEF hvars, handlerVars, mail
<1>18. ASSUME NEW j \in Jobs, Forget(j) PROVE NoticeOnce(k)'
  BY <1>5, <1>18 DEF Forget
<1> QED BY <1>7, <1>8, <1>9, <1>10, <1>11, <1>12, <1>13, <1>14, <1>15, <1>16, <1>17, <1>18
        DEF HandlersNext

\* notification.deliver: where nothing was killed, lost or outlived, a notice is
\* one message, also when it is queued again after it was delivered.
THEOREM NoticeIsOneMessage == HandlersSpec => []NoticeSendsOnceInQuiet
<1>1. HandlersInit => QuietInv
  <2> SUFFICES ASSUME HandlersInit, NEW k \in NoticeKeys PROVE NoticeOnce(k)
    BY DEF QuietInv
  <2>1. sent[k] = 0 /\ \A w \in Workers : run[w].step = "resting"
    BY DEF HandlersInit, Resting
  <2> QED BY <2>1 DEF NoticeOnce
<1>2. QuietInv => NoticeSendsOnceInQuiet
  BY DEF QuietInv, Quiet, NoticeOnce, NoticeSendsOnceInQuiet
<1>3. HandlersSpec => []IInv
  BY HandlersUseQueue, IInvInvariant
<1> QED BY <1>1, <1>2, <1>3, HandlersInvariant, StepQuiet, PTL DEF HandlersSpec

=============================================================================
