------------------------ MODULE BatchPaymentsProofs -------------------------
(***************************************************************************)
(* What holds of a submission paid by card for any number of orders,       *)
(* checkouts, invocations, faults and redeliveries: types, that it settles *)
(* as one, that a charge is on file once, that paid work is findable until *)
(* it is released, and what is never closed or revived.                    *)
(***************************************************************************)
EXTENDS BatchPayments, FiniteSetTheorems, TLAPS

InWork == {m \in Members : member[m] = "in_fulfilment"}

\* While its orders are being placed, a submission has no total, no checkout and
\* no payment, and before it has a row it has no order.
BeforeCheckout ==
    /\ batch = "none" => Joined = {}
    /\ batch \in {"none", "draft"} =>
          /\ total = {} /\ posted = {} /\ own = {}
          /\ \A m \in Members : member[m] \in {"none", "awaiting_payment"}
          /\ \A s \in Sessions : session[s] = "none"
          /\ \A m \in Members : latest[m] = NoSession
          /\ \A e \in EventIds : ledger[e] # "claimed"
          /\ \A i \in Invocations : task[i].step \in {"idle", "placing", "opening"}

\* One request at most places the orders, each of them once.
OnePlaces ==
    \A i \in Invocations : task[i].step = "placing" =>
       /\ batch = "draft"
       /\ task[i].past \subseteq Joined /\ task[i].todo \cap Joined = {}
       /\ \A j \in Invocations : task[j].step = "placing" => j = i

\* An event is of a checkout, and an expiry is of one that expired.
PostedFit ==
    \A e \in posted : /\ e \in {"completed", "expired"} \X Sessions
                      /\ e[1] = "expired" => session[e[2]] = "expired"

\* What an invocation carries fits its step.
Fits(t) ==
    /\ t.step = "paying" => t.event \in {"completed"} \X Sessions
    /\ t.step = "starting" => SessionOf(t.event) \in Sessions
    /\ t.step \in {"expiring", "closing"} =>
          t.event \in {"expired"} \X Sessions /\ session[SessionOf(t.event)] = "expired"
    /\ t.step \in {"asking", "settling"} => t.event \in {"reconcile"} \X Sessions
    /\ t.step = "asking" => \E m \in Joined : t.past = {m}
    /\ t.step = "settling" => \E m \in Members : t.past = {m} /\ Joined = {m}

\* Once one order is at work or an event claimed, none waits: the orders of a
\* payment go to work together.
WorkTogether ==
    /\ InWork # {} => Waiting = {}
    /\ \A e \in EventIds : ledger[e] = "claimed" => Waiting = {}

\* A release under way, as long as nothing was missing, has before it every order
\* whose work is not released.
Covers(t) ==
    t.step = "releasing" =>
       /\ Waiting = {} /\ t.todo \subseteq Joined
       /\ t.holds => InWork \ work \subseteq t.todo

\* What a close was judged on, unless it was raced, still holds.
JudgedRightly(t) ==
    t.step = "closing" /\ t.holds /\ ~raced => \A s \in Sessions : session[s] \notin Live

TasksFit ==
    \A i \in Invocations : Fits(task[i]) /\ Covers(task[i]) /\ JudgedRightly(task[i])

BatchInv ==
    /\ BatchTypeOK /\ BeforeCheckout /\ OnePlaces /\ PostedFit /\ TasksFit
    /\ WorkTogether /\ SettledTogether /\ UnreleasedIsClaimed /\ ChargeIsOnFileOnce

LEMMA InitBatch == Init => BatchInv
<1> SUFFICES ASSUME Init PROVE BatchInv
  OBVIOUS
<1> USE BatchAssumption DEF Init
<1>1. Joined = {} /\ Waiting = {} /\ InWork = {}
  BY DEF Joined, Waiting, InWork
<1>2. Idle \in Task
  BY DEF Idle, Task, Steps, EventIds, Completed, BatchStatuses, Statuses
<1>3. BatchTypeOK
  BY <1>1, <1>2 DEF BatchTypeOK, BatchStatuses, Statuses, SessionStates
<1>4. BeforeCheckout /\ OnePlaces /\ PostedFit
  BY <1>1 DEF BeforeCheckout, OnePlaces, PostedFit, Idle
<1>5. TasksFit
  BY DEF TasksFit, Fits, Covers, JudgedRightly, Idle
<1>6. WorkTogether /\ SettledTogether /\ UnreleasedIsClaimed /\ ChargeIsOnFileOnce
  BY <1>1 DEF WorkTogether, SettledTogether, UnreleasedIsClaimed, ChargeIsOnFileOnce
<1> QED BY <1>3, <1>4, <1>5, <1>6 DEF BatchInv

-----------------------------------------------------------------------------

\* A step that changes no order, no submission and no checkout, and claims no
\* event, keeps the invariant as long as what its invocation goes on with fits.
LEMMA TaskKeeps ==
  ASSUME BatchInv, NEW i \in Invocations, NEW t \in Task,
         task' = [task EXCEPT ![i] = t],
         UNCHANGED <<batch, total, member, session, latest, charged, own, posted>>,
         raced' \in BOOLEAN, raced => raced',
         work \subseteq work', work' \subseteq Joined,
         ledger' \in [EventIds -> {"unknown", "claimed", "done"}],
         \A e \in EventIds : ledger'[e] = "claimed" => ledger[e] = "claimed",
         UnreleasedIsClaimed',
         acked' \subseteq posted, saved' \in BOOLEAN, told' \subseteq Sessions,
         faults' \in Nat, resends' \in Nat,
         batch \in {"none", "draft"} => t.step \in {"idle", "placing", "opening"},
         t.step = "placing" => /\ task[i].step = "placing" /\ t.past = task[i].past
                               /\ t.todo \subseteq task[i].todo,
         Fits(t), t.step = "closing" /\ t.holds /\ ~raced' =>
            \A s \in Sessions : session[s] \notin Live,
         t.step = "releasing" => /\ Waiting = {} /\ t.todo \subseteq Joined
                                 /\ t.holds => InWork \ work' \subseteq t.todo
  PROVE  BatchInv'
<1>0. Joined' = Joined /\ Waiting' = Waiting /\ InWork' = InWork
  BY DEF Joined, Waiting, InWork
<1>1. /\ task' \in [Invocations -> Task] /\ task'[i] = t
      /\ \A j \in Invocations \ {i} : task'[j] = task[j]
  BY DEF BatchInv, BatchTypeOK
<1>2. BatchTypeOK'
  BY <1>0, <1>1 DEF BatchInv, BatchTypeOK
<1>3. BeforeCheckout'
  BY <1>0, <1>1 DEF BatchInv, BeforeCheckout
<1>4. OnePlaces'
  BY <1>0, <1>1 DEF BatchInv, OnePlaces
<1>5. PostedFit' /\ SettledTogether' /\ ChargeIsOnFileOnce'
  BY <1>0 DEF BatchInv, PostedFit, SettledTogether, ChargeIsOnFileOnce
<1>6. WorkTogether'
  BY <1>0 DEF BatchInv, WorkTogether
<1>7. ASSUME NEW j \in Invocations
      PROVE  (Fits(task[j]) /\ Covers(task[j]) /\ JudgedRightly(task[j]))'
  <2>1. CASE j = i
    BY <2>1, <1>0, <1>1 DEF Fits, Covers, JudgedRightly
  <2>2. CASE j # i
    BY <2>2, <1>0, <1>1 DEF BatchInv, TasksFit, Fits, Covers, JudgedRightly
  <2> QED BY <2>1, <2>2
<1>8. TasksFit'
  BY <1>7 DEF TasksFit
<1> QED BY <1>2, <1>3, <1>4, <1>5, <1>6, <1>8 DEF BatchInv

\* A step that moves orders which are already placed, and puts some to work only
\* when some were waiting, keeps the invariant as long as what it decides together
\* holds and what its invocation goes on with fits.
LEMMA OrdersKeep ==
  ASSUME BatchInv, NEW i \in Invocations, NEW t \in Task,
         task' = [task EXCEPT ![i] = t],
         batch \notin {"none", "draft"}, batch' \in BatchStatuses \ {"none", "draft"},
         UNCHANGED <<total, session, latest, posted, raced, work, acked, saved, faults, resends>>,
         member' \in [Members -> Statuses], Joined' = Joined,
         Waiting = {} => InWork' \subseteq InWork, Waiting' \subseteq Waiting,
         ledger' \in [EventIds -> {"unknown", "claimed", "done"}],
         charged' \subseteq Sessions, own' \subseteq Sessions, told' \subseteq Sessions,
         WorkTogether', SettledTogether', UnreleasedIsClaimed', ChargeIsOnFileOnce',
         t.step # "placing", Fits(t), Covers(t)', t.step # "closing"
  PROVE  BatchInv'
<1>1. /\ task' \in [Invocations -> Task] /\ task'[i] = t
      /\ \A j \in Invocations \ {i} : task'[j] = task[j]
  BY DEF BatchInv, BatchTypeOK
<1>2. BatchTypeOK'
  BY <1>1 DEF BatchInv, BatchTypeOK
<1>3. BeforeCheckout' /\ OnePlaces' /\ PostedFit'
  BY <1>1 DEF BatchInv, BeforeCheckout, OnePlaces, PostedFit
<1>4. ASSUME NEW j \in Invocations
      PROVE  (Fits(task[j]) /\ Covers(task[j]) /\ JudgedRightly(task[j]))'
  <2>1. CASE j = i
    BY <2>1, <1>1 DEF Fits, JudgedRightly
  <2>2. CASE j # i
    <3>1. Fits(task[j]) /\ Covers(task[j]) /\ JudgedRightly(task[j]) /\ task'[j] = task[j]
      BY <2>2, <1>1 DEF BatchInv, TasksFit
    <3>2. (Fits(task[j]) /\ JudgedRightly(task[j]))'
      BY <3>1 DEF Fits, JudgedRightly
    <3>3. Covers(task[j])'
      BY <3>1 DEF Covers
    <3> QED BY <3>2, <3>3
  <2> QED BY <2>1, <2>2
<1> QED BY <1>2, <1>3, <1>4 DEF BatchInv, TasksFit

\* A request at rest fits, and so does one that goes from one step to the next of
\* those that carry nothing.
LEMMA RestFits ==
  /\ Idle \in Task /\ Idle.step = "idle"
  /\ \A t \in Task : t.step \in {"idle", "opening", "creating", "answering", "abandoning", "placing"}
        => Fits(t) /\ Covers(t) /\ Covers(t)'
  /\ \A t \in Task, x \in Steps : /\ [t EXCEPT !.step = x] \in Task
                                 /\ [t EXCEPT !.step = x].step = x
<1>1. Idle \in Task /\ Idle.step = "idle"
  BY DEF Idle, Task, Steps, EventIds, Completed, BatchStatuses, Statuses
<1>2. \A t \in Task : t.step \in {"idle", "opening", "creating", "answering", "abandoning", "placing"}
        => Fits(t) /\ Covers(t) /\ Covers(t)'
  BY DEF Fits, Covers
<1>3. \A t \in Task, x \in Steps : [t EXCEPT !.step = x] \in Task /\ [t EXCEPT !.step = x].step = x
  BY DEF Task
<1> QED BY <1>1, <1>2, <1>3

LEMMA StopKeeps ==
  ASSUME BatchInv, NEW i \in Invocations, Stop(i),
         UNCHANGED <<batch, total, member, latest, records, session, posted, resends>>,
         raced' \in BOOLEAN, raced => raced', saved' \in BOOLEAN, acked' \subseteq posted,
         faults' \in Nat
  PROVE  BatchInv'
<1>1. UnreleasedIsClaimed'
  BY DEF BatchInv, UnreleasedIsClaimed, records
<1>2. work' \subseteq Joined /\ ledger' = ledger /\ resends' \in Nat /\ told' \subseteq Sessions
  BY DEF BatchInv, BatchTypeOK, records
<1>3. ledger' \in [EventIds -> {"unknown", "claimed", "done"}]
  BY <1>2 DEF BatchInv, BatchTypeOK
<1>4. Idle \in Task /\ Idle.step = "idle" /\ Fits(Idle)
  BY RestFits
<1> QED BY <1>1, <1>2, <1>3, <1>4, TaskKeeps DEF records, Stop, Begin

\* The same, of a request that goes on with t.
LEMMA GoesOn ==
  ASSUME BatchInv, NEW i \in Invocations, NEW t \in Task, Begin(i, t),
         UNCHANGED <<batch, total, member, latest, records, stripe, saved, faults>>,
         resends' \in Nat, raced' \in BOOLEAN, raced => raced',
         batch \in {"none", "draft"} => t.step \in {"idle", "opening"},
         t.step # "placing", Fits(t), Covers(t), t.step = "closing" /\ t.holds /\ ~raced' =>
            \A s \in Sessions : session[s] \notin Live
  PROVE  BatchInv'
<1>1. UnreleasedIsClaimed'
  BY DEF BatchInv, UnreleasedIsClaimed, records
<1>2. work' \subseteq Joined /\ ledger' = ledger /\ told' \subseteq Sessions
  BY DEF BatchInv, BatchTypeOK, records
<1>3. ledger' \in [EventIds -> {"unknown", "claimed", "done"}]
  BY <1>2 DEF BatchInv, BatchTypeOK
<1>4. acked' \subseteq posted /\ saved' \in BOOLEAN /\ faults' \in Nat
  BY DEF BatchInv, BatchTypeOK, stripe
<1>5. t.step = "releasing" => /\ Waiting = {} /\ t.todo \subseteq Joined
                              /\ t.holds => InWork \ work' \subseteq t.todo
  BY DEF Covers, records
<1> QED BY <1>1, <1>2, <1>3, <1>4, <1>5, TaskKeeps DEF records, stripe, Begin

LEMMA GotoBegins ==
  ASSUME BatchInv, NEW i \in Invocations, NEW x \in Steps, Goto(i, x)
  PROVE  /\ Begin(i, [task[i] EXCEPT !.step = x])
         /\ task[i] \in Task /\ [task[i] EXCEPT !.step = x] \in Task
BY RestFits DEF Goto, Begin, BatchInv, BatchTypeOK

-----------------------------------------------------------------------------

LEMMA SubmitKeeps ==
  ASSUME BatchInv, NEW i \in Invocations, Submit(i) PROVE BatchInv'
<1>1. CASE batch # "none"
  <2> DEFINE t == [Idle EXCEPT !.step = "opening"]
  <2>1. t \in Task /\ t.step = "opening"
    BY RestFits DEF Steps
  <2>2. Fits(t) /\ Covers(t)
    BY <2>1, RestFits
  <2>3. Begin(i, t)
    BY <1>1 DEF Submit
  <2> HIDE DEF t
  <2> QED BY <1>1, <2>1, <2>2, <2>3, GoesOn DEF Submit, BatchInv, BatchTypeOK
<1>2. CASE batch = "none"
  <2> DEFINE t == [Idle EXCEPT !.step = "placing", !.todo = Members]
  <2>1. t \in Task /\ t.step = "placing" /\ t.todo = Members /\ t.past = {}
    BY DEF Idle, Task, Steps, EventIds, Completed, BatchStatuses, Statuses
  <2>2. Fits(t) /\ Covers(t) /\ JudgedRightly(t)'
    BY <2>1 DEF Fits, Covers, JudgedRightly
  <2>3. batch' = "draft" /\ task' = [task EXCEPT ![i] = t]
        /\ UNCHANGED <<total, member, latest, records, stripe, saved, faults, resends, raced>>
    BY <1>2 DEF Submit, Begin
  <2> HIDE DEF t
  <2>4. /\ task' \in [Invocations -> Task] /\ task'[i] = t
        /\ \A j \in Invocations \ {i} : task'[j] = task[j]
    BY <2>1, <2>3 DEF BatchInv, BatchTypeOK
  <2>5. Joined' = Joined /\ Waiting' = Waiting /\ InWork' = InWork /\ Joined = {}
    BY <1>2, <2>3 DEF Joined, Waiting, InWork, BatchInv, BeforeCheckout
  <2>6. BatchTypeOK'
    BY <2>3, <2>4, <2>5 DEF BatchInv, BatchTypeOK, records, stripe, BatchStatuses
  <2>7. BeforeCheckout'
    BY <1>2, <2>1, <2>3, <2>4 DEF BatchInv, BeforeCheckout, records, stripe
  <2>8. OnePlaces'
    BY <1>2, <2>1, <2>3, <2>4, <2>5 DEF BatchInv, OnePlaces
  <2>9. PostedFit' /\ WorkTogether' /\ SettledTogether' /\ UnreleasedIsClaimed' /\ ChargeIsOnFileOnce'
    BY <2>3, <2>5
    DEF BatchInv, PostedFit, WorkTogether, SettledTogether, UnreleasedIsClaimed,
        ChargeIsOnFileOnce, records, stripe
  <2>10. ASSUME NEW j \in Invocations
         PROVE  (Fits(task[j]) /\ Covers(task[j]) /\ JudgedRightly(task[j]))'
    <3>1. CASE j = i
      BY <3>1, <2>1, <2>4 DEF Fits, Covers, JudgedRightly
    <3>2. CASE j # i
      BY <3>2, <2>3, <2>4, <2>5
      DEF BatchInv, TasksFit, Fits, Covers, JudgedRightly, records, stripe
    <3> QED BY <3>1, <3>2
  <2> QED BY <2>6, <2>7, <2>8, <2>9, <2>10 DEF BatchInv, TasksFit
<1> QED BY <1>1, <1>2

LEMMA PlaceOrderKeeps ==
  ASSUME BatchInv, NEW i \in Invocations, NEW m \in Members, PlaceOrder(i, m) PROVE BatchInv'
<1> DEFINE t == [task[i] EXCEPT !.todo = @ \ {m}]
           u == [task[i] EXCEPT !.todo = @ \ {m}, !.past = @ \cup {m}]
<1>0. /\ task[i] \in Task /\ task[i].step = "placing" /\ m \in task[i].todo
      /\ batch = "draft" /\ task[i].past \subseteq Joined /\ task[i].todo \cap Joined = {}
      /\ UNCHANGED <<batch, total, latest, records, stripe, saved, resends, raced>>
      /\ faults' \in Nat
  BY DEF PlaceOrder, BatchInv, BatchTypeOK, OnePlaces, Fault
<1>1. /\ t \in Task /\ t.step = "placing" /\ t.todo = task[i].todo \ {m} /\ t.past = task[i].past
      /\ u \in Task /\ u.step = "placing" /\ u.todo = task[i].todo \ {m}
      /\ u.past = task[i].past \cup {m}
  BY <1>0 DEF Task
<1>2. /\ member' \in {member, [member EXCEPT ![m] = "awaiting_payment"]}
      /\ \/ task' = [task EXCEPT ![i] = t]
         \/ task' = [task EXCEPT ![i] = u] /\ member' = [member EXCEPT ![m] = "awaiting_payment"]
  BY DEF PlaceOrder, Begin
<1> HIDE DEF t, u
<1>3. PICK r \in {t, u} : task' = [task EXCEPT ![i] = r] /\ (r = u => member'[m] = "awaiting_payment")
  <2>1. t # u
    BY <1>0, <1>1
  <2>2. member' = [member EXCEPT ![m] = "awaiting_payment"] => member'[m] = "awaiting_payment"
    BY DEF BatchInv, BatchTypeOK
  <2> QED BY <1>2, <2>1, <2>2
<1>4. /\ task' \in [Invocations -> Task] /\ task'[i] = r
      /\ \A j \in Invocations \ {i} : task'[j] = task[j]
  BY <1>1, <1>3 DEF BatchInv, BatchTypeOK
<1>5. /\ member' \in [Members -> Statuses] /\ Joined \subseteq Joined'
      /\ Joined' \subseteq Joined \cup {m} /\ InWork = {} /\ InWork' = {}
      /\ \A x \in Members : member'[x] \in {"none", "awaiting_payment"}
  BY <1>0, <1>2 DEF BatchInv, BatchTypeOK, Statuses, Joined, InWork, BeforeCheckout
<1>6. BatchTypeOK'
  BY <1>0, <1>4, <1>5 DEF BatchInv, BatchTypeOK, records, stripe
<1>7. BeforeCheckout'
  BY <1>0, <1>1, <1>4, <1>5 DEF BatchInv, BeforeCheckout, records, stripe
<1>8. OnePlaces'
  <2> SUFFICES ASSUME NEW j \in Invocations, task'[j].step = "placing"
               PROVE  /\ j = i /\ task'[j].past \subseteq Joined'
                      /\ task'[j].todo \cap Joined' = {}
    BY <1>0 DEF OnePlaces
  <2>1. j = i
    BY <1>0, <1>4 DEF BatchInv, OnePlaces
  <2>2. r.past \subseteq Joined'
    BY <1>0, <1>1, <1>3, <1>5 DEF Joined
  <2>3. r.todo \cap Joined' = {}
    BY <1>0, <1>1, <1>5
  <2> QED BY <2>1, <2>2, <2>3, <1>4
<1>9. PostedFit' /\ WorkTogether' /\ SettledTogether' /\ UnreleasedIsClaimed' /\ ChargeIsOnFileOnce'
  BY <1>0, <1>5
  DEF BatchInv, PostedFit, WorkTogether, SettledTogether, UnreleasedIsClaimed, InWork,
      ChargeIsOnFileOnce, BeforeCheckout, records, stripe
<1>10. TasksFit'
  BY <1>0, <1>1, <1>4 DEF BatchInv, BeforeCheckout, TasksFit, Fits, Covers, JudgedRightly
<1> QED BY <1>6, <1>7, <1>8, <1>9, <1>10 DEF BatchInv

LEMMA FinishPlacingKeeps ==
  ASSUME BatchInv, NEW i \in Invocations, FinishPlacing(i) PROVE BatchInv'
<1>0. /\ task[i] \in Task /\ task[i].step = "placing" /\ batch = "draft" /\ total = {}
      /\ task[i].past \subseteq Joined
      /\ UNCHANGED <<member, latest, records, stripe, saved, resends, raced>>
  BY DEF FinishPlacing, BatchInv, BatchTypeOK, OnePlaces, BeforeCheckout
<1>1. /\ batch' \in {"draft", "awaiting_payment", "cancelled"} /\ faults' \in Nat
      /\ total' \subseteq Joined /\ (batch' = "cancelled" \/ batch' = "draft" => total' = {})
  BY <1>0 DEF FinishPlacing, BatchInv, BatchTypeOK, Fault
<1>2. PICK r \in Task : r.step \in {"idle", "opening"} /\ task' = [task EXCEPT ![i] = r]
  <2>1. Idle \in Task /\ Idle.step = "idle"
    BY RestFits
  <2>2. [Idle EXCEPT !.step = "opening"] \in Task /\ [Idle EXCEPT !.step = "opening"].step = "opening"
    BY RestFits DEF Steps
  <2>3. \/ task' = [task EXCEPT ![i] = Idle]
        \/ task' = [task EXCEPT ![i] = [Idle EXCEPT !.step = "opening"]]
    BY DEF FinishPlacing, Stop, Begin
  <2> QED BY <2>1, <2>2, <2>3
<1>3. r \in Task /\ r.step \in {"idle", "opening"}
  BY <1>2
<1>4. /\ task' \in [Invocations -> Task] /\ task'[i] = r
      /\ \A j \in Invocations \ {i} : task'[j] = task[j]
  BY <1>2, <1>3 DEF BatchInv, BatchTypeOK
<1>5. Joined' = Joined /\ Waiting' = Waiting /\ InWork' = InWork
  BY <1>0 DEF Joined, Waiting, InWork
<1>6. BatchTypeOK'
  BY <1>0, <1>1, <1>4, <1>5 DEF BatchInv, BatchTypeOK, records, stripe, BatchStatuses
<1>7. BeforeCheckout'
  BY <1>0, <1>1, <1>3, <1>4, <1>5 DEF BatchInv, BeforeCheckout, records, stripe
<1>8. OnePlaces'
  BY <1>0, <1>3, <1>4 DEF BatchInv, OnePlaces
<1>9. PostedFit' /\ WorkTogether' /\ SettledTogether' /\ UnreleasedIsClaimed' /\ ChargeIsOnFileOnce'
  BY <1>0, <1>1, <1>5
  DEF BatchInv, PostedFit, WorkTogether, SettledTogether, UnreleasedIsClaimed,
      ChargeIsOnFileOnce, records, stripe
<1>10. TasksFit'
  BY <1>0, <1>3, <1>4 DEF BatchInv, BeforeCheckout, TasksFit, Fits, Covers, JudgedRightly
<1> QED BY <1>6, <1>7, <1>8, <1>9, <1>10 DEF BatchInv

LEMMA CheckPayableKeeps ==
  ASSUME BatchInv, NEW i \in Invocations, CheckPayable(i) PROVE BatchInv'
<1>1. /\ UNCHANGED <<batch, total, member, latest, records, stripe, faults, resends, raced>>
      /\ raced' \in BOOLEAN /\ saved' \in BOOLEAN /\ acked' \subseteq posted /\ faults' \in Nat
      /\ resends' \in Nat
  BY DEF CheckPayable, BatchInv, BatchTypeOK, stripe
<1>2. CASE Stop(i)
  BY <1>1, <1>2, StopKeeps DEF stripe
<1>3. CASE Goto(i, "creating") /\ batch = "awaiting_payment" /\ UNCHANGED saved
  <2> DEFINE t == [task[i] EXCEPT !.step = "creating"]
  <2>0. "creating" \in Steps
    BY DEF Steps
  <2>1. t \in Task /\ t.step = "creating" /\ Begin(i, t)
    BY <1>3, <2>0, GotoBegins, RestFits
  <2>2. Fits(t) /\ Covers(t)
    BY <2>1, RestFits
  <2> HIDE DEF t
  <2> QED BY <1>1, <1>3, <2>1, <2>2, GoesOn
<1> QED BY <1>2, <1>3 DEF CheckPayable

\* A checkout is opened when none is live, and not under a close being judged.
LEMMA CreateSessionKeeps ==
  ASSUME BatchInv, NEW i \in Invocations, CreateSession(i) PROVE BatchInv'
<1>0. /\ UNCHANGED <<batch, total, member, latest, records, posted, acked, saved, faults, resends>>
      /\ batch \notin {"none", "draft"} /\ task[i] \in Task
  BY DEF CreateSession, BatchInv, BatchTypeOK, BeforeCheckout
<1>1. CASE Stop(i) /\ UNCHANGED <<session, raced>>
  BY <1>0, <1>1, StopKeeps DEF BatchInv, BatchTypeOK
<1>2. ASSUME NEW s \in Sessions,
             Begin(i, [Idle EXCEPT !.step = "starting", !.event = Completed(s), !.todo = Joined]),
             \/ UNCHANGED <<session, raced>>
             \/ /\ session[s] = "none"
                /\ session' = [session EXCEPT ![s] = "made"]
                /\ raced' = (raced \/ Judging)
      PROVE  BatchInv'
  <2> DEFINE t == [Idle EXCEPT !.step = "starting", !.event = Completed(s), !.todo = Joined]
  <2>1. t \in Task /\ t.step = "starting" /\ t.event = Completed(s) /\ SessionOf(t.event) = s
    BY DEF Idle, Task, Steps, EventIds, Completed, SessionOf, Joined, BatchStatuses, Statuses
  <2>2. Fits(t) /\ Covers(t)
    BY <2>1 DEF Fits, Covers
  <2>3. Begin(i, t)
    BY <1>2
  <2> HIDE DEF t
  <2>4. CASE UNCHANGED <<session, raced>>
    BY <1>0, <2>1, <2>2, <2>3, <2>4, GoesOn DEF stripe, BatchInv, BatchTypeOK
  <2>5. CASE /\ session[s] = "none" /\ session' = [session EXCEPT ![s] = "made"]
             /\ raced' = (raced \/ Judging)
    <3>1. /\ task' \in [Invocations -> Task] /\ task'[i] = t
          /\ \A j \in Invocations \ {i} : task'[j] = task[j]
      BY <2>1, <2>3 DEF Begin, BatchInv, BatchTypeOK
    <3>2. /\ Joined' = Joined /\ Waiting' = Waiting /\ InWork' = InWork
          /\ session' \in [Sessions -> SessionStates] /\ raced' \in BOOLEAN
          /\ \A x \in Sessions : session[x] = "expired" => session'[x] = "expired"
      BY <1>0, <2>5 DEF Joined, Waiting, InWork, Judging, SessionStates, BatchInv, BatchTypeOK
    <3>3. BatchTypeOK'
      BY <1>0, <3>1, <3>2 DEF BatchInv, BatchTypeOK, records
    <3>4. BeforeCheckout' /\ OnePlaces'
      BY <1>0, <2>1, <3>1 DEF BatchInv, BeforeCheckout, OnePlaces
    <3>5. /\ PostedFit' /\ WorkTogether' /\ SettledTogether' /\ UnreleasedIsClaimed'
          /\ ChargeIsOnFileOnce'
      BY <1>0, <3>2
      DEF BatchInv, PostedFit, WorkTogether, SettledTogether, UnreleasedIsClaimed,
          ChargeIsOnFileOnce, records
    <3>6. ASSUME NEW j \in Invocations
          PROVE  (Fits(task[j]) /\ Covers(task[j]) /\ JudgedRightly(task[j]))'
      <4>1. CASE j = i
        BY <4>1, <2>1, <2>2, <3>1, <3>2 DEF Fits, Covers, JudgedRightly
      <4>2. CASE j # i
        <5>1. task'[j] = task[j] /\ Fits(task[j]) /\ Covers(task[j])
          BY <4>2, <3>1 DEF BatchInv, TasksFit
        <5>2. Fits(task[j])' /\ task[j].event \in EventIds
          BY <5>1, <3>2 DEF Fits, SessionOf, BatchInv, BatchTypeOK, Task
        <5>3. Covers(task[j])'
          BY <5>1, <3>2, <1>0 DEF Covers, records
        <5>4. JudgedRightly(task[j])'
          BY <5>1, <2>5 DEF JudgedRightly, Judging
        <5> QED BY <5>1, <5>2, <5>3, <5>4
      <4> QED BY <4>1, <4>2
    <3> QED BY <3>3, <3>4, <3>5, <3>6 DEF BatchInv, TasksFit
  <2> QED BY <1>2, <2>4, <2>5
<1> QED BY <1>1, <1>2 DEF CreateSession

\* A step that changes checkouts, opening none, or what an order says of them.
LEMMA CheckoutsKeep ==
  ASSUME BatchInv, batch \notin {"none", "draft"},
         UNCHANGED <<batch, total, member, records, acked, saved, resends, raced>>,
         session' \in [Sessions -> SessionStates], latest' \in [Members -> Sessions \cup {NoSession}],
         posted \subseteq posted', posted' \subseteq EventIds, PostedFit', faults' \in Nat,
         \A s \in Sessions : /\ session[s] = "expired" => session'[s] = "expired"
                             /\ session'[s] \in Live => session[s] \in Live,
         task' \in [Invocations -> Task],
         \A j \in Invocations :
            \/ task'[j] = task[j]
            \/ task'[j].step = "idle"
            \/ task'[j].step = "starting" /\ SessionOf(task'[j].event) \in Sessions
  PROVE  BatchInv'
<1>1. Joined' = Joined /\ Waiting' = Waiting /\ InWork' = InWork
  BY DEF Joined, Waiting, InWork
<1>2. BatchTypeOK'
  BY <1>1 DEF BatchInv, BatchTypeOK, records
<1>3. BeforeCheckout' /\ OnePlaces'
  BY <1>1 DEF BatchInv, BeforeCheckout, OnePlaces
<1>4. WorkTogether' /\ SettledTogether' /\ UnreleasedIsClaimed' /\ ChargeIsOnFileOnce'
  BY <1>1
  DEF BatchInv, WorkTogether, SettledTogether, UnreleasedIsClaimed, ChargeIsOnFileOnce, records
<1>5. ASSUME NEW j \in Invocations
      PROVE  (Fits(task[j]) /\ Covers(task[j]) /\ JudgedRightly(task[j]))'
  <2>1. CASE task'[j] # task[j]
    BY <2>1 DEF Fits, Covers, JudgedRightly
  <2>2. CASE task'[j] = task[j]
    <3>1. Fits(task[j]) /\ Covers(task[j]) /\ JudgedRightly(task[j])
      BY DEF BatchInv, TasksFit
    <3>2. Fits(task[j])' /\ task[j].event \in EventIds
      BY <3>1, <2>2, <1>1 DEF Fits, SessionOf, BatchInv, BatchTypeOK, Task
    <3>3. Covers(task[j])' /\ JudgedRightly(task[j])'
      BY <3>1, <2>2, <1>1 DEF Covers, JudgedRightly, records
    <3> QED BY <2>2, <3>2, <3>3
  <2> QED BY <2>1, <2>2
<1> QED BY <1>2, <1>3, <1>4, <1>5 DEF BatchInv, TasksFit

LEMMA RecordStartedKeeps ==
  ASSUME BatchInv, NEW i \in Invocations, RecordStarted(i) PROVE BatchInv'
<1> DEFINE s == SessionOf(task[i].event)
<1>0. /\ UNCHANGED <<batch, total, member, records, posted, acked, saved, resends, raced>>
      /\ task[i] \in Task /\ task[i].step = "starting" /\ s \in Sessions
      /\ batch \notin {"none", "draft"} /\ faults' \in Nat
  <2>1. /\ UNCHANGED <<batch, total, member, records, posted, acked, saved, resends, raced>>
        /\ task[i].step = "starting" /\ (faults' = faults \/ faults' = faults + 1)
    BY DEF RecordStarted, Fault
  <2>2. task[i] \in Task /\ faults' \in Nat
    BY <2>1 DEF BatchInv, BatchTypeOK
  <2>3. s \in Sessions
    BY <2>1 DEF BatchInv, TasksFit, Fits
  <2>4. batch \notin {"none", "draft"}
    BY <2>1 DEF BatchInv, BeforeCheckout
  <2> QED BY <2>1, <2>2, <2>3, <2>4
<1>1. /\ latest' \in [Members -> Sessions \cup {NoSession}]
      /\ session' = session \/ session' = [session EXCEPT ![s] = IF @ = "made" THEN "open" ELSE @]
  BY <1>0 DEF RecordStarted, BatchInv, BatchTypeOK
<1>2. /\ session' \in [Sessions -> SessionStates]
      /\ \A x \in Sessions : /\ session[x] = "expired" => session'[x] = "expired"
                             /\ session'[x] \in Live => session[x] \in Live
  BY <1>0, <1>1 DEF BatchInv, BatchTypeOK, SessionStates, Live
<1>3. PICK r \in Task : /\ task' = [task EXCEPT ![i] = r]
                        /\ \/ r.step = "idle"
                           \/ r.step = "starting" /\ SessionOf(r.event) \in Sessions
  <2>1. CASE Stop(i)
    <3>1. task' = [task EXCEPT ![i] = Idle]
      BY <2>1 DEF Stop, Begin
    <3>2. Idle \in Task /\ Idle.step = "idle"
      BY RestFits
    <3> QED BY <3>1, <3>2
  <2>2. ASSUME NEW m \in task[i].todo, Begin(i, [task[i] EXCEPT !.todo = @ \ {m}])
        PROVE  \E r \in Task : /\ task' = [task EXCEPT ![i] = r]
                               /\ r.step = "starting" /\ SessionOf(r.event) \in Sessions
    <3>1. /\ [task[i] EXCEPT !.todo = @ \ {m}] \in Task
          /\ [task[i] EXCEPT !.todo = @ \ {m}].step = "starting"
          /\ [task[i] EXCEPT !.todo = @ \ {m}].event = task[i].event
      BY <1>0 DEF Task
    <3> QED BY <2>2, <3>1, <1>0 DEF Begin
  <2> QED BY <2>1, <2>2 DEF RecordStarted
<1>4. task' \in [Invocations -> Task] /\ \A j \in Invocations : task'[j] = IF j = i THEN r ELSE task[j]
  BY <1>3 DEF BatchInv, BatchTypeOK
<1>5. PostedFit' /\ posted' \subseteq EventIds
  BY <1>0, <1>2 DEF BatchInv, BatchTypeOK, PostedFit
<1> HIDE DEF s
<1> QED BY <1>0, <1>1, <1>2, <1>3, <1>4, <1>5, CheckoutsKeep

LEMMA PayKeeps ==
  ASSUME BatchInv, NEW s \in Sessions, Pay(s) \/ Expire(s) PROVE BatchInv'
<1>0. /\ UNCHANGED <<batch, total, member, latest, records, acked, saved, task, resends, raced>>
      /\ session[s] \in Live
  BY DEF Pay, Expire, Live
<1>1. batch \notin {"none", "draft"}
  BY <1>0 DEF BatchInv, BeforeCheckout, Live
<1>2. /\ session' \in [Sessions -> SessionStates]
      /\ \A x \in Sessions : /\ session[x] = "expired" => session'[x] = "expired"
                             /\ session'[x] \in Live => session[x] \in Live
  BY DEF Pay, Expire, BatchInv, BatchTypeOK, SessionStates, Live
<1>3. faults' \in Nat
  BY DEF Pay, Expire, Fault, BatchInv, BatchTypeOK
<1>4. \/ posted' = posted
      \/ posted' = posted \cup {<<"completed", s>>}
      \/ session'[s] = "expired" /\ posted' = posted \cup {<<"expired", s>>}
  <2>1. CASE Pay(s)
    <3>1. posted' = posted \/ posted' = posted \cup {Completed(s)}
      BY <2>1 DEF Pay
    <3> QED BY <3>1 DEF Completed
  <2>2. CASE Expire(s)
    BY <2>2 DEF Expire, Expired, BatchInv, BatchTypeOK
  <2> QED BY <2>1, <2>2
<1>5. posted \subseteq posted' /\ posted' \subseteq EventIds
  BY <1>4 DEF BatchInv, BatchTypeOK, EventIds
<1>6. PostedFit'
  <2>1. \A e \in posted : e \in {"completed", "expired"} \X Sessions
                          /\ (e[1] = "expired" => session'[e[2]] = "expired")
    BY <1>2 DEF BatchInv, PostedFit
  <2>2. <<"completed", s>> \in {"completed", "expired"} \X Sessions
        /\ <<"expired", s>> \in {"completed", "expired"} \X Sessions
    OBVIOUS
  <2> QED BY <2>1, <2>2, <1>4 DEF PostedFit
<1>7. latest' \in [Members -> Sessions \cup {NoSession}] /\ task' \in [Invocations -> Task]
  BY <1>0 DEF BatchInv, BatchTypeOK
<1> QED BY <1>0, <1>1, <1>2, <1>3, <1>5, <1>6, <1>7, CheckoutsKeep

-----------------------------------------------------------------------------

LEMMA ReceiveKeeps ==
  ASSUME BatchInv, NEW i \in Invocations, NEW e \in posted, Receive(i, e) PROVE BatchInv'
<1> DEFINE t == Reading(IF e = Completed(SessionOf(e)) THEN "paying" ELSE "expiring", e)
<1>0. /\ UNCHANGED <<batch, total, member, latest, records, stripe, saved, faults, raced>>
      /\ Begin(i, t) /\ (resends' = resends \/ resends' = resends + 1)
  BY DEF Receive
<1>1. /\ e \in {"completed", "expired"} \X Sessions /\ e \in EventIds
      /\ e[1] = "expired" => session[SessionOf(e)] = "expired"
      /\ batch \notin {"none", "draft"}
  BY DEF BatchInv, BatchTypeOK, PostedFit, BeforeCheckout, SessionOf
<1>2. /\ t \in Task /\ t.event = e /\ t.holds
      /\ t.step = IF e = Completed(SessionOf(e)) THEN "paying" ELSE "expiring"
  BY <1>1 DEF Reading, Idle, Task, Steps, BatchInv, BatchTypeOK
<1>3. /\ e = Completed(SessionOf(e)) => e \in {"completed"} \X Sessions
      /\ e # Completed(SessionOf(e)) => e \in {"expired"} \X Sessions /\ e[1] = "expired"
  BY <1>1 DEF Completed, SessionOf
<1>4. Fits(t) /\ Covers(t) /\ t.step \in {"paying", "expiring"}
  BY <1>1, <1>2, <1>3 DEF Fits, Covers
<1>5. resends' \in Nat /\ raced' \in BOOLEAN /\ (raced => raced')
  BY <1>0 DEF BatchInv, BatchTypeOK
<1> HIDE DEF t
<1> QED BY <1>0, <1>1, <1>2, <1>4, <1>5, GoesOn

\* An order's release, whole or with something missing.
LEMMA ReleaseOneKeeps ==
  ASSUME BatchInv, NEW i \in Invocations, ReleaseOne(i) PROVE BatchInv'
<1>0. /\ UNCHANGED <<batch, total, member, latest, ledger, charged, own, told, stripe, saved,
                     faults, resends, raced>>
      /\ task[i] \in Task /\ task[i].step = "releasing"
  BY DEF ReleaseOne, BatchInv, BatchTypeOK
<1>1. PICK m \in task[i].todo, h \in BOOLEAN :
         /\ work' = work \cup {m} \/ (work' = work /\ ~h)
         /\ h => task[i].holds /\ work' = work \cup {m}
         /\ task' = [task EXCEPT ![i] = [task[i] EXCEPT !.todo = @ \ {m}, !.holds = h]]
  <2>1. PICK m \in task[i].todo :
           \/ /\ work' = work \cup {m}
              /\ Begin(i, [task[i] EXCEPT !.todo = @ \ {m}])
           \/ /\ work' \in {work, work \cup {m}}
              /\ Begin(i, [task[i] EXCEPT !.todo = @ \ {m}, !.holds = FALSE])
    BY DEF ReleaseOne
  <2>2. [task[i] EXCEPT !.todo = @ \ {m}]
           = [task[i] EXCEPT !.todo = @ \ {m}, !.holds = task[i].holds]
        /\ task[i].holds \in BOOLEAN
    BY <1>0 DEF Task
  <2>3. CASE /\ work' = work \cup {m}
             /\ Begin(i, [task[i] EXCEPT !.todo = @ \ {m}])
    BY <2>2, <2>3 DEF Begin
  <2>4. CASE /\ work' \in {work, work \cup {m}}
             /\ Begin(i, [task[i] EXCEPT !.todo = @ \ {m}, !.holds = FALSE])
    BY <2>4 DEF Begin
  <2> QED BY <2>1, <2>3, <2>4
<1> DEFINE t == [task[i] EXCEPT !.todo = @ \ {m}, !.holds = h]
<1>2. t \in Task /\ t.step = "releasing" /\ t.todo = task[i].todo \ {m} /\ t.holds = h
  BY <1>0 DEF Task
<1>3. /\ Waiting = {} /\ task[i].todo \subseteq Joined
      /\ task[i].holds => InWork \ work \subseteq task[i].todo
  BY <1>0 DEF BatchInv, TasksFit, Covers
<1>4. InWork \ work' \subseteq (InWork \ work) /\ (t.holds => InWork \ work' \subseteq t.todo)
  BY <1>1, <1>2, <1>3
<1>5. work \subseteq work' /\ work' \subseteq Joined
  BY <1>1, <1>3 DEF BatchInv, BatchTypeOK
<1>6. UnreleasedIsClaimed'
  BY <1>0, <1>5 DEF BatchInv, UnreleasedIsClaimed
<1>7. Fits(t) /\ task' = [task EXCEPT ![i] = t]
  BY <1>1, <1>2 DEF Fits
<1>8. batch \notin {"none", "draft"}
  BY <1>0 DEF BatchInv, BeforeCheckout
<1>9. /\ ledger' \in [EventIds -> {"unknown", "claimed", "done"}] /\ acked' \subseteq posted
      /\ saved' \in BOOLEAN /\ raced' \in BOOLEAN /\ told' \subseteq Sessions
      /\ faults' \in Nat /\ resends' \in Nat
  BY <1>0 DEF stripe, BatchInv, BatchTypeOK
<1> HIDE DEF t
<1> QED BY <1>0, <1>2, <1>3, <1>4, <1>5, <1>6, <1>7, <1>8, <1>9, TaskKeeps DEF stripe

\* An event is done when nothing was missing of any order's release, and then no
\* order put to work is without its work.
LEMMA FinishReleaseKeeps ==
  ASSUME BatchInv, NEW i \in Invocations, FinishRelease(i) PROVE BatchInv'
<1>0. /\ UNCHANGED <<batch, total, member, latest, charged, own, told, work, stripe, saved,
                     faults, resends, raced>>
      /\ task[i] \in Task /\ task[i].step = "releasing" /\ task[i].todo = {}
      /\ batch \notin {"none", "draft"}
  BY DEF FinishRelease, BatchInv, BatchTypeOK, BeforeCheckout
<1>1. CASE UNCHANGED ledger /\ Stop(i)
  BY <1>0, <1>1, StopKeeps DEF records, stripe, BatchInv, BatchTypeOK
<1>2. CASE /\ task[i].holds /\ ledger' = [ledger EXCEPT ![task[i].event] = "done"]
           /\ Goto(i, "answering")
  <2>1. InWork \ work = {}
    BY <1>0, <1>2 DEF BatchInv, TasksFit, Covers
  <2>2. UnreleasedIsClaimed'
    BY <1>0, <2>1 DEF UnreleasedIsClaimed, InWork
  <2>3. "answering" \in Steps
    BY DEF Steps
  <2>4. PICK t \in Task : t = [task[i] EXCEPT !.step = "answering"]
    BY <1>0, <2>3, RestFits
  <2>5. task' = [task EXCEPT ![i] = t] /\ t.step = "answering" /\ Fits(t)
    BY <1>0, <1>2, <2>3, <2>4, GotoBegins, RestFits DEF Begin
  <2>6. /\ ledger' \in [EventIds -> {"unknown", "claimed", "done"}]
        /\ \A e \in EventIds : ledger'[e] = "claimed" => ledger[e] = "claimed"
    BY <1>2 DEF BatchInv, BatchTypeOK
  <2>7. /\ work' \subseteq Joined /\ acked' \subseteq posted /\ saved' \in BOOLEAN
        /\ raced' \in BOOLEAN /\ told' \subseteq Sessions /\ faults' \in Nat /\ resends' \in Nat
    BY <1>0 DEF stripe, BatchInv, BatchTypeOK
  <2> QED BY <1>0, <2>2, <2>5, <2>6, <2>7, TaskKeeps DEF stripe
<1> QED BY <1>1, <1>2 DEF FinishRelease

LEMMA AnswerKeeps ==
  ASSUME BatchInv, NEW i \in Invocations, Answer(i) \/ Kill(i) PROVE BatchInv'
<1>1. /\ Stop(i)
      /\ UNCHANGED <<batch, total, member, latest, records, session, posted, saved, resends, raced>>
  BY DEF Answer, Kill, stripe
<1>2. acked' \subseteq posted /\ faults' \in Nat
  BY DEF Answer, Kill, Fault, stripe, BatchInv, BatchTypeOK
<1> QED BY <1>1, <1>2, StopKeeps DEF BatchInv, BatchTypeOK

\* A close is judged rightly: a checkout still live is named by some order, and it
\* is not the one that expired.
LEMMA JudgeExpiryKeeps ==
  ASSUME BatchInv, NEW i \in Invocations, JudgeExpiry(i) PROVE BatchInv'
<1> DEFINE s == SessionOf(task[i].event)
           u == [task[i] EXCEPT !.step = "closing",
                    !.holds = /\ task[i].seen \in {"awaiting_payment", "draft"}
                              /\ ~Superseded(s)]
<1>0. /\ UNCHANGED <<batch, total, member, latest, records, stripe, saved, faults, resends>>
      /\ raced' = (raced \/ Unrecorded) /\ Begin(i, u)
      /\ task[i] \in Task /\ task[i].step = "expiring"
  BY DEF JudgeExpiry, BatchInv, BatchTypeOK
<1>1. /\ task[i].event \in {"expired"} \X Sessions /\ session[s] = "expired" /\ s \in Sessions
      /\ batch \notin {"none", "draft"}
  BY <1>0 DEF BatchInv, TasksFit, Fits, BeforeCheckout, SessionOf
<1>2. PICK t \in Task : t = u
  BY <1>0 DEF Task, Steps
<1>3. t.step = "closing" /\ t.event = task[i].event /\ (t.holds => ~Superseded(s))
  BY <1>0, <1>2 DEF Task
<1>4. t.holds /\ ~raced' => \A x \in Sessions : session[x] \notin Live
  <2> SUFFICES ASSUME t.holds, ~raced', NEW x \in Sessions, session[x] \in Live PROVE FALSE
    OBVIOUS
  <2>1. PICK m \in Joined : latest[m] = x
    BY <1>0 DEF Unrecorded
  <2>2. x # s /\ x # NoSession
    BY <1>1, BatchAssumption DEF Live
  <2> QED BY <1>3, <2>1, <2>2 DEF Superseded
<1>5. Fits(t) /\ Covers(t)
  BY <1>1, <1>3 DEF Fits, Covers
<1>6. Begin(i, t) /\ raced' \in BOOLEAN /\ (raced => raced') /\ resends' \in Nat
  BY <1>0, <1>2 DEF BatchInv, BatchTypeOK, Unrecorded
<1> HIDE DEF s, u
<1> QED BY <1>0, <1>1, <1>3, <1>4, <1>5, <1>6, GoesOn

LEMMA SweepOrderKeeps ==
  ASSUME BatchInv, NEW i \in Invocations, NEW m \in Members, SweepOrder(i, m) PROVE BatchInv'
<1>0. /\ UNCHANGED <<batch, total, member, latest, records, stripe, saved, faults, resends>>
      /\ raced' = (raced \/ Unrecorded) /\ m \in Waiting /\ latest[m] \in Sessions
      /\ batch \notin {"none", "draft"} /\ m \in Joined
  BY DEF SweepOrder, BatchInv, BatchTypeOK, BeforeCheckout, Waiting, Joined
<1>1. PICK t \in Task :
        t = [Idle EXCEPT !.step = "asking", !.event = Reconciled(latest[m]), !.past = {m}]
  BY <1>0 DEF Idle, Task, Steps, EventIds, Reconciled, BatchStatuses, Statuses
<1>2. t.step = "asking" /\ t.event \in {"reconcile"} \X Sessions /\ t.past = {m}
  BY <1>0, <1>1 DEF Idle, Reconciled
<1>3. Fits(t) /\ Covers(t)
  BY <1>0, <1>2 DEF Fits, Covers
<1>4. Begin(i, t) /\ raced' \in BOOLEAN /\ (raced => raced') /\ resends' \in Nat
  BY <1>0, <1>1 DEF SweepOrder, BatchInv, BatchTypeOK, Unrecorded
<1> QED BY <1>0, <1>2, <1>3, <1>4, GoesOn

LEMMA AskProviderKeeps ==
  ASSUME BatchInv, NEW i \in Invocations, AskProvider(i) PROVE BatchInv'
<1> DEFINE e == task[i].event
<1>0. /\ UNCHANGED <<batch, total, member, latest, records, stripe, saved, faults, resends, raced>>
      /\ task[i] \in Task /\ task[i].step = "asking"
      /\ batch \notin {"none", "draft"}
  BY DEF AskProvider, BatchInv, BatchTypeOK, BeforeCheckout
<1>1. e \in {"reconcile"} \X Sessions /\ \E m \in Joined : task[i].past = {m}
  BY <1>0 DEF BatchInv, TasksFit, Fits
<1>2. raced' \in BOOLEAN /\ (raced => raced') /\ resends' \in Nat
  BY <1>0 DEF BatchInv, BatchTypeOK
<1>3. CASE /\ Joined = task[i].past
           /\ Begin(i, [Reading("settling", e) EXCEPT !.past = task[i].past])
  <2>1. PICK t \in Task : t = [Reading("settling", e) EXCEPT !.past = task[i].past]
    BY <1>0 DEF Reading, Idle, Task, Steps, BatchInv, BatchTypeOK
  <2>2. t.step = "settling" /\ t.event = e /\ t.past = task[i].past
    BY <2>1 DEF Reading, Idle
  <2>3. Fits(t) /\ Covers(t)
    BY <1>1, <1>3, <2>2 DEF Fits, Covers, Joined
  <2> QED BY <1>0, <1>2, <1>3, <2>1, <2>2, <2>3, GoesOn
<1>4. CASE Goto(i, "abandoning")
  <2>1. "abandoning" \in Steps
    BY DEF Steps
  <2>2. PICK t \in Task : t = [task[i] EXCEPT !.step = "abandoning"]
    BY <1>0, <2>1, RestFits
  <2>3. Begin(i, t) /\ t.step = "abandoning" /\ Fits(t) /\ Covers(t)
    BY <1>0, <1>4, <2>1, <2>2, GotoBegins, RestFits
  <2> QED BY <1>0, <1>2, <2>3, GoesOn
<1>5. CASE Stop(i)
  BY <1>0, <1>2, <1>5, StopKeeps DEF stripe, BatchInv, BatchTypeOK
<1> QED BY <1>3, <1>4, <1>5 DEF AskProvider

-----------------------------------------------------------------------------

\* A request that comes to rest, or has only to answer, with the same records or
\* with an event done that was never claimed.
LEMMA ClosesEvent ==
  ASSUME BatchInv, NEW i \in Invocations, NEW e \in EventIds,
         \/ UNCHANGED ledger
         \/ ledger[e] = "unknown" /\ ledger' = [ledger EXCEPT ![e] = "done"],
         Stop(i) \/ Goto(i, "answering"), batch \notin {"none", "draft"},
         UNCHANGED <<batch, total, member, latest, charged, own, work, stripe, saved,
                     faults, resends, raced>>,
         told' \subseteq Sessions
  PROVE  BatchInv'
<1>1. PICK t \in Task : /\ t.step \in {"idle", "answering"}
                        /\ task' = [task EXCEPT ![i] = t]
  <2>1. "answering" \in Steps /\ Idle \in Task /\ Idle.step = "idle"
    BY RestFits DEF Steps
  <2>2. CASE Goto(i, "answering")
    <3>1. PICK t \in Task : t = [task[i] EXCEPT !.step = "answering"]
      BY <2>1, <2>2, GotoBegins
    <3>2. t.step = "answering" /\ task' = [task EXCEPT ![i] = t]
      BY <2>1, <2>2, <3>1, GotoBegins, RestFits DEF Begin
    <3> QED BY <3>2
  <2>3. CASE Stop(i)
    <3>1. task' = [task EXCEPT ![i] = Idle]
      BY <2>3 DEF Stop, Begin
    <3> QED BY <2>1, <3>1
  <2> QED BY <2>2, <2>3
<1>2. /\ ledger' \in [EventIds -> {"unknown", "claimed", "done"}]
      /\ \A x \in EventIds : /\ ledger'[x] = "claimed" => ledger[x] = "claimed"
                             /\ ledger[x] = "claimed" => ledger'[x] = "claimed"
  BY DEF BatchInv, BatchTypeOK
<1>3. UnreleasedIsClaimed'
  <2> SUFFICES ASSUME NEW m \in Members, member[m] = "in_fulfilment", m \notin work
               PROVE  \E s \in charged \cup own :
                        "claimed" \in {ledger'[Completed(s)], ledger'[Reconciled(s)]}
    BY DEF UnreleasedIsClaimed
  <2>1. PICK s \in charged \cup own : "claimed" \in {ledger[Completed(s)], ledger[Reconciled(s)]}
    BY DEF BatchInv, UnreleasedIsClaimed
  <2>2. Completed(s) \in EventIds /\ Reconciled(s) \in EventIds
    BY DEF BatchInv, BatchTypeOK, Completed, Reconciled, EventIds
  <2> QED BY <1>2, <2>1, <2>2
<1>4. Fits(t)
  BY <1>1, RestFits
<1>5. /\ work' \subseteq Joined /\ acked' \subseteq posted /\ saved' \in BOOLEAN
      /\ raced' \in BOOLEAN /\ faults' \in Nat /\ resends' \in Nat
  BY DEF stripe, BatchInv, BatchTypeOK
<1> QED BY <1>1, <1>2, <1>3, <1>4, <1>5, TaskKeeps DEF stripe

LEMMA GoReleaseKeeps ==
  ASSUME BatchInv, NEW i \in Invocations, batch \notin {"none", "draft"}, Waiting = {},
         NEW t \in Task, t = [task[i] EXCEPT !.step = "releasing", !.todo = InWork],
         Begin(i, t),
         UNCHANGED <<batch, total, member, latest, records, stripe, saved, faults, resends, raced>>
  PROVE  BatchInv'
<1>1. task[i] \in Task /\ resends' \in Nat /\ raced' \in BOOLEAN
  BY DEF BatchInv, BatchTypeOK
<1>2. t.step = "releasing" /\ t.todo = InWork
  BY <1>1 DEF Task
<1>3. Fits(t) /\ Covers(t)
  BY <1>2 DEF Fits, Covers, InWork, Joined
<1> QED BY <1>1, <1>2, <1>3, GoesOn

\* The orders that were waiting go to work together, the charge is on file, and the
\* event is claimed unless there was nothing to put to work.
LEMMA BatchPaidKeeps ==
  ASSUME BatchInv, NEW i \in Invocations, task[i].step = "paying",
         NEW e, e = task[i].event, NEW s, s = SessionOf(e),
         ledger[e] = "unknown", s \notin charged \cup own, ~Moved(i),
         charged' = charged \cup {s}, batch' = "accepted",
         member' = [m \in Members |-> IF m \in TakesPayment(i) THEN "in_fulfilment" ELSE member[m]],
         ledger' = [ledger EXCEPT ![e] = IF TakesPayment(i) = {} THEN "done" ELSE "claimed"],
         GoRelease(i, TakesPayment(i)),
         UNCHANGED <<total, latest, own, told, work, stripe, saved, faults, resends, raced>>
  PROVE  BatchInv'
<1>0. /\ task[i] \in Task /\ e \in EventIds /\ e \in {"completed"} \X Sessions /\ s \in Sessions
      /\ e = Completed(s) /\ batch \notin {"none", "draft"}
  <2>1. task[i] \in Task /\ e \in {"completed"} \X Sessions /\ batch \notin {"none", "draft"}
    BY DEF BatchInv, BatchTypeOK, TasksFit, Fits, BeforeCheckout
  <2> QED BY <2>1 DEF Task, SessionOf, Completed
<1>1. TakesPayment(i) = Waiting
  BY DEF TakesPayment, Moved, Waiting, Joined
<1>2. /\ member' \in [Members -> Statuses] /\ Joined' = Joined /\ Waiting' = {}
      /\ InWork' = InWork \cup Waiting
  BY <1>1 DEF BatchInv, BatchTypeOK, Statuses, Joined, Waiting, InWork
<1>3. Waiting # {} => InWork' = Waiting
  BY <1>2 DEF BatchInv, WorkTogether
<1>4. /\ ledger' \in [EventIds -> {"unknown", "claimed", "done"}]
      /\ \A x \in EventIds \ {e} : ledger'[x] = ledger[x]
      /\ ledger'[e] = IF Waiting = {} THEN "done" ELSE "claimed"
  BY <1>0, <1>1 DEF BatchInv, BatchTypeOK
<1>5. WorkTogether' /\ SettledTogether'
  BY <1>2 DEF WorkTogether, SettledTogether
<1>6. ChargeIsOnFileOnce'
  BY <1>2 DEF BatchInv, ChargeIsOnFileOnce
<1>7. UnreleasedIsClaimed'
  <2>1. CASE Waiting # {}
    <3>1. s \in charged' \cup own' /\ ledger'[Completed(s)] = "claimed"
      BY <1>0, <1>4, <2>1
    <3> QED BY <3>1 DEF UnreleasedIsClaimed
  <2>2. CASE Waiting = {}
    <3> SUFFICES ASSUME NEW m \in Members, member'[m] = "in_fulfilment", m \notin work
                 PROVE  \E x \in charged' \cup own :
                          "claimed" \in {ledger'[Completed(x)], ledger'[Reconciled(x)]}
      BY DEF UnreleasedIsClaimed
    <3>1. member[m] = "in_fulfilment"
      BY <2>2, <1>1
    <3>2. PICK x \in charged \cup own : "claimed" \in {ledger[Completed(x)], ledger[Reconciled(x)]}
      BY <3>1 DEF BatchInv, UnreleasedIsClaimed
    <3>3. Completed(x) \in EventIds /\ Reconciled(x) \in EventIds /\ x \in charged' \cup own
      BY DEF BatchInv, BatchTypeOK, Completed, Reconciled, EventIds
    <3> QED BY <1>4, <3>2, <3>3
  <2> QED BY <2>1, <2>2
<1>8. PICK t \in Task :
        /\ task' = [task EXCEPT ![i] = t]
        /\ \/ t.step = "answering"
           \/ t.step = "releasing" /\ t.todo = Waiting /\ Waiting # {}
  <2>1. CASE Waiting = {}
    <3>1. Goto(i, "answering") /\ "answering" \in Steps
      BY <1>1, <2>1 DEF GoRelease, Steps
    <3>2. PICK t \in Task : t = [task[i] EXCEPT !.step = "answering"]
      BY <3>1, GotoBegins
    <3> QED BY <1>0, <3>1, <3>2, GotoBegins, RestFits DEF Begin
  <2>2. CASE Waiting # {}
    <3>1. PICK t \in Task : t = [task[i] EXCEPT !.step = "releasing", !.todo = Waiting]
      BY <1>0 DEF Task, Steps, Waiting
    <3>2. t.step = "releasing" /\ t.todo = Waiting
      BY <1>0, <3>1 DEF Task
    <3> QED BY <1>1, <2>2, <3>1, <3>2 DEF GoRelease, Begin
  <2> QED BY <2>1, <2>2
<1>9. Fits(t) /\ Covers(t)'
  BY <1>2, <1>3, <1>8 DEF Fits, Covers, Waiting, Joined
<1>10. /\ charged' \subseteq Sessions /\ own' \subseteq Sessions /\ told' \subseteq Sessions
       /\ batch' \in BatchStatuses \ {"none", "draft"}
  BY <1>0 DEF BatchInv, BatchTypeOK, BatchStatuses
<1> QED BY <1>0, <1>2, <1>4, <1>5, <1>6, <1>7, <1>8, <1>9, <1>10, OrdersKeep DEF stripe

LEMMA ApplyBatchPaidKeeps ==
  ASSUME BatchInv, NEW i \in Invocations, ApplyBatchPaid(i) PROVE BatchInv'
<1> DEFINE e == task[i].event
           s == SessionOf(e)
<1>0. /\ task[i].step = "paying" /\ task[i] \in Task /\ e \in EventIds
      /\ batch \notin {"none", "draft"}
      /\ UNCHANGED <<total, latest, own, told, work, stripe, saved, faults, resends, raced>>
      /\ told' \subseteq Sessions
  BY DEF ApplyBatchPaid, BatchInv, BatchTypeOK, BeforeCheckout, Task
<1>1. CASE /\ UNCHANGED <<batch, member, ledger, charged>>
           /\ Stop(i) \/ Goto(i, "answering")
  BY <1>0, <1>1, ClosesEvent
<1>2. CASE /\ ledger[e] = "claimed"
           /\ GoRelease(i, {m \in Joined : member[m] = "in_fulfilment"})
           /\ UNCHANGED <<batch, member, ledger, charged>>
  <2>1. {m \in Joined : member[m] = "in_fulfilment"} = InWork
    BY DEF InWork, Joined
  <2>2. CASE InWork = {}
    BY <1>0, <1>2, <2>1, <2>2, ClosesEvent DEF GoRelease
  <2>3. CASE InWork # {}
    <3>1. PICK t \in Task : t = [task[i] EXCEPT !.step = "releasing", !.todo = InWork]
      BY <1>0 DEF Task, Steps, InWork
    <3>2. Begin(i, t)
      BY <1>2, <2>1, <2>3, <3>1 DEF GoRelease
    <3>3. Waiting = {}
      BY <1>0, <1>2 DEF BatchInv, WorkTogether
    <3> QED BY <1>0, <1>2, <3>1, <3>2, <3>3, GoReleaseKeeps DEF records
  <2> QED BY <2>2, <2>3
<1>3. CASE /\ ledger[e] = "unknown"
           /\ ledger' = [ledger EXCEPT ![e] = "done"]
           /\ Goto(i, "answering")
           /\ UNCHANGED <<batch, member, charged>>
  BY <1>0, <1>3, ClosesEvent
<1>4. CASE /\ ledger[e] = "unknown" /\ s \notin charged \cup own
           /\ ~Moved(i)
           /\ charged' = charged \cup {s}
           /\ batch' = "accepted"
           /\ member' = [m \in Members |-> IF m \in TakesPayment(i) THEN "in_fulfilment" ELSE member[m]]
           /\ ledger' = [ledger EXCEPT ![e] = IF TakesPayment(i) = {} THEN "done" ELSE "claimed"]
           /\ GoRelease(i, TakesPayment(i))
  BY <1>0, <1>4, BatchPaidKeeps
<1> QED BY <1>1, <1>2, <1>3, <1>4 DEF ApplyBatchPaid

LEMMA ApplyExpiredKeeps ==
  ASSUME BatchInv, NEW i \in Invocations, ApplyExpired(i) PROVE BatchInv'
<1> DEFINE e == task[i].event
<1>0. /\ task[i].step = "closing" /\ task[i] \in Task /\ e \in EventIds
      /\ batch \notin {"none", "draft"}
      /\ UNCHANGED <<total, latest, charged, own, told, work, stripe, saved, faults, resends, raced>>
      /\ told' \subseteq Sessions
  BY DEF ApplyExpired, BatchInv, BatchTypeOK, BeforeCheckout, Task
<1>1. CASE /\ UNCHANGED <<batch, member>> /\ (Stop(i) \/ Goto(i, "answering"))
           /\ \/ UNCHANGED ledger
              \/ ledger[e] = "unknown" /\ ledger' = [ledger EXCEPT ![e] = "done"]
  BY <1>0, <1>1, ClosesEvent
<1>2. CASE /\ ledger[e] = "unknown" /\ ledger' = [ledger EXCEPT ![e] = "done"]
           /\ batch' = "cancelled" /\ Goto(i, "answering")
           /\ member' = [m \in Members |-> IF m \in Waiting THEN "cancelled" ELSE member[m]]
  <2>1. /\ member' \in [Members -> Statuses] /\ Joined' = Joined /\ Waiting' = {}
        /\ InWork' = InWork
    BY <1>2 DEF BatchInv, BatchTypeOK, Statuses, Joined, Waiting, InWork
  <2>2. /\ ledger' \in [EventIds -> {"unknown", "claimed", "done"}]
        /\ \A x \in EventIds : ledger[x] = "claimed" => ledger'[x] = "claimed"
    BY <1>0, <1>2 DEF BatchInv, BatchTypeOK
  <2>3. WorkTogether' /\ SettledTogether' /\ ChargeIsOnFileOnce'
    BY <1>0, <2>1 DEF BatchInv, WorkTogether, SettledTogether, ChargeIsOnFileOnce
  <2>4. UnreleasedIsClaimed'
    <3> SUFFICES ASSUME NEW m \in InWork', m \notin work
                 PROVE  \E x \in charged' \cup own' :
                          "claimed" \in {ledger'[Completed(x)], ledger'[Reconciled(x)]}
      BY <1>0 DEF UnreleasedIsClaimed, InWork
    <3>1. PICK x \in charged \cup own : "claimed" \in {ledger[Completed(x)], ledger[Reconciled(x)]}
      BY <2>1 DEF BatchInv, UnreleasedIsClaimed, InWork
    <3>2. Completed(x) \in EventIds /\ Reconciled(x) \in EventIds
      BY DEF BatchInv, BatchTypeOK, Completed, Reconciled, EventIds
    <3> QED BY <1>0, <2>2, <3>1, <3>2
  <2>5. PICK t \in Task : task' = [task EXCEPT ![i] = t] /\ t.step = "answering"
    <3>1. "answering" \in Steps
      BY DEF Steps
    <3> QED BY <1>0, <1>2, <3>1, GotoBegins, RestFits DEF Begin
  <2>6. Fits(t) /\ Covers(t)'
    BY <2>5, RestFits
  <2>7. /\ charged' \subseteq Sessions /\ own' \subseteq Sessions /\ told' \subseteq Sessions
        /\ batch' \in BatchStatuses \ {"none", "draft"}
    BY <1>0, <1>2 DEF BatchInv, BatchTypeOK, BatchStatuses
  <2> QED BY <1>0, <2>1, <2>2, <2>3, <2>4, <2>5, <2>6, <2>7, OrdersKeep DEF stripe
<1> QED BY <1>1, <1>2 DEF ApplyExpired

LEMMA MarkAbandonedKeeps ==
  ASSUME BatchInv, NEW i \in Invocations, MarkAbandoned(i) PROVE BatchInv'
<1>0. /\ UNCHANGED <<batch, total, latest, records, stripe, saved, faults, resends, raced>>
      /\ task' = [task EXCEPT ![i] = Idle] /\ batch \notin {"none", "draft"}
      /\ member' = [m \in Members |-> IF m \in task[i].past \cap Waiting THEN "cancelled" ELSE member[m]]
  BY DEF MarkAbandoned, Stop, Begin, BatchInv, BeforeCheckout
<1>1. /\ member' \in [Members -> Statuses] /\ Joined' = Joined /\ Waiting' \subseteq Waiting
      /\ InWork' = InWork
  BY <1>0 DEF BatchInv, BatchTypeOK, Statuses, Joined, Waiting, InWork
<1>2. WorkTogether' /\ SettledTogether' /\ ChargeIsOnFileOnce'
  BY <1>0, <1>1 DEF BatchInv, WorkTogether, SettledTogether, ChargeIsOnFileOnce, records
<1>3. UnreleasedIsClaimed'
  BY <1>0, <1>1 DEF BatchInv, UnreleasedIsClaimed, InWork, records
<1>4. Idle \in Task /\ Idle.step = "idle" /\ Fits(Idle) /\ Covers(Idle)'
  BY RestFits DEF Covers
<1>5. /\ charged' \subseteq Sessions /\ own' \subseteq Sessions /\ told' \subseteq Sessions
      /\ batch' \in BatchStatuses \ {"none", "draft"}
      /\ ledger' \in [EventIds -> {"unknown", "claimed", "done"}]
  BY <1>0 DEF BatchInv, BatchTypeOK, records
<1> QED BY <1>0, <1>1, <1>2, <1>3, <1>4, <1>5, OrdersKeep DEF stripe, records

LEMMA MarkRefundedKeeps ==
  ASSUME BatchInv, NEW m \in Members, MarkRefunded(m) PROVE BatchInv'
<1>0. /\ UNCHANGED <<batch, total, latest, records, stripe, saved, task, faults, resends, raced>>
      /\ member[m] = "in_fulfilment" /\ member' = [member EXCEPT ![m] = "refunded"]
  BY DEF MarkRefunded
<1>1. /\ member' \in [Members -> Statuses] /\ Joined' = Joined /\ Waiting' = Waiting
      /\ InWork' \subseteq InWork
  BY <1>0 DEF BatchInv, BatchTypeOK, Statuses, Joined, Waiting, InWork
<1>2. BatchTypeOK'
  BY <1>0, <1>1 DEF BatchInv, BatchTypeOK, records, stripe
<1>3. BeforeCheckout' /\ OnePlaces' /\ PostedFit'
  BY <1>0, <1>1 DEF BatchInv, BeforeCheckout, OnePlaces, PostedFit, records, stripe
<1>4. WorkTogether' /\ SettledTogether' /\ ChargeIsOnFileOnce'
  BY <1>0, <1>1 DEF BatchInv, WorkTogether, SettledTogether, ChargeIsOnFileOnce, records
<1>5. UnreleasedIsClaimed'
  BY <1>0, <1>1 DEF BatchInv, UnreleasedIsClaimed, InWork, records
<1>6. TasksFit'
  BY <1>0, <1>1 DEF BatchInv, TasksFit, Fits, Covers, JudgedRightly, records, stripe
<1> QED BY <1>2, <1>3, <1>4, <1>5, <1>6 DEF BatchInv

-----------------------------------------------------------------------------

\* A payment of a submission of one order, written down on the order by the sweep.
LEMMA OrderPaidKeeps ==
  ASSUME BatchInv, NEW i \in Invocations, task[i].step = "settling",
         NEW e, e = task[i].event, NEW s, s = SessionOf(e), NEW m \in Members,
         task[i].past = {m}, ledger[e] = "unknown", s \notin charged \cup own,
         own' = own \cup {s}, told' \subseteq Sessions,
         \/ /\ member[m] = "awaiting_payment"
            /\ member' = [member EXCEPT ![m] = "in_fulfilment"]
            /\ ledger' = [ledger EXCEPT ![e] = "claimed"]
            /\ Begin(i, [task[i] EXCEPT !.step = "releasing", !.todo = {m}])
         \/ /\ member[m] # "awaiting_payment"
            /\ ledger' = [ledger EXCEPT ![e] = "done"]
            /\ Stop(i)
            /\ UNCHANGED member,
         UNCHANGED <<batch, total, latest, charged, work, stripe, saved, faults, resends, raced>>
  PROVE  BatchInv'
<1>0. /\ task[i] \in Task /\ Joined = {m} /\ batch \notin {"none", "draft"}
      /\ e \in {"reconcile"} \X Sessions
  <2>1. /\ task[i] \in Task /\ e \in {"reconcile"} \X Sessions
        /\ \E x \in Members : task[i].past = {x} /\ Joined = {x}
    BY DEF BatchInv, BatchTypeOK, TasksFit, Fits
  <2>2. batch \notin {"none", "draft"}
    BY DEF BatchInv, BeforeCheckout
  <2> QED BY <2>1, <2>2
<1>1. e \in EventIds /\ s \in Sessions /\ e = Reconciled(s)
  BY <1>0 DEF EventIds, SessionOf, Reconciled
<1>2. /\ charged' \subseteq Sessions /\ own' \subseteq Sessions
      /\ batch' \in BatchStatuses \ {"none", "draft"}
      /\ ledger' \in [EventIds -> {"unknown", "claimed", "done"}]
      /\ \A x \in EventIds \ {e} : ledger'[x] = ledger[x]
  BY <1>0, <1>1 DEF BatchInv, BatchTypeOK
<1>3. member' \in [Members -> Statuses] /\ Joined' = Joined
  BY <1>0 DEF BatchInv, BatchTypeOK, Statuses, Joined
<1>4. ChargeIsOnFileOnce'
  <2>1. Cardinality({m}) = 1
    BY FS_Singleton
  <2> QED BY <1>0, <1>3, <2>1 DEF BatchInv, ChargeIsOnFileOnce
<1>5. CASE /\ member[m] = "awaiting_payment"
           /\ member' = [member EXCEPT ![m] = "in_fulfilment"]
           /\ ledger' = [ledger EXCEPT ![e] = "claimed"]
           /\ Begin(i, [task[i] EXCEPT !.step = "releasing", !.todo = {m}])
  <2>1. Waiting = {m} /\ Waiting' = {} /\ InWork' = {m}
    BY <1>0, <1>3, <1>5 DEF BatchInv, BatchTypeOK, Waiting, InWork, Joined
  <2>2. ledger'[Reconciled(s)] = "claimed" /\ s \in charged' \cup own'
    BY <1>1, <1>5 DEF BatchInv, BatchTypeOK
  <2>3. UnreleasedIsClaimed' /\ WorkTogether' /\ SettledTogether'
    BY <2>1, <2>2 DEF UnreleasedIsClaimed, WorkTogether, SettledTogether
  <2>4. PICK t \in Task : t = [task[i] EXCEPT !.step = "releasing", !.todo = {m}]
    BY <1>0 DEF Task, Steps
  <2>5. t.step = "releasing" /\ t.todo = {m} /\ task' = [task EXCEPT ![i] = t]
    BY <1>0, <1>5, <2>4 DEF Task, Begin
  <2>6. Fits(t) /\ Covers(t)'
    BY <1>0, <1>3, <2>1, <2>5 DEF Fits, Covers
  <2> QED BY <1>0, <1>2, <1>3, <1>4, <2>1, <2>3, <2>5, <2>6, OrdersKeep DEF stripe
<1>6. CASE /\ member[m] # "awaiting_payment"
           /\ ledger' = [ledger EXCEPT ![e] = "done"]
           /\ Stop(i)
           /\ UNCHANGED member
  <2>1. Waiting' = Waiting /\ InWork' = InWork /\ Waiting = {}
    BY <1>0, <1>6 DEF Waiting, InWork, Joined
  <2>2. WorkTogether' /\ SettledTogether'
    BY <2>1 DEF WorkTogether, SettledTogether
  <2>3. UnreleasedIsClaimed'
    <3> SUFFICES ASSUME NEW y \in Members, member[y] = "in_fulfilment", y \notin work
                 PROVE  \E x \in charged' \cup own' :
                          "claimed" \in {ledger'[Completed(x)], ledger'[Reconciled(x)]}
      BY <1>6 DEF UnreleasedIsClaimed
    <3>1. PICK x \in charged \cup own : "claimed" \in {ledger[Completed(x)], ledger[Reconciled(x)]}
      BY DEF BatchInv, UnreleasedIsClaimed
    <3>2. Completed(x) \in EventIds /\ Reconciled(x) \in EventIds /\ x \in charged' \cup own'
      BY DEF BatchInv, BatchTypeOK, Completed, Reconciled, EventIds
    <3> QED BY <1>2, <3>1, <3>2
  <2>4. task' = [task EXCEPT ![i] = Idle]
    BY <1>6 DEF Stop, Begin
  <2>5. Idle \in Task /\ Idle.step = "idle" /\ Fits(Idle) /\ Covers(Idle)'
    BY RestFits DEF Covers
  <2> QED BY <1>0, <1>2, <1>3, <1>4, <2>1, <2>2, <2>3, <2>4, <2>5, OrdersKeep DEF stripe
<1> QED BY <1>5, <1>6

LEMMA ApplyOrderPaidKeeps ==
  ASSUME BatchInv, NEW i \in Invocations, ApplyOrderPaid(i) PROVE BatchInv'
<1> DEFINE e == task[i].event
           s == SessionOf(e)
           m == CHOOSE x \in Members : task[i].past = {x}
           tells == IF task[i].saw[m] = "cancelled" THEN told \cup {s} ELSE told
<1>0. /\ task[i].step = "settling" /\ task[i] \in Task /\ e \in EventIds
      /\ batch \notin {"none", "draft"} /\ e \in {"reconcile"} \X Sessions
      /\ \E x \in Members : task[i].past = {x} /\ Joined = {x}
      /\ UNCHANGED <<batch, total, latest, charged, work, stripe, saved, faults, resends, raced>>
  <2>1. /\ task[i].step = "settling"
        /\ UNCHANGED <<batch, total, latest, charged, work, stripe, saved, faults, resends, raced>>
    BY DEF ApplyOrderPaid
  <2>2. /\ task[i] \in Task /\ e \in {"reconcile"} \X Sessions
        /\ \E x \in Members : task[i].past = {x} /\ Joined = {x}
    BY <2>1 DEF BatchInv, BatchTypeOK, TasksFit, Fits
  <2>3. batch \notin {"none", "draft"}
    BY <2>1 DEF BatchInv, BeforeCheckout
  <2> QED BY <2>1, <2>2, <2>3 DEF EventIds
<1>1. m \in Members /\ task[i].past = {m} /\ Joined = {m} /\ s \in Sessions
  BY <1>0 DEF SessionOf
<1>2. tells \subseteq Sessions /\ told \subseteq Sessions
  BY <1>1 DEF BatchInv, BatchTypeOK
<1>3. CASE /\ UNCHANGED <<member, own>> /\ Stop(i)
           /\ told' = tells \/ told' = told
           /\ \/ UNCHANGED ledger
              \/ ledger[e] = "unknown" /\ ledger' = [ledger EXCEPT ![e] = "done"]
  BY <1>0, <1>2, <1>3, ClosesEvent
<1>4. CASE /\ ledger[e] = "claimed"
           /\ Begin(i, [task[i] EXCEPT !.step = "releasing", !.todo = {m}])
           /\ UNCHANGED <<member, ledger, own, told>>
  <2>1. PICK t \in Task : t = [task[i] EXCEPT !.step = "releasing", !.todo = {m}]
    BY <1>0, <1>1 DEF Task, Steps
  <2>2. t.step = "releasing" /\ t.todo = {m}
    BY <1>0, <2>1 DEF Task
  <2>3. Waiting = {} /\ InWork \subseteq {m}
    BY <1>0, <1>1, <1>4 DEF BatchInv, WorkTogether, InWork, Joined
  <2>4. Fits(t) /\ Covers(t)
    BY <1>1, <2>2, <2>3 DEF Fits, Covers
  <2>5. resends' \in Nat /\ raced' \in BOOLEAN
    BY <1>0 DEF BatchInv, BatchTypeOK
  <2> QED BY <1>0, <1>4, <2>1, <2>2, <2>4, <2>5, GoesOn DEF records
<1>5. CASE /\ ledger[e] = "unknown" /\ s \notin charged \cup own
           /\ member[m] = task[i].saw[m]
           /\ own' = own \cup {s}
           /\ IF member[m] = "awaiting_payment"
              THEN /\ member' = [member EXCEPT ![m] = "in_fulfilment"]
                   /\ ledger' = [ledger EXCEPT ![e] = "claimed"]
                   /\ Begin(i, [task[i] EXCEPT !.step = "releasing", !.todo = {m}])
                   /\ UNCHANGED told
              ELSE /\ ledger' = [ledger EXCEPT ![e] = "done"]
                   /\ told' = tells /\ Stop(i)
                   /\ UNCHANGED member
  <2>1. told' \subseteq Sessions
    BY <1>2, <1>5
  <2> HIDE DEF m, tells
  <2> QED BY <1>0, <1>1, <1>5, <2>1, OrderPaidKeeps
<1> QED BY <1>3, <1>4, <1>5 DEF ApplyOrderPaid

-----------------------------------------------------------------------------

LEMMA NextKeeps == BatchInv /\ [Next]_vars => BatchInv'
<1> SUFFICES ASSUME BatchInv, [Next]_vars PROVE BatchInv'
  OBVIOUS
<1>1. ASSUME NEW i \in Invocations, Submit(i) \/ Proceed(i) \/ Kill(i) PROVE BatchInv'
  <2>1. ASSUME NEW m \in Members, PlaceOrder(i, m) PROVE BatchInv'
    BY <2>1, PlaceOrderKeeps
  <2>2. CASE Submit(i) \/ FinishPlacing(i) \/ CheckPayable(i) \/ CreateSession(i) \/ RecordStarted(i)
    BY <2>2, SubmitKeeps, FinishPlacingKeeps, CheckPayableKeeps, CreateSessionKeeps, RecordStartedKeeps
  <2>3. CASE ApplyBatchPaid(i) \/ ReleaseOne(i) \/ FinishRelease(i) \/ Answer(i) \/ Kill(i)
    BY <2>3, ApplyBatchPaidKeeps, ReleaseOneKeeps, FinishReleaseKeeps, AnswerKeeps
  <2>4. CASE JudgeExpiry(i) \/ ApplyExpired(i) \/ AskProvider(i) \/ ApplyOrderPaid(i) \/ MarkAbandoned(i)
    BY <2>4, JudgeExpiryKeeps, ApplyExpiredKeeps, AskProviderKeeps, ApplyOrderPaidKeeps,
       MarkAbandonedKeeps
  <2> QED BY <1>1, <2>1, <2>2, <2>3, <2>4 DEF Proceed
<1>2. ASSUME NEW i \in Invocations, NEW m \in Members, SweepOrder(i, m) PROVE BatchInv'
  BY <1>2, SweepOrderKeeps
<1>3. ASSUME NEW i \in Invocations, NEW e \in posted, Receive(i, e) PROVE BatchInv'
  BY <1>3, ReceiveKeeps
<1>4. ASSUME NEW s \in Sessions, Pay(s) \/ Expire(s) PROVE BatchInv'
  BY <1>4, PayKeeps
<1>5. ASSUME NEW m \in Members, MarkRefunded(m) PROVE BatchInv'
  BY <1>5, MarkRefundedKeeps
<1>6. CASE UNCHANGED vars
  <2>1. Joined' = Joined /\ Waiting' = Waiting /\ InWork' = InWork
    BY <1>6 DEF vars, Joined, Waiting, InWork
  <2>2. BatchTypeOK' /\ BeforeCheckout' /\ OnePlaces' /\ PostedFit'
    BY <1>6, <2>1 DEF vars, records, stripe, BatchInv, BatchTypeOK, BeforeCheckout, OnePlaces, PostedFit
  <2>3. TasksFit'
    BY <1>6, <2>1 DEF vars, records, stripe, BatchInv, TasksFit, Fits, Covers, JudgedRightly
  <2>4. WorkTogether' /\ SettledTogether' /\ UnreleasedIsClaimed' /\ ChargeIsOnFileOnce'
    BY <1>6, <2>1
    DEF vars, records, stripe, BatchInv, WorkTogether, SettledTogether, UnreleasedIsClaimed,
        ChargeIsOnFileOnce
  <2> QED BY <2>2, <2>3, <2>4 DEF BatchInv
<1> QED BY <1>1, <1>2, <1>3, <1>4, <1>5, <1>6 DEF Next

\* The inductive invariant: what the properties below need of requests under way.
THEOREM BatchInvariant == Spec => []BatchInv
BY InitBatch, NextKeeps, PTL DEF Spec

\* The records of a submission, its orders, checkouts and events keep their types
\* (eng_order_batches, eng_service_orders and eng_payment_events).
THEOREM BatchTypes == Spec => []BatchTypeOK
<1>1. BatchInv => BatchTypeOK
  BY DEF BatchInv
<1> QED BY <1>1, BatchInvariant, PTL

\* A paid or closed submission has no order still waiting, however deliveries,
\* sweeps and stops fall (eng_apply_batch_paid, eng_apply_checkout_expired).
THEOREM SettlesAsOne == Spec => []SettledTogether
<1>1. BatchInv => SettledTogether
  BY DEF BatchInv
<1> QED BY <1>1, BatchInvariant, PTL

\* A charge is on the submission or on the one order it is the whole of, never on
\* both: the sweep and markBatchPaid do not count one payment twice.
THEOREM ChargedOnce == Spec => []ChargeIsOnFileOnce
<1>1. BatchInv => ChargeIsOnFileOnce
  BY DEF BatchInv
<1> QED BY <1>1, BatchInvariant, PTL

\* Paid work that is not released has an event left claimed, which is what the
\* screen of unreleased payments shows (payment-events.ts).
THEOREM UnreleasedIsFound == Spec => []UnreleasedIsClaimed
<1>1. BatchInv => UnreleasedIsClaimed
  BY DEF BatchInv
<1> QED BY <1>1, BatchInvariant, PTL

\* An order's status is changed by placing it, once, and from waiting or from work.
LEMMA CancelledKept ==
  ASSUME BatchInv, [Next]_vars, NEW m \in Members, member[m] = "cancelled"
  PROVE  member'[m] = "cancelled"
<1>1. ASSUME NEW i \in Invocations, NEW x \in Members, PlaceOrder(i, x)
      PROVE  member'[m] = "cancelled"
  <2>1. batch = "draft"
    BY <1>1 DEF PlaceOrder, BatchInv, OnePlaces
  <2> QED BY <2>1 DEF BatchInv, BeforeCheckout
<1>2. ASSUME NEW i \in Invocations, ApplyBatchPaid(i) PROVE member'[m] = "cancelled"
  <2>1. CASE ~Moved(i)
    <3>1. m \notin TakesPayment(i)
      BY <2>1 DEF Moved, TakesPayment
    <3> QED BY <1>2, <3>1 DEF ApplyBatchPaid
  <2>2. CASE Moved(i)
    BY <1>2, <2>2 DEF ApplyBatchPaid
  <2> QED BY <2>1, <2>2
<1>3. ASSUME NEW i \in Invocations, ApplyOrderPaid(i) PROVE member'[m] = "cancelled"
  <2> DEFINE x == CHOOSE y \in Members : task[i].past = {y}
  <2>1. \/ member' = member
        \/ /\ member[x] = "awaiting_payment"
           /\ member' = [member EXCEPT ![x] = "in_fulfilment"]
    BY <1>3 DEF ApplyOrderPaid
  <2> HIDE DEF x
  <2> QED BY <2>1 DEF BatchInv, BatchTypeOK
<1>4. ASSUME NEW i \in Invocations, ApplyExpired(i) \/ MarkAbandoned(i)
      PROVE  member'[m] = "cancelled"
  BY <1>4 DEF ApplyExpired, MarkAbandoned
<1>5. ASSUME NEW x \in Members, MarkRefunded(x) PROVE member'[m] = "cancelled"
  BY <1>5 DEF MarkRefunded, BatchInv, BatchTypeOK
<1>6. ASSUME NEW i \in Invocations,
             \/ Submit(i) \/ FinishPlacing(i) \/ CheckPayable(i) \/ CreateSession(i)
             \/ RecordStarted(i) \/ ReleaseOne(i) \/ FinishRelease(i) \/ Answer(i)
             \/ JudgeExpiry(i) \/ AskProvider(i) \/ Kill(i)
      PROVE  member'[m] = "cancelled"
  BY <1>6 DEF Submit, FinishPlacing, CheckPayable, CreateSession, RecordStarted, ReleaseOne,
              FinishRelease, Answer, JudgeExpiry, AskProvider, Kill
<1>7. ASSUME NEW i \in Invocations, NEW x \in Members, SweepOrder(i, x)
      PROVE  member'[m] = "cancelled"
  BY <1>7 DEF SweepOrder
<1>8. ASSUME NEW i \in Invocations, NEW e \in posted, Receive(i, e)
      PROVE  member'[m] = "cancelled"
  BY <1>8 DEF Receive
<1>9. ASSUME NEW s \in Sessions, Pay(s) \/ Expire(s) PROVE member'[m] = "cancelled"
  BY <1>9 DEF Pay, Expire
<1>10. CASE UNCHANGED vars
  BY <1>10 DEF vars
<1> QED BY <1>1, <1>2, <1>3, <1>4, <1>5, <1>6, <1>7, <1>8, <1>9, <1>10 DEF Next, Proceed

\* No order of a submission goes to work once it was closed.
THEOREM ClosedStaysClosed == Spec => CancelledStays
<1>1. BatchInv /\ [Next]_vars
        => [\A m \in Members : member[m] = "cancelled" => member'[m] = "cancelled"]_vars
  BY CancelledKept
<1> QED BY <1>1, BatchInvariant, PTL DEF Spec, CancelledStays

\* A waiting submission is closed by an expiry only, and what it was judged on holds.
LEMMA ClosedByExpiry ==
  ASSUME BatchInv, [Next]_vars, batch = "awaiting_payment", batch' = "cancelled", ~raced'
  PROVE  \A s \in Sessions : session[s] \notin Live
<1>1. ASSUME NEW i \in Invocations, ApplyExpired(i)
      PROVE  \A s \in Sessions : session[s] \notin Live
  <2>1. task[i].step = "closing" /\ task[i].holds /\ ~raced
    BY <1>1 DEF ApplyExpired
  <2> QED BY <2>1 DEF BatchInv, TasksFit, JudgedRightly
<1>2. ASSUME NEW i \in Invocations, FinishPlacing(i) PROVE FALSE
  BY <1>2 DEF FinishPlacing, BatchInv, OnePlaces
<1>3. ASSUME NEW i \in Invocations,
             \/ Submit(i) \/ CheckPayable(i) \/ CreateSession(i) \/ ApplyBatchPaid(i)
             \/ RecordStarted(i) \/ ReleaseOne(i) \/ FinishRelease(i) \/ Answer(i)
             \/ JudgeExpiry(i) \/ AskProvider(i) \/ Kill(i) \/ ApplyOrderPaid(i)
             \/ MarkAbandoned(i)
      PROVE  FALSE
  BY <1>3 DEF Submit, CheckPayable, CreateSession, ApplyBatchPaid, RecordStarted, ReleaseOne,
              FinishRelease, Answer, JudgeExpiry, AskProvider, Kill, ApplyOrderPaid, MarkAbandoned
<1>4. ASSUME NEW i \in Invocations, NEW x \in Members, PlaceOrder(i, x) \/ SweepOrder(i, x)
      PROVE  FALSE
  BY <1>4 DEF PlaceOrder, SweepOrder
<1>5. ASSUME NEW i \in Invocations, NEW e \in posted, Receive(i, e) PROVE FALSE
  BY <1>5 DEF Receive
<1>6. ASSUME NEW s \in Sessions, Pay(s) \/ Expire(s) PROVE FALSE
  BY <1>6 DEF Pay, Expire
<1>7. ASSUME NEW m \in Members, MarkRefunded(m) PROVE FALSE
  BY <1>7 DEF MarkRefunded
<1>8. CASE UNCHANGED vars
  BY <1>8 DEF vars
<1> QED BY <1>1, <1>2, <1>3, <1>4, <1>5, <1>6, <1>7, <1>8 DEF Next, Proceed

\* No submission is closed under a checkout that can still be paid, unless one was
\* opened, or was on none of its orders, while the expiry was judged (expireCheckout).
THEOREM LiveCheckoutKept == Spec => ClosesNoLiveCheckoutUnlessRaced
<1>1. BatchInv /\ [Next]_vars
        => [(batch = "awaiting_payment" /\ batch' = "cancelled" /\ ~raced')
              => \A s \in Sessions : session[s] \notin Live]_vars
  BY ClosedByExpiry
<1> QED BY <1>1, BatchInvariant, PTL DEF Spec, ClosesNoLiveCheckoutUnlessRaced

=============================================================================
