------------------------------ MODULE Release -------------------------------
(***************************************************************************)
(* The release of one paid order: releaseForFulfilment, the account it     *)
(* settles (openAccountForOrder, accountForClientRecord,                   *)
(* createCustomerAccount), the confirmation it queues, and the attach      *)
(* panel (attachOrderToAccount), in src/lib/ops-payments.ts and            *)
(* src/lib/account-creation.ts.  PaymentEvents has all of this as one      *)
(* step; here it is what the code makes of it: some fifteen requests, any  *)
(* of which may fail or be the last one, run again by every delivery of a  *)
(* payment event that is still claimed, and run by two at once.            *)
(***************************************************************************)
EXTENDS Naturals, FiniteSets

CONSTANTS
    Accounts,     \* accounts of the order's own client, there or to be opened
    OtherAccount, \* an account of somebody else
    NoAccount,    \* an order, or an address, without an account
    Invocations,  \* slots for deliveries and for the attach panel
    MaxFaults     \* bound: stopped invocations and requests that fail

ASSUME ReleaseAssumption ==
    /\ IsFiniteSet(Accounts)
    /\ OtherAccount \notin Accounts
    /\ NoAccount \notin Accounts \cup {OtherAccount}
    /\ MaxFaults \in Nat

VARIABLES
    event,      \* the payment event: claimed until a release was whole
    file,       \* the order's file: held, released, or stuck where rules keep it
    marks,      \* the names of the order's events
    account,    \* eng_service_orders.account_id
    chosen,     \* history: what the account on the order was chosen by
    opened,     \* the active accounts of the order's client
    holder,     \* the account the paying address belongs to
    reachable,  \* the accounts with an owner or a billing address to write to
    mails,      \* confirmations queued: to the paying address, to the account
    run,        \* what each invocation is in the middle of
    faults,     \* how many faults there have been
    overlapped  \* history: two invocations have been at work at once

vars == <<event, file, marks, account, chosen, opened, holder, reachable,
          mails, run, faults, overlapped>>

Steps == {"idle", "file", "filed", "settling", "linking", "noting", "creating",
          "holding", "owning", "confirming", "addressing", "queueing", "ending",
          "attached"}
Marks == {"work.released", "work.blocked", "account.linked_by_client",
          "account.attached", "account.match_needed"}
Ways == {"nobody", "record", "person", "address", "opening"}
AnyAccount == Accounts \cup {OtherAccount, NoAccount}

Run == [step : Steps,
        fileDone : BOOLEAN,         \* the file's mark, when the events were read
        fileThere : BOOLEAN,        \* the file at its target, when it was read
        mark : Marks,               \* the event to be written next
        open : BOOLEAN,             \* openAccountForOrder may open an account
        settled : {"settled", "open_new"},
        target : AnyAccount,        \* the account being linked or opened
        how : Ways,
        to : {"payer", "account"},
        missing : BOOLEAN]          \* some step is left for the next attempt

Idle == [step |-> "idle", fileDone |-> FALSE, fileThere |-> FALSE,
         mark |-> "work.released", open |-> FALSE, settled |-> "settled",
         target |-> NoAccount, how |-> "nobody", to |-> "payer", missing |-> FALSE]

Init ==
    /\ event = "claimed"
    /\ file \in {"held", "stuck"}
    /\ marks = {}
    /\ account = NoAccount
    /\ chosen = "nobody"
    /\ opened \in {S \in SUBSET Accounts : Cardinality(S) <= 2}
    /\ holder \in {NoAccount, OtherAccount}
    /\ reachable \in SUBSET opened
    /\ mails = [payer |-> 0, account |-> 0]
    /\ run = [i \in Invocations |-> Idle]
    /\ faults = 0
    /\ overlapped = FALSE

Mails == mails.payer + mails.account

shown == <<event, file, marks, account, chosen, opened, holder, reachable, mails>>

Goto(i, step) == run' = [run EXCEPT ![i].step = step]
Fault == faults < MaxFaults /\ faults' = faults + 1

\* An insert into the order's events whose error nobody reads: only one cut off
\* by the 20 second bound is counted as missing.
Note(mark) ==
    \/ marks' = marks \cup {mark} /\ UNCHANGED faults
    \/ marks' = marks /\ Fault

Begins(i) == overlapped' = (overlapped \/ \E j \in Invocations \ {i} : run[j] # Idle)

-----------------------------------------------------------------------------

\* A delivery of the claimed event: the order's own events are read first, and
\* the file with them.
Start(i) ==
    /\ run[i] = Idle
    /\ event = "claimed"
    /\ run' = [run EXCEPT ![i] = [Idle EXCEPT
          !.step = "file",
          !.fileDone = marks \cap {"work.released", "work.blocked"} # {},
          !.fileThere = (file = "released")]]
    /\ Begins(i)
    /\ UNCHANGED <<shown, faults>>

\* The file step, skipped once it has left its mark.  transitionFile moves the
\* file once, and its refusal, for whatever reason, is written down as a block.
FileStep(i) ==
    /\ run[i].step = "file"
    /\ \/ run[i].fileDone /\ Goto(i, "settling") /\ UNCHANGED <<file, faults>>
       \/ /\ ~run[i].fileDone /\ run[i].fileThere
          /\ run' = [run EXCEPT ![i].step = "filed", ![i].mark = "work.released"]
          /\ UNCHANGED <<file, faults>>
       \/ /\ ~run[i].fileDone /\ ~run[i].fileThere /\ file = "held"
          /\ file' = "released"
          /\ run' = [run EXCEPT ![i].step = "filed", ![i].mark = "work.released"]
          /\ UNCHANGED faults
       \/ /\ ~run[i].fileDone /\ ~run[i].fileThere
          /\ IF file = "held" THEN Fault ELSE UNCHANGED faults
          /\ run' = [run EXCEPT ![i].step = "filed", ![i].mark = "work.blocked"]
          /\ UNCHANGED file
       \/ /\ ~run[i].fileDone /\ Fault   \* the file could not be read
          /\ run' = [run EXCEPT ![i].step = "settling", ![i].missing = TRUE]
          /\ UNCHANGED file
    /\ UNCHANGED <<event, marks, account, chosen, opened, holder, reachable, mails,
                   overlapped>>

NoteFile(i) ==
    /\ run[i].step = "filed"
    /\ Note(run[i].mark)
    /\ \E cut \in {FALSE, faults' > faults} :
          run' = [run EXCEPT ![i].step = "settling", ![i].missing = @ \/ cut]
    /\ UNCHANGED <<event, file, account, chosen, opened, holder, reachable, mails,
                   overlapped>>

-----------------------------------------------------------------------------

\* MUTANT of Settled: a release that waits for a person confirms all the same.
SettledUnasked(i, kind) ==
    run' = [run EXCEPT ![i] =
        IF kind = "failed" THEN [@ EXCEPT !.step = "ending", !.missing = TRUE]
        ELSE IF @.open THEN [@ EXCEPT !.step = "ending"]
        ELSE [@ EXCEPT !.step = "confirming",
                       !.settled = IF kind = "open_new" THEN kind ELSE "settled"]]

\* openAccountForOrder has answered.  Before the confirmation, a failure or a
\* person to be asked ends the release there; after it, that is all it ends.
Settled(i, kind) ==
    run' = [run EXCEPT ![i] =
        IF kind \in {"failed", "needs_person"}
        THEN [@ EXCEPT !.step = "ending", !.missing = TRUE]
        ELSE IF @.open THEN [@ EXCEPT !.step = "ending"]
        ELSE [@ EXCEPT !.step = "confirming", !.settled = kind]]

\* accountForClientRecord: exactly one active account of the order's client, and
\* a paying address that belongs to no other.  Any other account of the client's
\* (two, or none of them active, which is not told apart here) is for a person.
Matches(a) == opened = {a} /\ holder \in {NoAccount, a}
NeedsPerson == opened # {} /\ ~\E a \in opened : Matches(a)

\* MUTANT of Settle: only the paying address is looked up, never the client.
SettleByPayer(i) ==
    /\ run[i].step = "settling"
    /\ IF account # NoAccount THEN Settled(i, "settled")
       ELSE IF holder # NoAccount
       THEN run' = [run EXCEPT ![i].step = "linking", ![i].target = holder,
                               ![i].how = "address"]
       ELSE IF run[i].open THEN Goto(i, "creating") ELSE Settled(i, "open_new")
    /\ UNCHANGED <<shown, faults, overlapped>>

\* openAccountForOrder up to its first write.
Settle(i) ==
    /\ run[i].step = "settling"
    /\ \/ /\ account # NoAccount
          /\ Settled(i, "settled")
          /\ UNCHANGED <<marks, faults>>
       \/ /\ account = NoAccount
          /\ \E a \in opened :
                /\ Matches(a)
                /\ run' = [run EXCEPT ![i].step = "linking", ![i].target = a,
                                      ![i].how = "record"]
          /\ UNCHANGED <<marks, faults>>
       \/ /\ account = NoAccount /\ NeedsPerson
          /\ Note("account.match_needed")
          /\ Settled(i, "needs_person")
       \/ /\ account = NoAccount /\ opened = {} /\ holder # NoAccount
          /\ run' = [run EXCEPT ![i].step = "linking", ![i].target = holder,
                                ![i].how = "address"]
          /\ UNCHANGED <<marks, faults>>
       \/ /\ account = NoAccount /\ opened = {} /\ holder = NoAccount
          /\ IF run[i].open THEN Goto(i, "creating") ELSE Settled(i, "open_new")
          /\ UNCHANGED <<marks, faults>>
       \/ Settled(i, "failed") /\ Fault /\ UNCHANGED marks
    /\ UNCHANGED <<event, file, account, chosen, opened, holder, reachable, mails,
                   overlapped>>

\* The order takes the account: by the client's record only while it names none,
\* by the paying address whatever it names.
Link(i) ==
    /\ run[i].step = "linking"
    /\ \/ /\ run[i].how = "record" => account = NoAccount
          /\ account' = run[i].target
          /\ chosen' = run[i].how
          /\ Goto(i, "noting")
          /\ UNCHANGED faults
       \/ /\ run[i].how = "record" /\ account # NoAccount
          /\ Settled(i, "settled")
          /\ UNCHANGED <<account, chosen, faults>>
       \/ Settled(i, "failed") /\ Fault /\ UNCHANGED <<account, chosen>>
    /\ UNCHANGED <<event, file, marks, opened, holder, reachable, mails, overlapped>>

\* The event that says how the order got its account, in a request of its own.
NoteLink(i) ==
    /\ run[i].step = "noting"
    /\ IF run[i].how = "record"
       THEN Note("account.linked_by_client")
       ELSE UNCHANGED <<marks, faults>>
    /\ Settled(i, "settled")
    /\ UNCHANGED <<event, file, account, chosen, opened, holder, reachable, mails,
                   overlapped>>

\* createCustomerAccount: refused if the address has a sign-in, then the account,
\* then its holder, in requests of their own.
CreateAccount(i) ==
    /\ run[i].step = "creating"
    /\ \/ holder # NoAccount /\ Settled(i, "failed") /\ UNCHANGED <<opened, faults>>
       \/ /\ holder = NoAccount
          /\ \E a \in Accounts \ opened :
                /\ opened' = opened \cup {a}
                /\ run' = [run EXCEPT ![i].step = "holding", ![i].target = a]
          /\ UNCHANGED faults
       \/ Settled(i, "failed") /\ Fault /\ UNCHANGED opened
    /\ UNCHANGED <<event, file, marks, account, chosen, holder, reachable, mails,
                   overlapped>>

\* The address is unique among sign-ins: a second holder is refused.
CreateHolder(i) ==
    /\ run[i].step = "holding"
    /\ \/ holder = NoAccount /\ holder' = run[i].target /\ Goto(i, "owning") /\ UNCHANGED faults
       \/ holder # NoAccount /\ Settled(i, "failed") /\ UNCHANGED <<holder, faults>>
       \/ Settled(i, "failed") /\ Fault /\ UNCHANGED holder
    /\ UNCHANGED <<event, file, marks, account, chosen, opened, reachable, mails,
                   overlapped>>

OwnOrder(i) ==
    /\ run[i].step = "owning"
    /\ \/ account' = run[i].target /\ chosen' = "opening" /\ Settled(i, "settled") /\ UNCHANGED faults
       \/ Settled(i, "failed") /\ Fault /\ UNCHANGED <<account, chosen>>
    /\ UNCHANGED <<event, file, marks, opened, holder, reachable, mails, overlapped>>

-----------------------------------------------------------------------------

\* What follows the confirmation: only now may an account be opened.
Confirmed(i, missing) ==
    LET opens == run[i].settled = "open_new" IN
    run' = [run EXCEPT ![i].step = IF opens THEN "settling" ELSE "ending",
                       ![i].open = opens,
                       ![i].missing = @ \/ missing]

\* MUTANT of CheckConfirmation: it looks for the mail that was sent, not queued.
CheckSent(i) ==
    /\ run[i].step = "confirming"
    /\ Goto(i, "addressing")
    /\ UNCHANGED <<shown, faults, overlapped>>

\* The confirmation is its own marker: one queued or sent is not queued again.
CheckConfirmation(i) ==
    /\ run[i].step = "confirming"
    /\ \/ Mails > 0 /\ Confirmed(i, FALSE) /\ UNCHANGED faults
       \/ Mails = 0 /\ Goto(i, "addressing") /\ UNCHANGED faults
       \/ Confirmed(i, TRUE) /\ Fault
    /\ UNCHANGED <<shown, overlapped>>

\* MUTANT of ToAccount: what a person attached is not counted.
ToLinkedAccount == "account.linked_by_client" \in marks

\* confirmationRecipient: an order attached by its client's record or by a person
\* confirms to the account's address on file, any other to the paying address.
ToAccount == marks \cap {"account.linked_by_client", "account.attached"} # {}

\* MUTANT of Address: an account without an address is confirmed to in silence.
AddressOrNobody(i) ==
    /\ run[i].step = "addressing"
    /\ IF ToAccount /\ account \notin reachable THEN Confirmed(i, FALSE)
       ELSE run' = [run EXCEPT ![i].step = "queueing",
                               ![i].to = IF ToAccount THEN "account" ELSE "payer"]
    /\ UNCHANGED <<shown, faults, overlapped>>

Address(i) ==
    /\ run[i].step = "addressing"
    /\ \/ /\ ~ToAccount
          /\ run' = [run EXCEPT ![i].step = "queueing", ![i].to = "payer"]
          /\ UNCHANGED faults
       \/ /\ ToAccount /\ account \in reachable
          /\ run' = [run EXCEPT ![i].step = "queueing", ![i].to = "account"]
          /\ UNCHANGED faults
       \/ ToAccount /\ account \notin reachable /\ Confirmed(i, TRUE) /\ UNCHANGED faults
       \/ Confirmed(i, TRUE) /\ Fault
    /\ UNCHANGED <<shown, overlapped>>

\* issueCustomerLink and sendOrderConfirmation.  The link is fresh, so the queue's
\* own key is fresh with it and refuses nothing.
QueueConfirmation(i) ==
    /\ run[i].step = "queueing"
    /\ \/ /\ mails' = [mails EXCEPT ![run[i].to] = @ + 1]
          /\ Confirmed(i, FALSE)
          /\ UNCHANGED faults
       \/ UNCHANGED mails /\ Confirmed(i, TRUE) /\ Fault
    /\ UNCHANGED <<event, file, marks, account, chosen, opened, holder, reachable,
                   overlapped>>

\* releaseAndFinish: done once nothing is missing, claimed otherwise.
End(i) ==
    /\ run[i].step = "ending"
    /\ event' = IF run[i].missing THEN event ELSE "done"
    /\ run' = [run EXCEPT ![i] = Idle]
    /\ UNCHANGED <<file, marks, account, chosen, opened, holder, reachable, mails,
                   faults, overlapped>>

-----------------------------------------------------------------------------

\* A person attaches the order, from the panel that lists the orders waiting for
\* one, to an account of its client or of the paying address, while it names none.
Attach(i, a) ==
    /\ run[i] = Idle
    /\ "account.match_needed" \in marks
    /\ a \in (opened \cup {holder}) \ {NoAccount}
    /\ account = NoAccount
    /\ account' = a
    /\ chosen' = "person"
    /\ Goto(i, "attached")
    /\ Begins(i)
    /\ UNCHANGED <<event, file, marks, opened, holder, reachable, mails, faults>>

\* The event, and then the release of the payment that waits for it.
NoteAttached(i) ==
    /\ run[i].step = "attached"
    /\ Note("account.attached")
    /\ run' = [run EXCEPT ![i] =
          IF event = "done" THEN Idle
          ELSE [Idle EXCEPT
                  !.step = "file",
                  !.fileDone = marks \cap {"work.released", "work.blocked"} # {},
                  !.fileThere = (file = "released")]]
    /\ UNCHANGED <<event, file, account, chosen, opened, holder, reachable, mails,
                   overlapped>>

\* Somebody gives an account an address to write to.
AddAddress(a) ==
    /\ a \in (opened \cup {OtherAccount}) \ reachable
    /\ reachable' = reachable \cup {a}
    /\ UNCHANGED <<event, file, marks, account, chosen, opened, holder, mails, run,
                   faults, overlapped>>

\* The invocation stops, or its last write is cut off: nothing more of it happens.
Kill(i) ==
    /\ run[i] # Idle
    /\ Fault
    /\ run' = [run EXCEPT ![i] = Idle]
    /\ UNCHANGED <<shown, overlapped>>

Next ==
    \/ \E i \in Invocations :
         \/ Start(i) \/ FileStep(i) \/ NoteFile(i)
         \/ Settle(i) \/ Link(i) \/ NoteLink(i)
         \/ CreateAccount(i) \/ CreateHolder(i) \/ OwnOrder(i)
         \/ CheckConfirmation(i) \/ Address(i) \/ QueueConfirmation(i)
         \/ End(i) \/ NoteAttached(i) \/ Kill(i)
         \/ \E a \in Accounts \cup {OtherAccount} : Attach(i, a)
    \/ \E a \in Accounts \cup {OtherAccount} : AddAddress(a)

Spec == Init /\ [][Next]_vars

-----------------------------------------------------------------------------

\* The payment event, the order, its account and every release under way keep
\* their shape.
ReleaseTypeOK ==
    /\ event \in {"claimed", "done"}
    /\ file \in {"held", "released", "stuck"}
    /\ marks \subseteq Marks
    /\ account \in AnyAccount
    /\ chosen \in Ways
    /\ opened \subseteq Accounts
    /\ holder \in AnyAccount
    /\ reachable \subseteq opened \cup {OtherAccount}
    /\ mails \in [{"payer", "account"} -> Nat]
    /\ run \in [Invocations -> Run]
    /\ faults \in 0..MaxFaults
    /\ overlapped \in BOOLEAN

\* However often the event is delivered, whatever failed or stopped on the way and
\* wherever (also between an account, its holder and the order), the customer is sent
\* one confirmation and an account is opened only for a client that has none, as long
\* as no two invocations are at work on the release at the same time.
ReleasesOnceUnlessOverlapped ==
    [][~overlapped =>
        /\ mails' # mails => Mails = 0
        /\ opened' # opened => opened = {}]_vars

\* While a person has been asked to choose the order's account and has not, nobody is
\* sent a confirmation; and that of an order whose account its client's record or a
\* person chose never goes to the address that merely paid, unless an event was lost
\* with a failed request.  Two invocations that overlap may break either.
ConfirmsToAccountUnlessFaulted ==
    [][mails' # mails /\ ~overlapped =>
        /\ account = NoAccount => "account.match_needed" \notin marks
        /\ mails'.payer > mails.payer /\ faults = 0 => chosen \notin {"record", "person"}]_vars

\* An event answered as done leaves nothing for a delivery that will not come:
\* the order has its account, its customer has been written to, and its file
\* moved or the block was written down, unless a request failed.
DoneIsWhole ==
    event = "done" =>
        /\ account # NoAccount
        /\ Mails > 0
        /\ faults = 0 => file = "released" \/ "work.blocked" \in marks

\* The comment in releaseForFulfilment (768-782), taken at its word: an order
\* attached by its client's record or by a person never confirms to the address
\* that merely paid.
NeverToTheAddressThatMerelyPaid ==
    [][mails'.payer > mails.payer => chosen \notin {"record", "person"}]_vars

=============================================================================
