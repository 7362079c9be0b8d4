--------------------------- MODULE ReleaseProofs ----------------------------
(***************************************************************************)
(* What holds of the release of a paid order for any number of accounts,   *)
(* deliveries, attachments and faults: types, that an event answered as    *)
(* done left nothing undone, and, while no two invocations overlap, that   *)
(* the release is done once and confirms to the right address.             *)
(***************************************************************************)
EXTENDS Release, TLAPS

\* The file moved, or why it did not was written down.
FileWhole == faults = 0 => file = "released" \/ "work.blocked" \in marks

\* The steps of an invocation that is past the order's file, and those in which
\* it decides where the confirmation goes.
AfterFile == {"settling", "linking", "noting", "creating", "holding", "owning",
              "confirming", "addressing", "queueing", "ending"}
Confirming == {"confirming", "addressing", "queueing"}

\* What an invocation may be in the middle of, given what the order has come to:
\* everything it has done so far is there, except what it counts as missing.  No
\* step takes any of this away, so it holds whoever else is at work.
Fitting == {r \in Run :
    /\ r.fileThere => file = "released"
    /\ r.fileDone => marks \cap {"work.released", "work.blocked"} # {}
    /\ r.step = "filed" => \/ r.mark = "work.released" /\ file = "released"
                           \/ r.mark = "work.blocked"
    /\ r.step \in AfterFile => FileWhole
    /\ r.step \in {"linking", "noting", "holding", "owning"} => r.target # NoAccount
    /\ r.step = "linking" => r.how \in {"record", "address"}
    /\ r.step = "noting" => account # NoAccount
    /\ r.step \in Confirming => ~r.open /\ (r.settled = "settled" => account # NoAccount)
    /\ r.open /\ ~r.missing => Mails > 0
    /\ r.step = "ending" /\ ~r.missing => account # NoAccount /\ Mails > 0}

\* What an invocation that is alone on the release may also rely on: what it read
\* is still so.
Lone == {r \in Run :
    /\ r.step \in {"addressing", "queueing"} => Mails = 0
    /\ r.step = "creating" => opened = {}
    /\ r.step \in Confirming /\ account = NoAccount => opened = {}
    /\ r.step = "queueing" /\ r.to = "payer" => ~ToAccount}

Alone ==
    ~overlapped =>
        /\ \A i, j \in Invocations : run[i] # Idle /\ run[j] # Idle => i = j
        /\ \A i \in Invocations : run[i] \in Lone

\* An account that a record or a person chose is in the order's events, or its
\* event is about to be written, until a fault.
ChoiceNoted ==
    faults = 0 =>
        /\ chosen = "record" => \/ "account.linked_by_client" \in marks
                                \/ \E i \in Invocations : run[i].step = "noting" /\ run[i].how = "record"
        /\ chosen = "person" => \/ "account.attached" \in marks
                                \/ \E i \in Invocations : run[i].step = "attached"

\* What the order's events say is so.
MarksHold ==
    /\ "work.released" \in marks => file = "released"
    /\ "account.match_needed" \in marks => opened # {}

ReleaseInv ==
    /\ ReleaseTypeOK
    /\ \A i \in Invocations : run[i] \in Fitting
    /\ Alone
    /\ ChoiceNoted
    /\ MarksHold
    /\ DoneIsWhole

LEMMA InitRelease == Init => ReleaseInv
<1> SUFFICES ASSUME Init PROVE ReleaseInv
  OBVIOUS
<1> USE DEF Init
<1>1. Idle \in Run
  BY DEF Idle, Run, Steps, Marks, AnyAccount, Ways
<1>2. ReleaseTypeOK
  <2>1. /\ account \in AnyAccount /\ holder \in AnyAccount
        /\ opened \subseteq Accounts /\ reachable \subseteq opened \cup {OtherAccount}
    BY DEF AnyAccount
  <2>2. mails \in [{"payer", "account"} -> Nat]
    OBVIOUS
  <2>3. faults \in 0..MaxFaults
    BY ReleaseAssumption
  <2> QED BY <1>1, <2>1, <2>2, <2>3 DEF ReleaseTypeOK, Ways
<1>3. Idle \in Fitting /\ Idle \in Lone
  BY <1>1 DEF Fitting, Lone, Idle, AfterFile, Confirming
<1>4. Alone
  BY <1>3 DEF Alone
<1>5. ChoiceNoted /\ MarksHold /\ DoneIsWhole
  BY DEF ChoiceNoted, MarksHold, DoneIsWhole
<1> QED BY <1>2, <1>3, <1>4, <1>5 DEF ReleaseInv

-----------------------------------------------------------------------------

\* Everything but the invocations has its type.
WorldOK ==
    /\ event \in {"claimed", "done"}
    /\ file \in {"held", "released", "stuck"}
    /\ marks \subseteq Marks
    /\ account \in AnyAccount
    /\ chosen \in Ways
    /\ opened \subseteq Accounts
    /\ holder \in AnyAccount
    /\ reachable \subseteq opened \cup {OtherAccount}
    /\ mails \in [{"payer", "account"} -> Nat]
    /\ faults \in 0..MaxFaults
    /\ overlapped \in BOOLEAN

\* What is done stays done.
Onward ==
    /\ file = "released" => file' = "released"
    /\ marks \subseteq marks'
    /\ account # NoAccount => account' # NoAccount
    /\ Mails > 0 => Mails' > 0
    /\ faults' = 0 => faults = 0

\* So whatever an invocation was in the middle of, it still may be.
LEMMA FittingOnward ==
  ASSUME Onward PROVE Fitting \subseteq Fitting'
<1> SUFFICES ASSUME NEW r \in Fitting PROVE r \in Fitting'
  OBVIOUS
<1>1. FileWhole => FileWhole'
  BY DEF FileWhole, Onward
<1> QED BY <1>1 DEF Fitting, Onward

LEMMA IdleFits == Idle \in Run /\ Idle \in Fitting' /\ Idle \in Lone'
<1>1. Idle \in Run
  BY DEF Idle, Run, Steps, Marks, AnyAccount, Ways
<1> QED BY <1>1 DEF Fitting, Lone, Idle, AfterFile, Confirming

\* An invocation takes one step: it alone changes, what was done stays done, and
\* either it was at work or it begins.
LEMMA StepKeeps ==
  ASSUME ReleaseInv, NEW i \in Invocations,
         run' = [run EXCEPT ![i] = run'[i]], run'[i] \in Fitting',
         WorldOK', Onward,
         \/ run[i] # Idle /\ overlapped' = overlapped
         \/ run[i] = Idle /\ Begins(i),
         ~overlapped' => run'[i] \in Lone',
         ChoiceNoted', MarksHold', DoneIsWhole'
  PROVE  ReleaseInv'
<1>1. \A j \in Invocations : run'[j] \in Fitting'
  BY FittingOnward DEF ReleaseInv, ReleaseTypeOK
<1>2. run' \in [Invocations -> Run]
  <2>1. run'[i] \in Run
    BY DEF Fitting
  <2> QED BY <2>1 DEF ReleaseInv, ReleaseTypeOK
<1>3. ReleaseTypeOK'
  BY <1>2 DEF ReleaseTypeOK, WorldOK
<1>4. Alone'
  <2> SUFFICES ASSUME ~overlapped'
               PROVE  /\ \A j, k \in Invocations : run'[j] # Idle /\ run'[k] # Idle => j = k
                      /\ \A j \in Invocations : run'[j] \in Lone'
    BY DEF Alone
  <2>1. \A j \in Invocations : j # i => run[j] = Idle /\ run'[j] = Idle
    <3>1. CASE run[i] # Idle /\ overlapped' = overlapped
      BY <3>1 DEF ReleaseInv, ReleaseTypeOK, Alone
    <3>2. CASE run[i] = Idle /\ Begins(i)
      <4>1. \A j \in Invocations \ {i} : run[j] = Idle
        BY <3>2 DEF Begins
      <4> QED BY <4>1 DEF ReleaseInv, ReleaseTypeOK
    <3> QED BY <3>1, <3>2
  <2> QED BY <2>1, IdleFits
<1> QED BY <1>1, <1>3, <1>4 DEF ReleaseInv

\* Who chose the account stays in the order's events while the choice is not made
\* again and the invocation that takes a step had nothing to write about it.
LEMMA ChoiceKept ==
  ASSUME ReleaseInv, NEW i \in Invocations, run' = [run EXCEPT ![i] = run'[i]],
         Onward, chosen' = chosen,
         run[i].step \notin {"noting", "attached"}
  PROVE  ChoiceNoted'
<1>1. \A j \in Invocations : j # i => run'[j] = run[j]
  BY DEF ReleaseInv, ReleaseTypeOK
<1>2. \A j \in Invocations :
        run[j].step \in {"noting", "attached"} => run'[j] = run[j]
  BY <1>1
<1> QED BY <1>2 DEF ChoiceNoted, Onward, ReleaseInv

\* What the invariant says of one invocation, and of the world.
LEMMA Now ==
  ASSUME ReleaseInv, NEW i \in Invocations
  PROVE  /\ run[i] \in Run /\ run[i] \in Fitting
         /\ ~overlapped => run[i] \in Lone
         /\ WorldOK
  BY DEF ReleaseInv, ReleaseTypeOK, WorldOK, Alone

Settling == {"settling", "linking", "noting", "creating", "holding", "owning"}

\* openAccountForOrder's answer leaves the invocation with what it may rely on.
LEMMA SettledFits ==
  ASSUME ReleaseInv, NEW i \in Invocations, run[i].step \in Settling, Onward,
         NEW kind \in {"settled", "open_new", "needs_person", "failed"}, Settled(i, kind),
         kind = "settled" => account' # NoAccount,
         kind = "open_new" => ~run[i].open /\ opened' = {}
  PROVE  /\ run' = [run EXCEPT ![i] = run'[i]]
         /\ run'[i] \in Fitting' /\ run'[i] \in Lone'
<1>1. run[i] \in Run /\ run[i] \in Fitting'
  BY Now, FittingOnward
<1> DEFINE r == IF kind \in {"failed", "needs_person"}
                THEN [run[i] EXCEPT !.step = "ending", !.missing = TRUE]
                ELSE IF run[i].open THEN [run[i] EXCEPT !.step = "ending"]
                ELSE [run[i] EXCEPT !.step = "confirming", !.settled = kind]
<1>2. run' = [run EXCEPT ![i] = r] /\ run'[i] = r
  BY DEF Settled, ReleaseInv, ReleaseTypeOK
<1>3. FileWhole' /\ (run[i].open /\ ~run[i].missing => Mails' > 0)
  BY <1>1 DEF Fitting, Settling, AfterFile
<1>4. CASE kind \in {"failed", "needs_person"}
  <2>1. r = [run[i] EXCEPT !.step = "ending", !.missing = TRUE]
    BY <1>4
  <2>2. r \in Run
    BY <1>1, <2>1 DEF Run, Steps
  <2>3. r.step = "ending" /\ r.missing = TRUE /\ r.fileThere = run[i].fileThere
        /\ r.fileDone = run[i].fileDone
    BY <1>1, <2>1 DEF Run
  <2> HIDE DEF r
  <2>4. r \in Fitting'
    BY <1>1, <1>3, <2>2, <2>3 DEF Fitting, AfterFile, Confirming
  <2>5. r \in Lone'
    BY <2>2, <2>3 DEF Lone, Confirming
  <2> QED BY <1>2, <2>4, <2>5
<1>5. CASE kind \notin {"failed", "needs_person"} /\ run[i].open
  <2>1. r = [run[i] EXCEPT !.step = "ending"]
    BY <1>5
  <2>2. r \in Run
    BY <1>1, <2>1 DEF Run, Steps
  <2>3. r.step = "ending" /\ r.missing = run[i].missing /\ r.open = run[i].open
        /\ r.fileThere = run[i].fileThere /\ r.fileDone = run[i].fileDone
    BY <1>1, <2>1 DEF Run
  <2>6. kind = "settled" /\ account' # NoAccount
    BY <1>5
  <2> HIDE DEF r
  <2>4. r \in Fitting'
    BY <1>1, <1>3, <1>5, <2>2, <2>3, <2>6 DEF Fitting, AfterFile, Confirming
  <2>5. r \in Lone'
    BY <2>2, <2>3 DEF Lone, Confirming
  <2> QED BY <1>2, <2>4, <2>5
<1>6. CASE kind \notin {"failed", "needs_person"} /\ ~run[i].open
  <2>1. r = [run[i] EXCEPT !.step = "confirming", !.settled = kind]
    BY <1>6
  <2>2. r \in Run
    BY <1>1, <1>6, <2>1 DEF Run, Steps
  <2>3. r.step = "confirming" /\ r.settled = kind /\ ~r.open
        /\ r.fileThere = run[i].fileThere /\ r.fileDone = run[i].fileDone
    BY <1>1, <1>6, <2>1 DEF Run
  <2>6. (kind = "settled" /\ account' # NoAccount) \/ (kind = "open_new" /\ opened' = {})
    BY <1>6
  <2> HIDE DEF r
  <2>4. r \in Fitting'
    BY <1>1, <1>3, <2>2, <2>3, <2>6 DEF Fitting, AfterFile, Confirming
  <2>5. r \in Lone'
    BY <2>2, <2>3, <2>6 DEF Lone, Confirming
  <2> QED BY <1>2, <2>4, <2>5
<1> QED BY <1>4, <1>5, <1>6

\* So does what follows the confirmation.
LEMMA ConfirmedFits ==
  ASSUME ReleaseInv, NEW i \in Invocations, run[i].step \in Confirming, Onward,
         NEW missing \in BOOLEAN, Confirmed(i, missing), ~missing => Mails' > 0
  PROVE  /\ run' = [run EXCEPT ![i] = run'[i]]
         /\ run'[i] \in Fitting' /\ run'[i] \in Lone'
<1>1. run[i] \in Run /\ run[i] \in Fitting'
  BY Now, FittingOnward
<1> DEFINE opens == run[i].settled = "open_new"
           r == [run[i] EXCEPT !.step = IF opens THEN "settling" ELSE "ending",
                               !.open = opens, !.missing = run[i].missing \/ missing]
<1>2. run' = [run EXCEPT ![i] = r] /\ run'[i] = r
  BY DEF Confirmed, ReleaseInv, ReleaseTypeOK
<1>3. /\ FileWhole'
      /\ ~opens => account' # NoAccount
  BY <1>1 DEF Fitting, Confirming, AfterFile, Run
<1>4. r \in Run
  BY <1>1 DEF Run, Steps
<1>5. /\ r.step = IF opens THEN "settling" ELSE "ending"
      /\ r.open = opens /\ (~r.missing => ~missing)
      /\ r.fileThere = run[i].fileThere /\ r.fileDone = run[i].fileDone
  BY <1>1 DEF Run
<1> HIDE DEF r
<1>6. r \in Fitting'
  BY <1>1, <1>3, <1>4, <1>5 DEF Fitting, AfterFile, Confirming
<1>7. r \in Lone'
  BY <1>4, <1>5 DEF Lone, Confirming
<1> QED BY <1>2, <1>6, <1>7

\* A record of an invocation that moves to another step is one.
LEMMA RunMoves ==
  ASSUME NEW r \in Run, NEW s \in Steps
  PROVE  /\ [r EXCEPT !.step = s] \in Run
         /\ [r EXCEPT !.step = s, !.missing = TRUE] \in Run
         /\ \A m \in Marks : [r EXCEPT !.step = s, !.mark = m] \in Run
         /\ \A t \in {"payer", "account"} : [r EXCEPT !.step = s, !.to = t] \in Run
         /\ \A a \in AnyAccount : [r EXCEPT !.step = s, !.target = a] \in Run
         /\ \A a \in AnyAccount, w \in Ways :
               [r EXCEPT !.step = s, !.target = a, !.how = w] \in Run
  BY DEF Run

\* A fault is one of a bounded number.
LEMMA FaultCounts ==
  ASSUME WorldOK, Fault
  PROVE  faults' \in 0..MaxFaults /\ faults' > 0 /\ faults' = faults + 1
  BY ReleaseAssumption DEF WorldOK, Fault

\* The order's events go on telling the truth when what is added to them is true.
LEMMA StoryKept ==
  ASSUME ReleaseInv, Onward, event' = event, opened \subseteq opened',
         "work.released" \in marks' \ marks => file' = "released",
         "account.match_needed" \in marks' \ marks => opened' # {}
  PROVE  MarksHold' /\ DoneIsWhole'
<1>1. MarksHold'
  BY DEF ReleaseInv, MarksHold, Onward
<1>2. DoneIsWhole'
  BY DEF ReleaseInv, DoneIsWhole, Onward
<1> QED BY <1>1, <1>2

\* A delivery begins.
LEMMA StartKeeps ==
  ASSUME ReleaseInv, NEW i \in Invocations, Start(i) PROVE ReleaseInv'
<1> DEFINE r == [Idle EXCEPT !.step = "file",
                   !.fileDone = marks \cap {"work.released", "work.blocked"} # {},
                   !.fileThere = (file = "released")]
<1>1. run' = [run EXCEPT ![i] = r] /\ run'[i] = r
  BY DEF Start, ReleaseInv, ReleaseTypeOK
<1>2. Onward /\ WorldOK'
  BY Now DEF Start, shown, Onward, WorldOK, Begins, Mails
<1>3. r \in Run
  BY IdleFits DEF Run, Steps
<1>4. /\ r.step = "file" /\ ~r.open
      /\ r.fileDone => marks' \cap {"work.released", "work.blocked"} # {}
      /\ r.fileThere => file' = "released"
  BY DEF Idle, Start, shown
<1> HIDE DEF r
<1>5. r \in Fitting' /\ r \in Lone'
  BY <1>3, <1>4 DEF Fitting, Lone, AfterFile, Confirming
<1>6. ChoiceNoted'
  <2>1. run' = [run EXCEPT ![i] = run'[i]] /\ chosen' = chosen
    BY <1>1 DEF Start, shown
  <2>2. run[i].step = "idle"
    BY DEF Start, Idle
  <2> QED BY <1>2, <2>1, <2>2, ChoiceKept
<1>7. MarksHold' /\ DoneIsWhole'
  BY <1>2, StoryKept DEF Start, shown
<1> QED BY <1>1, <1>2, <1>5, <1>6, <1>7, StepKeeps DEF Start

\* The file step.
LEMMA FileStepKeeps ==
  ASSUME ReleaseInv, NEW i \in Invocations, FileStep(i) PROVE ReleaseInv'
<1>1. run[i] \in Run /\ run[i] \in Fitting /\ WorldOK /\ run[i].step = "file" /\ run[i] # Idle
  BY Now DEF FileStep, Idle
<1>2. Onward /\ WorldOK'
  <2>1. faults' \in 0..MaxFaults /\ (faults' = 0 => faults = 0)
    BY <1>1, FaultCounts DEF FileStep, WorldOK
  <2> QED BY <1>1, <2>1 DEF FileStep, Onward, WorldOK, Mails
<1>3. run[i] \in Fitting'
  BY <1>1, <1>2, FittingOnward
<1>4. /\ run' = [run EXCEPT ![i] = run'[i]]
      /\ run'[i] \in Run
      /\ run'[i].step \in {"filed", "settling"}
      /\ run'[i].fileDone = run[i].fileDone /\ run'[i].fileThere = run[i].fileThere
      /\ run'[i].open = run[i].open
      /\ run[i].missing => run'[i].missing
      /\ run'[i].step = "filed" => \/ run'[i].mark = "work.released" /\ file' = "released"
                                   \/ run'[i].mark = "work.blocked"
      /\ run'[i].step = "settling" => run[i].fileDone \/ faults' > 0
  <2>1. CASE run[i].fileDone /\ Goto(i, "settling")
    <3>1. run' = [run EXCEPT ![i] = [run[i] EXCEPT !.step = "settling"]]
      BY <2>1 DEF Goto, ReleaseInv, ReleaseTypeOK
    <3>2. run'[i] = [run[i] EXCEPT !.step = "settling"]
      BY <3>1 DEF ReleaseInv, ReleaseTypeOK
    <3>3. run'[i] \in Run
      BY <1>1, <3>2, RunMoves DEF Steps
    <3>4. /\ run'[i].step = "settling" /\ run'[i].missing = run[i].missing
          /\ run'[i].fileDone = run[i].fileDone /\ run'[i].fileThere = run[i].fileThere
          /\ run'[i].open = run[i].open
      BY <1>1, <3>2 DEF Run
    <3>5. run' = [run EXCEPT ![i] = run'[i]]
      BY <3>1, <3>2
    <3> QED BY <2>1, <3>3, <3>4, <3>5
  <2>2. CASE /\ file' = "released"
             /\ run' = [run EXCEPT ![i].step = "filed", ![i].mark = "work.released"]
    <3>1. run'[i] = [run[i] EXCEPT !.step = "filed", !.mark = "work.released"]
          /\ run' = [run EXCEPT ![i] = [run[i] EXCEPT !.step = "filed", !.mark = "work.released"]]
      BY <2>2 DEF ReleaseInv, ReleaseTypeOK
    <3>2. run'[i] \in Run
      <4>1. \A m \in Marks : [run[i] EXCEPT !.step = "filed", !.mark = m] \in Run
        BY <1>1, RunMoves DEF Steps
      <4> QED BY <3>1, <4>1 DEF Marks
    <3>3. /\ run'[i].step = "filed" /\ run'[i].mark = "work.released"
          /\ run'[i].fileDone = run[i].fileDone /\ run'[i].fileThere = run[i].fileThere
          /\ run'[i].open = run[i].open /\ run'[i].missing = run[i].missing
      BY <1>1, <3>1 DEF Run
    <3>4. run' = [run EXCEPT ![i] = run'[i]]
      BY <3>1
    <3> QED BY <2>2, <3>2, <3>3, <3>4
  <2>3. CASE run' = [run EXCEPT ![i].step = "filed", ![i].mark = "work.blocked"]
    <3>1. run'[i] = [run[i] EXCEPT !.step = "filed", !.mark = "work.blocked"]
          /\ run' = [run EXCEPT ![i] = [run[i] EXCEPT !.step = "filed", !.mark = "work.blocked"]]
      BY <2>3 DEF ReleaseInv, ReleaseTypeOK
    <3>2. run'[i] \in Run
      <4>1. \A m \in Marks : [run[i] EXCEPT !.step = "filed", !.mark = m] \in Run
        BY <1>1, RunMoves DEF Steps
      <4> QED BY <3>1, <4>1 DEF Marks
    <3>3. /\ run'[i].step = "filed" /\ run'[i].mark = "work.blocked"
          /\ run'[i].fileDone = run[i].fileDone /\ run'[i].fileThere = run[i].fileThere
          /\ run'[i].open = run[i].open /\ run'[i].missing = run[i].missing
      BY <1>1, <3>1 DEF Run
    <3>4. run' = [run EXCEPT ![i] = run'[i]]
      BY <3>1
    <3> QED BY <3>2, <3>3, <3>4
  <2>4. CASE Fault /\ run' = [run EXCEPT ![i].step = "settling", ![i].missing = TRUE]
    <3>1. run'[i] = [run[i] EXCEPT !.step = "settling", !.missing = TRUE]
          /\ run' = [run EXCEPT ![i] = [run[i] EXCEPT !.step = "settling", !.missing = TRUE]]
      BY <2>4 DEF ReleaseInv, ReleaseTypeOK
    <3>2. faults' > 0
      BY <1>1, <2>4, FaultCounts
    <3>3. run'[i] \in Run
      BY <1>1, <3>1, RunMoves DEF Steps
    <3>4. /\ run'[i].step = "settling" /\ run'[i].missing = TRUE
          /\ run'[i].fileDone = run[i].fileDone /\ run'[i].fileThere = run[i].fileThere
          /\ run'[i].open = run[i].open
      BY <1>1, <3>1 DEF Run
    <3>5. run' = [run EXCEPT ![i] = run'[i]]
      BY <3>1
    <3> QED BY <3>2, <3>3, <3>4, <3>5
  <2>5. run[i].fileThere => file = "released"
    BY <1>1 DEF Fitting
  <2> QED BY <2>1, <2>2, <2>3, <2>4, <2>5 DEF FileStep
<1>5. run[i].fileDone \/ faults' > 0 => FileWhole'
  <2>1. CASE faults' > 0
    BY <2>1 DEF FileWhole
  <2>2. CASE run[i].fileDone
    BY <1>1, <1>2, <2>2 DEF Fitting, FileWhole, ReleaseInv, MarksHold, Onward
  <2> QED BY <2>1, <2>2
<1>6. run'[i] \in Fitting'
  BY <1>3, <1>4, <1>5 DEF Fitting, AfterFile, Confirming
<1>7. run'[i] \in Lone'
  BY <1>4 DEF Lone, Confirming
<1>8. ChoiceNoted'
  BY <1>1, <1>2, <1>4, ChoiceKept DEF FileStep
<1>9. MarksHold' /\ DoneIsWhole'
  BY <1>2, StoryKept DEF FileStep
<1> QED BY <1>1, <1>2, <1>4, <1>6, <1>7, <1>8, <1>9, StepKeeps DEF FileStep

\* What came of the file is written down.
LEMMA NoteFileKeeps ==
  ASSUME ReleaseInv, NEW i \in Invocations, NoteFile(i) PROVE ReleaseInv'
<1>1. /\ run[i] \in Run /\ run[i] \in Fitting /\ WorldOK /\ run[i].step = "filed"
      /\ run[i] # Idle /\ run[i].mark \in Marks
  BY Now DEF NoteFile, Idle, Run
<1>2. \/ marks' = marks \cup {run[i].mark} /\ faults' = faults
      \/ marks' = marks /\ faults' = faults + 1 /\ faults' \in 0..MaxFaults
  BY <1>1, FaultCounts DEF NoteFile, Note
<1>3. Onward /\ WorldOK'
  BY <1>1, <1>2 DEF NoteFile, Onward, WorldOK, Mails
<1>4. PICK cut \in BOOLEAN :
        run' = [run EXCEPT ![i].step = "settling", ![i].missing = @ \/ cut]
  BY DEF NoteFile
<1> DEFINE r == [run[i] EXCEPT !.step = "settling", !.missing = run[i].missing \/ cut]
<1>5. run' = [run EXCEPT ![i] = r] /\ run'[i] = r
  BY <1>4 DEF ReleaseInv, ReleaseTypeOK
<1>6. /\ r \in Run /\ r.step = "settling" /\ r.open = run[i].open
      /\ r.fileThere = run[i].fileThere /\ r.fileDone = run[i].fileDone
      /\ run[i].missing => r.missing
  BY <1>1 DEF Run, Steps
<1>7. FileWhole'
  BY <1>1, <1>2 DEF FileWhole, Fitting, NoteFile, WorldOK
<1> HIDE DEF r
<1>8. run[i] \in Fitting'
  BY <1>1, <1>3, FittingOnward
<1>9. r \in Fitting' /\ r \in Lone'
  BY <1>6, <1>7, <1>8 DEF Fitting, Lone, AfterFile, Confirming
<1>10. ChoiceNoted'
  BY <1>1, <1>3, <1>5, ChoiceKept DEF NoteFile
<1>11. MarksHold' /\ DoneIsWhole'
  <2>1. /\ "work.released" \in marks' \ marks => file' = "released"
        /\ "account.match_needed" \notin marks' \ marks
    BY <1>1, <1>2 DEF Fitting, NoteFile
  <2> QED BY <1>3, <2>1, StoryKept DEF NoteFile
<1> QED BY <1>1, <1>3, <1>5, <1>9, <1>10, <1>11, StepKeeps DEF NoteFile

\* From one write of openAccountForOrder to the next.
LEMMA SettlingFits ==
  ASSUME ReleaseInv, NEW i \in Invocations, run[i].step \in Settling, Onward,
         run'[i] \in Run, run'[i].step \in Settling \ {"settling"},
         run'[i].open = run[i].open, run'[i].missing = run[i].missing,
         run'[i].fileDone = run[i].fileDone, run'[i].fileThere = run[i].fileThere,
         run'[i].step \in {"linking", "noting", "holding", "owning"} => run'[i].target # NoAccount,
         run'[i].step = "linking" => run'[i].how \in {"record", "address"},
         run'[i].step = "noting" => account' # NoAccount,
         run'[i].step = "creating" => opened' = {}
  PROVE  run'[i] \in Fitting' /\ run'[i] \in Lone'
<1>1. run[i] \in Run /\ run[i] \in Fitting'
  BY Now, FittingOnward
<1>2. FileWhole' /\ (run[i].open /\ ~run[i].missing => Mails' > 0)
  BY <1>1 DEF Fitting, Settling, AfterFile
<1> QED BY <1>1, <1>2 DEF Fitting, Lone, Settling, AfterFile, Confirming

\* An event is written, or is not after a fault.
LEMMA Noted ==
  ASSUME WorldOK, NEW mark \in Marks, Note(mark)
  PROVE  /\ marks \subseteq marks' /\ marks' \subseteq marks \cup {mark}
         /\ marks' \subseteq Marks /\ faults' \in 0..MaxFaults
         /\ faults' = 0 => faults = 0 /\ mark \in marks'
  BY FaultCounts DEF Note, WorldOK

\* openAccountForOrder up to its first write.
LEMMA SettleKeeps ==
  ASSUME ReleaseInv, NEW i \in Invocations, Settle(i) PROVE ReleaseInv'
<1>1. /\ run[i] \in Run /\ run[i] \in Fitting /\ WorldOK
      /\ run[i].step = "settling" /\ run[i].step \in Settling /\ run[i] # Idle
  <2>1. run[i].step = "settling"
    BY DEF Settle
  <2> QED BY <2>1, Now DEF Idle, Settling
<1>2. /\ marks \subseteq marks' /\ marks' \subseteq Marks /\ faults' \in 0..MaxFaults
      /\ faults' = 0 => faults = 0
      /\ "work.released" \notin marks' \ marks
      /\ "account.match_needed" \in marks' \ marks => opened' # {}
  <2>1. CASE UNCHANGED <<marks, faults>>
    BY <1>1, <2>1 DEF WorldOK
  <2>2. CASE opened # {} /\ Note("account.match_needed")
    BY <1>1, <2>2, Noted DEF Settle, Marks
  <2>3. CASE Fault /\ UNCHANGED marks
    BY <1>1, <2>3, FaultCounts DEF WorldOK
  <2> QED BY <2>1, <2>2, <2>3 DEF Settle, NeedsPerson
<1>3. Onward /\ WorldOK'
  BY <1>1, <1>2 DEF Settle, Onward, WorldOK, Mails
<1>4. run' = [run EXCEPT ![i] = run'[i]] /\ run'[i] \in Fitting' /\ run'[i] \in Lone'
  <2>1. CASE account # NoAccount /\ Settled(i, "settled")
    BY <1>1, <1>3, <2>1, SettledFits DEF Settle
  <2>2. ASSUME NEW a \in AnyAccount, NEW w \in {"record", "address"}, a # NoAccount,
               run' = [run EXCEPT ![i].step = "linking", ![i].target = a, ![i].how = w]
        PROVE  run' = [run EXCEPT ![i] = run'[i]] /\ run'[i] \in Fitting' /\ run'[i] \in Lone'
    <3> DEFINE r == [run[i] EXCEPT !.step = "linking", !.target = a, !.how = w]
    <3>1. run' = [run EXCEPT ![i] = r] /\ run'[i] = r
      BY <2>2 DEF ReleaseInv, ReleaseTypeOK
    <3>2. /\ r \in Run /\ r.step = "linking" /\ r.target = a /\ r.how = w
          /\ r.open = run[i].open /\ r.missing = run[i].missing
          /\ r.fileDone = run[i].fileDone /\ r.fileThere = run[i].fileThere
      BY <1>1, <2>2 DEF Run, Steps, Ways
    <3> HIDE DEF r
    <3>3. run'[i].step = "linking" /\ "linking" \in Settling \ {"settling"}
      BY <3>1, <3>2 DEF Settling
    <3> QED BY <1>1, <1>3, <2>2, <3>1, <3>2, <3>3, SettlingFits
  <2>3. CASE \E a \in opened : run' = [run EXCEPT ![i].step = "linking", ![i].target = a,
                                                  ![i].how = "record"]
    <3>1. \A a \in opened : a \in AnyAccount /\ a # NoAccount
      BY <1>1, ReleaseAssumption DEF WorldOK, AnyAccount
    <3> QED BY <2>2, <2>3, <3>1
  <2>4. CASE Settled(i, "needs_person")
    BY <1>1, <1>3, <2>4, SettledFits
  <2>5. CASE /\ holder # NoAccount
             /\ run' = [run EXCEPT ![i].step = "linking", ![i].target = holder,
                                   ![i].how = "address"]
    <3>1. holder \in AnyAccount
      BY <1>1 DEF WorldOK
    <3> QED BY <2>2, <2>5, <3>1
  <2>6. CASE /\ opened = {} /\ opened' = {}
             /\ IF run[i].open THEN Goto(i, "creating") ELSE Settled(i, "open_new")
    <3>1. CASE ~run[i].open
      BY <1>1, <1>3, <2>6, <3>1, SettledFits
    <3>2. CASE run[i].open
      <4>1. run' = [run EXCEPT ![i] = [run[i] EXCEPT !.step = "creating"]]
            /\ run'[i] = [run[i] EXCEPT !.step = "creating"]
        BY <2>6, <3>2 DEF Goto, ReleaseInv, ReleaseTypeOK
      <4>2. run'[i] \in Run
        BY <1>1, <4>1, RunMoves DEF Steps
      <4>3. /\ run'[i].step = "creating" /\ run'[i].step \in Settling \ {"settling"}
            /\ run'[i].open = run[i].open /\ run'[i].missing = run[i].missing
            /\ run'[i].fileDone = run[i].fileDone /\ run'[i].fileThere = run[i].fileThere
        BY <1>1, <4>1 DEF Run, Settling
      <4>4. run' = [run EXCEPT ![i] = run'[i]]
        BY <4>1
      <4> QED BY <1>1, <1>3, <2>6, <4>2, <4>3, <4>4, SettlingFits
    <3> QED BY <3>1, <3>2
  <2>7. CASE Settled(i, "failed")
    BY <1>1, <1>3, <2>7, SettledFits
  <2> QED BY <2>1, <2>3, <2>4, <2>5, <2>6, <2>7 DEF Settle
<1>5. ChoiceNoted'
  BY <1>1, <1>3, <1>4, ChoiceKept DEF Settle
<1>6. MarksHold' /\ DoneIsWhole'
  BY <1>2, <1>3, StoryKept DEF Settle
<1> QED BY <1>1, <1>3, <1>4, <1>5, <1>6, StepKeeps DEF Settle

\* The order takes the account.
LEMMA LinkKeeps ==
  ASSUME ReleaseInv, NEW i \in Invocations, Link(i) PROVE ReleaseInv'
<1>1. /\ run[i] \in Run /\ run[i] \in Fitting /\ WorldOK
      /\ run[i].step = "linking" /\ run[i].step \in Settling /\ run[i] # Idle
      /\ run[i].target \in AnyAccount /\ run[i].target # NoAccount
      /\ run[i].how \in {"record", "address"} /\ run[i].how \in Ways
  BY Now DEF Link, Idle, Settling, Fitting, Run
<1>2. Onward /\ WorldOK'
  <2>1. faults' \in 0..MaxFaults /\ (faults' = 0 => faults = 0)
    BY <1>1, FaultCounts DEF Link, WorldOK
  <2>2. account' \in AnyAccount /\ chosen' \in Ways /\ (account # NoAccount => account' # NoAccount)
    BY <1>1 DEF Link, WorldOK
  <2> QED BY <1>1, <2>1, <2>2 DEF Link, Onward, WorldOK, Mails
<1>3. CASE /\ account' = run[i].target /\ chosen' = run[i].how /\ Goto(i, "noting")
  <2>1. run' = [run EXCEPT ![i] = [run[i] EXCEPT !.step = "noting"]]
        /\ run'[i] = [run[i] EXCEPT !.step = "noting"]
    BY <1>3 DEF Goto, ReleaseInv, ReleaseTypeOK
  <2>2. run'[i] \in Run
    BY <1>1, <2>1, RunMoves DEF Steps
  <2>3. /\ run'[i].step = "noting" /\ run'[i].step \in Settling \ {"settling"}
        /\ run'[i].open = run[i].open /\ run'[i].missing = run[i].missing
        /\ run'[i].fileDone = run[i].fileDone /\ run'[i].fileThere = run[i].fileThere
        /\ run'[i].target = run[i].target /\ run'[i].how = run[i].how
    BY <1>1, <2>1 DEF Run, Settling
  <2>4. run' = [run EXCEPT ![i] = run'[i]]
    BY <2>1
  <2>5. run'[i] \in Fitting' /\ run'[i] \in Lone'
    BY <1>1, <1>2, <1>3, <2>2, <2>3, SettlingFits
  <2>6. ChoiceNoted'
    <3>1. chosen' = "record" => run'[i].step = "noting" /\ run'[i].how = "record"
      BY <1>3, <2>3
    <3>2. chosen' # "person"
      BY <1>1, <1>3
    <3> QED BY <3>1, <3>2 DEF ChoiceNoted
  <2>7. MarksHold' /\ DoneIsWhole'
    BY <1>2, StoryKept DEF Link
  <2> QED BY <1>1, <1>2, <2>4, <2>5, <2>6, <2>7, StepKeeps DEF Link
<1>4. CASE chosen' = chosen /\ account' = account /\ \/ account # NoAccount /\ Settled(i, "settled")
                                                     \/ Settled(i, "failed")
  <2>1. run' = [run EXCEPT ![i] = run'[i]] /\ run'[i] \in Fitting' /\ run'[i] \in Lone'
    BY <1>1, <1>2, <1>4, SettledFits
  <2>2. ChoiceNoted'
    BY <1>1, <1>2, <1>4, <2>1, ChoiceKept
  <2>3. MarksHold' /\ DoneIsWhole'
    BY <1>2, StoryKept DEF Link
  <2> QED BY <1>1, <1>2, <2>1, <2>2, <2>3, StepKeeps DEF Link
<1> QED BY <1>3, <1>4 DEF Link

\* How the order got its account is written down.
LEMMA NoteLinkKeeps ==
  ASSUME ReleaseInv, NEW i \in Invocations, NoteLink(i) PROVE ReleaseInv'
<1>1. /\ run[i] \in Run /\ run[i] \in Fitting /\ WorldOK
      /\ run[i].step = "noting" /\ run[i].step \in Settling /\ run[i] # Idle
      /\ account # NoAccount
  BY Now DEF NoteLink, Idle, Settling, Fitting
<1>2. /\ marks \subseteq marks' /\ marks' \subseteq marks \cup {"account.linked_by_client"}
      /\ marks' \subseteq Marks /\ faults' \in 0..MaxFaults /\ (faults' = 0 => faults = 0)
      /\ run[i].how = "record" /\ faults' = 0 => "account.linked_by_client" \in marks'
  <2>1. CASE Note("account.linked_by_client")
    BY <1>1, <2>1, Noted DEF Marks
  <2>2. CASE run[i].how # "record" /\ UNCHANGED <<marks, faults>>
    BY <1>1, <2>2 DEF WorldOK
  <2> QED BY <2>1, <2>2 DEF NoteLink
<1>3. Onward /\ WorldOK'
  BY <1>1, <1>2 DEF NoteLink, Onward, WorldOK, Mails
<1>4. run' = [run EXCEPT ![i] = run'[i]] /\ run'[i] \in Fitting' /\ run'[i] \in Lone'
  BY <1>1, <1>3, SettledFits DEF NoteLink
<1>5. ChoiceNoted'
  <2>1. \A j \in Invocations : j # i => run'[j] = run[j]
    BY <1>4 DEF ReleaseInv, ReleaseTypeOK
  <2>2. \A j \in Invocations : run[j].step = "attached" => run'[j].step = "attached"
    BY <1>1, <2>1
  <2>3. \A j \in Invocations :
           run[j].step = "noting" /\ run[j].how = "record" =>
              \/ run'[j].step = "noting" /\ run'[j].how = "record"
              \/ faults' = 0 => "account.linked_by_client" \in marks'
    BY <1>2, <2>1
  <2>4. chosen' = chosen
    BY DEF NoteLink
  <2> QED BY <1>2, <2>2, <2>3, <2>4 DEF ChoiceNoted, ReleaseInv
<1>6. MarksHold' /\ DoneIsWhole'
  BY <1>2, <1>3, StoryKept DEF NoteLink
<1> QED BY <1>1, <1>3, <1>4, <1>5, <1>6, StepKeeps DEF NoteLink

\* An account is opened.
LEMMA CreateAccountKeeps ==
  ASSUME ReleaseInv, NEW i \in Invocations, CreateAccount(i) PROVE ReleaseInv'
<1>1. /\ run[i] \in Run /\ run[i] \in Fitting /\ WorldOK
      /\ run[i].step = "creating" /\ run[i].step \in Settling /\ run[i] # Idle
  BY Now DEF CreateAccount, Idle, Settling
<1>2. opened \subseteq opened' /\ opened' \subseteq Accounts
  BY <1>1 DEF CreateAccount, WorldOK
<1>3. Onward /\ WorldOK'
  <2>1. faults' \in 0..MaxFaults /\ (faults' = 0 => faults = 0)
    BY <1>1, FaultCounts DEF CreateAccount, WorldOK
  <2> QED BY <1>1, <1>2, <2>1 DEF CreateAccount, Onward, WorldOK, Mails
<1>4. run' = [run EXCEPT ![i] = run'[i]] /\ run'[i] \in Fitting' /\ run'[i] \in Lone'
  <2>1. CASE Settled(i, "failed")
    BY <1>1, <1>3, <2>1, SettledFits
  <2>2. ASSUME NEW a \in Accounts,
               run' = [run EXCEPT ![i].step = "holding", ![i].target = a]
        PROVE  run' = [run EXCEPT ![i] = run'[i]] /\ run'[i] \in Fitting' /\ run'[i] \in Lone'
    <3> DEFINE r == [run[i] EXCEPT !.step = "holding", !.target = a]
    <3>1. run' = [run EXCEPT ![i] = r] /\ run'[i] = r
      BY <2>2 DEF ReleaseInv, ReleaseTypeOK
    <3>2. a \in AnyAccount /\ a # NoAccount
      BY ReleaseAssumption DEF AnyAccount
    <3>3. /\ r \in Run /\ r.step = "holding" /\ r.target = a
          /\ r.open = run[i].open /\ r.missing = run[i].missing
          /\ r.fileDone = run[i].fileDone /\ r.fileThere = run[i].fileThere
      BY <1>1, <3>2 DEF Run, Steps
    <3> HIDE DEF r
    <3>4. run'[i].step = "holding" /\ "holding" \in Settling \ {"settling"}
      BY <3>1, <3>3 DEF Settling
    <3> QED BY <1>1, <1>3, <3>1, <3>2, <3>3, <3>4, SettlingFits
  <2> QED BY <2>1, <2>2 DEF CreateAccount
<1>5. ChoiceNoted'
  BY <1>1, <1>3, <1>4, ChoiceKept DEF CreateAccount
<1>6. MarksHold' /\ DoneIsWhole'
  BY <1>2, <1>3, StoryKept DEF CreateAccount
<1> QED BY <1>1, <1>3, <1>4, <1>5, <1>6, StepKeeps DEF CreateAccount

\* The account gets the paying address for its holder.
LEMMA CreateHolderKeeps ==
  ASSUME ReleaseInv, NEW i \in Invocations, CreateHolder(i) PROVE ReleaseInv'
<1>1. /\ run[i] \in Run /\ run[i] \in Fitting /\ WorldOK
      /\ run[i].step = "holding" /\ run[i].step \in Settling /\ run[i] # Idle
      /\ run[i].target \in AnyAccount /\ run[i].target # NoAccount
  BY Now DEF CreateHolder, Idle, Settling, Fitting, Run
<1>2. Onward /\ WorldOK'
  <2>1. faults' \in 0..MaxFaults /\ (faults' = 0 => faults = 0)
    BY <1>1, FaultCounts DEF CreateHolder, WorldOK
  <2>2. holder' \in AnyAccount
    BY <1>1 DEF CreateHolder, WorldOK
  <2> QED BY <1>1, <2>1, <2>2 DEF CreateHolder, Onward, WorldOK, Mails
<1>3. run' = [run EXCEPT ![i] = run'[i]] /\ run'[i] \in Fitting' /\ run'[i] \in Lone'
  <2>1. CASE Settled(i, "failed")
    BY <1>1, <1>2, <2>1, SettledFits
  <2>2. CASE Goto(i, "owning")
    <3>1. run' = [run EXCEPT ![i] = [run[i] EXCEPT !.step = "owning"]]
          /\ run'[i] = [run[i] EXCEPT !.step = "owning"]
      BY <2>2 DEF Goto, ReleaseInv, ReleaseTypeOK
    <3>2. run'[i] \in Run
      BY <1>1, <3>1, RunMoves DEF Steps
    <3>3. /\ run'[i].step = "owning" /\ run'[i].step \in Settling \ {"settling"}
          /\ run'[i].open = run[i].open /\ run'[i].missing = run[i].missing
          /\ run'[i].fileDone = run[i].fileDone /\ run'[i].fileThere = run[i].fileThere
          /\ run'[i].target = run[i].target
      BY <1>1, <3>1 DEF Run, Settling
    <3>4. run' = [run EXCEPT ![i] = run'[i]]
      BY <3>1
    <3> QED BY <1>1, <1>2, <3>2, <3>3, <3>4, SettlingFits
  <2> QED BY <2>1, <2>2 DEF CreateHolder
<1>4. ChoiceNoted'
  BY <1>1, <1>2, <1>3, ChoiceKept DEF CreateHolder
<1>5. MarksHold' /\ DoneIsWhole'
  BY <1>2, StoryKept DEF CreateHolder
<1> QED BY <1>1, <1>2, <1>3, <1>4, <1>5, StepKeeps DEF CreateHolder

\* The order takes the account that was opened.
LEMMA OwnOrderKeeps ==
  ASSUME ReleaseInv, NEW i \in Invocations, OwnOrder(i) PROVE ReleaseInv'
<1>1. /\ run[i] \in Run /\ run[i] \in Fitting /\ WorldOK
      /\ run[i].step = "owning" /\ run[i].step \in Settling /\ run[i] # Idle
      /\ run[i].target \in AnyAccount /\ run[i].target # NoAccount
  BY Now DEF OwnOrder, Idle, Settling, Fitting, Run
<1>2. Onward /\ WorldOK'
  <2>1. faults' \in 0..MaxFaults /\ (faults' = 0 => faults = 0)
    BY <1>1, FaultCounts DEF OwnOrder, WorldOK
  <2>2. account' \in AnyAccount /\ chosen' \in Ways /\ (account # NoAccount => account' # NoAccount)
    BY <1>1 DEF OwnOrder, WorldOK, Ways
  <2> QED BY <1>1, <2>1, <2>2 DEF OwnOrder, Onward, WorldOK, Mails
<1>3. run' = [run EXCEPT ![i] = run'[i]] /\ run'[i] \in Fitting' /\ run'[i] \in Lone'
  BY <1>1, <1>2, SettledFits DEF OwnOrder
<1>4. ChoiceNoted'
  <2>1. CASE chosen' = "opening"
    BY <2>1 DEF ChoiceNoted
  <2>2. CASE chosen' = chosen
    BY <1>1, <1>2, <1>3, <2>2, ChoiceKept
  <2> QED BY <2>1, <2>2 DEF OwnOrder
<1>5. MarksHold' /\ DoneIsWhole'
  BY <1>2, StoryKept DEF OwnOrder
<1> QED BY <1>1, <1>2, <1>3, <1>4, <1>5, StepKeeps DEF OwnOrder

-----------------------------------------------------------------------------

\* The queue and the sent mail are searched for the confirmation.
LEMMA CheckConfirmationKeeps ==
  ASSUME ReleaseInv, NEW i \in Invocations, CheckConfirmation(i) PROVE ReleaseInv'
<1>1. /\ run[i] \in Run /\ run[i] \in Fitting /\ WorldOK /\ (~overlapped => run[i] \in Lone)
      /\ run[i].step = "confirming" /\ run[i].step \in Confirming /\ run[i] # Idle
  BY Now DEF CheckConfirmation, Idle, Confirming
<1>2. Onward /\ WorldOK'
  <2>1. faults' \in 0..MaxFaults /\ (faults' = 0 => faults = 0)
    <3>1. faults' = faults \/ Fault
      BY DEF CheckConfirmation
    <3> QED BY <1>1, <3>1, FaultCounts DEF WorldOK
  <2> QED BY <1>1, <2>1 DEF CheckConfirmation, shown, Onward, WorldOK, Mails
<1>3. /\ run' = [run EXCEPT ![i] = run'[i]] /\ run'[i] \in Fitting'
      /\ ~overlapped' => run'[i] \in Lone'
  <2>1. CASE Mails > 0 /\ Confirmed(i, FALSE)
    <3>1. Mails' > 0
      BY <1>2, <2>1 DEF Onward
    <3> QED BY <1>1, <1>2, <2>1, <3>1, ConfirmedFits
  <2>2. CASE Mails = 0 /\ Goto(i, "addressing")
    <3>1. run' = [run EXCEPT ![i] = [run[i] EXCEPT !.step = "addressing"]]
          /\ run'[i] = [run[i] EXCEPT !.step = "addressing"]
      BY <2>2 DEF Goto, ReleaseInv, ReleaseTypeOK
    <3>2. run'[i] \in Run
      BY <1>1, <3>1, RunMoves DEF Steps
    <3>3. /\ run'[i].step = "addressing" /\ run'[i].settled = run[i].settled
          /\ run'[i].open = run[i].open /\ run'[i].missing = run[i].missing
          /\ run'[i].fileDone = run[i].fileDone /\ run'[i].fileThere = run[i].fileThere
      BY <1>1, <3>1 DEF Run
    <3>4. run[i] \in Fitting'
      BY <1>1, <1>2, FittingOnward
    <3>5. run'[i] \in Fitting'
      BY <1>1, <3>2, <3>3, <3>4 DEF Fitting, AfterFile, Confirming
    <3>6. Mails' = 0 /\ (account' = NoAccount => account = NoAccount) /\ opened' = opened
          /\ overlapped' = overlapped
      BY <2>2 DEF CheckConfirmation, shown, Mails
    <3>7. ~overlapped' => run'[i] \in Lone'
      BY <1>1, <3>2, <3>3, <3>6 DEF Lone, Confirming
    <3>8. run' = [run EXCEPT ![i] = run'[i]]
      BY <3>1
    <3> QED BY <3>5, <3>7, <3>8
  <2>3. CASE Confirmed(i, TRUE)
    BY <1>1, <1>2, <2>3, ConfirmedFits
  <2> QED BY <2>1, <2>2, <2>3 DEF CheckConfirmation
<1>4. ChoiceNoted'
  BY <1>1, <1>2, <1>3, ChoiceKept DEF CheckConfirmation, shown
<1>5. MarksHold' /\ DoneIsWhole'
  BY <1>2, StoryKept DEF CheckConfirmation, shown
<1> QED BY <1>1, <1>2, <1>3, <1>4, <1>5, StepKeeps DEF CheckConfirmation

\* The confirmation's recipient is chosen.
LEMMA AddressKeeps ==
  ASSUME ReleaseInv, NEW i \in Invocations, Address(i) PROVE ReleaseInv'
<1>1. /\ run[i] \in Run /\ run[i] \in Fitting /\ WorldOK /\ (~overlapped => run[i] \in Lone)
      /\ run[i].step = "addressing" /\ run[i].step \in Confirming /\ run[i] # Idle
  BY Now DEF Address, Idle, Confirming
<1>2. Onward /\ WorldOK'
  <2>1. faults' \in 0..MaxFaults /\ (faults' = 0 => faults = 0)
    <3>1. faults' = faults \/ Fault
      BY DEF Address
    <3> QED BY <1>1, <3>1, FaultCounts DEF WorldOK
  <2> QED BY <1>1, <2>1 DEF Address, shown, Onward, WorldOK, Mails
<1>3. /\ run' = [run EXCEPT ![i] = run'[i]] /\ run'[i] \in Fitting'
      /\ ~overlapped' => run'[i] \in Lone'
  <2>1. ASSUME NEW to \in {"payer", "account"}, to = "payer" => ~ToAccount,
               run' = [run EXCEPT ![i].step = "queueing", ![i].to = to]
        PROVE  /\ run' = [run EXCEPT ![i] = run'[i]] /\ run'[i] \in Fitting'
               /\ ~overlapped' => run'[i] \in Lone'
    <3> DEFINE r == [run[i] EXCEPT !.step = "queueing", !.to = to]
    <3>1. run' = [run EXCEPT ![i] = r] /\ run'[i] = r
      BY <2>1 DEF ReleaseInv, ReleaseTypeOK
    <3>2. /\ r \in Run /\ r.step = "queueing" /\ r.to = to /\ r.settled = run[i].settled
          /\ r.open = run[i].open /\ r.missing = run[i].missing
          /\ r.fileDone = run[i].fileDone /\ r.fileThere = run[i].fileThere
      BY <1>1 DEF Run, Steps
    <3>3. run[i] \in Fitting'
      BY <1>1, <1>2, FittingOnward
    <3> HIDE DEF r
    <3>4. r \in Fitting'
      BY <1>1, <3>2, <3>3 DEF Fitting, AfterFile, Confirming
    <3>5. /\ Mails' = Mails /\ account' = account /\ opened' = opened
          /\ overlapped' = overlapped /\ ToAccount' = ToAccount
      BY DEF Address, shown, Mails, ToAccount
    <3>6. ~overlapped => Mails = 0 /\ (account = NoAccount => opened = {})
      BY <1>1 DEF Lone
    <3>7. ~overlapped' => r \in Lone'
      BY <2>1, <3>2, <3>5, <3>6 DEF Lone, Confirming
    <3> QED BY <3>1, <3>4, <3>7
  <2>2. CASE Confirmed(i, TRUE)
    BY <1>1, <1>2, <2>2, ConfirmedFits
  <2> QED BY <2>1, <2>2 DEF Address
<1>4. ChoiceNoted'
  BY <1>1, <1>2, <1>3, ChoiceKept DEF Address, shown
<1>5. MarksHold' /\ DoneIsWhole'
  BY <1>2, StoryKept DEF Address, shown
<1> QED BY <1>1, <1>2, <1>3, <1>4, <1>5, StepKeeps DEF Address

\* The confirmation is queued.
LEMMA QueueConfirmationKeeps ==
  ASSUME ReleaseInv, NEW i \in Invocations, QueueConfirmation(i) PROVE ReleaseInv'
<1>1. /\ run[i] \in Run /\ run[i] \in Fitting /\ WorldOK
      /\ run[i].step = "queueing" /\ run[i].step \in Confirming /\ run[i] # Idle
      /\ run[i].to \in {"payer", "account"}
  BY Now DEF QueueConfirmation, Idle, Confirming, Run
<1>2. /\ mails' \in [{"payer", "account"} -> Nat] /\ faults' \in 0..MaxFaults
      /\ (faults' = 0 => faults = 0) /\ (Mails > 0 => Mails' > 0)
  <2>1. CASE UNCHANGED faults /\ mails' = [mails EXCEPT ![run[i].to] = @ + 1]
    BY <1>1, <2>1 DEF WorldOK, Mails
  <2>2. CASE UNCHANGED mails /\ Fault
    BY <1>1, <2>2, FaultCounts DEF WorldOK, Mails
  <2> QED BY <2>1, <2>2 DEF QueueConfirmation
<1>3. Onward /\ WorldOK'
  BY <1>1, <1>2 DEF QueueConfirmation, Onward, WorldOK
<1>4. run' = [run EXCEPT ![i] = run'[i]] /\ run'[i] \in Fitting' /\ run'[i] \in Lone'
  <2>1. CASE Confirmed(i, FALSE) /\ mails' = [mails EXCEPT ![run[i].to] = @ + 1]
    <3>1. Mails' > 0
      BY <1>1, <2>1 DEF WorldOK, Mails
    <3> QED BY <1>1, <1>3, <2>1, <3>1, ConfirmedFits
  <2>2. CASE Confirmed(i, TRUE)
    BY <1>1, <1>3, <2>2, ConfirmedFits
  <2> QED BY <2>1, <2>2 DEF QueueConfirmation
<1>5. ChoiceNoted'
  BY <1>1, <1>3, <1>4, ChoiceKept DEF QueueConfirmation
<1>6. MarksHold' /\ DoneIsWhole'
  BY <1>3, StoryKept DEF QueueConfirmation
<1> QED BY <1>1, <1>3, <1>4, <1>5, <1>6, StepKeeps DEF QueueConfirmation

\* The event is done once nothing is missing.
LEMMA EndKeeps ==
  ASSUME ReleaseInv, NEW i \in Invocations, End(i) PROVE ReleaseInv'
<1>1. /\ run[i] \in Run /\ run[i] \in Fitting /\ WorldOK
      /\ run[i].step = "ending" /\ run[i] # Idle
  BY Now DEF End, Idle
<1>2. Onward /\ WorldOK'
  BY <1>1 DEF End, Onward, WorldOK, Mails
<1>3. run' = [run EXCEPT ![i] = run'[i]] /\ run'[i] = Idle
  BY DEF End, ReleaseInv, ReleaseTypeOK
<1>4. run'[i] \in Fitting' /\ run'[i] \in Lone'
  BY <1>3, IdleFits
<1>5. ChoiceNoted'
  BY <1>1, <1>2, <1>3, ChoiceKept DEF End
<1>6. MarksHold'
  BY DEF End, MarksHold, ReleaseInv
<1>7. DoneIsWhole'
  <2>1. CASE run[i].missing
    BY <2>1 DEF End, DoneIsWhole, Mails, ReleaseInv
  <2>2. CASE ~run[i].missing
    <3>1. account # NoAccount /\ Mails > 0 /\ FileWhole
      BY <1>1, <2>2 DEF Fitting, AfterFile
    <3> QED BY <3>1 DEF End, DoneIsWhole, Mails, FileWhole
  <2> QED BY <2>1, <2>2
<1> QED BY <1>1, <1>2, <1>3, <1>4, <1>5, <1>6, <1>7, StepKeeps DEF End

\* A person attaches the order to an account.
LEMMA AttachKeeps ==
  ASSUME ReleaseInv, NEW i \in Invocations, NEW a \in Accounts \cup {OtherAccount}, Attach(i, a)
  PROVE  ReleaseInv'
<1> DEFINE r == [Idle EXCEPT !.step = "attached"]
<1>1. run' = [run EXCEPT ![i] = r] /\ run'[i] = r
  BY DEF Attach, Goto, ReleaseInv, ReleaseTypeOK
<1>2. Onward /\ WorldOK'
  <2>1. account' = a /\ a \in AnyAccount /\ a # NoAccount /\ chosen' \in Ways
    BY ReleaseAssumption DEF Attach, AnyAccount, Ways
  <2>2. overlapped' \in BOOLEAN
    BY DEF Attach, Begins
  <2> QED BY <2>1, <2>2, Now DEF Attach, Onward, WorldOK, Mails
<1>3. r \in Run /\ r.step = "attached" /\ ~r.open /\ ~r.fileDone /\ ~r.fileThere
  BY IdleFits, RunMoves DEF Steps, Idle
<1> HIDE DEF r
<1>4. r \in Fitting' /\ r \in Lone'
  BY <1>3 DEF Fitting, Lone, AfterFile, Confirming
<1>5. ChoiceNoted'
  BY <1>1, <1>3 DEF Attach, ChoiceNoted
<1>6. MarksHold' /\ DoneIsWhole'
  BY <1>2, StoryKept DEF Attach
<1> QED BY <1>1, <1>2, <1>4, <1>5, <1>6, StepKeeps DEF Attach

\* That is written down, and the release begins again.
LEMMA NoteAttachedKeeps ==
  ASSUME ReleaseInv, NEW i \in Invocations, NoteAttached(i) PROVE ReleaseInv'
<1>1. /\ run[i] \in Run /\ run[i] \in Fitting /\ WorldOK
      /\ run[i].step = "attached" /\ run[i] # Idle
  BY Now DEF NoteAttached, Idle
<1>2. /\ marks \subseteq marks' /\ marks' \subseteq marks \cup {"account.attached"}
      /\ marks' \subseteq Marks /\ faults' \in 0..MaxFaults
      /\ faults' = 0 => faults = 0 /\ "account.attached" \in marks'
  BY <1>1, Noted DEF NoteAttached, Marks
<1>3. Onward /\ WorldOK'
  BY <1>1, <1>2 DEF NoteAttached, Onward, WorldOK, Mails
<1> DEFINE again == [Idle EXCEPT !.step = "file",
                       !.fileDone = marks \cap {"work.released", "work.blocked"} # {},
                       !.fileThere = (file = "released")]
           r == IF event = "done" THEN Idle ELSE again
<1>4. run' = [run EXCEPT ![i] = r] /\ run'[i] = r
  BY DEF NoteAttached, ReleaseInv, ReleaseTypeOK
<1>5. again \in Run
  BY IdleFits DEF Run, Steps
<1>6. /\ again.step = "file" /\ ~again.open
      /\ again.fileDone => marks' \cap {"work.released", "work.blocked"} # {}
      /\ again.fileThere => file' = "released"
  BY <1>2 DEF Idle, NoteAttached
<1> HIDE DEF again
<1>7. again \in Fitting' /\ again \in Lone'
  BY <1>5, <1>6 DEF Fitting, Lone, AfterFile, Confirming
<1>8. r \in Fitting' /\ r \in Lone'
  BY <1>7, IdleFits
<1>9. ChoiceNoted'
  <2>1. \A j \in Invocations : j # i => run'[j] = run[j]
    BY <1>4 DEF ReleaseInv, ReleaseTypeOK
  <2>2. \A j \in Invocations : run[j].step = "noting" => run'[j] = run[j]
    BY <1>1, <2>1
  <2>3. chosen' = chosen
    BY DEF NoteAttached
  <2> QED BY <1>2, <2>2, <2>3 DEF ChoiceNoted, ReleaseInv
<1>10. MarksHold' /\ DoneIsWhole'
  BY <1>2, <1>3, StoryKept DEF NoteAttached
<1> QED BY <1>1, <1>3, <1>4, <1>8, <1>9, <1>10, StepKeeps DEF NoteAttached

\* An account gets an address.
LEMMA AddAddressKeeps ==
  ASSUME ReleaseInv, NEW a \in Accounts \cup {OtherAccount}, AddAddress(a) PROVE ReleaseInv'
<1>1. Onward
  BY DEF AddAddress, Onward, Mails
<1>2. ReleaseTypeOK'
  BY DEF AddAddress, ReleaseInv, ReleaseTypeOK
<1>3. \A i \in Invocations : run'[i] \in Fitting'
  BY <1>1, FittingOnward DEF AddAddress, ReleaseInv
<1>4. Lone' = Lone
  BY DEF AddAddress, Lone, Mails, ToAccount
<1>5. Alone'
  BY <1>4 DEF AddAddress, Alone, ReleaseInv
<1>6. ChoiceNoted' /\ MarksHold' /\ DoneIsWhole'
  BY DEF AddAddress, ChoiceNoted, MarksHold, DoneIsWhole, Mails, ReleaseInv
<1> QED BY <1>2, <1>3, <1>5, <1>6 DEF ReleaseInv

\* An invocation stops.
LEMMA KillKeeps ==
  ASSUME ReleaseInv, NEW i \in Invocations, Kill(i) PROVE ReleaseInv'
<1>1. WorldOK /\ run[i] # Idle
  BY Now DEF Kill
<1>2. faults' \in 0..MaxFaults /\ faults' > 0
  BY <1>1, FaultCounts DEF Kill
<1>3. Onward /\ WorldOK'
  BY <1>1, <1>2 DEF Kill, shown, Onward, WorldOK, Mails
<1>4. run' = [run EXCEPT ![i] = run'[i]] /\ run'[i] \in Fitting' /\ run'[i] \in Lone'
  BY IdleFits DEF Kill, ReleaseInv, ReleaseTypeOK
<1>5. ChoiceNoted'
  BY <1>2 DEF ChoiceNoted
<1>6. MarksHold' /\ DoneIsWhole'
  BY <1>3, StoryKept DEF Kill, shown
<1> QED BY <1>1, <1>3, <1>4, <1>5, <1>6, StepKeeps DEF Kill, shown

LEMMA NextRelease ==
  ASSUME ReleaseInv, [Next]_vars PROVE ReleaseInv'
<1>1. CASE UNCHANGED vars
  <2>1. Fitting' = Fitting /\ Lone' = Lone
    BY <1>1 DEF vars, Fitting, Lone, FileWhole, Mails, ToAccount
  <2>2. ReleaseTypeOK' /\ Alone' /\ (\A i \in Invocations : run'[i] \in Fitting')
    BY <1>1, <2>1 DEF vars, ReleaseInv, ReleaseTypeOK, Alone
  <2>3. ChoiceNoted' /\ MarksHold' /\ DoneIsWhole'
    BY <1>1 DEF vars, ReleaseInv, ChoiceNoted, MarksHold, DoneIsWhole, Mails
  <2> QED BY <2>2, <2>3 DEF ReleaseInv
<1>2. CASE Next
  BY <1>2, StartKeeps, FileStepKeeps, NoteFileKeeps, SettleKeeps, LinkKeeps, NoteLinkKeeps,
     CreateAccountKeeps, CreateHolderKeeps, OwnOrderKeeps, CheckConfirmationKeeps, AddressKeeps,
     QueueConfirmationKeeps, EndKeeps, NoteAttachedKeeps, KillKeeps, AttachKeeps, AddAddressKeeps
     DEF Next
<1> QED BY <1>1, <1>2

\* The inductive invariant of the release.
THEOREM ReleaseKeepsInv == Spec => []ReleaseInv
  BY InitRelease, NextRelease, PTL DEF Spec

\* The event, the file, the order, its accounts and every release under way keep
\* their types, for any number of accounts and of invocations of releaseForFulfilment.
THEOREM ReleaseTypes == Spec => []ReleaseTypeOK
<1>1. ReleaseInv => ReleaseTypeOK
  BY DEF ReleaseInv
<1> QED BY <1>1, ReleaseKeepsInv, PTL

\* releaseAndFinish answers an event as done only when the order has its account, its
\* customer was written to and its file moved or the block was written down, however
\* many deliveries and attachments released it, overlapped, failed or stopped.
THEOREM DoneLeavesNothing == Spec => []DoneIsWhole
<1>1. ReleaseInv => DoneIsWhole
  BY DEF ReleaseInv
<1> QED BY <1>1, ReleaseKeepsInv, PTL

-----------------------------------------------------------------------------

\* Only one step queues a confirmation, and only one opens an account.
LEMMA WhoWrites ==
  ASSUME [Next]_vars
  PROVE  /\ mails' # mails => \E i \in Invocations : QueueConfirmation(i)
         /\ opened' # opened => \E i \in Invocations : CreateAccount(i)
  BY DEF Next, vars, Start, FileStep, NoteFile, Settle, Link, NoteLink, CreateAccount,
         CreateHolder, OwnOrder, CheckConfirmation, Address, QueueConfirmation, End, Attach,
         NoteAttached, AddAddress, Kill, shown

\* While no two invocations overlap, one confirmation is queued for the order and an
\* account is opened only for a client that has none, however often openAccountForOrder
\* failed between an account, its holder and the order and was tried again.
THEOREM ReleasedOnce == Spec => ReleasesOnceUnlessOverlapped
<1>1. ASSUME ReleaseInv, [Next]_vars, ~overlapped
      PROVE  /\ mails' # mails => Mails = 0
             /\ opened' # opened => opened = {}
  <2>1. \A i \in Invocations : run[i] \in Lone
    BY <1>1, Now
  <2>2. \A i \in Invocations : QueueConfirmation(i) => Mails = 0
    BY <2>1 DEF QueueConfirmation, Lone
  <2>3. \A i \in Invocations : CreateAccount(i) => opened = {}
    BY <2>1 DEF CreateAccount, Lone
  <2> QED BY <1>1, <2>2, <2>3, WhoWrites
<1>2. ReleaseInv /\ [Next]_vars =>
        [~overlapped => /\ mails' # mails => Mails = 0
                        /\ opened' # opened => opened = {}]_vars
  BY <1>1
<1> QED BY <1>2, ReleaseKeepsInv, PTL DEF Spec, ReleasesOnceUnlessOverlapped

\* While no two invocations overlap, nobody is sent a confirmation that waits for a
\* person's choice of account, and that of an order attached by its client's record or
\* by a person does not go to the address that merely paid, unless a request failed.
THEOREM ConfirmedToAccount == Spec => ConfirmsToAccountUnlessFaulted
<1> DEFINE Right == mails' # mails /\ ~overlapped =>
              /\ account = NoAccount => "account.match_needed" \notin marks
              /\ mails'.payer > mails.payer /\ faults = 0 => chosen \notin {"record", "person"}
<1>1. ASSUME ReleaseInv, [Next]_vars PROVE Right
  <2> SUFFICES ASSUME mails' # mails, ~overlapped
               PROVE  /\ account = NoAccount => "account.match_needed" \notin marks
                      /\ mails'.payer > mails.payer /\ faults = 0 => chosen \notin {"record", "person"}
    OBVIOUS
  <2>1. PICK i \in Invocations : QueueConfirmation(i)
    BY <1>1, WhoWrites
  <2>2. /\ run[i].step = "queueing" /\ run[i] # Idle /\ run[i] \in Lone /\ run[i] \in Run
        /\ mails' = [mails EXCEPT ![run[i].to] = @ + 1] /\ WorldOK
    <3>1. run[i].step = "queueing" /\ mails' = [mails EXCEPT ![run[i].to] = @ + 1]
      BY <2>1 DEF QueueConfirmation
    <3> QED BY <1>1, <3>1, Now DEF Idle
  <2>3. account = NoAccount => "account.match_needed" \notin marks
    BY <1>1, <2>2 DEF Lone, Confirming, ReleaseInv, MarksHold
  <2>4. ASSUME mails'.payer > mails.payer, faults = 0 PROVE chosen \notin {"record", "person"}
    <3>1. run[i].to = "payer"
      BY <2>2, <2>4 DEF WorldOK, Run
    <3>2. "account.linked_by_client" \notin marks /\ "account.attached" \notin marks
      BY <2>2, <3>1 DEF Lone, ToAccount
    <3>3. \A j \in Invocations : run[j].step \notin {"noting", "attached"}
      <4>1. \A j \in Invocations : j # i => run[j] = Idle
        BY <1>1, <2>2 DEF ReleaseInv, Alone
      <4> QED BY <2>2, <4>1 DEF Idle
    <3> QED BY <1>1, <2>4, <3>2, <3>3 DEF ReleaseInv, ChoiceNoted
  <2> QED BY <2>3, <2>4
<1>2. ReleaseInv /\ [Next]_vars => [Right]_vars
  BY <1>1
<1> QED BY <1>2, ReleaseKeepsInv, PTL DEF Spec, ConfirmsToAccountUnlessFaulted
=============================================================================
