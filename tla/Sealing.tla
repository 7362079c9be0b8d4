------------------------------ MODULE Sealing -------------------------------
(***************************************************************************)
(* The letters of one file: sealing one (sealLetter, and sealOwnDocument   *)
(* for a document of the engineer's own), voiding it (voidSealedLetter),   *)
(* and what a sealed letter sets off (replacementNotice and                *)
(* deliverSealedFile: the file to sealed and delivered, the order settled  *)
(* and completed), in src/lib/letter-seal.ts and                           *)
(* src/lib/own-document-seal.ts, over the register of seal acts (0062,     *)
(* 0089, 0097) and the trigger that ties the file's status to it (0110).   *)
(*                                                                         *)
(* The PDF is stored before its act is recorded, the act before the file   *)
(* moves, the file before the order: each its own request, any of them     *)
(* the last one.  The recording takes no lock: its trigger reads what the  *)
(* new act replaces, and the unique indexes judge the act when it goes in, *)
(* two steps that a voiding may come between.  A fresh code and the draft  *)
(* read before it are spent before the first step here.                    *)
(***************************************************************************)
EXTENDS Naturals, Sequences

CONSTANTS
    Kinds,        \* what the file's determinations conclude
    Invocations,  \* slots for requests being handled
    MaxDets,      \* bound: determinations
    MaxActs,      \* bound: seal acts
    Names,        \* bound: names PDFs are stored under
    MaxFaults     \* bound: stopped invocations and writes abandoned unanswered

ASSUME SealingAssumption ==
    /\ Kinds \subseteq {"pass", "decline", "repairs", "none"}
    /\ MaxDets \in Nat /\ MaxActs \in Nat /\ MaxFaults \in Nat
    /\ Names \subseteq Nat \ {0}

VARIABLES
    file,     \* the file's status; "elsewhere" is any it waits for review in
    dets,     \* the determinations: what each concludes, "none" if no letter's
    acts,     \* eng_seal_acts, in the order they were recorded
    voided,   \* the acts voided, in that order
    pdfs,     \* the names under which a letter is in the bucket
    order,    \* the order's status
    told,     \* the determinations the order was settled for, told "sealed"
    noticed,  \* the reissued acts the customer was told of
    seal,     \* what each invocation is in the middle of
    faults,   \* how many faults there have been
    givenUp,  \* history: the acts whose request had stopped waiting for them
    slipped   \* history: the determinations whose letter was voided while
              \* another of theirs was between its trigger and its indexes

history == <<givenUp, slipped>>
sealVars == <<acts, voided, pdfs, order, told, noticed, seal, faults, history>>
vars == <<file, dets, sealVars>>

Steps == {"idle", "storing", "recording", "inserting", "abandoned", "orphaned",
          "removing", "noticing", "sealing", "delivering", "settling", "completing",
          "voiding"}
Statuses == {"elsewhere", "under_review", "repairs_required", "refused", "sealed",
             "delivered", "cancelled"}
Orders == {"in_fulfilment", "complete", "refunded"}

NoAct == 0
NoPdf == 0
\* The act of a request is the one it replaces until its own is recorded, and
\* then that one, or the one it voids.
Idle == [step |-> "idle", det |-> 0, act |-> NoAct, pdf |-> NoPdf]

SealingInit ==
    /\ acts = <<>>
    /\ voided = <<>>
    /\ pdfs = {}
    /\ order = "in_fulfilment"
    /\ told = <<>>
    /\ noticed = {}
    /\ seal = [i \in Invocations |-> Idle]
    /\ faults = 0
    /\ givenUp = {} /\ slipped = {}

Init ==
    /\ file = "elsewhere"
    /\ dets = <<>>
    /\ SealingInit

IsVoid(a) == \E k \in DOMAIN voided : voided[k] = a
IsLive(a) == a \in DOMAIN acts /\ ~IsVoid(a)
LiveFor(d) == \E a \in DOMAIN acts : acts[a].det = d /\ IsLive(a)
Sealed(d) == \E a \in DOMAIN acts : acts[a].det = d
Settled(d) == \E k \in DOMAIN told : told[k] = d
LiveOnFile == \E a \in DOMAIN acts : IsLive(a)

\* The two decisions whose letter is delivered; a repairs letter waits.
Delivers(d) == dets[d] \in {"pass", "decline"}

Goto(i, step) == seal' = [seal EXCEPT ![i].step = step]
Return(i) == seal' = [seal EXCEPT ![i] = Idle]
Fault == faults < MaxFaults /\ faults' = faults + 1

-----------------------------------------------------------------------------

\* sealLetter up to its first write: a determination of the engineer's own that
\* makes a letter, and no live act of it.  It does not ask where the file is.
BeginSeal(i, d) ==
    /\ seal[i] = Idle
    /\ Len(acts) < MaxActs
    /\ dets[d] # "none" /\ ~LiveFor(d)
    /\ seal' = [seal EXCEPT ![i] = [step |-> "storing", det |-> d, act |-> NoAct, pdf |-> NoPdf]]
    /\ UNCHANGED <<file, dets, acts, voided, pdfs, order, told, noticed, faults, history>>

\* A name stands for a new one (randomUUID) where nothing has it.
Taken == pdfs \cup {acts[a].pdf : a \in DOMAIN acts} \cup {seal[i].pdf : i \in Invocations}

\* MUTANT of StoreLetter: letters of one determination share a name.
StoreByDetermination(i) ==
    /\ seal[i].step = "storing"
    /\ pdfs' = pdfs \cup {seal[i].det}
    /\ seal' = [seal EXCEPT ![i].step = "recording", ![i].pdf = seal[i].det]
    /\ UNCHANGED <<file, dets, acts, voided, order, told, noticed, faults, history>>

\* The rendered letter goes into the bucket under a name of its own.
StoreLetter(i) ==
    /\ seal[i].step = "storing"
    /\ Names \ Taken # {}
    /\ LET name == CHOOSE n \in Names \ Taken : TRUE IN
          /\ pdfs' = pdfs \cup {name}
          /\ seal' = [seal EXCEPT ![i].step = "recording", ![i].pdf = name]
    /\ UNCHANGED <<file, dets, acts, voided, order, told, noticed, faults, history>>

\* MUTANT of Replaceable: any voided letter of the file can be replaced.
ReplaceableOfFile(d) ==
    {k \in DOMAIN voided : \A a \in DOMAIN acts : acts[a].replaces # voided[k]}

\* eng_seal_act_check (0097): the determination's most recently voided act that
\* nothing replaces yet.
Replaceable(d) ==
    {k \in DOMAIN voided : /\ acts[voided[k]].det = d
                           /\ \A a \in DOMAIN acts : acts[a].replaces # voided[k]}

\* MUTANT of ReplacedBy: before 0097, nothing names what is replaced.
ReplacedByNone(d) == NoAct

ReplacedBy(d) ==
    IF Replaceable(d) = {} THEN NoAct
    ELSE voided[CHOOSE k \in Replaceable(d) : \A j \in Replaceable(d) : j <= k]

\* eng_record_letter_seal, as far as the trigger: what the act will say it replaces.
ReadReplaced(i) ==
    /\ seal[i].step = "recording"
    /\ seal' = [seal EXCEPT ![i].step = "inserting", ![i].act = ReplacedBy(seal[i].det)]
    /\ UNCHANGED <<file, dets, acts, voided, pdfs, order, told, noticed, faults, history>>

\* MUTANT of Refused: no index holds one live letter per determination.
RefusedIfReplaced(r) == r.act # NoAct /\ \E a \in DOMAIN acts : acts[a].replaces = r.act

\* eng_seal_acts_one_live_letter and eng_seal_acts_replaced_once refuse an act.
Refused(r) ==
    \/ LiveFor(r.det)
    \/ r.act # NoAct /\ \E a \in DOMAIN acts : acts[a].replaces = r.act

\* The act, with the document, as the trigger left it.
AddAct(r) ==
    /\ Len(acts) < MaxActs
    /\ acts' = Append(acts, [det |-> r.det, replaces |-> r.act, pdf |-> r.pdf])

\* The rest of eng_record_letter_seal: the act goes in, or an index refuses it.
RecordSeal(i) ==
    /\ seal[i].step = "inserting"
    /\ \/ /\ ~Refused(seal[i]) /\ AddAct(seal[i])
          /\ seal' = [seal EXCEPT ![i].step = "noticing", ![i].act = Len(acts) + 1]
       \/ Refused(seal[i]) /\ Goto(i, "removing") /\ UNCHANGED acts
    /\ UNCHANGED <<file, dets, voided, pdfs, order, told, noticed, faults, history>>

\* The 20 second bound gives the call up, an error like any other; the database
\* does not know.
GiveUp(i) ==
    /\ seal[i].step = "inserting"
    /\ Fault
    /\ Goto(i, "abandoned")
    /\ UNCHANGED <<file, dets, acts, voided, pdfs, order, told, noticed, history>>

\* What was given up is recorded or refused all the same, before or after the
\* letter is removed.
RecordAbandoned(i) ==
    /\ seal[i].step \in {"abandoned", "orphaned"}
    /\ \/ ~Refused(seal[i]) /\ AddAct(seal[i]) /\ givenUp' = givenUp \cup {Len(acts) + 1}
       \/ Refused(seal[i]) /\ UNCHANGED <<acts, givenUp>>
    /\ IF seal[i].step = "abandoned" THEN Goto(i, "removing") ELSE Return(i)
    /\ UNCHANGED <<file, dets, voided, pdfs, order, told, noticed, faults, slipped>>

\* On an error the letter is removed again, and "Nothing was sealed" is the answer.
RemoveLetter(i) ==
    /\ seal[i].step \in {"removing", "abandoned"}
    /\ pdfs' = pdfs \ {seal[i].pdf}
    /\ IF seal[i].step = "abandoned" THEN Goto(i, "orphaned") ELSE Return(i)
    /\ UNCHANGED <<file, dets, acts, voided, order, told, noticed, faults, history>>

\* MUTANT of Notice: a reissue is delivered again.
NoticeNothing(i) ==
    /\ seal[i].step = "noticing"
    /\ IF Delivers(seal[i].det) THEN Goto(i, "sealing") ELSE Return(i)
    /\ UNCHANGED <<file, dets, acts, voided, pdfs, order, told, noticed, faults, history>>

\* replacementNotice reads the act back: a reissue is told and ends here, and
\* so does a letter that does not deliver.
Notice(i) ==
    /\ seal[i].step = "noticing"
    /\ IF acts[seal[i].act].replaces # NoAct
       THEN noticed' = noticed \cup {seal[i].act} /\ Return(i)
       ELSE /\ UNCHANGED noticed
            /\ IF Delivers(seal[i].det) THEN Goto(i, "sealing") ELSE Return(i)
    /\ UNCHANGED <<file, dets, acts, voided, pdfs, order, told, faults, history>>

-----------------------------------------------------------------------------

\* transitionFile to sealed or delivered: the grammar's two moves, the trigger
\* of 0110 asking for a live letter on the file.
MayMove(to) ==
    /\ \/ to = "sealed" /\ file \in {"under_review", "refused"}
       \/ to = "delivered" /\ file = "sealed"
    /\ LiveOnFile

\* deliverSealedFile: to sealed; where that is refused, delivered is not tried.
MoveToSealed(i) ==
    /\ seal[i].step = "sealing"
    /\ IF MayMove("sealed")
       THEN file' = "sealed" /\ Goto(i, "delivering")
       ELSE UNCHANGED file /\ Goto(i, "settling")
    /\ UNCHANGED <<dets, acts, voided, pdfs, order, told, noticed, faults, history>>

\* Then to delivered.
MoveToDelivered(i) ==
    /\ seal[i].step = "delivering"
    /\ file' = IF MayMove("delivered") THEN "delivered" ELSE file
    /\ Goto(i, "settling")
    /\ UNCHANGED <<dets, acts, voided, pdfs, order, told, noticed, faults, history>>

\* MUTANT of Settle: an order is settled only if its file was delivered.
SettleDelivered(i) ==
    /\ seal[i].step = "settling"
    /\ IF file = "delivered" THEN told' = Append(told, seal[i].det) /\ Goto(i, "completing")
       ELSE UNCHANGED told /\ Return(i)
    /\ UNCHANGED <<file, dets, acts, voided, pdfs, order, noticed, faults, history>>

\* settleDecision("seal"): nothing is refunded and the customer is told,
\* whatever became of the two moves.
Settle(i) ==
    /\ seal[i].step = "settling"
    /\ told' = Append(told, seal[i].det)
    /\ Goto(i, "completing")
    /\ UNCHANGED <<file, dets, acts, voided, pdfs, order, noticed, faults, history>>

\* An order in fulfilment is complete.
Complete(i) ==
    /\ seal[i].step = "completing"
    /\ order' = IF order = "in_fulfilment" THEN "complete" ELSE order
    /\ Return(i)
    /\ UNCHANGED <<file, dets, acts, voided, pdfs, told, noticed, faults, history>>

-----------------------------------------------------------------------------

\* voidSealedLetter: a live act is read, then voided by the database's function.
BeginVoid(i, a) ==
    /\ seal[i] = Idle
    /\ IsLive(a)
    /\ seal' = [seal EXCEPT ![i] = [step |-> "voiding", det |-> 0, act |-> a, pdf |-> NoPdf]]
    /\ UNCHANGED <<file, dets, acts, voided, pdfs, order, told, noticed, faults, history>>

\* Whether an act of the determination has been through its trigger and not yet
\* through its indexes.
Inserting(d) ==
    \E i \in Invocations :
       seal[i].step \in {"inserting", "abandoned", "orphaned"} /\ seal[i].det = d

\* eng_void_seal_act: only of an act that still stands.
VoidSeal(i) ==
    LET a == seal[i].act IN
    /\ seal[i].step = "voiding"
    /\ IF IsLive(a)
       THEN /\ voided' = Append(voided, a)
            /\ slipped' = IF Inserting(acts[a].det) THEN slipped \cup {acts[a].det} ELSE slipped
       ELSE UNCHANGED <<voided, slipped>>
    /\ Return(i)
    /\ UNCHANGED <<file, dets, acts, pdfs, order, told, noticed, faults, givenUp>>

\* A process stops, and nothing after it is done; a removal that fails, or an act
\* that cannot be read back for its notice, ends its request the same way.
Stop(i) ==
    /\ seal[i] # Idle
    /\ Fault
    /\ Return(i)
    /\ UNCHANGED <<file, dets, acts, voided, pdfs, order, told, noticed, history>>

-----------------------------------------------------------------------------

\* A decision records a determination and moves the file (module Review); one
\* that makes no letter is anything from a site visit to a refusal.
Decide(kind) ==
    /\ file = "under_review"
    /\ Len(dets) < MaxDets
    /\ dets' = Append(dets, kind)
    /\ file' \in CASE kind = "pass" -> {"under_review"}
                   [] kind = "decline" -> {"refused"}
                   [] kind = "repairs" -> {"repairs_required"}
                   [] kind = "none" -> {"elsewhere", "refused"}
    /\ UNCHANGED sealVars

\* The moves of the grammar that are no decision and no letter: out of review and
\* into it, a repair list answered, and the file closed or called off, which
\* "cancelled" stands for.
Wander ==
    /\ \/ file = "elsewhere" /\ file' = "under_review"
       \/ file \in {"under_review", "repairs_required"} /\ file' = "elsewhere"
       \/ file # "cancelled" /\ file' = "cancelled"
    /\ UNCHANGED <<dets, sealVars>>

\* The order's money is given back: by a person (cancelAndRefund) or for a refusal
\* (module FileOutcome), wherever the letters are.
GiveBack ==
    /\ order # "refunded"
    /\ order' = "refunded"
    /\ UNCHANGED <<file, dets, acts, voided, pdfs, told, noticed, seal, faults, history>>

\* By hand on the Files screen, by an engineer.
MoveByHand(to) ==
    /\ MayMove(to)
    /\ file' = to
    /\ UNCHANGED <<dets, sealVars>>

SealSteps(i) ==
    \/ StoreLetter(i) \/ ReadReplaced(i) \/ RecordSeal(i) \/ RecordAbandoned(i)
    \/ RemoveLetter(i) \/ Notice(i) \/ MoveToSealed(i) \/ MoveToDelivered(i)
    \/ Settle(i) \/ Complete(i) \/ VoidSeal(i)

SealingNext ==
    \/ \E i \in Invocations :
          \/ \E d \in DOMAIN dets : BeginSeal(i, d)
          \/ \E a \in DOMAIN acts : BeginVoid(i, a)
          \/ SealSteps(i) \/ GiveUp(i) \/ Stop(i)
    \/ \E to \in {"sealed", "delivered"} : MoveByHand(to)

Next == SealingNext \/ (\E kind \in Kinds : Decide(kind)) \/ Wander \/ GiveBack
Spec == Init /\ [][Next]_vars

\* A handler goes on unless its process stops.
FairSpec == Spec /\ \A i \in Invocations : WF_vars(SealSteps(i))

-----------------------------------------------------------------------------

\* The register the acts are: what each names, and whether it stands.
RegisterOf == [a \in DOMAIN acts |-> [det |-> acts[a].det, live |-> ~IsVoid(a),
                                      replaces |-> acts[a].replaces]]
Register == INSTANCE SealRegister WITH Determinations <- 1..MaxDets, register <- RegisterOf

\* Sealing, as requests that overlap, stop and go unanswered, is a register that
\* keeps its promise: one live letter, each replacing the one before it but where
\* a voiding slipped in.
KeepsRegister == Register!Spec

SealStep == [step : Steps, det : Nat, act : Nat, pdf : Nat]
OfTheFile(s) ==
    /\ \/ s.det \in DOMAIN dets
       \/ s.det = 0 /\ s.step \in {"idle", "voiding"}
    /\ \/ s.act \in DOMAIN acts
       \/ s.act = NoAct /\ s.step \in {"idle", "storing", "recording", "inserting",
                                       "abandoned", "orphaned", "removing"}

\* Every variable has its type.
SealingTypeOK ==
    /\ file \in Statuses
    /\ dets \in Seq(Kinds)
    /\ acts \in Seq([det : Nat, replaces : Nat, pdf : Nat])
    /\ \A a \in DOMAIN acts : acts[a].det \in DOMAIN dets /\ acts[a].replaces \in 0..(a - 1)
    /\ voided \in Seq(Nat)
    /\ \A k \in DOMAIN voided : voided[k] \in DOMAIN acts
    /\ pdfs \subseteq Names
    /\ order \in Orders
    /\ told \in Seq(Nat)
    /\ noticed \subseteq DOMAIN acts
    /\ seal \in [Invocations -> SealStep]
    /\ \A i \in Invocations : OfTheFile(seal[i])
    /\ faults \in Nat
    /\ givenUp \subseteq DOMAIN acts
    /\ slipped \subseteq DOMAIN dets

\* letter-seal.ts, 8a: "the order is not settled a second time: it was settled with
\* the first letter", and never for a determination without a letter that delivers.
\* A letter voided while another is being recorded breaks it.
SettledOnce ==
    /\ \A j, k \in DOMAIN told : told[j] = told[k] => j = k
    /\ \A k \in DOMAIN told : Delivers(told[k]) /\ Sealed(told[k])

\* So it is of a determination none of whose letters was, however often it is voided
\* and sealed again, in how many requests at once, and wherever they stop.
SettledOnceUnlessSlipped ==
    /\ \A j, k \in DOMAIN told : told[j] = told[k] /\ told[j] \notin slipped => j = k
    /\ \A k \in DOMAIN told : Delivers(told[k]) /\ Sealed(told[k])

\* A first letter that delivers settles the order, where nothing stops it on
\* the way, even if the file could not be moved.
SealedIsSettledUnlessStopped ==
    \A d \in 1..MaxDets :
       (\E i \in Invocations : seal[i].step = "sealing" /\ seal[i].det = d)
          ~> (faults > 0 \/ (Settled(d) /\ order # "in_fulfilment"))

\* letter-seal.ts, 8a: a reissue is told and not settled, because the order "was
\* settled with the first letter", or is being.  A stop breaks it.
ReissueWasSettled ==
    \A a \in noticed : Delivers(acts[a].det) =>
       \/ Settled(acts[a].det)
       \/ \E i \in Invocations : /\ seal[i].det = acts[a].det
                                 /\ seal[i].step \in {"noticing", "sealing", "delivering", "settling"}

\* So it is unless a request stopped or was abandoned: no customer of a letter
\* that delivers is only ever told of its replacement.
ReissueWasSettledUnlessStopped == faults = 0 => ReissueWasSettled

\* letter-seal.ts, 8: what answers an error sealed nothing; a letter that stands
\* is in the bucket.  A request given up before it committed breaks it.
LiveLetterIsStored == \A a \in DOMAIN acts : IsLive(a) => acts[a].pdf \in pdfs

\* The bucket and the register agree, whoever else seals the same determination and
\* is refused: a letter that stands is in the bucket unless its own request gave it
\* up, and, unless some request stopped, no PDF is left there that no act names.
BucketAndRegisterAgree ==
    /\ \A a \in DOMAIN acts : IsLive(a) /\ a \notin givenUp => acts[a].pdf \in pdfs
    /\ faults = 0 => \A name \in pdfs :
          \/ \E a \in DOMAIN acts : acts[a].pdf = name
          \/ \E i \in Invocations : seal[i].pdf = name

\* 0110: a file is sealed by sealing its letter, never by moving its status.
SealedByItsLetter ==
    [][file' = "sealed" /\ file # "sealed" =>
          \E a \in DOMAIN acts : IsLive(a) /\ Delivers(acts[a].det)]_vars

=============================================================================
