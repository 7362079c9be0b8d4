------------------------- MODULE FileOutcomeProofs -------------------------
(***************************************************************************)
(* What holds of the review of a file for any number of engineers,         *)
(* requests, sessions, decisions and faults: types, that the review clock  *)
(* and the regulatory log tell one story, and that a review is paid once.  *)
(* And of the review together with the letters and the job of a refusal:   *)
(* that these are Sealing's letters, that a refusal is refunded once, and  *)
(* that a file has one outcome where nothing crossed a letter awaited.     *)
(***************************************************************************)
EXTENDS FileOutcome, FiniteSetTheorems, SequenceTheorems, TLAPS

\* eng_review_sessions_one_open (0004): an engineer has one session open.
OneOpen ==
    \A s, t \in DOMAIN sessions :
       ~sessions[s].ended /\ ~sessions[t].ended /\ sessions[s].engineer = sessions[t].engineer
          => s = t

\* A request decides as somebody, about a session of that engineer's own, and
\* one that opens a session opens its own engineer's.
OwnSessions ==
    \A i \in Invocations :
       /\ inv[i].step \in {"moving", "assigning", "opening", "guarding", "recording"}
             => inv[i].engineer \in Engineers
       /\ inv[i].step \in {"guarding", "recording"} => inv[i].action \in Actions
       /\ inv[i].session # NoSession => sessions[inv[i].session].engineer = inv[i].engineer

\* What was listed as uncredited had been decided, and still is.
ListedEnded == \A i \in Invocations : \A s \in inv[i].list : sessions[s].ended

ReviewInv ==
    ReviewTypeOK /\ OneOpen /\ OwnSessions /\ ListedEnded /\ SessionAndLogAgree /\ CreditedOnce

LEMMA InitReview == Init => ReviewInv
<1> SUFFICES ASSUME Init PROVE ReviewInv
  OBVIOUS
<1> USE DEF Init, ReviewInit, IdleInv
<1>1. ReviewTypeOK
  BY ReviewAssumption
  DEF ReviewTypeOK, Statuses, Invocation, SessionRow, Decision, Steps, NoSession
<1>2. OneOpen /\ OwnSessions /\ ListedEnded /\ SessionAndLogAgree /\ CreditedOnce
  BY DEF OneOpen, OwnSessions, ListedEnded, SessionAndLogAgree, CreditedOnce
<1> QED BY <1>1, <1>2 DEF ReviewInv

-----------------------------------------------------------------------------

\* What a request finds to be its engineer's session is one that is open.
LEMMA SessionIsOpen ==
  ASSUME ReviewTypeOK, OneOpen, NEW e \in Engineers, SessionOf(e) # NoSession
  PROVE  SessionOf(e) \in Open(e)
<1>1. PICK s \in Open(e) : TRUE
  BY DEF SessionOf
<1>2. \A t \in Open(e) : t = s /\ t \in Nat
  BY <1>1 DEF Open, OneOpen, ReviewTypeOK
<1>3. (CHOOSE u \in Open(e) : \A t \in Open(e) : u <= t) \in Open(e)
  BY <1>1, <1>2
<1> QED BY <1>1, <1>3 DEF SessionOf

\* A request that goes on about a session of its own, or comes to rest, keeps
\* what is said of requests.
LEMMA RequestsKeep ==
  ASSUME ReviewInv, NEW i \in Invocations, NEW r \in Invocation,
         inv' = [inv EXCEPT ![i] = r], UNCHANGED <<sessions, decided, ledger>>,
         file' \in Statuses, assignee' \in Engineers \cup {Nobody},
         sealed' \subseteq DOMAIN decided, faults' \in Nat,
         r.session \in DOMAIN sessions \cup {NoSession}, r.list \subseteq DOMAIN sessions,
         r.step \in {"moving", "assigning", "opening", "guarding", "recording"}
            => r.engineer \in Engineers,
         r.step \in {"guarding", "recording"} => r.action \in Actions,
         r.session # NoSession => sessions[r.session].engineer = r.engineer,
         \A s \in r.list : sessions[s].ended
  PROVE  ReviewInv'
<1>0. inv \in [Invocations -> Invocation]
  BY DEF ReviewInv, ReviewTypeOK
<1>1. /\ inv' \in [Invocations -> Invocation] /\ inv'[i] = r
      /\ \A j \in Invocations \ {i} : inv'[j] = inv[j]
  BY <1>0
<1>2. ReviewTypeOK'
  BY <1>1 DEF ReviewInv, ReviewTypeOK
<1>3. OwnSessions' /\ ListedEnded'
  BY <1>1 DEF ReviewInv, OwnSessions, ListedEnded
<1>4. OneOpen' /\ SessionAndLogAgree' /\ CreditedOnce'
  BY DEF ReviewInv, OneOpen, SessionAndLogAgree, CreditedOnce
<1> QED BY <1>2, <1>3, <1>4 DEF ReviewInv

\* One that comes to rest keeps it too, where a session changes only by ending.
LEMMA OthersKeep ==
  ASSUME ReviewInv, NEW i \in Invocations,
         inv'[i] = IdleInv, \A j \in Invocations \ {i} : inv'[j] = inv[j],
         \A s \in DOMAIN sessions : /\ sessions'[s].engineer = sessions[s].engineer
                                    /\ sessions[s].ended => sessions'[s].ended
  PROVE  OwnSessions' /\ ListedEnded'
<1>1. /\ IdleInv.session = NoSession /\ IdleInv.list = {} /\ IdleInv.step = "idle"
  BY DEF IdleInv
<1>2. ASSUME NEW j \in Invocations \ {i}
      PROVE  /\ inv[j].session \in DOMAIN sessions \cup {NoSession}
             /\ inv[j].list \subseteq DOMAIN sessions
             /\ \A s \in inv[j].list : sessions[s].ended
             /\ inv[j].session # NoSession => sessions[inv[j].session].engineer = inv[j].engineer
  BY DEF ReviewInv, ReviewTypeOK, OwnSessions, ListedEnded
<1>3. OwnSessions'
  BY <1>1, <1>2 DEF ReviewInv, OwnSessions
<1>4. ListedEnded'
  BY <1>1, <1>2 DEF ListedEnded
<1> QED BY <1>3, <1>4

\* A new session is of an engineer who has none open.
LEMMA OpenKeeps ==
  ASSUME ReviewInv, NEW i \in Invocations, OpenSession(i)
  PROVE  ReviewInv'
<1> DEFINE e == inv[i].engineer
           row == [engineer |-> e, ended |-> FALSE, decision |-> NoAction]
<1>0. /\ inv \in [Invocations -> Invocation] /\ e \in Engineers
      /\ sessions \in Seq(SessionRow) /\ DOMAIN sessions = 1..Len(sessions) /\ Len(sessions) \in Nat
  BY DEF OpenSession, ReviewInv, ReviewTypeOK, OwnSessions
<1>1. /\ inv' = [inv EXCEPT ![i] = IdleInv] /\ IdleInv \in Invocation
      /\ UNCHANGED <<file, decided, sealed, assignee, ledger, faults>>
  BY DEF OpenSession, Return, IdleInv, Invocation, Steps, NoSession
<1>2. CASE UNCHANGED sessions
  BY <1>1, <1>2, RequestsKeep DEF ReviewInv, ReviewTypeOK, IdleInv, NoSession
<1>3. CASE Open(e) = {} /\ sessions' = Append(sessions, row)
  <2> DEFINE n == Len(sessions) + 1
  <2>1. row \in SessionRow
    BY <1>0 DEF SessionRow
  <2>2. /\ sessions' \in Seq(SessionRow) /\ DOMAIN sessions' = 1..n
        /\ sessions'[n] = row /\ \A s \in DOMAIN sessions : sessions'[s] = sessions[s]
    BY <1>0, <1>3, <2>1
  <2>3. /\ DOMAIN sessions' = DOMAIN sessions \cup {n} /\ n \notin DOMAIN sessions /\ n # NoSession
        /\ n \in Nat
    BY <1>0, <2>2 DEF NoSession
  <2>4. sessions'[n].engineer = e /\ ~sessions'[n].ended /\ sessions'[n].decision = NoAction
    BY <2>2
  <2> HIDE DEF n, row
  <2>5. /\ inv' \in [Invocations -> Invocation] /\ inv'[i] = IdleInv
        /\ \A j \in Invocations \ {i} : inv'[j] = inv[j]
    BY <1>0, <1>1
  <2>6. ReviewTypeOK'
    BY <1>1, <2>2, <2>3, <2>5 DEF ReviewInv, ReviewTypeOK, IdleInv, NoSession
  <2>7. OneOpen'
    BY <1>3, <2>2, <2>3, <2>4 DEF ReviewInv, OneOpen, Open
  <2>8. OwnSessions' /\ ListedEnded'
    BY <2>2, <2>5, OthersKeep DEF IdleInv
  <2>9. SessionAndLogAgree'
    <3>1. \A d \in DOMAIN decided : decided[d].session # n
      BY <2>3 DEF ReviewInv, ReviewTypeOK
    <3>2. ASSUME NEW s \in DOMAIN sessions
          PROVE  LET rows == {d \in DOMAIN decided' : decided'[d].session = s} IN
                 IF sessions'[s].ended
                 THEN \E d \in rows : /\ rows = {d}
                                      /\ decided'[d].action = sessions'[s].decision
                                      /\ decided'[d].engineer = sessions'[s].engineer
                 ELSE rows = {} /\ sessions'[s].decision = NoAction
      BY <1>1, <2>2 DEF ReviewInv, SessionAndLogAgree
    <3> QED BY <1>1, <2>3, <2>4, <3>1, <3>2 DEF SessionAndLogAgree
  <2>10. CreditedOnce'
    BY <1>1, <2>2 DEF ReviewInv, ReviewTypeOK, CreditedOnce
  <2> QED BY <2>6, <2>7, <2>8, <2>9, <2>10 DEF ReviewInv
<1> QED BY <1>2, <1>3 DEF OpenSession

\* A credit added to the ledger: the first of a session that has ended.
LEMMA CreditKeeps ==
  ASSUME ReviewInv, NEW k \in DOMAIN sessions, k \in Nat, ~Credited(k),
         ledger' = Append(ledger, k), sessions'[k].ended,
         \A s \in DOMAIN sessions : sessions[s].ended => sessions'[s].ended
  PROVE  /\ ledger' \in Seq(Nat) /\ CreditedOnce'
         /\ \A j \in DOMAIN ledger' : ledger'[j] \in DOMAIN sessions
<1> DEFINE n == Len(ledger) + 1
<1>1. /\ ledger \in Seq(Nat) /\ DOMAIN ledger = 1..Len(ledger) /\ Len(ledger) \in Nat
      /\ \A j \in DOMAIN ledger : ledger[j] \in DOMAIN sessions
  BY DEF ReviewInv, ReviewTypeOK
<1>2. /\ ledger' \in Seq(Nat) /\ DOMAIN ledger' = 1..n
      /\ ledger'[n] = k /\ \A j \in DOMAIN ledger : ledger'[j] = ledger[j]
  BY <1>1
<1>3. DOMAIN ledger' = DOMAIN ledger \cup {n}
  BY <1>1, <1>2
<1> HIDE DEF n
<1>4. CreditedOnce'
  BY <1>1, <1>2, <1>3 DEF ReviewInv, CreditedOnce, Credited
<1> QED BY <1>1, <1>2, <1>3, <1>4

\* A decision ends the session it was taken in, which was open and in no row of
\* the log, and a credit with it is that session's first.
LEMMA DecisionKeeps ==
  ASSUME ReviewInv, NEW i \in Invocations, RecordDecision(i)
  PROVE  ReviewInv'
<1> DEFINE e == inv[i].engineer
           a == inv[i].action
           k == inv[i].session
           row == [action |-> a, engineer |-> e, session |-> k]
<1>0. /\ inv \in [Invocations -> Invocation] /\ e \in Engineers /\ a \in Actions
      /\ sessions \in Seq(SessionRow) /\ DOMAIN sessions = 1..Len(sessions) /\ Len(sessions) \in Nat
      /\ decided \in Seq(Decision) /\ DOMAIN decided = 1..Len(decided) /\ Len(decided) \in Nat
      /\ ledger \in Seq(Nat) /\ DOMAIN ledger = 1..Len(ledger) /\ Len(ledger) \in Nat
      /\ k \in DOMAIN sessions \cup {NoSession} /\ k \in Nat
      /\ k # NoSession => sessions[k].engineer = e
  BY DEF RecordDecision, ReviewInv, ReviewTypeOK, OwnSessions, NoSession
<1>1. /\ inv' = [inv EXCEPT ![i] = IdleInv] /\ IdleInv \in Invocation
      /\ UNCHANGED <<sealed, assignee, faults>>
  BY DEF RecordDecision, Return, IdleInv, Invocation, Steps, NoSession
<1>2. /\ inv' \in [Invocations -> Invocation] /\ inv'[i] = IdleInv
      /\ \A j \in Invocations \ {i} : inv'[j] = inv[j]
  BY <1>0, <1>1
<1>3. CASE UNCHANGED <<file, decided, sessions, ledger>>
  BY <1>1, <1>3, RequestsKeep DEF ReviewInv, ReviewTypeOK, IdleInv, NoSession
<1>4. ASSUME NEW paid \in BOOLEAN, Write(i, paid), k # NoSession => ~Logged(k)
      PROVE  ReviewInv'
  <2> DEFINE n == Len(decided) + 1
  <2>1. row \in Decision /\ decided' = Append(decided, row)
    BY <1>0, <1>4 DEF Decision, Write
  <2>2. /\ decided' \in Seq(Decision) /\ DOMAIN decided' = 1..n
        /\ decided'[n] = row /\ \A d \in DOMAIN decided : decided'[d] = decided[d]
    BY <1>0, <2>1
  <2>3. /\ DOMAIN decided' = DOMAIN decided \cup {n} /\ n \notin DOMAIN decided
    BY <1>0, <2>2
  <2>4. decided'[n].action = a /\ decided'[n].engineer = e /\ decided'[n].session = k
    BY <2>2
  <2> HIDE DEF n, row
  <2>5. file' \in Statuses
    BY <1>0, <1>4, ReviewAssumption DEF Write, Target, Statuses
  <2>6. k # NoSession => ~sessions[k].ended /\ ~Credited(k)
    <3> SUFFICES ASSUME k # NoSession PROVE ~sessions[k].ended /\ ~Credited(k)
      OBVIOUS
    <3>1. {d \in DOMAIN decided : decided[d].session = k} = {}
      BY <1>4 DEF Logged
    <3>2. ~sessions[k].ended
      <4> HIDE DEF k
      <4> QED BY <1>0, <3>1 DEF ReviewInv, SessionAndLogAgree
    <3> QED BY <3>2 DEF ReviewInv, CreditedOnce, Credited
  <2>7. /\ sessions' \in Seq(SessionRow) /\ DOMAIN sessions' = DOMAIN sessions
        /\ \A s \in DOMAIN sessions : s # k => sessions'[s] = sessions[s]
        /\ k # NoSession => /\ sessions'[k].engineer = e /\ sessions'[k].ended
                            /\ sessions'[k].decision = a
    <3>1. CASE k = NoSession
      BY <1>0, <1>4, <3>1 DEF Write
    <3>2. CASE k # NoSession
      <4> DEFINE new == [sessions[k] EXCEPT !.ended = TRUE, !.decision = a]
      <4>1. k \in DOMAIN sessions /\ sessions' = [sessions EXCEPT ![k] = new]
        BY <1>0, <1>4, <3>2 DEF Write
      <4>0. sessions[k] \in SessionRow /\ sessions[k].engineer = e
        BY <1>0, <3>2, <4>1
      <4>2. new \in SessionRow /\ new.engineer = e /\ new.ended /\ new.decision = a
        BY <1>0, <4>0 DEF SessionRow
      <4> HIDE DEF new
      <4>3. sessions' \in Seq(SessionRow) /\ DOMAIN sessions' = DOMAIN sessions
        BY <1>0, <4>1, <4>2
      <4> QED BY <4>1, <4>2, <4>3
    <3> QED BY <3>1, <3>2
  <2>8. \A s \in DOMAIN sessions : /\ sessions'[s].engineer = sessions[s].engineer
                                   /\ sessions[s].ended => sessions'[s].ended
    <3> SUFFICES ASSUME NEW s \in DOMAIN sessions
                 PROVE  /\ sessions'[s].engineer = sessions[s].engineer
                        /\ sessions[s].ended => sessions'[s].ended
      OBVIOUS
    <3>1. CASE s = k
      <4>1. k # NoSession
        BY <1>0, <3>1 DEF NoSession
      <4> HIDE DEF k, e, a
      <4> QED BY <1>0, <2>7, <3>1, <4>1
    <3>2. CASE s # k
      BY <2>7, <3>2
    <3> QED BY <3>1, <3>2
  <2>9. \/ UNCHANGED ledger
        \/ k # NoSession /\ ledger' = Append(ledger, k)
    BY <1>4 DEF Write
  <2>10. ledger' \in Seq(Nat) /\ CreditedOnce' /\ \A j \in DOMAIN ledger' : ledger'[j] \in DOMAIN sessions
    <3>1. CASE UNCHANGED ledger
      BY <1>0, <2>8, <3>1 DEF ReviewInv, ReviewTypeOK, CreditedOnce
    <3>2. CASE k # NoSession /\ ledger' = Append(ledger, k)
      BY <1>0, <2>6, <2>7, <2>8, <3>2, CreditKeeps
    <3> QED BY <2>9, <3>1, <3>2
  <2>11. SessionAndLogAgree'
    <3> SUFFICES ASSUME NEW s \in DOMAIN sessions
                 PROVE  LET rows == {d \in DOMAIN decided' : decided'[d].session = s} IN
                        IF sessions'[s].ended
                        THEN \E d \in rows : /\ rows = {d}
                                             /\ decided'[d].action = sessions'[s].decision
                                             /\ decided'[d].engineer = sessions'[s].engineer
                        ELSE rows = {} /\ sessions'[s].decision = NoAction
      BY <2>7 DEF SessionAndLogAgree
    <3> DEFINE old == {d \in DOMAIN decided : decided[d].session = s}
               rows == {d \in DOMAIN decided' : decided'[d].session = s}
    <3>1. CASE s = k
      <4>1. old = {} /\ k # NoSession
        BY <1>0, <1>4, <3>1 DEF Logged, NoSession
      <4>2. rows = {n}
        BY <2>2, <2>3, <2>4, <3>1, <4>1
      <4>3. /\ sessions'[s].ended /\ decided'[n].action = sessions'[s].decision
            /\ decided'[n].engineer = sessions'[s].engineer
        <5>1. /\ sessions'[k].engineer = e /\ sessions'[k].ended /\ sessions'[k].decision = a
          BY <2>7, <4>1
        <5> HIDE DEF k, e, a
        <5> QED BY <2>4, <3>1, <5>1
      <4> QED BY <4>2, <4>3
    <3>2. CASE s # k
      <4>1. rows = old
        BY <2>2, <2>3, <2>4, <3>2
      <4>2. sessions'[s] = sessions[s]
        BY <2>7, <3>2
      <4>3. IF sessions[s].ended
            THEN \E d \in old : /\ old = {d}
                                /\ decided[d].action = sessions[s].decision
                                /\ decided[d].engineer = sessions[s].engineer
            ELSE old = {} /\ sessions[s].decision = NoAction
        BY DEF ReviewInv, SessionAndLogAgree
      <4> QED BY <2>2, <4>1, <4>2, <4>3
    <3> QED BY <3>1, <3>2
  <2>12. OneOpen'
    BY <1>0, <2>7, <2>8 DEF ReviewInv, OneOpen, NoSession
  <2>13. OwnSessions' /\ ListedEnded'
    BY <1>2, <2>8, OthersKeep
  <2>14. ReviewTypeOK'
    <3>1. \A d \in DOMAIN decided' : decided'[d].session \in DOMAIN sessions \cup {NoSession}
      BY <1>0, <2>2, <2>3, <2>4 DEF ReviewInv, ReviewTypeOK
    <3>2. sealed' \subseteq DOMAIN decided'
      BY <1>1, <2>3 DEF ReviewInv, ReviewTypeOK
    <3> QED BY <1>1, <1>2, <2>2, <2>5, <2>7, <2>10, <3>1, <3>2
            DEF ReviewInv, ReviewTypeOK, IdleInv, NoSession
  <2> QED BY <2>10, <2>11, <2>12, <2>13, <2>14 DEF ReviewInv
<1> QED BY <1>3, <1>4 DEF RecordDecision

-----------------------------------------------------------------------------

\* A credit given late is of a review that was decided, and its first.
LEMMA LateCreditKeeps ==
  ASSUME ReviewInv, NEW i \in Invocations, CreditOne(i)
  PROVE  ReviewInv'
<1>0. /\ inv \in [Invocations -> Invocation]
      /\ ledger \in Seq(Nat) /\ sessions \in Seq(SessionRow)
      /\ UNCHANGED <<file, decided, sealed, assignee, sessions, faults>>
  BY DEF CreditOne, ReviewInv, ReviewTypeOK
<1>1. PICK s \in inv[i].list :
         /\ ledger' = IF Credited(s) THEN ledger ELSE Append(ledger, s)
         /\ IF inv[i].list = {s} THEN Return(i)
            ELSE inv' = [inv EXCEPT ![i].list = @ \ {s}]
  BY DEF CreditOne
<1>2. s \in DOMAIN sessions /\ s \in Nat /\ sessions[s].ended
  BY DEF ReviewInv, ReviewTypeOK, ListedEnded
<1>3. /\ ledger' \in Seq(Nat) /\ CreditedOnce'
      /\ \A j \in DOMAIN ledger' : ledger'[j] \in DOMAIN sessions
  <2>1. CASE Credited(s)
    BY <1>0, <1>1, <2>1 DEF ReviewInv, ReviewTypeOK, CreditedOnce
  <2>2. CASE ~Credited(s)
    BY <1>0, <1>1, <1>2, <2>2, CreditKeeps
  <2> QED BY <2>1, <2>2
<1>4. \E r \in Invocation :
         /\ inv' = [inv EXCEPT ![i] = r]
         /\ \/ /\ r.session = inv[i].session /\ r.engineer = inv[i].engineer
               /\ r.step = "crediting" /\ r.list \subseteq inv[i].list
            \/ r = IdleInv
  <2>1. CASE inv[i].list = {s}
    BY <1>1, <2>1 DEF Return, IdleInv, Invocation, Steps, NoSession
  <2>2. CASE inv[i].list # {s}
    <3> DEFINE r == [inv[i] EXCEPT !.list = @ \ {s}]
    <3>1. inv' = [inv EXCEPT ![i] = r]
      BY <1>1, <2>2
    <3>2. r \in Invocation /\ r.session = inv[i].session /\ r.engineer = inv[i].engineer
          /\ r.step = "crediting" /\ r.list \subseteq inv[i].list
      BY <1>0 DEF CreditOne, Invocation
    <3> QED BY <3>1, <3>2
  <2> QED BY <2>1, <2>2
<1>5. PICK r \in Invocation :
         /\ inv' = [inv EXCEPT ![i] = r]
         /\ \/ /\ r.session = inv[i].session /\ r.engineer = inv[i].engineer
               /\ r.step = "crediting" /\ r.list \subseteq inv[i].list
            \/ r = IdleInv
  BY <1>4
<1>6. /\ r.session \in DOMAIN sessions \cup {NoSession} /\ r.list \subseteq DOMAIN sessions
      /\ r.session # NoSession => sessions[r.session].engineer = r.engineer
      /\ \A t \in r.list : sessions[t].ended
      /\ r.step \in {"idle", "crediting"}
  BY <1>5 DEF ReviewInv, ReviewTypeOK, OwnSessions, ListedEnded, IdleInv, NoSession
<1>7. /\ inv' \in [Invocations -> Invocation] /\ inv'[i] = r
      /\ \A j \in Invocations \ {i} : inv'[j] = inv[j]
  BY <1>0, <1>5
<1>8. ReviewTypeOK'
  BY <1>0, <1>3, <1>6, <1>7 DEF ReviewInv, ReviewTypeOK
<1>9. OwnSessions' /\ ListedEnded'
  BY <1>0, <1>6, <1>7 DEF ReviewInv, OwnSessions, ListedEnded
<1>10. OneOpen' /\ SessionAndLogAgree'
  BY <1>0 DEF ReviewInv, OneOpen, SessionAndLogAgree
<1> QED BY <1>3, <1>8, <1>9, <1>10 DEF ReviewInv

\* Every step keeps the invariant.
LEMMA StepReview == ReviewInv /\ [Next]_vars => ReviewInv'
<1> SUFFICES ASSUME ReviewInv, [Next]_vars PROVE ReviewInv'
  OBVIOUS
<1>0. /\ inv \in [Invocations -> Invocation] /\ file \in Statuses
      /\ assignee \in Engineers \cup {Nobody} /\ sealed \subseteq DOMAIN decided /\ faults \in Nat
      /\ IdleInv \in Invocation
  BY DEF ReviewInv, ReviewTypeOK, IdleInv, Invocation, Steps, NoSession
<1>1. ASSUME UNCHANGED <<inv, decided, sessions, ledger, assignee, faults>>,
             file' \in Statuses, sealed' \subseteq DOMAIN decided
      PROVE  ReviewInv'
  BY <1>1 DEF ReviewInv, ReviewTypeOK, OneOpen, OwnSessions, ListedEnded, SessionAndLogAgree,
              CreditedOnce
<1>2. ASSUME NEW i \in Invocations, NEW e \in Engineers, BeginOpen(i, e) PROVE ReviewInv'
  <2> DEFINE r == [IdleInv EXCEPT !.engineer = e,
                     !.step = IF file = "under_review" THEN "opening" ELSE "moving"]
  <2>1. r \in Invocation /\ inv' = [inv EXCEPT ![i] = r]
    BY <1>0, <1>2 DEF BeginOpen, Invocation, IdleInv, Steps
  <2>2. r.session = NoSession /\ r.list = {} /\ r.engineer = e /\ r.step \in {"opening", "moving"}
    BY DEF IdleInv
  <2> HIDE DEF r
  <2>3. /\ UNCHANGED <<sessions, decided, ledger>> /\ file' \in Statuses
        /\ assignee' \in Engineers \cup {Nobody} /\ sealed' \subseteq DOMAIN decided /\ faults' \in Nat
    BY <1>2 DEF BeginOpen, ReviewInv, ReviewTypeOK
  <2> QED BY <1>2, <2>1, <2>2, <2>3, RequestsKeep
<1>3. ASSUME NEW i \in Invocations, NEW e \in Engineers, NEW action \in Actions,
             BeginDecide(i, e, action)
      PROVE  ReviewInv'
  <2> DEFINE r == [step |-> "guarding", engineer |-> e, action |-> action,
                   session |-> SessionOf(e), list |-> {}]
  <2>1. SessionOf(e) # NoSession => SessionOf(e) \in DOMAIN sessions /\ sessions[SessionOf(e)].engineer = e
    BY SessionIsOpen DEF ReviewInv, Open
  <2>2. r \in Invocation /\ inv' = [inv EXCEPT ![i] = r]
    BY <1>3, <2>1 DEF BeginDecide, Invocation, Steps, NoSession, ReviewInv, ReviewTypeOK
  <2>3. /\ r.session = SessionOf(e) /\ r.list = {} /\ r.engineer = e /\ r.step = "guarding"
        /\ r.action = action
    OBVIOUS
  <2> HIDE DEF r
  <2>4. /\ UNCHANGED <<sessions, decided, ledger>> /\ file' \in Statuses
        /\ assignee' \in Engineers \cup {Nobody} /\ sealed' \subseteq DOMAIN decided /\ faults' \in Nat
    BY <1>3 DEF BeginDecide, ReviewInv, ReviewTypeOK
  <2> QED BY <1>3, <2>1, <2>2, <2>3, <2>4, RequestsKeep
<1>4. ASSUME NEW i \in Invocations, BeginCredit(i) PROVE ReviewInv'
  <2> DEFINE r == [IdleInv EXCEPT !.step = "crediting", !.list = Uncredited]
  <2>1. \A s \in Uncredited : s \in DOMAIN sessions /\ s \in Nat /\ sessions[s].ended
    BY DEF Uncredited, ReviewInv, SessionAndLogAgree, ReviewTypeOK
  <2>2. r \in Invocation /\ inv' = [inv EXCEPT ![i] = r]
    BY <1>0, <1>4, <2>1 DEF BeginCredit, Invocation, IdleInv, Steps, NoSession
  <2>3. r.session = NoSession /\ r.list = Uncredited /\ r.step = "crediting"
    BY DEF IdleInv
  <2> HIDE DEF r
  <2>4. /\ UNCHANGED <<sessions, decided, ledger>> /\ file' \in Statuses
        /\ assignee' \in Engineers \cup {Nobody} /\ sealed' \subseteq DOMAIN decided /\ faults' \in Nat
    BY <1>4 DEF BeginCredit, ReviewInv, ReviewTypeOK
  <2> QED BY <1>4, <2>1, <2>2, <2>3, <2>4, RequestsKeep
<1>5. ASSUME NEW i \in Invocations, NEW step \in Steps, Goto(i, step),
             step \in {"assigning", "opening"} => inv[i].engineer \in Engineers,
             step \in {"guarding", "recording"} => inv[i].action \in Actions /\ inv[i].engineer \in Engineers,
             step # "moving", UNCHANGED <<sessions, decided, ledger>>,
             file' \in Statuses, assignee' \in Engineers \cup {Nobody},
             sealed' = sealed, faults' \in Nat
      PROVE  ReviewInv'
  <2> DEFINE r == [inv[i] EXCEPT !.step = step]
  <2>1. r \in Invocation /\ inv' = [inv EXCEPT ![i] = r]
    BY <1>0, <1>5 DEF Goto, Invocation
  <2>2. /\ r.session = inv[i].session /\ r.list = inv[i].list /\ r.engineer = inv[i].engineer
        /\ r.action = inv[i].action /\ r.step = step
    BY <1>0 DEF Invocation
  <2> HIDE DEF r
  <2>3. /\ inv[i].session \in DOMAIN sessions \cup {NoSession} /\ inv[i].list \subseteq DOMAIN sessions
        /\ inv[i].session # NoSession => sessions[inv[i].session].engineer = inv[i].engineer
        /\ \A s \in inv[i].list : sessions[s].ended
    BY DEF ReviewInv, ReviewTypeOK, OwnSessions, ListedEnded
  <2> QED BY <1>0, <1>5, <2>1, <2>2, <2>3, RequestsKeep
<1>6. ASSUME NEW i \in Invocations, Return(i), UNCHANGED <<sessions, decided, ledger>>,
             file' \in Statuses, assignee' = assignee, sealed' = sealed, faults' \in Nat
      PROVE  ReviewInv'
  BY <1>0, <1>6, RequestsKeep DEF Return, IdleInv, NoSession
<1>7. ASSUME NEW i \in Invocations, TakeIn(i) PROVE ReviewInv'
  BY <1>0, <1>5, <1>6, <1>7 DEF TakeIn, Statuses, Steps, ReviewInv, OwnSessions
<1>8. ASSUME NEW i \in Invocations, Assign(i) PROVE ReviewInv'
  BY <1>0, <1>5, <1>8 DEF Assign, Fault, Steps, ReviewInv, OwnSessions
<1>9. ASSUME NEW i \in Invocations, OneDecisionAtATime(i) PROVE ReviewInv'
  BY <1>0, <1>5, <1>6, <1>9 DEF OneDecisionAtATime, Steps, ReviewInv, OwnSessions
<1>10. ASSUME NEW i \in Invocations, Stop(i) PROVE ReviewInv'
  BY <1>0, <1>6, <1>10 DEF Stop, Fault
<1>11. CASE Resubmit \/ PushBack
  BY <1>0, <1>1, <1>11 DEF Resubmit, PushBack, reviewVars, Statuses
<1>12. ASSUME NEW d \in DOMAIN decided, SealFact(d) \/ VoidFact(d) PROVE ReviewInv'
  BY <1>0, <1>1, <1>12 DEF SealFact, VoidFact, reviewVars, Statuses
<1>13. CASE UNCHANGED vars
  BY <1>0, <1>1, <1>13 DEF vars, reviewVars
<1> QED BY <1>2, <1>3, <1>4, <1>7, <1>8, <1>9, <1>10, <1>11, <1>12, <1>13,
           OpenKeeps, DecisionKeeps, LateCreditKeeps
        DEF Next, ReviewNext, SealNext, InvocationSteps

\* Whatever overlaps, stops or fails, what names a session names one there is.
THEOREM ReviewTypes == Spec => []ReviewTypeOK
<1>1. ReviewInv => ReviewTypeOK
  BY DEF ReviewInv
<1> QED BY <1>1, InitReview, StepReview, PTL DEF Spec

\* decideReview and eng_record_review_decision: the review clock and the
\* regulatory log tell one story, whichever engineers, tabs and late decisions
\* race for a session.
THEOREM OneStory == Spec => []SessionAndLogAgree
<1>1. ReviewInv => SessionAndLogAgree
  BY DEF ReviewInv
<1> QED BY <1>1, InitReview, StepReview, PTL DEF Spec

\* eng_record_review_decision and creditUncreditedReviews: a review is paid once
\* and only when it was decided.
THEOREM PaidOnce == Spec => []CreditedOnce
<1>1. ReviewInv => CreditedOnce
  BY DEF ReviewInv
<1> QED BY <1>1, InitReview, StepReview, PTL DEF Spec

\* A refused file does not come back to review by any step of the model.
THEOREM RefusedStays == Spec => RefusedNeverReturns
<1>1. [Next]_vars => [file = "refused" => file' \in {"refused", "sealed", "delivered"}]_vars
  BY DEF Next, ReviewNext, SealNext, InvocationSteps, vars, reviewVars, BeginOpen, BeginDecide,
         BeginCredit, TakeIn, Assign, OpenSession, OneDecisionAtATime, RecordDecision, Write,
         CreditOne, Stop, Resubmit, PushBack, SealFact, VoidFact
<1> QED BY <1>1, PTL DEF Spec, RefusedNeverReturns

-----------------------------------------------------------------------------
\* The review's own story, over the whole.

\* What the letters and the job do leaves the review as it was.
LEMMA ReviewKeeps ==
  ASSUME ReviewInv, UNCHANGED <<decided, assignee, sessions, ledger, inv>>,
         file' \in Statuses, sealed' \subseteq DOMAIN decided, faults' \in Nat
  PROVE  ReviewInv'
<1>1. ReviewTypeOK'
  BY DEF ReviewInv, ReviewTypeOK
<1>2. OneOpen' /\ OwnSessions' /\ ListedEnded'
  BY DEF ReviewInv, OneOpen, OwnSessions, ListedEnded
<1>3. SessionAndLogAgree' /\ CreditedOnce'
  BY DEF ReviewInv, SessionAndLogAgree, CreditedOnce
<1> QED BY <1>1, <1>2, <1>3 DEF ReviewInv

\* A step of the letters moves the file no further than they do.
LEMMA SealStepMoves ==
  ASSUME SealStep
  PROVE  UNCHANGED file \/ file' \in {"sealed", "delivered"}
BY DEF SealStep, S!SealingNext, S!SealSteps, S!BeginSeal, S!BeginVoid, S!StoreLetter, S!ReadReplaced,
       S!RecordSeal, S!GiveUp, S!RecordAbandoned, S!RemoveLetter, S!Notice, S!MoveToSealed,
       S!MoveToDelivered, S!Settle, S!Complete, S!VoidSeal, S!Stop, S!MoveByHand

\* A step of the job changes nothing of the review but how many faults there were.
LEMMA JobStepMoves ==
  ASSUME NEW d \in DOMAIN decided, JobStep(d)
  PROVE  /\ UNCHANGED <<reviewButFaults, foundation, crossed>>
         /\ UNCHANGED <<acts, voided, pdfs, told, noticed, seal, sealFaults, givenUp, slipped>>
         /\ UNCHANGED order \/ order' = "refunded"
         /\ UNCHANGED faults \/ faults' = faults + 1
BY DEF JobStep, AskDeterminations, CountRefunds, ReserveRefund, Refund, TellAdmins, RunAgain, Fault,
       vars, reviewVars, reviewButFaults, sealOnly

\* Every step keeps it.
LEMMA ReviewInOutcome == ReviewInv /\ [OutcomeNext]_outcomeVars => ReviewInv'
<1> SUFFICES ASSUME ReviewInv, [OutcomeNext]_outcomeVars PROVE ReviewInv'
  OBVIOUS
<1>0. file \in Statuses /\ sealed \subseteq DOMAIN decided /\ faults \in Nat
  BY DEF ReviewInv, ReviewTypeOK
<1>1. CASE ReviewStep
  <2>1. [Next]_vars
    BY <1>1 DEF ReviewStep, Next, ReviewNext
  <2> QED BY <2>1, StepReview
<1>2. CASE SealStep
  <2>1. file' \in Statuses /\ sealed' \subseteq DOMAIN decided /\ faults' \in Nat
    BY <1>0, <1>2, SealStepMoves DEF SealStep, Statuses, reviewVars
  <2> QED BY <1>2, <2>1, ReviewKeeps DEF SealStep, reviewVars
<1>3. ASSUME NEW d \in DOMAIN decided, JobStep(d) PROVE ReviewInv'
  <2>1. UNCHANGED reviewButFaults /\ faults' \in Nat
    BY <1>0, <1>3, JobStepMoves
  <2> QED BY <1>0, <2>1, ReviewKeeps DEF reviewButFaults
<1>4. CASE UNCHANGED outcomeVars
  BY <1>0, <1>4, ReviewKeeps DEF outcomeVars, vars, reviewVars
<1> QED BY <1>1, <1>2, <1>3, <1>4 DEF OutcomeNext

\* So it holds always.
LEMMA AlwaysReviewInv == OutcomeSpec => []ReviewInv
<1>1. OutcomeInit => ReviewInv
  BY InitReview DEF OutcomeInit
<1> QED BY <1>1, ReviewInOutcome, PTL DEF OutcomeSpec

\* Review's own story holds in the whole: with the letters' steps in place of its
\* facts of sealing, the review clock and the log still agree.
THEOREM OneStoryInOutcome == OutcomeSpec => [](SessionAndLogAgree /\ CreditedOnce)
<1>1. ReviewInv => SessionAndLogAgree /\ CreditedOnce
  BY DEF ReviewInv
<1> QED BY <1>1, AlwaysReviewInv, PTL

-----------------------------------------------------------------------------
\* The letters of the reviewed file are module Sealing's, whose environment the
\* review and the job are.

\* The status of the file as the letters see it: what waits for review is elsewhere.
LetterFile ==
    IF file \in {"evidence_submitted", "revisions_requested", "needs_dispatch"}
    THEN "elsewhere" ELSE file

L == INSTANCE SealingProofs WITH
        Kinds <- {"pass", "decline", "repairs", "none"},
        Invocations <- Sealers,
        MaxDets <- MaxDecisions,
        file <- LetterFile,
        faults <- sealFaults,
        dets <- [d \in DOMAIN decided |-> KindOf(decided[d].action)]

\* What a decision concludes for a letter is one of its kinds.
LEMMA KindsOfDecisions == \A action : KindOf(action) \in {"pass", "decline", "repairs", "none"}
  BY DEF KindOf

\* A letter's view of the file tells apart what its moves ask for.
LEMMA LetterStatuses ==
  /\ \A s \in {"under_review", "repairs_required", "refused", "sealed", "delivered"} :
        LetterFile = s <=> file = s
  /\ file \in {"sealed", "delivered"} => LetterFile = file
  BY DEF LetterFile

\* A step of the letters is one of Sealing's.
LEMMA SealStepIsOne ==
  ASSUME SealStep
  PROVE  L!SealingNext
<1>0. UNCHANGED <<decided, foundation>> /\ S!SealingNext
  BY DEF SealStep
<1>1. UNCHANGED [d \in DOMAIN decided |-> KindOf(decided[d].action)]
  BY <1>0 DEF KindOf
<1>2. UNCHANGED file => UNCHANGED LetterFile
  BY DEF LetterFile
<1>3. DOMAIN [d \in DOMAIN decided |-> KindOf(decided[d].action)] = DOMAIN decided
  OBVIOUS
<1>4. ASSUME NEW to \in {"sealed", "delivered"}
      PROVE  L!MayMove(to) <=> S!MayMove(to)
  BY LetterStatuses DEF L!MayMove, S!MayMove, L!LiveOnFile, S!LiveOnFile, L!IsLive, S!IsLive,
                        L!IsVoid, S!IsVoid
<1>5. ASSUME NEW to \in {"sealed", "delivered"}, file' = to PROVE LetterFile' = to
  BY <1>5 DEF LetterFile
<1>6. ASSUME NEW i \in Sealers, NEW d \in DOMAIN decided, S!BeginSeal(i, d)
      PROVE  L!BeginSeal(i, d)
  BY <1>1, <1>2, <1>6 DEF S!history, L!history, S!BeginSeal, L!BeginSeal, S!Idle, L!Idle, S!LiveFor, L!LiveFor,
                          S!IsLive, L!IsLive, S!IsVoid, L!IsVoid, S!NoAct, L!NoAct,
                          S!NoPdf, L!NoPdf
<1>7. ASSUME NEW i \in Sealers, NEW a \in DOMAIN acts, S!BeginVoid(i, a)
      PROVE  L!BeginVoid(i, a)
  BY <1>1, <1>2, <1>7 DEF S!history, L!history, S!BeginVoid, L!BeginVoid, S!Idle, L!Idle,
                          S!IsLive, L!IsLive, S!IsVoid, L!IsVoid, S!NoAct, L!NoAct,
                          S!NoPdf, L!NoPdf
<1>8. ASSUME NEW i \in Sealers, S!StoreLetter(i) PROVE L!StoreLetter(i)
  BY <1>1, <1>2, <1>8 DEF S!history, L!history, S!StoreLetter, L!StoreLetter, S!Taken, L!Taken
<1>9. ASSUME NEW i \in Sealers, S!ReadReplaced(i) PROVE L!ReadReplaced(i)
  BY <1>1, <1>2, <1>9 DEF S!history, L!history, S!ReadReplaced, L!ReadReplaced, S!ReplacedBy, L!ReplacedBy,
         S!Replaceable, L!Replaceable, S!NoAct, L!NoAct
<1>10. ASSUME NEW i \in Sealers, S!RecordSeal(i) PROVE L!RecordSeal(i)
  BY <1>1, <1>2, <1>10 DEF S!history, L!history, S!RecordSeal, L!RecordSeal, S!Goto, L!Goto,
         S!Refused, L!Refused, S!AddAct, L!AddAct, S!LiveFor, L!LiveFor, S!IsLive, L!IsLive,
         S!IsVoid, L!IsVoid, S!NoAct, L!NoAct
<1>11. ASSUME NEW i \in Sealers, S!GiveUp(i) PROVE L!GiveUp(i)
  BY <1>1, <1>2, <1>11 DEF S!history, L!history, S!GiveUp, L!GiveUp, S!Goto, L!Goto, S!Fault, L!Fault
<1>12. ASSUME NEW i \in Sealers, S!RecordAbandoned(i) PROVE L!RecordAbandoned(i)
  BY <1>1, <1>2, <1>12 DEF S!history, L!history, S!RecordAbandoned, L!RecordAbandoned, S!Goto, L!Goto, S!Return, L!Return,
         S!Idle, L!Idle, S!NoPdf, L!NoPdf,
         S!Refused, L!Refused, S!AddAct, L!AddAct, S!LiveFor, L!LiveFor, S!IsLive, L!IsLive,
         S!IsVoid, L!IsVoid, S!NoAct, L!NoAct
<1>13. ASSUME NEW i \in Sealers, S!RemoveLetter(i) PROVE L!RemoveLetter(i)
  BY <1>1, <1>2, <1>13 DEF S!history, L!history, S!RemoveLetter, L!RemoveLetter, S!Goto, L!Goto, S!Return, L!Return,
         S!Idle, L!Idle, S!NoAct, L!NoAct, S!NoPdf, L!NoPdf
<1>14. ASSUME NEW i \in Sealers, S!Notice(i) PROVE L!Notice(i)
  BY <1>1, <1>2, <1>14 DEF S!history, L!history, S!Notice, L!Notice, S!Goto, L!Goto, S!Return, L!Return,
         S!Idle, L!Idle, S!NoAct, L!NoAct, S!NoPdf, L!NoPdf, S!Delivers, L!Delivers
<1>15. ASSUME NEW i \in Sealers, S!MoveToSealed(i) PROVE L!MoveToSealed(i)
  BY <1>1, <1>2, <1>4, <1>5, <1>15 DEF S!history, L!history, S!MoveToSealed, L!MoveToSealed, S!Goto, L!Goto
<1>16. ASSUME NEW i \in Sealers, S!MoveToDelivered(i) PROVE L!MoveToDelivered(i)
  BY <1>1, <1>2, <1>4, <1>5, <1>16 DEF S!history, L!history, S!MoveToDelivered, L!MoveToDelivered, S!Goto, L!Goto
<1>17. ASSUME NEW i \in Sealers, S!Settle(i) PROVE L!Settle(i)
  BY <1>1, <1>2, <1>17 DEF S!history, L!history, S!Settle, L!Settle, S!Goto, L!Goto
<1>18. ASSUME NEW i \in Sealers, S!Complete(i) PROVE L!Complete(i)
  BY <1>1, <1>2, <1>18 DEF S!history, L!history, S!Complete, L!Complete, S!Return, L!Return, S!Idle, L!Idle,
                           S!NoAct, L!NoAct, S!NoPdf, L!NoPdf
<1>19. ASSUME NEW i \in Sealers, S!VoidSeal(i) PROVE L!VoidSeal(i)
  BY <1>1, <1>2, <1>19 DEF S!history, L!history, S!VoidSeal, L!VoidSeal, S!Return, L!Return, S!Idle, L!Idle,
                           S!NoAct, L!NoAct, S!NoPdf, L!NoPdf, S!IsLive, L!IsLive,
                           S!IsVoid, L!IsVoid, S!Inserting, L!Inserting
<1>20. ASSUME NEW i \in Sealers, S!Stop(i) PROVE L!Stop(i)
  BY <1>1, <1>2, <1>20 DEF S!history, L!history, S!Stop, L!Stop, S!Return, L!Return, S!Idle, L!Idle,
                           S!NoAct, L!NoAct, S!NoPdf, L!NoPdf, S!Fault, L!Fault
<1>21. ASSUME NEW to \in {"sealed", "delivered"}, S!MoveByHand(to) PROVE L!MoveByHand(to)
  BY <1>1, <1>4, <1>5, <1>21 DEF S!history, L!history, S!MoveByHand, L!MoveByHand, S!sealVars, L!sealVars
<1> QED
  BY <1>0, <1>3, <1>6, <1>7, <1>8, <1>10, <1>12, <1>14, <1>15, <1>16, <1>17, <1>18, <1>19,
     <1>20, <1>21, <1>9, <1>11, <1>13 DEF S!SealingNext, L!SealingNext, S!SealSteps, L!SealSteps

\* A step of the review that decides is one request's, with the file in review.
LEMMA DecidingStep ==
  ASSUME ReviewInv, ReviewStep, decided' # decided
  PROVE  \E i \in Invocations, k \in Nat :
            /\ file = "under_review" /\ Len(decided) < MaxDecisions
            /\ inv[i].action \in Actions /\ inv[i].engineer \in Engineers
            /\ file' = Target[inv[i].action]
            /\ decided' = Append(decided, [action |-> inv[i].action, engineer |-> inv[i].engineer,
                                           session |-> k])
            /\ crossed' = (crossed \/ SomeAwaited)
<1>1. PICK i \in Invocations : InvocationSteps(i) /\ crossed' = (crossed \/ SomeAwaited)
  BY DEF ReviewStep, Resubmit, PushBack
<1>2. RecordDecision(i)
  BY <1>1 DEF InvocationSteps, BeginOpen, BeginDecide, BeginCredit, TakeIn, Assign, OpenSession,
              OneDecisionAtATime, CreditOne, Stop
<1>3. \E paid \in BOOLEAN : Write(i, paid) /\ file = "under_review"
  BY <1>2 DEF RecordDecision
<1>4. inv[i].action \in Actions /\ inv[i].engineer \in Engineers /\ inv[i].session \in Nat
  BY <1>2 DEF RecordDecision, ReviewInv, ReviewTypeOK, OwnSessions, Invocation
<1>5. /\ file' = Target[inv[i].action] /\ Len(decided) < MaxDecisions
      /\ decided' = Append(decided, [action |-> inv[i].action, engineer |-> inv[i].engineer,
                                     session |-> inv[i].session])
  BY <1>3 DEF Write
<1> QED BY <1>1, <1>3, <1>4, <1>5

\* It adds one decision to those there were.
LEMMA DecisionAdded ==
  ASSUME decided \in Seq(Decision), NEW row \in Decision, decided' = Append(decided, row)
  PROVE  /\ DOMAIN decided = 1..Len(decided) /\ Len(decided) \in Nat
         /\ DOMAIN decided' = 1..(Len(decided) + 1) /\ Len(decided') = Len(decided) + 1
         /\ \A d \in 1..Len(decided) : decided'[d] = decided[d]
         /\ decided'[Len(decided) + 1] = row
<1>1. /\ Append(decided, row) \in Seq(Decision)
      /\ Len(Append(decided, row)) = Len(decided) + 1
      /\ Append(decided, row)[Len(decided) + 1] = row
      /\ \A d \in 1..Len(decided) : Append(decided, row)[d] = decided[d]
  BY AppendProperties
<1>2. DOMAIN decided = 1..Len(decided) /\ Len(decided) \in Nat
  OBVIOUS
<1>3. DOMAIN decided' = 1..Len(decided')
  BY <1>1
<1> QED BY <1>1, <1>2, <1>3

\* A decision is one of Sealing's determinations, of the kind its letter is.
LEMMA DecisionIsOne ==
  ASSUME ReviewInv, ReviewStep, decided' # decided
  PROVE  \E kind \in {"pass", "decline", "repairs", "none"} : L!Decide(kind)
<1>1. PICK i \in Invocations, k \in Nat :
         /\ file = "under_review" /\ Len(decided) < MaxDecisions
         /\ inv[i].action \in Actions /\ inv[i].engineer \in Engineers
         /\ file' = Target[inv[i].action]
         /\ decided' = Append(decided, [action |-> inv[i].action, engineer |-> inv[i].engineer,
                                        session |-> k])
  BY DecidingStep
<1> DEFINE kind == KindOf(inv[i].action)
           dets == [d \in DOMAIN decided |-> KindOf(decided[d].action)]
           n == Len(decided)
<1>3. UNCHANGED sealOnly /\ UNCHANGED foundation
  BY DEF ReviewStep
<1>4. decided \in Seq(Decision) /\ DOMAIN decided = 1..n /\ n \in Nat
  BY DEF ReviewInv, ReviewTypeOK
<1>5. /\ DOMAIN decided' = 1..(n + 1)
      /\ \A d \in 1..n : decided'[d] = decided[d]
      /\ decided'[n + 1].action = inv[i].action
  <2> DEFINE row == [action |-> inv[i].action, engineer |-> inv[i].engineer, session |-> k]
  <2>1. row \in Decision /\ row.action = inv[i].action /\ decided' = Append(decided, row)
    BY <1>1 DEF Decision
  <2> HIDE DEF row
  <2> QED BY <1>4, <2>1, DecisionAdded
<1>6. dets \in Seq({"pass", "decline", "repairs", "none"}) /\ Len(dets) = n
  <2>1. dets \in [1..n -> {"pass", "decline", "repairs", "none"}]
    BY <1>4, KindsOfDecisions
  <2> QED BY <1>4, <2>1, LenProperties
<1>7. [d \in DOMAIN decided |-> KindOf(decided[d].action)]' = Append(dets, kind)
  <2>1. /\ DOMAIN Append(dets, kind) = 1..(n + 1)
        /\ \A d \in 1..n : Append(dets, kind)[d] = dets[d]
        /\ Append(dets, kind)[n + 1] = kind
        /\ Append(dets, kind) \in Seq({"pass", "decline", "repairs", "none"})
    BY <1>4, <1>6, KindsOfDecisions, AppendProperties
  <2>2. [d \in DOMAIN decided |-> KindOf(decided[d].action)]'
           = [d \in 1..(n + 1) |-> IF d = n + 1 THEN kind ELSE dets[d]]
    BY <1>3, <1>4, <1>5 DEF KindOf
  <2>3. Append(dets, kind) = [d \in 1..(n + 1) |-> Append(dets, kind)[d]]
    BY <2>1
  <2> HIDE DEF dets, kind, n
  <2> QED BY <1>4, <2>1, <2>2, <2>3
<1>8. LetterFile = "under_review"
  BY <1>1 DEF LetterFile
<1>9. LetterFile' \in CASE kind = "pass" -> {"under_review"}
                        [] kind = "decline" -> {"refused"}
                        [] kind = "repairs" -> {"repairs_required"}
                        [] kind = "none" -> {"elsewhere", "refused"}
  BY <1>1, ReviewAssumption DEF LetterFile, KindOf, Target
<1>10. L!Decide(kind)
  BY <1>1, <1>3, <1>6, <1>7, <1>8, <1>9 DEF L!Decide, L!sealVars, L!history, sealOnly
<1> QED BY <1>10, KindsOfDecisions

\* A step of the review that decides nothing moves the file into review, back from
\* where it was sent, or out of review, which crosses a letter awaited.
LEMMA UndecidedMoves ==
  ASSUME ReviewInv, ReviewStep, UNCHANGED decided
  PROVE  /\ crossed => crossed'
         /\ \/ UNCHANGED file
            \/ file \in {"evidence_submitted", "revisions_requested"} /\ file' = "under_review"
            \/ file \in {"revisions_requested", "needs_dispatch", "repairs_required"}
                 /\ file' = "evidence_submitted"
            \/ file = "under_review" /\ file' = "evidence_submitted"
                 /\ crossed' = (crossed \/ SomeAwaited)
<1>1. ASSUME NEW i \in Invocations, RecordDecision(i) PROVE UNCHANGED file
  <2>1. ASSUME NEW paid \in BOOLEAN, Write(i, paid) PROVE FALSE
    BY <2>1 DEF Write, ReviewInv, ReviewTypeOK
  <2> QED BY <1>1, <2>1 DEF RecordDecision
<1>2. ASSUME NEW i \in Invocations, InvocationSteps(i)
      PROVE  \/ UNCHANGED file
             \/ file \in {"evidence_submitted", "revisions_requested"} /\ file' = "under_review"
  BY <1>1, <1>2 DEF InvocationSteps, BeginOpen, BeginDecide, BeginCredit, TakeIn, Assign,
                    OpenSession, OneDecisionAtATime, CreditOne, Stop
<1>3. \/ \E i \in Invocations : InvocationSteps(i)
      \/ Resubmit
      \/ PushBack /\ crossed' = (crossed \/ SomeAwaited)
  BY DEF ReviewStep
<1>4. crossed => crossed'
  BY DEF ReviewStep
<1> QED BY <1>2, <1>3, <1>4 DEF Resubmit, PushBack

\* What the review does to the file besides is one of Sealing's moves, or none.
LEMMA ReviewStepIsMove ==
  ASSUME ReviewInv, ReviewStep, UNCHANGED decided
  PROVE  L!Wander \/ UNCHANGED L!vars
<1>1. UNCHANGED sealOnly /\ UNCHANGED foundation
  BY DEF ReviewStep
<1>2. UNCHANGED [d \in DOMAIN decided |-> KindOf(decided[d].action)]
  BY <1>1 DEF KindOf
<1>3. \/ UNCHANGED file
      \/ file \in {"evidence_submitted", "revisions_requested"} /\ file' = "under_review"
      \/ file \in {"revisions_requested", "needs_dispatch", "repairs_required", "under_review"}
           /\ file' = "evidence_submitted"
  BY UndecidedMoves
<1>4. \/ UNCHANGED LetterFile
      \/ LetterFile = "elsewhere" /\ LetterFile' = "under_review"
      \/ LetterFile \in {"under_review", "repairs_required"} /\ LetterFile' = "elsewhere"
  BY <1>3 DEF LetterFile
<1> QED BY <1>1, <1>2, <1>4 DEF L!Wander, L!vars, L!sealVars, L!history, sealOnly

\* The job of a refusal gives the order's money back, or touches no letter.
LEMMA JobStepIsOne ==
  ASSUME NEW d \in DOMAIN decided, JobStep(d)
  PROVE  L!GiveBack \/ UNCHANGED L!vars
<1>1. /\ UNCHANGED <<file, decided, foundation>>
      /\ UNCHANGED <<acts, voided, pdfs, told, noticed, seal, sealFaults, givenUp, slipped>>
      /\ UNCHANGED order \/ order' = "refunded"
  BY JobStepMoves DEF reviewButFaults
<1>2. UNCHANGED LetterFile /\ UNCHANGED [e \in DOMAIN decided |-> KindOf(decided[e].action)]
  BY <1>1 DEF LetterFile, KindOf
<1> QED BY <1>1, <1>2 DEF L!GiveBack, L!vars, L!sealVars, L!history

\* Nothing is decided or sealed at first, and the file waits for review.
LEMMA OutcomeInitIsOne == OutcomeInit => L!Init
<1> SUFFICES ASSUME OutcomeInit PROVE L!Init
  OBVIOUS
<1>1. LetterFile = "elsewhere"
  BY DEF OutcomeInit, Init, LetterFile
<1>2. [d \in DOMAIN decided |-> KindOf(decided[d].action)] = <<>>
  BY DEF OutcomeInit, Init
<1> QED BY <1>1, <1>2 DEF OutcomeInit, L!Init, S!SealingInit, L!SealingInit, S!Idle, L!Idle,
                          S!NoAct, L!NoAct, S!NoPdf, L!NoPdf

\* Review, the letters and the job of a refusal, over one file, implement Sealing
\* where a decision, a file's way in and out of review and a refund are whatever the
\* environment does: what holds of the letters there holds here.
THEOREM OutcomeImplementsSealing == OutcomeSpec => L!Spec
<1>1. ReviewInv /\ [OutcomeNext]_outcomeVars => [L!Next]_L!vars
  <2> SUFFICES ASSUME ReviewInv, [OutcomeNext]_outcomeVars PROVE [L!Next]_L!vars
    OBVIOUS
  <2>1. CASE ReviewStep
    BY <2>1, DecisionIsOne, ReviewStepIsMove DEF L!Next
  <2>2. CASE SealStep
    BY <2>2, SealStepIsOne DEF L!Next
  <2>3. CASE \E d \in DOMAIN decided : JobStep(d)
    BY <2>3, JobStepIsOne DEF L!Next
  <2>4. CASE UNCHANGED outcomeVars
    <3>1. UNCHANGED <<file, decided, foundation, sealOnly>>
      BY <2>4 DEF outcomeVars, vars
    <3>2. UNCHANGED LetterFile /\ UNCHANGED [d \in DOMAIN decided |-> KindOf(decided[d].action)]
      BY <3>1 DEF LetterFile, KindOf
    <3> QED BY <3>1, <3>2 DEF sealOnly, L!vars, L!sealVars, L!history
  <2> QED BY <2>1, <2>2, <2>3, <2>4 DEF OutcomeNext
<1> QED BY <1>1, OutcomeInitIsOne, AlwaysReviewInv, PTL DEF OutcomeSpec, L!Spec

\* Its constants are such as Sealing assumes.
LEMMA OutcomeConstants == L!SealingAssumption
  BY ReviewAssumption, OutcomeAssumption DEF L!SealingAssumption

\* eng_seal_acts over a reviewed file: its letters are a register that never has two
\* of a determination that stand, nor one replaced twice, each replacing the one
\* before it but where a voiding slipped in, whatever is decided, pushed back or
\* refunded meanwhile.
THEOREM OutcomeKeepsRegister == OutcomeSpec => L!KeepsRegister
<1>1. L!Spec => L!KeepsRegister
  BY OutcomeConstants, L!SealingKeepsRegister
<1> QED BY <1>1, OutcomeImplementsSealing

\* deliverSealedFile over a reviewed file, with no condition on who decides it or
\* pushes it back: the order is settled only for a decision whose letter was sealed
\* and delivers, and once for one that did not slip; the bucket and the register
\* agree; and where nothing stopped among the letters, a reissue was settled with
\* the first letter, or is being.
THEOREM OutcomeSettles ==
  OutcomeSpec => [](/\ S!SettledOnceUnlessSlipped
                    /\ S!BucketAndRegisterAgree
                    /\ S!ReissueWasSettledUnlessStopped)
<1>1. L!Spec => []L!SettledOnceUnlessSlipped
  BY OutcomeConstants, L!OneSettlement
<1>2. L!Spec => []L!BucketAndRegisterAgree
  BY OutcomeConstants, L!LettersAreStored
<1>3. L!Spec => []L!ReissueWasSettledUnlessStopped
  BY OutcomeConstants, L!ReissuesWereSettled
<1>4. L!SettledOnceUnlessSlipped => S!SettledOnceUnlessSlipped
  BY DEF L!SettledOnceUnlessSlipped, S!SettledOnceUnlessSlipped, L!Delivers, S!Delivers,
         L!Sealed, S!Sealed
<1>5. L!BucketAndRegisterAgree => S!BucketAndRegisterAgree
  BY DEF L!BucketAndRegisterAgree, S!BucketAndRegisterAgree, L!IsLive, S!IsLive,
         L!IsVoid, S!IsVoid
<1>6. L!ReissueWasSettledUnlessStopped => S!ReissueWasSettledUnlessStopped
  BY DEF L!ReissueWasSettledUnlessStopped, S!ReissueWasSettledUnlessStopped,
         L!ReissueWasSettled, S!ReissueWasSettled, L!Delivers, S!Delivers, L!Settled, S!Settled
<1> QED BY <1>1, <1>2, <1>3, <1>4, <1>5, <1>6, OutcomeImplementsSealing, PTL

-----------------------------------------------------------------------------
\* How a file comes to its outcome: what it takes for a refusal to be refunded, and
\* what a letter the order waits for finds when it settles.

\* A refusal is the file's last decision, and it does not come back into review.
Refusals ==
    \A d \in DOMAIN decided : decided[d].action = "refuse" =>
       d = Len(decided) /\ file \in {"refused", "sealed", "delivered"}

\* Jobs run for refusals, and refund those that no letter answers.
JobsOfRefusals ==
    \A d \in 1..MaxDecisions : job[d] # "waiting" =>
       /\ d \in DOMAIN decided /\ decided[d].action = "refuse"
       /\ job[d] \in {"counting", "reserving", "refunding"} => ~foundation

\* So what was refunded was such a refusal.
RefundsOfRefusals ==
    refunds > 0 => ~foundation /\ \E d \in DOMAIN decided : decided[d].action = "refuse"

\* Once: a refund is written down where none was counted.
Counted == refunds <= 1 /\ \A d \in 1..MaxDecisions : job[d] = "reserving" => refunds = 0

OutcomeTypes ==
    /\ foundation \in BOOLEAN /\ crossed \in BOOLEAN
    /\ job \in [1..MaxDecisions -> JobSteps]
    /\ refunds \in Nat
    /\ Len(decided) <= MaxDecisions

JobInv == OutcomeTypes /\ Refusals /\ JobsOfRefusals /\ RefundsOfRefusals /\ Counted

\* Nothing crossed a letter awaited, and none was voided while another was recorded.
Quiet == ~crossed /\ slipped = {}

\* What the order waits for is the last decision, and the file has not left it.
LastIsAwaited ==
    \A d \in DOMAIN decided : Awaited(d) =>
       d = Len(decided) /\ file \in {"under_review", "refused", "sealed", "delivered"}

\* A first letter on its way stands until the file is moved by it.
Stands(i) ==
    /\ seal[i].step \in {"noticing", "sealing"} => S!IsLive(seal[i].act)
    /\ seal[i].step \in {"delivering", "settling"} => file \in {"sealed", "delivered"}
AllStand == \A i \in Sealers : OnItsWay(i) => Stands(i)

\* What was settled is the last decision, whose letter moved the file.
LastIsTold ==
    told # <<>> => /\ told = <<Len(decided)>> /\ S!Delivers(Len(decided))
                   /\ Len(decided) \in DOMAIN decided
                   /\ file \in {"sealed", "delivered"}

StoryInv == JobInv /\ (Quiet => LastIsAwaited /\ AllStand /\ LastIsTold)

\* What Sealing's invariant says of the letters here.
LEMMA LettersHold ==
  ASSUME ReviewInv, L!SealInv
  PROVE  /\ DOMAIN acts = 1..Len(acts) /\ Len(acts) \in Nat
         /\ \A a \in DOMAIN acts : acts[a].det \in DOMAIN decided
         /\ \A k \in DOMAIN voided : voided[k] \in DOMAIN acts
         /\ told \in Seq(Nat) /\ slipped \subseteq DOMAIN decided
         /\ \A i \in Sealers : /\ seal[i].step \notin {"idle", "voiding"} => seal[i].det \in DOMAIN decided
                               /\ seal[i].step \in {"noticing", "sealing", "delivering", "settling"} =>
                                     /\ seal[i].act \in DOMAIN acts
                                     /\ acts[seal[i].act].det = seal[i].det
                                     /\ seal[i].step # "noticing" =>
                                           acts[seal[i].act].replaces = S!NoAct /\ S!Delivers(seal[i].det)
                                     /\ acts[seal[i].act].replaces = S!NoAct /\ seal[i].det \notin slipped =>
                                           ~S!Settled(seal[i].det)
<1> DEFINE dets == [d \in DOMAIN decided |-> KindOf(decided[d].action)]
<1>1. L!SealingTypeOK /\ L!OwnActs
  BY DEF L!SealInv, L!ActsInv
<1>2. DOMAIN dets = DOMAIN decided
  OBVIOUS
<1>3. /\ DOMAIN acts = 1..Len(acts) /\ Len(acts) \in Nat
      /\ \A a \in DOMAIN acts : acts[a].det \in DOMAIN decided
      /\ \A k \in DOMAIN voided : voided[k] \in DOMAIN acts
      /\ told \in Seq(Nat) /\ slipped \subseteq DOMAIN decided
  BY <1>1, <1>2 DEF L!SealingTypeOK
<1>4. ASSUME NEW i \in Sealers, seal[i].step \notin {"idle", "voiding"}
      PROVE  seal[i].det \in DOMAIN decided
  BY <1>1, <1>2, <1>4 DEF L!SealingTypeOK, L!OfTheFile
<1>5. ASSUME NEW i \in Sealers,
             seal[i].step \in {"noticing", "sealing", "delivering", "settling"}
      PROVE  /\ seal[i].act \in DOMAIN acts
             /\ acts[seal[i].act].det = seal[i].det
             /\ seal[i].step # "noticing" =>
                   acts[seal[i].act].replaces = S!NoAct /\ S!Delivers(seal[i].det)
             /\ acts[seal[i].act].replaces = S!NoAct /\ seal[i].det \notin slipped =>
                   ~S!Settled(seal[i].det)
  BY <1>1, <1>5 DEF L!OwnActs, L!Acting, S!NoAct, L!NoAct, S!Delivers, L!Delivers,
                    S!Settled, L!Settled
<1> QED BY <1>3, <1>4, <1>5

\* An act that names nothing to replace, and goes in, is its determination's first.
LEMMA FirstLetter ==
  ASSUME ReviewInv, L!SealInv, slipped = {}, NEW i \in Sealers,
         seal[i].step = "inserting", seal[i].act = S!NoAct, ~S!LiveFor(seal[i].det)
  PROVE  ~S!Sealed(seal[i].det)
<1>1. L!ReadHolds /\ L!SealingTypeOK
  BY DEF L!SealInv, L!ActsInv
<1>2. L!LastOf(seal[i].act, seal[i].det)
  BY <1>1 DEF L!ReadHolds, L!Between, L!LiveFor, S!LiveFor, L!IsLive, S!IsLive, L!IsVoid, S!IsVoid
<1> QED BY <1>2, LettersHold DEF L!LastOf, S!NoAct, L!NoAct, L!Sealed, S!Sealed

\* The jobs and the refusals are as they were where the letters move the file on.
LEMMA JobsStay ==
  ASSUME JobInv, UNCHANGED <<decided, foundation, job, refunds>>, crossed' \in BOOLEAN,
         file' = file \/ file' \in {"sealed", "delivered"}
  PROVE  JobInv'
<1>1. OutcomeTypes' /\ Refusals'
  BY DEF JobInv, OutcomeTypes, Refusals
<1>2. JobsOfRefusals' /\ RefundsOfRefusals' /\ Counted'
  BY DEF JobInv, JobsOfRefusals, RefundsOfRefusals, Counted
<1> QED BY <1>1, <1>2 DEF JobInv

\* A step of the letters keeps the story where each request that moved has a letter
\* on its way only if the order waits for it, and one that stands.
LEMMA SealerKeeps ==
  ASSUME ReviewInv, L!SealInv, StoryInv, SealStep,
         \A a \in DOMAIN acts : a \in DOMAIN acts' /\ acts'[a] = acts[a],
         file' = file \/ file' \in {"sealed", "delivered"},
         slipped \subseteq slipped',
         Quiet /\ Quiet' => LastIsTold',
         \A j \in Sealers : \/ seal'[j] = seal[j]
                            \/ Quiet /\ Quiet' /\ OnItsWay(j)' =>
                                  /\ seal'[j].det \in DOMAIN decided
                                  /\ Awaited(seal'[j].det)
                                  /\ Stands(j)'
  PROVE  StoryInv'
<1>0. /\ UNCHANGED <<decided, foundation, job, refunds>>
      /\ crossed' = (crossed \/ \E i \in Sealers :
                        /\ OnItsWay(i) /\ S!IsLive(seal[i].act)
                        /\ \E k \in DOMAIN voided' : voided'[k] = seal[i].act)
  BY DEF SealStep
<1>1. JobInv'
  <2>1. crossed' \in BOOLEAN
    BY <1>0
  <2> QED BY <1>0, <2>1, JobsStay DEF StoryInv
<1>2. ASSUME Quiet' PROVE LastIsAwaited' /\ AllStand' /\ LastIsTold'
  <2>1. ~crossed /\ \A i \in Sealers : OnItsWay(i) /\ S!IsLive(seal[i].act) =>
                                          \A k \in DOMAIN voided' : voided'[k] # seal[i].act
    BY <1>0, <1>2 DEF Quiet
  <2>2. Quiet /\ LastIsAwaited /\ AllStand
    BY <1>2, <2>1 DEF Quiet, StoryInv
  <2>3. ASSUME NEW d PROVE (S!Delivers(d)' <=> S!Delivers(d)) /\ (S!Sealed(d) => S!Sealed(d)')
    BY <1>0 DEF S!Delivers, S!Sealed, KindOf
  <2>4. ASSUME NEW j \in Sealers, seal'[j] = seal[j], OnItsWay(j)'
        PROVE  OnItsWay(j) /\ Stands(j)' /\ seal'[j].det \in DOMAIN decided
    <3>1. /\ seal[j].step \in {"noticing", "sealing", "delivering", "settling"}
          /\ seal[j].act \in DOMAIN acts /\ seal[j].det \in DOMAIN decided
      BY <2>4, LettersHold DEF OnItsWay
    <3>2. OnItsWay(j)
      BY <2>3, <2>4, <3>1 DEF OnItsWay, S!NoAct
    <3>3. seal[j].step \in {"noticing", "sealing"} => S!IsLive(seal[j].act)'
      BY <2>1, <2>2, <2>4, <3>1, <3>2 DEF AllStand, Stands, S!IsLive, S!IsVoid
    <3> QED BY <2>2, <2>4, <3>1, <3>2, <3>3 DEF AllStand, Stands
  <2>5. ASSUME NEW j \in Sealers, OnItsWay(j)'
        PROVE  Stands(j)' /\ seal'[j].det \in DOMAIN decided /\ Awaited(seal'[j].det)
    <3>1. CASE seal'[j] = seal[j]
      BY <2>4, <2>5, <3>1 DEF Awaited, OnItsWay
    <3> QED BY <1>2, <2>2, <2>5, <3>1
  <2>6. ASSUME NEW d \in DOMAIN decided, Awaited(d)' PROVE Awaited(d)
    BY <2>3, <2>5, <2>6 DEF Awaited
  <2>7. LastIsAwaited'
    BY <1>0, <2>2, <2>6 DEF LastIsAwaited
  <2>8. AllStand'
    BY <2>5 DEF AllStand
  <2> QED BY <1>2, <2>2, <2>7, <2>8
<1> QED BY <1>1, <1>2 DEF StoryInv

\* What was settled stays so where the letters only move the file on.
LEMMA ToldStays ==
  ASSUME StoryInv, UNCHANGED <<decided, foundation, told>>,
         file' = file \/ file' \in {"sealed", "delivered"}
  PROVE  Quiet /\ Quiet' => LastIsTold'
BY DEF StoryInv, LastIsTold, S!Delivers, KindOf

\* A request's place in a letter, when it moves.
LEMMA Moved ==
  ASSUME L!SealInv, NEW i \in Sealers
  PROVE  /\ \A step : S!Goto(i, step) =>
               /\ seal'[i] = [seal[i] EXCEPT !.step = step]
               /\ seal'[i].step = step /\ seal'[i].act = seal[i].act /\ seal'[i].det = seal[i].det
               /\ \A j \in Sealers \ {i} : seal'[j] = seal[j]
         /\ S!Return(i) => /\ seal'[i].step = "idle"
                           /\ \A j \in Sealers \ {i} : seal'[j] = seal[j]
<1>1. seal \in [Sealers -> L!SealStep]
  BY DEF L!SealInv, L!ActsInv, L!SealingTypeOK
<1> QED BY <1>1 DEF S!Goto, S!Return, S!Idle, L!SealStep

\* Requests that come to rest, or have not recorded a letter.
LEMMA QuietSteps ==
  ASSUME ReviewInv, L!SealInv, StoryInv, SealStep, NEW i \in Sealers,
         \/ \E d \in DOMAIN decided : S!BeginSeal(i, d)
         \/ \E a \in DOMAIN acts : S!BeginVoid(i, a)
         \/ S!StoreLetter(i) \/ S!ReadReplaced(i) \/ S!GiveUp(i) \/ S!RecordAbandoned(i)
         \/ S!RemoveLetter(i) \/ S!Complete(i) \/ S!VoidSeal(i) \/ S!Stop(i)
  PROVE  StoryInv'
<1>0. seal \in [Sealers -> L!SealStep] /\ UNCHANGED <<decided, foundation>>
  BY DEF L!SealInv, L!ActsInv, L!SealingTypeOK, SealStep
<1>1. /\ UNCHANGED <<file, told>> /\ slipped \subseteq slipped'
      /\ \A a \in DOMAIN acts : a \in DOMAIN acts' /\ acts'[a] = acts[a]
  <2>1. UNCHANGED <<file, told>> /\ slipped \subseteq slipped'
    BY DEF S!BeginSeal, S!BeginVoid, S!StoreLetter, S!ReadReplaced, S!GiveUp, S!RecordAbandoned,
           S!RemoveLetter, S!Complete, S!VoidSeal, S!Stop, S!history
  <2>2. \/ UNCHANGED acts
        \/ \E r : acts' = Append(acts, r)
    BY DEF S!BeginSeal, S!BeginVoid, S!StoreLetter, S!ReadReplaced, S!GiveUp, S!RecordAbandoned,
           S!RemoveLetter, S!Complete, S!VoidSeal, S!Stop, S!AddAct
  <2>3. acts \in Seq(L!Act)
    BY DEF L!SealInv, L!ActsInv, L!SealingTypeOK, L!Act
  <2> QED BY <2>1, <2>2, <2>3
<1>2. /\ \A j \in Sealers \ {i} : seal'[j] = seal[j]
      /\ seal'[i].step \in {"storing", "voiding", "recording", "inserting", "abandoned",
                            "orphaned", "removing", "idle"}
  <2>1. CASE \E d \in DOMAIN decided : S!BeginSeal(i, d)
    BY <1>0, <2>1 DEF S!BeginSeal
  <2>2. CASE \E a \in DOMAIN acts : S!BeginVoid(i, a)
    BY <1>0, <2>2 DEF S!BeginVoid
  <2>3. CASE S!StoreLetter(i)
    BY <1>0, <2>3 DEF S!StoreLetter, L!SealStep
  <2>4. CASE S!ReadReplaced(i)
    BY <1>0, <2>4 DEF S!ReadReplaced, L!SealStep
  <2>5. CASE S!GiveUp(i)
    BY <2>5, Moved DEF S!GiveUp
  <2>6. CASE S!RecordAbandoned(i)
    BY <2>6, Moved DEF S!RecordAbandoned
  <2>7. CASE S!RemoveLetter(i)
    BY <2>7, Moved DEF S!RemoveLetter
  <2>8. CASE S!Complete(i) \/ S!VoidSeal(i) \/ S!Stop(i)
    BY <2>8, Moved DEF S!Complete, S!VoidSeal, S!Stop
  <2> QED BY <2>1, <2>2, <2>3, <2>4, <2>5, <2>6, <2>7, <2>8
<1>3. ~OnItsWay(i)'
  BY <1>2 DEF OnItsWay
<1>4. Quiet /\ Quiet' => LastIsTold'
  BY <1>0, <1>1, ToldStays
<1> QED BY <1>1, <1>2, <1>3, <1>4, SealerKeeps

\* A letter recorded: a first one is of a decision no letter was sealed for, which
\* the order waits for if it delivers.
LEMMA RecordKeeps ==
  ASSUME ReviewInv, L!SealInv, StoryInv, SealStep, NEW i \in Sealers, S!RecordSeal(i)
  PROVE  StoryInv'
<1>0. seal \in [Sealers -> L!SealStep] /\ UNCHANGED <<decided, foundation>>
  BY DEF L!SealInv, L!ActsInv, L!SealingTypeOK, SealStep
<1>1. /\ UNCHANGED <<file, voided, told, slipped>> /\ seal[i].step = "inserting"
      /\ seal[i].det \in DOMAIN decided
  BY LettersHold DEF S!RecordSeal, S!history
<1>2. Quiet /\ Quiet' => LastIsTold'
  BY <1>0, <1>1, ToldStays
<1>3. CASE S!Refused(seal[i])
  <2>1. UNCHANGED acts /\ S!Goto(i, "removing")
    BY <1>3 DEF S!RecordSeal
  <2>2. seal'[i].step = "removing" /\ \A j \in Sealers \ {i} : seal'[j] = seal[j]
    BY <2>1, Moved
  <2>3. ~OnItsWay(i)'
    BY <2>2 DEF OnItsWay
  <2> QED BY <1>1, <1>2, <2>1, <2>2, <2>3, SealerKeeps
<1>4. CASE ~S!Refused(seal[i])
  <2> DEFINE d == seal[i].det
             row == [det |-> d, replaces |-> seal[i].act, pdf |-> seal[i].pdf]
  <2>0. PICK n \in Nat : n = Len(acts) + 1
    BY LettersHold
  <2>1. /\ acts' = Append(acts, row)
        /\ seal' = [seal EXCEPT ![i].step = "noticing", ![i].act = n]
        /\ ~S!LiveFor(d)
    BY <1>4, <2>0 DEF S!RecordSeal, S!AddAct, S!Refused
  <2>2. row \in L!Act /\ acts \in Seq(L!Act)
    BY <1>0 DEF L!SealInv, L!ActsInv, L!SealingTypeOK, L!Act, L!SealStep
  <2>3. row.replaces = seal[i].act
    OBVIOUS
  <2> HIDE DEF row
  <2>4. /\ \A a \in DOMAIN acts : a \in DOMAIN acts' /\ acts'[a] = acts[a]
        /\ n \in DOMAIN acts' /\ acts'[n] = row /\ n \notin DOMAIN acts
    BY <2>0, <2>1, <2>2
  <2>5. /\ seal'[i].step = "noticing" /\ seal'[i].act = n /\ seal'[i].det = d
        /\ \A j \in Sealers \ {i} : seal'[j] = seal[j]
    BY <1>0, <2>1 DEF L!SealStep
  <2>6. S!IsLive(n)'
    BY <1>1, <2>4, LettersHold DEF S!IsLive, S!IsVoid
  <2>7. ASSUME Quiet, OnItsWay(i)' PROVE Awaited(d) /\ d \in DOMAIN decided
    <3>1. seal[i].act = S!NoAct /\ S!Delivers(d)
      BY <1>0, <2>3, <2>4, <2>5, <2>7 DEF OnItsWay, S!Delivers, KindOf, S!NoAct
    <3> QED BY <1>1, <2>1, <2>7, <3>1, FirstLetter DEF Awaited, Quiet
  <2>8. Stands(i)'
    BY <2>5, <2>6 DEF Stands
  <2> HIDE DEF d
  <2> QED BY <1>1, <1>2, <2>4, <2>5, <2>7, <2>8, SealerKeeps DEF d
<1> QED BY <1>3, <1>4

\* A letter on its way goes on.
LEMMA NoticeKeeps ==
  ASSUME ReviewInv, L!SealInv, StoryInv, SealStep, NEW i \in Sealers, S!Notice(i)
  PROVE  StoryInv'
<1>0. UNCHANGED <<decided, foundation, file, acts, voided, told, slipped>>
  BY DEF SealStep, S!Notice, S!history
<1>1. /\ seal[i].step = "noticing" /\ seal[i].det \in DOMAIN decided
      /\ S!Goto(i, "sealing") \/ S!Return(i)
  BY LettersHold DEF S!Notice
<1>2. Quiet /\ Quiet' => LastIsTold'
  BY <1>0, ToldStays
<1>3. \A j \in Sealers \ {i} : seal'[j] = seal[j]
  BY <1>1, Moved
<1>4. ASSUME Quiet, OnItsWay(i)'
      PROVE  seal'[i].det \in DOMAIN decided /\ Awaited(seal'[i].det) /\ Stands(i)'
  <2>1. seal'[i].step = "sealing" /\ seal'[i].act = seal[i].act /\ seal'[i].det = seal[i].det
    BY <1>1, <1>4, Moved DEF OnItsWay
  <2>2. OnItsWay(i)
    BY <1>0, <1>1, <1>4, <2>1 DEF OnItsWay, S!Delivers, KindOf, S!NoAct
  <2>3. S!IsLive(seal[i].act)
    BY <1>1, <1>4, <2>2 DEF StoryInv, AllStand, Stands
  <2>4. Stands(i)'
    BY <1>0, <2>1, <2>3 DEF Stands, S!IsLive, S!IsVoid
  <2>5. Awaited(seal[i].det)
    BY <2>2 DEF Awaited, OnItsWay
  <2> QED BY <1>1, <2>1, <2>4, <2>5
<1> QED BY <1>0, <1>2, <1>3, <1>4, SealerKeeps

\* It moves the file, which is in review or refused, or has been moved already.
LEMMA DeliveryKeeps ==
  ASSUME ReviewInv, L!SealInv, StoryInv, SealStep, NEW i \in Sealers,
         S!MoveToSealed(i) \/ S!MoveToDelivered(i)
  PROVE  StoryInv'
<1>0. UNCHANGED <<decided, foundation, acts, voided, told, slipped>>
  BY DEF SealStep, S!MoveToSealed, S!MoveToDelivered, S!history
<1>1. /\ seal[i].step \in {"sealing", "delivering"} /\ seal[i].det \in DOMAIN decided
      /\ S!Goto(i, "delivering") \/ S!Goto(i, "settling")
      /\ file' = file \/ file' \in {"sealed", "delivered"}
  BY LettersHold DEF S!MoveToSealed, S!MoveToDelivered
<1>2. Quiet /\ Quiet' => LastIsTold'
  BY <1>0, <1>1, ToldStays
<1>3. /\ \A j \in Sealers \ {i} : seal'[j] = seal[j]
      /\ seal'[i].act = seal[i].act /\ seal'[i].det = seal[i].det
      /\ seal'[i].step \in {"delivering", "settling"}
  BY <1>1, Moved
<1>4. ASSUME Quiet, OnItsWay(i)'
      PROVE  seal'[i].det \in DOMAIN decided /\ Awaited(seal'[i].det) /\ Stands(i)'
  <2>1. OnItsWay(i) /\ Awaited(seal[i].det)
    BY <1>0, <1>1, <1>3, <1>4 DEF OnItsWay, Awaited, S!Delivers, KindOf, S!NoAct
  <2>2. Stands(i) /\ file \in {"under_review", "refused", "sealed", "delivered"}
    BY <1>1, <1>4, <2>1 DEF StoryInv, AllStand, LastIsAwaited
  <2>3. file' \in {"sealed", "delivered"}
    <3>1. CASE S!MoveToSealed(i)
      <4>1. S!LiveOnFile
        BY <2>2, <3>1 DEF S!MoveToSealed, Stands, S!LiveOnFile, S!IsLive
      <4> QED BY <2>2, <3>1, <4>1 DEF S!MoveToSealed, S!MayMove
    <3>2. CASE S!MoveToDelivered(i)
      BY <2>2, <3>2 DEF S!MoveToDelivered, Stands
    <3> QED BY <3>1, <3>2
  <2> QED BY <1>1, <1>3, <2>1, <2>3 DEF Stands
<1> QED BY <1>0, <1>1, <1>2, <1>3, <1>4, SealerKeeps

\* It settles the order for the last decision, for which it was not settled.
LEMMA SettleKeeps ==
  ASSUME ReviewInv, L!SealInv, StoryInv, SealStep, NEW i \in Sealers, S!Settle(i)
  PROVE  StoryInv'
<1> DEFINE d == seal[i].det
<1>0. UNCHANGED <<decided, foundation, file, acts, voided, slipped>>
  BY DEF SealStep, S!Settle, S!history
<1>1. /\ seal[i].step = "settling" /\ told' = Append(told, d) /\ S!Goto(i, "completing")
      /\ told \in Seq(Nat) /\ d \in DOMAIN decided /\ S!Delivers(d)
      /\ acts[seal[i].act].replaces = S!NoAct
      /\ d \notin slipped => ~S!Settled(d)
  BY LettersHold DEF S!Settle
<1>2. /\ \A j \in Sealers \ {i} : seal'[j] = seal[j]
      /\ ~OnItsWay(i)'
  <2>1. seal'[i].step = "completing" /\ \A j \in Sealers \ {i} : seal'[j] = seal[j]
    BY <1>1, Moved
  <2> QED BY <2>1 DEF OnItsWay
<1>3. ASSUME Quiet PROVE LastIsTold'
  <2>1. OnItsWay(i)
    BY <1>1 DEF OnItsWay
  <2>2. Stands(i) /\ d = Len(decided)
    BY <1>1, <1>3, <2>1 DEF StoryInv, AllStand, LastIsAwaited, Awaited
  <2>3. told = <<>>
    <3>1. told # <<>> => told = <<d>>
      BY <1>3, <2>2 DEF StoryInv, LastIsTold
    <3>2. told # <<d>>
      BY <1>1, <1>3 DEF S!Settled, Quiet
    <3> QED BY <3>1, <3>2
  <2>4. told' = <<d>>
    BY <1>1, <2>3
  <2> QED BY <1>0, <1>1, <2>2, <2>4 DEF LastIsTold, Stands, S!Delivers, KindOf
<1> QED BY <1>0, <1>2, <1>3, SealerKeeps

\* Every step of the letters keeps the story.
LEMMA LettersKeep ==
  ASSUME ReviewInv, L!SealInv, StoryInv, SealStep
  PROVE  StoryInv'
<1>1. S!SealingNext
  BY DEF SealStep
<1>2. ASSUME NEW to \in {"sealed", "delivered"}, S!MoveByHand(to) PROVE StoryInv'
  <2>1. /\ UNCHANGED <<acts, voided, told, slipped, seal>> /\ file' \in {"sealed", "delivered"}
        /\ UNCHANGED <<decided, foundation>>
    BY <1>2 DEF S!MoveByHand, S!sealVars, S!history, SealStep
  <2>2. Quiet /\ Quiet' => LastIsTold'
    BY <2>1, ToldStays
  <2> QED BY <2>1, <2>2, SealerKeeps
<1> QED BY <1>1, <1>2, QuietSteps, RecordKeeps, NoticeKeeps, DeliveryKeeps, SettleKeeps
        DEF S!SealingNext, S!SealSteps

\* A decision finds no letter awaited, or crosses it, and is the one the order may
\* wait for from then on.
LEMMA DecidedKeeps ==
  ASSUME ReviewInv, L!SealInv, StoryInv, ReviewStep, decided' # decided
  PROVE  StoryInv'
<1>1. PICK i \in Invocations, k \in Nat :
         /\ file = "under_review" /\ Len(decided) < MaxDecisions
         /\ inv[i].action \in Actions /\ inv[i].engineer \in Engineers
         /\ file' = Target[inv[i].action]
         /\ decided' = Append(decided, [action |-> inv[i].action, engineer |-> inv[i].engineer,
                                        session |-> k])
         /\ crossed' = (crossed \/ SomeAwaited)
  BY DecidingStep
<1>2. PICK n \in Nat : n = Len(decided)
  <2>1. decided \in Seq(Decision)
    BY DEF ReviewInv, ReviewTypeOK
  <2>2. Len(decided) \in Nat
    BY <2>1
  <2> QED BY <2>2
<1>3. /\ DOMAIN decided = 1..n /\ DOMAIN decided' = 1..(n + 1) /\ Len(decided') = n + 1
      /\ \A d \in 1..n : decided'[d] = decided[d]
      /\ decided'[n + 1].action = inv[i].action
  <2> DEFINE row == [action |-> inv[i].action, engineer |-> inv[i].engineer, session |-> k]
  <2>1. row \in Decision /\ row.action = inv[i].action /\ decided' = Append(decided, row)
    BY <1>1 DEF Decision
  <2>2. decided \in Seq(Decision)
    BY DEF ReviewInv, ReviewTypeOK
  <2> HIDE DEF row
  <2> QED BY <1>2, <2>1, <2>2, DecisionAdded
<1>4. UNCHANGED <<sealOnly, foundation, job, refunds>>
  BY DEF ReviewStep
<1>5. JobInv'
  <2>1. \A d \in 1..n : decided[d].action # "refuse"
    BY <1>1, <1>3 DEF StoryInv, JobInv, Refusals
  <2>2. OutcomeTypes'
    BY <1>1, <1>2, <1>3, <1>4, ReviewAssumption DEF StoryInv, JobInv, OutcomeTypes
  <2>3. Refusals'
    BY <1>1, <1>3, <2>1, ReviewAssumption DEF Refusals, Target
  <2>4. JobsOfRefusals' /\ RefundsOfRefusals' /\ Counted'
    BY <1>3, <1>4, <2>1 DEF StoryInv, JobInv, JobsOfRefusals, RefundsOfRefusals, Counted
  <2> QED BY <2>2, <2>3, <2>4 DEF JobInv
<1>6. ASSUME Quiet' PROVE LastIsAwaited' /\ AllStand' /\ LastIsTold'
  <2>1. Quiet /\ ~SomeAwaited /\ LastIsAwaited /\ AllStand /\ told = <<>>
    BY <1>1, <1>4, <1>6 DEF Quiet, sealOnly, StoryInv, LastIsTold
  <2>2. ASSUME NEW d \in 1..n PROVE S!Delivers(d)' <=> S!Delivers(d)
    BY <1>3, <1>4 DEF S!Delivers, KindOf
  <2>3. ASSUME NEW d PROVE S!Sealed(d)' <=> S!Sealed(d)
    BY <1>4 DEF S!Sealed, sealOnly
  <2>4. ASSUME NEW j \in Sealers, seal[j].det \in 1..n, OnItsWay(j)'
        PROVE  OnItsWay(j)
    BY <1>4, <2>2, <2>4 DEF OnItsWay, sealOnly, S!NoAct
  <2>5. ASSUME NEW d \in 1..n PROVE ~Awaited(d)'
    <3>1. ~Awaited(d)
      BY <1>3, <2>1 DEF SomeAwaited
    <3> QED BY <1>4, <2>2, <2>3, <2>4, <3>1 DEF Awaited, sealOnly
  <2>6. S!Delivers(n + 1)' => file' \in {"under_review", "refused"}
    BY <1>1, <1>3 DEF S!Delivers, KindOf, Target
  <2>7. LastIsAwaited'
    BY <1>3, <2>5, <2>6 DEF LastIsAwaited, Awaited
  <2>8. AllStand'
    <3>1. ASSUME NEW j \in Sealers PROVE ~OnItsWay(j)'
      <4>1. OnItsWay(j)' => seal[j].det \in 1..n
        BY <1>3, <1>4, LettersHold DEF OnItsWay, sealOnly
      <4>2. ~(OnItsWay(j) /\ seal[j].det \in 1..n)
        BY <1>3, <2>1 DEF SomeAwaited, Awaited, OnItsWay
      <4> QED BY <2>4, <4>1, <4>2
    <3> QED BY <3>1 DEF AllStand
  <2>9. LastIsTold'
    BY <1>4, <2>1 DEF LastIsTold, sealOnly
  <2> QED BY <2>7, <2>8, <2>9
<1> QED BY <1>5, <1>6 DEF StoryInv

\* What the review does besides moves no file that a letter is awaited for, unless
\* it crosses it.
LEMMA UndecidedKeeps ==
  ASSUME ReviewInv, L!SealInv, StoryInv, ReviewStep, UNCHANGED decided
  PROVE  StoryInv'
<1>1. UNCHANGED <<sealOnly, foundation, job, refunds>> /\ crossed' \in BOOLEAN
  BY DEF ReviewStep, StoryInv, JobInv, OutcomeTypes
<1>2. /\ crossed => crossed'
      /\ \/ UNCHANGED file
         \/ file \in {"evidence_submitted", "revisions_requested"} /\ file' = "under_review"
         \/ file \in {"revisions_requested", "needs_dispatch", "repairs_required"}
              /\ file' = "evidence_submitted"
         \/ file = "under_review" /\ file' = "evidence_submitted"
              /\ crossed' = (crossed \/ SomeAwaited)
  BY UndecidedMoves
<1>3. JobInv'
  <2>1. OutcomeTypes' /\ Refusals'
    BY <1>1, <1>2 DEF StoryInv, JobInv, OutcomeTypes, Refusals
  <2>2. JobsOfRefusals' /\ RefundsOfRefusals' /\ Counted'
    BY <1>1 DEF StoryInv, JobInv, JobsOfRefusals, RefundsOfRefusals, Counted
  <2> QED BY <2>1, <2>2 DEF JobInv
<1>4. ASSUME Quiet' PROVE LastIsAwaited' /\ AllStand' /\ LastIsTold'
  <2>1. Quiet /\ LastIsAwaited /\ AllStand /\ LastIsTold
    BY <1>1, <1>2, <1>4 DEF Quiet, sealOnly, StoryInv
  <2>2. ASSUME NEW d PROVE /\ S!Delivers(d)' <=> S!Delivers(d)
                           /\ S!Sealed(d)' <=> S!Sealed(d)
    BY <1>1 DEF S!Delivers, KindOf, S!Sealed, sealOnly
  <2>3. ASSUME NEW j \in Sealers PROVE OnItsWay(j)' <=> OnItsWay(j)
    BY <1>1, <2>2 DEF OnItsWay, sealOnly, S!NoAct
  <2>4. ASSUME NEW d PROVE Awaited(d)' <=> Awaited(d)
    BY <1>1, <2>2, <2>3 DEF Awaited, sealOnly
  <2>5. \/ UNCHANGED file
        \/ \A d \in DOMAIN decided : ~Awaited(d)
    BY <1>2, <1>4, <2>1 DEF Quiet, LastIsAwaited, SomeAwaited
  <2>6. file \in {"sealed", "delivered"} => UNCHANGED file
    BY <1>2
  <2>7. LastIsAwaited'
    BY <2>1, <2>4, <2>5 DEF LastIsAwaited
  <2>8. AllStand'
    <3> SUFFICES ASSUME NEW j \in Sealers, OnItsWay(j)' PROVE Stands(j)'
      BY DEF AllStand
    <3>1. Stands(j)
      BY <2>1, <2>3 DEF AllStand
    <3> QED BY <1>1, <2>6, <3>1 DEF Stands, S!IsLive, S!IsVoid, sealOnly
  <2>9. LastIsTold'
    BY <1>1, <2>1, <2>2, <2>6 DEF LastIsTold, sealOnly
  <2> QED BY <2>7, <2>8, <2>9
<1> QED BY <1>3, <1>4 DEF StoryInv

\* A job counts the refunds of its order before it writes one down, and leaves the
\* letters alone.
LEMMA JobKeeps ==
  ASSUME ReviewInv, StoryInv, NEW d \in DOMAIN decided, JobStep(d)
  PROVE  StoryInv'
<1>1. /\ UNCHANGED <<file, decided, foundation, crossed>>
      /\ UNCHANGED <<acts, voided, told, seal, slipped>>
  BY JobStepMoves DEF reviewButFaults
<1>2. PICK n \in Nat : n = Len(decided)
  <2>1. decided \in Seq(Decision)
    BY DEF ReviewInv, ReviewTypeOK
  <2>2. Len(decided) \in Nat
    BY <2>1
  <2> QED BY <2>2
<1>3. /\ d \in 1..MaxDecisions /\ job \in [1..MaxDecisions -> JobSteps]
      /\ refunds \in Nat /\ refunds <= 1
  BY <1>2, ReviewAssumption DEF StoryInv, JobInv, OutcomeTypes, Counted, ReviewInv, ReviewTypeOK
<1>4. \E step \in JobSteps :
         /\ job' = [job EXCEPT ![d] = step]
         /\ step # "waiting" => decided[d].action = "refuse"
         /\ step \in {"counting", "reserving", "refunding"} => ~foundation
         /\ step = "reserving" => refunds' = 0
         /\ \/ UNCHANGED refunds
            \/ job[d] = "reserving" /\ step = "refunding" /\ refunds' = refunds + 1
  <2>1. /\ job[d] # "waiting" => decided[d].action = "refuse"
        /\ job[d] \in {"counting", "reserving", "refunding"} => ~foundation
    BY <1>3 DEF StoryInv, JobInv, JobsOfRefusals
  <2>2. CASE AskDeterminations(d)
    BY <2>2 DEF AskDeterminations, JobGoto, LettersInsteadOfRefund, KindOf, JobSteps
  <2>3. CASE CountRefunds(d)
    <3>1. /\ JobGoto(d, IF refunds > 0 THEN "telling" ELSE "reserving")
          /\ UNCHANGED refunds /\ job[d] = "counting"
      BY <2>3 DEF CountRefunds
    <3>2. CASE refunds > 0
      BY <2>1, <3>1, <3>2 DEF JobGoto, JobSteps
    <3>3. CASE ~(refunds > 0)
      BY <1>3, <2>1, <3>1, <3>3 DEF JobGoto, JobSteps
    <3> QED BY <3>2, <3>3
  <2>4. CASE ReserveRefund(d)
    BY <1>3, <2>1, <2>4 DEF ReserveRefund, JobGoto, JobSteps
  <2>5. CASE Refund(d) \/ TellAdmins(d) \/ RunAgain(d)
    BY <1>3, <2>1, <2>5 DEF Refund, TellAdmins, RunAgain, JobGoto, JobSteps
  <2> QED BY <2>2, <2>3, <2>4, <2>5 DEF JobStep
<1>5. JobInv'
  <2>1. PICK step \in JobSteps :
         /\ job' = [job EXCEPT ![d] = step]
         /\ step # "waiting" => decided[d].action = "refuse"
         /\ step \in {"counting", "reserving", "refunding"} => ~foundation
         /\ step = "reserving" => refunds' = 0
         /\ \/ UNCHANGED refunds
            \/ job[d] = "reserving" /\ step = "refunding" /\ refunds' = refunds + 1
    BY <1>4
  <2>0. /\ job' \in [1..MaxDecisions -> JobSteps] /\ job'[d] = step
        /\ \A e \in 1..MaxDecisions \ {d} : job'[e] = job[e]
    BY <1>3, <2>1
  <2>2. OutcomeTypes' /\ Refusals'
    BY <1>1, <1>3, <2>0, <2>1 DEF StoryInv, JobInv, OutcomeTypes, Refusals
  <2>3. JobsOfRefusals'
    BY <1>1, <1>3, <2>0, <2>1 DEF StoryInv, JobInv, JobsOfRefusals
  <2>4. RefundsOfRefusals'
    BY <1>1, <1>3, <2>1 DEF StoryInv, JobInv, JobsOfRefusals, RefundsOfRefusals
  <2>5. Counted'
    <3>1. CASE UNCHANGED refunds
      BY <1>3, <2>0, <2>1, <3>1 DEF StoryInv, JobInv, Counted
    <3>2. CASE job[d] = "reserving" /\ step = "refunding" /\ refunds' = refunds + 1
      <4>1. refunds = 0 /\ refunds' = 1 /\ d = n
        BY <1>2, <1>3, <3>2 DEF StoryInv, JobInv, Counted, JobsOfRefusals, Refusals
      <4>2. ASSUME NEW e \in 1..MaxDecisions, job'[e] = "reserving" PROVE FALSE
        <5>1. e # d /\ job[e] = "reserving"
          BY <1>3, <2>0, <2>1, <3>2, <4>2
        <5>2. e = n
          BY <1>2, <5>1 DEF StoryInv, JobInv, JobsOfRefusals, Refusals
        <5> QED BY <4>1, <5>1, <5>2
      <4> QED BY <4>1, <4>2 DEF Counted
    <3> QED BY <2>1, <3>1, <3>2
  <2> QED BY <2>2, <2>3, <2>4, <2>5 DEF JobInv
<1>6. Quiet' => LastIsAwaited' /\ AllStand' /\ LastIsTold'
  <2>1. ASSUME NEW e PROVE /\ S!Delivers(e)' <=> S!Delivers(e)
                           /\ S!Sealed(e)' <=> S!Sealed(e)
    BY <1>1 DEF S!Delivers, KindOf, S!Sealed
  <2>2. ASSUME NEW j \in Sealers
        PROVE  (OnItsWay(j)' <=> OnItsWay(j)) /\ (Stands(j)' <=> Stands(j))
    BY <1>1, <2>1 DEF OnItsWay, S!NoAct, Stands, S!IsLive, S!IsVoid
  <2>3. ASSUME NEW e PROVE Awaited(e)' <=> Awaited(e)
    BY <1>1, <2>1, <2>2 DEF Awaited
  <2>4. Quiet' => LastIsAwaited /\ AllStand /\ LastIsTold
    BY <1>1 DEF Quiet, StoryInv
  <2> QED BY <1>1, <2>1, <2>2, <2>3, <2>4 DEF LastIsAwaited, AllStand, LastIsTold
<1> QED BY <1>5, <1>6 DEF StoryInv

\* Every step keeps the story.
LEMMA NextStory == ReviewInv /\ L!SealInv /\ StoryInv /\ [OutcomeNext]_outcomeVars => StoryInv'
<1> SUFFICES ASSUME ReviewInv, L!SealInv, StoryInv, [OutcomeNext]_outcomeVars PROVE StoryInv'
  OBVIOUS
<1>1. CASE UNCHANGED outcomeVars
  <2>1. UNCHANGED <<file, decided, foundation, job, refunds, crossed, acts, voided, told, seal, slipped>>
    BY <1>1 DEF outcomeVars, vars, sealOnly
  <2>2. JobInv'
    BY <2>1, JobsStay DEF StoryInv, JobInv, OutcomeTypes
  <2>3. ASSUME NEW e PROVE /\ S!Delivers(e)' <=> S!Delivers(e)
                           /\ S!Sealed(e)' <=> S!Sealed(e)
    BY <2>1 DEF S!Delivers, KindOf, S!Sealed
  <2>4. ASSUME NEW j \in Sealers
        PROVE  (OnItsWay(j)' <=> OnItsWay(j)) /\ (Stands(j)' <=> Stands(j))
    BY <2>1, <2>3 DEF OnItsWay, S!NoAct, Stands, S!IsLive, S!IsVoid
  <2>5. ASSUME NEW e PROVE Awaited(e)' <=> Awaited(e)
    BY <2>1, <2>3, <2>4 DEF Awaited
  <2>6. Quiet' => LastIsAwaited /\ AllStand /\ LastIsTold
    BY <2>1 DEF Quiet, StoryInv
  <2>7. Quiet' => LastIsAwaited' /\ AllStand' /\ LastIsTold'
    BY <2>1, <2>3, <2>4, <2>5, <2>6 DEF LastIsAwaited, AllStand, LastIsTold
  <2> QED BY <2>2, <2>7 DEF StoryInv
<1> QED BY <1>1, DecidedKeeps, UndecidedKeeps, LettersKeep, JobKeeps DEF OutcomeNext

\* Nothing is decided, sealed or refunded at first.
LEMMA InitStory == OutcomeInit => StoryInv
<1> SUFFICES ASSUME OutcomeInit PROVE StoryInv
  OBVIOUS
<1>1. /\ decided = <<>> /\ told = <<>> /\ foundation \in BOOLEAN /\ refunds = 0 /\ crossed = FALSE
      /\ job = [d \in 1..MaxDecisions |-> "waiting"]
      /\ \A i \in Sealers : seal[i].step = "idle"
  BY DEF OutcomeInit, Init, S!SealingInit, S!Idle
<1>2. JobInv
  <2>1. Len(decided) = 0 /\ DOMAIN decided = {} /\ MaxDecisions \in Nat
    BY <1>1, ReviewAssumption
  <2>2. OutcomeTypes
    <3>1. job \in [1..MaxDecisions -> JobSteps]
      BY <1>1 DEF JobSteps
    <3>2. foundation \in BOOLEAN /\ crossed \in BOOLEAN
      BY <1>1
    <3>3. refunds \in Nat
      BY <1>1
    <3> QED BY <2>1, <3>1, <3>2, <3>3 DEF OutcomeTypes
  <2>3. Refusals /\ JobsOfRefusals /\ RefundsOfRefusals /\ Counted
    BY <1>1, <2>1 DEF Refusals, JobsOfRefusals, RefundsOfRefusals, Counted
  <2> QED BY <2>2, <2>3 DEF JobInv
<1>3. LastIsAwaited /\ AllStand /\ LastIsTold
  BY <1>1 DEF LastIsAwaited, AllStand, OnItsWay, LastIsTold
<1> QED BY <1>2, <1>3 DEF StoryInv

\* So the story holds always.
LEMMA AlwaysStory == OutcomeSpec => []StoryInv
<1>1. L!Spec => []L!SealInv
  BY OutcomeConstants, L!AlwaysSealInv
<1> QED BY <1>1, InitStory, NextStory, AlwaysReviewInv, OutcomeImplementsSealing, PTL
        DEF OutcomeSpec

\* The job of review.after_decision: a refused order is refunded once, however often
\* the job is run again, and from wherever its last run stopped.
THEOREM RefundedOnce == OutcomeSpec => []RefusedMoneyGoesBackOnce
<1>1. StoryInv => RefusedMoneyGoesBackOnce
  BY DEF StoryInv, JobInv, Counted, RefusedMoneyGoesBackOnce
<1> QED BY <1>1, AlwaysStory, PTL

\* job-handlers.ts: a refusal is answered by a letter or by a refund, and one decision
\* of the file is settled, unless a decision, a push back or a voiding crossed a
\* letter the order waited for: requests, stops and the job come as they will.
THEOREM OneOutcome == OutcomeSpec => []OneOutcomeUnlessCrossed
<1>1. ReviewInv /\ StoryInv => OneOutcomeUnlessCrossed
  <2> SUFFICES ASSUME ReviewInv, StoryInv, Quiet PROVE RefundOrLetter /\ Len(told) <= 1
    BY DEF OneOutcomeUnlessCrossed, Quiet
  <2>1. CASE told = <<>>
    BY <2>1 DEF RefundOrLetter
  <2>2. CASE told # <<>>
    <3>1. Len(told) = 1 /\ S!Delivers(Len(decided)) /\ Len(decided) \in DOMAIN decided
      BY <2>2 DEF StoryInv, LastIsTold
    <3>2. ASSUME refunds > 0 PROVE FALSE
      <4>1. decided[Len(decided)].action = "refuse" /\ ~foundation
        BY <3>2 DEF StoryInv, JobInv, RefundsOfRefusals, Refusals
      <4>2. [d \in DOMAIN decided |-> KindOf(decided[d].action)][Len(decided)] = "none"
        BY <3>1, <4>1 DEF KindOf
      <4> QED BY <3>1, <4>2 DEF S!Delivers
    <3> QED BY <3>1, <3>2 DEF RefundOrLetter
  <2> QED BY <2>1, <2>2
<1> QED BY <1>1, AlwaysStory, AlwaysReviewInv, PTL
=============================================================================
