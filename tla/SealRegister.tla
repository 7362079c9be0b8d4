---------------------------- MODULE SealRegister ----------------------------
(***************************************************************************)
(* What the register of seal acts promises of a file's letters             *)
(* (eng_seal_acts, 0062 and 0097): a letter is sealed, voided by whoever   *)
(* sealed it, and sealed again, and each seal names the voided one it      *)
(* replaces, unless its determination slipped: then a letter may name none *)
(* although there is one to name, and starts a second chain.  Nothing is   *)
(* said of how a seal comes about: module Sealing shows that it comes      *)
(* about like this.                                                        *)
(***************************************************************************)
EXTENDS Naturals, Sequences

CONSTANT Determinations   \* what letters are sealed for

VARIABLES
    register,  \* the seal acts, in the order they were recorded
    slipped    \* the determinations a letter of which may name none although it could

vars == <<register, slipped>>

NoAct == 0
Of(d) == {a \in DOMAIN register : register[a].det = d}
Live(d) == {a \in Of(d) : register[a].live}
Unreplaced(d) ==
    {a \in Of(d) : ~register[a].live /\ \A b \in DOMAIN register : register[b].replaces # a}

Init == register = <<>> /\ slipped = {}

Act(d, replaces) == [det |-> d, live |-> TRUE, replaces |-> replaces]

\* A letter is sealed while none of its determination is, and replaces some
\* voided one that nothing replaces, if there is one.
Seal(d) ==
    /\ Live(d) = {}
    /\ \/ /\ Unreplaced(d) = {} \/ d \in slipped
          /\ register' = Append(register, Act(d, NoAct))
       \/ \E a \in Unreplaced(d) : register' = Append(register, Act(d, a))
    /\ UNCHANGED slipped

\* A seal that no longer stands is voided, and stays; nothing else changes, but
\* that its determination may slip by it.
Void(a) ==
    /\ register[a].live
    /\ register' = [register EXCEPT ![a].live = FALSE]
    /\ slipped' \in {slipped, slipped \cup {register[a].det}}

Next == (\E d \in Determinations : Seal(d)) \/ (\E a \in DOMAIN register : Void(a))
Spec == Init /\ [][Next]_vars

-----------------------------------------------------------------------------

RegisterTypeOK ==
    register \in Seq([det : Determinations, live : BOOLEAN, replaces : Nat])

\* A determination never has two letters that stand.
OneLiveLetter ==
    \A d \in Determinations : \A a, b \in Live(d) : a = b

\* No letter is replaced twice, and what replaces one is of its determination and
\* was sealed later.
ReplacedOnce ==
    \A a \in DOMAIN register : LET r == register[a].replaces IN r # NoAct =>
       /\ r \in DOMAIN register /\ r < a /\ register[r].det = register[a].det
       /\ \A b \in DOMAIN register : register[b].replaces = r => a = b

\* The act of the same determination sealed last before this one.
Previous(a, b) ==
    /\ b < a /\ register[b].det = register[a].det
    /\ \A c \in DOMAIN register : b < c /\ c < a => register[c].det # register[a].det

\* The acts of a determination that did not slip are one chain: a letter replaces
\* the one sealed before it, the first replaces none, and only the last may stand.
OneChain ==
    \A a \in DOMAIN register : register[a].det \notin slipped =>
       /\ register[a].replaces = NoAct <=>
             ~\E b \in DOMAIN register : b < a /\ register[b].det = register[a].det
       /\ register[a].replaces # NoAct =>
             register[a].replaces \in DOMAIN register /\ Previous(a, register[a].replaces)
       /\ register[a].live =>
             \A b \in DOMAIN register : b > a => register[b].det # register[a].det

=============================================================================
