---------------------------- MODULE OrderLedger -----------------------------
(***************************************************************************)
(* What the payment path promises about one order, with the checkouts,     *)
(* webhooks, sweeps and retries hidden: every charge the firm takes is     *)
(* written down once, the first one puts the order to work, any other is   *)
(* flagged for a person, and an order is only closed while no money is on  *)
(* file for it.  PaymentEvents is shown to implement this module.          *)
(***************************************************************************)
CONSTANT Sessions  \* the checkouts that can be paid, each with its own charge

VARIABLES
    order,    \* the order's status
    charged,  \* the sessions whose charge is on file
    flagged,  \* the charges written down as unexpected
    work      \* whether the order's work has been released

ledgerVars == <<order, charged, flagged, work>>

Init ==
    /\ order = "awaiting_payment"
    /\ charged = {}
    /\ flagged = {}
    /\ work = FALSE

\* The first charge: recorded, and the order is in fulfilment with it.
ReceivePayment(s) ==
    /\ order = "awaiting_payment"
    /\ order' = "in_fulfilment"
    /\ charged' = charged \cup {s}
    /\ UNCHANGED <<flagged, work>>

\* A charge the order's state cannot take: recorded and flagged.
ReceiveUnexpected(s) ==
    /\ order # "awaiting_payment"
    /\ s \notin charged
    /\ charged' = charged \cup {s}
    /\ flagged' = flagged \cup {s}
    /\ UNCHANGED <<order, work>>

Close ==
    /\ order = "awaiting_payment"
    /\ order' = "cancelled"
    /\ UNCHANGED <<charged, flagged, work>>

Refund ==
    /\ order = "in_fulfilment"
    /\ order' = "refunded"
    /\ UNCHANGED <<charged, flagged, work>>

\* The promise says no more of a refunded order than the code does: a release
\* under way when the refund lands still finishes.
ReleaseWork ==
    /\ order \in {"in_fulfilment", "refunded"}
    /\ work' = TRUE
    /\ UNCHANGED <<order, charged, flagged>>

Next ==
    \/ \E s \in Sessions : ReceivePayment(s) \/ ReceiveUnexpected(s)
    \/ Close \/ Refund \/ ReleaseWork

Spec == Init /\ [][Next]_ledgerVars

-----------------------------------------------------------------------------

\* One charge put the order to work, if it is or was at work, and every other
\* charge on file is flagged: no money is written down and forgotten, and no
\* second charge releases the work a second time.
EveryChargeAccounted ==
    /\ flagged \subseteq charged
    /\ \E S \in SUBSET Sessions :
          /\ charged = flagged \cup S
          /\ S \cap flagged = {}
          /\ IF order \in {"in_fulfilment", "refunded"}
             THEN \E s \in Sessions : S = {s}
             ELSE S = {}

=============================================================================
