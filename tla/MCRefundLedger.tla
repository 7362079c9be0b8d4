--------------------------- MODULE MCRefundLedger ---------------------------
\* RefundLedger, with a decision that gives half of the charge back.
EXTENDS RefundLedger, TLC

Symmetry == Permutations(Calls) \cup Permutations(Deliveries)

\* Once something was stopped or lost, one event fewer is followed.
FewerEventsAfterAFault == faults > 0 => Len(events) < MaxEvents
=============================================================================
