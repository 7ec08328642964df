------------------------- MODULE MCReconciliationPolicy -------------------------
(* Model values for the runs of ReconciliationPolicy. *)
EXTENDS ReconciliationPolicy, TLC

CONSTANTS r1, r2, r3, k1, k2

OneRequest    == {r1}
TwoRequests   == {r1, r2}
ThreeRequests == {r1, r2, r3}
OneKey        == {k1}
TwoKeys       == {k1, k2}

================================================================================
