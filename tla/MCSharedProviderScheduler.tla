----------------------- MODULE MCSharedProviderScheduler -----------------------
(* Model values for the runs of SharedProviderScheduler. *)
EXTENDS SharedProviderScheduler, TLC

CONSTANTS m1, m2, m3, h1, h2

TwoMRs     == {m1, m2}
ThreeMRs   == {m1, m2, m3}
OneAsync   == {m1}
OneHandle  == {h1}
TwoHandles == {h1, h2}

================================================================================
