---------------------------- MODULE MCAsyncExternal ----------------------------
(* Model values and symmetry for the runs of AsyncExternal. *)
EXTENDS AsyncExternal, TLC

CONSTANTS A, B, n1, i1, i2, g1, g2

Named     == {n1}
Generated == {i1, i2}
TwoSpecs  == {A, B}
TwoSlots  == {g1, g2}

ProviderFaults ==
    {"createFails", "createPartial", "updateFails", "deleteFails", "readFails"}

AllButMisses == ProviderFaults \cup
    {"apiFails", "crash", "drift", "vanish", "spec", "recreate"}

\* Neither an unread MR, nor a restart, nor another hand on the external resource.
Undisturbed == {"createPartial", "updateFails", "readFails", "spec"}

\* What a fair schedule overcomes: everything but an interrupted creation.
Transient == ProviderFaults \cup {"readMisses", "apiFails", "drift", "spec"}

OnlyFailures == {"createFails", "updateFails", "drift"}

NoFaults == {}

\* Sound for the safety runs only.  A generated identifier is any of Ids, so the one
\* the spec would name (NameId) plays no role there.
SlotSymmetry == Permutations(TwoSlots)
FullSymmetry == Permutations(TwoSlots) \cup Permutations({i1, i2})

================================================================================
