----------------------------- MODULE MCCLIWorkspace -----------------------------
(* Faults for the runs of CLIWorkspace. *)
EXTENDS CLIWorkspace, TLC

Upgrades == {"initFails", "restart", "upgrade"}

AllButUpgrades == FaultKinds \ {"upgrade"}

\* The policy of an MR changes to observing and back, and an import fails.
FailedImports == {"observeOnly", "importFails"}

================================================================================
