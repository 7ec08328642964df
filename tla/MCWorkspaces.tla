------------------------------ MODULE MCWorkspaces ------------------------------
(***************************************************************************)
(* What an MR that is reconciled with the Terraform CLI has to itself, in  *)
(* one run: its workspace, and the provider process of its workspace.      *)
(* They do not meet: `system' says which one takes steps, and the other    *)
(* stays as it is at first.                                                *)
(***************************************************************************)
EXTENDS MCCLIWorkspace, WorkspaceProvider

VARIABLE system

allVars == <<system, vars, providerVars>>

ASSUME WorkspacesAssumption == CLIAssumption /\ BoundsAssumption

\* The workspace that rests does so in one of its initial states; the specs are alike.
InitAll ==
    /\ system \in {"workspace", "provider"}
    /\ Init /\ ProviderInit
    /\ mr.spec = NoMR.spec
    /\ system = "provider" => ~setup.async /\ ~setup.generated

NextAll ==
    /\ UNCHANGED system
    /\ \/ system = "workspace" /\ Next /\ UNCHANGED providerVars
       \/ system = "provider" /\ ProviderNext /\ UNCHANGED vars

\* The fairness of each module, for the system that takes steps.
FairnessAll ==
    /\ WF_vars(system = "workspace" /\ Worker)
    /\ WF_vars(system = "workspace" /\ (RunAsync \/ EndAsync))
    /\ WF_vars(system = "workspace" /\ Callback)
    /\ \A n \in Attempts :
          /\ WF_providerVars(system = "provider" /\ Watch(n))
          /\ SF_providerVars(system = "provider" /\ ClearConfig(n))
    /\ WF_providerVars(system = "provider" /\ StartTimesOut)

SpecAll == InitAll /\ [][NextAll]_allVars /\ FairnessAll

\* An MR that exists is worked on only in the workspace.
AppliedInTheEnd == system = "workspace" => SpecApplied

================================================================================
