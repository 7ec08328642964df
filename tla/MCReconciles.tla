------------------------------ MODULE MCReconciles ------------------------------
(***************************************************************************)
(* What the reconciles of several MRs share, and what one of them makes of *)
(* its MR, in one run: the scheduler of shared provider processes, the     *)
(* policies with their rate limiter, that limiter under any calls, the     *)
(* plans of the framework client and the parameters of an MR.              *)
(* They do not meet: `system' says which one takes steps, and the others   *)
(* stay as they are at first.                                              *)
(***************************************************************************)
EXTENDS MCReconciliationPolicy, MCSharedProviderScheduler, ManagedParameters, ProposedState

VARIABLE system

\* What the user sets of the resource of the framework client, and the values it may have.
AllStrings == STRING
OneLabel   == {"l"}

Bare(key) == [key |-> key, tier |-> Null, id |-> Null]

ExampleParameters ==
    [name |-> {"n", "m"}, size |-> {Null, "s"}, mode |-> {Null, "m"},
     net |-> {Null, [cidr |-> "c", id |-> Null]},
     ports |-> {Null, <<[port |-> "p", id |-> Null]>>,
                <<[port |-> "q", id |-> Null], [port |-> "p", id |-> Null]>>},
     labels |-> {Null, [l |-> [value |-> "v", id |-> Null]]},
     disks |-> {<<>>, <<Bare("a")>>, <<[Bare("b") EXCEPT !.tier = "t"]>>, <<Bare("b"), Bare("a")>>}]

ASSUME FrameworkAssumption == ValuesAssumption /\ EditsAssumption

allVars == <<system, vars, schedulerVars, parametersVars, frameworkVars>>

\* The MR whose policy is followed; the limiter alone is called for all of them.
Reconciled == r1

\* The systems that rest do so in one of their initial states.
InitAll ==
    /\ system \in {"scheduler", "policy", "limiter", "framework", "parameters"}
    /\ Init /\ SchedulerInit /\ ParametersInit /\ FrameworkInit
    /\ \A m \in MRs : workers[m].handle = h1
    /\ \A r \in Requests : system # "policy" \/ r # Reconciled => policy[r] = NoKey
    /\ system # "parameters" => policies = "all"

\* Bound: consecutive failures of a request.
NextLimiter ==
    /\ LimiterNext
    /\ \A r \in Requests : NumRequeues(r)' <= MaxFailures

\* Bound: only the MR with an asynchronous run changes its provider configuration, to and
\* from the one that the other MR has.
NextScheduler ==
    /\ SchedulerNext
    /\ \A m \in MRs \ AsyncMRs : workers[m].handle' = h1

NextAll ==
    /\ UNCHANGED system
    /\ \/ system = "scheduler" /\ NextScheduler
          /\ UNCHANGED <<vars, parametersVars, frameworkVars>>
       \/ system = "policy" /\ StepOf(Reconciled)
          /\ UNCHANGED <<schedulerVars, parametersVars, frameworkVars>>
       \/ system = "limiter" /\ NextLimiter
          /\ UNCHANGED <<envVars, worker, schedulerVars, parametersVars, frameworkVars>>
       \/ system = "parameters" /\ ParametersNext
          /\ UNCHANGED <<vars, schedulerVars, frameworkVars>>
       \/ system = "framework" /\ FrameworkNext
          /\ UNCHANGED <<vars, schedulerVars, parametersVars>>

\* The fairness of each module, for the system that takes steps.
FairnessAll ==
    /\ \A m \in MRs : /\ WF_schedulerVars(system = "scheduler" /\ Worker(m))
                       /\ WF_schedulerVars(system = "scheduler" /\ Goroutine(m))
    /\ WF_vars(system = "policy" /\ Reconcile(Reconciled))
    /\ WF_vars(system = "policy" /\ CacheSync(Reconciled))
    /\ SF_vars(system = "policy" /\ PolicyIsRead(Reconciled))

SpecAll == InitAll /\ [][NextAll]_allVars /\ FairnessAll

--------------------------------------------------------------------------------
(* Properties, under names of their own where they are not those of a module *)

\* Every variable of these systems has its type.
ReconcilesTypeOK == TypeOK /\ SchedulerTypeOK /\ ParametersTypeOK /\ FrameworkTypeOK

\* The policy of the MR decides on its override in the end.
PolicyDecides == PolicyApplied(Reconciled)

================================================================================
