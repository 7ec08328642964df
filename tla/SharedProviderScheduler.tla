------------------------- MODULE SharedProviderScheduler -------------------------
(***************************************************************************)
(* The native provider processes that the workspaces of several MRs share: *)
(* SharedProviderScheduler of pkg/terraform/provider_scheduler.go, driven  *)
(* as pkg/controller/external.go and pkg/terraform/workspace.go drive it.  *)
(*                                                                         *)
(* A reconcile gets a runner from Start, shares it with its workspace, and *)
(* counts itself in (Increment) only when it runs the Terraform CLI; it    *)
(* counts itself out (Decrement) by the handle, not by the runner it got.  *)
(* An asynchronous apply or destroy goes on after its reconcile.           *)
(*                                                                         *)
(* Runners have no identity here.  What somebody holds of one is           *)
(* "current" as long as that runner is registered for the handle, and      *)
(* "stale" once it was stopped and replaced.                               *)
(***************************************************************************)
EXTENDS Naturals, FiniteSets

CONSTANTS
    MRs,        \* managed resources, each with one worker and one workspace
    AsyncMRs,   \* those that apply and destroy asynchronously
    Handles,    \* provider configurations
    TTL         \* invocations after which a runner is to be replaced

ASSUME MRsAssumption == IsFiniteSet(MRs) /\ AsyncMRs \subseteq MRs
ASSUME TTLAssumption == TTL \in Nat

VARIABLES
    runners,    \* the registered runner of each handle, with its counts
    workers,    \* the reconcile of each MR
    cli         \* the asynchronous CLI run of each MR

schedulerVars == <<runners, workers, cli>>

--------------------------------------------------------------------------------
(* Types and initial state *)

Holdings == {"none", "current", "stale"}

Runners == [registered: BOOLEAN, inUse: Nat, invocationCount: Nat]

NoRunner  == [registered |-> FALSE, inUse |-> 0, invocationCount |-> 0]
NewRunner == [NoRunner EXCEPT !.registered = TRUE]

\* handle: of the provider configuration in the workspace; got: what Start returned to the
\* reconcile; shared: what the workspace attaches the Terraform CLI to.
Reconciles == [pc: {"idle", "schedule", "share", "begin", "running"},
            run: {"refresh", "plan", "apply"},
            handle: Handles, got: Holdings, shared: Holdings]

CLIStates == {"none", "starting", "running", "releasing", "ending"}

SchedulerTypeOK ==
    /\ runners \in [Handles -> Runners]
    /\ workers \in [MRs -> Reconciles]
    /\ cli \in [MRs -> CLIStates]

SchedulerInit ==
    /\ runners = [h \in Handles |-> NoRunner]
    /\ \E handleOf \in [MRs -> Handles] :
          workers = [m \in MRs |-> [pc |-> "idle", run |-> "refresh", handle |-> handleOf[m],
                                    got |-> "none", shared |-> "none"]]
    /\ cli = [m \in MRs |-> "none"]

--------------------------------------------------------------------------------
(* The counts of a runner *)

(* Slips of the kind the properties are there to catch; no action uses them. *)
ForgetsUsers(r)    == r.invocationCount < TTL
NeverExpires(r)    == TRUE
NeverOverBudget(r) == FALSE
DecrementsTwice(r) == [r EXCEPT !.inUse = @ - 2]
DecrementsAll(r)   == [r EXCEPT !.inUse = 0]

Margin == (TTL * 11) \div 10

Reusable(r)   == r.invocationCount < TTL \/ r.inUse > 0
OverBudget(r) == r.invocationCount > Margin

Increment(r) == [r EXCEPT !.inUse = @ + 1, !.invocationCount = @ + 1]
Decrement(r) == IF r.inUse = 0 THEN r ELSE [r EXCEPT !.inUse = @ - 1]

--------------------------------------------------------------------------------
(* The reconcile worker *)

Goes(m, pc) == workers' = [workers EXCEPT ![m].pc = pc]

\* The provider configuration of an MR may change, but while an operation runs the
\* workspace is left as it is.
Connect(m) ==
    /\ workers[m].pc = "idle"
    /\ \E h \in IF cli[m] = "none" THEN Handles ELSE {workers[m].handle} :
          workers' = [workers EXCEPT ![m].pc = "schedule", ![m].run = "refresh",
                                     ![m].handle = h]
    /\ UNCHANGED <<runners, cli>>

\* The runner does not come up: an error, and the reconcile is retried.
Got(w, m) ==
    \/ workers' = [w EXCEPT ![m].pc = "share", ![m].got = "current"]
    \/ workers' = [w EXCEPT ![m].pc = "idle"]

\* Who holds something of the runner that is stopped is left with it.
Stale(h) ==
    LET Aged(holding) == IF holding = "current" THEN "stale" ELSE holding
    IN  [m \in MRs |-> IF workers[m].handle # h THEN workers[m]
                       ELSE [workers[m] EXCEPT !.got = Aged(@), !.shared = Aged(@)]]

\* Start runs in one critical section.  A refusal requeues the MR, through the event handler
\* or with an error.  Stopping an expired runner does not fail: it has been started before.
ScheduleProvider(m) ==
    LET h == workers[m].handle
        r == runners[h]
    IN  /\ workers[m].pc = "schedule"
        /\ \/ /\ r.registered /\ Reusable(r) /\ OverBudget(r)
              /\ Goes(m, "idle")
              /\ UNCHANGED runners
           \/ /\ r.registered /\ Reusable(r) /\ ~OverBudget(r)
              /\ Got(workers, m)
              /\ UNCHANGED runners
           \/ /\ ~(r.registered /\ Reusable(r))
              /\ runners' = [runners EXCEPT ![h] = NewRunner]
              /\ Got(Stale(h), m)
        /\ UNCHANGED cli

\* The workspace is locked while the Terraform CLI runs in it.
UseProvider(m) ==
    /\ workers[m].pc = "share" /\ cli[m] # "running"
    /\ workers' = [workers EXCEPT ![m].pc = "begin", ![m].shared = workers[m].got,
                                  ![m].got = "none"]
    /\ UNCHANGED <<runners, cli>>

\* Refresh, Plan and the synchronous Apply and Destroy.
BeginSync(m) ==
    /\ workers[m].pc = "begin" /\ cli[m] = "none"
    /\ workers[m].run = "apply" => m \notin AsyncMRs
    /\ runners' = [runners EXCEPT ![workers[m].handle] = Increment(@)]
    /\ Goes(m, "running")
    /\ UNCHANGED cli

\* ApplyAsync and DestroyAsync count the run in before they start the goroutine.
BeginAsync(m) ==
    /\ workers[m].pc = "begin" /\ workers[m].run = "apply"
    /\ m \in AsyncMRs /\ cli[m] = "none"
    /\ runners' = [runners EXCEPT ![workers[m].handle] = Increment(@)]
    /\ cli' = [cli EXCEPT ![m] = "starting"]
    /\ Goes(m, "idle")

\* An operation is in progress: Refresh reports it, and a Delete of the MR that follows
\* finds it running, or recorded as a destroy.
Skip(m) ==
    /\ workers[m].pc = "begin"
    /\ \/ workers[m].run = "refresh" /\ cli[m] # "none"
       \/ workers[m].run = "apply" /\ m \in AsyncMRs
    /\ \/ Goes(m, "idle")
       \/ /\ workers[m].run = "refresh"
          /\ workers' = [workers EXCEPT ![m].pc = "schedule", ![m].run = "apply"]
    /\ UNCHANGED <<runners, cli>>

\* What follows a run depends on its outcome, and on what the MR asks for.
Following(run) ==
    {<<"idle", "refresh">>}
      \cup (IF run = "refresh" THEN {<<"begin", "plan">>} ELSE {})
      \cup (IF run # "apply" THEN {<<"schedule", "apply">>} ELSE {})

EndSync(m) ==
    /\ workers[m].pc = "running"
    /\ runners' = [runners EXCEPT ![workers[m].handle] = Decrement(@)]
    /\ \E next \in Following(workers[m].run) :
          workers' = [workers EXCEPT ![m].pc = next[1], ![m].run = next[2]]
    /\ UNCHANGED cli

Worker(m) ==
    \/ Connect(m) \/ ScheduleProvider(m) \/ UseProvider(m)
    \/ BeginSync(m) \/ BeginAsync(m) \/ Skip(m) \/ EndSync(m)

--------------------------------------------------------------------------------
(* The goroutine of ApplyAsync and DestroyAsync *)

CLIStep(m, from, to) == cli[m] = from /\ cli' = [cli EXCEPT ![m] = to]

LockWorkspace(m) ==
    CLIStep(m, "starting", "running") /\ UNCHANGED <<runners, workers>>

UnlockWorkspace(m) ==
    CLIStep(m, "running", "releasing") /\ UNCHANGED <<runners, workers>>

CountOut(m) ==
    /\ CLIStep(m, "releasing", "ending")
    /\ runners' = [runners EXCEPT ![workers[m].handle] = Decrement(@)]
    /\ UNCHANGED workers

MarkEnd(m) ==
    CLIStep(m, "ending", "none") /\ UNCHANGED <<runners, workers>>

Goroutine(m) == LockWorkspace(m) \/ UnlockWorkspace(m) \/ CountOut(m) \/ MarkEnd(m)

--------------------------------------------------------------------------------

SchedulerNext == \E m \in MRs : Worker(m) \/ Goroutine(m)

\* Reconciles are retried or polled, and the Terraform CLI ends at the latest when its
\* context expires.
SchedulerFairness == \A m \in MRs : WF_schedulerVars(Worker(m)) /\ WF_schedulerVars(Goroutine(m))

SchedulerSpec == SchedulerInit /\ [][SchedulerNext]_schedulerVars
SchedulerFairSpec == SchedulerSpec /\ SchedulerFairness

--------------------------------------------------------------------------------
(* Properties *)

SyncUsers(h)  == {m \in MRs : workers[m].handle = h /\ workers[m].pc = "running"}
AsyncUsers(h) == {m \in MRs : workers[m].handle = h
                              /\ cli[m] \in {"starting", "running", "releasing"}}

\* The use count of a runner is the number of CLI runs that counted themselves in and not
\* yet out: none is counted twice, and none counts itself out of a runner it was never
\* counted in, though both go by a handle whose runner and whose MRs may have changed.
CountsAgree ==
    \A h \in Handles :
        runners[h].inUse = Cardinality(SyncUsers(h)) + Cardinality(AsyncUsers(h))

\* The reuse budget is exceeded by no more than what the reconciles that were given the
\* runner within it still had to run, a refresh and a plan each.
WithinBudget ==
    \A h \in Handles : runners[h].invocationCount <= Margin + 2 * Cardinality(MRs)

\* A runner is stopped and replaced, its counts with it, only while nobody is counted in.
PinnedWhileInUse ==
    [][\A h \in Handles :
          runners'[h].invocationCount < runners[h].invocationCount
              => SyncUsers(h) = {} /\ AsyncUsers(h) = {}]_schedulerVars

\* A runner that has reached its TTL is replaced in the end, however the MRs that share it
\* overlap: beyond the margin nobody is given it any more, and its users go away.
ExpiredIsReplaced ==
    \A h \in Handles :
        runners[h].invocationCount >= TTL ~>
            \/ runners[h].invocationCount < TTL
            \/ \A m \in MRs : workers[m].handle # h

\* The Terraform CLI runs attached to a runner that has not been stopped: "SharedProvider-
\* Scheduler ... will gracefully attempt to replace ProviderRunners whose TTL exceed this
\* maximum, if they are not in-use" (provider_scheduler.go:106-108).
Running(m) == workers[m].pc = "running" \/ cli[m] = "running"

RunsAttached == \A m \in MRs : Running(m) => workers[m].shared = "current"

================================================================================
