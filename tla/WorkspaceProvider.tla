--------------------------- MODULE WorkspaceProvider ---------------------------
(***************************************************************************)
(* The provider scheduler of one workspace, WorkspaceProviderScheduler of  *)
(* pkg/terraform/provider_scheduler.go, over the provider process that     *)
(* SharedProvider of provider_runner.go keeps.  The reconciles of an MR    *)
(* start the process, run the CLI attached to it, perhaps leave an         *)
(* operation running in the background, and ask for a stop; a goroutine    *)
(* waits for the users and then stops the process.  Each attempt to start  *)
(* a process has a goroutine of its own, which lives as long as that.      *)
(*                                                                         *)
(* Start holds the runner's lock while it waits for the process to         *)
(* announce itself: the reconcile is "starting" for as long.                  *)
(***************************************************************************)
EXTENDS Naturals, FiniteSets

CONSTANTS
    MaxStarts,      \* bound: attempts to start a process
    MaxStoppers     \* bound: goroutines of Stop at once

BoundsAssumption == MaxStarts \in Nat \ {0} /\ MaxStoppers \in Nat \ {0}

VARIABLES
    runner,     \* the runner: the attempt whose process it shares, its stop channel
    attempts,   \* the goroutines of Start
    stopped,    \* the stop channels that were written and closed
    reconcile,     \* the reconcile: its position and the process it was given
    users,      \* the wait group: CLI runs that use the process
    stoppers    \* the goroutines of Stop: how many wait, and how many are past that

providerVars == <<runner, attempts, stopped, reconcile, users, stoppers>>

--------------------------------------------------------------------------------

Attempts == 1..MaxStarts
None     == 0               \* no process, or a nil channel
Handles  == Attempts \cup {None}

AttemptPCs == {"new", "forked", "scanning", "select", "waiting", "clear", "done"}
Answers    == {"attached", "failed", "exited"}

\* A channel has the number of the attempt that made it.
AttemptRecords == [pc: AttemptPCs, up: BOOLEAN, answer: SUBSET Answers, channel: Handles]

NewAttempt == [pc |-> "new", up |-> FALSE, answer |-> {}, channel |-> None]

ReconcilePCs == {"idle", "starting", "started", "running"}

\* Every variable has its type.
ProviderTypeOK ==
    /\ runner \in [reattachConfig: Handles, stopCh: Handles]
    /\ attempts \in [Attempts -> AttemptRecords]
    /\ stopped \subseteq Attempts
    /\ reconcile \in [pc: ReconcilePCs, provider: Handles, async: BOOLEAN]
    /\ users \in 0..2
    /\ stoppers \in [waiting: 0..MaxStoppers, passed: 0..MaxStoppers]

ProviderInit ==
    /\ runner = [reattachConfig |-> None, stopCh |-> None]
    /\ attempts = [n \in Attempts |-> NewAttempt]
    /\ stopped = {}
    /\ reconcile = [pc |-> "idle", provider |-> None, async |-> FALSE]
    /\ users = 0
    /\ stoppers = [waiting |-> 0, passed |-> 0]

(* Slips of the kind the properties are there to catch; no action uses them. *)
NeverLocked  == TRUE
KeepsChannel == runner
ClearsOther  == [runner EXCEPT !.stopCh = None]

LockFree == reconcile.pc # "starting"

WithoutChannel == [runner EXCEPT !.stopCh = None]
WithoutConfig  == [runner EXCEPT !.reattachConfig = None]

Tried   == {n \in Attempts : attempts[n].pc # "new"}
Current == CHOOSE n \in Tried : \A m \in Tried : m <= n

--------------------------------------------------------------------------------
(* The reconcile: Start, CLI runs, Stop *)

ReturnConfig ==
    /\ reconcile.pc = "idle"
    /\ runner.reattachConfig # None
    /\ reconcile' = [reconcile EXCEPT !.pc = "started", !.provider = runner.reattachConfig]
    /\ UNCHANGED <<runner, attempts, stopped, users, stoppers>>

ForkProvider ==
    /\ reconcile.pc = "idle"
    /\ runner.reattachConfig = None
    /\ \E n \in Attempts :
          /\ n = Cardinality(Tried) + 1
          /\ attempts' = [attempts EXCEPT ![n].pc = "forked"]
          /\ runner' = [runner EXCEPT !.stopCh = n]
    /\ reconcile' = [reconcile EXCEPT !.pc = "starting"]
    /\ UNCHANGED <<stopped, users, stoppers>>

Attach ==
    /\ reconcile.pc = "starting"
    /\ "attached" \in attempts[Current].answer
    /\ runner' = [runner EXCEPT !.reattachConfig = Current]
    /\ reconcile' = [reconcile EXCEPT !.pc = "started", !.provider = Current]
    /\ UNCHANGED <<attempts, stopped, users, stoppers>>

\* A process that exits with status 0 leaves a nil error: Start returns neither an error nor
\* a configuration, and the CLI runs with a provider of its own.
StartFails ==
    /\ reconcile.pc = "starting"
    /\ \/ /\ "failed" \in attempts[Current].answer
          /\ reconcile' = [reconcile EXCEPT !.pc = "idle"]
       \/ /\ "exited" \in attempts[Current].answer
          /\ reconcile' = [reconcile EXCEPT !.pc = "started", !.provider = None]
    /\ UNCHANGED <<runner, attempts, stopped, users, stoppers>>

StartTimesOut ==
    /\ reconcile.pc = "starting"
    /\ reconcile' = [reconcile EXCEPT !.pc = "idle"]
    /\ UNCHANGED <<runner, attempts, stopped, users, stoppers>>

BeginSync ==
    /\ reconcile.pc = "started"
    /\ reconcile' = [reconcile EXCEPT !.pc = "running"]
    /\ users' = users + 1
    /\ UNCHANGED <<runner, attempts, stopped, stoppers>>

EndSync ==
    /\ reconcile.pc = "running"
    /\ reconcile' = [reconcile EXCEPT !.pc = "started"]
    /\ users' = users - 1
    /\ UNCHANGED <<runner, attempts, stopped, stoppers>>

BeginBackground ==
    /\ reconcile.pc = "started"
    /\ ~reconcile.async
    /\ reconcile' = [reconcile EXCEPT !.async = TRUE]
    /\ users' = users + 1
    /\ UNCHANGED <<runner, attempts, stopped, stoppers>>

EndBackground ==
    /\ reconcile.async
    /\ reconcile' = [reconcile EXCEPT !.async = FALSE]
    /\ users' = users - 1
    /\ UNCHANGED <<runner, attempts, stopped, stoppers>>

\* The deferred stopProvider: a new goroutine.
Disconnect ==
    /\ reconcile.pc = "started"
    /\ stoppers.waiting + stoppers.passed < MaxStoppers
    /\ reconcile' = [reconcile EXCEPT !.pc = "idle", !.provider = None]
    /\ stoppers' = [stoppers EXCEPT !.waiting = @ + 1]
    /\ UNCHANGED <<runner, attempts, stopped, users>>

ReconcileStep ==
    \/ ReturnConfig \/ ForkProvider \/ Attach \/ StartFails \/ StartTimesOut
    \/ BeginSync \/ EndSync \/ BeginBackground \/ EndBackground \/ Disconnect

--------------------------------------------------------------------------------
(* The goroutines of Stop *)

WaitForUsers ==
    /\ stoppers.waiting > 0
    /\ users = 0
    /\ stoppers' = [waiting |-> stoppers.waiting - 1, passed |-> stoppers.passed + 1]
    /\ UNCHANGED <<runner, attempts, stopped, reconcile, users>>

StopRunner ==
    /\ stoppers.passed > 0
    /\ LockFree
    /\ stoppers' = [stoppers EXCEPT !.passed = @ - 1]
    /\ IF runner.stopCh = None
       THEN UNCHANGED <<runner, stopped>>           \* "not started yet"
       ELSE /\ stopped' = stopped \cup {runner.stopCh}
            /\ runner' = WithoutChannel
    /\ UNCHANGED <<attempts, reconcile, users>>

Stopper == WaitForUsers \/ StopRunner

--------------------------------------------------------------------------------
(* The goroutine of an attempt *)

ForkFails(n) ==
    /\ attempts[n].pc = "forked"
    /\ attempts' = [attempts EXCEPT ![n].pc = "clear", ![n].answer = @ \cup {"failed"}]
    /\ UNCHANGED <<runner, stopped, reconcile, users, stoppers>>

Fork(n) ==
    /\ attempts[n].pc = "forked"
    /\ attempts' = [attempts EXCEPT ![n].pc = "scanning", ![n].up = TRUE]
    /\ UNCHANGED <<runner, stopped, reconcile, users, stoppers>>

Announce(n) ==
    /\ attempts[n].pc = "scanning"
    /\ attempts' = [attempts EXCEPT ![n].pc = "select", ![n].answer = @ \cup {"attached"}]
    /\ UNCHANGED <<runner, stopped, reconcile, users, stoppers>>

\* The output ends without the line, as it does when the process exits.
OutputEnds(n) ==
    /\ attempts[n].pc = "scanning"
    /\ ~attempts[n].up
    /\ attempts' = [attempts EXCEPT ![n].pc = "select"]
    /\ UNCHANGED <<runner, stopped, reconcile, users, stoppers>>

\* The select statement reads the runner's channel without the lock.
Select(n) ==
    /\ attempts[n].pc = "select"
    /\ attempts' = [attempts EXCEPT ![n].pc = "waiting", ![n].channel = runner.stopCh]
    /\ UNCHANGED <<runner, stopped, reconcile, users, stoppers>>

SeeExit(n) ==
    /\ attempts[n].pc = "waiting"
    /\ ~attempts[n].up
    /\ \E verdict \in {"failed", "exited"} :
          attempts' = [attempts EXCEPT ![n].pc = "clear", ![n].answer = @ \cup {verdict}]
    /\ UNCHANGED <<runner, stopped, reconcile, users, stoppers>>

SeeStop(n) ==
    /\ attempts[n].pc = "waiting"
    /\ attempts[n].channel \in stopped
    /\ attempts' = [attempts EXCEPT ![n].pc = "clear", ![n].up = FALSE]
    /\ UNCHANGED <<runner, stopped, reconcile, users, stoppers>>

\* The deferred function.  It clears the configuration of whichever process is there.
ClearConfig(n) ==
    /\ attempts[n].pc = "clear"
    /\ LockFree
    /\ runner' = WithoutConfig
    /\ attempts' = [attempts EXCEPT ![n].pc = "done", ![n].channel = None]
    /\ UNCHANGED <<stopped, reconcile, users, stoppers>>

Watch(n) ==
    ForkFails(n) \/ Fork(n) \/ OutputEnds(n) \/ Select(n) \/ SeeExit(n) \/ SeeStop(n)

ProcessExits(n) ==
    /\ attempts[n].up
    /\ attempts' = [attempts EXCEPT ![n].up = FALSE]
    /\ UNCHANGED <<runner, stopped, reconcile, users, stoppers>>

AttemptStep ==
    \E n \in Attempts : Watch(n) \/ Announce(n) \/ ClearConfig(n) \/ ProcessExits(n)

ProviderNext == ReconcileStep \/ Stopper \/ AttemptStep

ProviderSpec == ProviderInit /\ [][ProviderNext]_providerVars

\* A goroutine gets its processor, and the lock in the end though others take it between;
\* Start gives up after its timeout.
ProviderFairness ==
    /\ \A n \in Attempts : WF_providerVars(Watch(n)) /\ SF_providerVars(ClearConfig(n))
    /\ WF_providerVars(StartTimesOut)

ProviderFairSpec == ProviderSpec /\ ProviderFairness

--------------------------------------------------------------------------------
(* Properties *)

\* Stop writes to a channel that has room: the channel it closes was not written before, so
\* it neither blocks with the lock nor panics (provider_runner.go:229).
StopNeverBlocks == runner.stopCh \notin stopped

\* The configuration of a process that ended does not stay: the next Start makes a new one.
DeadIsForgotten ==
    \A n \in Attempts :
        [](runner.reattachConfig = n /\ ~attempts[n].up => <>(runner.reattachConfig # n))

\* "Start starts a shared gRPC server if not already running": there is one process at most
\* whose goroutine nobody has told to stop.
OneProcess ==
    Cardinality({n \in Attempts : attempts[n].up /\ attempts[n].channel \notin stopped}) <= 1

================================================================================
