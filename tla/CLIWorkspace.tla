----------------------------- MODULE CLIWorkspace -----------------------------
(***************************************************************************)
(* One managed resource (MR) that is reconciled with the Terraform CLI:    *)
(* the external client of pkg/controller/external.go over the workspace of *)
(* the MR, pkg/terraform/{workspace,store,files,finalizer}.go.             *)
(*                                                                         *)
(* A workspace is a directory with the desired configuration               *)
(* (main.tf.json), the Terraform state and the lock file of `init'; the    *)
(* store keeps an Operation record for it.  The reconcile worker prepares  *)
(* the files, refreshes, plans and applies; with UseAsync, apply and       *)
(* destroy run in a goroutine that outlives the reconcile.  Terraform, the *)
(* managed reconciler and the API server are not part of this repository.  *)
(***************************************************************************)
EXTENDS Operation, Naturals

CONSTANTS
    Specs,          \* desired configurations
    Ids,            \* identifiers of instances in the external API
    NoId,           \* the empty identifier
    NameId,         \* the identifier computed from the external name, unless it is generated
    Gone,           \* the value of an instance that does not exist
    Versions,       \* the provider versions a controller may require
    NoVersion,      \* the lock file is not there
    Faults,         \* the disturbances that may happen
    MaxFaults       \* bound: how many happen in all

FaultKinds ==
    {"applyFails", "applyPartial", "destroyFails", "refreshFails", "planFails",
     "importFails", "initFails", "apiFails", "restart", "dirLost", "upgrade", "observeOnly",
     "spec", "drift", "recreate"}

CLIAssumption ==
    /\ Faults \subseteq FaultKinds /\ MaxFaults \in Nat
    /\ NoId \notin Ids /\ NameId \in Ids /\ Gone \notin Specs /\ Specs # {}
    /\ NoVersion \notin Versions /\ Versions # {}

VARIABLES
    mr,         \* the managed resource
    world,      \* the external API
    setup,      \* the configuration of its kind and of the provider
    store,      \* the entry of the workspace store
    dir,        \* the directory of the workspace
    worker,     \* the reconcile in progress
    cli,        \* the goroutine of ApplyAsync or DestroyAsync
    callback,   \* is a callback under way?
    budget,     \* disturbances still to come
    lost        \* history, for the properties: has a state gone that had an instance?

vars == <<mr, world, setup, store, dir, worker, cli, callback, budget, lost>>

--------------------------------------------------------------------------------
(* Types and initial state *)

AnyId == Ids \cup {NoId}

MRs == [present: BOOLEAN, deleting: BOOLEAN, finalizer: BOOLEAN, observeOnly: BOOLEAN,
        available: BOOLEAN, extName: AnyId, spec: Specs]

NoMR == [present |-> FALSE, deleting |-> FALSE, finalizer |-> FALSE, observeOnly |-> FALSE,
         available |-> FALSE, extName |-> NoId, spec |-> CHOOSE s \in Specs : TRUE]

NewMR(s) == [NoMR EXCEPT !.present = TRUE, !.spec = s,
                         !.extName = IF setup.generated THEN NoId ELSE NameId]

\* Terraform's state file: not there, without the resource, or with an instance.
States == [file: BOOLEAN, instance: BOOLEAN, id: AnyId, attrs: Specs, tainted: BOOLEAN]

NoState    == [file |-> FALSE, instance |-> FALSE, id |-> NoId, attrs |-> NoMR.spec,
               tainted |-> FALSE]
EmptyState == [NoState EXCEPT !.file = TRUE]

Instance(id, attrs) ==
    [EmptyState EXCEPT !.instance = TRUE, !.id = id, !.attrs = attrs]

\* main.tf.json: prevent_destroy is set unless the MR is being deleted.
Mains  == [file: BOOLEAN, spec: Specs, protected: BOOLEAN, version: Versions]
NoMain == [file |-> FALSE, spec |-> NoMR.spec, protected |-> FALSE,
           version |-> CHOOSE v \in Versions : TRUE]

NoDir == [main |-> NoMain, state |-> NoState, lock |-> NoVersion]

CLIOperations == [type: {"", "apply", "destroy"}, started: BOOLEAN, ended: BOOLEAN,
                  err: {NoError}]

NoWorkspace == [known |-> FALSE, terraformID |-> NoId, op |-> NewOperation]

WorkerPCs == {"idle", "connect", "write", "upgrade", "init", "observe", "refresh",
              "import", "plan", "decide", "start"}

Observations == [exists: BOOLEAN, upToDate: BOOLEAN, lateInit: BOOLEAN]

Absent    == [exists |-> FALSE, upToDate |-> FALSE, lateInit |-> FALSE]
UpToDate  == [exists |-> TRUE, upToDate |-> TRUE, lateInit |-> FALSE]
LateInit  == [UpToDate EXCEPT !.lateInit = TRUE]

IdleWorker == [pc |-> "idle", view |-> NoMR, fresh |-> FALSE, obs |-> Absent]

CLIs  == [running: BOOLEAN, type: {"apply", "destroy"}, done: BOOLEAN]
NoCLI == [running |-> FALSE, type |-> "apply", done |-> FALSE]

\* Every variable has its type.
TypeOK ==
    /\ mr \in MRs
    /\ world \in [Ids -> Specs \cup {Gone}]
    /\ setup \in [async: BOOLEAN, generated: BOOLEAN, version: Versions]
    /\ store \in [known: BOOLEAN, terraformID: AnyId, op: CLIOperations]
    /\ dir \in [main: Mains, state: States, lock: Versions \cup {NoVersion}]
    /\ worker \in [pc: WorkerPCs, view: MRs, fresh: BOOLEAN, obs: Observations]
    /\ cli \in CLIs
    /\ callback \in BOOLEAN
    /\ budget \in 0..MaxFaults
    /\ lost \in BOOLEAN

Init ==
    /\ \E async, generated \in BOOLEAN :
          setup = [async |-> async, generated |-> generated, version |-> NoMain.version]
    /\ \E s \in Specs : mr = NewMR(s)
    /\ world = [i \in Ids |-> Gone]
    /\ store = NoWorkspace
    /\ dir = NoDir
    /\ worker = IdleWorker
    /\ cli = NoCLI
    /\ callback = FALSE
    /\ budget = MaxFaults
    /\ lost = FALSE

--------------------------------------------------------------------------------
(* Helpers *)

Happens(fault) == fault \in Faults /\ budget > 0 /\ budget' = budget - 1

Goto(pc) == worker' = [worker EXCEPT !.pc = pc]

Finish == worker' = IdleWorker

(* Slips of the kind the properties are there to catch; no action uses them. *)
IdleIfDeleting   == IsRunning(store.op) /\ ~worker.view.deleting
KeepsEnded       == UNCHANGED store
RefreshesGone(s) == IF s.instance THEN [s EXCEPT !.attrs = world[s.id]] ELSE EmptyState
KeepsAttrs(s)    == IF s.instance /\ s.id # NoId /\ world[s.id] # Gone THEN s ELSE EmptyState

Busy == IsRunning(store.op)

\* Terraform refuses to run in a directory that was initialized for another version.
Initialized == dir.main.file /\ dir.lock = dir.main.version

Exists(i) == i # NoId /\ world[i] # Gone

InstanceGone == \A i \in Ids : world[i] = Gone

\* With this directory an instance that exists is no longer in the state.
Loses(d) == dir.state.instance /\ Exists(dir.state.id) /\ ~d.state.instance

FreshIds ==
    IF setup.generated
    THEN {i \in Ids : world[i] = Gone /\ i \notin {mr.extName, worker.view.extName, dir.state.id}}
    ELSE {i \in {NameId} : world[i] = Gone}

--------------------------------------------------------------------------------
(* Connect: WorkspaceStore.Workspace *)

Reconcile ==
    /\ worker.pc = "idle" /\ mr.present
    /\ worker' = [IdleWorker EXCEPT !.pc = "connect", !.view = mr, !.fresh = TRUE]
    /\ UNCHANGED <<mr, world, setup, store, dir, cli, callback, budget, lost>>

isStateEmpty(s) == ~s.instance \/ s.id = NoId

\* The state is filled in, except for an MR that is being deleted: that the instance is gone
\* from the state is the sign of its deletion.
EnsureTFState(s, view) ==
    IF ~isStateEmpty(s) \/ view.deleting THEN s ELSE Instance(view.extName, view.spec)

Workspace ==
    /\ worker.pc = "connect"
    /\ IF Busy
       THEN /\ Goto("observe")
            /\ UNCHANGED <<store, dir>>
       ELSE /\ Goto("write")
            /\ store' = [store EXCEPT !.known = TRUE, !.terraformID = worker.view.extName]
            /\ dir' = [dir EXCEPT !.state = EnsureTFState(@, worker.view)]
    /\ UNCHANGED <<mr, world, setup, cli, callback, budget, lost>>

needProviderUpgrade == dir.main.file /\ dir.main.version # setup.version

WriteMainTF ==
    /\ worker.pc = "write"
    /\ dir' = [dir EXCEPT !.main = [file |-> TRUE, spec |-> worker.view.spec,
                                    protected |-> ~worker.view.deleting,
                                    version |-> setup.version]]
    /\ Goto(IF needProviderUpgrade THEN "upgrade"
            ELSE IF dir.lock = NoVersion THEN "init" ELSE "observe")
    /\ UNCHANGED <<mr, world, setup, store, cli, callback, budget, lost>>

InitWorkspace ==
    /\ worker.pc \in {"upgrade", "init"}
    /\ \/ /\ dir' = [dir EXCEPT !.lock = dir.main.version]
          /\ Goto("observe")
          /\ UNCHANGED budget
       \/ /\ Happens("initFails")
          /\ Finish
          /\ UNCHANGED dir
    /\ UNCHANGED <<mr, world, setup, store, cli, callback, lost>>

--------------------------------------------------------------------------------
(* Observe: Refresh, Plan, Import *)

WhileRunning == UpToDate

ObserveOperation ==
    /\ worker.pc = "observe"
    /\ IF Busy
       THEN worker' = [worker EXCEPT !.pc = "decide", !.obs = WhileRunning]
       ELSE Goto(IF worker.view.observeOnly THEN "import" ELSE "refresh")
    /\ UNCHANGED <<mr, world, setup, store, dir, cli, callback, budget, lost>>

\* Deferred by Refresh and by Import if the operation had ended.
FlushEnded == store' = [store EXCEPT !.op = IF IsEnded(@) THEN Flush(@) ELSE @]

Refreshed(s) ==
    IF s.instance /\ Exists(s.id) THEN [s EXCEPT !.attrs = world[s.id]] ELSE EmptyState

\* What Observe makes of a refreshed state: critical annotations before the status, and both
\* before the plan.
Consume(s) ==
    worker' =
        IF ~s.instance
        THEN [worker EXCEPT !.pc = "decide", !.obs = Absent]
        ELSE IF worker.view.extName # s.id
        THEN [worker EXCEPT !.pc = "decide", !.obs = LateInit, !.view.extName = s.id]
        ELSE IF ~worker.view.available
        THEN [worker EXCEPT !.pc = "decide", !.obs = UpToDate, !.view.available = TRUE]
        ELSE [worker EXCEPT !.pc = "plan"]

Refresh ==
    /\ worker.pc = "refresh"
    /\ FlushEnded
    /\ \/ /\ Initialized
          /\ dir' = [dir EXCEPT !.state = Refreshed(@)]
          /\ Consume(Refreshed(dir.state))
          /\ UNCHANGED budget
       \/ /\ IF Initialized THEN Happens("refreshFails") ELSE UNCHANGED budget
          /\ Finish
          /\ UNCHANGED dir
    /\ UNCHANGED <<mr, world, setup, cli, callback, lost>>

\* A tainted instance would have to be replaced, which prevent_destroy forbids.
Plan ==
    /\ worker.pc = "plan"
    /\ \/ /\ ~Busy /\ ~(dir.state.tainted /\ dir.main.protected)
          /\ worker' = [worker EXCEPT !.pc = "decide",
                                      !.obs = [UpToDate EXCEPT !.upToDate =
                                                  dir.main.spec = dir.state.attrs]]
          /\ UNCHANGED budget
       \/ /\ IF Busy \/ (dir.state.tainted /\ dir.main.protected)
             THEN UNCHANGED budget ELSE Happens("planFails")
          /\ Finish
    /\ UNCHANGED <<mr, world, setup, store, dir, cli, callback, lost>>

ConsumeImport ==
    worker' = [worker EXCEPT !.pc = "decide", !.obs = UpToDate, !.view.available = TRUE]

\* The state is removed before the import, and is back only if that succeeds.
Import ==
    /\ worker.pc = "import"
    /\ FlushEnded
    /\ \/ /\ store.terraformID = NoId
          /\ worker' = [worker EXCEPT !.pc = "decide", !.obs = Absent]
          /\ UNCHANGED <<dir, budget>>
       \/ /\ store.terraformID # NoId /\ Initialized
          /\ IF Exists(store.terraformID)
             THEN /\ dir' = [dir EXCEPT !.state =
                                Instance(store.terraformID, world[store.terraformID])]
                  /\ ConsumeImport
             ELSE /\ dir' = [dir EXCEPT !.state = NoState]
                  /\ worker' = [worker EXCEPT !.pc = "decide", !.obs = Absent]
          /\ UNCHANGED budget
       \/ /\ store.terraformID # NoId
          /\ IF Initialized THEN Happens("importFails") ELSE UNCHANGED budget
          /\ dir' = [dir EXCEPT !.state = NoState]
          /\ Finish
    /\ lost' = (lost \/ Loses(dir'))
    /\ UNCHANGED <<mr, world, setup, cli, callback>>

--------------------------------------------------------------------------------
(* What the managed reconciler does with the observation.  Every write of the MR may be   *)
(* refused, and is if the copy it was made from is stale.                                 *)

Persist(newMR, next) ==
    \/ /\ worker.fresh
       /\ mr' = newMR
       /\ worker' = [next EXCEPT !.view = newMR]
       /\ UNCHANGED budget
    \/ /\ IF worker.fresh THEN Happens("apiFails") ELSE UNCHANGED budget
       /\ Finish
       /\ UNCHANGED mr

Decide == worker.pc = "decide"

RemoveWorkspace ==
    IF store.known THEN store' = NoWorkspace /\ dir' = NoDir ELSE UNCHANGED <<store, dir>>

\* WorkspaceFinalizer: the workspace is removed before the finalizer.  An MR that is only
\* observed is let go without a deletion.
RemoveFinalizer ==
    /\ Decide /\ worker.view.deleting
    /\ ~worker.obs.exists \/ worker.view.observeOnly
    /\ RemoveWorkspace
    /\ Persist(NoMR, IdleWorker)
    /\ UNCHANGED <<world, setup, cli, callback, lost>>

DecideDelete ==
    /\ Decide /\ worker.view.deleting
    /\ worker.obs.exists /\ ~worker.view.observeOnly
    /\ Goto("start")
    /\ UNCHANGED <<mr, world, setup, store, dir, cli, callback, budget, lost>>

AddFinalizer ==
    /\ Decide /\ ~worker.view.deleting /\ ~mr.finalizer
    /\ Persist([mr EXCEPT !.finalizer = TRUE, !.extName = worker.view.extName], worker)
    /\ UNCHANGED <<world, setup, store, dir, cli, callback, lost>>

PersistExternalName ==
    /\ Decide /\ ~worker.view.deleting /\ mr.finalizer
    /\ worker.obs.lateInit
    /\ Persist([mr EXCEPT !.extName = worker.view.extName], IdleWorker)
    /\ UNCHANGED <<world, setup, store, dir, cli, callback, lost>>

PersistStatus ==
    /\ Decide /\ ~worker.view.deleting /\ mr.finalizer
    /\ worker.obs.upToDate /\ ~worker.obs.lateInit
    /\ Persist([mr EXCEPT !.available = worker.view.available], IdleWorker)
    /\ UNCHANGED <<world, setup, store, dir, cli, callback, lost>>

DecideApply ==
    /\ Decide /\ ~worker.view.deleting /\ mr.finalizer
    /\ ~worker.obs.upToDate
    /\ IF worker.view.observeOnly THEN Finish ELSE Goto("start")
    /\ UNCHANGED <<mr, world, setup, store, dir, cli, callback, budget, lost>>

--------------------------------------------------------------------------------
(* Terraform: what an apply and a destroy in the directory do *)

ApplyTo(id, d) ==
    /\ world' = [world EXCEPT ![id] = d.main.spec]
    /\ dir' = [d EXCEPT !.state = Instance(id, d.main.spec)]

ApplyChanges ==
    LET id == dir.state.id IN
    IF dir.state.instance /\ Exists(id)
    THEN ~(dir.state.tainted /\ dir.main.protected) /\ ApplyTo(id, dir)
    ELSE \E new \in FreshIds : ApplyTo(new, dir)

\* An instance is created, but its creation fails: the state has it as tainted.
ApplyTaints ==
    /\ ~Exists(dir.state.id)
    /\ \E new \in FreshIds :
          /\ world' = [world EXCEPT ![new] = dir.main.spec]
          /\ dir' = [dir EXCEPT !.state = [Instance(new, dir.main.spec) EXCEPT !.tainted = TRUE]]

Destroys ==
    /\ ~(dir.state.instance /\ Exists(dir.state.id) /\ dir.main.protected)
    /\ world' = [i \in Ids |-> IF dir.state.instance /\ i = dir.state.id THEN Gone ELSE world[i]]
    /\ dir' = [dir EXCEPT !.state = EmptyState]

Succeeds(type) == Initialized /\ IF type = "apply" THEN ApplyChanges ELSE Destroys

CanSucceed(type) ==
    /\ Initialized
    /\ IF dir.state.instance /\ Exists(dir.state.id)
       THEN ~(dir.main.protected /\ (type = "destroy" \/ dir.state.tainted))
       ELSE type = "apply" => FreshIds # {}

\* A run fails for a disturbance, or because it cannot succeed.
Fails(type) ==
    \/ /\ IF CanSucceed(type)
          THEN Happens(IF type = "apply" THEN "applyFails" ELSE "destroyFails")
          ELSE UNCHANGED budget
       /\ UNCHANGED <<world, dir>>
    \/ type = "apply" /\ Initialized /\ ApplyTaints /\ Happens("applyPartial")

--------------------------------------------------------------------------------
(* Create, Update, Delete *)

Wanted == IF worker.view.deleting THEN "destroy" ELSE "apply"

ToStart(type, async) ==
    worker.pc = "start" /\ type = Wanted /\ async = setup.async

\* Apply and Destroy block.  A create ends with the external name on the MR, which the
\* managed reconciler saves with retries.
Apply ==
    /\ ToStart("apply", FALSE) /\ ~Busy
    /\ \/ /\ Succeeds("apply")
          /\ mr' = IF mr.present THEN [mr EXCEPT !.extName = dir'.state.id] ELSE mr
          /\ UNCHANGED budget
       \/ Fails("apply") /\ UNCHANGED mr
    /\ Finish
    /\ UNCHANGED <<setup, store, cli, callback, lost>>

Destroy ==
    /\ ToStart("destroy", FALSE) /\ ~Busy
    /\ \/ Succeeds("destroy") /\ UNCHANGED budget
       \/ Fails("destroy")
    /\ Finish
    /\ UNCHANGED <<mr, setup, store, cli, callback, lost>>

StartCLI(type) ==
    /\ store' = [store EXCEPT !.op = MarkStart(@, type)]
    /\ cli' = [running |-> TRUE, type |-> type, done |-> FALSE]

ApplyAsync ==
    /\ ToStart("apply", TRUE)
    /\ IF CanStart(store.op) THEN StartCLI("apply") ELSE UNCHANGED <<store, cli>>
    /\ Finish
    /\ UNCHANGED <<mr, world, setup, dir, callback, budget, lost>>

\* A destroy that is still recorded, running or ended, is not repeated; Refresh flushes the
\* record of one that has ended.
DestroyAsync ==
    /\ ToStart("destroy", TRUE)
    /\ IF store.op.type # "destroy" /\ CanStart(store.op)
       THEN StartCLI("destroy") ELSE UNCHANGED <<store, cli>>
    /\ Finish
    /\ UNCHANGED <<mr, world, setup, dir, callback, budget, lost>>

RunAsync ==
    /\ cli.running /\ ~cli.done
    /\ \/ Succeeds(cli.type) /\ UNCHANGED budget
       \/ Fails(cli.type)
    /\ cli' = [cli EXCEPT !.done = TRUE]
    /\ UNCHANGED <<mr, setup, store, worker, callback, lost>>

\* Bound: the callback of the operation before has run.
EndAsync ==
    /\ cli.running /\ cli.done /\ ~callback
    /\ store' = [store EXCEPT !.op = MarkEnd(@)]
    /\ cli' = NoCLI
    /\ callback' = TRUE
    /\ UNCHANGED <<mr, world, setup, dir, worker, budget, lost>>

\* It updates the status of the MR, and so makes the worker's copy stale.
Callback ==
    /\ callback
    /\ callback' = FALSE
    /\ worker' = [worker EXCEPT !.fresh = FALSE]
    /\ UNCHANGED <<mr, world, setup, store, dir, cli, budget, lost>>

Goroutine == RunAsync \/ EndAsync \/ Callback

--------------------------------------------------------------------------------
(* Users, the external API, the process *)

UserEdits ==
    /\ mr.present
    /\ \/ /\ ~mr.deleting /\ Happens("spec")
          /\ \E s \in Specs \ {mr.spec} : mr' = [mr EXCEPT !.spec = s]
       \/ ~mr.deleting /\ Happens("observeOnly") /\ mr' = [mr EXCEPT !.observeOnly = ~@]
       \/ /\ ~mr.deleting /\ UNCHANGED budget
          /\ mr' = IF mr.finalizer THEN [mr EXCEPT !.deleting = TRUE] ELSE NoMR
    /\ worker' = [worker EXCEPT !.fresh = FALSE]
    /\ UNCHANGED <<world, setup, store, dir, cli, callback, lost>>

\* A new MR has a new UID, and so a new workspace.  Bound: a generated instance that was let
\* go with an MR that only observed it is not followed by another MR.
UserRecreates ==
    /\ setup.generated => InstanceGone
    /\ ~mr.present /\ ~callback /\ ~cli.running /\ worker.pc = "idle"
    /\ Happens("recreate")
    /\ \E s \in Specs : mr' = NewMR(s)
    /\ store' = NoWorkspace /\ dir' = NoDir
    /\ lost' = FALSE
    /\ UNCHANGED <<world, setup, worker, cli, callback>>

Drift ==
    /\ Happens("drift")
    /\ \E i \in Ids, s \in Specs : Exists(i) /\ world' = [world EXCEPT ![i] = s]
    /\ UNCHANGED <<mr, setup, store, dir, worker, cli, callback, lost>>

\* The controller restarts, perhaps as a newer version, with the directories or without.
Restart ==
    /\ Happens("restart")
    /\ worker' = IdleWorker /\ store' = NoWorkspace /\ cli' = NoCLI /\ callback' = FALSE
    /\ dir' \in {dir} \cup (IF "dirLost" \in Faults THEN {NoDir} ELSE {})
    /\ \E v \in IF "upgrade" \in Faults THEN Versions ELSE {setup.version} :
          setup' = [setup EXCEPT !.version = v]
    /\ lost' = (lost \/ Loses(dir'))
    /\ UNCHANGED <<mr, world>>

Environment == UserEdits \/ UserRecreates \/ Drift \/ Restart

Worker ==
    \/ Reconcile \/ Workspace \/ WriteMainTF \/ InitWorkspace
    \/ ObserveOperation \/ Refresh \/ Plan \/ Import
    \/ RemoveFinalizer \/ DecideDelete \/ AddFinalizer \/ PersistExternalName
    \/ PersistStatus \/ DecideApply
    \/ Apply \/ Destroy \/ ApplyAsync \/ DestroyAsync

Next == Worker \/ Goroutine \/ Environment

Spec == Init /\ [][Next]_vars

\* The queue comes back to every MR, and the CLI ends with its context.
FairSpec == Spec /\ WF_vars(Worker) /\ WF_vars(RunAsync \/ EndAsync) /\ WF_vars(Callback)

--------------------------------------------------------------------------------
(* Properties *)

\* "If there is an ongoing operation, no changes should be made in the workspace files"
\* (store.go:241): neither a Connect nor the finalizer touches the directory while Terraform
\* runs in it in the background, unless the MR is let go without a deletion.
FilesUntouched ==
    [][cli.running /\ ~cli.done /\ cli' = cli /\ ~worker.view.observeOnly => dir' = dir]_vars

\* An MR that is deleted does not go before its instance: none that an apply created, partly
\* or behind the back of a reconcile, is left in the external API, unless its state was lost
\* with the directory or in an import that failed.
NothingLeftBehind ==
    [][mr.finalizer /\ ~mr'.present /\ ~worker.view.observeOnly /\ ~lost => InstanceGone]_vars

\* "Terraform's removal of them from the TF state file signals that the deletion was
\* successful" (files.go:252): so too when the state was lost.
RemovalSignalsDeletion ==
    [][mr.finalizer /\ ~mr'.present /\ ~worker.view.observeOnly => InstanceGone]_vars

\* Again and again a reconcile begins while no operation runs.
FoundIdle == []<>(worker.pc = "idle" /\ ~Busy)

\* An MR that is deleted goes in the end: a destroy that was refused, protected or failed is
\* repeated, though a destroy that is still recorded is not.
DeletionCompletes == FoundIdle => (mr.present /\ mr.deleting ~> ~mr.present)

\* An MR gets an instance that agrees with its spec in the end, though plans and applies may
\* have run with an older main.tf.json.
SpecApplied ==
    mr.present ~> \/ mr.deleting \/ ~mr.present \/ mr.observeOnly
                  \/ dir.state.tainted \/ \E i \in Ids : world[i] = mr.spec

\* "Workspace makes sure the Terraform workspace for the given resource is ready to be used"
\* (store.go:225): it has been initialized for the provider version it requires.
ReadyToUse == worker.pc = "observe" /\ ~Busy => Initialized

================================================================================
