----------------------------- MODULE AsyncExternal -----------------------------
(***************************************************************************)
(* One managed resource (MR) reconciled by the asynchronous no-fork        *)
(* external clients: pkg/controller/external_async_tfpluginsdk.go and      *)
(* external_async_tfpluginfw.go over external_tfpluginsdk.go and           *)
(* external_tfpluginfw.go, with the callback of api.go and the event       *)
(* handler that requeues.                                                  *)
(*                                                                         *)
(* Three kinds of actors interleave:                                       *)
(*   - the reconcile worker: the work queue runs at most one reconcile of  *)
(*     a key at a time, so there is one worker, with a program counter;    *)
(*   - the goroutines that Create, Update and Delete start: they call the  *)
(*     provider, publish the result on the tracker, mark the operation     *)
(*     ended and then run the callback, which may outlive the operation;   *)
(*   - the world: users, the API server, the external API, the process.    *)
(*                                                                         *)
(* The managed reconciler (crossplane-runtime), the work queue             *)
(* (client-go), the API server and the provider are not part of this       *)
(* repository; they are modelled as far as the code here relies on them.   *)
(***************************************************************************)
EXTENDS AsyncTracker, Naturals

CONSTANTS
    Specs,          \* desired configurations a user can ask for
    NameId,         \* the identifier computed from the spec, if ~ProviderIds
    Slots,          \* bound: goroutines alive at once, callbacks included
    ProviderIds,    \* is the identifier generated by the external API?
    Framework,      \* Terraform Plugin Framework client (TRUE) or SDKv2 (FALSE)
    LogicalDelete,  \* does a successful delete call leave the object in place?
    Faults,         \* the disturbances that may happen
    MaxFaults,      \* bound: how many disturbances happen in all
    Gone            \* the value of an instance that does not exist

FaultKinds ==
    {"createFails", "createPartial", "updateFails", "deleteFails", "readFails",
     "readMisses", "apiFails", "crash", "drift", "vanish", "spec", "recreate"}

ASSUME ConfigAssumption ==
    /\ ProviderIds \in BOOLEAN /\ Framework \in BOOLEAN /\ LogicalDelete \in BOOLEAN
    /\ Faults \subseteq FaultKinds
    /\ MaxFaults \in Nat
    /\ NoId \notin Ids
    /\ Gone \notin Specs
    /\ NameId \in Ids
    /\ Specs # {}

VARIABLES
    mr,       \* the managed resource in the API server
    world,    \* the external API: Ids -> configuration, or Gone
    tracker,  \* the AsyncTracker of the MR
    worker,   \* the reconcile in progress
    gors,     \* the goroutines, by slot
    queued,   \* is the key in the work queue, or dirty while it is processed?
    delayed,  \* the earliest delayed add of the key: "soon" (back-off), "poll"
    budget    \* disturbances still to come

vars == <<mr, world, tracker, worker, gors, queued, delayed, budget>>

--------------------------------------------------------------------------------
(* Types and initial state *)

Conditions == {"unknown", "ok", "failed"}       \* the LastAsyncOperation condition
Delays     == {"none", "soon", "poll"}
AnyId      == Ids \cup {NoId}

MRs == [present: BOOLEAN, deleting: BOOLEAN, finalizer: BOOLEAN, pending: BOOLEAN,
        extName: AnyId, spec: Specs, cond: Conditions]

FirstName == IF ProviderIds THEN NoId ELSE NameId

NewMR(s) == [present |-> TRUE, deleting |-> FALSE, finalizer |-> FALSE, pending |-> FALSE,
             extName |-> FirstName, spec |-> s, cond |-> "unknown"]

NoMR == [NewMR(CHOOSE s \in Specs : TRUE) EXCEPT !.present = FALSE, !.extName = NoId]

Observations == [exists: BOOLEAN, upToDate: BOOLEAN, lateInit: BOOLEAN, running: BOOLEAN]

NoObservation ==
    [exists |-> FALSE, upToDate |-> FALSE, lateInit |-> FALSE, running |-> FALSE]

WorkerPCs == {"idle", "get", "connect", "reconstruct", "observe", "read", "decide",
              "start", "return", "finish"}

Workers == [pc: WorkerPCs, view: MRs, fresh: BOOLEAN, obs: Observations,
            op: OpTypes \cup {""}, result: Delays]

IdleWorker == [pc |-> "idle", view |-> NoMR, fresh |-> FALSE, obs |-> NoObservation,
               op |-> "", result |-> "none"]

GorPCs == {"free", "call", "store", "end", "get", "put"}

Goroutines == [pc: GorPCs, op: OpTypes \cup {""}, spec: Specs, err: Errors,
               wake: BOOLEAN, fresh: BOOLEAN]

FreeGoroutine == [pc |-> "free", op |-> "", spec |-> NoMR.spec, err |-> NoError,
                  wake |-> FALSE, fresh |-> FALSE]

\* Every variable has its type; a cached state is always marked as read or reconstructed.
TypeOK ==
    /\ mr \in MRs
    /\ world \in [Ids -> Specs \cup {Gone}]
    /\ tracker \in Trackers
    /\ worker \in Workers
    /\ gors \in [Slots -> Goroutines]
    /\ queued \in BOOLEAN
    /\ delayed \in Delays
    /\ budget \in 0..MaxFaults

Init ==
    /\ \E s \in Specs : mr = NewMR(s)
    /\ world = [i \in Ids |-> Gone]
    /\ tracker = NewAsyncTracker
    /\ worker = IdleWorker
    /\ gors = [s \in Slots |-> FreeGoroutine]
    /\ queued = TRUE
    /\ delayed = "none"
    /\ budget = MaxFaults

--------------------------------------------------------------------------------
(* Helpers *)

Exists(i) == i # NoId /\ world[i] # Gone

Live == {i \in Ids : world[i] # Gone}

\* An identifier generated by the external API is one nobody has heard of.
FreshIds == {i \in Ids : /\ world[i] = Gone
                         /\ i \notin {mr.extName, tracker.state, worker.view.extName}}

InFlight(s) == gors[s].pc \in {"call", "store", "end"}

Happens(fault) == fault \in Faults /\ budget > 0 /\ budget' = budget - 1

\* A write by anybody else makes the copies that were read before it stale: an
\* update that carries such a copy is refused with a conflict.
StaleGoroutines == [s \in Slots |-> [gors[s] EXCEPT !.fresh = FALSE]]

StaleWorker == [worker EXCEPT !.fresh = FALSE]

(* Slips of the kind the properties are there to catch; no action uses them. *)
AbsentWhileRunning ==
    [exists |-> FALSE, upToDate |-> TRUE, lateInit |-> FALSE, running |-> TRUE]
BusyUnlessDeleting == IsRunning(tracker.op) /\ ~worker.view.deleting
NeverHealthy(upToDate) == FALSE
StoresNoPartialState == FALSE
RequestsUnlessCached(err, cached) == cached = NoError

\* The delaying queue keeps the earlier of two delayed adds of one key.
Sooner(d, e) == IF "soon" \in {d, e} THEN "soon" ELSE IF d = "none" THEN e ELSE d

--------------------------------------------------------------------------------
(* The work queue *)

TimerFires ==
    /\ delayed # "none"
    /\ delayed' = "none"
    /\ queued' = TRUE
    /\ UNCHANGED <<mr, world, tracker, worker, gors, budget>>

Dequeue ==
    /\ worker.pc = "idle" /\ queued
    /\ queued' = FALSE
    /\ worker' = [worker EXCEPT !.pc = "get"]
    /\ UNCHANGED <<mr, world, tracker, gors, delayed, budget>>

\* The reconcile ends with a result: an error and Requeue both become a
\* rate-limited add, RequeueAfter a delayed add after the poll interval.
Complete(result) ==
    /\ worker' = IdleWorker
    /\ delayed' = Sooner(delayed, result)

--------------------------------------------------------------------------------
(* The reconcile worker *)

\* The managed reconciler reads the MR.  It gives up on one whose creation it
\* cannot account for (the external-create-pending annotation is the last one).
GetMR ==
    /\ worker.pc = "get"
    /\ \/ /\ mr.present /\ ~mr.pending
          /\ worker' = [worker EXCEPT !.pc = "connect", !.view = mr, !.fresh = TRUE]
          /\ UNCHANGED <<delayed, budget>>
       \/ /\ ~mr.present \/ mr.pending
          /\ Complete("none")
          /\ UNCHANGED budget
       \/ /\ Happens("apiFails")
          /\ Complete("soon")
    /\ UNCHANGED <<mr, world, tracker, gors, queued>>

\* Connect reads the tracker in one critical section ...
ConnectCheckState ==
    /\ worker.pc = "connect"
    /\ worker' = [worker EXCEPT !.pc = IF HasState(tracker) THEN "observe" ELSE "reconstruct"]
    /\ UNCHANGED <<mr, world, tracker, gors, queued, delayed, budget>>

\* ... and stores the state reconstructed from the MR in another one.
ConnectReconstruct ==
    /\ worker.pc = "reconstruct"
    /\ tracker' = SetReconstructedTfState(tracker, worker.view.extName)
    /\ worker' = [worker EXCEPT !.pc = "observe"]
    /\ UNCHANGED <<mr, world, gors, queued, delayed, budget>>

RunningObservation ==
    [exists |-> TRUE, upToDate |-> TRUE, lateInit |-> FALSE, running |-> TRUE]

RecoveredObservation ==
    [exists |-> TRUE, upToDate |-> TRUE, lateInit |-> TRUE, running |-> FALSE]

\* The framework client takes the external name from the state of a failed create.
RecoversExternalName ==
    /\ Framework
    /\ tracker.op.err # NoError /\ IsEnded(tracker.op) /\ tracker.op.type = "create"
    /\ HasState(tracker) /\ worker.view.extName = NoId

\* Observe of the async client, up to the call of the inner Observe.  No operation
\* can start between its test and its Clear: only the worker starts operations.
Busy == IsRunning(tracker.op)

ObserveOperation ==
    /\ worker.pc = "observe"
    /\ \/ /\ Busy
          /\ worker' = [worker EXCEPT !.pc = "decide", !.obs = RunningObservation]
          /\ UNCHANGED tracker
       \/ /\ ~Busy /\ RecoversExternalName
          /\ tracker' = [tracker EXCEPT !.op = Clear(@, TRUE)]
          /\ worker' = [worker EXCEPT !.pc = "decide", !.obs = RecoveredObservation,
                                      !.view.extName = tracker.state]
       \/ /\ ~Busy /\ ~RecoversExternalName
          /\ tracker' = [tracker EXCEPT !.op = Clear(@, TRUE)]
          /\ worker' = [worker EXCEPT !.pc = IF worker.view.deleting /\ tracker.deleted
                                             THEN "decide" ELSE "read"]
    /\ UNCHANGED <<mr, world, gors, queued, delayed, budget>>

\* The inner Observe reads the external resource with the cached state, caches the
\* state it gets, compares it with the spec and records the external name; the
\* async Observe then drops the cached error of a resource that is up to date.
Healthy(upToDate) == upToDate /\ ~worker.view.deleting

ReadFound ==
    /\ Exists(tracker.state)
    /\ LET upToDate == world[tracker.state] = worker.view.spec
           healthy  == Healthy(upToDate)
           read     == SetTfState(tracker, tracker.state)
       IN  /\ tracker' = IF healthy THEN [read EXCEPT !.op = Clear(@, FALSE)] ELSE read
           /\ worker' = [worker EXCEPT
                  !.pc = "decide",
                  !.obs = [exists |-> TRUE, upToDate |-> upToDate, running |-> FALSE,
                           lateInit |-> worker.view.extName # tracker.state],
                  !.view.extName = tracker.state,
                  !.view.cond = IF healthy THEN "ok" ELSE @]
    /\ UNCHANGED budget

ReadNotFound ==
    /\ IF Exists(tracker.state) THEN Happens("readMisses") ELSE UNCHANGED budget
    /\ tracker' = SetTfState(tracker, NoId)
    /\ worker' = [worker EXCEPT !.pc = "decide"]

ReadError ==
    /\ Happens("readFails")
    /\ tracker' = ResetReconstructedTfState(tracker)
    /\ worker' = [worker EXCEPT !.pc = "finish", !.result = "soon"]

ObserveRead ==
    /\ worker.pc = "read"
    /\ ReadFound \/ ReadNotFound \/ ReadError
    /\ UNCHANGED <<mr, world, gors, queued, delayed>>

--------------------------------------------------------------------------------
(* What the managed reconciler does with the observation *)

Finish(result) == worker' = [worker EXCEPT !.pc = "finish", !.result = result]

\* An update of the MR with the copy the worker read: a conflict if it is stale.
\* The reply overwrites the status of the copy with the server's.
Persist(newMR, next) ==
    \/ /\ worker.fresh
       /\ mr' = newMR
       /\ worker' = [next EXCEPT !.view = newMR]
       /\ gors' = StaleGoroutines
    \/ /\ ~worker.fresh
       /\ Finish("soon")
       /\ UNCHANGED <<mr, gors>>

\* Changes of the spec and of annotations are the watch events that enqueue the key.
PersistAndNotify(newMR, next) ==
    /\ Persist(newMR, next)
    /\ queued' = (queued \/ worker.fresh)

\* The finalizer of the no-fork clients drops the tracker before it lets the API
\* server drop the MR, which may refuse.
RemoveFinalizer ==
    /\ worker.pc = "decide" /\ worker.view.deleting /\ ~worker.obs.exists
    /\ tracker' = NewAsyncTracker
    /\ \/ /\ worker.fresh
          /\ mr' = NoMR
          /\ Complete("none")
          /\ gors' = StaleGoroutines
          /\ UNCHANGED budget
       \/ /\ IF worker.fresh THEN Happens("apiFails") ELSE UNCHANGED budget
          /\ Finish("soon")
          /\ UNCHANGED <<mr, gors, delayed>>
    /\ UNCHANGED <<world, queued>>

DecideDelete ==
    /\ worker.pc = "decide" /\ worker.view.deleting /\ worker.obs.exists
    /\ worker' = [worker EXCEPT !.pc = "start", !.op = "delete"]
    /\ UNCHANGED <<mr, world, tracker, gors, queued, delayed, budget>>

AddFinalizer ==
    /\ worker.pc = "decide" /\ ~worker.view.deleting /\ ~worker.view.finalizer
    /\ Persist([mr EXCEPT !.finalizer = TRUE, !.extName = worker.view.extName], worker)
    /\ UNCHANGED <<world, tracker, queued, delayed, budget>>

DecideCreate ==
    /\ worker.pc = "decide" /\ ~worker.view.deleting /\ worker.view.finalizer
    /\ ~worker.obs.exists
    /\ PersistAndNotify([mr EXCEPT !.pending = TRUE],
                        [worker EXCEPT !.pc = "start", !.op = "create"])
    /\ UNCHANGED <<world, tracker, delayed, budget>>

PersistExternalName ==
    /\ worker.pc = "decide" /\ ~worker.view.deleting /\ worker.view.finalizer
    /\ worker.obs.exists /\ worker.obs.lateInit
    /\ PersistAndNotify([mr EXCEPT !.extName = worker.view.extName],
                        [worker EXCEPT !.obs.lateInit = FALSE])
    /\ UNCHANGED <<world, tracker, delayed, budget>>

DecideUpToDateOrUpdate ==
    /\ worker.pc = "decide" /\ ~worker.view.deleting /\ worker.view.finalizer
    /\ worker.obs.exists /\ ~worker.obs.lateInit
    /\ IF worker.obs.upToDate
       THEN Finish("poll")
       ELSE worker' = [worker EXCEPT !.pc = "start", !.op = "update"]
    /\ UNCHANGED <<mr, world, tracker, gors, queued, delayed, budget>>

\* Create, Update and Delete of the async client up to the start of the goroutine.
\* Delete is content with a previous delete operation, ended or not.
StartOperation ==
    /\ worker.pc = "start"
    /\ \/ /\ worker.op = "delete" /\ tracker.op.type = "delete"
          /\ Finish("soon")
          /\ UNCHANGED <<tracker, gors>>
       \/ /\ ~(worker.op = "delete" /\ tracker.op.type = "delete")
          /\ CanStart(tracker.op)
          /\ tracker' = [tracker EXCEPT !.op = MarkStart(@, worker.op)]
          /\ \E s \in Slots :
                /\ gors[s].pc = "free"
                /\ gors' = [gors EXCEPT ![s] = [FreeGoroutine EXCEPT
                               !.pc = "call", !.op = worker.op, !.spec = worker.view.spec]]
          /\ worker' = [worker EXCEPT !.pc = "return"]
       \/ /\ ~(worker.op = "delete" /\ tracker.op.type = "delete")
          /\ ~CanStart(tracker.op)
          /\ Finish("soon")
          /\ UNCHANGED <<tracker, gors>>
    /\ UNCHANGED <<mr, world, queued, delayed, budget>>

\* They return the tracker's error, which is the one of an earlier operation unless
\* the goroutine has been faster.  After a Create the reconciler settles the pending
\* annotation whatever the outcome, with retries on conflict, on a new copy.
ReturnFromStart ==
    /\ worker.pc = "return"
    /\ LET failed  == tracker.op.err # NoError
           settled == [mr EXCEPT !.pending = FALSE]
       IN IF worker.op = "create"
          THEN /\ mr' = settled
               /\ worker' = [worker EXCEPT !.pc = "finish", !.result = "soon",
                                           !.view = settled, !.fresh = TRUE]
               /\ gors' = StaleGoroutines
               /\ queued' = TRUE
          ELSE /\ Finish(IF worker.op = "update" /\ ~failed THEN "poll" ELSE "soon")
               /\ UNCHANGED <<mr, gors, queued>>
    /\ UNCHANGED <<world, tracker, delayed, budget>>

\* Every result but the last of a deleted MR comes with a status update.
FinishReconcile ==
    /\ worker.pc = "finish"
    /\ \/ /\ worker.fresh
          /\ mr' = [mr EXCEPT !.cond = worker.view.cond]
          /\ gors' = StaleGoroutines
          /\ Complete(worker.result)
       \/ /\ ~worker.fresh
          /\ Complete("soon")
          /\ UNCHANGED <<mr, gors>>
    /\ UNCHANGED <<world, tracker, queued, budget>>

Reconcile ==
    \/ Dequeue \/ GetMR \/ ConnectCheckState \/ ConnectReconstruct
    \/ ObserveOperation \/ ObserveRead
    \/ RemoveFinalizer \/ DecideDelete \/ AddFinalizer \/ DecideCreate
    \/ PersistExternalName \/ DecideUpToDateOrUpdate
    \/ StartOperation \/ ReturnFromStart \/ FinishReconcile

--------------------------------------------------------------------------------
(* The goroutine of an operation *)

\* The provider call and what the client stores of its result.  The call is one
\* step: while it is in flight nothing else looks at the external resource.
Returns(s, err) == gors' = [gors EXCEPT ![s].pc = "store", ![s].err = err]

NewIds == IF ProviderIds THEN FreshIds ELSE {NameId} \ Live

CreateSucceeds(s) ==
    \E i \in NewIds :
        /\ world' = [world EXCEPT ![i] = gors[s].spec]
        /\ tracker' = SetTfState(tracker, i)
        /\ Returns(s, NoError)
        /\ UNCHANGED budget

\* The instance exists but a later step of the provider failed: the partial state
\* is stored, by the SDK client only if no state is there.
StoresPartialState == Framework \/ ~HasState(tracker)

CreatePartially(s) ==
    /\ Happens("createPartial")
    /\ \E i \in NewIds :
        /\ world' = [world EXCEPT ![i] = gors[s].spec]
        /\ tracker' = IF StoresPartialState THEN SetTfState(tracker, i) ELSE tracker
        /\ Returns(s, Failed)

\* With no identifier left the external API refuses: an existing name, a quota.
CreateFails(s) ==
    /\ IF NewIds # {} THEN Happens("createFails") ELSE UNCHANGED budget
    /\ tracker' \in {tracker} \cup (IF Framework THEN {SetTfState(tracker, NoId)} ELSE {})
    /\ Returns(s, Failed)
    /\ UNCHANGED world

Create(s) ==
    /\ gors[s].op = "create"
    /\ CreateSucceeds(s) \/ CreatePartially(s) \/ CreateFails(s)

Update(s) ==
    /\ gors[s].op = "update"
    /\ \/ /\ Exists(tracker.state)
          /\ world' = [world EXCEPT ![tracker.state] = gors[s].spec]
          /\ tracker' = SetTfState(tracker, tracker.state)
          /\ Returns(s, NoError)
          /\ UNCHANGED budget
       \/ /\ IF Exists(tracker.state) THEN Happens("updateFails") ELSE UNCHANGED budget
          /\ Returns(s, Failed)
          /\ UNCHANGED <<world, tracker>>

Delete(s) ==
    /\ gors[s].op = "delete"
    /\ \/ /\ world' = IF Exists(tracker.state) /\ ~LogicalDelete
                      THEN [world EXCEPT ![tracker.state] = Gone] ELSE world
          /\ tracker' = SetDeleted(SetTfState(tracker, NoId), TRUE)
          /\ Returns(s, NoError)
          /\ UNCHANGED budget
       \/ /\ Exists(tracker.state) /\ Happens("deleteFails")
          /\ Returns(s, Failed)
          /\ UNCHANGED <<world, tracker>>

ProviderCall(s) ==
    /\ gors[s].pc = "call"
    /\ Create(s) \/ Update(s) \/ Delete(s)
    /\ UNCHANGED <<mr, worker, queued, delayed>>

\* The finishing operations, deferred so that they also run after a panic: the
\* error is published before the operation is marked ended.  The callback will
\* request a reconcile after a success, or if no error was cached before.
RequestsReconcile(err, cached) == err = NoError \/ cached = NoError

PublishError(s) ==
    /\ gors[s].pc = "store"
    /\ gors' = [gors EXCEPT
           ![s].pc = "end",
           ![s].wake = RequestsReconcile(gors[s].err, tracker.op.err)]
    /\ tracker' = [tracker EXCEPT !.op = SetError(@, gors[s].err)]
    /\ UNCHANGED <<mr, world, worker, queued, delayed, budget>>

EndOperation(s) ==
    /\ gors[s].pc = "end"
    /\ gors' = [gors EXCEPT ![s].pc = "get"]
    /\ tracker' = [tracker EXCEPT !.op = MarkEnd(@)]
    /\ UNCHANGED <<mr, world, worker, queued, delayed, budget>>

\* The callback reads the MR by name; without it, it neither reports nor requeues.
CallbackGet(s) ==
    /\ gors[s].pc = "get"
    /\ \/ /\ mr.present
          /\ gors' = [gors EXCEPT ![s].pc = "put", ![s].fresh = TRUE]
          /\ UNCHANGED budget
       \/ /\ IF mr.present THEN Happens("apiFails") ELSE UNCHANGED budget
          /\ gors' = [gors EXCEPT ![s] = FreeGoroutine]
    /\ UNCHANGED <<mr, world, tracker, worker, queued, delayed>>

\* It sets the condition in a status update, which may conflict, and requests a
\* reconcile: at once after a success, rate-limited after a failure.
CallbackPut(s) ==
    /\ gors[s].pc = "put"
    /\ IF gors[s].fresh
       THEN /\ mr' = [mr EXCEPT !.cond = IF gors[s].err = NoError THEN "ok" ELSE "failed"]
            /\ worker' = StaleWorker
            /\ gors' = [StaleGoroutines EXCEPT ![s] = FreeGoroutine]
       ELSE /\ gors' = [gors EXCEPT ![s] = FreeGoroutine]
            /\ UNCHANGED <<mr, worker>>
    /\ queued' = (queued \/ (gors[s].wake /\ gors[s].err = NoError))
    /\ delayed' = IF gors[s].wake /\ gors[s].err # NoError THEN "soon" ELSE delayed
    /\ UNCHANGED <<world, tracker, budget>>

Goroutine(s) ==
    ProviderCall(s) \/ PublishError(s) \/ EndOperation(s) \/ CallbackGet(s) \/ CallbackPut(s)

--------------------------------------------------------------------------------
(* The environment *)

UserDeletes ==
    /\ mr.present /\ ~mr.deleting
    /\ mr' = IF mr.finalizer THEN [mr EXCEPT !.deleting = TRUE] ELSE NoMR
    /\ worker' = StaleWorker
    /\ gors' = StaleGoroutines
    /\ queued' = TRUE
    /\ UNCHANGED <<world, tracker, delayed, budget>>

UserChangesSpec ==
    /\ mr.present /\ ~mr.deleting
    /\ Happens("spec")
    /\ \E s \in Specs \ {mr.spec} : mr' = [mr EXCEPT !.spec = s]
    /\ worker' = StaleWorker
    /\ gors' = StaleGoroutines
    /\ queued' = TRUE
    /\ UNCHANGED <<world, tracker, delayed>>

\* A new MR of the same name has another UID, hence a tracker of its own.
UserRecreates ==
    /\ ~mr.present /\ worker.pc \in {"idle", "get"}
    /\ Happens("recreate")
    /\ \E s \in Specs : mr' = NewMR(s)
    /\ tracker' = NewAsyncTracker
    /\ queued' = TRUE
    /\ UNCHANGED <<world, worker, gors, delayed>>

ExternalDrift ==
    /\ Happens("drift")
    /\ \E i \in Live, s \in Specs : /\ world[i] # s
                                    /\ world' = [world EXCEPT ![i] = s]
    /\ UNCHANGED <<mr, tracker, worker, gors, queued, delayed>>

ExternalVanish ==
    /\ Happens("vanish")
    /\ \E i \in Live : world' = [world EXCEPT ![i] = Gone]
    /\ UNCHANGED <<mr, tracker, worker, gors, queued, delayed>>

\* Everything in memory is lost.  The new process lists the MRs and enqueues them.
Crash ==
    /\ Happens("crash")
    /\ tracker' = NewAsyncTracker
    /\ worker' = IdleWorker
    /\ gors' = [s \in Slots |-> FreeGoroutine]
    /\ queued' = mr.present
    /\ delayed' = "none"
    /\ UNCHANGED <<mr, world>>

Environment ==
    \/ UserDeletes \/ UserChangesSpec \/ UserRecreates
    \/ ExternalDrift \/ ExternalVanish \/ Crash

\* The MR is gone, or waits for a human to settle an interrupted creation, and
\* nothing is left to do.
Terminated ==
    /\ (~mr.present \/ mr.pending) /\ worker.pc = "idle" /\ ~queued /\ delayed = "none"
    /\ \A s \in Slots : gors[s].pc = "free"
    /\ UNCHANGED vars

Next ==
    \/ TimerFires \/ Reconcile \/ Environment \/ Terminated
    \/ \E s \in Slots : Goroutine(s)

Spec == Init /\ [][Next]_vars

\* A timer fires, the worker and the goroutines are scheduled, calls return (the
\* provider calls within the deadline of their context).
Fairness ==
    /\ WF_vars(TimerFires)
    /\ WF_vars(Reconcile)
    /\ \A s \in Slots : WF_vars(Goroutine(s))

FairSpec == Spec /\ Fairness

--------------------------------------------------------------------------------
(* Safety *)

\* The tracker says that an operation runs exactly while one goroutine works on it:
\* never two, and none is forgotten with the tracker left running.
SingleFlight ==
    /\ \A s, t \in Slots : InFlight(s) /\ InFlight(t) => s = t
    /\ IsRunning(tracker.op) <=> \E s \in Slots : InFlight(s)

\* A reconcile that did not see an operation running has the tracker, the cached state
\* and the external resource to itself until it starts an operation: what it decided
\* from is never changed by an operation under its feet.
WorkerExclusive ==
    (worker.pc \in {"read", "decide", "start"} /\ ~worker.obs.running)
        => \A s \in Slots : ~InFlight(s)

\* No instance in the external API is unknown to the provider.
NoneForgotten == \A i \in Live : i \in {tracker.state, mr.extName}

\* At most one instance exists for the MR.
OneInstance == \A i, j \in Live : i = j

\* An instance exists only while an MR that carries the finalizer owns it, so that it is
\* deleted with the MR and not left behind: no Observe takes a resource that is being
\* operated on, or that it failed to read, for one that is gone.
FinalizerGuards == Live # {} => mr.present /\ mr.finalizer

\* The finalizer protects every operation: it is on the MR before one starts and until
\* none runs, so that an MR that is deleted at any moment waits for it; and no copy that
\* a worker holds claims a finalizer that is not there.
FinalizerHeld ==
    /\ mr.deleting => mr.finalizer
    /\ mr.finalizer => mr.present
    /\ (\E s \in Slots : InFlight(s)) => mr.finalizer
    /\ worker.pc \notin {"idle", "get"} =>
          /\ worker.view.deleting => worker.view.finalizer
          /\ worker.view.finalizer => mr.finalizer
          /\ worker.fresh => mr.present
    /\ worker.pc \in {"start", "return"} => worker.view.finalizer

\* The outcome of a finished operation does not wait for the next poll: once nobody is
\* at work any more, a reconcile is due at once or after a back-off.
Quiet == worker.pc = "idle" /\ \A s \in Slots : gors[s].pc = "free"

PromptlyObserved ==
    Quiet /\ mr.present /\ IsEnded(tracker.op) => queued \/ delayed = "soon"

\* After a success: the callback requests a reconcile, and a reconcile that ends in between
\* (with a poll interval) does not put it off.
SuccessPromptlyObserved == tracker.op.err = NoError => PromptlyObserved

\* After a failure: the same is claimed of one that comes upon an error that is cached,
\* for which no reconcile is requested.
FailurePromptlyObserved == tracker.op.err # NoError => PromptlyObserved

\* Only a Connect can make the provider forget an instance.
OnlyConnectForgets == [][NoneForgotten /\ ~NoneForgotten' => worker.pc = "reconstruct"]_vars

\* The error of a failed operation is kept, to be returned and to be retried with, until
\* the MR is observed up to date, a later operation ends, or the tracker is dropped.
ErrorKept ==
    [][tracker.op.err = Failed /\ tracker'.op.err = NoError =>
          \/ worker'.obs.exists /\ worker'.obs.upToDate /\ ~worker'.view.deleting
          \/ \E s \in Slots : gors[s].pc = "store" /\ gors'[s].pc = "end"
          \/ tracker' = NewAsyncTracker]_vars

\* Logical deletion is remembered as long as the MR exists.
LogicalDeletionRemembered ==
    [][tracker.deleted /\ mr.present /\ mr'.present => tracker'.deleted]_vars

--------------------------------------------------------------------------------
(* Liveness *)

Deleted == mr.present /\ mr.deleting

\* The deletion of an MR completes: its delete operation is started in the end, is retried
\* after a failure, and the reconcile after it finds that nothing is left.
DeletionCompletes == Deleted ~> ~mr.present

Applied == \E i \in Live : world[i] = mr.spec

\* An MR that is not deleted gets an instance that agrees with its spec, whatever fails on
\* the way; drift that no event tells of is found by polling.
SpecApplied == mr.present ~> (mr.deleting \/ ~mr.present \/ Applied)

\* A failure that the callback has reported in the LastAsyncOperation condition is followed
\* by a success that is reported, too, or by a reconcile that finds the MR up to date.
ErrorCleared == mr.cond = "failed" ~> (mr.cond # "failed" \/ mr.deleting)

--------------------------------------------------------------------------------
(* Refinement: an operation lasts from the start of its goroutine until the         *)
(* publication of its error.                                                       *)

Working(g)   == {s \in Slots : g[s].pc \in {"call", "store"}}
Worked(g)    == CHOOSE s \in Working(g) : TRUE
RunningOf(g) == IF Working(g) = {} THEN "none" ELSE g[Worked(g)].op
VerdictOf(g) == IF Working(g) = {} \/ g[Worked(g)].pc = "call" THEN "open"
                                                             ELSE g[Worked(g)].err

Serial == INSTANCE SerialOperations WITH
    running   <- RunningOf(gors),
    verdict   <- VerdictOf(gors),
    outcome   <- tracker.op.err,
    Disturbed <- Faults \cap {"drift", "vanish"} # {}

\* Whatever the schedule, the operations of the MR run one after another, change at most
\* one instance and only in the way of their kind, and the error the tracker holds is the
\* outcome of the last one.
SerialSpec == Serial!Spec

================================================================================
