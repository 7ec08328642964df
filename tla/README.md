# Upjet in TLA+

Upjet turns Terraform providers into Crossplane providers. At build time a pipeline
generates Go types and controllers from the Terraform schemas; at run time the generated
controllers reconcile *managed resources* (MRs) with the external API through Terraform
provider code. This directory holds TLA+ models of the run time and of the parts of the
pipeline that keep state, the TLC configurations that check them, and proofs that TLAPS
checks. `src/` stands for the root of the repository.

    tlc -workers 2 -config AsyncExternal_named.cfg MCAsyncExternal.tla
    tlc -workers 2 -config Workspaces.cfg MCWorkspaces.tla
    tlapm AsyncExternal_proofs.tla

## Inventory

| Component | State it keeps | Operations | What is hard |
|---|---|---|---|
| Asynchronous no-fork clients (`pkg/controller/external_async_tfpluginsdk.go`, `..._tfpluginfw.go`) | none of their own: they share the tracker | Observe, Create, Update, Delete; a goroutine for each operation, its finishing operations, its callback | the goroutine interleaves with later reconciles of the same MR |
| No-fork clients (`external_tfpluginsdk.go`, `external_tfpluginfw.go`) | the difference found by Observe | Connect, Observe, Create, Update, Delete | cached against reconstructed state, partial creations, external names |
| Operation record (`pkg/terraform/operation.go`) | type, times, error | MarkStart, MarkEnd, SetError, Clear, Flush | the error outlives the operation |
| Tracker store and finalizer (`nofork_store.go`, `finalizer_tfpluginsdk.go`) | trackers by UID: operation, Terraform state and its mark, logical deletion | Tracker, RemoveTracker, the setters | lost in a crash, dropped before the finalizer |
| Callbacks (`api.go`) | none | report the outcome, request a reconcile | fails to read or to update the MR |
| Event handler (`handler/eventhandler.go`) | the work queue, rate limiters by name | RequestReconcile, Forget | shares a limiter with the queue |
| Encapsulating rate limiter (`pkg/internal/ratelimiter`) | overrides, buckets of requests | Add, Remove, When, Forget, NumRequeues | shared limiters, moves between buckets |
| Reconciliation policies (`pkg/reconciler/reconciliationpolicy`) | the limiter | Reconcile, RemoveFinalizer | cached reads, MRs that vanish |
| CLI client and workspaces (`external.go`, `pkg/terraform/{workspace,store,files,finalizer}.go`) | a directory with a state file, an operation record | Observe, Create, Update, Delete, Import; Apply(Async), Destroy(Async), Refresh, Plan | operations that end while Refresh runs, partial files |
| Provider schedulers and runners (`pkg/terraform/provider_scheduler.go`, `provider_runner.go`) | runners by handle, use and invocation counts; process, stop channel | Start, Stop, Increment, Decrement | a runner is replaced between Start and its use |
| CRD migrator (`pkg/config/crd_migrator.go`, `cmd/crdmigrator`) | none in memory; objects and CRD status in the API server | Run, UpdateCRDStorageVersion | retries, crashes, concurrent writers, another revision that changes the storage version meanwhile |
| Conversions (`pkg/config/conversion*`, `pkg/controller/{conversion,annotation_conversions.go}`) | a registry; fields of other versions in an annotation of the object | RoundTrip, the merging and moving of annotation fields | values lost, resurrected or stale after many conversions |
| Helpers (`pkg/resource`, `ignored_tfpluginsdk.go`) | none | LateInitialize, sensitive parameters, ignored changes | what is merged, ignored and filled in feeds the next reconcile |
| Proposed state (`proposed_state.go`) | none | ProposedNew | elements of sets have no key |
| Configuration (`pkg/config/{resource,provider,externalname,common}.go`) | the versions of a kind: served, deprecated, stored, hub | setters with their validation | edited between releases |
| Pipeline (`pkg/pipeline`, `pkg/types`) | the generated files, of all releases | Run, hooks | files of previous versions are patched in place, runs may be interrupted |
| Scraper, examples, transformers, metrics (`pkg/registry`, `pkg/examples`, `pkg/transformers`, `pkg/metrics`) | files | | sequential programs |

How they interact: the work queue hands a request to the policy reconciler, which sets the
request's rate limiter and calls the managed reconciler of crossplane-runtime. That reads
the MR, calls Connect and then Observe, and one of Create, Update, Delete or the finalizer.
The asynchronous clients only start a goroutine. When it ends it writes the tracker, then
the status of the MR, and requests another reconcile from the event handler. Reconciles of
*one* MR never overlap; reconciles of different MRs do, and share the rate limiter.

What makes each component correct:

- *clients and tracker*: one operation at a time on an MR; a reconcile decides from a
  tracker that no operation is changing; nothing is left in the external API without an MR
  that will delete it; no instance is forgotten; errors reach the user and are retried;
- *finalizer*: it is in place from before the first operation until after the last one;
- *rate limiter*: a request has a retry state of its own, though it shares the limiter object
  with others (two comments say otherwise, see below), and leaves nothing behind;
- *policies*: the policy in force governs, and an MR's override goes with the MR;
- *schedulers*: a process is not stopped while it is used, is replaced in the end, and is
  forgotten when it ends;
- *workspaces*: no file of a directory changes while Terraform runs in it, an MR does not go
  before its instance, and deletions and specs get through;
- *migrator*: no stored object is left in a version that the CRD no longer lists, and every
  CRD is migrated in the end;
- *conversions*: clients of all versions work on one object;
- *documents*: a resource is reported as up to date only if it is as configured, and the
  client does not update it for ever;
- *pipeline*: there is one storage version and one hub, and what is deprecated says so once.

## Modules

| Module | Models | Extends |
|---|---|---|
| `Operation` | the operation record; each method is one operator | |
| `AsyncTracker` | the tracker of one MR | `Operation` |
| `AsyncExternal` | one MR with its reconcile worker, goroutines, API server, external API, users, crashes | `AsyncTracker` |
| `SerialOperations` | abstract: operations one after another | |
| `MCAsyncExternal` | model values | `AsyncExternal` |
| `AsyncExternal_proofs` | its theorems, the implementation of `SerialOperations` among them | `AsyncExternal` |
| `EncapsulatingRateLimiter` | the limiter, and any sequence of calls of it | |
| `PerRequestRetries` | abstract: a retry state for each request | |
| `ReconciliationPolicy` | policy reconciler and finalizer, managed reconciler, queue, cache, callbacks of several MRs | `EncapsulatingRateLimiter` |
| `MCReconciliationPolicy` | model values | `ReconciliationPolicy` |
| `ReconciliationPolicy_proofs` | its theorems, and those of the limiter | `ReconciliationPolicy` |
| `SharedProviderScheduler` | provider processes shared by the workspaces of several MRs, with their reconciles and CLI runs | |
| `MCSharedProviderScheduler` | model values | `SharedProviderScheduler` |
| `SharedProviderScheduler_proofs` | its theorems | `SharedProviderScheduler` |
| `WorkspaceProvider` | the scheduler of one workspace over its provider process | |
| `CLIWorkspace` | one MR with its CLI client, workspace, store entry, goroutine, API server, external API | `Operation` |
| `Workspaces_proofs` | theorems about both | `CLIWorkspace`, `WorkspaceProvider` |
| `MCCLIWorkspace` | sets of faults | `CLIWorkspace` |
| `MCWorkspaces` | runs `CLIWorkspace` and `WorkspaceProvider` side by side | `MCCLIWorkspace`, `WorkspaceProvider` |
| `CRDMigrator` | the storage migration beside other clients and revisions | |
| `VersionLifecycle` | the API versions of one kind on disk, through edits and runs of the pipeline | |
| `APIConversions` | one object in two API versions, its clients and its controller | |
| `Versions_proofs` | theorems about the three | `CRDMigrator`, `VersionLifecycle`, `APIConversions`, `Induction` |
| `MCVersions` | runs `CRDMigrator`, `VersionLifecycle` and `APIConversions` side by side | `CRDMigrator`, `VersionLifecycle`, `APIConversions` |
| `ProposedState` | plans of the framework client | |
| `Induction` | induction over the naturals, for proofs | |
| `ProposedState_proofs` | its theorems | `ProposedState`, `Induction` |
| `ManagedParameters` | spec, differences and late initialization of the SDKv2 client | |
| `ManagedParameters_proofs` | its theorems | `ManagedParameters` |
| `MCReconciles` | runs `SharedProviderScheduler`, `ReconciliationPolicy`, the limiter alone, `ProposedState` and `ManagedParameters` side by side | `MCReconciliationPolicy`, `MCSharedProviderScheduler`, `ManagedParameters`, `ProposedState` |

### AsyncExternal

`mr` is the MR in the API server. Its resource version is not a number: every copy that a
worker or a callback holds has a flag `fresh`, which any write by somebody else clears, and
an update with a copy that is not fresh is a conflict. `tracker` is the tracker of the MR's
UID. A Terraform state is its identifier: `NoId` is a nil state, a null value or a state with
an empty ID, which every reader treats alike. `world` gives each identifier the configuration
of its instance, or `Gone`.

The worker's program counter follows `managed.Reconciler.Reconcile`. Each action ends where
the code reads or writes something shared: `ConnectCheckState` and `ConnectReconstruct` are
the two critical sections of Connect (`external_tfpluginsdk.go:271`, `315`),
`ObserveOperation` is the asynchronous Observe up to the inner one, `ObserveRead` is the inner
Observe with the part of the asynchronous one that follows it, `StartOperation` is Create,
Update or Delete up to the `go` statement, and `ReturnFromStart` the error they return. The
other actions of the worker are the managed reconciler's, whose code is not in the repository:
the finalizer, the `external-create-pending` annotation (`pending`), late initialization, the
status update. After a Create the reconciler settles the annotation with retries, whatever the
outcome, so `ReturnFromStart` does not conflict.

A goroutine calls the provider and stores the state (`ProviderCall`), publishes its error
(`PublishError`), marks the operation ended (`EndOperation`), and runs the callback
(`CallbackGet`, `CallbackPut`), which may be delayed until after later operations. A panic is
a failed call: the finishing operations are deferred. The provider call is one step, since
while it runs nobody else looks at the external resource or the cached state but a Connect,
and that is exactly ordered before or after the store. `Framework` selects the differences of
the framework client: the partial state of a failed create is always stored, and the external
name is recovered from it.

The work queue is `queued` (the key is in the queue, or was added while it was processed) and
`delayed`, the earliest of the delayed adds: `"soon"` for a back-off, `"poll"` for the poll
interval. Results of a reconcile become one of them in `Complete`.

Disturbances (`Faults`) are provider calls that fail, reads that fail or miss an existing
instance, API calls that fail, a crash, drift, deletion by others, a change of spec, a new MR
of the same name. Conflicts are no disturbances: they follow from the interleaving.

### EncapsulatingRateLimiter and ReconciliationPolicy

Each method of the limiter holds its lock for its whole body and is one action on `inner`,
`rateLimiters` and `defaultRateLimiter`. A limiter object is the exponential one of client-go,
that is, a count of failures for each request. `LimiterSpec` allows any sequence of calls.
Because the counts are by request, requests that share a limiter share its delays but no retry
state: `RequestsIndependent` says so, is checked and proved. Two comments of the code say the
contrary. `encapsulating.go:23-25`: "all requests sharing a key share the same backing rate limiter
and therefore share its retry state". `reconciliationpolicy/types.go:25-27`: "Requests with an
override share the rate limiter (and therefore the retry/backoff state) of every other request
configured with the same base and max delays". `RetryStateShared` states what they say, and
`EncapsulatingRateLimiter_shared.cfg` shows that the first failure in a shared bucket violates it.
`ReconciliationPolicy` drives it as the program does: `PolicyIsRead`, `PolicyIsNotRead` and
`SetRateLimiter` are `setRateLimiter`, split where it reads the API server; `RemoveOverride`
follows the removal of the finalizer; `Succeeded` and `Failed` are the queue's Forget and
AddRateLimited; `RequestReconcile` is the event handler's, called by callbacks at any time,
together with its Forget after a success. MRs are read from a cache that lags by any amount
(`CacheSync`). There is no time, so the queue and its delayed adds are one set.

### SharedProviderScheduler

`runners` is the scheduler's map: whether a handle has a runner, its use count and its
invocation count. `workers` is one reconcile for each MR as the CLI client
(`pkg/controller/external.go`) performs it: Start (`ScheduleProvider`), sharing the runner with
the workspace (`UseProvider`), a refresh and a plan, then perhaps another Start and an apply or
destroy. `BeginSync` and `EndSync` are the two ends of `runTF` with its Increment and
Decrement; between them the CLI runs. `cli` is the goroutine of ApplyAsync or DestroyAsync:
counted in by `BeginAsync`, it runs between `LockWorkspace` and `UnlockWorkspace`, is counted
out by `CountOut` and ends its operation in `MarkEnd`. UseProvider takes the lock that the CLI
holds, and so waits for it. Only the end of the operation frees the handle, since
`WorkspaceStore.Workspace` leaves a busy workspace alone. Stopping a runner cannot fail, as it
has been started before; starting one can.

Runners have no identity in the code either: counts are found by handle. What a worker or
workspace holds of one is therefore `"current"` or, once it was replaced, `"stale"`.

### WorkspaceProvider

`runner` is the `SharedProvider`: the process whose reattach configuration it has, and its
stop channel. Every Start that forks has a goroutine (`attempts`), numbered with the channel it
made; `stopped` are the channels that were written and closed. Start holds the lock while it
waits for the process to announce itself (the worker is `"starting"`), and returns with the
configuration (`Attach`), an error, nothing at all when the process exited with status 0
(`StartFails`), or after its timeout. `Select` is the goroutine's read of the channel without
the lock (`provider_runner.go:204`); `ClearConfig` its deferred function, which clears the
configuration of whichever process is there. The reconcile calls Stop when it disconnects: a
goroutine (`stoppers`) waits for the users and then stops the runner, in two steps.

`OneProcess` ("if not already running", `provider_runner.go:145`) does not hold: a Start that
timed out leaves its process to come up later, beside that of the next Start. It is stated and
in no run. Reusing the wait group while a stopper waits may panic; that is not modelled.

### CLIWorkspace

`dir` is the directory: `main` is main.tf.json (the spec, `prevent_destroy`, the provider
version), `state` the state file, `lock` the lock file that `init` leaves. `store` is the entry
of the workspace store with its operation record. The worker's counter follows the calls of
`external.go`: `Workspace` (with `EnsureTFState`), `WriteMainTF`, `InitWorkspace`,
`ObserveOperation`, `Refresh`, `Plan` or `Import`, what the managed reconciler makes of the
observation, and `Apply`, `Destroy`, `ApplyAsync` or `DestroyAsync`. `RunAsync` and `EndAsync`
are the goroutine, `Callback` its callback. Terraform itself is `ApplyTo`, `ApplyTaints`,
`Destroys`, `Refreshed`. Left out are the `external-create-pending` annotation, conditions,
connection details, late initialization of parameters, timeouts of operations and torn state
files.

`lost` is a history variable: a state that had an instance has gone, with the directory or with an
import. `files.go:252` says that the removal of a resource from the state signals its deletion.
That is not so then: Import removes the state before it imports, and when it fails, the next
Observe finds an empty state, and the finalizer goes. `CLIWorkspace_lost.cfg` shows it
(`RemovalSignalsDeletion`); `NothingLeftBehind` makes an exception of what is `lost`.

### CRDMigrator

`crds` has the storage version, `status.storedVersions` and the objects with the version each
is stored in. `migrator` is the run: `seen` are the CRDs as they were listed at its start,
which every later step relies on, `page` and `rest` the objects of a list. `ListPage` takes any
page, as the order of a list means nothing here. A transient error repeats a call
(`CallRetried`), any other one, or the last attempt, ends the CRD (`CallFails`, `NextCRD`) but
not the run. `Upgrade` is another revision
of the package, whose pod replaces the old one at some later time (`Rollout`).

### VersionLifecycle

`config` is what the setters of `config.Resource` leave behind (an edit that validation rejects
has no action), `files` the storage marker, lifecycle markers and description of the types of
every version, `nodes` the conversion hubs and spokes. A run writes the types of the version
that is generated, hubs and spokes, then goes over previous versions with each hook, and may be
interrupted after any file. Conversion files are removed before a run, as the providers' builds
do. `MarkersInSync` ("always in sync", `hooks_deprecated_version.go:128`) does not hold: a
version that is served again, or not deprecated any more, keeps its markers.
`VersionLifecycle_markers.cfg` shows it. Markers and lines of the description are bags, since a
hook could write one twice. The template puts the notice on the line of the description and the
hook removes a notice with its whole line, so a version that was deprecated when it was generated
loses its description; once its last line is gone no notice is written any more, should the version
be deprecated again
(`NoticeShown`, `VersionLifecycle_notice.cfg`). `LifecycleShown` excepts that case.

### APIConversions

The resource has a field of every kind of change between two versions: type changed, renamed,
added, deleted, added in list elements, list to embedded object, added in the status. A document
maps leaf paths to values. `RoundTrip` applies the registered conversions in the code's order;
`Conversions` is the registry, with `RegisterAutoConversions` for the automatic ones; `Stage`
applies it, once for the identity conversion (`managed`) and once for the others (`paved`).
`ClientWrites` is a client that sets the fields of its version and sends back the annotations it has
read; `Observe` is the controller of v1, which moves what v1 has no field for to the
annotation. `intent` is a history variable: what the clients mean. Clients of v1 do not remove
list elements that have a field in the annotation; if they do (`Shortens`), the element comes
back as a stub in v2, against `conversions.go:438-440`: `APIConversions_deleted.cfg` shows it.

### ProposedState and ManagedParameters

Both plan an update of one example resource, apply it, and let users and others change
things. `ProposedState` translates `proposed_state.go` for what its resource has: leaf attributes,
nested attributes that are single, a list, a map or a set, and a set of blocks. Blocks of the
other nesting modes are left out. The objects in its resource have no objects below them, so the
recursion of the code is written as one level inside of another (`ProposedNewAttributes`, `ProposedNewObject`), which lets the provers
reason about it. `Planned` and `Made` are a provider that marks unknown values as the
framework does and returns the elements of a set in any order, with computed values that
depend on what is required of them; `DiffExists` is `getDiffPlanResponse` with its filter. The values that
strings may have, the keys of a map and what the user sets are constants (`Strings`, `Labels`,
`Parameters`): a run has a few, the proofs have any. Containers inside of set elements are left
out. For a set of nested attributes `OwnValues` fails (`Reconciles_correlate.cfg`), against
`proposed_state.go:587-591`: the walk looks schema paths up that do not resolve, and every prior
element counts as valid. `ManagedParameters` merges `initProvider`, `forProvider` and Secrets,
finds the differences, filters those that only `initProvider` is concerned with, and
late-initializes. Documents map leaf paths to values; `CompletedBy` is the merge of two.
`SpecWins` has one exception: the merge does not tell a zero value of `forProvider` from none, so
that a value of `initProvider` at the same path replaces it, and the resource is reported as up to
date with that one. `terraformed.go.tmpl:101-105` says of the merge: "we don't want to overwrite the
forProvider fields with the initProvider fields". `ForProviderKept` is `SpecWins` without the
exception, and `ManagedParameters_zero.cfg` shows it violated.
The list `net` has one element, so that what becomes of the length key of a list of which
`initProvider` has more elements than `forProvider` (`external_tfpluginsdk.go:378-379`) is not seen.
Neither has errors of the provider, and `ManagedParameters` no replacement.

## Runs

| Run | Result | States | What it shows |
|---|---|---|---|
| `async_named` | pass | 1.5 M | `TypeOK`, `SingleFlight`, `WorkerExclusive`, `FinalizerGuards`, `FinalizerHeld`, `ErrorKept`, `SerialSpec`: SDKv2 client, identifier from the spec, every disturbance but missed reads, two of them |
| `async_generated` | pass | 3.7 M | `SuccessPromptlyObserved`, `OnlyConnectForgets`: framework client, generated identifiers, partial creations, failed updates and reads, spec changes |
| `async_live` | pass | 0.27 M | `DeletionCompletes`, `SpecApplied`, `ErrorCleared` under fairness, with one transient disturbance |
| `leak` | violation | | Connect overwrites the state of a create that just ended: two instances, without any fault |
| `retry` | violation | | a failure that meets a cached error is retried by nobody before the next poll |
| `logical` | violation | | a conflict on the finalizer makes a logically deleted resource exist again |
| `policy_leak` | violation | | an MR deleted before its finalizer was added leaves its override behind |
| `workspaces` | pass | 108 K | `FilesUntouched`, `NothingLeftBehind`, `DeletionCompletes`, `AppliedInTheEnd` (`SpecApplied`); `StopNeverBlocks`, `DeadIsForgotten` of the provider process |
| `versions` | pass | 86 K | `StoredIsListed`, `MigratedInTheEnd` (`MigrationCompletes`); `RolesAsConfigured`, `LifecycleShown`; `OneObject`, `ControllerSeesAll` |
| `reconciles` | pass | 70 K | `CountsAgree`, `WithinBudget`, `PinnedWhileInUse`, `ExpiredIsReplaced`; `Registered`, `NoStrayFailures`, `RequestsIndependent`, `PolicyDecides` (`PolicyApplied`); `UpToDateConforms`, `UpdateSettles`, `OwnValues`; `InitOnlyLeftAlone`, `SpecWins`, `Settles` |
| `cli_upgrade` | violation | | a provider upgrade that failed is never repeated |
| `scheduler_stale` | violation | | a runner is replaced between Start and the first use, or between refresh and plan: the CLI is attached to a stopped one |

`workspaces`, `versions` and `reconciles` check modules that do not meet: `system` says which one
takes steps, the others rest in an initial state, so that the states are the sum and not the
product of theirs. Their cfgs say `CHECK_DEADLOCK FALSE`, since some of the modules stop when
their bounds are used up. In `reconciles` the policies follow one MR, and the limiter alone is
called in any order for three requests; that two MRs under policies make no other calls is the
theorem `DrivesLimiter`. Seven further cfgs (`APIConversions_deleted`, `Reconciles_correlate`,
`VersionLifecycle_markers`, `VersionLifecycle_notice`, `CLIWorkspace_lost`, `ManagedParameters_zero`,
`EncapsulatingRateLimiter_shared`) end in the violations described above.

The violations are disagreements between the code and its own comments, which PROJECT.json
quotes. That of `leak` needs the goroutine to end in a small window of a Connect. That of `retry`
needs no window: a reconcile that sees the retried operation running ends with the poll interval,
and whenever the operation fails after that test the cached error of the first failure
suppresses the request.

Bounds. Two slots for goroutines: one operation in flight and one callback that lingers; a
third callback adds no behaviour, as callbacks touch nothing but the MR's condition, freshness
and the queue. When no slot is free the start of an operation waits, which only delays.
One identifier where names are computed, two where they are generated: a second instance is
what `leak` is about, and `NewIds` refuses when none is left. Two specs make an update, drift
and a change of spec possible. Two disturbances allow a failure and its interrupted repair.
`FinalizerGuards` is checked without `readMisses`: a provider that reports an existing resource
as absent makes the reconciler drop the finalizer of a deleted MR, which the code cannot know
better. With generated identifiers missed reads, crashes and instances that vanish forget an
instance by themselves; `OnlyConnectForgets` is checked with creations that fail in part, updates
and reads that fail and changes of spec, and proved with all the others.
`MaxFailures` bounds the consecutive failures counted for a request: at the bound a further
one leaves the count. For the scheduler two MRs are one that uses a runner and one
that would replace it, and two handles let it leave a runner behind, which only
the MR that applies asynchronously does; with a TTL of 1 a runner is replaced after its second use. `WithinBudget` is tight: it fails with one
less. The provider process has two attempts and two stoppers: an attempt that fails late, and the
next one. The CLI has two disturbances, as the clients; the upgrade is left to
`cli_upgrade`. The migrator has two CRDs, one that cannot be patched, pages of one
object, one upgrade, one error, one write; two upgrades were checked alone, and an upgrade
back and forth leaves objects behind that no status lists (the exception in `StoredIsListed`). Three
versions make a previous version that is neither the storage version nor the oldest, and four edits
deprecate one, change or revoke that, and move the storage version. The example
resources have one field of each kind, and their users set at most two or three at a time; two
disturbances are an edit and one by others.
Symmetry sets are used in safety runs only, over slots and identifiers
(where `NameId` plays no role).

Fairness. `WF` of the timers, of the worker and of each goroutine: timers fire, the scheduler
runs every goroutine, and every call returns, the provider's at the latest when its context
expires after an hour. Nothing is assumed of users or disturbances, which the budget bounds.
For the policies: workers and informer run (`WF`), and a policy that is read again and again
is not failed for ever (`SF` of `PolicyIsRead`). For the scheduler: reconciles are retried or
polled, and a CLI run ends at the latest when its context expires (`WF` of both). For the
provider process: goroutines run, Start times out, and a goroutine that asks for the lock gets it
though others take it in between (`SF` of `ClearConfig`, as Go's mutexes hand over to starving
waiters). For the CLI: the queue comes back to every MR, and the CLI and callbacks end;
`DeletionCompletes` has the premise that reconciles find the workspace idle again and again,
which fairness alone does not give when each starts an operation. For the migrator: it goes on,
a failed container is restarted, and the pod is replaced. `Settles` needs none: a client that stops plans nothing.
The liveness run has failed and partial creations, failed updates, deletions and reads, missed
reads, refused API calls, drift and changed specs. It leaves out recreated MRs, instances that
vanish, and crashes, since a creation that a crash interrupts waits for a human (`Terminated`).

## Proofs

All are for any constants that satisfy the assumptions of their module (`ConfigAssumption`;
`KeyAssumption` and `BoundAssumption`; `MRsAssumption` and `TTLAssumption`; `CLIAssumption`;
`MigratorAssumption`; `LifecycleAssumption`; `ConversionsAssumption`; `ParametersAssumption`; `ValuesAssumption` and
`EditsAssumption` for `ProposedState`; none for `WorkspaceProvider`):
any number of slots, identifiers, specs, requests, keys, faults, MRs, handles, processes, CRDs,
objects, versions and edits, any values and lists, sets and maps of any size.

The asynchronous clients (`AsyncExternal_proofs`):

- `TypeCorrect`: one lemma for the worker, one for the goroutines, one for the environment.
- `Inductive`: `IInv == TypeOK /\ SingleFlight /\ WorkerAlone /\ FinalizerHeld /\
  Bookkeeping`, where `WorkerAlone` is `WorkerExclusive` as the tracker tells it. None of the
  parts is inductive alone. `SingleFlight` says that the record of the tracker agrees with the
  goroutines; it would break if the worker cleared the record or
  replaced the tracker while one runs, which `WorkerAlone` excludes. That in turn holds
  because only the worker starts operations, and `Bookkeeping` ties the worker's position to
  the operation it saw: after an observation that says "running" no path leads to the
  finalizer or to Create and Update, and Delete refuses. A new MR of the same name has a new
  tracker; that no goroutine is left then to be forgotten is `FinalizerHeld`.
  `OneOperationAtATime`, `ReconcileUndisturbed` and `OperationsAreGuarded` are its parts.
- `SuccessObserved` (`SuccessPromptlyObserved`), if the API server does not fail. `PInv` adds to
  `IInv` who will see to the outcome of an operation that succeeded (`SuccessAwaited`): the queue,
  the callback that was told to wake it, or a worker that has not looked at the tracker yet. It
  needs that the error which is published is the goroutine's (`OutcomePublished`), and that a worker
  stops at an MR that is pending only when its tracker has no operation (`PendingInv`).
- `InstancesAreGuarded` (`FinalizerGuards`), if the identifier is computed from the spec, a
  successful delete call deletes and no read misses what exists. `GInv` follows the one instance
  there can be: from Connect on and while an operation runs the cached state has it
  (`StateFound`), what is absent for the worker is absent until it creates it (`ObservedSound`),
  and a deletion that has begun is known to whoever could create (`ViewSound`, `DeletionStays`).
- `ForgottenByConnectOnly` (`OnlyConnectForgets`), if a successful delete call deletes, no read
  misses what exists and, with generated identifiers, the process is not restarted and instances do
  not vanish by themselves. With an identifier from the spec it follows from `GInv`: nothing is
  ever forgotten. With generated ones the only sources of an identifier are the cached state and
  the MR, and `KInv` follows which of them has it: when the instance of the MR exists the state has
  no other, and has it while somebody acts on it (`StateKnown`), a state marked as reconstructed is that of the MR, so
  that dropping it after a failed read loses nothing (`MarkSound`), and the worker's copy has the
  name of the MR or one that it found in the state and is about to record (`CopySound`). Where it
  finds nothing or creates there is no name (`AbsentSound`, `CreatesUnknown`), and a name goes only
  after its instance (`DeletionSound`). Every step but `ConnectReconstruct` then preserves
  `NoneForgotten` (`Remembered`), which is no invariant itself: the run `leak` shows why.
- `ImplementsSerialOperations`: the goroutine in `call` or `store` is the operation that runs
  abstractly, its error the verdict, and the tracker's error the outcome. Each action maps to
  one abstract action or a stutter, `Crash` to `Restart`, drift to `Disturb`.
- `FailureIsKept`: `ErrorKept`, from the invariant.

The rate limiter and the policies (`ReconciliationPolicy_proofs`):

- `BucketsMatch`, `ImplementsPerRequestRetries`: from an invariant on `inner` and
  `rateLimiters` that adds to `Registered` that buckets are nonempty and that a bucket counts
  nothing for strangers, without which a request that comes back to a shared limiter would not
  start afresh as `PerRequestRetries` wants.
- `DrivesLimiter`: the steps of the whole are calls of the limiter or stutter, so that the two
  theorems carry over (`PolicyBucketsMatch`, `PolicyRequestsIndependent`), and with them
  `NoStrayFailures`, the second part of that invariant (`PolicyNothingRemembered`).
- `PolicyTypes`: the types, with the bound on the failures counted for a request. A request that
  loses its override goes on with the count of the default limiter, so `Bounded` bounds both.

The CLI (`SharedProviderScheduler_proofs`, `Workspaces_proofs`):

- `TypeCorrect` of the scheduler, `WorkspaceTypes` of the workspace.
- `CountsMatchUsers`, `ReplacedOnlyUnused`: the invariant adds to `CountsAgree` that whoever is
  about to count has a runner to count on (`Given`), and that a handle without one counts
  nobody (`NobodyCounted`). Each count that changes goes with one worker or goroutine that
  enters or leaves the set of users (`CountedIn`, `CountedOut`).
- `BudgetIsBounded`: `WithinBudget` is not inductive, since it forgets who may still count.
  `Foreseen` adds to the invocation count the workers that were given the runner and may run the
  CLI once (`Once`) or twice (`Twice`); a step that counts takes its worker out of one of them.
- `StopFindsRoom` (`StopNeverBlocks`): the attempts that were made are
  numbered `1..k`, so that a new one has a channel that nobody has written. Without that the
  invariant would allow Stop to write twice to one channel.
- `FilesStayUntouched` (`FilesUntouched`): `BusyInv` says that the record of the operation and the
  goroutine agree, unless the workspace was removed for an MR that is let go (`Orphaned`), and that
  a worker which uses the directory, or has found nothing in it, does so while none is recorded.
- `DeletionLeavesNothing` (`NothingLeftBehind`): `RecordedInv` says that whatever exists is in the
  state, from the finalizer or the first step in the directory on, so that nothing exists
  where a reconcile found nothing. It needs that nothing is created before the finalizer is there
  (`NewInv`), that an MR which is deleted does not change its policy (`MRInv`), and, with
  identifiers from the name, that nobody has another one (`NamedInv`).

What is stored and generated (`Versions_proofs`) and the parameters of an MR
(`ManagedParameters_proofs`):

- `StoredVersionsStayListed` (`StoredIsListed`): the status update drops every
  version but the target, which is right only because of what the run did to the objects
  before. `CRDInv` follows the objects that are stored in another version than the storage
  version: while a page is patched they are among those listed and not patched yet (what
  clients write is stored in the storage version), and after the last page there are none.
  It says nothing of a CRD whose storage version has changed since the run listed it.
- `OneStorageVersion` (`RolesAsConfigured`): the invariant says of each
  kind of file what is known of it when a step of the run is past: types, hubs, spokes and
  the markers of the versions that the hook has visited.
- `LifecycleIsShown` (`LifecycleShown`): the second hook in the same way (`ShownInv`): what it has
  visited shows what it has to, whatever was in the file, since all markers and notices are
  removed first.
- `SpecIsEnforced` (`SpecWins`): from the types alone, but along the whole of the difference: a
  value of `forProvider`, zero or not, survives the merge with `initProvider` (but for the zero values
  that are `Overwritten`, which become those of `initProvider`), differs from a state that
  has another value or none, and is not among the paths that are left out, since what only `initProvider`
  has is found by leaf and no leaf of the example lies below another (`PathsApart`).
- `InitOnlyIsLeftAlone` (`InitOnlyLeftAlone`): needs `InitOnlyKept`, that late initialization leaves
  a field alone as a whole when `initProvider` has some of it, so that what `forProvider` has of
  it is the user's. Without that a late-initialized neighbour would bring the field
  back into the differences.

The plans of the framework client (`ProposedState_proofs`), from `ValuesAssumption` (Null and
Unknown are none of the values they stand for) and `EditsAssumption` (what the user sets has
the types of the schema, and the elements of the set differ in their key):

- `ProposedStateTyped`: the types, and `OwnIds`, that an element of the set carries the computed
  value that was made for it. A plan keeps what is known of it (`ProposalTyped`), whatever the
  correlation chooses, and `Made` names the rest (`ResultTyped`). It holds for blocks and nested
  attributes.
- `UpToDateConformsAlways` (`UpToDateConforms`), for both as well. A proposal agrees with the
  configuration wherever that has a value, and where it has none is null or computed (`Follows`,
  `ProposalFollows`); a plan without a difference that counts hands that on to the resource, at
  each level and for each kind of container (`NoDifferenceFollows`), and what follows a
  configuration conforms to it (`FollowingConforms`).
- `UpdateSettlesAlways` (`UpdateSettles`), for blocks: proposing again from what was made of a plan
  gives the same resource back (`ProposalSettles`). For lists and maps that is so by position. For the
  set it is so because an element of the resource that is correlated with one of the
  configuration has its key and no other has (`DisksSettle`), in whatever order the provider returned them.
- `OwnValuesAlways` (`OwnValues`), for blocks: an element of the resource which could come from one of the
  configuration has its key, and the computed value of that key.

The conversions between API versions (`Versions_proofs`), for any numbers that text may read
as, any lists, any external resources and any history of reads, writes, observations and
revisions, if clients of v1 remove no element that has a field of v2 only (`~Shortens`):

- `OneObjectAlways` (`OneObject`), `ControllerSeesAllAlways` (`ControllerSeesAll`), `ObjectTyped`
  (`ObjectTypeOK`), from `ObjectInv`: what is stored `Represents` the object, that is, it `Shows` the
  fields of its version and `Keeps` in the annotation those that only the other one has. Without
  `Keeps` nothing follows for a read in the other version.
- The registry is a fold, and what it comes to is proved once: `ConversionsAre` lists the fifteen
  conversions in their order, `StageRuns` says that a stage applies them one after the other
  (induction over the registry), and `ToV2Stage` and `ToV1Stage` put together what each does.
  `ToV2` and `ToV1` say that the result `Represents` the object in the other version, or that the
  conversion fails because that version cannot hold it. `Shortens` is needed:
  `APIConversions_deleted.cfg` shows what happens otherwise.

The correlation of sets in `ProposedState` is a recursive function. That it exists (`CorrelatedExists`) is induction
over the elements of the configuration. The library's induction theorems take an operator,
which the provers cannot instantiate; `NaturalsByInduction` states it of a set instead, and
follows from the well-foundedness of the naturals. `IgnoresKey` is what the last two theorems
exclude, and `Reconciles_correlate.cfg` shows that `OwnValues` needs `DisksAreBlocks`.

Each inductive invariant was checked by TLC on a small instance first. Two attempts failed for a
reason in the model or the code: a notice is not always shown (`VersionLifecycle_notice.cfg`), and
an instance is left behind after an import that failed (`CLIWorkspace_lost.cfg`).

Only model-checked: all liveness, `Settles` included, which is out of the prover's reach.
The resource of `APIConversions` and that of `ProposedState` have fixed fields, one of every kind;
the theorems are for any values and sizes of them, not for any schema.
`ReconcilesTypeOK` joins the types of four modules, each of which has its theorem.
`FinalizerGuards` is neither checked nor proved for generated identifiers (an identifier
that is lost before it is recorded, as in `leak`, leaves an instance behind) or logical deletion.

## Not modelled

Of the clients: the informer cache (the core reads the MR from the API server; a lagging cache
is modelled for the policies), pause, initializers, connection details, data conversions, the
framework's resource identity (an optional hint that is rebuilt from the state), a delete call that
succeeds without clearing the state, the synchronous clients (the same operations without
goroutines). `AsyncExternal` late-initializes the external name only, and `ManagedParameters` has the
other fields. RemoveTracker never fails in the code. The managed reconciler, the queue, the API
server and the provider are modelled as far as the code relies on them.

Of the conversions: custom converters, defaults for fields under wildcards, and the conversions
of whole documents between Crossplane's and Terraform's shape of singleton lists. Two facts about
annotations are outside of the model: an object without annotations loses the update, since
`SetAnnotations` is given the nil map that could not be written
(`annotation_conversions.go:179`), and the annotation entry of a field that a later version
dropped replaces what a client of the older version sets.

Of the configuration and the pipeline: everything but the versions of a kind. The generation
of Go types, controllers, registrations and examples, the scraper, the reference resolver and the
transformers are sequential translators without state between runs. Metrics only observe.
The round-trip tester and the other test harnesses are tests.

## Plan

1. *done*: `AsyncExternal` with `SerialOperations`, `EncapsulatingRateLimiter` with
   `PerRequestRetries`, `ReconciliationPolicy`, `SharedProviderScheduler`, with their proofs.
2. *done*: `WorkspaceProvider`, `CLIWorkspace`, `CRDMigrator`, `VersionLifecycle`,
   `APIConversions`, `ProposedState`, `ManagedParameters`.
3. *done*: proofs about every module.
4. *left*: the instances that are guarded though their identifiers are generated (all that is not
   forgotten); conversions of documents with any schema; fields below elements of sets in `ProposedState`.
