--------------------------- MODULE Workspaces_proofs ---------------------------
(***************************************************************************)
(* The workspace of an MR that is reconciled with the Terraform CLI: its   *)
(* files are left alone while Terraform runs in them in the background,    *)
(* and an MR that is deleted does not go before its instance, whatever     *)
(* fails and however often the controller restarts.                        *)
(*                                                                         *)
(* What makes the deletion safe is that an instance that exists is the one *)
(* in the state (Recorded).  That needs the identifier (NamedInv: an       *)
(* instance made for an MR of the same name before is the one that an      *)
(* empty state is filled in with), the finalizer (NewInv: nothing is       *)
(* created before it is there) and the record of the operation (BusyInv:   *)
(* nothing is created after the worker has found nothing).                 *)
(*                                                                         *)
(* Stop never blocks with the lock held, however many processes are        *)
(* started and however many goroutines stop them.  The channel in the      *)
(* runner is that of an attempt, and each attempt makes a channel of its   *)
(* own: since the attempts are numbered in the order in which they are     *)
(* made (Tried is 1..k), that of a new one was never written.              *)
(***************************************************************************)
EXTENDS CLIWorkspace, WorkspaceProvider, FiniteSetTheorems, TLAPS

(* The types of the variables that are records or functions *)

Stores  == [known: BOOLEAN, terraformID: AnyId, op: CLIOperations]
Dirs    == [main: Mains, state: States, lock: Versions \cup {NoVersion}]
Workers == [pc: WorkerPCs, view: MRs, fresh: BOOLEAN, obs: Observations]
Setups  == [async: BOOLEAN, generated: BOOLEAN, version: Versions]
Worlds  == [Ids -> Specs \cup {Gone}]
Budgets == 0 .. MaxFaults

\* The empty records have their types.
LEMMA InitialTyped ==
    ASSUME CLIAssumption
    PROVE  /\ NoMR \in MRs /\ NoMain \in Mains /\ NoState \in States /\ EmptyState \in States
           /\ NoDir \in Dirs /\ NoWorkspace \in Stores /\ IdleWorker \in Workers /\ NoCLI \in CLIs
           /\ Absent \in Observations /\ UpToDate \in Observations /\ LateInit \in Observations
<1>1. NoMR \in MRs /\ NoMR.spec \in Specs
  BY DEF CLIAssumption, NoMR, MRs, AnyId
<1>2. NoMain \in Mains
  BY <1>1 DEF CLIAssumption, NoMain, Mains
<1>3. NoState \in States /\ EmptyState \in States
  BY <1>1 DEF NoState, EmptyState, States, AnyId
<1>4. NoDir \in Dirs
  BY <1>2, <1>3 DEF NoDir, Dirs
<1>5. NoWorkspace \in Stores
  BY DEF NoWorkspace, Stores, NewOperation, CLIOperations, AnyId
<1>6. Absent \in Observations /\ UpToDate \in Observations /\ LateInit \in Observations
  BY DEF Absent, UpToDate, LateInit, Observations
<1>7. IdleWorker \in Workers
  BY <1>1, <1>6 DEF IdleWorker, Workers, WorkerPCs
<1>8. NoCLI \in CLIs
  BY DEF NoCLI, CLIs
<1> QED
  BY <1>1, <1>2, <1>3, <1>4, <1>5, <1>6, <1>7, <1>8

\* What the values of the empty records are.
LEMMA InitialFields ==
    ASSUME CLIAssumption
    PROVE  /\ ~NoMR.present /\ ~NoMR.deleting /\ ~NoMR.finalizer /\ ~NoMR.observeOnly
           /\ IdleWorker.pc = "idle" /\ ~NoState.instance /\ ~EmptyState.instance
           /\ ~NoDir.state.instance /\ ~NoCLI.running
           /\ ~IsRunning(NoWorkspace.op)
           /\ ~Absent.exists /\ UpToDate.exists /\ LateInit.exists
BY DEF NoMR, IdleWorker, NoState, EmptyState, NoDir, NoCLI, IsRunning, NoWorkspace, NewOperation,
       Absent, UpToDate, LateInit

\* The types, variable by variable.
LEMMA Typed ==
    TypeOK <=> /\ mr \in MRs /\ world \in Worlds /\ setup \in Setups /\ store \in Stores
               /\ dir \in Dirs /\ worker \in Workers /\ cli \in CLIs /\ callback \in BOOLEAN
               /\ budget \in Budgets /\ lost \in BOOLEAN
BY DEF TypeOK, Worlds, Setups, Stores, Dirs, Workers, Budgets

\* The same for the variables after a step.
LEMMA TypedNext ==
    ASSUME mr' \in MRs, world' \in Worlds, setup' \in Setups, store' \in Stores,
           dir' \in Dirs, worker' \in Workers, cli' \in CLIs, callback' \in BOOLEAN,
           budget' \in Budgets, lost' \in BOOLEAN
    PROVE  TypeOK'
BY DEF TypeOK, Worlds, Setups, Stores, Dirs, Workers, Budgets

--------------------------------------------------------------------------------
(* Records with one field replaced *)

\* A reconcile that goes on elsewhere.
LEMMA WorkerAt ==
    ASSUME NEW w \in Workers, NEW pc \in WorkerPCs
    PROVE  LET new == [w EXCEPT !.pc = pc]
           IN  /\ new \in Workers /\ new.pc = pc
               /\ new.view = w.view /\ new.obs = w.obs /\ new.fresh = w.fresh
BY DEF Workers

\* A directory with another state.
LEMMA DirStateReplaced ==
    ASSUME NEW d \in Dirs, NEW s \in States
    PROVE  LET new == [d EXCEPT !.state = s]
           IN  new \in Dirs /\ new.state = s /\ new.main = d.main /\ new.lock = d.lock
BY DEF Dirs

\* A state with an instance.
LEMMA InstanceTyped ==
    ASSUME CLIAssumption, NEW id \in AnyId, NEW attrs \in Specs
    PROVE  LET s == Instance(id, attrs)
           IN  s \in States /\ s.instance /\ s.id = id /\ s.attrs = attrs /\ ~s.tainted
BY InitialTyped DEF Instance, EmptyState, NoState, States, AnyId

\* The record of the last operation keeps its type.
LEMMA OperationsTyped ==
    ASSUME NEW op \in CLIOperations
    PROVE  /\ Flush(op) \in CLIOperations /\ ~IsRunning(Flush(op))
           /\ MarkEnd(op) \in CLIOperations /\ ~IsRunning(MarkEnd(op))
           /\ \A type \in {"apply", "destroy"} :
                 MarkStart(op, type) \in CLIOperations /\ IsRunning(MarkStart(op, type))
BY DEF CLIOperations, Flush, Clear, NewOperation, MarkEnd, MarkStart, IsRunning

\* An entry with another record.
LEMMA StoreReplaced ==
    ASSUME NEW s \in Stores, NEW op \in CLIOperations
    PROVE  LET new == [s EXCEPT !.op = op]
           IN  new \in Stores /\ new.op = op /\ new.terraformID = s.terraformID
BY DEF Stores

\* A disturbance costs some of the budget.
LEMMA BudgetTyped ==
    ASSUME CLIAssumption, budget \in Budgets,
           UNCHANGED budget \/ \E fault : Happens(fault)
    PROVE  budget' \in Budgets
BY DEF Budgets, Happens, CLIAssumption

--------------------------------------------------------------------------------
(* What the helpers of the actions return *)

\* A record is flushed only if its operation has ended: what runs stays.
LEMMA FlushEndedFacts ==
    ASSUME TypeOK, FlushEnded
    PROVE  store' \in Stores /\ (Busy => Busy') /\ (Busy' => Busy)
<1>1. store \in Stores /\ store.op \in CLIOperations
  BY DEF TypeOK, Stores
<1>2. CASE IsEnded(store.op)
  <2>1. store' = [store EXCEPT !.op = Flush(store.op)]
    BY <1>2 DEF FlushEnded
  <2>2. store' \in Stores /\ ~IsRunning(store'.op)
    BY <1>1, <2>1, OperationsTyped, StoreReplaced
  <2> QED
    BY <1>2, <2>2 DEF Busy, IsRunning, IsEnded
<1>3. CASE ~IsEnded(store.op)
  <2>1. store' = [store EXCEPT !.op = store.op]
    BY <1>3 DEF FlushEnded
  <2>2. store' \in Stores /\ store'.op = store.op
    BY <1>1, <2>1, StoreReplaced
  <2> QED
    BY <2>2 DEF Busy
<1> QED
  BY <1>2, <1>3

\* A refresh keeps the instance of the state, if it exists.
LEMMA RefreshedFacts ==
    ASSUME CLIAssumption, TypeOK, NEW s \in States
    PROVE  /\ Refreshed(s) \in States
           /\ Refreshed(s).instance <=> s.instance /\ Exists(s.id)
           /\ Refreshed(s).instance => Refreshed(s).id = s.id
<1>1. CASE s.instance /\ Exists(s.id)
  <2>1. world[s.id] \in Specs
    BY <1>1 DEF TypeOK, Exists, States, AnyId
  <2>2. Refreshed(s) = [s EXCEPT !.attrs = world[s.id]]
    BY <1>1 DEF Refreshed
  <2> QED
    BY <1>1, <2>1, <2>2 DEF States
<1>2. CASE ~(s.instance /\ Exists(s.id))
  <2>1. Refreshed(s) = EmptyState
    BY <1>2 DEF Refreshed
  <2> QED
    BY <1>2, <2>1, InitialTyped, InitialFields
<1> QED
  BY <1>1, <1>2

\* An empty state is filled in, except for an MR that is being deleted.
LEMMA EnsureTFStateFacts ==
    ASSUME CLIAssumption, NEW s \in States, NEW view \in MRs
    PROVE  LET new == EnsureTFState(s, view)
           IN  /\ new \in States
               /\ \/ new = s
                  \/ isStateEmpty(s) /\ ~view.deleting /\ new.instance /\ new.id = view.extName
               /\ ~view.deleting => ~isStateEmpty(s) \/ (new.instance /\ new.id = view.extName)
<1>1. view.extName \in AnyId /\ view.spec \in Specs
  BY DEF MRs
<1> QED
  BY <1>1, InstanceTyped DEF EnsureTFState

\* What Observe makes of a state: the decision, with the identifier and the readiness that
\* are new, or a plan.
LEMMA ConsumeFacts ==
    ASSUME CLIAssumption, TypeOK, NEW s \in States, Consume(s)
    PROVE  /\ worker' \in Workers /\ worker'.pc \in {"decide", "plan"}
           /\ worker'.view.deleting = worker.view.deleting
           /\ worker'.view.observeOnly = worker.view.observeOnly
           /\ worker'.fresh = worker.fresh
           /\ \/ worker'.view.extName = worker.view.extName
              \/ s.instance /\ worker'.view.extName = s.id
           /\ worker'.pc = "decide" => worker'.obs.exists \/ ~s.instance
           /\ worker'.pc = "plan" => s.instance
<1>1. worker \in Workers /\ worker.view \in MRs
  BY DEF TypeOK, Workers
<1>2. CASE ~s.instance
  <2>1. worker' = [worker EXCEPT !.pc = "decide", !.obs = Absent]
    BY <1>2 DEF Consume
  <2> QED
    BY <1>1, <1>2, <2>1, InitialTyped DEF Workers, WorkerPCs
<1>3. CASE s.instance /\ worker.view.extName # s.id
  <2> DEFINE v == [worker.view EXCEPT !.extName = s.id]
  <2>1. v \in MRs /\ v.deleting = worker.view.deleting /\ v.observeOnly = worker.view.observeOnly
        /\ v.extName = s.id
    BY <1>1 DEF MRs, States
  <2>2. worker' = [worker EXCEPT !.pc = "decide", !.obs = LateInit, !.view = v]
    BY <1>1, <1>3 DEF Consume, Workers
  <2> HIDE DEF v
  <2>3. worker \in Workers /\ LateInit \in Observations
    BY Typed, InitialTyped
  <2>4. /\ worker' \in Workers /\ worker'.pc = "decide" /\ worker'.obs = LateInit
        /\ worker'.view = v /\ worker'.fresh = worker.fresh
    BY <2>1, <2>2, <2>3 DEF Workers, WorkerPCs
  <2>5. LateInit.exists
    BY InitialFields
  <2> QED
    BY <1>3, <2>1, <2>4, <2>5
<1>4. CASE s.instance /\ worker.view.extName = s.id /\ ~worker.view.available
  <2> DEFINE v == [worker.view EXCEPT !.available = TRUE]
  <2>1. v \in MRs /\ v.deleting = worker.view.deleting /\ v.observeOnly = worker.view.observeOnly
        /\ v.extName = s.id
    BY <1>1, <1>4 DEF MRs
  <2>2. worker' = [worker EXCEPT !.pc = "decide", !.obs = UpToDate, !.view = v]
    BY <1>1, <1>4 DEF Consume, Workers
  <2> HIDE DEF v
  <2>3. worker \in Workers /\ UpToDate \in Observations
    BY Typed, InitialTyped
  <2>4. /\ worker' \in Workers /\ worker'.pc = "decide" /\ worker'.obs = UpToDate
        /\ worker'.view = v /\ worker'.fresh = worker.fresh
    BY <2>1, <2>2, <2>3 DEF Workers, WorkerPCs
  <2>5. UpToDate.exists
    BY InitialFields
  <2> QED
    BY <1>4, <2>1, <2>4, <2>5
<1>5. CASE s.instance /\ worker.view.extName = s.id /\ worker.view.available
  <2>1. worker' = [worker EXCEPT !.pc = "plan"]
    BY <1>5 DEF Consume
  <2> QED
    BY <1>1, <1>5, <2>1, WorkerAt DEF WorkerPCs
<1> QED
  BY <1>2, <1>3, <1>4, <1>5

\* The MR is written, or the reconcile ends.
LEMMA PersistFacts ==
    ASSUME CLIAssumption, TypeOK, NEW new \in MRs, NEW next \in Workers, Persist(new, next)
    PROVE  /\ mr' \in MRs /\ worker' \in Workers /\ budget' \in Budgets
           /\ \/ /\ mr' = new /\ worker'.view = new
                 /\ worker'.pc = next.pc /\ worker'.obs = next.obs
                 /\ worker'.fresh = next.fresh /\ worker.fresh
              \/ mr' = mr /\ worker' = IdleWorker
<1>1. budget' \in Budgets
  BY BudgetTyped, Typed DEF Persist
<1>2. CASE worker.fresh /\ mr' = new /\ worker' = [next EXCEPT !.view = new]
  BY <1>1, <1>2 DEF Workers
<1>3. CASE mr' = mr /\ worker' = IdleWorker
  BY <1>1, <1>3, InitialTyped, Typed
<1> QED
  BY <1>2, <1>3 DEF Persist, Finish

\* The goroutine starts with its record.
LEMMA StartCLIFacts ==
    ASSUME TypeOK, NEW type \in {"apply", "destroy"}, StartCLI(type)
    PROVE  store' \in Stores /\ cli' \in CLIs /\ Busy' /\ cli'.running
<1>1. store \in Stores /\ store.op \in CLIOperations
  BY DEF TypeOK, Stores
<1>2. store' \in Stores /\ IsRunning(store'.op)
  BY <1>1, OperationsTyped, StoreReplaced DEF StartCLI
<1> QED
  BY <1>2 DEF StartCLI, CLIs, Busy

--------------------------------------------------------------------------------
(* Terraform *)

\* Every instance that exists is the one in the state.
Recorded == \A i \in Ids : world[i] # Gone => dir.state.instance /\ dir.state.id = i

\* There is only the instance of the name, in the external API and in the state.
OnlyNamed ==
    /\ \A i \in Ids : world[i] # Gone => i = NameId
    /\ dir.state.instance => dir.state.id = NameId

\* What exists has an identifier.
LEMMA ExistsFacts ==
    ASSUME CLIAssumption, NEW i \in AnyId, Exists(i)
    PROVE  i \in Ids /\ world[i] # Gone
BY DEF Exists, AnyId

\* An instance is written, where there was none other, with its state.
LEMMA Written ==
    ASSUME CLIAssumption, TypeOK, NEW id \in Ids, NEW s \in States, s.instance, s.id = id,
           world' = [world EXCEPT ![id] = dir.main.spec], dir' = [dir EXCEPT !.state = s],
           \A i \in Ids : Recorded /\ world[i] # Gone => i = id
    PROVE  /\ world' \in Worlds /\ dir' \in Dirs /\ dir'.state = s
           /\ Recorded => Recorded'
           /\ OnlyNamed /\ id = NameId => OnlyNamed'
<1>1. world \in Worlds /\ dir \in Dirs /\ dir.main.spec \in Specs
  BY Typed DEF Dirs, Mains
<1>2. dir' \in Dirs /\ dir'.state = s
  BY <1>1, DirStateReplaced
<1>3. world' \in Worlds /\ \A i \in Ids : i # id => world'[i] = world[i]
  BY <1>1 DEF Worlds
<1> QED
  BY <1>2, <1>3 DEF Recorded, OnlyNamed

\* A new instance has an identifier nothing has, and that of the name unless it is generated.
LEMMA FreshIdsFacts ==
    ASSUME CLIAssumption, NEW i \in FreshIds
    PROVE  i \in Ids /\ world[i] = Gone /\ (~setup.generated => i = NameId)
BY DEF FreshIds, CLIAssumption

\* An apply leaves the instance it made in the state.
LEMMA ApplyChangesFacts ==
    ASSUME CLIAssumption, TypeOK, ApplyChanges
    PROVE  /\ world' \in Worlds /\ dir' \in Dirs /\ dir'.state.id \in Ids
           /\ Recorded => Recorded'
           /\ ~setup.generated /\ OnlyNamed => OnlyNamed' /\ dir'.state.id = NameId
<1> DEFINE id == dir.state.id
<1>1. id \in AnyId /\ dir.main.spec \in Specs
  BY Typed DEF Dirs, States, Mains
<1>2. CASE dir.state.instance /\ Exists(id)
  <2>1. id \in Ids
    BY <1>1, <1>2, ExistsFacts
  <2>2. Instance(id, dir.main.spec) \in States /\ Instance(id, dir.main.spec).instance
        /\ Instance(id, dir.main.spec).id = id
    BY <1>1, InstanceTyped
  <2>3. ApplyTo(id, dir)
    BY <1>2 DEF ApplyChanges
  <2> QED
    BY <1>2, <2>1, <2>2, <2>3, Written DEF ApplyTo, Recorded, OnlyNamed
<1>3. CASE ~(dir.state.instance /\ Exists(id))
  <2>1. PICK new \in FreshIds : ApplyTo(new, dir)
    BY <1>3 DEF ApplyChanges
  <2>2. new \in Ids /\ (~setup.generated => new = NameId)
    BY FreshIdsFacts
  <2>3. Instance(new, dir.main.spec) \in States /\ Instance(new, dir.main.spec).instance
        /\ Instance(new, dir.main.spec).id = new
    BY <1>1, <2>2, InstanceTyped DEF AnyId
  <2>4. \A i \in Ids : Recorded => world[i] = Gone
    BY <1>3 DEF Recorded, Exists, CLIAssumption
  <2> QED
    BY <2>1, <2>2, <2>3, <2>4, Written DEF ApplyTo
<1> QED
  BY <1>2, <1>3

\* So does an apply that fails halfway.
LEMMA ApplyTaintsFacts ==
    ASSUME CLIAssumption, TypeOK, ApplyTaints
    PROVE  /\ world' \in Worlds /\ dir' \in Dirs
           /\ Recorded => Recorded'
           /\ ~setup.generated /\ OnlyNamed => OnlyNamed'
<1>1. PICK new \in FreshIds :
          /\ world' = [world EXCEPT ![new] = dir.main.spec]
          /\ dir' = [dir EXCEPT !.state = [Instance(new, dir.main.spec) EXCEPT !.tainted = TRUE]]
  BY DEF ApplyTaints
<1> DEFINE s == [Instance(new, dir.main.spec) EXCEPT !.tainted = TRUE]
<1>2. new \in Ids /\ (~setup.generated => new = NameId)
  BY FreshIdsFacts
<1>3. s \in States /\ s.instance /\ s.id = new
  <2>1. dir.main.spec \in Specs /\ new \in AnyId
    BY <1>2, Typed DEF Dirs, Mains, AnyId
  <2> DEFINE made == Instance(new, dir.main.spec)
  <2>2. made \in States /\ made.instance /\ made.id = new
    BY <2>1, InstanceTyped
  <2> HIDE DEF made
  <2>3. s = [made EXCEPT !.tainted = TRUE]
    BY DEF made
  <2> HIDE DEF s
  <2> QED
    BY <2>2, <2>3 DEF States
<1>4. \A i \in Ids : Recorded => world[i] = Gone
  BY DEF ApplyTaints, Recorded, Exists, CLIAssumption
<1> HIDE DEF s
<1> QED
  BY <1>1, <1>2, <1>3, <1>4, Written DEF s

\* A destroy takes the instance of the state with it.
LEMMA DestroysFacts ==
    ASSUME CLIAssumption, TypeOK, Destroys
    PROVE  /\ world' \in Worlds /\ dir' \in Dirs
           /\ Recorded => Recorded'
           /\ OnlyNamed => OnlyNamed'
<1>1. world \in Worlds /\ dir \in Dirs
  BY Typed
<1>2. dir' \in Dirs /\ ~dir'.state.instance
  BY <1>1, DirStateReplaced, InitialTyped, InitialFields DEF Destroys
<1>3. world' = [i \in Ids |-> IF dir.state.instance /\ i = dir.state.id THEN Gone ELSE world[i]]
  BY DEF Destroys
<1>4. world' \in Worlds
  BY <1>1, <1>3 DEF Worlds
<1> QED
  BY <1>2, <1>3, <1>4 DEF Recorded, OnlyNamed

\* Whatever becomes of an apply or a destroy, an instance that exists is in the state.
LEMMA TerraformFacts ==
    ASSUME CLIAssumption, TypeOK, NEW type \in {"apply", "destroy"},
           \/ Succeeds(type) /\ UNCHANGED budget
           \/ Fails(type)
    PROVE  /\ world' \in Worlds /\ dir' \in Dirs /\ budget' \in Budgets
           /\ Recorded => Recorded'
           /\ ~setup.generated /\ OnlyNamed => OnlyNamed'
<1>1. budget' \in Budgets
  BY BudgetTyped, Typed DEF Fails
<1>2. CASE Succeeds(type)
  BY <1>1, <1>2, ApplyChangesFacts, DestroysFacts DEF Succeeds
<1>3. CASE ApplyTaints
  BY <1>1, <1>3, ApplyTaintsFacts
<1>4. CASE UNCHANGED <<world, dir>>
  BY <1>1, <1>4, Typed DEF Recorded, OnlyNamed
<1> QED
  BY <1>2, <1>3, <1>4 DEF Fails

--------------------------------------------------------------------------------
(* Types *)

\* The types at the start.
LEMMA TypesInit ==
    ASSUME CLIAssumption, Init
    PROVE  TypeOK
<1>1. \A s \in Specs : NewMR(s) \in MRs
  BY InitialTyped DEF NewMR, MRs, AnyId, CLIAssumption
<1>2. setup \in Setups
  BY InitialTyped DEF Init, Setups, Mains
<1>3. mr \in MRs
  BY <1>1 DEF Init
<1>4. world \in Worlds
  BY DEF Init, Worlds
<1>5. store \in Stores /\ dir \in Dirs /\ worker \in Workers /\ cli \in CLIs
  BY InitialTyped DEF Init
<1>6. callback \in BOOLEAN /\ budget \in Budgets /\ lost \in BOOLEAN
  <2>1. MaxFaults \in Nat
    BY DEF CLIAssumption
  <2>2. budget = MaxFaults /\ callback = FALSE /\ lost = FALSE
    BY DEF Init
  <2>3. budget \in Budgets
    BY <2>1, <2>2 DEF Budgets
  <2> QED
    BY <2>2, <2>3
<1> QED
  BY <1>2, <1>3, <1>4, <1>5, <1>6, Typed

\* The types after a step of Connect.
LEMMA PreparationTyped ==
    ASSUME CLIAssumption, TypeOK, Reconcile \/ Workspace \/ WriteMainTF \/ InitWorkspace
    PROVE  TypeOK'
<1> USE Typed, TypedNext
<1>1. ASSUME NEW pc \in WorkerPCs, Goto(pc)
      PROVE  worker' \in Workers
  BY <1>1, WorkerAt DEF Goto
<1>2. Finish => worker' \in Workers
  BY InitialTyped DEF Finish
<1>3. worker.view \in MRs
  BY DEF Workers
<1>4. CASE Reconcile
  BY <1>4, InitialTyped DEF Reconcile, Workers, WorkerPCs
<1>5. CASE Workspace
  <2>1. worker' \in Workers
    BY <1>1, <1>5 DEF Workspace, WorkerPCs
  <2>2. store' \in Stores
    BY <1>3, <1>5 DEF Workspace, Stores, MRs
  <2>3. dir' \in Dirs
    <3>1. dir.state \in States
      BY DEF Dirs
    <3> QED
      BY <1>3, <1>5, <3>1, EnsureTFStateFacts, DirStateReplaced DEF Workspace
  <2> QED
    BY <1>5, <2>1, <2>2, <2>3 DEF Workspace
<1>6. CASE WriteMainTF
  <2>1. worker' \in Workers
    BY <1>1, <1>6 DEF WriteMainTF, WorkerPCs
  <2>2. dir' \in Dirs
    BY <1>3, <1>6 DEF WriteMainTF, Dirs, Mains, MRs, Setups
  <2> QED
    BY <1>6, <2>1, <2>2 DEF WriteMainTF
<1>7. CASE InitWorkspace
  <2>1. worker' \in Workers
    BY <1>1, <1>2, <1>7 DEF InitWorkspace, WorkerPCs
  <2>2. dir' \in Dirs
    BY <1>7 DEF InitWorkspace, Dirs, Mains
  <2>3. budget' \in Budgets
    BY <1>7, BudgetTyped DEF InitWorkspace
  <2> QED
    BY <1>7, <2>1, <2>2, <2>3 DEF InitWorkspace
<1> QED
  BY <1>4, <1>5, <1>6, <1>7

\* The types after a step of Observe.
LEMMA ObservationTyped ==
    ASSUME CLIAssumption, TypeOK, ObserveOperation \/ Refresh \/ Plan \/ Import
    PROVE  TypeOK'
<1> USE Typed, TypedNext
<1>1. ASSUME NEW pc \in WorkerPCs, Goto(pc)
      PROVE  worker' \in Workers
  BY <1>1, WorkerAt DEF Goto
<1>2. Finish => worker' \in Workers
  BY InitialTyped DEF Finish
<1>3. dir.state \in States
  BY DEF Dirs
<1>4. CASE ObserveOperation
  <2>1. worker' \in Workers
    BY <1>1, <1>4, InitialTyped DEF ObserveOperation, WhileRunning, Workers, WorkerPCs
  <2> QED
    BY <1>4, <2>1 DEF ObserveOperation
<1>5. CASE Refresh
  <2>1. worker' \in Workers /\ dir' \in Dirs
    BY <1>2, <1>3, <1>5, RefreshedFacts, ConsumeFacts, DirStateReplaced DEF Refresh
  <2>2. budget' \in Budgets
    BY <1>5, BudgetTyped DEF Refresh
  <2> QED
    BY <1>5, <2>1, <2>2, FlushEndedFacts DEF Refresh
<1>6. CASE Plan
  <2>1. worker' \in Workers
    <3>1. ASSUME NEW b \in BOOLEAN
          PROVE  [UpToDate EXCEPT !.upToDate = b] \in Observations
      BY InitialTyped DEF Observations
    <3> QED
      BY <1>2, <1>6, <3>1 DEF Plan, Workers, WorkerPCs
  <2>2. budget' \in Budgets
    BY <1>6, BudgetTyped DEF Plan
  <2> QED
    BY <1>6, <2>1, <2>2 DEF Plan
<1>7. CASE Import
  <2>1. store.terraformID \in AnyId
    BY DEF Stores
  <2>2. dir' \in Dirs
    <3>1. CASE dir' = dir
      BY <3>1
    <3>2. CASE dir' = [dir EXCEPT !.state = NoState]
      BY <3>2, InitialTyped, DirStateReplaced
    <3>3. CASE /\ Exists(store.terraformID)
               /\ dir' = [dir EXCEPT !.state =
                             Instance(store.terraformID, world[store.terraformID])]
      <4>1. world[store.terraformID] \in Specs
        BY <2>1, <3>3, ExistsFacts DEF Worlds
      <4> QED
        BY <2>1, <3>3, <4>1, InstanceTyped, DirStateReplaced
    <3> QED
      BY <1>7, <3>1, <3>2, <3>3 DEF Import
  <2>3. worker' \in Workers
    <3>1. worker.view \in MRs
      BY DEF Workers
    <3>2. ConsumeImport => worker' \in Workers
      <4> DEFINE v == [worker.view EXCEPT !.available = TRUE]
      <4>1. v \in MRs
        BY <3>1 DEF MRs
      <4>2. ConsumeImport =>
               worker' = [worker EXCEPT !.pc = "decide", !.obs = UpToDate, !.view = v]
        BY DEF ConsumeImport, Workers
      <4> HIDE DEF v
      <4>3. worker \in Workers /\ UpToDate \in Observations
        BY InitialTyped
      <4>4. [worker EXCEPT !.pc = "decide", !.obs = UpToDate, !.view = v] \in Workers
        BY <4>1, <4>3 DEF Workers, WorkerPCs
      <4> QED
        BY <4>2, <4>4
    <3>3. worker' = [worker EXCEPT !.pc = "decide", !.obs = Absent] => worker' \in Workers
      BY InitialTyped DEF Workers, WorkerPCs
    <3> QED
      BY <1>2, <1>7, <3>2, <3>3 DEF Import
  <2>4. budget' \in Budgets
    BY <1>7, BudgetTyped DEF Import
  <2> QED
    BY <1>7, <2>2, <2>3, <2>4, FlushEndedFacts DEF Import
<1> QED
  BY <1>4, <1>5, <1>6, <1>7

\* The types after a step of the managed reconciler.
LEMMA DecisionTyped ==
    ASSUME CLIAssumption, TypeOK,
           \/ RemoveFinalizer \/ DecideDelete \/ AddFinalizer \/ PersistExternalName
           \/ PersistStatus \/ DecideApply
    PROVE  TypeOK'
<1> USE Typed, TypedNext
<1>1. worker.view \in MRs
  BY DEF Workers
<1>2. CASE RemoveFinalizer
  <2>1. store' \in Stores /\ dir' \in Dirs
    BY <1>2, InitialTyped DEF RemoveFinalizer, RemoveWorkspace
  <2> QED
    BY <1>2, <2>1, InitialTyped, PersistFacts DEF RemoveFinalizer
<1>3. CASE DecideDelete \/ DecideApply
  <2>1. worker' \in Workers
    <3>1. Goto("start") => worker' \in Workers
      BY DEF Goto, Workers, WorkerPCs
    <3> QED
      BY <1>3, <3>1, InitialTyped DEF DecideDelete, DecideApply, Finish
  <2> QED
    BY <1>3, <2>1 DEF DecideDelete, DecideApply
<1>4. CASE AddFinalizer
  <2>1. [mr EXCEPT !.finalizer = TRUE, !.extName = worker.view.extName] \in MRs
    BY <1>1 DEF MRs
  <2> QED
    BY <1>4, <2>1, PersistFacts DEF AddFinalizer
<1>5. CASE PersistExternalName
  <2>1. [mr EXCEPT !.extName = worker.view.extName] \in MRs
    BY <1>1 DEF MRs
  <2> QED
    BY <1>5, <2>1, InitialTyped, PersistFacts DEF PersistExternalName
<1>6. CASE PersistStatus
  <2>1. [mr EXCEPT !.available = worker.view.available] \in MRs
    BY <1>1 DEF MRs
  <2> QED
    BY <1>6, <2>1, InitialTyped, PersistFacts DEF PersistStatus
<1> QED
  BY <1>2, <1>3, <1>4, <1>5, <1>6

\* The types after a step of an operation.
LEMMA OperationTyped ==
    ASSUME CLIAssumption, TypeOK,
           \/ Apply \/ Destroy \/ ApplyAsync \/ DestroyAsync
           \/ RunAsync \/ EndAsync \/ Callback
    PROVE  TypeOK'
<1> USE Typed, TypedNext
<1>1. Finish => worker' \in Workers
  BY InitialTyped DEF Finish
<1>2. CASE Apply
  <2>1. mr' \in MRs
    BY <1>2, ApplyChangesFacts DEF Apply, Succeeds, MRs, AnyId
  <2>2. world' \in Worlds /\ dir' \in Dirs /\ budget' \in Budgets
    BY <1>2, TerraformFacts DEF Apply
  <2> QED
    BY <1>1, <1>2, <2>1, <2>2 DEF Apply
<1>3. CASE Destroy
  <2>1. world' \in Worlds /\ dir' \in Dirs /\ budget' \in Budgets
    BY <1>3, TerraformFacts DEF Destroy
  <2> QED
    BY <1>1, <1>3, <2>1 DEF Destroy
<1>4. CASE ApplyAsync
  BY <1>1, <1>4, StartCLIFacts DEF ApplyAsync
<1>5. CASE DestroyAsync
  BY <1>1, <1>5, StartCLIFacts DEF DestroyAsync
<1>6. CASE RunAsync
  <2>1. world' \in Worlds /\ dir' \in Dirs /\ budget' \in Budgets
    BY <1>6, TerraformFacts DEF RunAsync, CLIs
  <2>2. cli' \in CLIs
    BY <1>6 DEF RunAsync, CLIs
  <2> QED
    BY <1>6, <2>1, <2>2 DEF RunAsync
<1>7. CASE EndAsync
  <2>1. store' \in Stores
    BY <1>7, OperationsTyped, StoreReplaced DEF EndAsync, Stores
  <2> QED
    BY <1>7, <2>1, InitialTyped DEF EndAsync
<1>8. CASE Callback
  BY <1>8 DEF Callback, Workers
<1> QED
  BY <1>2, <1>3, <1>4, <1>5, <1>6, <1>7, <1>8

\* The types after a step of anybody else.
LEMMA EnvironmentTyped ==
    ASSUME CLIAssumption, TypeOK, Environment
    PROVE  TypeOK'
<1> USE Typed, TypedNext
<1>1. CASE UserEdits
  <2>1. mr' \in MRs
    BY <1>1, InitialTyped DEF UserEdits, MRs
  <2>2. worker' \in Workers
    BY <1>1 DEF UserEdits, Workers
  <2>3. budget' \in Budgets
    BY <1>1, BudgetTyped DEF UserEdits
  <2> QED
    BY <1>1, <2>1, <2>2, <2>3 DEF UserEdits
<1>2. CASE UserRecreates
  <2>1. mr' \in MRs
    BY <1>2, InitialTyped DEF UserRecreates, NewMR, MRs, AnyId, CLIAssumption
  <2>2. budget' \in Budgets
    BY <1>2, BudgetTyped DEF UserRecreates
  <2> QED
    BY <1>2, <2>1, <2>2, InitialTyped DEF UserRecreates
<1>3. CASE Drift
  <2>1. world' \in Worlds
    BY <1>3 DEF Drift, Worlds
  <2>2. budget' \in Budgets
    BY <1>3, BudgetTyped DEF Drift
  <2> QED
    BY <1>3, <2>1, <2>2 DEF Drift
<1>4. CASE Restart
  <2>1. dir' \in Dirs /\ budget' \in Budgets
    BY <1>4, BudgetTyped, InitialTyped DEF Restart
  <2>2. setup' \in Setups
    BY <1>4 DEF Restart, Setups
  <2>3. lost' \in BOOLEAN
    BY <1>4 DEF Restart
  <2> QED
    BY <1>4, <2>1, <2>2, <2>3, InitialTyped DEF Restart
<1> QED
  BY <1>1, <1>2, <1>3, <1>4 DEF Environment

\* Every step keeps the types.
LEMMA TypesNext ==
    ASSUME CLIAssumption, TypeOK, [Next]_vars
    PROVE  TypeOK'
<1>1. CASE UNCHANGED vars
  BY <1>1 DEF vars, TypeOK
<1> QED
  BY <1>1, PreparationTyped, ObservationTyped, DecisionTyped, OperationTyped, EnvironmentTyped
     DEF Next, Worker, Goroutine

(* The variables keep their types, for any specs, identifiers, provider versions and
   disturbances. *)
THEOREM WorkspaceTypes == ASSUME CLIAssumption PROVE Spec => []TypeOK
  BY TypesInit, TypesNext, PTL DEF Spec


--------------------------------------------------------------------------------
(* What makes a deletion safe, conjunct by conjunct *)

\* An MR is deleted with its finalizer, and cannot change its mind: the copy of an MR that is
\* being deleted agrees with the MR in what decides.
MRInv ==
    /\ mr.deleting => mr.finalizer
    /\ mr.finalizer => mr.present
    /\ worker.pc # "idle" /\ worker.fresh => mr.present
    /\ worker.pc # "idle" /\ worker.view.deleting =>
          mr.deleting /\ mr.observeOnly = worker.view.observeOnly
    /\ worker.pc = "import" => worker.view.observeOnly
    /\ worker.pc = "start" => ~worker.view.observeOnly

\* The workspace was removed for an MR that is let go without a deletion.
Orphaned ==
    /\ worker.pc = "idle" \/ (worker.view.deleting /\ worker.view.observeOnly)
    /\ mr.present => mr.deleting /\ mr.observeOnly

\* The worker uses the directory, or found that there is no instance.
Working == \/ worker.pc \in {"write", "upgrade", "init", "refresh", "import", "plan"}
           \/ worker.pc = "decide" /\ ~worker.obs.exists

\* The record says that an operation runs while the goroutine does, unless the record is gone;
\* the worker uses the directory only when none is recorded.
BusyInv ==
    /\ Busy => cli.running
    /\ cli.running => Busy \/ Orphaned
    /\ Working => ~Busy

\* An instance with an identifier that is not generated is the one of the name.
NamedInv ==
    ~setup.generated =>
        /\ OnlyNamed
        /\ mr.present => mr.extName = NameId
        /\ worker.pc # "idle" => worker.view.extName = NameId

\* Nothing is created for an MR before it has its finalizer.
NewInv ==
    (mr.present \/ worker.pc # "idle") /\ ~mr.finalizer =>
        /\ ~cli.running /\ worker.pc # "start"
        /\ setup.generated => InstanceGone

\* The decision to let the MR go because nothing was found.
FoundNothing ==
    worker.pc = "decide" /\ ~worker.obs.exists /\ worker.view.deleting /\ ~worker.view.observeOnly

\* What exists is in the state, as long as no state is lost and the MR has its finalizer or is
\* past its preparation; so nothing exists when nothing is found.
RecordedInv ==
    ~lost =>
        /\ ~(mr.deleting /\ mr.observeOnly)
           /\ (mr.finalizer \/ worker.pc \notin {"idle", "connect"}) => Recorded
        /\ FoundNothing => InstanceGone

DeletionInv == MRInv /\ BusyInv /\ NamedInv /\ NewInv /\ RecordedInv

\* Nothing exists at the start.
LEMMA DeletionInvInit ==
    ASSUME CLIAssumption, Init
    PROVE  DeletionInv
<1>1. PICK s \in Specs : mr = NewMR(s)
  BY DEF Init
<1>2. /\ ~mr.deleting /\ ~mr.finalizer /\ mr.present
      /\ (~setup.generated => mr.extName = NameId)
  BY <1>1 DEF NewMR, NoMR
<1>3. /\ worker.pc = "idle" /\ ~Busy /\ ~cli.running /\ ~dir.state.instance /\ InstanceGone
      /\ (\A i \in Ids : world[i] = Gone)
  BY InitialFields DEF Init, Busy, InstanceGone
<1>4. MRInv
  BY <1>2, <1>3 DEF MRInv
<1>5. BusyInv
  BY <1>3 DEF BusyInv, Working
<1>6. NamedInv
  BY <1>2, <1>3 DEF NamedInv, OnlyNamed
<1>7. NewInv
  BY <1>3 DEF NewInv
<1>8. RecordedInv
  BY <1>2, <1>3 DEF RecordedInv, FoundNothing
<1> QED
  BY <1>4, <1>5, <1>6, <1>7, <1>8 DEF DeletionInv

--------------------------------------------------------------------------------
(* The steps of a reconcile *)

\* Only the program counter changes.
LEMMA GotoFacts ==
    ASSUME TypeOK, NEW pc \in WorkerPCs, Goto(pc)
    PROVE  /\ worker'.pc = pc /\ worker'.view = worker.view
           /\ worker'.obs = worker.obs /\ worker'.fresh = worker.fresh
BY Typed, WorkerAt DEF Goto

\* A reconcile that goes on, or ends, with the same MR.
SameReconcile ==
    /\ worker.pc # "idle"
    /\ \/ worker'.pc = "idle"
       \/ /\ worker'.view.deleting = worker.view.deleting
          /\ worker'.view.observeOnly = worker.view.observeOnly
          /\ worker'.fresh = worker.fresh

\* The finalizer, the record of the operation and the goroutine of the reconcile.
LEMMA ReconcileKeeps ==
    ASSUME DeletionInv, SameReconcile, UNCHANGED <<mr, world, setup, cli>>, Busy' => Busy,
           Busy => Busy', Working' => ~Busy,
           worker'.pc = "import" => worker'.view.observeOnly,
           worker'.pc = "start" => ~worker'.view.observeOnly /\ mr.finalizer
    PROVE  MRInv' /\ BusyInv' /\ NewInv'
<1>1. MRInv'
  BY DEF DeletionInv, MRInv, SameReconcile
<1>2. Orphaned => Orphaned'
  BY DEF Orphaned, SameReconcile
<1>3. BusyInv'
  BY <1>2 DEF DeletionInv, BusyInv
<1>4. NewInv'
  BY DEF DeletionInv, NewInv, SameReconcile, InstanceGone
<1> QED
  BY <1>1, <1>3, <1>4

\* The identifiers.
LEMMA ReconcileKeepsNames ==
    ASSUME DeletionInv, UNCHANGED <<mr, world, setup>>, worker.pc # "idle",
           ~setup.generated /\ OnlyNamed /\ dir'.state.instance => dir'.state.id = NameId,
           \/ worker'.pc = "idle"
           \/ worker'.view.extName = worker.view.extName
           \/ dir'.state.instance /\ worker'.view.extName = dir'.state.id
    PROVE  NamedInv'
BY DEF DeletionInv, NamedInv, OnlyNamed

\* The state, once the workspace is prepared.
LEMMA ReconcileKeepsState ==
    ASSUME DeletionInv, SameReconcile, UNCHANGED <<mr, world>>, worker.pc # "connect",
           lost => lost', ~lost' /\ Recorded => Recorded',
           FoundNothing' => FoundNothing \/ ~dir'.state.instance
    PROVE  RecordedInv'
<1> SUFFICES ASSUME ~lost' PROVE RecordedInv'
  BY DEF RecordedInv
<1>1. ~lost /\ worker.pc \notin {"idle", "connect"}
  BY DEF SameReconcile
<1>2. ~(mr.deleting /\ mr.observeOnly) => Recorded'
  BY <1>1 DEF DeletionInv, RecordedInv
<1>3. FoundNothing' => InstanceGone
  <2>1. ASSUME FoundNothing', ~dir'.state.instance PROVE InstanceGone
    <3>1. ~(mr.deleting /\ mr.observeOnly)
      BY <2>1 DEF FoundNothing, SameReconcile, DeletionInv, MRInv
    <3> QED
      BY <1>2, <2>1, <3>1 DEF Recorded, InstanceGone
  <2> QED
    BY <1>1, <2>1 DEF DeletionInv, RecordedInv
<1> QED
  BY <1>2, <1>3 DEF RecordedInv, InstanceGone

\* The worker takes a copy of the MR.
LEMMA ReconcileKeepsInv ==
    ASSUME CLIAssumption, TypeOK, DeletionInv, Reconcile
    PROVE  DeletionInv'
<1>1. /\ worker.pc = "idle" /\ mr.present /\ worker'.pc = "connect" /\ worker'.view = mr
      /\ worker'.fresh
  BY InitialTyped DEF Reconcile, IdleWorker, Workers
<1>2. MRInv'
  BY <1>1 DEF Reconcile, DeletionInv, MRInv
<1>3. BusyInv'
  BY <1>1 DEF Reconcile, DeletionInv, BusyInv, Busy, Working, Orphaned
<1>4. NamedInv'
  BY <1>1 DEF Reconcile, DeletionInv, NamedInv, OnlyNamed
<1>5. NewInv'
  BY <1>1 DEF Reconcile, DeletionInv, NewInv, InstanceGone
<1>6. RecordedInv'
  BY <1>1 DEF Reconcile, DeletionInv, RecordedInv, FoundNothing, Recorded
<1> QED
  BY <1>2, <1>3, <1>4, <1>5, <1>6 DEF DeletionInv

\* The state is filled in for an MR without a finalizer, too: its instance is the one of the name.
LEMMA WorkspaceKeepsInv ==
    ASSUME CLIAssumption, TypeOK, DeletionInv, Workspace
    PROVE  DeletionInv'
<1> DEFINE new == EnsureTFState(dir.state, worker.view)
<1>1. CASE Busy
  <2>1. /\ worker.pc = "connect" /\ Goto("observe")
        /\ UNCHANGED <<mr, world, setup, store, dir, cli, lost>>
    BY <1>1 DEF Workspace
  <2>2. worker'.pc = "observe" /\ worker'.view = worker.view /\ worker'.fresh = worker.fresh
    BY <2>1, GotoFacts DEF WorkerPCs
  <2>3. MRInv' /\ BusyInv' /\ NewInv'
    BY <2>1, <2>2, ReconcileKeeps DEF SameReconcile, Busy, Working
  <2>4. NamedInv'
    BY <2>1, <2>2, ReconcileKeepsNames DEF OnlyNamed
  <2>5. mr.finalizer
    BY <1>1, <2>1 DEF DeletionInv, BusyInv, NewInv
  <2>6. RecordedInv'
    BY <2>1, <2>2, <2>5 DEF DeletionInv, RecordedInv, FoundNothing, Recorded
  <2> QED
    BY <2>3, <2>4, <2>6 DEF DeletionInv
<1>2. CASE ~Busy
  <2>1. worker.pc = "connect" /\ Goto("write") /\ UNCHANGED <<mr, world, setup, cli, lost>>
    BY <1>2 DEF Workspace
  <2>2. worker'.pc = "write" /\ worker'.view = worker.view /\ worker'.fresh = worker.fresh
    BY <2>1, GotoFacts DEF WorkerPCs
  <2>3. ~Busy'
    BY <1>2, Typed DEF Workspace, Busy, Stores
  <2>4. MRInv' /\ BusyInv' /\ NewInv'
    BY <1>2, <2>1, <2>2, <2>3, ReconcileKeeps DEF SameReconcile
  <2>5. /\ dir'.state = new /\ dir.state \in States /\ worker.view \in MRs
        /\ \/ new = dir.state
           \/ isStateEmpty(dir.state) /\ ~worker.view.deleting
              /\ new.instance /\ new.id = worker.view.extName
        /\ ~worker.view.deleting =>
              ~isStateEmpty(dir.state) \/ (new.instance /\ new.id = worker.view.extName)
    <3>1. dir \in Dirs /\ dir.state \in States /\ worker.view \in MRs
      BY Typed DEF Dirs, Workers
    <3>2. dir' = [dir EXCEPT !.state = new]
      BY <1>2 DEF Workspace
    <3> QED
      BY <3>1, <3>2, EnsureTFStateFacts, DirStateReplaced
  <2> HIDE DEF new
  <2>6. NamedInv'
    <3>1. ~setup.generated => worker.view.extName = NameId
      BY <2>1 DEF DeletionInv, NamedInv
    <3>2. ~setup.generated /\ OnlyNamed /\ dir'.state.instance => dir'.state.id = NameId
      BY <2>5, <3>1 DEF OnlyNamed
    <3> QED
      BY <2>1, <2>2, <3>2, ReconcileKeepsNames
  <2>7. ASSUME ~lost, ~(mr.deleting /\ mr.observeOnly) PROVE Recorded'
    <3>1. CASE Recorded
      BY <2>1, <2>5, <3>1 DEF Recorded, isStateEmpty, CLIAssumption
    <3>2. CASE ~mr.finalizer
      <4>1. ~worker.view.deleting
        BY <2>1, <3>2 DEF DeletionInv, MRInv
      <4>2. CASE setup.generated
        BY <2>1, <3>2, <4>2 DEF DeletionInv, NewInv, InstanceGone, Recorded
      <4>3. CASE ~setup.generated
        BY <2>1, <2>5, <4>1, <4>3
           DEF DeletionInv, NamedInv, OnlyNamed, isStateEmpty, Recorded
      <4> QED
        BY <4>2, <4>3
    <3> QED
      BY <2>7, <3>1, <3>2 DEF DeletionInv, RecordedInv
  <2>8. RecordedInv'
    BY <2>1, <2>2, <2>7 DEF RecordedInv, FoundNothing
  <2> QED
    BY <2>4, <2>6, <2>8 DEF DeletionInv
<1> QED
  BY <1>1, <1>2

\* The state is left as it is.
LEMMA WriteMainTFKeepsInv ==
    ASSUME CLIAssumption, TypeOK, DeletionInv, WriteMainTF
    PROVE  DeletionInv'
<1>1. worker.pc = "write" /\ UNCHANGED <<mr, world, setup, store, cli, lost>>
  BY DEF WriteMainTF
<1>2. /\ worker'.pc \in {"upgrade", "init", "observe"} /\ worker'.view = worker.view
      /\ worker'.fresh = worker.fresh
  BY GotoFacts DEF WriteMainTF, WorkerPCs
<1>3. dir'.state = dir.state
  BY Typed DEF WriteMainTF, Dirs
<1>4. MRInv' /\ BusyInv' /\ NewInv'
  BY <1>1, <1>2, ReconcileKeeps DEF SameReconcile, Busy, Working, DeletionInv, BusyInv
<1>5. NamedInv'
  BY <1>1, <1>2, <1>3, ReconcileKeepsNames DEF OnlyNamed
<1>6. RecordedInv'
  BY <1>1, <1>2, <1>3, ReconcileKeepsState DEF SameReconcile, Recorded, FoundNothing
<1> QED
  BY <1>4, <1>5, <1>6 DEF DeletionInv

\* Only the lock file changes.
LEMMA InitWorkspaceKeepsInv ==
    ASSUME CLIAssumption, TypeOK, DeletionInv, InitWorkspace
    PROVE  DeletionInv'
<1>1. worker.pc \in {"upgrade", "init"} /\ UNCHANGED <<mr, world, setup, store, cli, lost>>
  BY DEF InitWorkspace
<1>2. \/ worker'.pc = "idle"
      \/ /\ worker'.pc = "observe" /\ worker'.view = worker.view
         /\ worker'.fresh = worker.fresh
  BY GotoFacts, InitialFields DEF InitWorkspace, WorkerPCs, Finish
<1>3. dir'.state = dir.state
  BY Typed DEF InitWorkspace, Dirs
<1>4. MRInv' /\ BusyInv' /\ NewInv'
  BY <1>1, <1>2, ReconcileKeeps DEF SameReconcile, Busy, Working, DeletionInv, BusyInv
<1>5. NamedInv'
  BY <1>1, <1>2, <1>3, ReconcileKeepsNames DEF OnlyNamed
<1>6. RecordedInv'
  BY <1>1, <1>2, <1>3, ReconcileKeepsState DEF SameReconcile, Recorded, FoundNothing
<1> QED
  BY <1>4, <1>5, <1>6 DEF DeletionInv

\* Past this point no operation is recorded as running.
LEMMA ObserveOperationKeepsInv ==
    ASSUME CLIAssumption, TypeOK, DeletionInv, ObserveOperation
    PROVE  DeletionInv'
<1>1. worker.pc = "observe" /\ UNCHANGED <<mr, world, setup, store, dir, cli, lost>>
  BY DEF ObserveOperation
<1>2. /\ worker'.view = worker.view /\ worker'.fresh = worker.fresh
      /\ \/ worker'.pc = "decide" /\ worker'.obs.exists
         \/ ~Busy /\ worker'.pc = "import" /\ worker.view.observeOnly
         \/ ~Busy /\ worker'.pc = "refresh"
  <2>1. CASE Busy
    <3>1. worker' = [worker EXCEPT !.pc = "decide", !.obs = WhileRunning]
      BY <2>1 DEF ObserveOperation
    <3> QED
      BY <3>1, InitialTyped, InitialFields, Typed DEF WhileRunning, Workers
  <2>2. CASE ~Busy
    BY <2>2, GotoFacts DEF ObserveOperation, WorkerPCs
  <2> QED
    BY <2>1, <2>2
<1>3. MRInv' /\ BusyInv' /\ NewInv'
  BY <1>1, <1>2, ReconcileKeeps DEF SameReconcile, Busy, Working
<1>4. NamedInv'
  BY <1>1, <1>2, ReconcileKeepsNames DEF OnlyNamed
<1>5. RecordedInv'
  BY <1>1, <1>2, ReconcileKeepsState DEF SameReconcile, Recorded, FoundNothing
<1> QED
  BY <1>3, <1>4, <1>5 DEF DeletionInv

\* A refresh takes out of the state only what does not exist.
LEMMA RefreshKeepsInv ==
    ASSUME CLIAssumption, TypeOK, DeletionInv, Refresh
    PROVE  DeletionInv'
<1> DEFINE s == Refreshed(dir.state)
<1>1. worker.pc = "refresh" /\ UNCHANGED <<mr, world, setup, cli, lost>>
  BY DEF Refresh
<1>2. (Busy => Busy') /\ (Busy' => Busy) /\ ~Busy
  BY <1>1, FlushEndedFacts DEF Refresh, DeletionInv, BusyInv, Working
<1>3. /\ s \in States /\ (s.instance <=> dir.state.instance /\ Exists(dir.state.id))
      /\ (s.instance => s.id = dir.state.id)
  BY Typed, RefreshedFacts DEF Dirs
<1>4. \/ worker'.pc = "idle" /\ dir' = dir
      \/ /\ worker'.pc \in {"decide", "plan"} /\ worker'.fresh = worker.fresh
         /\ worker'.view.deleting = worker.view.deleting
         /\ worker'.view.observeOnly = worker.view.observeOnly
         /\ \/ worker'.view.extName = worker.view.extName
            \/ s.instance /\ worker'.view.extName = s.id
         /\ worker'.pc = "decide" => worker'.obs.exists \/ ~s.instance
         /\ dir'.state = s
  <2>1. CASE Finish /\ dir' = dir
    BY <2>1, InitialFields DEF Finish
  <2>2. CASE Consume(s) /\ dir' = [dir EXCEPT !.state = s]
    <3>1. dir'.state = s
      BY <1>3, <2>2, Typed, DirStateReplaced
    <3> QED
      BY <1>3, <2>2, <3>1, ConsumeFacts
  <2> QED
    BY <2>1, <2>2 DEF Refresh
<1> HIDE DEF s
<1>5. MRInv' /\ BusyInv' /\ NewInv'
  BY <1>1, <1>2, <1>4, ReconcileKeeps DEF SameReconcile
<1>6. NamedInv'
  BY <1>1, <1>3, <1>4, ReconcileKeepsNames DEF OnlyNamed
<1>7. Recorded => Recorded'
  BY <1>1, <1>3, <1>4 DEF Recorded, Exists, CLIAssumption
<1>8. RecordedInv'
  BY <1>1, <1>4, <1>7, ReconcileKeepsState DEF SameReconcile, FoundNothing
<1> QED
  BY <1>5, <1>6, <1>8 DEF DeletionInv

\* A plan is made for an instance.
LEMMA PlanKeepsInv ==
    ASSUME CLIAssumption, TypeOK, DeletionInv, Plan
    PROVE  DeletionInv'
<1>1. worker.pc = "plan" /\ UNCHANGED <<mr, world, setup, store, dir, cli, lost>>
  BY DEF Plan
<1>2. \/ worker'.pc = "idle"
      \/ /\ worker'.view = worker.view /\ worker'.fresh = worker.fresh
         /\ worker'.pc = "decide" /\ worker'.obs.exists
  <2>1. CASE Finish
    BY <2>1, InitialFields DEF Finish
  <2>2. CASE ~Finish
    <3>1. worker' = [worker EXCEPT !.pc = "decide",
                                   !.obs = [UpToDate EXCEPT !.upToDate =
                                               dir.main.spec = dir.state.attrs]]
      BY <2>2 DEF Plan
    <3> QED
      BY <3>1, Typed DEF Workers, UpToDate
  <2> QED
    BY <2>1, <2>2
<1>3. MRInv' /\ BusyInv' /\ NewInv'
  BY <1>1, <1>2, ReconcileKeeps DEF SameReconcile, Busy, Working
<1>4. NamedInv'
  BY <1>1, <1>2, ReconcileKeepsNames DEF OnlyNamed
<1>5. RecordedInv'
  BY <1>1, <1>2, ReconcileKeepsState DEF SameReconcile, Recorded, FoundNothing
<1> QED
  BY <1>3, <1>4, <1>5 DEF DeletionInv

\* An import leaves the instance in the state, or loses it.
LEMMA ImportKeepsInv ==
    ASSUME CLIAssumption, TypeOK, DeletionInv, Import
    PROVE  DeletionInv'
<1> DEFINE tid == store.terraformID
<1>1. /\ worker.pc = "import" /\ worker.view.observeOnly
      /\ UNCHANGED <<mr, world, setup, cli>> /\ lost' = (lost \/ Loses(dir'))
  BY DEF Import, DeletionInv, MRInv
<1>2. (Busy => Busy') /\ (Busy' => Busy) /\ ~Busy
  BY <1>1, FlushEndedFacts DEF Import, DeletionInv, BusyInv, Working
<1>3. \/ worker'.pc = "idle"
      \/ /\ worker'.pc = "decide" /\ worker'.fresh = worker.fresh
         /\ worker'.view.deleting = worker.view.deleting
         /\ worker'.view.observeOnly = worker.view.observeOnly
         /\ worker'.view.extName = worker.view.extName
  <2>1. worker \in Workers /\ worker.view \in MRs
    BY Typed DEF Workers
  <2>2. CASE Finish
    BY <2>2, InitialFields DEF Finish
  <2>3. CASE worker' = [worker EXCEPT !.pc = "decide", !.obs = Absent]
    BY <2>1, <2>3 DEF Workers
  <2>4. CASE ConsumeImport
    <3> DEFINE v == [worker.view EXCEPT !.available = TRUE]
    <3>1. /\ v \in MRs /\ v.deleting = worker.view.deleting
          /\ v.observeOnly = worker.view.observeOnly /\ v.extName = worker.view.extName
      BY <2>1 DEF MRs
    <3>2. worker' = [worker EXCEPT !.pc = "decide", !.obs = UpToDate, !.view = v]
      BY <2>1, <2>4 DEF ConsumeImport, Workers
    <3> HIDE DEF v
    <3>3. UpToDate \in Observations
      BY InitialTyped
    <3>4. worker'.pc = "decide" /\ worker'.view = v /\ worker'.fresh = worker.fresh
      BY <2>1, <3>1, <3>2, <3>3 DEF Workers, WorkerPCs
    <3> QED
      BY <3>1, <3>4
  <2> QED
    BY <2>2, <2>3, <2>4 DEF Import
<1>4. \/ dir' = dir
      \/ Exists(tid) /\ tid \in Ids /\ dir'.state.instance /\ dir'.state.id = tid
      \/ ~dir'.state.instance
  <2>1. dir \in Dirs /\ tid \in AnyId
    BY Typed DEF Stores
  <2>2. CASE Exists(tid) /\ dir' = [dir EXCEPT !.state = Instance(tid, world[tid])]
    <3>1. tid \in Ids /\ world[tid] \in Specs
      BY <2>1, <2>2, ExistsFacts, Typed DEF Worlds
    <3> DEFINE s == Instance(tid, world[tid])
    <3>2. s \in States /\ s.instance /\ s.id = tid
      BY <2>1, <3>1, InstanceTyped
    <3> HIDE DEF s
    <3>3. dir'.state = s
      BY <2>1, <2>2, <3>2, DirStateReplaced DEF s
    <3> QED
      BY <2>2, <3>1, <3>2, <3>3
  <2>3. CASE dir' = [dir EXCEPT !.state = NoState]
    <3>1. NoState \in States /\ ~NoState.instance
      BY InitialTyped, InitialFields
    <3> QED
      BY <2>1, <2>3, <3>1, DirStateReplaced
  <2> QED
    BY <2>2, <2>3 DEF Import
<1>5. MRInv' /\ BusyInv' /\ NewInv'
  BY <1>1, <1>2, <1>3, ReconcileKeeps DEF SameReconcile
<1>6. NamedInv'
  BY <1>1, <1>3, <1>4, ReconcileKeepsNames DEF OnlyNamed, Exists
<1>7. ~lost' /\ Recorded => Recorded'
  BY <1>1, <1>4 DEF Recorded, Loses, Exists, CLIAssumption
<1>8. RecordedInv'
  BY <1>1, <1>3, <1>7, ReconcileKeepsState DEF SameReconcile, FoundNothing
<1> QED
  BY <1>5, <1>6, <1>8 DEF DeletionInv

--------------------------------------------------------------------------------
(* The decisions *)

\* Nothing starts before the MR has its finalizer.
LEMMA DecideKeepsInv ==
    ASSUME CLIAssumption, TypeOK, DeletionInv, DecideDelete \/ DecideApply
    PROVE  DeletionInv'
<1>1. /\ worker.pc = "decide" /\ UNCHANGED <<mr, world, setup, store, dir, cli, lost>>
  BY DEF DecideDelete, DecideApply, Decide
<1>2. \/ worker'.pc = "idle"
      \/ /\ worker'.pc = "start" /\ worker'.view = worker.view /\ worker'.fresh = worker.fresh
         /\ mr.finalizer /\ ~worker.view.observeOnly
  <2>1. CASE Finish
    BY <2>1, InitialFields DEF Finish
  <2>2. CASE Goto("start") /\ mr.finalizer /\ ~worker.view.observeOnly
    BY <2>2, GotoFacts DEF WorkerPCs
  <2>3. DecideDelete => mr.finalizer
    BY <1>1 DEF DecideDelete, DeletionInv, MRInv
  <2> QED
    BY <2>1, <2>2, <2>3 DEF DecideDelete, DecideApply
<1>3. MRInv' /\ BusyInv' /\ NewInv'
  BY <1>1, <1>2, ReconcileKeeps DEF SameReconcile, Busy, Working
<1>4. NamedInv'
  BY <1>1, <1>2, ReconcileKeepsNames DEF OnlyNamed
<1>5. RecordedInv'
  BY <1>1, <1>2, ReconcileKeepsState DEF SameReconcile, Recorded, FoundNothing
<1> QED
  BY <1>3, <1>4, <1>5 DEF DeletionInv

\* The MR is let go when nothing exists, unless it is only observed.
LEMMA RemoveFinalizerKeepsInv ==
    ASSUME CLIAssumption, TypeOK, DeletionInv, RemoveFinalizer
    PROVE  DeletionInv' /\ (~lost /\ ~worker.view.observeOnly => InstanceGone)
<1>1. /\ worker.pc = "decide" /\ worker.view.deleting /\ mr.deleting /\ mr.finalizer /\ mr.present
      /\ mr.observeOnly = worker.view.observeOnly
      /\ (~worker.obs.exists \/ worker.view.observeOnly)
      /\ UNCHANGED <<world, setup, cli, lost>>
  BY DEF RemoveFinalizer, Decide, DeletionInv, MRInv
<1>2. ~lost /\ ~worker.view.observeOnly => InstanceGone
  BY <1>1 DEF DeletionInv, RecordedInv, FoundNothing
<1>3. /\ worker'.pc = "idle"
      /\ \/ ~mr'.present /\ ~mr'.deleting /\ ~mr'.finalizer
         \/ mr' = mr
  BY InitialTyped, InitialFields, PersistFacts DEF RemoveFinalizer
<1>4. /\ Busy' => Busy
      /\ dir'.state.instance => dir' = dir
  BY InitialFields DEF RemoveFinalizer, RemoveWorkspace, Busy
<1>5. MRInv'
  BY <1>1, <1>3 DEF DeletionInv, MRInv
<1>6. BusyInv'
  <2>1. cli.running => Busy \/ worker.view.observeOnly
    BY <1>1 DEF DeletionInv, BusyInv, Orphaned
  <2>2. Busy => worker.view.observeOnly
    BY <1>1 DEF DeletionInv, BusyInv, Working
  <2> QED
    BY <1>1, <1>3, <1>4, <2>1, <2>2 DEF DeletionInv, BusyInv, Working, Orphaned
<1>7. NamedInv'
  BY <1>1, <1>3, <1>4 DEF DeletionInv, NamedInv, OnlyNamed
<1>8. NewInv'
  BY <1>1, <1>3 DEF NewInv
<1>9. RecordedInv'
  BY <1>1, <1>2, <1>3 DEF RecordedInv, FoundNothing, InstanceGone, Recorded
<1> QED
  BY <1>2, <1>5, <1>6, <1>7, <1>8, <1>9 DEF DeletionInv

\* The writes of an MR that is not being deleted.
LEMMA PersistKeepsInv ==
    ASSUME CLIAssumption, TypeOK, DeletionInv,
           AddFinalizer \/ PersistExternalName \/ PersistStatus
    PROVE  DeletionInv'
<1>1. /\ worker.pc = "decide" /\ ~worker.view.deleting
      /\ UNCHANGED <<world, setup, store, dir, cli, lost>>
  BY DEF AddFinalizer, PersistExternalName, PersistStatus, Decide
<1>2. \/ worker'.pc = "idle" /\ mr' = mr
      \/ /\ worker.fresh /\ mr'.present = mr.present /\ mr'.deleting = mr.deleting
         /\ mr'.observeOnly = mr.observeOnly /\ mr'.extName \in {mr.extName, worker.view.extName}
         /\ worker'.view = mr' /\ worker'.obs = worker.obs /\ worker'.pc = "decide"
         /\ ~mr.finalizer /\ mr'.finalizer
      \/ /\ mr'.present = mr.present /\ mr'.deleting = mr.deleting
         /\ mr'.observeOnly = mr.observeOnly /\ mr'.extName \in {mr.extName, worker.view.extName}
         /\ worker'.pc = "idle" /\ mr'.finalizer = mr.finalizer
  <2>1. mr \in MRs /\ worker \in Workers /\ worker.view \in MRs
    BY Typed DEF Workers
  <2>2. CASE AddFinalizer
    <3> DEFINE new == [mr EXCEPT !.finalizer = TRUE, !.extName = worker.view.extName]
    <3>1. /\ new \in MRs /\ new.finalizer /\ new.present = mr.present /\ new.deleting = mr.deleting
          /\ new.observeOnly = mr.observeOnly /\ new.extName = worker.view.extName
      BY <2>1 DEF MRs
    <3> HIDE DEF new
    <3>2. Persist(new, worker) /\ ~mr.finalizer
      BY <2>2 DEF AddFinalizer, new
    <3> QED
      BY <1>1, <2>1, <3>1, <3>2, PersistFacts, InitialFields
  <2>3. CASE PersistExternalName
    <3> DEFINE new == [mr EXCEPT !.extName = worker.view.extName]
    <3>1. /\ new \in MRs /\ new.finalizer = mr.finalizer /\ new.present = mr.present
          /\ new.deleting = mr.deleting /\ new.observeOnly = mr.observeOnly
          /\ new.extName = worker.view.extName
      BY <2>1 DEF MRs
    <3> HIDE DEF new
    <3>2. Persist(new, IdleWorker)
      BY <2>3 DEF PersistExternalName, new
    <3> QED
      BY <3>1, <3>2, PersistFacts, InitialFields, InitialTyped
  <2>4. CASE PersistStatus
    <3> DEFINE new == [mr EXCEPT !.available = worker.view.available]
    <3>1. /\ new \in MRs /\ new.finalizer = mr.finalizer /\ new.present = mr.present
          /\ new.deleting = mr.deleting /\ new.observeOnly = mr.observeOnly
          /\ new.extName = mr.extName
      BY <2>1 DEF MRs
    <3> HIDE DEF new
    <3>2. Persist(new, IdleWorker)
      BY <2>4 DEF PersistStatus, new
    <3> QED
      BY <3>1, <3>2, PersistFacts, InitialFields, InitialTyped
  <2> QED
    BY <2>2, <2>3, <2>4
<1>3. MRInv'
  BY <1>1, <1>2 DEF DeletionInv, MRInv
<1>4. BusyInv'
  BY <1>1, <1>2 DEF DeletionInv, BusyInv, Busy, Working, Orphaned
<1>5. NamedInv'
  BY <1>1, <1>2 DEF DeletionInv, MRInv, NamedInv, OnlyNamed
<1>6. NewInv'
  BY <1>1, <1>2 DEF DeletionInv, NewInv, InstanceGone
<1>7. RecordedInv'
  BY <1>1, <1>2 DEF DeletionInv, MRInv, RecordedInv, FoundNothing, Recorded
<1> QED
  BY <1>3, <1>4, <1>5, <1>6, <1>7 DEF DeletionInv

--------------------------------------------------------------------------------
(* The operations *)

\* Terraform runs in the directory, for the worker or in the background.
LEMMA TerraformKeepsInv ==
    ASSUME CLIAssumption, TypeOK, DeletionInv, NEW type \in {"apply", "destroy"},
           \/ Succeeds(type) /\ UNCHANGED budget
           \/ Fails(type),
           mr.present \/ worker.pc # "idle" => mr.finalizer,
           UNCHANGED <<setup, lost>>
    PROVE  /\ ~setup.generated => OnlyNamed'
           /\ ~lost' /\ ~(mr.deleting /\ mr.observeOnly)
              /\ (mr.finalizer \/ worker.pc \notin {"idle", "connect"}) => Recorded'
BY TerraformFacts DEF DeletionInv, NamedInv, RecordedInv

\* Terraform runs while the worker waits.
LEMMA ApplyKeepsInv ==
    ASSUME CLIAssumption, TypeOK, DeletionInv, Apply \/ Destroy
    PROVE  DeletionInv'
<1>1. /\ worker.pc = "start" /\ worker'.pc = "idle" /\ ~Busy
      /\ UNCHANGED <<setup, store, cli, lost>>
  BY InitialFields DEF Apply, Destroy, ToStart, Finish
<1>2. mr.finalizer /\ mr.present
  BY <1>1 DEF DeletionInv, NewInv, MRInv
<1>3. /\ mr'.present = mr.present /\ mr'.deleting = mr.deleting
      /\ mr'.finalizer = mr.finalizer /\ mr'.observeOnly = mr.observeOnly
      /\ \/ mr' = mr
         \/ mr'.extName = dir'.state.id /\ Succeeds("apply")
  BY Typed DEF Apply, Destroy, MRs
<1>4. PICK type \in {"apply", "destroy"} :
         \/ Succeeds(type) /\ UNCHANGED budget
         \/ Fails(type)
  BY DEF Apply, Destroy
<1>5. /\ ~setup.generated => OnlyNamed'
      /\ ~lost' /\ ~(mr.deleting /\ mr.observeOnly) => Recorded'
  BY <1>1, <1>2, <1>4, TerraformKeepsInv
<1>6. MRInv'
  BY <1>1, <1>3 DEF DeletionInv, MRInv
<1>7. BusyInv'
  BY <1>1, <1>3 DEF DeletionInv, BusyInv, Busy, Working, Orphaned
<1>8. NamedInv'
  <2>1. Succeeds("apply") /\ ~setup.generated => dir'.state.id = NameId
    BY ApplyChangesFacts DEF Succeeds, DeletionInv, NamedInv
  <2> QED
    BY <1>1, <1>3, <1>5, <2>1 DEF DeletionInv, NamedInv
<1>9. NewInv'
  BY <1>2, <1>3 DEF NewInv
<1>10. RecordedInv'
  BY <1>1, <1>3, <1>5 DEF RecordedInv, FoundNothing
<1> QED
  BY <1>6, <1>7, <1>8, <1>9, <1>10 DEF DeletionInv

\* The record is made before the goroutine starts.
LEMMA ApplyAsyncKeepsInv ==
    ASSUME CLIAssumption, TypeOK, DeletionInv, ApplyAsync \/ DestroyAsync
    PROVE  DeletionInv'
<1>1. /\ worker.pc = "start" /\ worker'.pc = "idle"
      /\ UNCHANGED <<mr, world, setup, dir, lost>>
  BY InitialFields DEF ApplyAsync, DestroyAsync, ToStart, Finish
<1>2. mr.finalizer /\ ~worker.view.observeOnly
  BY <1>1 DEF DeletionInv, NewInv, MRInv
<1>3. \/ UNCHANGED <<store, cli>>
      \/ Busy' /\ cli'.running
  BY StartCLIFacts DEF ApplyAsync, DestroyAsync
<1>4. MRInv'
  BY <1>1 DEF DeletionInv, MRInv
<1>5. BusyInv'
  BY <1>1, <1>2, <1>3 DEF DeletionInv, BusyInv, Busy, Working, Orphaned
<1>6. NamedInv'
  BY <1>1 DEF DeletionInv, NamedInv, OnlyNamed
<1>7. NewInv'
  BY <1>1, <1>2 DEF NewInv
<1>8. RecordedInv'
  BY <1>1 DEF DeletionInv, RecordedInv, FoundNothing, Recorded
<1> QED
  BY <1>4, <1>5, <1>6, <1>7, <1>8 DEF DeletionInv

\* The goroutine does not run while the worker uses the directory.
LEMMA RunAsyncKeepsInv ==
    ASSUME CLIAssumption, TypeOK, DeletionInv, RunAsync
    PROVE  DeletionInv'
<1>1. /\ cli.running /\ cli'.running /\ cli.type \in {"apply", "destroy"}
      /\ UNCHANGED <<mr, setup, store, worker, lost>>
      /\ \/ Succeeds(cli.type) /\ UNCHANGED budget
         \/ Fails(cli.type)
  BY Typed DEF RunAsync, CLIs
<1>2. mr.present \/ worker.pc # "idle" => mr.finalizer
  BY <1>1 DEF DeletionInv, NewInv
<1>3. ~FoundNothing
  BY <1>1 DEF DeletionInv, BusyInv, Working, FoundNothing, Orphaned
<1>4. /\ ~setup.generated => OnlyNamed'
      /\ ~lost' /\ ~(mr.deleting /\ mr.observeOnly)
         /\ (mr.finalizer \/ worker.pc \notin {"idle", "connect"}) => Recorded'
  BY <1>1, <1>2, TerraformKeepsInv
<1>5. MRInv'
  BY <1>1 DEF DeletionInv, MRInv
<1>6. BusyInv'
  BY <1>1 DEF DeletionInv, BusyInv, Busy, Working, Orphaned
<1>7. NamedInv'
  BY <1>1, <1>4 DEF DeletionInv, NamedInv
<1>8. NewInv'
  BY <1>1, <1>2 DEF NewInv
<1>9. RecordedInv'
  BY <1>1, <1>3, <1>4 DEF RecordedInv, FoundNothing
<1> QED
  BY <1>5, <1>6, <1>7, <1>8, <1>9 DEF DeletionInv

\* The record ends with the goroutine.
LEMMA EndAsyncKeepsInv ==
    ASSUME CLIAssumption, TypeOK, DeletionInv, EndAsync \/ Callback
    PROVE  DeletionInv'
<1>1. /\ UNCHANGED <<mr, world, setup, dir, lost>>
      /\ worker'.pc = worker.pc /\ worker'.view = worker.view /\ worker'.obs = worker.obs
      /\ worker'.fresh => worker.fresh
  BY Typed DEF EndAsync, Callback, Workers
<1>2. \/ UNCHANGED <<store, cli>>
      \/ ~Busy' /\ ~cli'.running
  <2>1. CASE Callback
    BY <2>1 DEF Callback
  <2>2. CASE EndAsync
    <3>1. store \in Stores /\ store.op \in CLIOperations
      BY Typed DEF Stores
    <3>2. ~IsRunning(MarkEnd(store.op)) /\ MarkEnd(store.op) \in CLIOperations
      BY <3>1, OperationsTyped
    <3>3. store' = [store EXCEPT !.op = MarkEnd(store.op)]
      BY <2>2 DEF EndAsync
    <3>4. store'.op = MarkEnd(store.op)
      BY <3>1, <3>2, <3>3, StoreReplaced
    <3> QED
      BY <2>2, <3>2, <3>4, InitialFields DEF EndAsync, Busy
  <2> QED
    BY <2>1, <2>2
<1>3. MRInv'
  BY <1>1 DEF DeletionInv, MRInv
<1>4. BusyInv'
  BY <1>1, <1>2 DEF DeletionInv, BusyInv, Busy, Working, Orphaned
<1>5. NamedInv'
  BY <1>1 DEF DeletionInv, NamedInv, OnlyNamed
<1>6. NewInv'
  BY <1>1, <1>2 DEF DeletionInv, NewInv, InstanceGone
<1>7. RecordedInv'
  BY <1>1 DEF DeletionInv, RecordedInv, FoundNothing, Recorded, InstanceGone
<1> QED
  BY <1>3, <1>4, <1>5, <1>6, <1>7 DEF DeletionInv

--------------------------------------------------------------------------------
(* Users, the external API, the process *)

\* An MR that is being deleted is not edited; one without a finalizer goes at once.
LEMMA UserEditsKeepsInv ==
    ASSUME CLIAssumption, TypeOK, DeletionInv, UserEdits
    PROVE  DeletionInv'
<1>1. /\ UNCHANGED <<world, setup, store, dir, cli, lost>>
      /\ worker'.pc = worker.pc /\ worker'.view = worker.view /\ worker'.obs = worker.obs
      /\ ~worker'.fresh
  BY Typed DEF UserEdits, Workers
<1>2. /\ mr.present /\ ~mr.deleting
      /\ \/ /\ mr'.present /\ mr'.finalizer = mr.finalizer /\ mr'.extName = mr.extName
            /\ mr'.deleting => mr.finalizer
         \/ ~mr.finalizer /\ ~mr'.present /\ ~mr'.finalizer /\ ~mr'.deleting
  BY Typed, InitialFields DEF UserEdits, MRs
<1>3. worker.pc # "idle" => ~worker.view.deleting
  BY <1>2 DEF DeletionInv, MRInv
<1>4. MRInv'
  BY <1>1, <1>2, <1>3 DEF DeletionInv, MRInv
<1>5. BusyInv'
  BY <1>1, <1>2 DEF DeletionInv, BusyInv, Busy, Working, Orphaned
<1>6. NamedInv'
  BY <1>1, <1>2 DEF DeletionInv, NamedInv, OnlyNamed
<1>7. NewInv'
  BY <1>1, <1>2 DEF DeletionInv, NewInv, InstanceGone
<1>8. RecordedInv'
  BY <1>1, <1>2, <1>3 DEF DeletionInv, RecordedInv, FoundNothing, Recorded, InstanceGone
<1> QED
  BY <1>4, <1>5, <1>6, <1>7, <1>8 DEF DeletionInv

\* A new MR finds an empty workspace, and no generated instance.
LEMMA UserRecreatesKeepsInv ==
    ASSUME CLIAssumption, TypeOK, DeletionInv, UserRecreates
    PROVE  DeletionInv'
<1>1. /\ ~mr.present /\ ~cli'.running /\ worker'.pc = "idle"
      /\ UNCHANGED <<world, setup>>
      /\ setup.generated => InstanceGone
      /\ ~Busy' /\ ~dir'.state.instance
  BY InitialFields DEF UserRecreates, Busy
<1>2. /\ mr'.present /\ ~mr'.deleting /\ ~mr'.finalizer
      /\ ~setup.generated => mr'.extName = NameId
  BY DEF UserRecreates, NewMR, NoMR
<1>3. MRInv'
  BY <1>1, <1>2 DEF MRInv
<1>4. BusyInv'
  BY <1>1 DEF BusyInv, Working
<1>5. NamedInv'
  BY <1>1, <1>2 DEF DeletionInv, NamedInv, OnlyNamed
<1>6. NewInv'
  BY <1>1 DEF NewInv, InstanceGone
<1>7. RecordedInv'
  BY <1>1, <1>2 DEF RecordedInv, FoundNothing
<1> QED
  BY <1>3, <1>4, <1>5, <1>6, <1>7 DEF DeletionInv

\* The external API changes what exists.
LEMMA DriftKeepsInv ==
    ASSUME CLIAssumption, TypeOK, DeletionInv, Drift
    PROVE  DeletionInv'
<1>1. UNCHANGED <<mr, setup, store, dir, worker, cli, lost>>
  BY DEF Drift
<1>2. PICK i \in Ids, s \in Specs : Exists(i) /\ world' = [world EXCEPT ![i] = s]
  BY DEF Drift
<1>3. world[i] # Gone /\ \A j \in Ids : world'[j] # Gone => world[j] # Gone
  BY <1>2, Typed DEF Worlds, Exists
<1>4. MRInv'
  BY <1>1 DEF DeletionInv, MRInv
<1>5. BusyInv'
  BY <1>1 DEF DeletionInv, BusyInv, Busy, Working, Orphaned
<1>6. NamedInv'
  BY <1>1, <1>3 DEF DeletionInv, NamedInv, OnlyNamed
<1>7. NewInv'
  BY <1>1, <1>3 DEF DeletionInv, NewInv, InstanceGone
<1>8. RecordedInv'
  BY <1>1, <1>3 DEF DeletionInv, RecordedInv, FoundNothing, Recorded, InstanceGone
<1> QED
  BY <1>4, <1>5, <1>6, <1>7, <1>8 DEF DeletionInv

\* The record goes with the goroutine; a directory that goes is a state that is lost.
LEMMA RestartKeepsInv ==
    ASSUME CLIAssumption, TypeOK, DeletionInv, Restart
    PROVE  DeletionInv'
<1>1. /\ UNCHANGED <<mr, world>> /\ worker'.pc = "idle" /\ ~Busy' /\ ~cli'.running
      /\ setup'.generated = setup.generated /\ lost' = (lost \/ Loses(dir'))
      /\ dir' = dir \/ ~dir'.state.instance
  BY InitialFields, Typed DEF Restart, Busy, Setups
<1>2. MRInv'
  BY <1>1 DEF DeletionInv, MRInv
<1>3. BusyInv'
  BY <1>1 DEF BusyInv, Working
<1>4. NamedInv'
  BY <1>1 DEF DeletionInv, NamedInv, OnlyNamed
<1>5. NewInv'
  BY <1>1 DEF DeletionInv, NewInv, InstanceGone
<1>6. RecordedInv'
  BY <1>1 DEF DeletionInv, RecordedInv, FoundNothing, Recorded, Loses, Exists, CLIAssumption
<1> QED
  BY <1>2, <1>3, <1>4, <1>5, <1>6 DEF DeletionInv

--------------------------------------------------------------------------------
(* The theorems *)

IInv == TypeOK /\ DeletionInv

\* Every step keeps the inductive invariant.
LEMMA IInvNext ==
    ASSUME CLIAssumption, IInv, [Next]_vars
    PROVE  IInv'
<1>1. TypeOK'
  BY TypesNext DEF IInv
<1>2. DeletionInv'
  <2>1. CASE UNCHANGED vars
    <3>1. UNCHANGED <<mr, world, setup, store, dir, worker, cli, lost>>
      BY <2>1 DEF vars
    <3>2. MRInv'
      BY <3>1 DEF IInv, DeletionInv, MRInv
    <3>3. BusyInv'
      BY <3>1 DEF IInv, DeletionInv, BusyInv, Busy, Working, Orphaned
    <3>4. NamedInv' /\ NewInv'
      BY <3>1 DEF IInv, DeletionInv, NamedInv, OnlyNamed, NewInv, InstanceGone
    <3>5. RecordedInv'
      BY <3>1 DEF IInv, DeletionInv, RecordedInv, FoundNothing, Recorded, InstanceGone
    <3> QED
      BY <3>2, <3>3, <3>4, <3>5 DEF DeletionInv
  <2>2. CASE Worker
    BY <2>2, ReconcileKeepsInv, WorkspaceKeepsInv, WriteMainTFKeepsInv, InitWorkspaceKeepsInv,
       ObserveOperationKeepsInv, RefreshKeepsInv, PlanKeepsInv, ImportKeepsInv,
       RemoveFinalizerKeepsInv, DecideKeepsInv, PersistKeepsInv, ApplyKeepsInv,
       ApplyAsyncKeepsInv
       DEF IInv, Worker
  <2>3. CASE Goroutine
    BY <2>3, RunAsyncKeepsInv, EndAsyncKeepsInv DEF IInv, Goroutine
  <2>4. CASE Environment
    BY <2>4, UserEditsKeepsInv, UserRecreatesKeepsInv, DriftKeepsInv, RestartKeepsInv
       DEF IInv, Environment
  <2> QED
    BY <2>1, <2>2, <2>3, <2>4 DEF Next
<1> QED
  BY <1>1, <1>2 DEF IInv

\* The inductive invariant holds in every behaviour.
LEMMA Invariant == ASSUME CLIAssumption PROVE Spec => []IInv
<1>1. Init => IInv
  BY TypesInit, DeletionInvInit DEF IInv
<1>2. IInv /\ [Next]_vars => IInv'
  BY IInvNext
<1> QED
  BY <1>1, <1>2, PTL DEF Spec

\* While Terraform runs in the background, only the goroutine itself changes the directory.
LEMMA FilesUntouchedStep ==
    ASSUME CLIAssumption, IInv, Next, cli.running, ~cli.done, cli' = cli,
           ~worker.view.observeOnly
    PROVE  dir' = dir
<1>1. TypeOK /\ BusyInv
  BY DEF IInv, DeletionInv
<1>2. worker.pc # "idle" => Busy /\ ~Working
  BY <1>1 DEF BusyInv, Orphaned
<1>3. CASE Worker
  BY <1>2, <1>3
     DEF Worker, Reconcile, Workspace, WriteMainTF, InitWorkspace, ObserveOperation, Refresh,
         Plan, Import, RemoveFinalizer, DecideDelete, AddFinalizer, PersistExternalName,
         PersistStatus, DecideApply, Apply, Destroy, ApplyAsync, DestroyAsync, ToStart,
         Working, Decide
<1>4. CASE Goroutine
  <2>1. ~RunAsync
    BY <1>1, Typed DEF RunAsync, CLIs
  <2> QED
    BY <1>4, <2>1 DEF Goroutine, EndAsync, Callback
<1>5. CASE Environment
  BY <1>5, InitialFields DEF Environment, UserEdits, UserRecreates, Drift, Restart
<1> QED
  BY <1>3, <1>4, <1>5 DEF Next

\* The finalizer goes only with RemoveFinalizer.
LEMMA NothingLeftBehindStep ==
    ASSUME CLIAssumption, IInv, Next, mr.finalizer, ~mr'.present, ~worker.view.observeOnly, ~lost
    PROVE  InstanceGone
<1>1. TypeOK /\ DeletionInv /\ mr.present
  BY DEF IInv, DeletionInv, MRInv
<1>2. CASE RemoveFinalizer
  BY <1>1, <1>2, RemoveFinalizerKeepsInv
<1>3. CASE AddFinalizer
  BY <1>3 DEF AddFinalizer
<1>4. CASE PersistExternalName \/ PersistStatus
  BY <1>1, <1>4, Typed DEF PersistExternalName, PersistStatus, Persist, MRs
<1>5. CASE Apply
  BY <1>1, <1>5, Typed DEF Apply, MRs
<1>6. CASE UserEdits
  BY <1>1, <1>6, Typed DEF UserEdits, MRs
<1>7. CASE UserRecreates
  BY <1>1, <1>7 DEF UserRecreates
<1>8. mr' # mr
  BY <1>1
<1> QED
  BY <1>2, <1>3, <1>4, <1>5, <1>6, <1>7, <1>8
     DEF Next, Worker, Goroutine, Environment, Reconcile, Workspace, WriteMainTF, InitWorkspace,
         ObserveOperation, Refresh, Plan, Import, DecideDelete, DecideApply, Destroy,
         ApplyAsync, DestroyAsync, RunAsync, EndAsync, Callback, Drift, Restart

(* While Terraform runs in the directory in the background, neither a Connect nor the finalizer
   touches it, unless the MR is let go without a deletion. *)
THEOREM FilesStayUntouched == ASSUME CLIAssumption PROVE Spec => FilesUntouched
<1>1. IInv /\ [Next]_vars =>
        [cli.running /\ ~cli.done /\ cli' = cli /\ ~worker.view.observeOnly => dir' = dir]_vars
  BY FilesUntouchedStep
<1> QED
  BY <1>1, Invariant, PTL DEF Spec, FilesUntouched

(* An MR does not go before its instance, with the state of every instance an apply created in
   the directory, whatever fails and however often the controller restarts. *)
THEOREM DeletionLeavesNothing == ASSUME CLIAssumption PROVE Spec => NothingLeftBehind
<1>1. IInv /\ [Next]_vars =>
        [mr.finalizer /\ ~mr'.present /\ ~worker.view.observeOnly /\ ~lost => InstanceGone]_vars
  BY NothingLeftBehindStep
<1> QED
  BY <1>1, Invariant, PTL DEF Spec, NothingLeftBehind

--------------------------------------------------------------------------------
StopInv ==
    /\ attempts \in [Attempts -> [pc: AttemptPCs, up: BOOLEAN, answer: SUBSET Answers,
                                  channel: Handles]]
    /\ "stopCh" \in DOMAIN runner
    /\ \E k \in Nat : Tried = 1..k
    /\ stopped \subseteq Tried /\ runner.stopCh \in Tried \cup {None}
    /\ runner.stopCh \notin stopped

\* Steps that make no attempt and leave the channels alone.
LEMMA NoNewAttempt ==
    ASSUME StopInv, attempts' \in [Attempts -> AttemptRecords], Tried' = Tried,
           UNCHANGED stopped, "stopCh" \in DOMAIN runner', runner'.stopCh = runner.stopCh
    PROVE  StopInv'
BY DEF StopInv, AttemptRecords

\* A goroutine that goes on: its attempt was made before.
LEMMA GoesOn ==
    ASSUME StopInv, NEW n \in Attempts, NEW r \in AttemptRecords,
           attempts[n].pc # "new", r.pc # "new", attempts' = [attempts EXCEPT ![n] = r],
           UNCHANGED stopped, "stopCh" \in DOMAIN runner', runner'.stopCh = runner.stopCh
    PROVE  StopInv'
<1>1. attempts \in [Attempts -> AttemptRecords]
  BY DEF StopInv, AttemptRecords
<1>2. attempts' \in [Attempts -> AttemptRecords]
  BY <1>1
<1>3. \A m \in Attempts : attempts'[m].pc # "new" <=> attempts[m].pc # "new"
  BY <1>1
<1>4. Tried' = Tried
  BY <1>3 DEF Tried
<1> QED
  BY <1>2, <1>4, NoNewAttempt

LEMMA GoroutineKeepsInv ==
    ASSUME StopInv, AttemptStep
    PROVE  StopInv'
<1>1. PICK n \in Attempts : Watch(n) \/ Announce(n) \/ ClearConfig(n) \/ ProcessExits(n)
  BY DEF AttemptStep
<1>2. attempts[n] \in AttemptRecords /\ "stopCh" \in DOMAIN runner
  BY DEF StopInv, AttemptRecords
<1>3. ASSUME NEW r \in AttemptRecords, attempts[n].pc # "new", r.pc # "new",
             attempts' = [attempts EXCEPT ![n] = r], UNCHANGED <<runner, stopped>>
      PROVE  StopInv'
  BY <1>2, <1>3, GoesOn
<1>4. ASSUME NEW pc \in AttemptPCs \ {"new"}, NEW a \in SUBSET Answers
      PROVE  /\ [attempts[n] EXCEPT !.pc = pc, !.answer = a] \in AttemptRecords
             /\ [attempts[n] EXCEPT !.pc = pc, !.answer = a].pc # "new"
  BY <1>2, <1>4 DEF AttemptRecords
<1>5. CASE ForkFails(n) \/ Announce(n) \/ SeeExit(n)
  <2>1. PICK pc \in {"clear", "select"}, verdict \in Answers :
           attempts' = [attempts EXCEPT ![n].pc = pc,
                                        ![n].answer = attempts[n].answer \cup {verdict}]
    BY <1>5 DEF ForkFails, Announce, SeeExit, Answers
  <2> DEFINE a == attempts[n].answer \cup {verdict}
             r == [attempts[n] EXCEPT !.pc = pc, !.answer = a]
  <2>2. a \in SUBSET Answers /\ pc \in AttemptPCs \ {"new"}
    BY <1>2 DEF AttemptRecords, AttemptPCs
  <2>3. attempts' = [attempts EXCEPT ![n] = r]
    BY <2>1
  <2>4. attempts[n].pc # "new" /\ UNCHANGED <<runner, stopped>>
    BY <1>5 DEF ForkFails, Announce, SeeExit
  <2> HIDE DEF a
  <2>5. r \in AttemptRecords /\ r.pc # "new"
    BY <1>4, <2>2
  <2> HIDE DEF r
  <2> QED
    BY <1>3, <2>3, <2>4, <2>5
<1>6. CASE Fork(n)
  <2> DEFINE r == [attempts[n] EXCEPT !.pc = "scanning", !.up = TRUE]
  <2>1. r \in AttemptRecords /\ r.pc # "new"
    BY <1>2 DEF AttemptRecords, AttemptPCs
  <2>2. attempts' = [attempts EXCEPT ![n] = r]
    BY <1>6 DEF Fork
  <2> HIDE DEF r
  <2> QED
    BY <1>3, <1>6, <2>1, <2>2 DEF Fork
<1>7. CASE OutputEnds(n)
  <2> DEFINE r == [attempts[n] EXCEPT !.pc = "select"]
  <2>1. r \in AttemptRecords /\ r.pc # "new"
    BY <1>2 DEF AttemptRecords, AttemptPCs
  <2>2. attempts' = [attempts EXCEPT ![n] = r]
    BY <1>7 DEF OutputEnds
  <2> HIDE DEF r
  <2> QED
    BY <1>3, <1>7, <2>1, <2>2 DEF OutputEnds
<1>8. CASE Select(n)
  <2> DEFINE ch == runner.stopCh
             r == [attempts[n] EXCEPT !.pc = "waiting", !.channel = ch]
  <2>1. ch \in Handles
    BY DEF StopInv, Tried, Handles
  <2>2. attempts' = [attempts EXCEPT ![n] = r]
    BY <1>8 DEF Select
  <2> HIDE DEF ch
  <2>3. r \in AttemptRecords /\ r.pc # "new"
    BY <1>2, <2>1 DEF AttemptRecords, AttemptPCs
  <2> HIDE DEF r
  <2> QED
    BY <1>3, <1>8, <2>2, <2>3 DEF Select
<1>9. CASE SeeStop(n)
  <2> DEFINE r == [attempts[n] EXCEPT !.pc = "clear", !.up = FALSE]
  <2>1. r \in AttemptRecords /\ r.pc # "new"
    BY <1>2 DEF AttemptRecords, AttemptPCs
  <2>2. attempts' = [attempts EXCEPT ![n] = r]
    BY <1>9 DEF SeeStop
  <2> HIDE DEF r
  <2> QED
    BY <1>3, <1>9, <2>1, <2>2 DEF SeeStop
<1>10. CASE ClearConfig(n)
  <2> DEFINE r == [attempts[n] EXCEPT !.pc = "done", !.channel = None]
  <2>1. r \in AttemptRecords /\ r.pc # "new"
    BY <1>2 DEF AttemptRecords, AttemptPCs, Handles
  <2>2. attempts' = [attempts EXCEPT ![n] = r] /\ attempts[n].pc # "new" /\ UNCHANGED stopped
    BY <1>10 DEF ClearConfig
  <2>3. "stopCh" \in DOMAIN runner' /\ runner'.stopCh = runner.stopCh
    BY <1>2, <1>10 DEF ClearConfig, WithoutConfig
  <2> HIDE DEF r
  <2> QED
    BY <2>1, <2>2, <2>3, GoesOn
<1>11. CASE ProcessExits(n)
  <2> DEFINE r == [attempts[n] EXCEPT !.up = FALSE]
  <2>1. r \in AttemptRecords /\ r.pc = attempts[n].pc
    BY <1>2 DEF AttemptRecords
  <2>2. attempts' = [attempts EXCEPT ![n] = r]
    BY <1>11 DEF ProcessExits
  <2>3. CASE attempts[n].pc # "new"
    <3> HIDE DEF r
    <3> QED
      BY <1>3, <1>11, <2>1, <2>2, <2>3 DEF ProcessExits
  <2>4. CASE attempts[n].pc = "new"
    <3>1. attempts \in [Attempts -> AttemptRecords]
      BY DEF StopInv, AttemptRecords
    <3> HIDE DEF r
    <3>2. attempts' \in [Attempts -> AttemptRecords]
      BY <2>1, <2>2, <3>1
    <3>3. \A m \in Attempts : attempts'[m].pc = attempts[m].pc
      BY <2>1, <2>2, <3>1
    <3>4. Tried' = Tried
      BY <3>3 DEF Tried
    <3> QED
      BY <1>2, <1>11, <3>2, <3>4, NoNewAttempt DEF ProcessExits
  <2> QED
    BY <2>3, <2>4
<1> QED
  BY <1>1, <1>5, <1>6, <1>7, <1>8, <1>9, <1>10, <1>11 DEF Watch

\* An attempt that is made has a number, and a channel, that none had before.
LEMMA ForkProviderKeepsInv ==
    ASSUME StopInv, ForkProvider
    PROVE  StopInv'
<1>1. PICK k \in Nat : Tried = 1..k
  BY DEF StopInv
<1>2. Cardinality(Tried) = k
  BY <1>1, FS_Interval
<1>3. PICK n \in Attempts : /\ n = k + 1
                            /\ attempts' = [attempts EXCEPT ![n].pc = "forked"]
                            /\ runner' = [runner EXCEPT !.stopCh = n]
  BY <1>2 DEF ForkProvider
<1> DEFINE r == [attempts[n] EXCEPT !.pc = "forked"]
<1>4. attempts \in [Attempts -> AttemptRecords] /\ UNCHANGED stopped
  BY DEF StopInv, ForkProvider, AttemptRecords
<1>5. r \in AttemptRecords /\ r.pc = "forked" /\ attempts' = [attempts EXCEPT ![n] = r]
  BY <1>3, <1>4 DEF AttemptRecords, AttemptPCs
<1> HIDE DEF r
<1>6. attempts' \in [Attempts -> AttemptRecords]
  BY <1>4, <1>5
<1>7. Tried' = Tried \cup {n}
  BY <1>4, <1>5 DEF Tried
<1>8. Tried' = 1..(k + 1) /\ n \notin Tried
  BY <1>1, <1>3, <1>7
<1>9. "stopCh" \in DOMAIN runner' /\ runner'.stopCh = n
  BY <1>3 DEF StopInv
<1> QED
  BY <1>4, <1>6, <1>7, <1>8, <1>9 DEF StopInv, AttemptRecords

\* The channel that is written leaves the runner.
LEMMA StopperKeepsInv ==
    ASSUME StopInv, Stopper
    PROVE  StopInv'
<1>1. UNCHANGED attempts
  BY DEF Stopper, WaitForUsers, StopRunner
<1>2. Tried' = Tried
  BY <1>1 DEF Tried
<1>3. CASE UNCHANGED <<runner, stopped>>
  BY <1>1, <1>2, <1>3, NoNewAttempt DEF StopInv, AttemptRecords
<1>4. CASE /\ runner.stopCh # None /\ stopped' = stopped \cup {runner.stopCh}
           /\ runner' = WithoutChannel
  <2>1. "stopCh" \in DOMAIN runner' /\ runner'.stopCh = None
    BY <1>4 DEF StopInv, WithoutChannel
  <2>2. None \notin Tried
    BY DEF Tried, Attempts, None
  <2> QED
    BY <1>1, <1>2, <1>4, <2>1, <2>2 DEF StopInv
<1> QED
  BY <1>3, <1>4 DEF Stopper, WaitForUsers, StopRunner

LEMMA ProviderReconcileKeepsInv ==
    ASSUME StopInv, ReconcileStep
    PROVE  StopInv'
<1>1. CASE ForkProvider
  BY <1>1, ForkProviderKeepsInv
<1>2. CASE ~ForkProvider
  <2>1. UNCHANGED <<attempts, stopped>>
    BY <1>2 DEF ReconcileStep, ReturnConfig, Attach, StartFails, StartTimesOut, BeginSync, EndSync,
                BeginBackground, EndBackground, Disconnect
  <2>2. Tried' = Tried
    BY <2>1 DEF Tried
  <2>3. "stopCh" \in DOMAIN runner' /\ runner'.stopCh = runner.stopCh
    <3>1. CASE Attach
      BY <3>1 DEF StopInv, Attach
    <3>2. CASE ~Attach
      <4>1. UNCHANGED runner
        BY <1>2, <3>2 DEF ReconcileStep, ReturnConfig, StartFails, StartTimesOut, BeginSync, EndSync,
                          BeginBackground, EndBackground, Disconnect
      <4> QED
        BY <4>1 DEF StopInv
    <3> QED
      BY <3>1, <3>2
  <2> QED
    BY <2>1, <2>2, <2>3, NoNewAttempt DEF StopInv, AttemptRecords
<1> QED
  BY <1>1, <1>2

(* ProviderSpec => []StopNeverBlocks: the write to stopCh in Stop (provider_runner.go:229) finds room
   in a channel that was not closed, for any number of processes and goroutines. *)
THEOREM StopFindsRoom == ProviderSpec => []StopNeverBlocks
<1>1. ProviderInit => StopInv
  <2> SUFFICES ASSUME ProviderInit
               PROVE  StopInv
    OBVIOUS
  <2>1. attempts \in [Attempts -> AttemptRecords]
    BY DEF ProviderInit, NewAttempt, AttemptRecords, AttemptPCs, Handles
  <2>2. Tried = {}
    BY DEF ProviderInit, NewAttempt, Tried
  <2>3. Tried = 1..0
    BY <2>2
  <2> QED
    BY <2>1, <2>2, <2>3 DEF ProviderInit, StopInv, AttemptRecords
<1>2. StopInv /\ [ProviderNext]_providerVars => StopInv'
  <2> SUFFICES ASSUME StopInv, [ProviderNext]_providerVars
               PROVE  StopInv'
    OBVIOUS
  <2>1. CASE UNCHANGED providerVars
    BY <2>1 DEF providerVars, StopInv, Tried
  <2> QED
    BY <2>1, GoroutineKeepsInv, StopperKeepsInv, ProviderReconcileKeepsInv DEF ProviderNext
<1>3. StopInv => StopNeverBlocks
  BY DEF StopInv, StopNeverBlocks
<1> QED
  BY <1>1, <1>2, <1>3, PTL DEF ProviderSpec

================================================================================
