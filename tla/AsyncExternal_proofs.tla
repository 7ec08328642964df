-------------------------- MODULE AsyncExternal_proofs --------------------------
(***************************************************************************)
(* Proofs about AsyncExternal, for every value of its constants.           *)
(***************************************************************************)
EXTENDS AsyncExternal, TLAPS

--------------------------------------------------------------------------------
(* What the operators of the operation record and of the tracker return. *)

\* The methods of Operation return operations.
LEMMA OperationTypes ==
    ASSUME NEW o \in Operations
    PROVE  /\ NewOperation \in Operations
           /\ \A type \in OpTypes : MarkStart(o, type) \in Operations
           /\ MarkEnd(o) \in Operations
           /\ \A e \in Errors : SetError(o, e) \in Operations
           /\ \A p \in BOOLEAN : Clear(o, p) \in Operations
  BY DEF Operations, NewOperation, MarkStart, MarkEnd, SetError, Clear, Errors, NoError, Failed

\* The methods of AsyncTracker return trackers.
LEMMA TrackerTypes ==
    ASSUME NEW t \in Trackers
    PROVE  /\ NewAsyncTracker \in Trackers
           /\ \A i \in AnyId : SetTfState(t, i) \in Trackers
           /\ \A i \in AnyId : SetReconstructedTfState(t, i) \in Trackers
           /\ ResetReconstructedTfState(t) \in Trackers
           /\ \A d \in BOOLEAN : SetDeleted(t, d) \in Trackers
           /\ \A o \in Operations : [t EXCEPT !.op = o] \in Trackers
           /\ t.op \in Operations
           /\ t.state \in AnyId
  BY OperationTypes DEF Trackers, NewAsyncTracker, SetTfState, SetReconstructedTfState,
     ResetReconstructedTfState, SetDeleted, StateMarks, AnyId, NewOperation, Operations,
     Errors, NoError

\* The initial records have their types.
LEMMA NewTypes ==
    /\ \A s \in Specs : NewMR(s) \in MRs
    /\ NoMR \in MRs
    /\ NoMR.spec \in Specs
    /\ NoObservation \in Observations
    /\ IdleWorker \in Workers
    /\ FreeGoroutine \in Goroutines
  <1>1. FirstName \in AnyId
    BY ConfigAssumption DEF FirstName, AnyId
  <1>2. \A s \in Specs : NewMR(s) \in MRs
    BY <1>1 DEF NewMR, MRs, Conditions
  <1> DEFINE s0 == CHOOSE s \in Specs : TRUE
  <1>3. s0 \in Specs
    BY ConfigAssumption
  <1>4. NoMR \in MRs /\ NoMR.spec \in Specs
    <2> HIDE DEF s0
    <2>1. NewMR(s0) \in MRs
      BY <1>2, <1>3
    <2>2. NoMR = [NewMR(s0) EXCEPT !.present = FALSE, !.extName = NoId]
      BY DEF NoMR, s0
    <2> QED BY <2>1, <2>2 DEF MRs, AnyId
  <1>5. NoObservation \in Observations
    BY DEF NoObservation, Observations
  <1>6. IdleWorker \in Workers
    BY <1>4, <1>5 DEF IdleWorker, Workers, WorkerPCs, OpTypes, Delays
  <1>7. FreeGoroutine \in Goroutines
    BY <1>4 DEF FreeGoroutine, Goroutines, GorPCs, OpTypes, Errors, NoError
  <1> QED BY <1>2, <1>4, <1>5, <1>6, <1>7

\* Marking copies as stale keeps the types.
LEMMA StaleTypes ==
    ASSUME TypeOK
    PROVE  /\ StaleGoroutines \in [Slots -> Goroutines]
           /\ StaleWorker \in Workers
  BY ZenonT(60) DEF TypeOK, StaleGoroutines, StaleWorker, Workers, Goroutines

--------------------------------------------------------------------------------
(* The inductive invariant.  SingleFlight needs WorkerAlone where the worker        *)
(* replaces the tracker, and FinalizerHeld where a new MR of the same name does.    *)

\* WorkerExclusive as the tracker tells it.
WorkerAlone ==
    (worker.pc \in {"read", "decide", "start"} /\ ~worker.obs.running)
        => ~IsRunning(tracker.op)

Bookkeeping ==
    /\ worker.obs.running =>
          worker.obs.exists /\ worker.obs.upToDate /\ ~worker.obs.lateInit
    /\ worker.pc \notin {"decide", "start", "return", "finish"} => ~worker.obs.running
    /\ worker.pc \in {"start", "return"} => worker.op \in OpTypes
    /\ \A s \in Slots : InFlight(s) => gors[s].op \in OpTypes

IInv == TypeOK /\ SingleFlight /\ WorkerAlone /\ FinalizerHeld /\ Bookkeeping

--------------------------------------------------------------------------------
(* Type correctness *)

\* The process starts in a well-typed state.
LEMMA TypeInit == Init => TypeOK
  <1>1. NewAsyncTracker \in Trackers
    BY DEF NewAsyncTracker, Trackers, NewOperation, Operations, Errors, NoError, StateMarks
  <1> QED BY <1>1, NewTypes, ConfigAssumption DEF Init, TypeOK, Delays

\* Of two delayed adds the queue keeps one.
LEMMA SoonerType ==
    ASSUME TypeOK, NEW result \in Delays
    PROVE  Sooner(delayed, result) \in Delays
  BY DEF TypeOK, Sooner, Delays

\* A fault uses up budget that is there.
LEMMA HappensType ==
    ASSUME TypeOK, NEW fault
    PROVE  /\ Happens(fault) => budget' \in 0..MaxFaults
           /\ UNCHANGED budget => budget' \in 0..MaxFaults
  BY ConfigAssumption DEF TypeOK, Happens

\* An update of the MR by the worker, refused or not, keeps the types.
LEMMA PersistTypes ==
    ASSUME TypeOK, NEW newMR \in MRs, NEW next \in Workers, Persist(newMR, next)
    PROVE  mr' \in MRs /\ worker' \in Workers /\ gors' \in [Slots -> Goroutines]
  <1>1. CASE worker.fresh
    BY <1>1, StaleTypes DEF Persist, Workers
  <1>2. CASE ~worker.fresh
    BY <1>2 DEF TypeOK, Persist, Finish, Workers, WorkerPCs, Delays
  <1> QED BY <1>1, <1>2

\* The steps of the worker: what it does to its own record, and to the rest.
LEMMA ReconcileType == TypeOK /\ Reconcile => TypeOK'
  <1> SUFFICES ASSUME TypeOK, Reconcile PROVE TypeOK'
    OBVIOUS
  <1> USE DEF TypeOK
  <1>1. CASE Dequeue
    BY <1>1 DEF Dequeue, Workers, WorkerPCs
  <1>2. CASE GetMR
    BY <1>2, HappensType, NewTypes, SoonerType DEF GetMR, Complete, Workers, WorkerPCs, Delays
  <1>3. CASE ConnectCheckState
    BY <1>3 DEF ConnectCheckState, Workers, WorkerPCs
  <1>4. CASE ConnectReconstruct
    <2>1. worker.view.extName \in AnyId
      BY DEF Workers, MRs
    <2> QED BY <1>4, <2>1, TrackerTypes DEF ConnectReconstruct, Workers, WorkerPCs
  <1>5. CASE ObserveOperation
    <2>1. RunningObservation \in Observations /\ RecoveredObservation \in Observations
      BY DEF RunningObservation, RecoveredObservation, Observations
    <2>2. [tracker EXCEPT !.op = Clear(@, TRUE)] \in Trackers /\ tracker.state \in AnyId
      BY TrackerTypes, OperationTypes DEF Trackers
    <2>3. /\ worker \in Workers
          /\ [worker EXCEPT !.pc = "decide", !.obs = RunningObservation] \in Workers
          /\ [worker EXCEPT !.pc = "decide", !.obs = RecoveredObservation,
                            !.view.extName = tracker.state] \in Workers
          /\ [worker EXCEPT !.pc = "decide"] \in Workers
          /\ [worker EXCEPT !.pc = "read"] \in Workers
      BY <2>1, <2>2 DEF Workers, WorkerPCs, MRs
    <2>4. worker' \in Workers
      <3>1. CASE Busy
        BY <1>5, <2>3, <3>1 DEF ObserveOperation
      <3>2. CASE ~Busy /\ RecoversExternalName
        BY <1>5, <2>3, <3>2 DEF ObserveOperation
      <3>3. CASE ~Busy /\ ~RecoversExternalName
        <4>1. \/ worker' = [worker EXCEPT !.pc = "decide"]
              \/ worker' = [worker EXCEPT !.pc = "read"]
          BY <1>5, <3>3 DEF ObserveOperation
        <4> QED BY <2>3, <4>1
      <3> QED BY <3>1, <3>2, <3>3
    <2> QED BY <1>5, <2>2, <2>4 DEF ObserveOperation
  <1>6. CASE ObserveRead
    <2>1. tracker.state \in AnyId /\ SetTfState(tracker, tracker.state) \in Trackers
      BY TrackerTypes
    <2>2. CASE ReadFound
      <3> DEFINE read == SetTfState(tracker, tracker.state)
      <3>1. tracker' \in Trackers
        <4>1. [read EXCEPT !.op = Clear(@, FALSE)] \in Trackers
          BY <2>1, TrackerTypes, OperationTypes DEF Trackers
        <4> QED BY <2>1, <2>2, <4>1 DEF ReadFound
      <3>2. worker' \in Workers
        <4> DEFINE upToDate == world[tracker.state] = worker.view.spec
                   obs  == [exists |-> TRUE, upToDate |-> upToDate, running |-> FALSE,
                            lateInit |-> worker.view.extName # tracker.state]
                   cond == IF Healthy(upToDate) THEN "ok" ELSE worker.view.cond
        <4>1. worker' = [worker EXCEPT !.pc = "decide", !.obs = obs,
                                       !.view.extName = tracker.state, !.view.cond = cond]
          BY <2>2 DEF ReadFound
        <4>2. obs \in Observations /\ cond \in Conditions
          BY DEF Workers, MRs, Observations, Conditions
        <4> HIDE DEF obs, cond
        <4> DEFINE decides == [worker EXCEPT !.pc = "decide", !.obs = obs]
                   view    == [worker.view EXCEPT !.extName = tracker.state, !.cond = cond]
        <4>3. decides \in Workers
          BY <4>2 DEF Workers, WorkerPCs
        <4>4. view \in MRs
          BY <2>1, <4>2 DEF Workers, MRs
        <4>5. worker' = [decides EXCEPT !.view = view]
          BY <4>1 DEF Workers, MRs
        <4> HIDE DEF decides, view
        <4> QED BY <4>3, <4>4, <4>5 DEF Workers
      <3> QED BY <1>6, <2>2, <3>1, <3>2 DEF ObserveRead, ReadFound
    <2>3. CASE ReadNotFound
      BY <1>6, <2>3, TrackerTypes, HappensType
      DEF ObserveRead, ReadNotFound, Workers, WorkerPCs, AnyId
    <2>4. CASE ReadError
      BY <1>6, <2>4, TrackerTypes, HappensType
      DEF ObserveRead, ReadError, Workers, WorkerPCs, Delays
    <2> QED BY <1>6, <2>2, <2>3, <2>4 DEF ObserveRead
  <1>7. CASE RemoveFinalizer
    BY <1>7, NewTypes, StaleTypes, TrackerTypes, SoonerType, HappensType, ZenonT(60)
    DEF RemoveFinalizer, Complete, Finish, Workers, WorkerPCs, Delays
  <1>8. CASE DecideDelete
    BY <1>8 DEF DecideDelete, Workers, WorkerPCs, OpTypes
  <1>9. CASE AddFinalizer
    <2>1. [mr EXCEPT !.finalizer = TRUE, !.extName = worker.view.extName] \in MRs
      BY DEF Workers, MRs
    <2> QED BY <1>9, <2>1, PersistTypes DEF AddFinalizer
  <1>10. CASE DecideCreate
    <2>1. /\ [mr EXCEPT !.pending = TRUE] \in MRs
          /\ [worker EXCEPT !.pc = "start", !.op = "create"] \in Workers
      BY DEF Workers, WorkerPCs, OpTypes, MRs
    <2>2. queued' \in BOOLEAN
      BY <1>10 DEF DecideCreate, PersistAndNotify, Workers
    <2> QED BY <1>10, <2>1, <2>2, PersistTypes DEF DecideCreate, PersistAndNotify
  <1>11. CASE PersistExternalName
    <2>1. /\ [mr EXCEPT !.extName = worker.view.extName] \in MRs
          /\ [worker EXCEPT !.obs.lateInit = FALSE] \in Workers
      BY DEF Workers, Observations, MRs
    <2>2. queued' \in BOOLEAN
      BY <1>11 DEF PersistExternalName, PersistAndNotify, Workers
    <2> QED BY <1>11, <2>1, <2>2, PersistTypes DEF PersistExternalName, PersistAndNotify
  <1>12. CASE DecideUpToDateOrUpdate
    BY <1>12 DEF DecideUpToDateOrUpdate, Finish, Workers, WorkerPCs, Delays, OpTypes
  <1>13. CASE StartOperation
    <2>1. worker' \in Workers
      BY <1>13 DEF StartOperation, Finish, Workers, WorkerPCs, Delays
    <2>2. tracker' \in Trackers /\ gors' \in [Slots -> Goroutines]
      <3>1. CASE UNCHANGED <<tracker, gors>>
        BY <3>1
      <3>2. CASE ~UNCHANGED <<tracker, gors>>
        <4>1. tracker' = [tracker EXCEPT !.op = MarkStart(@, worker.op)]
          BY <1>13, <3>2 DEF StartOperation
        <4>2. PICK s \in Slots :
                gors' = [gors EXCEPT ![s] = [FreeGoroutine EXCEPT
                            !.pc = "call", !.op = worker.op, !.spec = worker.view.spec]]
          BY <1>13, <3>2 DEF StartOperation
        <4>3. [FreeGoroutine EXCEPT !.pc = "call", !.op = worker.op,
                                    !.spec = worker.view.spec] \in Goroutines
          BY NewTypes DEF Goroutines, GorPCs, Workers, MRs
        <4>4. tracker' \in Trackers
          <5>1. worker.op \in OpTypes \cup {""} /\ tracker.op \in Operations
            BY TrackerTypes DEF Workers
          <5>2. MarkStart(tracker.op, worker.op) \in Operations
            BY <5>1 DEF MarkStart, Operations
          <5> QED BY <4>1, <5>2, TrackerTypes
        <4> QED BY <4>2, <4>3, <4>4
      <3> QED BY <3>1, <3>2
    <2> QED BY <1>13, <2>1, <2>2 DEF StartOperation
  <1>14. CASE ReturnFromStart
    <2>1. mr' \in MRs /\ gors' \in [Slots -> Goroutines]
      BY <1>14, StaleTypes DEF ReturnFromStart, MRs
    <2>2. worker' \in Workers
      <3>1. [mr EXCEPT !.pending = FALSE] \in MRs
        BY DEF MRs
      <3>2. \A view \in MRs : [worker EXCEPT !.pc = "finish", !.result = "soon",
                                            !.view = view, !.fresh = TRUE] \in Workers
        BY DEF Workers, WorkerPCs, Delays
      <3>3. \A result \in {"soon", "poll"} :
                [worker EXCEPT !.pc = "finish", !.result = result] \in Workers
        BY DEF Workers, WorkerPCs, Delays
      <3> QED BY <1>14, <3>1, <3>2, <3>3 DEF ReturnFromStart, Finish
    <2> QED BY <1>14, <2>1, <2>2 DEF ReturnFromStart
  <1>15. CASE FinishReconcile
    BY <1>15, StaleTypes, NewTypes, SoonerType, ZenonT(60)
    DEF FinishReconcile, Complete, Workers, WorkerPCs, MRs, Delays
  <1> QED
    BY <1>1, <1>2, <1>3, <1>4, <1>5, <1>6, <1>7, <1>8, <1>9, <1>10, <1>11, <1>12, <1>13,
       <1>14, <1>15 DEF Reconcile

\* The steps of a goroutine: the provider call, the publication, the callback.
LEMMA GoroutineType ==
    ASSUME TypeOK, NEW s \in Slots, Goroutine(s)
    PROVE  TypeOK'
  <1> USE DEF TypeOK
  <1>1. \A e \in Errors : [gors EXCEPT ![s].pc = "store", ![s].err = e] \in [Slots -> Goroutines]
    BY ZenonT(60) DEF Goroutines, GorPCs
  <1>2. NoError \in Errors /\ Failed \in Errors
    BY DEF Errors, NoError, Failed
  <1>3. tracker.state \in AnyId /\ gors[s].spec \in Specs
    BY TrackerTypes DEF Goroutines
  <1>4. NewIds \subseteq Ids
    BY ConfigAssumption DEF NewIds, FreshIds
  <1>5. CASE gors[s].pc = "call" /\ Create(s) /\ UNCHANGED <<mr, worker, queued, delayed>>
    <2>1. CASE CreateSucceeds(s)
      <3>1. PICK i \in NewIds :
               /\ world' = [world EXCEPT ![i] = gors[s].spec]
               /\ tracker' = SetTfState(tracker, i)
        BY <2>1 DEF CreateSucceeds
      <3>2. tracker' \in Trackers /\ world' \in [Ids -> Specs \cup {Gone}]
        BY <1>3, <1>4, <3>1, TrackerTypes DEF AnyId
      <3> QED BY <1>1, <1>2, <1>5, <2>1, <3>2 DEF CreateSucceeds, Returns
    <2>2. CASE CreatePartially(s)
      <3>1. PICK i \in NewIds :
               /\ world' = [world EXCEPT ![i] = gors[s].spec]
               /\ tracker' \in {tracker, SetTfState(tracker, i)}
               /\ Returns(s, Failed)
        BY <2>2 DEF CreatePartially
      <3>2. tracker' \in Trackers /\ world' \in [Ids -> Specs \cup {Gone}]
        BY <1>3, <1>4, <3>1, TrackerTypes DEF AnyId
      <3>3. budget' \in 0..MaxFaults
        BY <2>2, HappensType DEF CreatePartially
      <3> QED BY <1>1, <1>2, <1>5, <3>1, <3>2, <3>3 DEF Returns
    <2>3. CASE CreateFails(s)
      BY <1>1, <1>2, <1>5, <2>3, TrackerTypes, HappensType DEF CreateFails, Returns, AnyId
    <2> QED BY <1>5, <2>1, <2>2, <2>3 DEF Create
  <1>6. CASE gors[s].pc = "call" /\ Update(s) /\ UNCHANGED <<mr, worker, queued, delayed>>
    <2>1. world' \in [Ids -> Specs \cup {Gone}] /\ tracker' \in Trackers
      BY <1>3, <1>6, TrackerTypes DEF Update
    <2>2. gors' \in [Slots -> Goroutines]
      BY <1>1, <1>2, <1>6 DEF Update, Returns
    <2>3. budget' \in 0..MaxFaults
      BY <1>6, HappensType DEF Update
    <2> QED BY <1>6, <2>1, <2>2, <2>3
  <1>7. CASE gors[s].pc = "call" /\ Delete(s) /\ UNCHANGED <<mr, worker, queued, delayed>>
    <2>1. SetDeleted(SetTfState(tracker, NoId), TRUE) \in Trackers
      BY TrackerTypes DEF AnyId
    <2>2. world' \in [Ids -> Specs \cup {Gone}] /\ tracker' \in Trackers
      BY <1>7, <2>1 DEF Delete
    <2>3. gors' \in [Slots -> Goroutines]
      BY <1>1, <1>2, <1>7 DEF Delete, Returns
    <2>4. budget' \in 0..MaxFaults
      BY <1>7, HappensType DEF Delete
    <2> QED BY <1>7, <2>2, <2>3, <2>4
  <1>8. CASE PublishError(s)
    <2>1. gors[s].err \in Errors
      BY DEF Goroutines
    <2>2. tracker' \in Trackers
      BY <1>8, <2>1, TrackerTypes, OperationTypes DEF PublishError
    <2>3. gors' \in [Slots -> Goroutines]
      BY <1>8, ZenonT(60) DEF PublishError, RequestsReconcile, Goroutines, GorPCs
    <2> QED BY <1>8, <2>2, <2>3 DEF PublishError
  <1>9. CASE EndOperation(s)
    <2>1. tracker' \in Trackers
      BY <1>9, TrackerTypes, OperationTypes DEF EndOperation
    <2>2. gors' \in [Slots -> Goroutines]
      BY <1>9 DEF EndOperation, Goroutines, GorPCs
    <2> QED BY <1>9, <2>1, <2>2 DEF EndOperation
  <1>10. CASE CallbackGet(s)
    <2>1. [gors EXCEPT ![s].pc = "put", ![s].fresh = TRUE] \in [Slots -> Goroutines]
      BY DEF Goroutines, GorPCs
    <2>2. [gors EXCEPT ![s] = FreeGoroutine] \in [Slots -> Goroutines]
      BY NewTypes
    <2>3. gors' \in [Slots -> Goroutines]
      BY <1>10, <2>1, <2>2 DEF CallbackGet
    <2> QED BY <1>10, <2>3, HappensType DEF CallbackGet
  <1>11. CASE CallbackPut(s)
    <2>1. gors' \in [Slots -> Goroutines]
      BY <1>11, NewTypes, StaleTypes DEF CallbackPut
    <2>2. mr' \in MRs /\ worker' \in Workers
      BY <1>11, StaleTypes DEF CallbackPut, MRs, Conditions
    <2>3. queued' \in BOOLEAN /\ delayed' \in Delays
      BY <1>11 DEF CallbackPut, Goroutines, Delays
    <2> QED BY <1>11, <2>1, <2>2, <2>3 DEF CallbackPut
  <1> QED BY <1>5, <1>6, <1>7, <1>8, <1>9, <1>10, <1>11 DEF Goroutine, ProviderCall

\* What users, the external API and a crash of the process do.
LEMMA EnvironmentType == TypeOK /\ Environment => TypeOK'
  <1> SUFFICES ASSUME TypeOK, Environment PROVE TypeOK'
    OBVIOUS
  <1> USE DEF TypeOK
  <1>1. CASE UserDeletes
    BY <1>1, NewTypes, StaleTypes DEF UserDeletes, MRs
  <1>2. CASE UserChangesSpec
    BY <1>2, StaleTypes, HappensType DEF UserChangesSpec, MRs
  <1>3. CASE UserRecreates
    BY <1>3, NewTypes, TrackerTypes, HappensType DEF UserRecreates
  <1>4. CASE ExternalDrift
    BY <1>4, HappensType DEF ExternalDrift, Live
  <1>5. CASE ExternalVanish
    BY <1>5, HappensType DEF ExternalVanish, Live
  <1>6. CASE Crash
    BY <1>6, NewTypes, TrackerTypes, HappensType DEF Crash, MRs, Delays
  <1> QED BY <1>1, <1>2, <1>3, <1>4, <1>5, <1>6 DEF Environment

\* Every step keeps the types.
LEMMA TypeNext == TypeOK /\ [Next]_vars => TypeOK'
  <1> SUFFICES ASSUME TypeOK, [Next]_vars PROVE TypeOK'
    OBVIOUS
  <1>1. CASE TimerFires
    BY <1>1 DEF TypeOK, TimerFires, Delays
  <1>2. CASE UNCHANGED vars
    BY <1>2 DEF TypeOK, vars
  <1> QED
    BY <1>1, <1>2, ReconcileType, GoroutineType, EnvironmentType DEF Next, Terminated

\* Every variable of the model keeps its type, whatever the constants are.
THEOREM TypeCorrect == Spec => []TypeOK
  BY TypeInit, TypeNext, PTL DEF Spec

--------------------------------------------------------------------------------
(* The inductive invariant *)

\* Nothing runs when the process starts, and the worker is idle.
LEMMA InitInv == Init => IInv
  <1> SUFFICES ASSUME Init PROVE IInv
    OBVIOUS
  <1>1. TypeOK
    BY TypeInit
  <1>2. /\ ~IsRunning(tracker.op)
        /\ \A s \in Slots : ~InFlight(s)
    BY DEF Init, NewAsyncTracker, NewOperation, IsRunning, InFlight, FreeGoroutine
  <1>3. FinalizerHeld
    <2>1. PICK s \in Specs : mr = NewMR(s)
      BY DEF Init
    <2>2. ~mr.deleting /\ mr.present
      BY <2>1 DEF NewMR
    <2>3. worker.pc = "idle"
      BY DEF Init, IdleWorker
    <2> QED BY <1>2, <2>2, <2>3 DEF FinalizerHeld
  <1>4. Bookkeeping
    BY <1>2 DEF Init, Bookkeeping, IdleWorker, NoObservation
  <1> QED BY <1>1, <1>2, <1>3, <1>4 DEF IInv, SingleFlight, WorkerAlone

\* A step that neither starts nor ends an operation, and what it preserves.
SameOperations ==
    /\ IsRunning(tracker.op)' <=> IsRunning(tracker.op)
    /\ \A s \in Slots : InFlight(s)' <=> InFlight(s)
    /\ \A s \in Slots : InFlight(s) => gors'[s].op = gors[s].op

\* A step that neither starts nor ends an operation keeps SingleFlight.
LEMMA SameSingleFlight ==
    ASSUME SingleFlight, SameOperations
    PROVE  SingleFlight'
  BY DEF SingleFlight, SameOperations

\* Marking copies as stale neither starts nor ends an operation.
LEMMA StaleIsSame ==
    ASSUME TypeOK,
           gors' = gors \/ gors' = StaleGoroutines,
           IsRunning(tracker.op)' <=> IsRunning(tracker.op)
    PROVE  SameOperations
  <1>1. \A s \in Slots : gors'[s].pc = gors[s].pc /\ gors'[s].op = gors[s].op
    BY DEF TypeOK, StaleGoroutines, Goroutines
  <1>2. \A s \in Slots : InFlight(s)' <=> InFlight(s)
    BY <1>1 DEF InFlight
  <1> QED BY <1>1, <1>2 DEF SameOperations

\* Whatever the tracker forgets of an operation that is not running, it runs none.
LEMMA QuietOperations ==
    /\ \A o, p : ~IsRunning(Clear(o, p))
    /\ ~IsRunning(NewAsyncTracker.op)
    /\ \A t, i : t \in Trackers => SetTfState(t, i).op = t.op
    /\ \A t, i : t \in Trackers => SetReconstructedTfState(t, i).op = t.op
    /\ \A t, d : t \in Trackers => SetDeleted(t, d).op = t.op
    /\ \A t : t \in Trackers => ResetReconstructedTfState(t).op = t.op
  BY DEF IsRunning, Clear, NewOperation, NewAsyncTracker, SetTfState, Trackers,
         SetReconstructedTfState, SetDeleted, ResetReconstructedTfState

\* The MR keeps what FinalizerHeld is about.
SameMR ==
    mr'.deleting = mr.deleting /\ mr'.finalizer = mr.finalizer /\ mr'.present = mr.present

\* A reconcile that ends while the operations and the MR stay keeps the invariant.
LEMMA IdleInv ==
    ASSUME IInv, SameOperations, SameMR, worker' = IdleWorker
    PROVE  WorkerAlone' /\ FinalizerHeld' /\ Bookkeeping'
  <1>1. worker'.pc = "idle" /\ ~worker'.obs.running
    BY DEF IdleWorker, NoObservation
  <1> QED BY <1>1 DEF IInv, WorkerAlone, FinalizerHeld, Bookkeeping, SameOperations, SameMR

\* The steps of the reconcile worker, one by one.
LEMMA ReconcileInv ==
    ASSUME IInv, Reconcile
    PROVE  SingleFlight' /\ WorkerAlone' /\ FinalizerHeld' /\ Bookkeeping'
  <1> USE DEF IInv, TypeOK
  <1>1. CASE Dequeue
    <2>1. SameOperations
      BY <1>1, StaleIsSame DEF Dequeue, SameOperations, InFlight
    <2>2. WorkerAlone' /\ FinalizerHeld' /\ Bookkeeping'
      BY <1>1, <2>1 DEF Dequeue, WorkerAlone, FinalizerHeld,
         Bookkeeping, SameOperations, Workers, MRs
    <2> QED BY <2>1, <2>2, SameSingleFlight
  <1>2. CASE GetMR
    <2>1. SameOperations
      BY <1>2, StaleIsSame DEF GetMR, Complete, SameOperations, InFlight
    <2>2. WorkerAlone' /\ FinalizerHeld' /\ Bookkeeping'
      <3>1. CASE worker' = IdleWorker
        BY <1>2, <2>1, <3>1, IdleInv DEF GetMR, SameMR
      <3>2. CASE worker' # IdleWorker
        BY <1>2, <2>1, <3>2 DEF GetMR, Complete, WorkerAlone, FinalizerHeld,
           Bookkeeping, SameOperations, Workers, MRs
      <3> QED BY <3>1, <3>2
    <2> QED BY <2>1, <2>2, SameSingleFlight
  <1>3. CASE ConnectCheckState
    <2>1. SameOperations
      BY <1>3, StaleIsSame DEF ConnectCheckState, SameOperations, InFlight
    <2>2. WorkerAlone' /\ FinalizerHeld' /\ Bookkeeping'
      BY <1>3, <2>1 DEF ConnectCheckState, WorkerAlone, FinalizerHeld,
         Bookkeeping, SameOperations, Workers, MRs
    <2> QED BY <2>1, <2>2, SameSingleFlight
  <1>4. CASE ConnectReconstruct
    <2>1. SameOperations
      BY <1>4, QuietOperations, StaleIsSame DEF ConnectReconstruct, SameOperations, InFlight
    <2>2. WorkerAlone' /\ FinalizerHeld' /\ Bookkeeping'
      BY <1>4, <2>1 DEF ConnectReconstruct, WorkerAlone, FinalizerHeld,
         Bookkeeping, SameOperations, Workers, MRs
    <2> QED BY <2>1, <2>2, SameSingleFlight
  <1>5. CASE ObserveOperation
    <2>1. IsRunning(tracker.op)' <=> IsRunning(tracker.op)
      <3>1. CASE Busy
        BY <1>5, <3>1 DEF ObserveOperation, Busy
      <3>2. CASE ~Busy
        <4>1. tracker' = [tracker EXCEPT !.op = Clear(@, TRUE)]
          BY <1>5, <3>2 DEF ObserveOperation
        <4>2. tracker'.op = Clear(tracker.op, TRUE)
          BY <4>1 DEF Trackers
        <4> QED BY <3>2, <4>2 DEF Busy, IsRunning, Clear, NewOperation
      <3> QED BY <3>1, <3>2
    <2>2. SameOperations
      BY <1>5, <2>1, StaleIsSame DEF ObserveOperation
    <2>3. /\ worker'.view.deleting = worker.view.deleting
          /\ worker'.view.finalizer = worker.view.finalizer
          /\ worker'.fresh = worker.fresh
          /\ worker'.pc \in {"decide", "read"}
          /\ ~Busy => ~worker'.obs.running
      <3>1. ~worker.obs.running
        BY <1>5 DEF ObserveOperation, Bookkeeping
      <3>2. CASE Busy
        BY <1>5, <3>2 DEF ObserveOperation, Workers
      <3>3. CASE ~Busy /\ RecoversExternalName
        <4>1. worker' = [worker EXCEPT !.pc = "decide", !.obs = RecoveredObservation,
                                       !.view.extName = tracker.state]
          BY <1>5, <3>3 DEF ObserveOperation
        <4> QED BY <4>1 DEF Workers, MRs, RecoveredObservation
      <3>4. CASE ~Busy /\ ~RecoversExternalName
        <4>1. \/ worker' = [worker EXCEPT !.pc = "decide"]
              \/ worker' = [worker EXCEPT !.pc = "read"]
          BY <1>5, <3>4 DEF ObserveOperation
        <4> QED BY <3>1, <4>1 DEF Workers
      <3> QED BY <3>2, <3>3, <3>4
    <2>4. FinalizerHeld'
      BY <1>5, <2>2, <2>3 DEF ObserveOperation, FinalizerHeld, SameOperations
    <2>5. WorkerAlone' /\ Bookkeeping'
      <3>1. CASE Busy
        <4>1. worker'.pc = "decide" /\ worker'.obs = RunningObservation
          BY <1>5, <3>1 DEF ObserveOperation, Workers
        <4> QED BY <1>5, <2>2, <4>1
              DEF WorkerAlone, Bookkeeping, RunningObservation, SameOperations
      <3>2. CASE ~Busy
        BY <2>2, <2>3, <3>2 DEF WorkerAlone, Bookkeeping, SameOperations, Busy
      <3> QED BY <3>1, <3>2
    <2> QED BY <2>2, <2>4, <2>5, SameSingleFlight
  <1>6. CASE ObserveRead
    <2>1. ~IsRunning(tracker.op) /\ ~worker.obs.running
      BY <1>6 DEF ObserveRead, WorkerAlone, Bookkeeping
    <2>2. tracker.state \in AnyId /\ SetTfState(tracker, tracker.state) \in Trackers
      BY TrackerTypes
    <2>3. ~IsRunning(tracker.op)'
      <3>1. CASE ReadFound
        BY <2>1, <2>2, <3>1, QuietOperations DEF ReadFound, Trackers
      <3>2. CASE ReadNotFound
        BY <2>1, <3>2, QuietOperations DEF ReadNotFound
      <3>3. CASE ReadError
        BY <2>1, <3>3, QuietOperations DEF ReadError
      <3> QED BY <1>6, <3>1, <3>2, <3>3 DEF ObserveRead
    <2>4. SameOperations
      BY <1>6, <2>1, <2>3, StaleIsSame DEF ObserveRead
    <2>5. /\ worker'.view.deleting = worker.view.deleting
          /\ worker'.view.finalizer = worker.view.finalizer
          /\ worker'.fresh = worker.fresh
          /\ worker'.pc \in {"decide", "finish"}
          /\ ~worker'.obs.running
      <3>1. CASE ReadFound
        BY <2>1, <3>1 DEF ReadFound, Workers, MRs
      <3>2. CASE ReadNotFound
        BY <2>1, <3>2 DEF ReadNotFound, Workers
      <3>3. CASE ReadError
        BY <2>1, <3>3 DEF ReadError, Workers
      <3> QED BY <1>6, <3>1, <3>2, <3>3 DEF ObserveRead
    <2>6. WorkerAlone' /\ FinalizerHeld' /\ Bookkeeping'
      BY <1>6, <2>3, <2>4, <2>5
      DEF ObserveRead, WorkerAlone, FinalizerHeld, Bookkeeping, SameOperations
    <2> QED BY <2>4, <2>6, SameSingleFlight
  <1>7. CASE RemoveFinalizer
    <2>1. ~IsRunning(tracker.op) /\ ~worker.obs.running
      BY <1>7 DEF RemoveFinalizer, WorkerAlone, Bookkeeping
    <2>2. ~IsRunning(tracker.op)'
      BY <1>7, QuietOperations DEF RemoveFinalizer
    <2>3. SameOperations
      BY <1>7, <2>1, <2>2, StaleIsSame DEF RemoveFinalizer
    <2>4. CASE worker' = IdleWorker /\ mr' = NoMR
      <3>1. ~NoMR.deleting /\ ~NoMR.finalizer
        BY NewTypes DEF NoMR, NewMR
      <3>2. worker'.pc = "idle" /\ ~worker'.obs.running
        BY <2>4 DEF IdleWorker, NoObservation
      <3>3. \A s \in Slots : ~InFlight(s)'
        BY <2>1, <2>3 DEF SingleFlight, SameOperations
      <3>4. WorkerAlone' /\ FinalizerHeld' /\ Bookkeeping'
        BY <2>2, <2>3, <2>4, <3>1, <3>2, <3>3
        DEF WorkerAlone, FinalizerHeld, Bookkeeping, SameOperations
      <3> QED BY <2>3, <3>4, SameSingleFlight
    <2>5. CASE Finish("soon") /\ UNCHANGED mr
      <3>1. WorkerAlone' /\ FinalizerHeld' /\ Bookkeeping'
        BY <1>7, <2>1, <2>2, <2>3, <2>5
        DEF RemoveFinalizer, Finish, WorkerAlone, FinalizerHeld, Bookkeeping,
            SameOperations, Workers
      <3> QED BY <2>3, <3>1, SameSingleFlight
    <2> QED BY <1>7, <2>4, <2>5 DEF RemoveFinalizer, Complete
  <1>8. CASE DecideDelete
    <2>1. SameOperations
      BY <1>8, StaleIsSame DEF DecideDelete, SameOperations, InFlight
    <2>2. WorkerAlone' /\ FinalizerHeld' /\ Bookkeeping'
      BY <1>8, <2>1 DEF DecideDelete, OpTypes, WorkerAlone, FinalizerHeld,
         Bookkeeping, SameOperations, Workers, MRs
    <2> QED BY <2>1, <2>2, SameSingleFlight
  <1>9. CASE AddFinalizer
    <2>1. SameOperations
      BY <1>9, StaleIsSame DEF AddFinalizer, Persist, Finish, SameOperations, InFlight
    <2>2. WorkerAlone' /\ FinalizerHeld' /\ Bookkeeping'
      BY <1>9, <2>1, ZenonT(60) DEF AddFinalizer, Persist, Finish, WorkerAlone, FinalizerHeld,
         Bookkeeping, SameOperations, Workers, MRs
    <2> QED BY <2>1, <2>2, SameSingleFlight
  <1>10. CASE DecideCreate
    <2>1. SameOperations
      BY <1>10, StaleIsSame DEF DecideCreate, PersistAndNotify, Persist, Finish, SameOperations, InFlight
    <2>2. WorkerAlone' /\ FinalizerHeld' /\ Bookkeeping'
      <3>1. CASE worker.fresh
        <4>1. /\ mr' = [mr EXCEPT !.pending = TRUE]
              /\ worker' = [[worker EXCEPT !.pc = "start", !.op = "create"] EXCEPT !.view = mr']
          BY <1>10, <3>1 DEF DecideCreate, PersistAndNotify, Persist
        <4>2. SameMR
          BY <4>1 DEF SameMR, MRs
        <4>3. /\ worker'.pc = "start" /\ worker'.view = mr' /\ worker'.obs.running = worker.obs.running
              /\ worker.obs.running => worker'.obs.exists /\ worker'.obs.upToDate /\ ~worker'.obs.lateInit
              /\ worker'.pc = "start" => worker'.op = "create"
          BY <1>10, <4>1 DEF DecideCreate, Bookkeeping, Workers, Observations
        <4>4. mr.finalizer /\ mr.present
          BY <1>10 DEF DecideCreate, FinalizerHeld
        <4> QED BY <1>10, <2>1, <4>2, <4>3, <4>4
              DEF DecideCreate, WorkerAlone, FinalizerHeld, Bookkeeping, SameOperations, SameMR, OpTypes
      <3>2. CASE ~worker.fresh
        BY <1>10, <2>1, <3>2 DEF DecideCreate, PersistAndNotify, Persist, Finish,
           WorkerAlone, FinalizerHeld, Bookkeeping, SameOperations, Workers, MRs
      <3> QED BY <3>1, <3>2
    <2> QED BY <2>1, <2>2, SameSingleFlight
  <1>11. CASE PersistExternalName
    <2>1. SameOperations
      BY <1>11, StaleIsSame DEF PersistExternalName, PersistAndNotify, Persist, Finish, SameOperations, InFlight
    <2>2. WorkerAlone' /\ FinalizerHeld' /\ Bookkeeping'
      <3>1. CASE worker.fresh
        <4>1. /\ mr' = [mr EXCEPT !.extName = worker.view.extName]
              /\ worker' = [[worker EXCEPT !.obs.lateInit = FALSE] EXCEPT !.view = mr']
          BY <1>11, <3>1 DEF PersistExternalName, PersistAndNotify, Persist
        <4>2. SameMR
          BY <4>1 DEF SameMR, MRs
        <4>3. /\ worker'.pc = "decide" /\ worker'.view = mr' /\ worker'.obs.running = worker.obs.running
              /\ worker.obs.running => worker'.obs.exists /\ worker'.obs.upToDate /\ ~worker'.obs.lateInit
              /\ worker'.pc = "start" => worker'.op = "create"
          BY <1>11, <4>1 DEF PersistExternalName, Bookkeeping, Workers, Observations
        <4>4. mr.finalizer /\ mr.present
          BY <1>11 DEF PersistExternalName, FinalizerHeld
        <4> QED BY <1>11, <2>1, <4>2, <4>3, <4>4
              DEF PersistExternalName, WorkerAlone, FinalizerHeld, Bookkeeping, SameOperations, SameMR, OpTypes
      <3>2. CASE ~worker.fresh
        BY <1>11, <2>1, <3>2 DEF PersistExternalName, PersistAndNotify, Persist, Finish,
           WorkerAlone, FinalizerHeld, Bookkeeping, SameOperations, Workers, MRs
      <3> QED BY <3>1, <3>2
    <2> QED BY <2>1, <2>2, SameSingleFlight
  <1>12. CASE DecideUpToDateOrUpdate
    <2>1. SameOperations
      BY <1>12, StaleIsSame DEF DecideUpToDateOrUpdate, Finish, SameOperations, InFlight
    <2>2. WorkerAlone' /\ FinalizerHeld' /\ Bookkeeping'
      BY <1>12, <2>1, ZenonT(60) DEF DecideUpToDateOrUpdate, Finish, OpTypes, WorkerAlone, FinalizerHeld,
         Bookkeeping, SameOperations, Workers, MRs
    <2> QED BY <2>1, <2>2, SameSingleFlight
  <1>13. CASE StartOperation
    <2>1. CASE Finish("soon") /\ UNCHANGED <<tracker, gors>>
      <3>1. SameOperations
        BY <2>1, StaleIsSame
      <3>2. WorkerAlone' /\ FinalizerHeld' /\ Bookkeeping'
        BY <1>13, <2>1, <3>1
        DEF StartOperation, Finish, WorkerAlone, FinalizerHeld, Bookkeeping,
            SameOperations, Workers
      <3> QED BY <3>1, <3>2, SameSingleFlight
    <2>2. CASE ~(Finish("soon") /\ UNCHANGED <<tracker, gors>>)
      <3>1. /\ CanStart(tracker.op)
            /\ tracker' = [tracker EXCEPT !.op = MarkStart(@, worker.op)]
            /\ worker' = [worker EXCEPT !.pc = "return"]
        BY <1>13, <2>2 DEF StartOperation
      <3>2. PICK s \in Slots :
              /\ gors[s].pc = "free"
              /\ gors' = [gors EXCEPT ![s] = [FreeGoroutine EXCEPT
                             !.pc = "call", !.op = worker.op, !.spec = worker.view.spec]]
        BY <1>13, <2>2 DEF StartOperation
      <3>3. \A t \in Slots : ~InFlight(t)
        BY <3>1 DEF SingleFlight, CanStart
      <3>4. /\ InFlight(s)'
            /\ gors'[s].op = worker.op
            /\ \A t \in Slots \ {s} : ~InFlight(t)'
        BY <3>2, <3>3 DEF InFlight, FreeGoroutine
      <3>5. tracker'.op = MarkStart(tracker.op, worker.op)
        BY <3>1 DEF Trackers
      <3>6. IsRunning(tracker.op)'
        BY <3>5, TrackerTypes DEF MarkStart, IsRunning, Operations
      <3>7. SingleFlight'
        BY <3>4, <3>6 DEF SingleFlight
      <3>8. WorkerAlone' /\ FinalizerHeld' /\ Bookkeeping'
        BY <1>13, <3>1, <3>4
        DEF StartOperation, WorkerAlone, FinalizerHeld, Bookkeeping, Workers
      <3> QED BY <3>7, <3>8
    <2> QED BY <2>1, <2>2
  <1>14. CASE ReturnFromStart
    <2>1. SameOperations
      BY <1>14, StaleIsSame DEF ReturnFromStart, Finish, SameOperations, InFlight
    <2>2. WorkerAlone' /\ FinalizerHeld' /\ Bookkeeping'
      <3>1. CASE worker.op = "create"
        <4>1. /\ mr' = [mr EXCEPT !.pending = FALSE]
              /\ worker' = [worker EXCEPT !.pc = "finish", !.result = "soon",
                                          !.view = mr', !.fresh = TRUE]
          BY <1>14, <3>1 DEF ReturnFromStart
        <4>2. SameMR
          BY <4>1 DEF SameMR, MRs
        <4>3. worker'.pc = "finish" /\ worker'.view = mr' /\ worker'.obs = worker.obs
          BY <4>1 DEF Workers
        <4>4. mr.finalizer
          BY <1>14 DEF ReturnFromStart, FinalizerHeld
        <4> QED BY <2>1, <4>2, <4>3, <4>4
              DEF WorkerAlone, FinalizerHeld, Bookkeeping, SameOperations, SameMR
      <3>2. CASE worker.op # "create"
        BY <1>14, <2>1, <3>2 DEF ReturnFromStart, Finish, WorkerAlone, FinalizerHeld,
           Bookkeeping, SameOperations, Workers, MRs
      <3> QED BY <3>1, <3>2
    <2> QED BY <2>1, <2>2, SameSingleFlight
  <1>15. CASE FinishReconcile
    <2>1. SameOperations
      BY <1>15, StaleIsSame DEF FinishReconcile, Complete, SameOperations, InFlight
    <2>2. WorkerAlone' /\ FinalizerHeld' /\ Bookkeeping'
      BY <1>15, <2>1, IdleInv DEF FinishReconcile, Complete, SameMR, MRs
    <2> QED BY <2>1, <2>2, SameSingleFlight
  <1> QED BY <1>1, <1>2, <1>3, <1>4, <1>5, <1>6, <1>7, <1>8, <1>9, <1>10, <1>11, <1>12, <1>13, <1>14, <1>15 DEF Reconcile

\* A provider call changes the state the tracker caches, not its operation.
LEMMA ProviderCallReturns ==
    ASSUME IInv, NEW s \in Slots, ProviderCall(s)
    PROVE  /\ tracker'.op = tracker.op
           /\ \E e \in Errors : Returns(s, e)
           /\ gors[s].pc = "call"
  <1> USE DEF IInv, TypeOK
  <1>1. CASE Create(s)
    <2>1. CASE CreateSucceeds(s)
      BY <2>1, QuietOperations DEF ProviderCall, CreateSucceeds, Errors
    <2>2. CASE CreatePartially(s)
      BY <2>2, QuietOperations DEF ProviderCall, CreatePartially, Errors
    <2>3. CASE CreateFails(s)
      BY <2>3, QuietOperations DEF ProviderCall, CreateFails, Errors
    <2> QED BY <1>1, <2>1, <2>2, <2>3 DEF Create, ProviderCall
  <1>2. CASE Update(s)
    BY <1>2, QuietOperations DEF ProviderCall, Update, Errors
  <1>3. CASE Delete(s)
    <2>1. tracker' \in {tracker, SetDeleted(SetTfState(tracker, NoId), TRUE)}
      BY <1>3 DEF Delete
    <2>2. tracker'.op = tracker.op
      BY <2>1 DEF SetDeleted, SetTfState, Trackers
    <2> QED BY <1>3, <2>2 DEF ProviderCall, Delete, Errors
  <1> QED BY <1>1, <1>2, <1>3 DEF ProviderCall

\* The steps of a goroutine, one by one.
LEMMA GoroutineInv ==
    ASSUME IInv, NEW s \in Slots, Goroutine(s)
    PROVE  SingleFlight' /\ WorkerAlone' /\ FinalizerHeld' /\ Bookkeeping'
  <1> USE DEF IInv, TypeOK
  \* A provider call changes the state the tracker caches, not its operation.
  <1>1. CASE ProviderCall(s)
    <2>1. /\ tracker'.op = tracker.op
          /\ \E e \in Errors : Returns(s, e)
          /\ gors[s].pc = "call"
      BY <1>1, ProviderCallReturns
    <2>2. /\ gors'[s].pc = "store" /\ gors'[s].op = gors[s].op
          /\ \A t \in Slots \ {s} : gors'[t] = gors[t]
      BY <2>1 DEF Returns, Goroutines
    <2>3. SameOperations
      BY <2>1, <2>2 DEF SameOperations, InFlight, IsRunning
    <2>4. WorkerAlone' /\ FinalizerHeld' /\ Bookkeeping'
      BY <1>1, <2>3
      DEF ProviderCall, WorkerAlone, FinalizerHeld, Bookkeeping, SameOperations
    <2> QED BY <2>3, <2>4, SameSingleFlight
  <1>2. CASE PublishError(s)
    <2>1. IsRunning(tracker.op)' <=> IsRunning(tracker.op)
      BY <1>2 DEF PublishError, SetError, IsRunning, Trackers, Operations
    <2>2. SameOperations
      BY <1>2, <2>1 DEF PublishError, SameOperations, InFlight, Goroutines
    <2>3. WorkerAlone' /\ FinalizerHeld' /\ Bookkeeping'
      BY <1>2, <2>2
      DEF PublishError, WorkerAlone, FinalizerHeld, Bookkeeping, SameOperations
    <2> QED BY <2>2, <2>3, SameSingleFlight
  <1>3. CASE EndOperation(s)
    <2>1. \A t \in Slots : InFlight(t) => t = s
      BY <1>3 DEF EndOperation, InFlight, SingleFlight
    <2>2. \A t \in Slots : ~InFlight(t)'
      BY <1>3, <2>1 DEF EndOperation, InFlight, Goroutines
    <2>3. ~IsRunning(tracker.op)'
      BY <1>3 DEF EndOperation, MarkEnd, IsRunning, Trackers, Operations
    <2> QED BY <1>3, <2>2, <2>3
          DEF EndOperation, SingleFlight, WorkerAlone, FinalizerHeld, Bookkeeping
  <1>4. CASE CallbackGet(s)
    <2>1. SameOperations
      <3>1. /\ gors[s].pc = "get" /\ gors'[s].pc \in {"put", "free"}
            /\ \A t \in Slots \ {s} : gors'[t] = gors[t]
        <4>1. CASE gors' = [gors EXCEPT ![s].pc = "put", ![s].fresh = TRUE]
          BY <1>4, <4>1, ZenonT(60) DEF CallbackGet, Goroutines
        <4>2. CASE gors' = [gors EXCEPT ![s] = FreeGoroutine]
          BY <1>4, <4>2 DEF CallbackGet, FreeGoroutine
        <4> QED BY <1>4, <4>1, <4>2 DEF CallbackGet
      <3> QED BY <1>4, <3>1 DEF CallbackGet, SameOperations, InFlight, IsRunning
    <2>2. WorkerAlone' /\ FinalizerHeld' /\ Bookkeeping'
      BY <1>4, <2>1
      DEF CallbackGet, WorkerAlone, FinalizerHeld, Bookkeeping, SameOperations
    <2> QED BY <2>1, <2>2, SameSingleFlight
  <1>5. CASE CallbackPut(s)
    <2>1. /\ gors[s].pc = "put" /\ gors'[s].pc = "free"
          /\ \A t \in Slots \ {s} : gors'[t].pc = gors[t].pc /\ gors'[t].op = gors[t].op
      <3>1. gors[s].pc = "put"
        BY <1>5 DEF CallbackPut
      <3>2. CASE gors' = [gors EXCEPT ![s] = FreeGoroutine]
        BY <3>1, <3>2 DEF FreeGoroutine
      <3>3. CASE gors' = [StaleGoroutines EXCEPT ![s] = FreeGoroutine]
        BY <3>1, <3>3 DEF StaleGoroutines, FreeGoroutine, Goroutines
      <3> QED BY <1>5, <3>1, <3>2, <3>3 DEF CallbackPut
    <2>2. SameOperations
      BY <1>5, <2>1 DEF CallbackPut, SameOperations, InFlight, IsRunning
    <2>3. SameMR
      BY <1>5 DEF CallbackPut, SameMR, MRs
    <2>4. /\ worker'.pc = worker.pc /\ worker'.view = worker.view /\ worker'.obs = worker.obs
          /\ worker'.op = worker.op /\ (worker'.fresh => worker.fresh)
      BY <1>5 DEF CallbackPut, StaleWorker, Workers
    <2>5. WorkerAlone' /\ FinalizerHeld' /\ Bookkeeping'
      BY <2>2, <2>3, <2>4
      DEF WorkerAlone, FinalizerHeld, Bookkeeping, SameOperations, SameMR
    <2> QED BY <2>2, <2>5, SameSingleFlight
  <1> QED BY <1>1, <1>2, <1>3, <1>4, <1>5 DEF Goroutine

\* The steps of the environment, one by one.
LEMMA EnvironmentInv ==
    ASSUME IInv, Environment
    PROVE  SingleFlight' /\ WorkerAlone' /\ FinalizerHeld' /\ Bookkeeping'
  <1> USE DEF IInv, TypeOK
  <1>1. CASE UserDeletes
    <2>1. SameOperations
      BY <1>1, StaleIsSame DEF UserDeletes, IsRunning
    <2>2. /\ worker'.pc = worker.pc /\ worker'.view = worker.view /\ worker'.obs = worker.obs
          /\ worker'.op = worker.op /\ ~worker'.fresh
      BY <1>1 DEF UserDeletes, StaleWorker, Workers
    <2>3. /\ mr'.finalizer = mr.finalizer
          /\ mr'.deleting => mr'.finalizer
          /\ mr'.finalizer => mr'.present
      BY <1>1, NewTypes DEF UserDeletes, FinalizerHeld, MRs, NoMR, NewMR
    <2>4. WorkerAlone' /\ FinalizerHeld' /\ Bookkeeping'
      BY <2>1, <2>2, <2>3
      DEF WorkerAlone, FinalizerHeld, Bookkeeping, SameOperations
    <2> QED BY <2>1, <2>4, SameSingleFlight
  <1>2. CASE UserChangesSpec
    <2>1. SameOperations
      BY <1>2, StaleIsSame DEF UserChangesSpec, IsRunning
    <2>2. /\ worker'.pc = worker.pc /\ worker'.view = worker.view /\ worker'.obs = worker.obs
          /\ worker'.op = worker.op /\ ~worker'.fresh
      BY <1>2 DEF UserChangesSpec, StaleWorker, Workers
    <2>3. SameMR
      BY <1>2 DEF UserChangesSpec, SameMR, MRs
    <2>4. WorkerAlone' /\ FinalizerHeld' /\ Bookkeeping'
      BY <2>1, <2>2, <2>3
      DEF WorkerAlone, FinalizerHeld, Bookkeeping, SameOperations, SameMR
    <2> QED BY <2>1, <2>4, SameSingleFlight
  \* No operation runs without the finalizer, hence none runs without the MR.
  <1>3. CASE UserRecreates
    <2>1. ~IsRunning(tracker.op) /\ ~mr.finalizer
      BY <1>3 DEF UserRecreates, FinalizerHeld, SingleFlight
    <2>2. ~IsRunning(tracker.op)'
      BY <1>3, QuietOperations DEF UserRecreates
    <2>3. SameOperations
      BY <1>3, <2>1, <2>2, StaleIsSame DEF UserRecreates
    <2>4. ~mr'.deleting /\ ~mr'.finalizer
      BY <1>3 DEF UserRecreates, NewMR
    <2>5. WorkerAlone' /\ FinalizerHeld' /\ Bookkeeping'
      BY <1>3, <2>2, <2>3, <2>4
      DEF UserRecreates, WorkerAlone, FinalizerHeld, Bookkeeping, SameOperations
    <2> QED BY <2>3, <2>5, SameSingleFlight
  <1>4. CASE ExternalDrift \/ ExternalVanish
    <2>1. UNCHANGED <<mr, tracker, worker, gors>>
      BY <1>4 DEF ExternalDrift, ExternalVanish
    <2> QED BY <2>1
          DEF SingleFlight, WorkerAlone, FinalizerHeld, Bookkeeping, InFlight, IsRunning
  <1>5. CASE Crash
    <2>1. ~IsRunning(tracker.op)'
      BY <1>5, QuietOperations DEF Crash
    <2>2. \A s \in Slots : ~InFlight(s)'
      BY <1>5 DEF Crash, InFlight, FreeGoroutine
    <2>3. worker'.pc = "idle" /\ ~worker'.obs.running /\ mr' = mr
      BY <1>5 DEF Crash, IdleWorker, NoObservation
    <2> QED BY <2>1, <2>2, <2>3
          DEF SingleFlight, WorkerAlone, FinalizerHeld, Bookkeeping
  <1> QED BY <1>1, <1>2, <1>3, <1>4, <1>5 DEF Environment

\* The invariant is inductive.
LEMMA NextInv == IInv /\ [Next]_vars => IInv'
  <1> SUFFICES ASSUME IInv, [Next]_vars PROVE IInv'
    OBVIOUS
  <1>1. TypeOK'
    BY TypeNext DEF IInv
  <1>2. CASE UNCHANGED <<mr, tracker, worker, gors>>
    BY <1>1, <1>2
    DEF IInv, SingleFlight, WorkerAlone, FinalizerHeld, Bookkeeping, InFlight, IsRunning
  <1> QED
    BY <1>1, <1>2, ReconcileInv, GoroutineInv, EnvironmentInv
    DEF IInv, Next, TimerFires, Terminated, vars

\* The inductive invariant holds in every reachable state: what the worker of a
\* reconcile, the goroutines of Create, Update and Delete and the tracker they share know
\* of one another.
THEOREM Inductive == Spec => []IInv
  BY InitInv, NextInv, PTL DEF Spec

\* Whatever the schedule, at most one goroutine works on an operation of the MR, and
\* the tracker says so exactly then: MarkStart in Create, Update and Delete is enough.
THEOREM OneOperationAtATime == Spec => []SingleFlight
  <1>1. IInv => SingleFlight
    BY DEF IInv
  <1> QED BY <1>1, Inductive, PTL

\* What a reconcile decides from is not changed by an operation before it acts.
THEOREM ReconcileUndisturbed == Spec => []WorkerExclusive
  <1>1. IInv => WorkerExclusive
    BY DEF IInv, SingleFlight, WorkerAlone, WorkerExclusive
  <1> QED BY <1>1, Inductive, PTL

\* An operation never runs without the finalizer that makes a deletion wait for it.
THEOREM OperationsAreGuarded == Spec => []FinalizerHeld
  <1>1. IInv => FinalizerHeld
    BY DEF IInv
  <1> QED BY <1>1, Inductive, PTL

--------------------------------------------------------------------------------
(* The outcome of an operation that succeeded is observed promptly.  The invariant  *)
(* follows who will see to it: the callback, the queue, or a worker that has not    *)
(* looked at the tracker yet.                                                      *)

Due == queued \/ delayed = "soon"

Wakes(s) == gors[s].pc \in {"get", "put"} /\ gors[s].wake /\ gors[s].err = NoError

BeforeObserve == {"get", "connect", "reconstruct", "observe"}

SuccessAwaited ==
    mr.present /\ IsEnded(tracker.op) /\ tracker.op.err = NoError =>
        Due \/ worker.pc \in BeforeObserve \/ \E s \in Slots : Wakes(s)

\* A creation that cannot be accounted for stops the reconciles: it has no operation.
PendingInv ==
    /\ mr.pending => \/ worker.pc \in {"start", "return"} /\ worker.op = "create"
                     \/ worker.pc \in {"idle", "get"} /\ tracker.op = NewOperation
    /\ worker.pc = "start" /\ worker.op = "create" => ~worker.obs.running

OutcomePublished ==
    \A s \in Slots : gors[s].pc = "end" => /\ tracker.op.err = gors[s].err
                                           /\ gors[s].err = NoError => gors[s].wake

PInv == SuccessAwaited /\ PendingInv /\ OutcomePublished

SameGoroutines ==
    \A s \in Slots : /\ gors'[s].pc = gors[s].pc /\ gors'[s].wake = gors[s].wake
                     /\ gors'[s].err = gors[s].err

\* Marking copies as stale changes nothing of what a goroutine will do.
LEMMA StaleGoroutinesSame ==
    ASSUME TypeOK, gors' = StaleGoroutines \/ gors' = gors
    PROVE  SameGoroutines
  BY DEF TypeOK, StaleGoroutines, SameGoroutines, Goroutines

\* What is due stays due when a reconcile completes.
LEMMA CompleteKeepsDue ==
    ASSUME NEW result \in Delays, Complete(result)
    PROVE  /\ worker'.pc = "idle" /\ worker'.op = ""
           /\ delayed = "soon" \/ result = "soon" => delayed' = "soon"
  BY DEF Complete, Sooner, IdleWorker

\* A step of the worker that starts no operation.
LEMMA WorkerStepKeepsPrompt ==
    ASSUME IInv, PInv, SameGoroutines, mr'.present => mr.present,
           tracker'.op = tracker.op \/ (~IsRunning(tracker.op) /\ ~IsEnded(tracker'.op)),
           Due => Due' \/ worker'.pc = "get",
           worker.pc \in BeforeObserve =>
               \/ Due' \/ worker'.pc \in BeforeObserve
               \/ ~mr'.present \/ ~IsEnded(tracker'.op),
           PendingInv'
    PROVE  PInv'
  <1>1. SuccessAwaited'
    BY DEF PInv, SuccessAwaited, SameGoroutines, Wakes, BeforeObserve
  <1>2. OutcomePublished'
    BY DEF PInv, OutcomePublished, SameGoroutines, IInv, SingleFlight, InFlight
  <1> QED
    BY <1>1, <1>2 DEF PInv

\* A new operation, a cleared one and a running one have not ended.
LEMMA NotEnded ==
    /\ ~IsEnded(NewOperation) /\ ~IsRunning(NewOperation)
    /\ \A o \in Operations : IsRunning(o) => ~IsEnded(o) /\ o # NewOperation
  <1>1. ~IsEnded(NewOperation) /\ ~IsRunning(NewOperation)
    BY DEF IsEnded, IsRunning, NewOperation
  <1>2. \A o \in Operations : IsRunning(o) => ~IsEnded(o)
    BY DEF IsEnded, IsRunning
  <1> QED
    BY <1>1, <1>2

\* Clear leaves an operation that has not ended.
LEMMA ClearNotEnded ==
    ASSUME NEW o, NEW p \in BOOLEAN
    PROVE  ~IsEnded(Clear(o, p))
  BY DEF IsEnded, Clear, NewOperation

\* The steps of the reconcile worker: it looks at the tracker, is due, or has the MR go.
LEMMA ReconcileKeepsPrompt ==
    ASSUME IInv, PInv, Reconcile
    PROVE  PInv'
  <1> USE DEF IInv, TypeOK
  <1>0. /\ TypeOK /\ PendingInv
        /\ ~IsEnded(NewOperation)
    BY NotEnded DEF PInv
  <1>1. CASE Dequeue
    <2>1. PendingInv'
      BY <1>0, <1>1 DEF Dequeue, PendingInv, Workers
    <2> QED
      BY <1>0, <1>1, <2>1, StaleGoroutinesSame, WorkerStepKeepsPrompt DEF Dequeue, Due, Workers, BeforeObserve
  <1>2. CASE GetMR
    <2>1. CASE mr.present /\ ~mr.pending /\ UNCHANGED <<delayed, budget>>
               /\ worker' = [worker EXCEPT !.pc = "connect", !.view = mr, !.fresh = TRUE]
      <3>1. PendingInv'
        BY <1>2, <2>1 DEF GetMR, PendingInv, Workers
      <3> QED
        BY <1>0, <1>2, <2>1, <3>1, StaleGoroutinesSame, WorkerStepKeepsPrompt DEF GetMR, Due, Workers, BeforeObserve
    <2>2. CASE (Complete("none") /\ (~mr.present \/ mr.pending)) \/ Complete("soon")
      <3>1. /\ worker'.pc = "idle" /\ worker'.op = ""
            /\ delayed = "soon" => delayed' = "soon"
            /\ ~mr.present \/ mr.pending \/ delayed' = "soon"
        BY <2>2, CompleteKeepsDue DEF Delays
      <3>2. PendingInv'
        BY <1>0, <1>2, <3>1 DEF GetMR, PendingInv
      <3>3. ~mr.present \/ ~IsEnded(tracker.op) \/ delayed' = "soon"
        BY <1>0, <1>2, <3>1 DEF GetMR, PendingInv
      <3>4. UNCHANGED <<mr, tracker, gors, queued>>
        BY <1>2 DEF GetMR
      <3> QED
        BY <1>0, <3>1, <3>2, <3>3, <3>4, StaleGoroutinesSame, WorkerStepKeepsPrompt DEF Due
    <2> QED
      BY <1>2, <2>1, <2>2 DEF GetMR
  <1>3. CASE ConnectCheckState \/ ConnectReconstruct
    <2>1. /\ worker'.pc \in {"observe", "reconstruct"} /\ tracker'.op = tracker.op
          /\ UNCHANGED <<mr, gors, queued, delayed>>
          /\ worker.pc \in {"connect", "reconstruct"}
      BY <1>3 DEF ConnectCheckState, ConnectReconstruct, Workers, SetReconstructedTfState, Trackers
    <2>2. PendingInv'
      BY <1>0, <2>1 DEF PendingInv
    <2> QED
      BY <1>0, <2>1, <2>2, StaleGoroutinesSame, WorkerStepKeepsPrompt DEF Due, BeforeObserve
  <1>4. CASE ObserveOperation
    <2>1. /\ worker'.pc \in {"decide", "read"} /\ worker.pc = "observe"
          /\ UNCHANGED <<mr, gors, queued, delayed>>
      BY <1>4 DEF ObserveOperation, Workers
    <2>2. \/ tracker' = tracker /\ IsRunning(tracker.op)
          \/ tracker'.op = Clear(tracker.op, TRUE) /\ ~IsRunning(tracker.op)
      BY <1>4 DEF ObserveOperation, Busy, Trackers
    <2>3. ~IsEnded(tracker'.op)
      BY <2>2, ClearNotEnded DEF IsRunning, IsEnded
    <2>4. PendingInv'
      BY <1>0, <2>1 DEF PendingInv
    <2> QED
      BY <1>0, <2>1, <2>2, <2>3, <2>4, StaleGoroutinesSame, WorkerStepKeepsPrompt DEF Due
  <1>5. CASE ObserveRead
    <2>1. /\ worker'.pc \in {"decide", "finish"} /\ worker.pc = "read"
          /\ UNCHANGED <<mr, gors, queued, delayed>>
      BY <1>5 DEF ObserveRead, ReadFound, ReadNotFound, ReadError, Workers
    <2>2. tracker'.op = tracker.op \/ tracker'.op = Clear(tracker.op, FALSE)
      BY <1>5 DEF ObserveRead, ReadFound, ReadNotFound, ReadError, SetTfState, ResetReconstructedTfState,
                  Trackers
    <2>3. ~IsRunning(tracker.op)
      BY <2>1 DEF WorkerAlone, Bookkeeping
    <2>4. PendingInv'
      BY <1>0, <2>1 DEF PendingInv
    <2>5. tracker'.op = tracker.op \/ ~IsEnded(tracker'.op)
      BY <2>2, ClearNotEnded
    <2> QED
      BY <1>0, <2>1, <2>3, <2>4, <2>5, StaleGoroutinesSame, WorkerStepKeepsPrompt DEF Due, BeforeObserve
  <1>6. CASE RemoveFinalizer
    <2>1. /\ worker.pc = "decide" /\ ~IsRunning(tracker.op) /\ tracker'.op = NewOperation
          /\ UNCHANGED queued /\ (gors' = gors \/ gors' = StaleGoroutines)
      BY <1>6 DEF RemoveFinalizer, WorkerAlone, Bookkeeping, NewAsyncTracker
    <2>2. /\ worker'.pc \in {"idle", "finish"} /\ (delayed = "soon" => delayed' = "soon")
          /\ (mr' = NoMR \/ mr' = mr)
      <3>1. CASE Complete("none") /\ mr' = NoMR
        BY <3>1, CompleteKeepsDue DEF Delays
      <3>2. CASE Finish("soon") /\ UNCHANGED <<mr, delayed>>
        BY <3>2 DEF Finish, Workers
      <3> QED
        BY <1>6, <3>1, <3>2 DEF RemoveFinalizer
    <2>3. ~NoMR.present /\ ~NoMR.pending
      BY NewTypes DEF NoMR, NewMR
    <2>4. PendingInv'
      BY <1>0, <2>1, <2>2, <2>3 DEF PendingInv
    <2> QED
      BY <1>0, <2>1, <2>2, <2>3, <2>4, StaleGoroutinesSame, WorkerStepKeepsPrompt DEF Due, BeforeObserve
  <1>7. CASE DecideDelete \/ DecideUpToDateOrUpdate
    <2>1. /\ worker.pc = "decide" /\ worker'.pc \in {"start", "finish"}
          /\ worker'.pc = "start" => worker'.op \in {"delete", "update"}
          /\ UNCHANGED <<mr, tracker, gors, queued, delayed>>
      BY <1>7 DEF DecideDelete, DecideUpToDateOrUpdate, Finish, Workers
    <2>2. PendingInv'
      BY <1>0, <2>1 DEF PendingInv
    <2> QED
      BY <1>0, <2>1, <2>2, StaleGoroutinesSame, WorkerStepKeepsPrompt DEF Due, BeforeObserve
  <1>8. CASE AddFinalizer \/ PersistExternalName
    <2>1. /\ worker.pc = "decide" /\ worker'.pc \in {"decide", "finish"}
          /\ mr'.pending = mr.pending /\ mr'.present = mr.present
          /\ gors' = gors \/ gors' = StaleGoroutines
          /\ UNCHANGED <<tracker, delayed>> /\ (queued => queued')
      BY <1>8 DEF AddFinalizer, PersistExternalName, PersistAndNotify, Persist, Finish, Workers, MRs
    <2>2. PendingInv'
      BY <1>0, <2>1 DEF PendingInv
    <2> QED
      BY <1>0, <2>1, <2>2, StaleGoroutinesSame, WorkerStepKeepsPrompt DEF Due, BeforeObserve
  <1>9. CASE DecideCreate
    <2>1. /\ worker.pc = "decide" /\ mr'.present = mr.present
          /\ gors' = gors \/ gors' = StaleGoroutines
          /\ UNCHANGED <<tracker, delayed>> /\ (queued => queued')
          /\ \/ worker'.pc = "start" /\ worker'.op = "create" /\ worker'.obs = worker.obs
             \/ worker'.pc = "finish" /\ mr' = mr
      BY <1>9 DEF DecideCreate, PersistAndNotify, Persist, Finish, Workers, MRs
    <2>2. ~worker.obs.running
      BY <1>9 DEF DecideCreate, Bookkeeping
    <2>3. PendingInv'
      BY <1>0, <2>1, <2>2 DEF PendingInv
    <2> QED
      BY <1>0, <2>1, <2>3, StaleGoroutinesSame, WorkerStepKeepsPrompt DEF Due, BeforeObserve
  <1>10. CASE StartOperation
    <2>1. CASE Finish("soon") /\ UNCHANGED <<tracker, gors>>
      <3>1. worker.pc = "start" /\ worker'.pc = "finish" /\ UNCHANGED <<mr, queued, delayed>>
        BY <1>10, <2>1 DEF StartOperation, Finish, Workers
      <3>2. ~mr.pending
        <4>1. worker.op = "create" => CanStart(tracker.op)
          BY <1>0, <3>1 DEF PendingInv, WorkerAlone, CanStart
        <4> QED
          BY <1>0, <1>10, <2>1, <3>1, <4>1 DEF StartOperation, PendingInv, Finish, Workers
      <3>3. PendingInv'
        BY <3>1, <3>2 DEF PendingInv
      <3> QED
        BY <1>0, <2>1, <3>1, <3>3, StaleGoroutinesSame, WorkerStepKeepsPrompt DEF Due, BeforeObserve
    <2>2. CASE ~(Finish("soon") /\ UNCHANGED <<tracker, gors>>)
      <3>1. /\ worker.pc = "start" /\ CanStart(tracker.op)
            /\ tracker' = [tracker EXCEPT !.op = MarkStart(@, worker.op)]
            /\ worker' = [worker EXCEPT !.pc = "return"]
            /\ UNCHANGED <<mr, queued, delayed>>
        BY <1>10, <2>2 DEF StartOperation
      <3>2. PICK s \in Slots :
              gors' = [gors EXCEPT ![s] = [FreeGoroutine EXCEPT
                          !.pc = "call", !.op = worker.op, !.spec = worker.view.spec]]
        BY <1>10, <2>2 DEF StartOperation
      <3>3. tracker'.op = MarkStart(tracker.op, worker.op) /\ worker'.pc = "return"
            /\ worker'.op = worker.op
        BY <3>1 DEF Trackers, Workers
      <3>4. ~IsEnded(tracker'.op)
        BY <3>3, TrackerTypes DEF MarkStart, IsEnded, Operations
      <3>5. \A t \in Slots : gors'[t].pc # "end"
        BY <3>1, <3>2 DEF FreeGoroutine, SingleFlight, CanStart, InFlight
      <3>6. PendingInv'
        BY <1>0, <3>1, <3>3 DEF PendingInv
      <3> QED
        BY <3>4, <3>5, <3>6 DEF PInv, SuccessAwaited, OutcomePublished
    <2> QED
      BY <2>1, <2>2
  <1>11. CASE ReturnFromStart
    <2>1. /\ worker.pc = "return" /\ worker'.pc = "finish" /\ mr'.present = mr.present
          /\ gors' = gors \/ gors' = StaleGoroutines
          /\ UNCHANGED <<tracker, delayed>> /\ (queued => queued')
          /\ IF worker.op = "create" THEN ~mr'.pending ELSE mr' = mr
      BY <1>11 DEF ReturnFromStart, Finish, Workers, MRs
    <2>2. PendingInv'
      BY <1>0, <2>1 DEF PendingInv
    <2> QED
      BY <1>0, <2>1, <2>2, StaleGoroutinesSame, WorkerStepKeepsPrompt DEF Due, BeforeObserve
  <1>12. CASE FinishReconcile
    <2>1. /\ worker.pc = "finish" /\ mr'.present = mr.present /\ mr'.pending = mr.pending
          /\ gors' = gors \/ gors' = StaleGoroutines
          /\ UNCHANGED <<tracker, queued>>
          /\ \E result \in Delays : Complete(result)
      BY <1>12 DEF FinishReconcile, MRs, Workers, Delays
    <2>2. worker'.pc = "idle" /\ (delayed = "soon" => delayed' = "soon")
      BY <2>1, CompleteKeepsDue
    <2>3. PendingInv'
      BY <1>0, <2>1, <2>2 DEF PendingInv
    <2> QED
      BY <1>0, <2>1, <2>2, <2>3, StaleGoroutinesSame, WorkerStepKeepsPrompt DEF Due, BeforeObserve
  <1> QED
    BY <1>1, <1>2, <1>3, <1>4, <1>5, <1>6, <1>7, <1>8, <1>9, <1>10, <1>11, <1>12 DEF Reconcile

\* A step of a goroutine: other goroutines go on as before.
LEMMA GoroutineKeepsPrompt ==
    ASSUME "apiFails" \notin Faults, IInv, PInv, NEW s \in Slots, Goroutine(s)
    PROVE  PInv'
  <1> USE DEF IInv, TypeOK
  <1>0. SuccessAwaited /\ PendingInv /\ OutcomePublished
    BY DEF PInv
  <1>1. CASE ProviderCall(s)
    <2>1. /\ tracker'.op = tracker.op
          /\ \E e \in Errors : Returns(s, e)
          /\ gors[s].pc = "call"
      BY <1>1, ProviderCallReturns
    <2>2. UNCHANGED <<mr, worker, queued, delayed>>
      BY <1>1 DEF ProviderCall
    <2>3. /\ gors'[s].pc = "store"
          /\ \A t \in Slots \ {s} : gors'[t] = gors[t]
      BY <2>1 DEF Returns, Goroutines
    <2>4. InFlight(s) /\ ~IsEnded(tracker.op)
      BY <2>1 DEF InFlight, SingleFlight, IsRunning, IsEnded
    <2>5. IsRunning(tracker.op) 
      BY <2>4 DEF SingleFlight
    <2>6. SuccessAwaited'
      BY <2>1, <2>4 DEF SuccessAwaited, IsEnded
    <2>7. PendingInv'
      BY <1>0, <2>1, <2>2, <2>5 DEF PendingInv, IsRunning, NewOperation
    <2>8. OutcomePublished'
      BY <1>0, <2>1, <2>3 DEF OutcomePublished
    <2> QED
      BY <2>6, <2>7, <2>8 DEF PInv
  <1>2. CASE PublishError(s)
    <2>1. InFlight(s) /\ IsRunning(tracker.op) /\ UNCHANGED <<mr, worker, queued, delayed>>
      BY <1>2 DEF PublishError, InFlight, SingleFlight
    <2>2. tracker'.op = SetError(tracker.op, gors[s].err)
      BY <1>2 DEF PublishError, Trackers
    <2>3. /\ gors'[s].pc = "end" /\ gors'[s].err = gors[s].err
          /\ gors'[s].wake = RequestsReconcile(gors[s].err, tracker.op.err)
          /\ \A t \in Slots \ {s} : gors'[t] = gors[t]
      BY <1>2 DEF PublishError, Goroutines
    <2>4. tracker'.op.err = gors[s].err /\ ~IsEnded(tracker'.op) /\ tracker.op # NewOperation
      <3>1. tracker.op \in Operations
        BY TrackerTypes
      <3>2. tracker'.op.err = gors[s].err /\ tracker'.op.ended = tracker.op.ended
        BY <2>2, <3>1 DEF SetError, Operations
      <3> QED
        BY <2>1, <3>1, <3>2, NotEnded DEF IsEnded
    <2>5. SuccessAwaited'
      BY <2>4 DEF SuccessAwaited
    <2>6. PendingInv'
      BY <1>0, <2>1, <2>4 DEF PendingInv
    <2>7. \A t \in Slots \ {s} : gors'[t].pc # "end"
      BY <2>1, <2>3 DEF SingleFlight, InFlight
    <2>8. OutcomePublished'
      BY <2>3, <2>4, <2>7 DEF OutcomePublished, RequestsReconcile
    <2> QED
      BY <2>5, <2>6, <2>8 DEF PInv
  <1>3. CASE EndOperation(s)
    <2>1. InFlight(s) /\ IsRunning(tracker.op) /\ UNCHANGED <<mr, worker, queued, delayed>>
      BY <1>3 DEF EndOperation, InFlight, SingleFlight
    <2>2. tracker'.op = MarkEnd(tracker.op)
      BY <1>3 DEF EndOperation, Trackers
    <2>3. /\ gors'[s].pc = "get" /\ gors'[s].err = gors[s].err /\ gors'[s].wake = gors[s].wake
          /\ \A t \in Slots \ {s} : gors'[t] = gors[t]
      BY <1>3 DEF EndOperation, Goroutines
    <2>4. tracker'.op.err = tracker.op.err
      BY <2>2, TrackerTypes DEF MarkEnd, Operations
    <2>5. tracker'.op.err = NoError => Wakes(s)'
      BY <1>0, <1>3, <2>3, <2>4 DEF EndOperation, OutcomePublished, Wakes
    <2>6. SuccessAwaited'
      BY <2>5 DEF SuccessAwaited
    <2>7. PendingInv'
      BY <1>0, <2>1, NotEnded DEF PendingInv
    <2>8. OutcomePublished'
      BY <2>1, <2>3 DEF OutcomePublished, SingleFlight, InFlight
    <2> QED
      BY <2>6, <2>7, <2>8 DEF PInv
  <1>4. CASE CallbackGet(s)
    <2>1. gors[s].pc = "get" /\ UNCHANGED <<mr, tracker, worker, queued, delayed>>
      BY <1>4 DEF CallbackGet
    <2>2. /\ \A t \in Slots \ {s} : gors'[t] = gors[t]
          /\ gors'[s].pc # "end"
          /\ mr.present => /\ gors'[s].pc = "put" /\ gors'[s].wake = gors[s].wake
                           /\ gors'[s].err = gors[s].err
      <3>1. CASE mr.present /\ gors' = [gors EXCEPT ![s].pc = "put", ![s].fresh = TRUE]
        BY <3>1 DEF Goroutines
      <3>2. CASE ~mr.present /\ gors' = [gors EXCEPT ![s] = FreeGoroutine]
        BY <3>2 DEF FreeGoroutine
      <3> QED
        BY <1>4, <3>1, <3>2 DEF CallbackGet, Happens
    <2>3. SuccessAwaited'
      BY <1>0, <2>1, <2>2 DEF SuccessAwaited, Due, Wakes
    <2>4. PendingInv'
      BY <1>0, <2>1 DEF PendingInv
    <2>5. OutcomePublished'
      BY <1>0, <2>1, <2>2 DEF OutcomePublished
    <2> QED
      BY <2>3, <2>4, <2>5 DEF PInv
  <1>5. CASE CallbackPut(s)
    <2>1. /\ gors[s].pc = "put" /\ tracker' = tracker
          /\ mr'.present = mr.present /\ mr'.pending = mr.pending
          /\ worker'.pc = worker.pc /\ worker'.op = worker.op /\ worker'.obs = worker.obs
      BY <1>5 DEF CallbackPut, StaleWorker, Workers, MRs
    <2>2. /\ \A t \in Slots \ {s} : /\ gors'[t].pc = gors[t].pc /\ gors'[t].wake = gors[t].wake
                                    /\ gors'[t].err = gors[t].err
          /\ gors'[s].pc # "end"
      <3>1. CASE gors' = [gors EXCEPT ![s] = FreeGoroutine]
        BY <3>1 DEF FreeGoroutine
      <3>2. CASE gors' = [StaleGoroutines EXCEPT ![s] = FreeGoroutine]
        BY <3>2 DEF StaleGoroutines, FreeGoroutine, Goroutines
      <3> QED
        BY <1>5, <3>1, <3>2 DEF CallbackPut
    <2>3. Due \/ Wakes(s) => Due'
      BY <1>5 DEF CallbackPut, Due, Wakes
    <2>4. SuccessAwaited'
      BY <1>0, <2>1, <2>2, <2>3 DEF SuccessAwaited, Wakes
    <2>5. PendingInv'
      BY <1>0, <2>1 DEF PendingInv
    <2>6. OutcomePublished'
      BY <1>0, <2>1, <2>2 DEF OutcomePublished
    <2> QED
      BY <2>4, <2>5, <2>6 DEF PInv
  <1> QED
    BY <1>1, <1>2, <1>3, <1>4, <1>5 DEF Goroutine

\* Users enqueue the key, a crash forgets the outcome.
LEMMA EnvironmentKeepsPrompt ==
    ASSUME IInv, PInv, Environment
    PROVE  PInv'
  <1> USE DEF IInv, TypeOK
  <1>0. SuccessAwaited /\ PendingInv /\ OutcomePublished
    BY DEF PInv
  <1>1. ~NoMR.present /\ ~NoMR.pending /\ \A s \in Specs : ~NewMR(s).pending
    BY NewTypes DEF NoMR, NewMR
  <1>2. CASE UserDeletes \/ UserChangesSpec
    <2>1. /\ queued' /\ UNCHANGED tracker
          /\ (mr'.pending => mr.pending)
          /\ worker'.pc = worker.pc /\ worker'.op = worker.op /\ worker'.obs = worker.obs
          /\ gors' = StaleGoroutines
      BY <1>1, <1>2 DEF UserDeletes, UserChangesSpec, StaleWorker, Workers, MRs
    <2>2. SameGoroutines
      BY <2>1, StaleGoroutinesSame
    <2> QED
      BY <1>0, <2>1, <2>2
      DEF PInv, SuccessAwaited, PendingInv, OutcomePublished, SameGoroutines, Due
  <1>3. CASE UserRecreates
    <2>1. /\ queued' /\ ~mr'.pending /\ UNCHANGED <<worker, gors>>
          /\ tracker' = NewAsyncTracker /\ ~mr.finalizer
      BY <1>1, <1>3 DEF UserRecreates, FinalizerHeld
    <2>2. \A s \in Slots : gors[s].pc # "end"
      BY <2>1 DEF FinalizerHeld, InFlight
    <2> QED
      BY <1>0, <2>1, <2>2 DEF PInv, SuccessAwaited, PendingInv, OutcomePublished, Due
  <1>4. CASE ExternalDrift \/ ExternalVanish
    <2>1. UNCHANGED <<mr, tracker, worker, gors, queued, delayed>>
      BY <1>4 DEF ExternalDrift, ExternalVanish
    <2> QED
      BY <1>0, <2>1 DEF PInv, SuccessAwaited, PendingInv, OutcomePublished, Due, Wakes
  <1>5. CASE Crash
    <2>1. /\ worker'.pc = "idle" /\ tracker'.op = NewOperation
          /\ \A s \in Slots : gors'[s].pc = "free"
      BY <1>5 DEF Crash, IdleWorker, NewAsyncTracker, FreeGoroutine
    <2>2. ~IsEnded(tracker'.op)
      BY <2>1, NotEnded
    <2> QED
      BY <2>1, <2>2 DEF PInv, SuccessAwaited, PendingInv, OutcomePublished
  <1> QED
    BY <1>2, <1>3, <1>4, <1>5 DEF Environment

\* Without errors of the API server, after the success of an operation a reconcile is due at
\* once or after a back-off when nobody is at work any more, whatever else goes on: the
\* callback of api.go requests it, and no reconcile that ends meanwhile puts it off.
THEOREM SuccessObserved ==
    ASSUME "apiFails" \notin Faults
    PROVE  Spec => []SuccessPromptlyObserved
  <1>1. Init => PInv
    <2> SUFFICES ASSUME Init PROVE PInv
      OBVIOUS
    <2>1. /\ tracker.op = NewOperation /\ worker.pc = "idle"
          /\ \A s \in Slots : gors[s].pc = "free"
      BY DEF Init, NewAsyncTracker, IdleWorker, FreeGoroutine
    <2>2. ~IsEnded(tracker.op)
      BY <2>1, NotEnded
    <2> QED
      BY <2>1, <2>2 DEF PInv, SuccessAwaited, PendingInv, OutcomePublished
  <1>2. IInv /\ PInv /\ [Next]_vars => PInv'
    <2> SUFFICES ASSUME IInv, PInv, [Next]_vars PROVE PInv'
      OBVIOUS
    <2>1. CASE UNCHANGED vars
      BY <2>1 DEF vars, PInv, SuccessAwaited, PendingInv, OutcomePublished, Due, Wakes
    <2>2. CASE TimerFires
      BY <2>2 DEF TimerFires, PInv, SuccessAwaited, PendingInv, OutcomePublished, Due
    <2> QED
      BY <2>1, <2>2, ReconcileKeepsPrompt, GoroutineKeepsPrompt, EnvironmentKeepsPrompt
      DEF Next, Terminated
  <1>3. PInv => SuccessPromptlyObserved
    <2>1. ASSUME SuccessAwaited, tracker.op.err = NoError, Quiet, mr.present, IsEnded(tracker.op)
          PROVE  queued \/ delayed = "soon"
      BY <2>1 DEF SuccessAwaited, Quiet, Due, Wakes, BeforeObserve
    <2> QED
      BY <2>1 DEF PInv, SuccessPromptlyObserved, PromptlyObserved
  <1> QED
    BY <1>1, <1>2, <1>3, Inductive, PTL DEF Spec

--------------------------------------------------------------------------------
(* No instance without an MR that carries the finalizer.  The identifier is computed  *)
(* from the spec, a successful delete call deletes, and a read does not miss what     *)
(* exists.  The invariant follows what the worker, the goroutines and the tracker     *)
(* know of the one instance there can be.                                             *)

\* A delete operation runs or has succeeded.
DeletionBegun == tracker.deleted \/ \E s \in Slots : InFlight(s) /\ gors[s].op = "delete"

\* There is one identifier, and whoever has one has that one.
NamesKnown ==
    /\ tracker.state \in {NameId, NoId}
    /\ Live \subseteq {NameId}
    /\ mr.present => mr.extName = NameId

\* The copy of the worker knows of the deletion that it or an operation acts on.
ViewSound ==
    worker.pc \notin {"idle", "get"} => /\ worker.view.extName = NameId
                                        /\ worker.view.deleting => mr.deleting
                                        /\ DeletionBegun => worker.view.deleting
                                        /\ worker.fresh /\ mr.deleting => worker.view.deleting

\* From Connect on, and while an operation runs, the cached state has the instance.
StateFound ==
    /\ Live # {}
    /\ worker.pc \in {"observe", "read", "decide", "start"} \/ \E s \in Slots : InFlight(s)
    => tracker.state = NameId

\* What is not there for the worker is not there, until it starts to create it.
ObservedSound ==
    /\ worker.pc = "decide" /\ ~worker.obs.exists => Live = {}
    /\ worker.pc = "start" /\ worker.op = "create" =>
          Live = {} /\ ~worker.view.deleting /\ ~worker.obs.running
    /\ worker.pc = "start" /\ worker.op = "delete" => worker.view.deleting

\* A creation finds no instance and no deletion.
CreatesFirst ==
    \A s \in Slots : gors[s].pc = "call" /\ gors[s].op = "create" => Live = {} /\ ~tracker.deleted

\* What was deleted stays deleted, as long as the MR is.
DeletionStays ==
    /\ DeletionBegun => mr.deleting
    /\ tracker.deleted => Live = {}

GInv == /\ NamesKnown /\ ViewSound /\ StateFound /\ ObservedSound
        /\ CreatesFirst /\ DeletionStays /\ FinalizerGuards

\* A goroutine goes on with the same operation from the same place.
SameCalls == \A s \in Slots : gors'[s].pc = gors[s].pc /\ gors'[s].op = gors[s].op

\* Marking copies as stale is no step of a goroutine.
LEMMA StaleSameCalls ==
    ASSUME TypeOK, gors' = StaleGoroutines \/ gors' = gors
    PROVE  SameCalls
  BY DEF TypeOK, StaleGoroutines, SameCalls, Goroutines

\* An MR that does not exist, and a new one.
LEMMA NamesOfNew ==
    ASSUME ~ProviderIds
    PROVE  /\ ~NoMR.present /\ ~NoMR.deleting /\ ~NoMR.finalizer
           /\ \A s \in Specs : NewMR(s).extName = NameId /\ ~NewMR(s).deleting
  BY NewTypes DEF NoMR, NewMR, FirstName

\* A step of the worker that keeps the MR but for its finalizer.
LEMMA WorkerStepGuards ==
    ASSUME GInv, SameCalls, world' = world,
           mr'.present = mr.present, mr'.deleting = mr.deleting, mr.finalizer => mr'.finalizer,
           mr'.present => mr'.extName = NameId,
           tracker'.state \in {NameId, NoId}, tracker'.deleted = tracker.deleted,
           ViewSound', StateFound', ObservedSound'
    PROVE  GInv'
  <1>1. Live' = Live
    BY DEF Live
  <1>2. NamesKnown'
    BY <1>1 DEF GInv, NamesKnown
  <1>3. DeletionBegun' <=> DeletionBegun
    BY DEF SameCalls, DeletionBegun, InFlight
  <1>4. DeletionStays' /\ CreatesFirst' /\ FinalizerGuards'
    BY <1>1, <1>3 DEF GInv, DeletionStays, CreatesFirst, FinalizerGuards, SameCalls
  <1> QED
    BY <1>2, <1>4 DEF GInv

\* A step that starts nothing and leaves what the tracker, the worker and the MR say.
LEMMA GuardsStay ==
    ASSUME GInv, world' = world,
           mr'.present = mr.present, mr.deleting => mr'.deleting,
           mr'.finalizer = mr.finalizer, mr'.extName = mr.extName,
           tracker'.state = tracker.state, tracker'.deleted = tracker.deleted,
           worker'.pc = worker.pc, worker'.op = worker.op, worker'.obs = worker.obs,
           worker'.view = worker.view,
           worker'.fresh => worker.fresh /\ mr'.deleting = mr.deleting,
           \A t \in Slots : /\ InFlight(t)' => InFlight(t) /\ gors'[t].op = gors[t].op
                            /\ \/ gors'[t].pc # "call"
                               \/ gors[t].pc = "call" /\ gors'[t].op = gors[t].op
    PROVE  GInv'
  <1>1. Live' = Live
    BY DEF Live
  <1>2. DeletionBegun' => DeletionBegun
    BY DEF DeletionBegun
  <1>3. NamesKnown' /\ FinalizerGuards' /\ DeletionStays' /\ ObservedSound'
    BY <1>1, <1>2 DEF GInv, NamesKnown, FinalizerGuards, DeletionStays, ObservedSound
  <1>4. ViewSound'
    BY <1>2 DEF GInv, ViewSound
  <1>5. StateFound'
    BY <1>1 DEF GInv, StateFound
  <1>6. CreatesFirst'
    BY <1>1 DEF GInv, CreatesFirst
  <1> QED
    BY <1>3, <1>4, <1>5, <1>6 DEF GInv

\* A step of the worker that changes neither the tracker nor what it saw.
LEMMA WorkerMoves ==
    ASSUME GInv, SameCalls, world' = world, mr'.deleting = mr.deleting,
           tracker' = tracker,
           worker'.pc \notin {"idle", "get"} =>
               /\ worker'.view.extName = NameId
               /\ worker'.view.deleting => mr.deleting
               /\ DeletionBegun => worker'.view.deleting
               /\ worker'.fresh /\ mr.deleting => worker'.view.deleting,
           worker'.pc \in {"observe", "read", "decide", "start"} =>
               \/ worker.pc \in {"observe", "read", "decide", "start"}
               \/ tracker.state = NameId
    PROVE  ViewSound' /\ StateFound'
  <1>1. Live' = Live
    BY DEF Live
  <1>2. DeletionBegun' <=> DeletionBegun
    BY DEF SameCalls, DeletionBegun, InFlight
  <1>3. (\E s \in Slots : InFlight(s))' <=> \E s \in Slots : InFlight(s)
    BY DEF SameCalls, InFlight
  <1>4. ViewSound'
    BY <1>2 DEF ViewSound
  <1>5. StateFound'
    BY <1>1, <1>3 DEF GInv, StateFound
  <1> QED
    BY <1>4, <1>5

\* What the three steps do that persist the MR.
LEMMA PersistsCopy ==
    ASSUME IInv, AddFinalizer \/ DecideCreate \/ PersistExternalName
    PROVE  /\ worker.pc = "decide" /\ ~worker.view.deleting
           /\ UNCHANGED <<world, tracker>> /\ (gors' = gors \/ gors' = StaleGoroutines)
           /\ mr'.present = mr.present /\ mr'.deleting = mr.deleting
           /\ mr.finalizer => mr'.finalizer
           /\ mr'.extName \in {mr.extName, worker.view.extName}
           /\ worker'.pc \in {"decide", "start", "finish"}
           /\ worker'.fresh = worker.fresh
           /\ \/ worker'.view = worker.view /\ ~worker.fresh /\ worker'.pc = "finish"
              \/ worker'.view = mr' /\ worker.fresh
           /\ worker'.obs.exists = worker.obs.exists /\ worker'.obs.running = worker.obs.running
           /\ worker'.pc = "start" =>
                 worker'.op = "create" /\ ~worker.obs.exists /\ worker.fresh
  <1> USE DEF IInv, TypeOK
  <1>1. /\ worker.pc = "decide" /\ ~worker.view.deleting
        /\ UNCHANGED <<world, tracker>> /\ (gors' = gors \/ gors' = StaleGoroutines)
    BY DEF AddFinalizer, DecideCreate, PersistExternalName, PersistAndNotify, Persist
  <1>2. /\ mr'.present = mr.present /\ mr'.deleting = mr.deleting
        /\ mr.finalizer => mr'.finalizer
        /\ mr'.extName \in {mr.extName, worker.view.extName}
    BY DEF AddFinalizer, DecideCreate, PersistExternalName, PersistAndNotify, Persist, MRs
  <1>3. CASE ~worker.fresh
    BY <1>1, <1>2, <1>3
    DEF AddFinalizer, DecideCreate, PersistExternalName, PersistAndNotify, Persist, Finish, Workers
  <1>4. CASE worker.fresh /\ AddFinalizer
    BY <1>1, <1>2, <1>4 DEF AddFinalizer, Persist, Workers
  <1>5. CASE worker.fresh /\ DecideCreate
    <2>1. worker' = [[worker EXCEPT !.pc = "start", !.op = "create"] EXCEPT !.view = mr']
      BY <1>5 DEF DecideCreate, PersistAndNotify, Persist
    <2> QED
      BY <1>1, <1>2, <1>5, <2>1 DEF DecideCreate, Workers
  <1>6. CASE worker.fresh /\ PersistExternalName
    <2>1. worker' = [[worker EXCEPT !.obs.lateInit = FALSE] EXCEPT !.view = mr']
      BY <1>6 DEF PersistExternalName, PersistAndNotify, Persist
    <2>2. worker.obs \in Observations
      BY DEF Workers
    <2> QED
      BY <1>1, <1>2, <1>6, <2>1, <2>2 DEF Workers, Observations
  <1> QED
    BY <1>3, <1>4, <1>5, <1>6

\* The steps of the reconcile worker.
LEMMA ReconcileGuards ==
    ASSUME ~ProviderIds, ~LogicalDelete, "readMisses" \notin Faults,
           IInv, GInv, Reconcile
    PROVE  GInv'
  <1> USE DEF IInv, TypeOK
  <1>0. /\ TypeOK /\ NamesKnown /\ ViewSound /\ StateFound /\ ObservedSound
        /\ CreatesFirst /\ DeletionStays /\ FinalizerGuards
    BY DEF GInv
  <1>a. NameId # NoId
    BY ConfigAssumption
  <1>b. IdleWorker.pc = "idle"
    BY DEF IdleWorker
  <1>1. CASE Dequeue
    <2>1. /\ worker'.pc = "get" /\ UNCHANGED <<mr, world, tracker, gors>>
      BY <1>1 DEF Dequeue, Workers
    <2>2. ObservedSound'
      BY <2>1 DEF ObservedSound
    <2>3. SameCalls
      BY <2>1, StaleSameCalls
    <2>4. ViewSound' /\ StateFound'
      BY <2>1, <2>3, WorkerMoves
    <2> QED
      BY <1>0, <2>1, <2>2, <2>3, <2>4, WorkerStepGuards DEF NamesKnown
  <1>2. CASE GetMR
    <2>1. /\ UNCHANGED <<mr, world, tracker, gors>>
          /\ \/ worker'.pc = "idle"
             \/ worker'.pc = "connect" /\ worker'.view = mr /\ mr.present
      <3>1. CASE worker' = IdleWorker
        BY <1>2, <1>b, <3>1 DEF GetMR
      <3>2. CASE worker' # IdleWorker
        BY <1>2, <3>2 DEF GetMR, Complete, Workers
      <3> QED
        BY <3>1, <3>2
    <2>2. ObservedSound'
      BY <2>1 DEF ObservedSound
    <2>3. SameCalls
      BY <2>1, StaleSameCalls
    <2>4. ViewSound' /\ StateFound'
      BY <1>0, <2>1, <2>3, WorkerMoves DEF NamesKnown, DeletionStays
    <2> QED
      BY <1>0, <2>1, <2>2, <2>3, <2>4, WorkerStepGuards DEF NamesKnown
  <1>3. CASE ConnectCheckState
    <2>1. /\ UNCHANGED <<mr, world, tracker, gors>>
          /\ worker'.pc = IF HasState(tracker) THEN "observe" ELSE "reconstruct"
          /\ worker'.view = worker.view /\ worker'.fresh = worker.fresh /\ worker.pc = "connect"
      BY <1>3 DEF ConnectCheckState, Workers
    <2>2. ObservedSound'
      BY <2>1 DEF ObservedSound
    <2>3. SameCalls
      BY <2>1, StaleSameCalls
    <2>4. ViewSound' /\ StateFound'
      BY <1>0, <2>1, <2>3, WorkerMoves DEF NamesKnown, ViewSound, HasState
    <2> QED
      BY <1>0, <2>1, <2>2, <2>3, <2>4, WorkerStepGuards DEF NamesKnown
  <1>4. CASE ConnectReconstruct
    <2>1. /\ UNCHANGED <<mr, world, gors>>
          /\ worker'.pc = "observe" /\ worker.pc = "reconstruct"
          /\ worker'.view = worker.view /\ worker'.fresh = worker.fresh
          /\ tracker' = SetReconstructedTfState(tracker, worker.view.extName)
      BY <1>4 DEF ConnectReconstruct, Workers
    <2>2. tracker'.state = NameId /\ tracker'.deleted = tracker.deleted
      BY <1>0, <2>1 DEF ViewSound, SetReconstructedTfState, Trackers
    <2>3. SameCalls
      BY <2>1, StaleSameCalls
    <2>4. ViewSound'
      <3>1. DeletionBegun' <=> DeletionBegun
        BY <2>2, <2>3 DEF DeletionBegun, SameCalls, InFlight
      <3> QED
        BY <1>0, <2>1, <3>1 DEF ViewSound
    <2>5. StateFound' /\ ObservedSound'
      BY <2>1, <2>2 DEF StateFound, ObservedSound
    <2> QED
      BY <1>0, <2>1, <2>2, <2>3, <2>4, <2>5, WorkerStepGuards DEF NamesKnown
  <1>5. CASE ObserveOperation
    <2>1. /\ UNCHANGED <<mr, world, gors>> /\ worker.pc = "observe"
          /\ tracker'.state = tracker.state /\ tracker'.deleted = tracker.deleted
      BY <1>5 DEF ObserveOperation, Trackers
    <2>2. /\ worker'.pc \in {"read", "decide"} /\ worker'.view.extName = NameId
          /\ worker'.view.deleting = worker.view.deleting /\ worker'.fresh = worker.fresh
          /\ worker'.pc = "decide" /\ ~worker'.obs.exists => tracker.deleted
      <3>1. CASE Busy
        <4>1. worker' = [worker EXCEPT !.pc = "decide", !.obs = RunningObservation]
          BY <1>5, <3>1 DEF ObserveOperation
        <4>2. /\ worker'.pc = "decide" /\ worker'.view = worker.view
              /\ worker'.fresh = worker.fresh /\ worker'.obs = RunningObservation
          BY <4>1 DEF Workers
        <4> QED
          BY <1>0, <2>1, <4>2 DEF RunningObservation, ViewSound
      <3>2. CASE ~Busy /\ RecoversExternalName
        <4>1. worker' = [worker EXCEPT !.pc = "decide", !.obs = RecoveredObservation,
                                       !.view.extName = tracker.state]
          BY <1>5, <3>2 DEF ObserveOperation
        <4>2. tracker.state = NameId
          BY <1>0, <3>2 DEF RecoversExternalName, HasState, NamesKnown
        <4> QED
          BY <4>1, <4>2 DEF Workers, MRs, RecoveredObservation
      <3>3. CASE ~Busy /\ ~RecoversExternalName
        <4>1. worker' = [worker EXCEPT !.pc = IF worker.view.deleting /\ tracker.deleted
                                              THEN "decide" ELSE "read"]
          BY <1>5, <3>3 DEF ObserveOperation
        <4> QED
          BY <1>0, <2>1, <4>1 DEF Workers, ViewSound
      <3> QED
        BY <3>1, <3>2, <3>3
    <2>3. SameCalls
      BY <2>1, StaleSameCalls
    <2>4. ViewSound'
      BY <1>0, <2>1, <2>2, <2>3 DEF ViewSound, DeletionBegun, SameCalls, InFlight
    <2>5. StateFound'
      BY <1>0, <2>1, <2>2 DEF StateFound, Live
    <2>6. ObservedSound'
      BY <1>0, <2>1, <2>2 DEF ObservedSound, DeletionStays, Live
    <2> QED
      BY <1>0, <2>1, <2>3, <2>4, <2>5, <2>6, WorkerStepGuards DEF NamesKnown
  <1>6. CASE ObserveRead
    <2>1. /\ UNCHANGED <<mr, world, gors>> /\ worker.pc = "read" /\ ~worker.obs.running
      BY <1>6 DEF ObserveRead, Bookkeeping
    <2>2. \A s \in Slots : ~InFlight(s)
      BY <2>1 DEF WorkerAlone, SingleFlight
    <2>3. /\ worker'.pc \in {"decide", "finish"} /\ worker'.view.extName = NameId
          /\ worker'.view.deleting = worker.view.deleting /\ worker'.fresh = worker.fresh
          /\ tracker'.state \in {NameId, NoId} /\ tracker'.deleted = tracker.deleted
          /\ worker'.pc = "decide" /\ ~worker'.obs.exists => ~Exists(tracker.state)
          /\ worker'.pc = "decide" /\ tracker'.state # tracker.state => ~Exists(tracker.state)
      <3>1. CASE ReadFound
        <4>1. tracker.state = NameId
          BY <1>0, <3>1 DEF ReadFound, NamesKnown, Exists
        <4>2. tracker'.state = tracker.state /\ tracker'.deleted = tracker.deleted
          BY <3>1 DEF ReadFound, SetTfState, Trackers
        <4>3. /\ worker'.pc = "decide" /\ worker'.view.extName = tracker.state
              /\ worker'.view.deleting = worker.view.deleting /\ worker'.obs.exists
              /\ worker'.fresh = worker.fresh
          BY <3>1 DEF ReadFound, Workers, MRs
        <4> QED
          BY <1>0, <4>1, <4>2, <4>3
      <3>2. CASE ReadNotFound
        <4>1. ~Exists(tracker.state)
          BY <3>2 DEF ReadNotFound, Happens
        <4>2. tracker'.state = NoId /\ tracker'.deleted = tracker.deleted
          BY <3>2 DEF ReadNotFound, SetTfState, Trackers
        <4>3. worker'.pc = "decide" /\ worker'.view = worker.view /\ worker'.fresh = worker.fresh
          BY <3>2 DEF ReadNotFound, Workers
        <4> QED
          BY <1>0, <2>1, <4>1, <4>2, <4>3 DEF ViewSound
      <3>3. CASE ReadError
        <4>1. tracker'.state \in {tracker.state, NoId} /\ tracker'.deleted = tracker.deleted
          BY <3>3 DEF ReadError, ResetReconstructedTfState, SetTfState, Trackers
        <4>2. worker'.pc = "finish" /\ worker'.view = worker.view /\ worker'.fresh = worker.fresh
          BY <3>3 DEF ReadError, Workers
        <4> QED
          BY <1>0, <2>1, <4>1, <4>2 DEF ViewSound, NamesKnown
      <3> QED
        BY <1>6, <3>1, <3>2, <3>3 DEF ObserveRead
    <2>4. ~Exists(tracker.state) => Live = {}
      BY <1>0, <1>a, <2>1 DEF Exists, Live, StateFound, NamesKnown
    <2>5. SameCalls
      BY <2>1, StaleSameCalls
    <2>6. ViewSound'
      BY <1>0, <2>1, <2>3, <2>5 DEF ViewSound, DeletionBegun, SameCalls, InFlight
    <2>7. StateFound'
      BY <1>0, <2>1, <2>2, <2>3, <2>4 DEF StateFound, Live, InFlight
    <2>8. ObservedSound'
      BY <2>1, <2>3, <2>4 DEF ObservedSound, Live
    <2> QED
      BY <1>0, <2>1, <2>3, <2>5, <2>6, <2>7, <2>8, WorkerStepGuards DEF NamesKnown
  <1>7. CASE RemoveFinalizer
    <2>1. /\ worker.pc = "decide" /\ ~worker.obs.exists /\ UNCHANGED world
          /\ tracker' = NewAsyncTracker
          /\ gors' = gors \/ gors' = StaleGoroutines
      BY <1>7 DEF RemoveFinalizer
    <2>2. /\ Live = {} /\ Live' = {}
      BY <1>0, <2>1 DEF ObservedSound, Live
    <2>3. \A s \in Slots : ~InFlight(s)
      BY <2>1 DEF WorkerAlone, SingleFlight, Bookkeeping
    <2>4. SameCalls
      BY <1>0, <2>1, StaleSameCalls
    <2>5. ~DeletionBegun'
      BY <2>1, <2>3, <2>4 DEF DeletionBegun, SameCalls, InFlight, NewAsyncTracker
    <2>6. \/ worker'.pc = "idle" /\ mr' = NoMR
          \/ /\ worker'.pc = "finish" /\ mr' = mr
             /\ worker'.view = worker.view /\ worker'.fresh = worker.fresh
      <3>1. CASE Complete("none") /\ mr' = NoMR
        BY <1>b, <3>1 DEF Complete
      <3>2. CASE Finish("soon") /\ mr' = mr
        BY <3>2 DEF Finish, Workers
      <3> QED
        BY <1>7, <3>1, <3>2 DEF RemoveFinalizer
    <2>7. NamesKnown'
      BY <1>0, <2>1, <2>2, <2>6, NamesOfNew DEF NamesKnown, NewAsyncTracker
    <2>8. ViewSound'
      BY <1>0, <2>1, <2>5, <2>6 DEF ViewSound
    <2>9. StateFound' /\ CreatesFirst' /\ FinalizerGuards'
      BY <2>1, <2>2 DEF StateFound, CreatesFirst, FinalizerGuards, NewAsyncTracker
    <2>10. ObservedSound'
      BY <2>6 DEF ObservedSound
    <2>11. DeletionStays'
      BY <2>2, <2>5 DEF DeletionStays
    <2> QED
      BY <2>7, <2>8, <2>9, <2>10, <2>11 DEF GInv
  <1>8. CASE DecideDelete \/ DecideUpToDateOrUpdate
    <2>1. /\ worker.pc = "decide" /\ worker'.pc \in {"start", "finish"}
          /\ worker'.view = worker.view /\ worker'.fresh = worker.fresh
          /\ worker'.pc = "start" => \/ worker'.op = "delete" /\ worker.view.deleting
                                     \/ worker'.op = "update"
          /\ UNCHANGED <<mr, world, tracker, gors>>
      BY <1>8 DEF DecideDelete, DecideUpToDateOrUpdate, Finish, Workers
    <2>2. ObservedSound'
      BY <2>1 DEF ObservedSound
    <2>3. SameCalls
      BY <2>1, StaleSameCalls
    <2>4. ViewSound' /\ StateFound'
      BY <1>0, <2>1, <2>3, WorkerMoves DEF ViewSound
    <2> QED
      BY <1>0, <2>1, <2>2, <2>3, <2>4, WorkerStepGuards DEF NamesKnown
  <1>9. CASE AddFinalizer \/ DecideCreate \/ PersistExternalName
    <2>1. /\ worker.pc = "decide" /\ ~worker.view.deleting
          /\ UNCHANGED <<world, tracker>> /\ (gors' = gors \/ gors' = StaleGoroutines)
      BY <1>9, PersistsCopy
    <2>2. /\ mr'.present = mr.present /\ mr'.deleting = mr.deleting
          /\ mr.finalizer => mr'.finalizer
          /\ mr'.extName \in {mr.extName, worker.view.extName}
      BY <1>9, PersistsCopy
    <2>3. /\ worker'.pc \in {"decide", "start", "finish"}
          /\ worker'.fresh = worker.fresh
          /\ \/ worker'.view = worker.view /\ ~worker.fresh
             \/ worker'.view = mr' /\ worker.fresh
          /\ worker'.obs.exists = worker.obs.exists /\ worker'.obs.running = worker.obs.running
          /\ worker'.pc = "start" =>
                worker'.op = "create" /\ ~worker.obs.exists /\ worker.fresh
      BY <1>9, PersistsCopy
    <2>4. SameCalls
      BY <1>0, <2>1, StaleSameCalls
    <2>5. mr'.present => mr'.extName = NameId
      BY <1>0, <2>1, <2>2 DEF NamesKnown, ViewSound
    <2>6. /\ worker'.view.extName = NameId
          /\ worker'.view.deleting => mr.deleting
          /\ DeletionBegun => worker'.view.deleting
          /\ worker'.fresh /\ mr.deleting => worker'.view.deleting
      <3>1. worker.fresh => mr.present
        BY <2>1 DEF FinalizerHeld
      <3> QED
        BY <1>0, <2>1, <2>2, <2>3, <2>5, <3>1 DEF ViewSound, DeletionStays
    <2>7. ViewSound' /\ StateFound'
      BY <2>1, <2>2, <2>4, <2>6, WorkerMoves
    <2>8. ObservedSound'
      <3>1. worker'.pc = "start" => Live = {} /\ ~worker.obs.running
        BY <1>0, <2>1, <2>3 DEF ObservedSound, Bookkeeping
      <3>2. worker'.pc = "start" => ~worker'.view.deleting
        BY <1>0, <2>1, <2>2, <2>3 DEF ViewSound
      <3> QED
        BY <1>0, <2>1, <2>3, <3>1, <3>2 DEF ObservedSound, Live
    <2> QED
      BY <1>0, <2>1, <2>2, <2>4, <2>5, <2>7, <2>8, WorkerStepGuards DEF NamesKnown
  <1>10. CASE StartOperation
    <2>1. CASE Finish("soon") /\ UNCHANGED <<tracker, gors>>
      <3>1. /\ worker.pc = "start" /\ worker'.pc = "finish"
            /\ worker'.view = worker.view /\ worker'.fresh = worker.fresh
            /\ UNCHANGED <<mr, world, tracker, gors>>
        BY <1>10, <2>1 DEF StartOperation, Finish, Workers
      <3>2. ObservedSound'
        BY <3>1 DEF ObservedSound
      <3>3. SameCalls
        BY <3>1, StaleSameCalls
      <3>4. ViewSound' /\ StateFound'
        BY <1>0, <3>1, <3>3, WorkerMoves DEF ViewSound
      <3> QED
        BY <1>0, <3>1, <3>2, <3>3, <3>4, WorkerStepGuards DEF NamesKnown
    <2>2. CASE ~(Finish("soon") /\ UNCHANGED <<tracker, gors>>)
      <3>1. /\ worker.pc = "start" /\ CanStart(tracker.op)
            /\ tracker' = [tracker EXCEPT !.op = MarkStart(@, worker.op)]
            /\ worker' = [worker EXCEPT !.pc = "return"]
            /\ UNCHANGED <<mr, world>>
        BY <1>10, <2>2 DEF StartOperation
      <3>2. PICK s \in Slots :
              gors' = [gors EXCEPT ![s] = [FreeGoroutine EXCEPT
                          !.pc = "call", !.op = worker.op, !.spec = worker.view.spec]]
        BY <1>10, <2>2 DEF StartOperation
      <3>3. /\ tracker'.state = tracker.state /\ tracker'.deleted = tracker.deleted
            /\ worker'.pc = "return" /\ worker'.view = worker.view /\ worker'.fresh = worker.fresh
        BY <3>1 DEF Trackers, Workers
      <3>4. /\ gors'[s].pc = "call" /\ gors'[s].op = worker.op
            /\ \A t \in Slots \ {s} : gors'[t] = gors[t]
        BY <3>2 DEF FreeGoroutine
      <3>5. \A t \in Slots : ~InFlight(t)
        BY <3>1 DEF SingleFlight, CanStart
      <3>6. Live' = Live
        BY <3>1 DEF Live
      <3>7. DeletionBegun' => worker.view.deleting /\ mr.deleting
        <4>1. CASE tracker.deleted
          BY <1>0, <3>1, <4>1 DEF DeletionBegun, ViewSound
        <4>2. CASE ~tracker.deleted
          <5>1. DeletionBegun' => worker.op = "delete"
            BY <3>3, <3>4, <3>5, <4>2 DEF DeletionBegun, InFlight
          <5> QED
            BY <1>0, <3>1, <5>1 DEF ObservedSound, ViewSound
        <4> QED
          BY <4>1, <4>2
      <3>8. NamesKnown' /\ FinalizerGuards'
        BY <1>0, <3>1, <3>3, <3>6 DEF NamesKnown, FinalizerGuards
      <3>9. ViewSound'
        BY <1>0, <3>1, <3>3, <3>7 DEF ViewSound
      <3>10. StateFound'
        BY <1>0, <3>1, <3>3, <3>6 DEF StateFound
      <3>11. ObservedSound'
        BY <3>3 DEF ObservedSound
      <3>12. CreatesFirst'
        <4>1. worker.op = "create" => ~tracker.deleted /\ Live = {}
          BY <1>0, <3>1 DEF ObservedSound, ViewSound, DeletionBegun
        <4> QED
          BY <3>3, <3>4, <3>5, <3>6, <4>1 DEF CreatesFirst, InFlight
      <3>13. DeletionStays'
        BY <1>0, <3>1, <3>3, <3>6, <3>7 DEF DeletionStays
      <3> QED
        BY <3>8, <3>9, <3>10, <3>11, <3>12, <3>13 DEF GInv
    <2> QED
      BY <2>1, <2>2
  <1>11. CASE ReturnFromStart
    <2>1. /\ worker.pc = "return" /\ UNCHANGED <<world, tracker>>
          /\ gors' = gors \/ gors' = StaleGoroutines
      BY <1>11 DEF ReturnFromStart
    <2>2. /\ mr'.present = mr.present /\ mr'.deleting = mr.deleting
          /\ mr'.finalizer = mr.finalizer /\ mr'.extName = mr.extName
      BY <1>11 DEF ReturnFromStart, MRs
    <2>3. /\ worker'.pc = "finish"
          /\ \/ worker'.view = worker.view /\ worker'.fresh = worker.fresh
             \/ worker'.view = mr'
      BY <1>11 DEF ReturnFromStart, Finish, Workers
    <2>4. mr.present
      BY <2>1 DEF FinalizerHeld
    <2>5. SameCalls
      BY <1>0, <2>1, StaleSameCalls
    <2>6. /\ worker'.view.extName = NameId
          /\ worker'.view.deleting => mr.deleting
          /\ DeletionBegun => worker'.view.deleting
          /\ worker'.fresh /\ mr.deleting => worker'.view.deleting
      BY <1>0, <2>1, <2>2, <2>3, <2>4 DEF ViewSound, DeletionStays, NamesKnown
    <2>7. ViewSound' /\ StateFound'
      BY <2>1, <2>2, <2>3, <2>5, <2>6, WorkerMoves
    <2>8. ObservedSound'
      BY <2>3 DEF ObservedSound
    <2> QED
      BY <1>0, <2>1, <2>2, <2>5, <2>7, <2>8, WorkerStepGuards DEF NamesKnown
  <1>12. CASE FinishReconcile
    <2>1. /\ worker'.pc = "idle" /\ UNCHANGED <<world, tracker>>
          /\ gors' = gors \/ gors' = StaleGoroutines
      <3>1. worker' = IdleWorker
        BY <1>12 DEF FinishReconcile, Complete
      <3> QED
        BY <1>12, <1>b, <3>1 DEF FinishReconcile
    <2>2. /\ mr'.present = mr.present /\ mr'.deleting = mr.deleting
          /\ mr'.finalizer = mr.finalizer /\ mr'.extName = mr.extName
      BY <1>12 DEF FinishReconcile, MRs
    <2>3. ObservedSound'
      BY <2>1 DEF ObservedSound
    <2>4. SameCalls
      BY <1>0, <2>1, StaleSameCalls
    <2>5. ViewSound' /\ StateFound'
      BY <2>1, <2>2, <2>4, WorkerMoves
    <2> QED
      BY <1>0, <2>1, <2>2, <2>3, <2>4, <2>5, WorkerStepGuards DEF NamesKnown
  <1> QED
    BY <1>1, <1>2, <1>3, <1>4, <1>5, <1>6, <1>7, <1>8, <1>9, <1>10, <1>11, <1>12 DEF Reconcile

\* The provider calls, on the instance that the cached state has.
LEMMA ProviderCallGuards ==
    ASSUME ~ProviderIds, ~LogicalDelete, IInv, GInv, NEW s \in Slots, ProviderCall(s)
    PROVE  GInv'
  <1> USE DEF IInv, TypeOK
  <1>0. /\ TypeOK /\ NamesKnown /\ ViewSound /\ StateFound /\ ObservedSound
        /\ CreatesFirst /\ DeletionStays /\ FinalizerGuards
    BY DEF GInv
  <1>1. /\ UNCHANGED <<mr, worker>>
        /\ gors[s].pc = "call" /\ InFlight(s) /\ IsRunning(tracker.op)
        /\ \E e \in Errors : Returns(s, e)
    BY ProviderCallReturns DEF ProviderCall, InFlight, SingleFlight
  <1>2. /\ gors'[s].pc = "store" /\ gors'[s].op = gors[s].op
        /\ \A t \in Slots \ {s} : gors'[t] = gors[t]
    <2>1. PICK e \in Errors : gors' = [gors EXCEPT ![s].pc = "store", ![s].err = e]
      BY <1>1 DEF Returns
    <2>2. gors[s] \in Goroutines
      OBVIOUS
    <2>3. gors'[s] = [gors[s] EXCEPT !.pc = "store", !.err = e]
      BY <2>1
    <2> QED
      BY <2>1, <2>2, <2>3 DEF Goroutines
  <1>3. /\ mr.finalizer /\ mr.present
        /\ \A t \in Slots : InFlight(t) => t = s
    BY <1>1 DEF FinalizerHeld, SingleFlight
  <1>4. NameId # NoId /\ NameId \in Ids
    BY ConfigAssumption
  \* The call leaves no instance, or one that the cached state has.
  <1>5. /\ tracker'.state \in {NameId, NoId}
        /\ Live' \subseteq {NameId}
        /\ Live' # {} => tracker'.state = NameId
        /\ gors[s].op # "create" => Live' \subseteq Live
        /\ tracker'.deleted = tracker.deleted \/ (gors[s].op = "delete" /\ Live' = {})
    <2>0. Live # {} => tracker.state = NameId
      BY <1>0, <1>1 DEF StateFound
    <2>1. CASE Create(s)
      <3>1. Live = {}
        BY <1>0, <1>1, <2>1 DEF CreatesFirst, Create
      <3>2. CASE UNCHANGED world
        <4>1. Live' = {}
          BY <3>1, <3>2 DEF Live
        <4>2. tracker' = tracker \/ \E i \in {NameId, NoId} : tracker' = SetTfState(tracker, i)
          BY <1>4, <2>1, <3>1, <3>2
          DEF Create, CreateSucceeds, CreatePartially, CreateFails, NewIds
        <4>3. tracker'.state \in {NameId, NoId} /\ tracker'.deleted = tracker.deleted
          BY <1>0, <4>2 DEF NamesKnown, SetTfState, Trackers
        <4> QED
          BY <2>1, <4>1, <4>3 DEF Create
      <3>3. CASE ~UNCHANGED world
        <4>1. /\ world' = [world EXCEPT ![NameId] = gors[s].spec]
              /\ tracker' = SetTfState(tracker, NameId) \/ (tracker' = tracker /\ HasState(tracker))
          BY <2>1, <3>3
          DEF Create, CreateSucceeds, CreatePartially, CreateFails, NewIds, StoresPartialState
        <4>2. tracker'.state = NameId /\ tracker'.deleted = tracker.deleted
          BY <1>0, <4>1 DEF NamesKnown, HasState, SetTfState, Trackers
        <4>3. Live' \subseteq {NameId}
          BY <1>4, <3>1, <4>1 DEF Live
        <4> QED
          BY <2>1, <4>2, <4>3 DEF Create
      <3> QED
        BY <3>2, <3>3
    <2>2. CASE Update(s)
      <3>1. tracker'.state = tracker.state /\ tracker'.deleted = tracker.deleted
        BY <2>2 DEF Update, SetTfState, Trackers
      <3>2. Live' \subseteq Live
        BY <2>2 DEF Update, Exists, Live
      <3> QED
        BY <1>0, <2>0, <3>1, <3>2 DEF NamesKnown
    <2>3. CASE Delete(s)
      <3>1. CASE UNCHANGED <<world, tracker>>
        BY <1>0, <2>0, <3>1 DEF NamesKnown, Live
      <3>2. CASE ~UNCHANGED <<world, tracker>>
        <4>1. /\ tracker' = SetDeleted(SetTfState(tracker, NoId), TRUE)
              /\ world' = IF Exists(tracker.state)
                          THEN [world EXCEPT ![tracker.state] = Gone] ELSE world
          BY <2>3, <3>2 DEF Delete
        <4>2. tracker'.state = NoId
          BY <4>1 DEF SetDeleted, SetTfState, Trackers
        <4>3. Live' = {}
          <5>1. CASE Live = {}
            BY <4>1, <5>1 DEF Live, Exists
          <5>2. CASE Live # {}
            <6>1. tracker.state = NameId /\ Live = {NameId}
              BY <1>0, <2>0, <5>2 DEF NamesKnown
            <6>2. world' = [world EXCEPT ![NameId] = Gone]
              BY <1>4, <4>1, <6>1 DEF Live, Exists
            <6> QED
              BY <6>1, <6>2 DEF Live
          <5> QED
            BY <5>1, <5>2
        <4> QED
          BY <2>3, <4>2, <4>3 DEF Delete
      <3> QED
        BY <3>1, <3>2
    <2> QED
      BY <2>1, <2>2, <2>3 DEF ProviderCall
  <1>6. DeletionBegun' => DeletionBegun
    BY <1>1, <1>2, <1>5 DEF DeletionBegun, InFlight
  <1>7. NamesKnown' /\ StateFound' /\ FinalizerGuards'
    BY <1>0, <1>1, <1>3, <1>5 DEF NamesKnown, StateFound, FinalizerGuards
  <1>8. ViewSound'
    BY <1>0, <1>1, <1>6 DEF ViewSound
  <1>9. ObservedSound'
    <2>1. ~(worker.pc = "decide" /\ ~worker.obs.exists) /\ ~(worker.pc = "start" /\ worker.op = "create")
      BY <1>0, <1>1 DEF ObservedSound, WorkerAlone, Bookkeeping
    <2> QED
      BY <1>0, <1>1, <2>1 DEF ObservedSound
  <1>10. CreatesFirst'
    BY <1>2, <1>3 DEF CreatesFirst, InFlight
  <1>11. DeletionStays'
    <2>1. tracker'.deleted => Live' = {}
      <3>1. CASE gors[s].op = "create"
        BY <1>0, <1>1, <1>5, <3>1 DEF CreatesFirst
      <3>2. CASE gors[s].op # "create"
        BY <1>0, <1>5, <3>2 DEF DeletionStays
      <3> QED
        BY <3>1, <3>2
    <2> QED
      BY <1>0, <1>1, <1>6, <2>1 DEF DeletionStays
  <1> QED
    BY <1>7, <1>8, <1>9, <1>10, <1>11 DEF GInv

\* What the publication and the callback leave as it is.
LEMMA GoroutineLeaves ==
    ASSUME IInv, NEW s \in Slots, Goroutine(s), ~ProviderCall(s)
    PROVE  /\ UNCHANGED world
           /\ tracker'.state = tracker.state /\ tracker'.deleted = tracker.deleted
           /\ tracker'.mark = tracker.mark
           /\ mr'.present = mr.present /\ mr'.deleting = mr.deleting
           /\ mr'.finalizer = mr.finalizer /\ mr'.extName = mr.extName
           /\ worker'.pc = worker.pc /\ worker'.op = worker.op /\ worker'.obs = worker.obs
           /\ worker'.view = worker.view /\ (worker'.fresh => worker.fresh)
           /\ \A t \in Slots :
                /\ InFlight(t)' => InFlight(t) /\ gors'[t].op = gors[t].op
                /\ gors'[t].pc # "call" \/ (gors[t].pc = "call" /\ gors'[t].op = gors[t].op)
  <1> USE DEF IInv, TypeOK
  <1>1. /\ UNCHANGED world
        /\ tracker'.state = tracker.state /\ tracker'.deleted = tracker.deleted
        /\ tracker'.mark = tracker.mark
    BY DEF Goroutine, PublishError, EndOperation, CallbackGet, CallbackPut, Trackers
  <1>2. /\ mr'.present = mr.present /\ mr'.deleting = mr.deleting
        /\ mr'.finalizer = mr.finalizer /\ mr'.extName = mr.extName
    BY DEF Goroutine, PublishError, EndOperation, CallbackGet, CallbackPut, MRs
  <1>3. /\ worker'.pc = worker.pc /\ worker'.op = worker.op /\ worker'.obs = worker.obs
        /\ worker'.view = worker.view /\ (worker'.fresh => worker.fresh)
    BY DEF Goroutine, PublishError, EndOperation, CallbackGet, CallbackPut, StaleWorker, Workers
  <1>4. \A t \in Slots : /\ InFlight(t)' => InFlight(t) /\ gors'[t].op = gors[t].op
                         /\ gors'[t].pc # "call" \/ (gors[t].pc = "call" /\ gors'[t].op = gors[t].op)
    <2>1. CASE PublishError(s)
      BY <2>1 DEF PublishError, InFlight, Goroutines
    <2>2. CASE EndOperation(s)
      BY <2>2 DEF EndOperation, InFlight, Goroutines
    <2>3. CASE gors' = [gors EXCEPT ![s] = FreeGoroutine]
      BY <2>3 DEF FreeGoroutine, InFlight
    <2>4. CASE gors' = [gors EXCEPT ![s].pc = "put", ![s].fresh = TRUE]
      BY <2>4, ZenonT(60) DEF InFlight, Goroutines
    <2>5. CASE gors' = [StaleGoroutines EXCEPT ![s] = FreeGoroutine]
      BY <2>5 DEF StaleGoroutines, FreeGoroutine, InFlight, Goroutines
    <2> QED
      BY <2>1, <2>2, <2>3, <2>4, <2>5 DEF Goroutine, CallbackGet, CallbackPut
  <1> QED
    BY <1>1, <1>2, <1>3, <1>4

\* The publication and the callback: operations end, the instance and what is known of it stay.
LEMMA GoroutineGuards ==
    ASSUME ~ProviderIds, ~LogicalDelete, IInv, GInv, NEW s \in Slots, Goroutine(s)
    PROVE  GInv'
  <1> USE DEF IInv, TypeOK
  <1>0. /\ TypeOK /\ NamesKnown /\ ViewSound /\ StateFound /\ ObservedSound
        /\ CreatesFirst /\ DeletionStays /\ FinalizerGuards
    BY DEF GInv
  <1>1. CASE ProviderCall(s)
    BY <1>1, ProviderCallGuards
  <1>2. CASE ~ProviderCall(s)
    BY <1>2, GoroutineLeaves, GuardsStay
  <1> QED
    BY <1>1, <1>2

\* The steps of the environment.
LEMMA EnvironmentGuards ==
    ASSUME ~ProviderIds, IInv, GInv, Environment
    PROVE  GInv'
  <1> USE DEF IInv, TypeOK
  <1>0. /\ TypeOK /\ NamesKnown /\ ViewSound /\ StateFound /\ ObservedSound
        /\ CreatesFirst /\ DeletionStays /\ FinalizerGuards
    BY DEF GInv
  <1>1. CASE UserChangesSpec \/ (UserDeletes /\ mr.finalizer)
    <2>1. /\ UNCHANGED <<world, tracker>> /\ gors' = StaleGoroutines
          /\ mr'.present = mr.present /\ (mr.deleting => mr'.deleting)
          /\ mr'.finalizer = mr.finalizer /\ mr'.extName = mr.extName
      BY <1>1 DEF UserChangesSpec, UserDeletes, MRs
    <2>2. /\ worker'.pc = worker.pc /\ worker'.op = worker.op /\ worker'.obs = worker.obs
          /\ worker'.view = worker.view /\ ~worker'.fresh
      BY <1>1 DEF UserChangesSpec, UserDeletes, StaleWorker, Workers
    <2>3. SameCalls
      BY <2>1, StaleSameCalls
    <2>4. \A t \in Slots : /\ InFlight(t)' => InFlight(t) /\ gors'[t].op = gors[t].op
                           /\ gors'[t].pc # "call" \/ (gors[t].pc = "call" /\ gors'[t].op = gors[t].op)
      BY <2>3 DEF SameCalls, InFlight
    <2> QED
      BY <1>0, <2>1, <2>2, <2>4, GuardsStay
  \* Without the finalizer there is nothing to guard.
  <1>2. CASE UserDeletes /\ ~mr.finalizer
    <2>1. /\ UNCHANGED <<world, tracker>> /\ mr' = NoMR /\ ~mr.deleting /\ gors' = StaleGoroutines
          /\ worker'.pc = worker.pc /\ worker'.op = worker.op /\ worker'.obs = worker.obs
          /\ worker'.view = worker.view /\ ~worker'.fresh
      BY <1>2 DEF UserDeletes, StaleWorker, Workers
    <2>2. Live = {} /\ Live' = {}
      BY <1>0, <1>2, <2>1 DEF FinalizerGuards, Live
    <2>3. SameCalls
      BY <2>1, StaleSameCalls
    <2>4. ~DeletionBegun'
      BY <1>0, <2>1, <2>3 DEF DeletionStays, DeletionBegun, SameCalls, InFlight
    <2>5. NamesKnown' /\ DeletionStays' /\ FinalizerGuards' /\ StateFound'
      BY <1>0, <2>1, <2>2, <2>4, NamesOfNew
      DEF NamesKnown, DeletionStays, FinalizerGuards, StateFound
    <2>6. ViewSound' /\ ObservedSound'
      BY <1>0, <2>1, <2>2, <2>4 DEF ViewSound, ObservedSound
    <2>7. CreatesFirst'
      BY <1>0, <2>1, <2>2, <2>3 DEF CreatesFirst, SameCalls
    <2> QED
      BY <2>5, <2>6, <2>7 DEF GInv
  <1>3. CASE UserRecreates
    <2>1. /\ ~mr.present /\ worker.pc \in {"idle", "get"} /\ UNCHANGED <<world, worker, gors>>
          /\ tracker' = NewAsyncTracker /\ mr'.extName = NameId
      BY <1>3, NamesOfNew DEF UserRecreates
    <2>2. Live = {} /\ Live' = {}
      BY <1>0, <2>1 DEF FinalizerGuards, Live
    <2>3. \A s \in Slots : ~InFlight(s) /\ ~InFlight(s)'
      BY <2>1 DEF FinalizerHeld, InFlight
    <2>4. ~DeletionBegun'
      BY <2>1, <2>3 DEF DeletionBegun, NewAsyncTracker
    <2>5. NamesKnown' /\ DeletionStays' /\ FinalizerGuards' /\ StateFound'
      BY <2>1, <2>2, <2>4 DEF NamesKnown, DeletionStays, FinalizerGuards, StateFound, NewAsyncTracker
    <2>6. ViewSound' /\ ObservedSound' /\ CreatesFirst'
      BY <2>1, <2>2 DEF ViewSound, ObservedSound, CreatesFirst, NewAsyncTracker
    <2> QED
      BY <2>5, <2>6 DEF GInv
  <1>4. CASE ExternalDrift \/ ExternalVanish
    <2>1. UNCHANGED <<mr, tracker, worker, gors>>
      BY <1>4 DEF ExternalDrift, ExternalVanish
    <2>2. Live' \subseteq Live
      BY <1>4 DEF ExternalDrift, ExternalVanish, Live
    <2>3. DeletionBegun' <=> DeletionBegun
      BY <2>1 DEF DeletionBegun, InFlight
    <2>4. (\E s \in Slots : InFlight(s))' <=> \E s \in Slots : InFlight(s)
      BY <2>1 DEF InFlight
    <2> QED
      BY <1>0, <2>1, <2>2, <2>3, <2>4
      DEF GInv, NamesKnown, ViewSound, StateFound, ObservedSound, CreatesFirst, DeletionStays,
          FinalizerGuards
  <1>5. CASE Crash
    <2>1. /\ UNCHANGED <<mr, world>> /\ worker'.pc = "idle"
          /\ tracker'.state = NoId /\ ~tracker'.deleted
          /\ \A s \in Slots : gors'[s].pc = "free"
      BY <1>5 DEF Crash, IdleWorker, NewAsyncTracker, FreeGoroutine
    <2>2. Live' = Live /\ ~DeletionBegun' /\ \A s \in Slots : ~InFlight(s)'
      BY <2>1 DEF Live, DeletionBegun, InFlight
    <2> QED
      BY <1>0, <2>1, <2>2
      DEF GInv, NamesKnown, ViewSound, StateFound, ObservedSound, CreatesFirst, DeletionStays,
          FinalizerGuards
  <1> QED
    BY <1>1, <1>2, <1>3, <1>4, <1>5 DEF Environment

\* The invariant is inductive.
LEMMA GuardsInductive ==
    ASSUME ~ProviderIds, ~LogicalDelete, "readMisses" \notin Faults
    PROVE  /\ Init => GInv
           /\ IInv /\ GInv /\ [Next]_vars => GInv'
  <1>1. Init => GInv
    <2> SUFFICES ASSUME Init PROVE GInv
      OBVIOUS
    <2>1. /\ Live = {} /\ worker.pc = "idle" /\ tracker.state = NoId /\ ~tracker.deleted
          /\ \A s \in Slots : gors[s].pc = "free"
      BY DEF Init, Live, IdleWorker, NewAsyncTracker, FreeGoroutine
    <2>2. mr.extName = NameId
      BY NamesOfNew DEF Init
    <2>3. ~DeletionBegun
      BY <2>1 DEF DeletionBegun, InFlight
    <2> QED
      BY <2>1, <2>2, <2>3
      DEF GInv, NamesKnown, ViewSound, StateFound, ObservedSound, CreatesFirst, DeletionStays,
          FinalizerGuards
  <1>2. IInv /\ GInv /\ [Next]_vars => GInv'
    <2> SUFFICES ASSUME IInv, GInv, [Next]_vars PROVE GInv'
      OBVIOUS
    <2>1. CASE UNCHANGED <<mr, world, tracker, worker, gors>>
      BY <2>1
      DEF GInv, NamesKnown, ViewSound, StateFound, ObservedSound, CreatesFirst, DeletionStays,
          FinalizerGuards, DeletionBegun, InFlight, Live
    <2> QED
      BY <2>1, ReconcileGuards, GoroutineGuards, EnvironmentGuards
      DEF Next, TimerFires, Terminated, vars
  <1> QED
    BY <1>1, <1>2

\* If the identifier is computed from the spec, a successful delete call deletes, and no read
\* misses what exists, an instance exists only while an MR with the finalizer owns it,
\* whatever else fails, crashes, drifts or is recreated meanwhile.
THEOREM InstancesAreGuarded ==
    ASSUME ~ProviderIds, ~LogicalDelete, "readMisses" \notin Faults
    PROVE  Spec => []FinalizerGuards
  <1>1. (Init => GInv) /\ (IInv /\ GInv /\ [Next]_vars => GInv')
    BY GuardsInductive
  <1>2. GInv => FinalizerGuards
    BY DEF GInv
  <1> QED
    BY <1>1, <1>2, Inductive, PTL DEF Spec

--------------------------------------------------------------------------------
(* No instance is forgotten but by Connect.  Where the external API generates the     *)
(* identifiers, an instance is known by the cached state or by the MR; the invariant  *)
(* follows which of the two has it.                                                   *)

\* Who has a name has the finalizer.
NamesHeld ==
    /\ mr.extName # NoId => mr.finalizer
    /\ tracker.state # NoId => mr.finalizer
    /\ worker.pc \notin {"idle", "get"} /\ worker.view.extName # NoId => mr.finalizer

\* What has a name exists, until its MR is deleted.
NamesExist ==
    /\ mr.extName # NoId => Exists(mr.extName) \/ mr.deleting
    /\ tracker.state # NoId => Exists(tracker.state) \/ mr.deleting

\* The cached state does not contradict the MR, and has its instance while somebody acts on it.
StateKnown ==
    Exists(mr.extName) =>
        /\ tracker.state \in {NoId, mr.extName}
        /\ worker.pc \in {"observe", "read", "decide", "start"} \/ (\E s \in Slots : InFlight(s))
            => tracker.state = mr.extName

\* What is marked as reconstructed is what the MR says.
MarkSound == tracker.mark = "reconstructed" => tracker.state = mr.extName

\* The copy of the worker has the name of the MR, or one that it is about to record.
CopySound ==
    /\ worker.pc \in {"connect", "reconstruct", "observe", "read"} => worker.view.extName = mr.extName
    /\ worker.pc = "decide" =>
        \/ worker.view.extName = mr.extName
        \/ /\ worker.view.extName = tracker.state /\ tracker.state # NoId
           /\ tracker.mark = "default" /\ ~worker.obs.running
    /\ worker.pc \notin {"idle", "get"} =>
        /\ worker.view.deleting => mr.deleting
        /\ worker.fresh /\ mr.deleting => worker.view.deleting

\* Nothing is known where the worker has found nothing, and where it creates.
AbsentSound ==
    /\ worker.pc = "decide" /\ ~worker.obs.exists =>
        /\ ~Exists(mr.extName) /\ ~Exists(tracker.state)
        /\ worker.view.deleting \/ tracker.state = NoId
    /\ worker.pc = "start" /\ worker.op = "create" =>
        mr.extName = NoId /\ tracker.state = NoId /\ ~worker.obs.running /\ ~tracker.deleted
    /\ worker.pc = "start" /\ worker.op = "delete" => worker.view.deleting

CreatesUnknown ==
    \A s \in Slots : gors[s].pc = "call" /\ gors[s].op = "create" =>
        mr.extName = NoId /\ tracker.state = NoId /\ ~tracker.deleted

\* An operation deletes only what is to be deleted, and what it has deleted is not there.
DeletionSound ==
    /\ DeletionBegun => mr.deleting
    /\ tracker.deleted => ~Exists(mr.extName) /\ ~Exists(tracker.state)

KInv == /\ NamesHeld /\ NamesExist /\ StateKnown /\ MarkSound /\ CopySound
        /\ AbsentSound /\ CreatesUnknown /\ DeletionSound

Remembered == NoneForgotten => NoneForgotten'

\* An MR that does not exist, and a new one.
LEMMA NoNames ==
    ASSUME ProviderIds
    PROVE  /\ ~NoMR.deleting /\ ~NoMR.finalizer /\ NoMR.extName = NoId
           /\ \A s \in Specs : NewMR(s).extName = NoId /\ ~NewMR(s).deleting
  BY NewTypes DEF NoMR, NewMR, FirstName

\* A step of the worker that leaves the names and the external resource as they are.
LEMMA WorkerKnows ==
    ASSUME KInv, SameCalls, world' = world,
           mr'.extName = mr.extName, mr'.deleting = mr.deleting, mr.finalizer => mr'.finalizer,
           tracker'.state = tracker.state, tracker'.deleted = tracker.deleted,
           tracker'.mark = "reconstructed" => tracker.mark = "reconstructed",
           worker'.pc \in {"observe", "read", "decide", "start"} =>
               \/ worker.pc \in {"observe", "read", "decide", "start"}
               \/ Exists(mr.extName) => tracker.state = mr.extName,
           worker'.pc \notin {"idle", "get"} /\ worker'.view.extName # NoId => mr.finalizer,
           CopySound', AbsentSound'
    PROVE  KInv' /\ Remembered
  <1>1. NamesHeld' /\ NamesExist'
    BY DEF KInv, NamesHeld, NamesExist, Exists
  <1>2. (\E s \in Slots : InFlight(s))' <=> \E s \in Slots : InFlight(s)
    BY DEF SameCalls, InFlight
  <1>3. StateKnown' /\ MarkSound'
    BY <1>2 DEF KInv, StateKnown, MarkSound, Exists
  <1>4. DeletionBegun' <=> DeletionBegun
    BY DEF SameCalls, DeletionBegun, InFlight
  <1>5. DeletionSound' /\ CreatesUnknown'
    BY <1>4 DEF KInv, DeletionSound, CreatesUnknown, SameCalls, Exists
  <1>6. Remembered
    BY DEF Remembered, NoneForgotten, Live
  <1> QED
    BY <1>1, <1>3, <1>5, <1>6 DEF KInv

\* The steps of the reconcile worker; a reconstruction alone may forget.
LEMMA ReconcileKnows ==
    ASSUME ProviderIds, "readMisses" \notin Faults, IInv, KInv, Reconcile
    PROVE  KInv' /\ (worker.pc = "reconstruct" \/ Remembered)
  <1> USE DEF IInv, TypeOK
  <1>0. /\ TypeOK /\ NamesHeld /\ NamesExist /\ StateKnown /\ MarkSound /\ CopySound
        /\ AbsentSound /\ CreatesUnknown /\ DeletionSound
    BY DEF KInv
  <1>a. IdleWorker.pc = "idle"
    BY DEF IdleWorker
  <1>1. CASE Dequeue
    <2>1. /\ worker'.pc = "get" /\ UNCHANGED <<mr, world, tracker, gors>>
      BY <1>1 DEF Dequeue, Workers
    <2>2. SameCalls
      BY <2>1, StaleSameCalls
    <2>3. CopySound' /\ AbsentSound'
      BY <2>1 DEF CopySound, AbsentSound
    <2> QED
      BY <2>1, <2>2, <2>3, WorkerKnows
  <1>2. CASE GetMR
    <2>1. /\ UNCHANGED <<mr, world, tracker, gors>>
          /\ \/ worker'.pc = "idle"
             \/ worker'.pc = "connect" /\ worker'.view = mr
      <3>1. CASE worker' = IdleWorker
        BY <1>2, <1>a, <3>1 DEF GetMR
      <3>2. CASE worker' # IdleWorker
        BY <1>2, <3>2 DEF GetMR, Complete, Workers
      <3> QED
        BY <3>1, <3>2
    <2>2. SameCalls
      BY <2>1, StaleSameCalls
    <2>3. CopySound' /\ AbsentSound'
      BY <2>1 DEF CopySound, AbsentSound
    <2> QED
      BY <1>0, <2>1, <2>2, <2>3, WorkerKnows DEF NamesHeld
  <1>3. CASE ConnectCheckState
    <2>1. /\ UNCHANGED <<mr, world, tracker, gors>>
          /\ worker'.pc = IF HasState(tracker) THEN "observe" ELSE "reconstruct"
          /\ worker'.view = worker.view /\ worker'.fresh = worker.fresh /\ worker.pc = "connect"
      BY <1>3 DEF ConnectCheckState, Workers
    <2>2. SameCalls
      BY <2>1, StaleSameCalls
    <2>3. CopySound' /\ AbsentSound'
      BY <1>0, <2>1 DEF CopySound, AbsentSound
    <2>4. worker'.pc = "observe" => (Exists(mr.extName) => tracker.state = mr.extName)
      BY <1>0, <2>1 DEF StateKnown, HasState
    <2> QED
      BY <1>0, <2>1, <2>2, <2>3, <2>4, WorkerKnows DEF NamesHeld
  <1>4. CASE ConnectReconstruct
    <2>1. /\ UNCHANGED <<mr, world, gors>>
          /\ worker'.pc = "observe" /\ worker.pc = "reconstruct"
          /\ worker'.view = worker.view /\ worker'.fresh = worker.fresh
          /\ tracker' = SetReconstructedTfState(tracker, worker.view.extName)
      BY <1>4 DEF ConnectReconstruct, Workers
    <2>2. tracker'.state = mr.extName /\ tracker'.deleted = tracker.deleted
      BY <1>0, <2>1 DEF CopySound, SetReconstructedTfState, Trackers
    <2>3. NamesHeld' /\ NamesExist' /\ StateKnown' /\ MarkSound'
      BY <1>0, <2>1, <2>2 DEF NamesHeld, NamesExist, StateKnown, MarkSound, Exists
    <2>4. CopySound' /\ AbsentSound' /\ CreatesUnknown'
      BY <1>0, <2>1, <2>2 DEF CopySound, AbsentSound, CreatesUnknown
    <2>5. DeletionSound'
      BY <1>0, <2>1, <2>2 DEF DeletionSound, DeletionBegun, InFlight, Exists
    <2> QED
      BY <2>1, <2>3, <2>4, <2>5 DEF KInv
  <1>5. CASE ObserveOperation
    <2>1. /\ UNCHANGED <<mr, world, gors>> /\ worker.pc = "observe"
          /\ tracker'.state = tracker.state /\ tracker'.deleted = tracker.deleted
          /\ tracker'.mark = tracker.mark /\ tracker.mark \in StateMarks
      BY <1>5 DEF ObserveOperation, Trackers
    <2>2. worker.view.extName = mr.extName
      BY <1>0, <2>1 DEF CopySound
    <2>3. /\ worker'.pc \in {"read", "decide"}
          /\ worker'.view.deleting = worker.view.deleting /\ worker'.fresh = worker.fresh
          /\ \/ worker'.view.extName = mr.extName
             \/ worker'.view.extName = tracker.state /\ tracker.state # NoId
                /\ tracker.mark = "default" /\ worker'.pc = "decide"
                /\ ~worker'.obs.running
          /\ worker'.pc = "decide" /\ ~worker'.obs.exists =>
                tracker.deleted /\ worker.view.deleting
      <3>1. CASE Busy
        <4>1. worker' = [worker EXCEPT !.pc = "decide", !.obs = RunningObservation]
          BY <1>5, <3>1 DEF ObserveOperation
        <4> QED
          BY <2>2, <4>1 DEF Workers, RunningObservation
      <3>2. CASE ~Busy /\ RecoversExternalName
        <4>1. worker' = [worker EXCEPT !.pc = "decide", !.obs = RecoveredObservation,
                                       !.view.extName = tracker.state]
          BY <1>5, <3>2 DEF ObserveOperation
        <4>2. tracker.state # NoId /\ mr.extName = NoId
          BY <2>2, <3>2 DEF RecoversExternalName, HasState
        <4>3. tracker.mark = "default"
          BY <1>0, <2>1, <4>2 DEF MarkSound, StateMarks
        <4> QED
          BY <4>1, <4>2, <4>3 DEF Workers, MRs, RecoveredObservation
      <3>3. CASE ~Busy /\ ~RecoversExternalName
        <4>1. worker' = [worker EXCEPT !.pc = IF worker.view.deleting /\ tracker.deleted
                                              THEN "decide" ELSE "read"]
          BY <1>5, <3>3 DEF ObserveOperation
        <4> QED
          BY <2>2, <4>1 DEF Workers
      <3> QED
        BY <3>1, <3>2, <3>3
    <2>4. SameCalls
      BY <2>1, StaleSameCalls
    <2>5. CopySound'
      BY <1>0, <2>1, <2>3 DEF CopySound
    <2>6. AbsentSound'
      BY <1>0, <2>1, <2>3 DEF AbsentSound, DeletionSound, Exists
    <2>7. worker'.view.extName # NoId => mr.finalizer
      BY <1>0, <2>3 DEF NamesHeld
    <2> QED
      BY <2>1, <2>4, <2>5, <2>6, <2>7, WorkerKnows
  <1>6. CASE ObserveRead
    <2>1. /\ UNCHANGED <<mr, world, gors>> /\ worker.pc = "read"
          /\ worker.view.extName = mr.extName
      BY <1>0, <1>6 DEF ObserveRead, CopySound
    <2>2. \A s \in Slots : ~InFlight(s)
      BY <2>1 DEF WorkerAlone, SingleFlight, Bookkeeping
    <2>3. SameCalls
      BY <2>1, StaleSameCalls
    <2>4. CASE ReadFound
      <3>1. /\ tracker'.state = tracker.state /\ tracker'.deleted = tracker.deleted
            /\ tracker'.mark = "default" /\ tracker.state # NoId
        BY <2>4 DEF ReadFound, Exists, SetTfState, Trackers
      <3>2. /\ worker'.pc = "decide" /\ worker'.view.extName = tracker.state
            /\ worker'.view.deleting = worker.view.deleting /\ worker'.obs.exists
            /\ worker'.fresh = worker.fresh /\ ~worker'.obs.running
        BY <2>4 DEF ReadFound, Workers, MRs
      <3>3. CopySound' /\ AbsentSound'
        BY <1>0, <2>1, <3>1, <3>2 DEF CopySound, AbsentSound
      <3> QED
        BY <1>0, <2>1, <2>3, <3>1, <3>2, <3>3, WorkerKnows DEF NamesHeld
    <2>5. CASE ReadNotFound
      <3>1. ~Exists(tracker.state)
        BY <2>5 DEF ReadNotFound, Happens
      <3>2. ~Exists(mr.extName)
        BY <1>0, <2>1, <3>1 DEF StateKnown
      <3>3. tracker'.state = NoId /\ tracker'.deleted = tracker.deleted /\ tracker'.mark = "default"
        BY <2>5 DEF ReadNotFound, SetTfState, Trackers
      <3>4. worker'.pc = "decide" /\ worker'.view = worker.view /\ worker'.fresh = worker.fresh
        BY <2>5 DEF ReadNotFound, Workers
      <3>5. NamesHeld' /\ NamesExist' /\ StateKnown' /\ MarkSound'
        BY <1>0, <2>1, <3>2, <3>3, <3>4 DEF NamesHeld, NamesExist, StateKnown, MarkSound, Exists
      <3>6. CopySound' /\ AbsentSound' /\ CreatesUnknown'
        BY <1>0, <2>1, <3>2, <3>3, <3>4 DEF CopySound, AbsentSound, CreatesUnknown, Exists
      <3>7. DeletionSound'
        BY <1>0, <2>1, <3>3 DEF DeletionSound, DeletionBegun, InFlight, Exists
      <3>8. Remembered
        BY <3>1, <3>2, <2>1, ConfigAssumption DEF Remembered, NoneForgotten, Live, Exists
      <3> QED
        BY <3>5, <3>6, <3>7, <3>8 DEF KInv
    <2>6. CASE ReadError
      <3>1. worker'.pc = "finish" /\ worker'.view = worker.view /\ worker'.fresh = worker.fresh
        BY <2>6 DEF ReadError, Workers
      <3>2. CopySound' /\ AbsentSound'
        BY <1>0, <2>1, <3>1 DEF CopySound, AbsentSound
      <3>3. CASE tracker.mark # "reconstructed"
        <4>1. tracker' = tracker
          BY <2>6, <3>3 DEF ReadError, ResetReconstructedTfState
        <4> QED
          BY <1>0, <2>1, <2>3, <3>1, <3>2, <4>1, WorkerKnows DEF NamesHeld
      <3>4. CASE tracker.mark = "reconstructed"
        <4>1. tracker.state = mr.extName
          BY <1>0, <3>4 DEF MarkSound
        <4>2. tracker'.state = NoId /\ tracker'.deleted = tracker.deleted /\ tracker'.mark = "default"
          BY <2>6, <3>4 DEF ReadError, ResetReconstructedTfState, SetTfState, Trackers
        <4>3. NamesHeld' /\ NamesExist' /\ MarkSound'
          BY <1>0, <2>1, <3>1, <4>2 DEF NamesHeld, NamesExist, MarkSound, Exists
        <4>4. StateKnown'
          BY <2>1, <2>2, <3>1, <4>2 DEF StateKnown, InFlight
        <4>5. CreatesUnknown' /\ DeletionSound'
          BY <1>0, <2>1, <4>2 DEF CreatesUnknown, DeletionSound, DeletionBegun, InFlight, Exists
        <4>6. Remembered
          BY <2>1, <4>1 DEF Remembered, NoneForgotten, Live
        <4> QED
          BY <3>2, <4>3, <4>4, <4>5, <4>6 DEF KInv
      <3> QED
        BY <3>3, <3>4
    <2> QED
      BY <1>6, <2>4, <2>5, <2>6 DEF ObserveRead
  <1>7. CASE RemoveFinalizer
    <2>1. /\ worker.pc = "decide" /\ ~worker.obs.exists /\ UNCHANGED world
          /\ tracker' = NewAsyncTracker
          /\ gors' = gors \/ gors' = StaleGoroutines
      BY <1>7 DEF RemoveFinalizer
    <2>2. ~Exists(mr.extName) /\ ~Exists(tracker.state)
      BY <1>0, <2>1 DEF AbsentSound
    <2>3. \A s \in Slots : ~InFlight(s)
      BY <2>1 DEF WorkerAlone, SingleFlight, Bookkeeping
    <2>4. SameCalls
      BY <1>0, <2>1, StaleSameCalls
    <2>5. ~DeletionBegun' /\ \A s \in Slots : ~InFlight(s)'
      BY <2>1, <2>3, <2>4 DEF DeletionBegun, SameCalls, InFlight, NewAsyncTracker
    <2>6. \/ worker'.pc = "idle" /\ mr' = NoMR
          \/ /\ worker'.pc = "finish" /\ mr' = mr
             /\ worker'.view = worker.view /\ worker'.fresh = worker.fresh
      <3>1. CASE Complete("none") /\ mr' = NoMR
        BY <1>a, <3>1 DEF Complete
      <3>2. CASE Finish("soon") /\ mr' = mr
        BY <3>2 DEF Finish, Workers
      <3> QED
        BY <1>7, <3>1, <3>2 DEF RemoveFinalizer
    <2>7. ~Exists(mr.extName)'
      BY <2>1, <2>2, <2>6, NoNames DEF Exists
    <2>8. NamesHeld' /\ NamesExist'
      BY <1>0, <2>1, <2>6, NoNames DEF NamesHeld, NamesExist, NewAsyncTracker, Exists
    <2>9. StateKnown' /\ MarkSound' /\ DeletionSound'
      BY <2>1, <2>5, <2>7 DEF StateKnown, MarkSound, DeletionSound, NewAsyncTracker, Exists
    <2>10. CopySound' /\ AbsentSound'
      BY <1>0, <2>1, <2>6 DEF CopySound, AbsentSound
    <2>11. CreatesUnknown'
      BY <2>5 DEF CreatesUnknown, InFlight
    <2>12. Remembered
      BY <2>1, <2>2, ConfigAssumption DEF Remembered, NoneForgotten, Live, Exists
    <2> QED
      BY <2>8, <2>9, <2>10, <2>11, <2>12 DEF KInv
  <1>8. CASE DecideDelete \/ DecideUpToDateOrUpdate
    <2>1. /\ worker.pc = "decide" /\ worker'.pc \in {"start", "finish"}
          /\ worker'.view = worker.view /\ worker'.fresh = worker.fresh
          /\ worker'.pc = "start" => \/ worker'.op = "delete" /\ worker.view.deleting
                                     \/ worker'.op = "update"
          /\ UNCHANGED <<mr, world, tracker, gors>>
      BY <1>8 DEF DecideDelete, DecideUpToDateOrUpdate, Finish, Workers
    <2>2. SameCalls
      BY <2>1, StaleSameCalls
    <2>3. CopySound' /\ AbsentSound'
      BY <1>0, <2>1 DEF CopySound, AbsentSound
    <2> QED
      BY <1>0, <2>1, <2>2, <2>3, WorkerKnows DEF NamesHeld
  <1>9. CASE AddFinalizer \/ DecideCreate \/ PersistExternalName
    <2>1. /\ worker.pc = "decide" /\ ~worker.view.deleting
          /\ UNCHANGED <<world, tracker>> /\ (gors' = gors \/ gors' = StaleGoroutines)
          /\ mr'.present = mr.present /\ mr'.deleting = mr.deleting
          /\ mr.finalizer => mr'.finalizer
          /\ mr'.extName \in {mr.extName, worker.view.extName}
          /\ worker'.pc \in {"decide", "start", "finish"}
          /\ worker'.fresh = worker.fresh
          /\ \/ worker'.view = worker.view /\ ~worker.fresh /\ worker'.pc = "finish"
             \/ worker'.view = mr' /\ worker.fresh
          /\ worker'.obs.exists = worker.obs.exists /\ worker'.obs.running = worker.obs.running
          /\ worker'.pc = "start" =>
                worker'.op = "create" /\ ~worker.obs.exists /\ worker.fresh
      BY <1>9, PersistsCopy
    <2>2. \/ mr'.extName = mr.extName
          \/ mr'.extName = tracker.state /\ tracker.state # NoId
      BY <1>0, <2>1 DEF CopySound
    <2>3. SameCalls
      BY <1>0, <2>1, StaleSameCalls
    <2>4. NamesHeld' /\ NamesExist'
      BY <1>0, <2>1, <2>2 DEF NamesHeld, NamesExist, Exists
    <2>5. Exists(mr.extName) => tracker.state = mr.extName
      BY <1>0, <2>1 DEF StateKnown
    <2>6. StateKnown' /\ MarkSound'
      BY <1>0, <2>1, <2>2, <2>5 DEF StateKnown, MarkSound, Exists
    <2>7. CopySound'
      BY <1>0, <2>1 DEF CopySound
    <2>8. worker'.pc = "start" => mr.extName = NoId /\ tracker.state = NoId /\ ~tracker.deleted
      BY <1>0, <2>1 DEF AbsentSound, CopySound, NamesExist, DeletionSound, DeletionBegun
    <2>9. AbsentSound'
      <3>1. worker'.pc = "decide" /\ ~worker'.obs.exists =>
              /\ ~Exists(mr'.extName) /\ ~Exists(tracker.state)
              /\ tracker.state = NoId
        BY <1>0, <2>1, <2>2 DEF AbsentSound
      <3>2. worker'.pc = "start" => mr'.extName = NoId /\ ~worker'.obs.running
        BY <2>1, <2>2, <2>8 DEF Bookkeeping
      <3> QED
        BY <2>1, <2>8, <3>1, <3>2 DEF AbsentSound, Exists
    <2>10. CreatesUnknown' /\ DeletionSound'
      <3>1. DeletionBegun' <=> DeletionBegun
        BY <2>1, <2>3 DEF SameCalls, DeletionBegun, InFlight
      <3> QED
        BY <1>0, <2>1, <2>2, <2>3, <3>1 DEF CreatesUnknown, DeletionSound, SameCalls, Exists
    <2>11. Remembered
      BY <2>1, <2>2, <2>5, ConfigAssumption DEF Remembered, NoneForgotten, Live, Exists
    <2> QED
      BY <2>4, <2>6, <2>7, <2>9, <2>10, <2>11 DEF KInv
  <1>10. CASE StartOperation
    <2>1. CASE Finish("soon") /\ UNCHANGED <<tracker, gors>>
      <3>1. /\ worker.pc = "start" /\ worker'.pc = "finish"
            /\ worker'.view = worker.view /\ worker'.fresh = worker.fresh
            /\ UNCHANGED <<mr, world, tracker, gors>>
        BY <1>10, <2>1 DEF StartOperation, Finish, Workers
      <3>2. SameCalls
        BY <3>1, StaleSameCalls
      <3>3. CopySound' /\ AbsentSound'
        BY <1>0, <3>1 DEF CopySound, AbsentSound
      <3> QED
        BY <1>0, <3>1, <3>2, <3>3, WorkerKnows DEF NamesHeld
    <2>2. CASE ~(Finish("soon") /\ UNCHANGED <<tracker, gors>>)
      <3>1. /\ worker.pc = "start" /\ CanStart(tracker.op)
            /\ tracker' = [tracker EXCEPT !.op = MarkStart(@, worker.op)]
            /\ worker' = [worker EXCEPT !.pc = "return"]
            /\ UNCHANGED <<mr, world>>
        BY <1>10, <2>2 DEF StartOperation
      <3>2. PICK s \in Slots :
              gors' = [gors EXCEPT ![s] = [FreeGoroutine EXCEPT
                          !.pc = "call", !.op = worker.op, !.spec = worker.view.spec]]
        BY <1>10, <2>2 DEF StartOperation
      <3>3. /\ tracker'.state = tracker.state /\ tracker'.deleted = tracker.deleted
            /\ tracker'.mark = tracker.mark
            /\ worker'.pc = "return" /\ worker'.view = worker.view /\ worker'.fresh = worker.fresh
        BY <3>1 DEF Trackers, Workers
      <3>4. /\ gors'[s].pc = "call" /\ gors'[s].op = worker.op
            /\ \A t \in Slots \ {s} : gors'[t] = gors[t]
        BY <3>2 DEF FreeGoroutine
      <3>5. NamesHeld' /\ NamesExist' /\ MarkSound'
        BY <1>0, <3>1, <3>3 DEF NamesHeld, NamesExist, MarkSound, Exists
      <3>6. StateKnown'
        BY <1>0, <3>1, <3>3 DEF StateKnown, Exists
      <3>7. CopySound' /\ AbsentSound'
        BY <1>0, <3>1, <3>3 DEF CopySound, AbsentSound
      <3>8. CreatesUnknown'
        BY <1>0, <3>1, <3>3, <3>4 DEF CreatesUnknown, AbsentSound
      <3>9. DeletionBegun' => mr.deleting
        <4>1. DeletionBegun' => DeletionBegun \/ worker.op = "delete"
          BY <3>3, <3>4 DEF DeletionBegun, InFlight
        <4> QED
          BY <1>0, <3>1, <4>1 DEF DeletionSound, AbsentSound, CopySound
      <3>10. DeletionSound'
        BY <1>0, <3>1, <3>3, <3>9 DEF DeletionSound, Exists
      <3>11. Remembered
        BY <3>1, <3>3 DEF Remembered, NoneForgotten, Live
      <3> QED
        BY <3>5, <3>6, <3>7, <3>8, <3>10, <3>11 DEF KInv
    <2> QED
      BY <2>1, <2>2
  <1>11. CASE ReturnFromStart
    <2>1. /\ worker.pc = "return" /\ UNCHANGED <<world, tracker>>
          /\ gors' = gors \/ gors' = StaleGoroutines
      BY <1>11 DEF ReturnFromStart
    <2>2. /\ mr'.deleting = mr.deleting
          /\ mr'.finalizer = mr.finalizer /\ mr'.extName = mr.extName
      BY <1>11 DEF ReturnFromStart, MRs
    <2>3. /\ worker'.pc = "finish"
          /\ \/ worker'.view = worker.view /\ worker'.fresh = worker.fresh
             \/ worker'.view = mr'
      BY <1>11 DEF ReturnFromStart, Finish, Workers
    <2>4. SameCalls
      BY <1>0, <2>1, StaleSameCalls
    <2>5. CopySound' /\ AbsentSound'
      BY <1>0, <2>1, <2>2, <2>3 DEF CopySound, AbsentSound
    <2>6. worker'.view.extName # NoId => mr.finalizer
      BY <1>0, <2>1, <2>2, <2>3 DEF NamesHeld
    <2> QED
      BY <2>1, <2>2, <2>3, <2>4, <2>5, <2>6, WorkerKnows
  <1>12. CASE FinishReconcile
    <2>1. /\ worker'.pc = "idle" /\ UNCHANGED <<world, tracker>>
          /\ gors' = gors \/ gors' = StaleGoroutines
      <3>1. worker' = IdleWorker
        BY <1>12 DEF FinishReconcile, Complete
      <3> QED
        BY <1>12, <1>a, <3>1 DEF FinishReconcile
    <2>2. /\ mr'.deleting = mr.deleting
          /\ mr'.finalizer = mr.finalizer /\ mr'.extName = mr.extName
      BY <1>12 DEF FinishReconcile, MRs
    <2>3. SameCalls
      BY <1>0, <2>1, StaleSameCalls
    <2>4. CopySound' /\ AbsentSound'
      BY <2>1 DEF CopySound, AbsentSound
    <2> QED
      BY <2>1, <2>2, <2>3, <2>4, WorkerKnows
  <1> QED
    BY <1>1, <1>2, <1>3, <1>4, <1>5, <1>6, <1>7, <1>8, <1>9, <1>10, <1>11, <1>12 DEF Reconcile

\* A step that starts nothing and leaves the names and what exists.
LEMMA KnownStays ==
    ASSUME TypeOK, KInv,
           \A i \in Ids : (world'[i] = Gone) <=> (world[i] = Gone),
           mr'.extName = mr.extName, mr'.finalizer = mr.finalizer, mr.deleting => mr'.deleting,
           tracker'.state = tracker.state, tracker'.deleted = tracker.deleted,
           tracker'.mark = tracker.mark,
           worker'.pc = worker.pc, worker'.op = worker.op, worker'.obs = worker.obs,
           worker'.view = worker.view,
           worker'.fresh => worker.fresh /\ mr'.deleting = mr.deleting,
           \A t \in Slots : /\ InFlight(t)' => InFlight(t) /\ gors'[t].op = gors[t].op
                            /\ \/ gors'[t].pc # "call"
                               \/ gors[t].pc = "call" /\ gors'[t].op = gors[t].op
    PROVE  KInv' /\ Remembered
  <1>1. mr.extName \in AnyId /\ tracker.state \in AnyId
    BY TrackerTypes DEF TypeOK, MRs
  <1>2. /\ Exists(mr.extName)' <=> Exists(mr.extName)
        /\ Exists(tracker.state)' <=> Exists(tracker.state)
    BY <1>1 DEF Exists, AnyId
  <1>3. DeletionBegun' => DeletionBegun
    BY DEF DeletionBegun
  <1>4. NamesHeld' /\ NamesExist' /\ MarkSound' /\ CopySound' /\ AbsentSound'
    BY <1>2 DEF KInv, NamesHeld, NamesExist, MarkSound, CopySound, AbsentSound
  <1>5. StateKnown'
    BY <1>2 DEF KInv, StateKnown
  <1>6. CreatesUnknown'
    BY DEF KInv, CreatesUnknown
  <1>7. DeletionSound'
    BY <1>2, <1>3 DEF KInv, DeletionSound
  <1>8. Remembered
    BY DEF Remembered, NoneForgotten, Live
  <1> QED
    BY <1>4, <1>5, <1>6, <1>7, <1>8 DEF KInv

\* The provider calls: an instance that comes is in the cached state, one that goes was there.
LEMMA ProviderCallKnows ==
    ASSUME ProviderIds, ~LogicalDelete, IInv, KInv, NEW s \in Slots, ProviderCall(s)
    PROVE  KInv' /\ Remembered
  <1> USE DEF IInv, TypeOK
  <1>0. /\ TypeOK /\ NamesHeld /\ NamesExist /\ StateKnown /\ MarkSound /\ CopySound
        /\ AbsentSound /\ CreatesUnknown /\ DeletionSound
    BY DEF KInv
  <1>1. /\ UNCHANGED <<mr, worker>>
        /\ gors[s].pc = "call" /\ InFlight(s) /\ IsRunning(tracker.op)
        /\ \E e \in Errors : Returns(s, e)
    BY ProviderCallReturns DEF ProviderCall, InFlight, SingleFlight
  <1>2. /\ gors'[s].pc = "store" /\ gors'[s].op = gors[s].op
        /\ \A t \in Slots \ {s} : gors'[t] = gors[t]
    <2>1. PICK e \in Errors : gors' = [gors EXCEPT ![s].pc = "store", ![s].err = e]
      BY <1>1 DEF Returns
    <2>2. gors[s] \in Goroutines
      OBVIOUS
    <2>3. gors'[s] = [gors[s] EXCEPT !.pc = "store", !.err = e]
      BY <2>1
    <2> QED
      BY <2>1, <2>2, <2>3 DEF Goroutines
  <1>3. mr.finalizer /\ \A t \in Slots : InFlight(t) => t = s
    BY <1>1 DEF FinalizerHeld, SingleFlight
  <1>4. /\ NoId \notin Ids /\ Gone \notin Specs
        /\ gors[s].spec \in Specs /\ tracker.state \in AnyId /\ mr.extName \in AnyId
    BY ConfigAssumption, TrackerTypes DEF Goroutines, MRs
  \* The worker sees that an operation runs.
  <1>5. /\ ~(worker.pc = "decide" /\ ~worker.obs.exists)
        /\ ~(worker.pc = "start" /\ worker.op = "create")
        /\ worker.pc = "decide" => worker.view.extName = mr.extName
    BY <1>0, <1>1 DEF AbsentSound, CopySound, WorkerAlone, Bookkeeping
  <1>6. Exists(mr.extName) => tracker.state = mr.extName
    BY <1>0, <1>1 DEF StateKnown
  <1>7. CopySound' /\ AbsentSound'
    BY <1>0, <1>1, <1>5 DEF CopySound, AbsentSound
  <1>8. CreatesUnknown'
    BY <1>2, <1>3 DEF CreatesUnknown, InFlight
  <1>9. (DeletionBegun' => DeletionBegun \/ tracker'.deleted) /\ NamesHeld'
    BY <1>1, <1>2, <1>3 DEF DeletionBegun, InFlight, NamesHeld
  <1>10. SUFFICES /\ NamesExist' /\ StateKnown' /\ MarkSound' /\ DeletionSound' /\ Remembered
    BY <1>7, <1>8, <1>9 DEF KInv
  <1>11. CASE Create(s)
    <2>1. mr.extName = NoId /\ tracker.state = NoId /\ ~tracker.deleted /\ tracker.mark \in StateMarks
      BY <1>0, <1>1, <1>11 DEF CreatesUnknown, Create, Trackers
    <2>2. CASE UNCHANGED world
      <3>1. tracker' = tracker \/ tracker' = SetTfState(tracker, NoId)
        <4>1. ~CreateSucceeds(s) /\ ~CreatePartially(s)
          BY <1>4, <2>2 DEF CreateSucceeds, CreatePartially, NewIds, FreshIds
        <4> QED
          BY <1>11, <4>1 DEF Create, CreateFails
      <3>2. tracker'.state = NoId /\ ~tracker'.deleted
        BY <2>1, <3>1 DEF SetTfState, Trackers
      <3>3. NamesExist' /\ StateKnown' /\ MarkSound' /\ DeletionSound'
        BY <1>0, <1>1, <1>9, <2>1, <3>2
        DEF NamesExist, StateKnown, MarkSound, DeletionSound, Exists
      <3>4. Remembered
        BY <1>1, <2>1, <2>2, <3>2 DEF Remembered, NoneForgotten, Live
      <3> QED
        BY <3>3, <3>4
    <2>3. CASE ~UNCHANGED world
      <3>1. PICK i \in FreshIds :
              /\ world' = [world EXCEPT ![i] = gors[s].spec]
              /\ tracker' = SetTfState(tracker, i)
        BY <1>11, <2>1, <2>3
        DEF Create, CreateSucceeds, CreatePartially, CreateFails, NewIds, StoresPartialState,
            HasState
      <3>2. tracker'.state = i /\ ~tracker'.deleted /\ tracker'.mark = "default" /\ i \in Ids
        BY <2>1, <3>1 DEF SetTfState, Trackers, FreshIds
      <3>3. Exists(tracker.state)'
        BY <1>4, <3>1, <3>2 DEF Exists
      <3>4. NamesExist' /\ StateKnown' /\ MarkSound' /\ DeletionSound'
        BY <1>0, <1>1, <1>9, <2>1, <3>2, <3>3
        DEF NamesExist, StateKnown, MarkSound, DeletionSound, Exists
      <3>5. Remembered
        <4>1. NoneForgotten => Live = {}
          BY <1>4, <2>1 DEF NoneForgotten, Live
        <4>2. Live' \subseteq Live \cup {i}
          BY <3>1, <3>2 DEF Live
        <4> QED
          BY <3>2, <4>1, <4>2 DEF Remembered, NoneForgotten
      <3> QED
        BY <3>4, <3>5
    <2> QED
      BY <2>2, <2>3
  <1>12. CASE Update(s)
    <2>1. /\ tracker'.state = tracker.state /\ tracker'.deleted = tracker.deleted
          /\ tracker'.mark = "reconstructed" => tracker.mark = "reconstructed"
      BY <1>12 DEF Update, SetTfState, Trackers
    <2>2. \A i \in Ids : (world'[i] = Gone) <=> (world[i] = Gone)
      BY <1>4, <1>12 DEF Update, Exists
    <2>3. /\ Exists(mr.extName)' <=> Exists(mr.extName)
          /\ Exists(tracker.state)' <=> Exists(tracker.state)
      BY <1>1, <1>4, <2>1, <2>2 DEF Exists, AnyId
    <2>4. NamesExist' /\ StateKnown' /\ MarkSound' /\ DeletionSound'
      BY <1>0, <1>1, <1>6, <1>9, <2>1, <2>3
      DEF NamesExist, StateKnown, MarkSound, DeletionSound, DeletionBegun
    <2>5. Remembered
      BY <1>1, <2>1, <2>2 DEF Remembered, NoneForgotten, Live
    <2> QED
      BY <2>4, <2>5
  <1>13. CASE Delete(s)
    <2>1. mr.deleting
      BY <1>0, <1>1, <1>13 DEF DeletionSound, DeletionBegun, Delete
    <2>2. CASE UNCHANGED <<world, tracker>>
      <3>1. NamesExist' /\ StateKnown' /\ MarkSound' /\ DeletionSound'
        BY <1>0, <1>1, <1>6, <1>9, <2>1, <2>2
        DEF NamesExist, StateKnown, MarkSound, DeletionSound, Exists
      <3>2. Remembered
        BY <1>1, <2>2 DEF Remembered, NoneForgotten, Live
      <3> QED
        BY <3>1, <3>2
    <2>3. CASE ~UNCHANGED <<world, tracker>>
      <3>1. /\ tracker' = SetDeleted(SetTfState(tracker, NoId), TRUE)
            /\ world' = IF Exists(tracker.state)
                        THEN [world EXCEPT ![tracker.state] = Gone] ELSE world
        BY <1>13, <2>3 DEF Delete
      <3>2. tracker'.state = NoId /\ tracker'.mark = "default"
        BY <3>1 DEF SetDeleted, SetTfState, Trackers
      <3>3. \A i \in Ids : world'[i] # Gone => world[i] # Gone /\ i # tracker.state
        BY <1>4, <3>1 DEF Exists
      <3>4. ~Exists(mr.extName)'
        BY <1>1, <1>4, <1>6, <3>3 DEF Exists, AnyId
      <3>5. NamesExist' /\ StateKnown' /\ MarkSound' /\ DeletionSound'
        BY <1>1, <2>1, <3>2, <3>4 DEF NamesExist, StateKnown, MarkSound, DeletionSound, Exists
      <3>6. Remembered
        <4>1. NoneForgotten => Live' = {}
          BY <1>1, <1>4, <3>3, <3>4 DEF NoneForgotten, Live, Exists
        <4> QED
          BY <4>1 DEF Remembered, NoneForgotten
      <3> QED
        BY <3>5, <3>6
    <2> QED
      BY <2>2, <2>3
  <1> QED
    BY <1>11, <1>12, <1>13 DEF ProviderCall

\* The publication and the callback leave the instances and their names.
LEMMA GoroutineKnows ==
    ASSUME ProviderIds, ~LogicalDelete, IInv, KInv, NEW s \in Slots, Goroutine(s)
    PROVE  KInv' /\ Remembered
  <1> USE DEF IInv, TypeOK
  <1>1. CASE ProviderCall(s)
    BY <1>1, ProviderCallKnows
  <1>2. CASE ~ProviderCall(s)
    BY <1>2, GoroutineLeaves, KnownStays
  <1> QED
    BY <1>1, <1>2

\* The steps of the environment that are left without a crash and without instances that vanish.
LEMMA EnvironmentKnows ==
    ASSUME ProviderIds, Faults \cap {"crash", "vanish"} = {}, IInv, KInv, Environment
    PROVE  KInv' /\ Remembered
  <1> USE DEF IInv, TypeOK
  <1>0. /\ TypeOK /\ NamesHeld /\ NamesExist /\ StateKnown /\ MarkSound /\ CopySound
        /\ AbsentSound /\ CreatesUnknown /\ DeletionSound
    BY DEF KInv
  <1>1. CASE UserChangesSpec \/ UserDeletes
    <2>1. /\ UNCHANGED <<world, tracker>> /\ gors' = StaleGoroutines
          /\ mr.deleting => mr'.deleting
          /\ mr'.finalizer = mr.finalizer /\ mr'.extName = mr.extName
      <3>1. CASE UserDeletes /\ ~mr.finalizer
        <4>1. mr' = NoMR /\ mr.extName = NoId /\ ~mr.deleting
          BY <1>0, <3>1 DEF UserDeletes, NamesHeld
        <4>2. mr'.extName = NoId /\ mr'.finalizer = FALSE /\ mr.finalizer = FALSE
          BY <3>1, <4>1, NoNames, NewTypes DEF MRs
        <4> QED
          BY <3>1, <4>1, <4>2 DEF UserDeletes
      <3>2. CASE ~(UserDeletes /\ ~mr.finalizer)
        BY <1>1, <3>2 DEF UserChangesSpec, UserDeletes, MRs
      <3> QED
        BY <3>1, <3>2
    <2>2. /\ worker'.pc = worker.pc /\ worker'.op = worker.op /\ worker'.obs = worker.obs
          /\ worker'.view = worker.view /\ ~worker'.fresh
      BY <1>1 DEF UserChangesSpec, UserDeletes, StaleWorker, Workers
    <2>3. SameCalls
      BY <2>1, StaleSameCalls
    <2>4. \A t \in Slots : /\ InFlight(t)' => InFlight(t) /\ gors'[t].op = gors[t].op
                           /\ gors'[t].pc # "call" \/ (gors[t].pc = "call" /\ gors'[t].op = gors[t].op)
      BY <2>3 DEF SameCalls, InFlight
    <2> QED
      BY <2>1, <2>2, <2>4, KnownStays
  <1>2. CASE UserRecreates
    <2>1. /\ ~mr.present /\ worker.pc \in {"idle", "get"} /\ UNCHANGED <<world, worker, gors>>
          /\ tracker' = NewAsyncTracker /\ mr'.extName = NoId
      BY <1>2, NoNames DEF UserRecreates
    <2>2. mr.extName = NoId /\ tracker.state = NoId
      BY <1>0, <2>1 DEF FinalizerHeld, NamesHeld
    <2>3. \A s \in Slots : ~InFlight(s) /\ ~InFlight(s)'
      BY <2>1 DEF FinalizerHeld, InFlight
    <2>4. NamesHeld' /\ NamesExist' /\ StateKnown' /\ MarkSound' /\ CopySound' /\ AbsentSound'
      BY <2>1 DEF NamesHeld, NamesExist, StateKnown, MarkSound, CopySound, AbsentSound,
          NewAsyncTracker, Exists
    <2>5. CreatesUnknown' /\ DeletionSound'
      BY <2>1, <2>3 DEF CreatesUnknown, DeletionSound, DeletionBegun, NewAsyncTracker
    <2>6. Remembered
      BY <2>1, <2>2 DEF Remembered, NoneForgotten, Live, NewAsyncTracker
    <2> QED
      BY <2>4, <2>5, <2>6 DEF KInv
  <1>3. CASE ExternalDrift
    <2>1. UNCHANGED <<mr, tracker, worker, gors>>
      BY <1>3 DEF ExternalDrift
    <2>2. \A i \in Ids : (world'[i] = Gone) <=> (world[i] = Gone)
      BY <1>3, ConfigAssumption DEF ExternalDrift, Live
    <2>3. \A s \in Slots : gors'[s] = gors[s] /\ (InFlight(s)' <=> InFlight(s))
      BY <2>1 DEF InFlight
    <2> QED
      BY <2>1, <2>2, <2>3, KnownStays
  <1>4. ~ExternalVanish /\ ~Crash
    BY DEF ExternalVanish, Crash, Happens
  <1> QED
    BY <1>1, <1>2, <1>3, <1>4 DEF Environment

\* Where the identifiers come from the external API: no step but a reconstruction forgets.
LEMMA KnownInductive ==
    ASSUME ProviderIds, ~LogicalDelete, Faults \cap {"readMisses", "crash", "vanish"} = {}
    PROVE  /\ Init => KInv
           /\ IInv /\ KInv /\ [Next]_vars =>
                 KInv' /\ (worker.pc = "reconstruct" \/ Remembered)
  <1>1. Init => KInv
    <2> SUFFICES ASSUME Init PROVE KInv
      OBVIOUS
    <2>1. /\ worker.pc = "idle" /\ tracker = NewAsyncTracker
          /\ \A s \in Slots : gors[s].pc = "free"
      BY DEF Init, IdleWorker, FreeGoroutine
    <2>2. mr.extName = NoId
      BY NoNames DEF Init
    <2> QED
      BY <2>1, <2>2
      DEF KInv, NamesHeld, NamesExist, StateKnown, MarkSound, CopySound, AbsentSound,
          CreatesUnknown, DeletionSound, DeletionBegun, InFlight, NewAsyncTracker, Exists
  <1>2. ASSUME IInv, KInv, [Next]_vars
        PROVE  KInv' /\ (worker.pc = "reconstruct" \/ Remembered)
    <2>1. CASE UNCHANGED <<mr, world, tracker, worker, gors>>
      <3>1. \A s \in Slots : gors'[s] = gors[s] /\ (InFlight(s)' <=> InFlight(s))
        BY <2>1 DEF InFlight
      <3> QED
        BY <1>2, <2>1, <3>1, KnownStays DEF IInv
    <2>2. CASE Reconcile
      BY <1>2, <2>2, ReconcileKnows
    <2>3. CASE \E s \in Slots : Goroutine(s)
      BY <1>2, <2>3, GoroutineKnows
    <2>4. CASE Environment
      BY <1>2, <2>4, EnvironmentKnows
    <2> QED
      BY <1>2, <2>1, <2>2, <2>3, <2>4 DEF Next, TimerFires, Terminated, vars
  <1> QED
    BY <1>1, <1>2

\* Where the identifier is computed from the spec, an instance always has the name of the MR.
LEMMA NameIsKnown == GInv => NoneForgotten
  BY DEF GInv, NamesKnown, FinalizerGuards, NoneForgotten

\* If a successful delete call deletes and no read misses what exists, no step but a Connect
\* makes the provider forget an instance: not the recreation of the MR, nor a failure of a call,
\* of the API server or of a goroutine's callback.  Where the external API generates the
\* identifiers that takes a process that is not restarted and instances that do not vanish on
\* their own.
THEOREM ForgottenByConnectOnly ==
    ASSUME ~LogicalDelete, "readMisses" \notin Faults,
           ProviderIds => Faults \cap {"crash", "vanish"} = {}
    PROVE  Spec => OnlyConnectForgets
  <1>1. CASE ProviderIds
    <2>1. (Init => KInv) /\ (IInv /\ KInv /\ [Next]_vars => KInv')
      BY <1>1, KnownInductive
    <2>2. IInv /\ KInv /\ [Next]_vars =>
            [NoneForgotten /\ ~NoneForgotten' => worker.pc = "reconstruct"]_vars
      BY <1>1, KnownInductive DEF Remembered
    <2> QED
      BY <2>1, <2>2, Inductive, PTL DEF Spec, OnlyConnectForgets
  <1>2. CASE ~ProviderIds
    <2>1. (Init => GInv) /\ (IInv /\ GInv /\ [Next]_vars => GInv')
      BY <1>2, GuardsInductive
    <2>2. GInv' => NoneForgotten'
      BY NameIsKnown, PTL
    <2> QED
      BY <2>1, <2>2, Inductive, PTL DEF Spec, OnlyConnectForgets
  <1> QED
    BY <1>1, <1>2

--------------------------------------------------------------------------------
(* AsyncExternal implements SerialOperations; and the error of a failed operation is kept. *)

(* What the mapping sees of the goroutines *)

Works(g, s) == g[s].pc \in {"call", "store"}

\* Without a goroutine at work no operation runs for the abstract specification.
LEMMA NobodyWorks ==
    ASSUME NEW g, \A s \in Slots : ~Works(g, s)
    PROVE  RunningOf(g) = "none" /\ VerdictOf(g) = "open"
  BY DEF Works, Working, RunningOf, VerdictOf

\* The goroutine at work is the operation that runs for the abstract specification.
LEMMA OneWorks ==
    ASSUME NEW g, NEW s \in Slots, Works(g, s), \A t \in Slots \ {s} : ~Works(g, t)
    PROVE  /\ RunningOf(g) = g[s].op
           /\ VerdictOf(g) = IF g[s].pc = "call" THEN "open" ELSE g[s].err
  <1>1. Working(g) = {s}
    BY DEF Works, Working
  <1>2. Worked(g) = s
    BY <1>1 DEF Worked
  <1> QED BY <1>1, <1>2 DEF RunningOf, VerdictOf

\* What the goroutines do outside the operation does not show.
LEMMA SameWork ==
    ASSUME NEW g, NEW h,
           \A s \in Slots : \/ ~Works(g, s) /\ ~Works(h, s)
                            \/ g[s].pc = h[s].pc /\ g[s].op = h[s].op /\ g[s].err = h[s].err
    PROVE  RunningOf(g) = RunningOf(h) /\ VerdictOf(g) = VerdictOf(h)
  <1>1. Working(g) = Working(h)
    BY DEF Works, Working
  <1>2. Worked(g) = Worked(h)
    BY <1>1 DEF Worked
  <1>3. CASE Working(g) = {}
    BY <1>1, <1>3 DEF RunningOf, VerdictOf
  <1>4. CASE Working(g) # {}
    <2>1. Worked(g) \in Slots /\ Works(g, Worked(g))
      BY <1>4 DEF Worked, Working, Works
    <2> QED BY <1>1, <1>2, <1>4, <2>1 DEF RunningOf, VerdictOf
  <1> QED BY <1>3, <1>4

\* While no operation runs, nobody works.
LEMMA QuietWork ==
    ASSUME SingleFlight, ~IsRunning(tracker.op)
    PROVE  RunningOf(gors) = "none" /\ VerdictOf(gors) = "open"
  BY NobodyWorks DEF SingleFlight, InFlight, Works

\* Marking copies as stale does not show.
LEMMA StaleWork ==
    ASSUME TypeOK, gors' = gors \/ gors' = StaleGoroutines
    PROVE  RunningOf(gors') = RunningOf(gors) /\ VerdictOf(gors') = VerdictOf(gors)
  <1>1. \A s \in Slots : /\ gors'[s].pc = gors[s].pc /\ gors'[s].op = gors[s].op
                         /\ gors'[s].err = gors[s].err
    BY DEF TypeOK, StaleGoroutines, Goroutines
  <1> QED BY <1>1, SameWork

--------------------------------------------------------------------------------
(* Every step is a step of SerialOperations or a stutter *)

Stutter ==
    /\ RunningOf(gors') = RunningOf(gors) /\ VerdictOf(gors') = VerdictOf(gors)
    /\ world' = world /\ tracker'.op.err = tracker.op.err

\* A step that changes nothing abstract is a stutter.
LEMMA StutterStep == Stutter => [Serial!Next]_(Serial!vars)
  BY DEF Stutter, Serial!vars

\* A step that drops the error between operations is Forget.
LEMMA ForgetStep ==
    ASSUME TypeOK, SingleFlight, ~IsRunning(tracker.op), tracker'.op.err = NoError,
           gors' = gors \/ gors' = StaleGoroutines, world' = world
    PROVE  [Serial!Next]_(Serial!vars)
  <1>1. Serial!Forget
    BY QuietWork, StaleWork DEF Serial!Forget
  <1> QED BY <1>1 DEF Serial!Next

\* The process starts in an initial state of the abstract specification.
LEMMA SerialInit == Init => Serial!Init
  <1> SUFFICES ASSUME Init PROVE Serial!Init
    OBVIOUS
  <1>1. \A s \in Slots : ~Works(gors, s)
    BY DEF Init, Works, FreeGoroutine
  <1> QED BY <1>1, NobodyWorks DEF Init, Serial!Init, NewAsyncTracker, NewOperation

\* The worker starts operations, and forgets an outcome when it observes or lets go.
LEMMA ReconcileStep ==
    ASSUME IInv, Reconcile
    PROVE  [Serial!Next]_(Serial!vars)
  <1> USE DEF IInv
  <1>1. CASE /\ gors' = gors \/ gors' = StaleGoroutines
             /\ world' = world /\ tracker'.op.err = tracker.op.err
    BY <1>1, StaleWork, StutterStep DEF Stutter
  <1>2. CASE \/ Dequeue \/ GetMR \/ ConnectCheckState \/ DecideDelete \/ AddFinalizer
             \/ DecideCreate \/ PersistExternalName \/ DecideUpToDateOrUpdate
             \/ ReturnFromStart \/ FinishReconcile
    BY <1>1, <1>2
    DEF Dequeue, GetMR, ConnectCheckState, DecideDelete, AddFinalizer, DecideCreate,
        PersistExternalName, PersistAndNotify, Persist, DecideUpToDateOrUpdate,
        ReturnFromStart, FinishReconcile
  <1>3. CASE ConnectReconstruct
    <2>1. tracker'.op = tracker.op
      BY <1>3, QuietOperations DEF ConnectReconstruct, TypeOK
    <2> QED BY <1>1, <1>3, <2>1 DEF ConnectReconstruct
  <1>4. CASE ObserveOperation
    <2>1. CASE Busy
      BY <1>1, <1>4, <2>1 DEF ObserveOperation
    <2>2. CASE ~Busy
      <3>1. tracker' = [tracker EXCEPT !.op = Clear(@, TRUE)]
        BY <1>4, <2>2 DEF ObserveOperation
      <3>2. tracker'.op = Clear(tracker.op, TRUE)
        BY <3>1 DEF TypeOK, Trackers
      <3>3. tracker'.op.err = tracker.op.err
        BY <3>2 DEF Clear, NewOperation
      <3> QED BY <1>1, <1>4, <3>3 DEF ObserveOperation
    <2> QED BY <2>1, <2>2
  <1>5. CASE ObserveRead
    <2>1. ~IsRunning(tracker.op)
      BY <1>5 DEF ObserveRead, WorkerAlone, Bookkeeping
    <2>2. tracker'.op.err \in {tracker.op.err, NoError}
      <3>1. CASE ReadFound
        <4>1. tracker' = SetTfState(tracker, tracker.state)
              \/ tracker' = [SetTfState(tracker, tracker.state) EXCEPT !.op = Clear(@, FALSE)]
          BY <3>1 DEF ReadFound
        <4>2. SetTfState(tracker, tracker.state) \in Trackers
              /\ SetTfState(tracker, tracker.state).op = tracker.op
          BY TrackerTypes, QuietOperations DEF TypeOK
        <4>3. tracker'.op = tracker.op \/ tracker'.op = Clear(tracker.op, FALSE)
          BY <4>1, <4>2 DEF Trackers
        <4> QED BY <4>3 DEF Clear, NewOperation
      <3>2. CASE ReadNotFound
        BY <3>2, QuietOperations DEF ReadNotFound, TypeOK
      <3>3. CASE ReadError
        BY <3>3, QuietOperations DEF ReadError, TypeOK
      <3> QED BY <1>5, <3>1, <3>2, <3>3 DEF ObserveRead
    <2> QED BY <1>1, <1>5, <2>1, <2>2, ForgetStep DEF ObserveRead
  <1>6. CASE RemoveFinalizer
    <2>1. ~IsRunning(tracker.op)
      BY <1>6 DEF RemoveFinalizer, WorkerAlone, Bookkeeping
    <2> QED BY <1>6, <2>1, ForgetStep DEF RemoveFinalizer, NewAsyncTracker, NewOperation
  <1>7. CASE StartOperation
    <2>1. CASE UNCHANGED <<tracker, gors>>
      BY <1>1, <1>7, <2>1 DEF StartOperation
    <2>2. CASE ~UNCHANGED <<tracker, gors>>
      <3>1. /\ CanStart(tracker.op)
            /\ tracker' = [tracker EXCEPT !.op = MarkStart(@, worker.op)]
            /\ worker.op \in OpTypes
        BY <1>7, <2>2 DEF StartOperation, Bookkeeping
      <3>2. PICK s \in Slots :
                gors' = [gors EXCEPT ![s] = [FreeGoroutine EXCEPT
                            !.pc = "call", !.op = worker.op, !.spec = worker.view.spec]]
        BY <1>7, <2>2 DEF StartOperation
      <3>3. RunningOf(gors) = "none" /\ VerdictOf(gors) = "open"
        BY <3>1, QuietWork DEF CanStart
      <3>4. \A t \in Slots : ~Works(gors, t)
        BY <3>1 DEF CanStart, SingleFlight, InFlight, Works
      <3>5. /\ gors'[s].pc = "call" /\ gors'[s].op = worker.op
            /\ \A t \in Slots \ {s} : gors'[t] = gors[t]
        BY <3>2 DEF FreeGoroutine, TypeOK
      <3>6. RunningOf(gors') = worker.op /\ VerdictOf(gors') = "open"
        BY <3>4, <3>5, OneWorks DEF Works
      <3>7. tracker'.op.err = tracker.op.err
        BY <3>1 DEF MarkStart, TypeOK, Trackers, Operations
      <3>8. Serial!Begin(worker.op)
        BY <1>7, <3>3, <3>6, <3>7 DEF StartOperation, Serial!Begin
      <3> QED BY <3>1, <3>8 DEF Serial!Next, Serial!Kinds, OpTypes
    <2> QED BY <2>1, <2>2
  <1> QED BY <1>2, <1>3, <1>4, <1>5, <1>6, <1>7 DEF Reconcile

\* A goroutine makes the call, and ends the operation when it publishes its error.
LEMMA GoroutineStep ==
    ASSUME IInv, NEW s \in Slots, Goroutine(s)
    PROVE  [Serial!Next]_(Serial!vars)
  <1> USE DEF IInv
  <1>1. CASE ProviderCall(s)
    <2> DEFINE kind == gors[s].op
    <2>1. kind \in OpTypes /\ \A t \in Slots \ {s} : ~Works(gors, t)
      BY <1>1 DEF ProviderCall, Bookkeeping, SingleFlight, InFlight, Works
    <2>2. RunningOf(gors) = kind /\ VerdictOf(gors) = "open"
      BY <1>1, <2>1, OneWorks DEF ProviderCall, Works
    <2>3. ASSUME NEW e \in Errors, Returns(s, e)
          PROVE  RunningOf(gors') = kind /\ VerdictOf(gors') = e
      <3>1. /\ gors'[s].pc = "store" /\ gors'[s].op = kind /\ gors'[s].err = e
            /\ \A t \in Slots \ {s} : gors'[t] = gors[t]
        BY <2>3 DEF Returns, TypeOK, Goroutines
      <3> QED BY <2>1, <3>1, OneWorks DEF Works
    <2>4. gors[s].spec \in Specs
      BY DEF TypeOK, Goroutines
    <2>5. \A e \in Errors :
              Returns(s, e) /\ tracker'.op = tracker.op
              /\ (Serial!Effect(kind) \/ ((e = NoError => kind # "create") /\ UNCHANGED world))
              => Serial!Call(kind)
      BY <2>2, <2>3 DEF Serial!Call, Errors
    <2>6. Serial!Call(kind)
      <3>1. CASE Create(s)
        <4>1. NewIds \subseteq {i \in Ids : world[i] = Gone}
          BY ConfigAssumption DEF NewIds, FreshIds, Live
        <4>2. kind = "create"
          BY <3>1 DEF Create
        <4>3. CASE CreateSucceeds(s)
          <5>1. Returns(s, NoError) /\ tracker'.op = tracker.op
            BY <4>3, QuietOperations DEF CreateSucceeds, TypeOK
          <5>2. Serial!Effect(kind)
            BY <2>4, <4>1, <4>2, <4>3 DEF CreateSucceeds, Serial!Effect
          <5> QED BY <2>5, <5>1, <5>2 DEF Errors
        <4>4. CASE CreatePartially(s)
          <5>1. Returns(s, Failed) /\ tracker'.op = tracker.op
            BY <4>4, QuietOperations DEF CreatePartially, TypeOK
          <5>2. Serial!Effect(kind)
            BY <2>4, <4>1, <4>2, <4>4 DEF CreatePartially, Serial!Effect
          <5> QED BY <2>5, <5>1, <5>2 DEF Errors
        <4>5. CASE CreateFails(s)
          <5>1. Returns(s, Failed) /\ tracker'.op = tracker.op /\ UNCHANGED world
            BY <4>5, QuietOperations DEF CreateFails, TypeOK
          <5> QED BY <2>5, <5>1 DEF Errors, NoError, Failed
        <4> QED BY <3>1, <4>3, <4>4, <4>5 DEF Create
      <3>2. CASE Update(s)
        <4>1. kind = "update"
          BY <3>2 DEF Update
        <4>2. CASE UNCHANGED world
          BY <2>5, <3>2, <4>1, <4>2, QuietOperations DEF Update, TypeOK, Errors
        <4>3. CASE ~UNCHANGED world
          <5>1. /\ Exists(tracker.state) /\ Returns(s, NoError)
                /\ world' = [world EXCEPT ![tracker.state] = gors[s].spec]
                /\ tracker'.op = tracker.op
            BY <3>2, <4>3, QuietOperations DEF Update, TypeOK
          <5>2. tracker.state \in Ids
            BY <5>1, TrackerTypes DEF Exists, AnyId, TypeOK
          <5>3. Serial!Effect(kind)
            BY <2>4, <4>1, <5>1, <5>2 DEF Exists, Serial!Effect
          <5> QED BY <2>5, <5>1, <5>3 DEF Errors
        <4> QED BY <4>2, <4>3
      <3>3. CASE Delete(s)
        <4>1. kind = "delete"
          BY <3>3 DEF Delete
        <4>2. tracker'.op = tracker.op /\ \E e \in Errors : Returns(s, e)
          <5>1. tracker' \in {tracker, SetDeleted(SetTfState(tracker, NoId), TRUE)}
            BY <3>3 DEF Delete
          <5>2. tracker'.op = tracker.op
            BY <5>1 DEF SetDeleted, SetTfState, TypeOK, Trackers
          <5> QED BY <3>3, <5>2 DEF Delete, Errors
        <4>3. CASE UNCHANGED world
          BY <2>5, <4>1, <4>2, <4>3
        <4>4. CASE ~UNCHANGED world
          <5>1. /\ Exists(tracker.state)
                /\ world' = [world EXCEPT ![tracker.state] = Gone]
            BY <3>3, <4>4 DEF Delete
          <5>2. tracker.state \in Ids
            BY <5>1, TrackerTypes DEF Exists, AnyId, TypeOK
          <5>3. Serial!Effect(kind)
            BY <2>4, <4>1, <5>1, <5>2 DEF Exists, Serial!Effect
          <5> QED BY <2>5, <4>2, <5>3
        <4> QED BY <4>3, <4>4
      <3> QED BY <1>1, <3>1, <3>2, <3>3 DEF ProviderCall
    <2> QED BY <2>1, <2>6 DEF Serial!Next, Serial!Kinds, OpTypes
  <1>2. CASE PublishError(s)
    <2>1. gors[s].op \in OpTypes /\ \A t \in Slots \ {s} : ~Works(gors, t)
      BY <1>2 DEF PublishError, Bookkeeping, SingleFlight, InFlight, Works
    <2>2. RunningOf(gors) = gors[s].op /\ VerdictOf(gors) = gors[s].err
      BY <1>2, <2>1, OneWorks DEF PublishError, Works
    <2>3. \A t \in Slots : ~Works(gors', t)
      BY <1>2, <2>1 DEF PublishError, Works, TypeOK, Goroutines
    <2>4. RunningOf(gors') = "none" /\ VerdictOf(gors') = "open"
      BY <2>3, NobodyWorks
    <2>5. tracker'.op.err = gors[s].err
      BY <1>2 DEF PublishError, SetError, TypeOK, Trackers, Operations
    <2>6. gors[s].err # "open"
      BY DEF TypeOK, Goroutines, Errors, NoError, Failed
    <2>7. Serial!End
      BY <1>2, <2>1, <2>2, <2>4, <2>5, <2>6 DEF Serial!End, PublishError, OpTypes
    <2> QED BY <2>7 DEF Serial!Next
  <1>3. CASE EndOperation(s) \/ CallbackGet(s) \/ CallbackPut(s)
    <2>1. \A t \in Slots : \/ ~Works(gors, t) /\ ~Works(gors', t)
                           \/ /\ gors[t].pc = gors'[t].pc /\ gors[t].op = gors'[t].op
                              /\ gors[t].err = gors'[t].err
      <3>1. CASE EndOperation(s)
        BY <3>1 DEF EndOperation, Works, TypeOK, Goroutines
      <3>2. CASE CallbackGet(s)
        <4>1. gors[s].pc = "get"
          BY <3>2 DEF CallbackGet
        <4>2. gors'[s].pc \in {"put", "free"} /\ \A t \in Slots \ {s} : gors'[t] = gors[t]
          <5>1. CASE gors' = [gors EXCEPT ![s].pc = "put", ![s].fresh = TRUE]
            BY <5>1 DEF TypeOK, Goroutines
          <5>2. CASE gors' = [gors EXCEPT ![s] = FreeGoroutine]
            BY <5>2 DEF FreeGoroutine, TypeOK
          <5> QED BY <3>2, <5>1, <5>2 DEF CallbackGet
        <4> QED BY <4>1, <4>2 DEF Works
      <3>3. CASE CallbackPut(s)
        <4>1. gors[s].pc = "put"
          BY <3>3 DEF CallbackPut
        <4>2. CASE gors' = [gors EXCEPT ![s] = FreeGoroutine]
          BY <4>1, <4>2 DEF Works, FreeGoroutine, TypeOK
        <4>3. CASE gors' = [StaleGoroutines EXCEPT ![s] = FreeGoroutine]
          BY <4>1, <4>3 DEF Works, StaleGoroutines, FreeGoroutine, TypeOK, Goroutines
        <4> QED BY <3>3, <4>2, <4>3 DEF CallbackPut
      <3> QED BY <1>3, <3>1, <3>2, <3>3
    <2>2. tracker'.op.err = tracker.op.err /\ world' = world
      BY <1>3, ZenonT(60) DEF EndOperation, CallbackGet, CallbackPut, MarkEnd, TypeOK, Trackers, Operations
    <2>3. RunningOf(gors') = RunningOf(gors) /\ VerdictOf(gors') = VerdictOf(gors)
      BY <2>1, SameWork
    <2> QED BY <2>2, <2>3, StutterStep DEF Stutter
  <1> QED BY <1>1, <1>2, <1>3 DEF Goroutine

\* The environment drops trackers, restarts the process and disturbs the world.
LEMMA EnvironmentStep ==
    ASSUME IInv, Environment
    PROVE  [Serial!Next]_(Serial!vars)
  <1> USE DEF IInv
  <1>1. CASE UserDeletes \/ UserChangesSpec
    BY <1>1, StaleWork, StutterStep DEF UserDeletes, UserChangesSpec, Stutter
  <1>2. CASE UserRecreates
    <2>1. ~IsRunning(tracker.op)
      BY <1>2 DEF UserRecreates, FinalizerHeld, SingleFlight
    <2> QED BY <1>2, <2>1, ForgetStep DEF UserRecreates, NewAsyncTracker, NewOperation
  <1>3. CASE ExternalDrift \/ ExternalVanish
    <2>1. Serial!Disturb
      BY <1>3 DEF ExternalDrift, ExternalVanish, Happens, Live, Serial!Disturb
    <2> QED BY <2>1 DEF Serial!Next
  <1>4. CASE Crash
    <2>1. \A s \in Slots : ~Works(gors', s)
      BY <1>4 DEF Crash, Works, FreeGoroutine
    <2>2. Serial!Restart
      BY <1>4, <2>1, NobodyWorks DEF Crash, Serial!Restart, NewAsyncTracker, NewOperation
    <2> QED BY <2>2 DEF Serial!Next
  <1> QED BY <1>1, <1>2, <1>3, <1>4 DEF Environment

\* The asynchronous clients implement SerialOperations: whatever the schedule, the
\* operations of an MR run one after another, change at most one instance and only in
\* the way of their kind, and the error in the tracker is the outcome of the last.
THEOREM ImplementsSerialOperations == Spec => SerialSpec
  <1>1. IInv /\ [Next]_vars => [Serial!Next]_(Serial!vars)
    <2> SUFFICES ASSUME IInv, [Next]_vars PROVE [Serial!Next]_(Serial!vars)
      OBVIOUS
    <2>1. CASE UNCHANGED <<world, tracker, gors>>
      BY <2>1, StutterStep DEF Stutter
    <2> QED
      BY <2>1, ReconcileStep, GoroutineStep, EnvironmentStep
      DEF Next, TimerFires, Terminated, vars
  <1> QED BY <1>1, SerialInit, Inductive, PTL DEF Spec, SerialSpec, Serial!Spec

--------------------------------------------------------------------------------
(* The error of a failed operation *)

ErrorKeptStep ==
    tracker.op.err = Failed /\ tracker'.op.err = NoError =>
        \/ worker'.obs.exists /\ worker'.obs.upToDate /\ ~worker'.view.deleting
        \/ \E s \in Slots : gors[s].pc = "store" /\ gors'[s].pc = "end"
        \/ tracker' = NewAsyncTracker

\* The two outcomes of an operation are different.
LEMMA ErrorsDiffer == NoError # Failed
  BY DEF NoError, Failed

\* The worker drops an error only for an MR it observes up to date.
LEMMA ReconcileKeepsError ==
    ASSUME TypeOK, Reconcile
    PROVE  ErrorKeptStep
  <1>1. CASE tracker'.op = tracker.op \/ tracker' = NewAsyncTracker
    BY <1>1, ErrorsDiffer DEF ErrorKeptStep
  <1>2. CASE ConnectReconstruct
    BY <1>1, <1>2, QuietOperations DEF ConnectReconstruct, TypeOK
  <1>3. CASE ObserveOperation /\ tracker' # tracker
    <2>1. tracker' = [tracker EXCEPT !.op = Clear(@, TRUE)]
      BY <1>3 DEF ObserveOperation
    <2>2. tracker'.op.err = tracker.op.err
      BY <2>1 DEF TypeOK, Trackers, Clear, NewOperation
    <2> QED BY <2>2, ErrorsDiffer DEF ErrorKeptStep
  <1>4. CASE ReadFound
    <2> DEFINE upToDate == world[tracker.state] = worker.view.spec
    <2>1. CASE Healthy(upToDate)
      <3>1. /\ worker'.obs.exists /\ worker'.obs.upToDate = upToDate
            /\ worker'.view.deleting = worker.view.deleting
        BY <1>4 DEF ReadFound, TypeOK, Workers, MRs
      <3> QED BY <2>1, <3>1 DEF ErrorKeptStep, Healthy
    <2>2. CASE ~Healthy(upToDate)
      BY <1>1, <1>4, <2>2, QuietOperations DEF ReadFound, TypeOK
    <2> QED BY <2>1, <2>2
  <1>5. CASE ReadNotFound \/ ReadError
    BY <1>1, <1>5, QuietOperations DEF ReadNotFound, ReadError, TypeOK
  <1>6. CASE StartOperation /\ tracker' # tracker
    <2>1. tracker' = [tracker EXCEPT !.op = MarkStart(@, worker.op)]
      BY <1>6 DEF StartOperation
    <2>2. tracker'.op.err = tracker.op.err
      BY <2>1 DEF MarkStart, TypeOK, Trackers, Operations
    <2> QED BY <2>2, ErrorsDiffer DEF ErrorKeptStep
  <1> QED
    BY <1>1, <1>2, <1>3, <1>4, <1>5, <1>6
    DEF Reconcile, Dequeue, GetMR, ConnectCheckState, ObserveRead, RemoveFinalizer,
        DecideDelete, AddFinalizer, DecideCreate, PersistExternalName,
        DecideUpToDateOrUpdate, ReturnFromStart, FinishReconcile

\* A goroutine replaces an error only by the outcome of its own operation.
LEMMA GoroutineKeepsError ==
    ASSUME IInv, NEW s \in Slots, Goroutine(s)
    PROVE  ErrorKeptStep
  <1> USE DEF IInv
  <1>1. CASE tracker'.op.err = tracker.op.err
    BY <1>1, ErrorsDiffer DEF ErrorKeptStep
  <1>2. CASE ProviderCall(s)
    <2>1. CASE Create(s)
      <3>1. CASE CreateSucceeds(s)
        BY <1>1, <3>1, QuietOperations DEF CreateSucceeds, TypeOK
      <3>2. CASE CreatePartially(s)
        BY <1>1, <3>2, QuietOperations DEF CreatePartially, TypeOK
      <3>3. CASE CreateFails(s)
        BY <1>1, <3>3, QuietOperations DEF CreateFails, TypeOK
      <3> QED BY <2>1, <3>1, <3>2, <3>3 DEF Create
    <2>2. CASE Update(s)
      BY <1>1, <2>2, QuietOperations DEF Update, TypeOK
    <2>3. CASE Delete(s)
      <3>1. tracker' \in {tracker, SetDeleted(SetTfState(tracker, NoId), TRUE)}
        BY <2>3 DEF Delete
      <3>2. tracker'.op = tracker.op
        BY <3>1 DEF SetDeleted, SetTfState, TypeOK, Trackers
      <3> QED BY <1>1, <3>2
    <2> QED BY <1>2, <2>1, <2>2, <2>3 DEF ProviderCall
  <1>3. CASE PublishError(s)
    <2>1. gors[s].pc = "store" /\ gors'[s].pc = "end"
      BY <1>3 DEF PublishError, TypeOK, Goroutines
    <2> QED BY <2>1 DEF ErrorKeptStep
  <1>4. CASE EndOperation(s) \/ CallbackGet(s) \/ CallbackPut(s)
    <2>1. CASE EndOperation(s)
      BY <1>1, <2>1 DEF EndOperation, MarkEnd, TypeOK, Trackers, Operations
    <2>2. CASE CallbackGet(s) \/ CallbackPut(s)
      BY <1>1, <2>2 DEF CallbackGet, CallbackPut
    <2> QED BY <1>4, <2>1, <2>2
  <1> QED BY <1>2, <1>3, <1>4 DEF Goroutine

\* The error of a failed operation stays in the tracker until the MR is observed up to
\* date, a later operation ends, or the tracker is dropped: no failure is swallowed.
THEOREM FailureIsKept == Spec => ErrorKept
  <1>1. IInv /\ [Next]_vars => [ErrorKeptStep]_vars
    <2> SUFFICES ASSUME IInv, Next PROVE ErrorKeptStep
      OBVIOUS
    <2>1. CASE tracker' = tracker \/ tracker' = NewAsyncTracker
      BY <2>1, ErrorsDiffer DEF ErrorKeptStep
    <2> QED
      BY <2>1, ReconcileKeepsError, GoroutineKeepsError
      DEF IInv, Next, TimerFires, Terminated, vars, Environment, UserDeletes,
          UserChangesSpec, UserRecreates, ExternalDrift, ExternalVanish, Crash
  <1> QED BY <1>1, Inductive, PTL DEF Spec, ErrorKept, ErrorKeptStep

================================================================================
