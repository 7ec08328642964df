-------------------------- MODULE ReconciliationPolicy --------------------------
(***************************************************************************)
(* The reconciler and the finalizer of pkg/reconciler/reconciliationpolicy *)
(* around the managed reconciler of one kind of resource, with the rate    *)
(* limiter they share with the work queue and with the event handler.      *)
(*                                                                         *)
(* Before every reconcile the policy of the MR decides on the override of  *)
(* its rate limiter; after its finalizer is removed the override is, too.  *)
(* The MRs are reconciled concurrently, each by one worker at a time, and  *)
(* are read from the informer's cache, which lags.  The work queue, the    *)
(* managed reconciler and the API server are not part of this repository.  *)
(***************************************************************************)
EXTENDS EncapsulatingRateLimiter

CONSTANT MaxFailures    \* bound: consecutive failures of one request

ASSUME BoundAssumption == MaxFailures \in Nat

VARIABLES
    api,        \* the MRs in the API server
    cache,      \* the MRs in the informer's cache
    policy,     \* the override the policy source yields for a request, or NoKey
    queue,      \* the requests that are, or will be, in the work queue
    worker      \* the reconciles in progress

envVars == <<api, cache, policy, queue>>
vars    == <<limiterVars, envVars, worker>>

MRStates == {"absent", "new", "finalized", "deleting"}  \* "finalized": with finalizer

PCs == {"idle", "policy", "apply", "reconcile", "removed", "failed", "succeeded"}

Workers == [pc: PCs, seen: Keys \cup {NoKey}]

IdleWorker == [pc |-> "idle", seen |-> NoKey]

\* Every variable has its type, and no bucket is empty.
TypeOK ==
    /\ LimiterTypeOK
    /\ \A r \in Requests : NumRequeues(r) \in 0..MaxFailures
    /\ api \in [Requests -> MRStates]
    /\ cache \in [Requests -> MRStates]
    /\ policy \in [Requests -> Keys \cup {NoKey}]
    /\ queue \subseteq Requests
    /\ worker \in [Requests -> Workers]

Init ==
    /\ LimiterInit
    /\ api = [r \in Requests |-> "absent"]
    /\ cache = [r \in Requests |-> "absent"]
    /\ policy \in [Requests -> Keys \cup {NoKey}]
    /\ queue = {}
    /\ worker = [r \in Requests |-> IdleWorker]

--------------------------------------------------------------------------------
(* Reconcile *)

MayFail(r) == NumRequeues(r) < MaxFailures

Goto(r, pc) == worker' = [worker EXCEPT ![r].pc = pc]

(* A slip: a policy that is taken away leaves its override. *)
KeepsOverride(r) == UNCHANGED limiterVars

Dequeue(r) ==
    /\ worker[r].pc = "idle" /\ r \in queue
    /\ queue' = queue \ {r}
    /\ Goto(r, "policy")
    /\ UNCHANGED <<limiterVars, api, cache, policy>>

\* setRateLimiter up to the registry: without the MR the override is left alone, and an
\* error of the client or of the policy source ends the reconcile.
PolicyIsRead(r) ==
    /\ worker[r].pc = "policy"
    /\ \/ /\ cache[r] = "absent"
          /\ Goto(r, "reconcile")
       \/ /\ cache[r] # "absent"
          /\ worker' = [worker EXCEPT ![r].pc = "apply", ![r].seen = policy[r]]
    /\ UNCHANGED <<limiterVars, envVars>>

PolicyIsNotRead(r) ==
    /\ worker[r].pc = "policy" /\ MayFail(r)
    /\ Goto(r, "failed")
    /\ UNCHANGED <<limiterVars, envVars>>

ClearOverride(r) == Remove(r)

\* setRateLimiter's update of the registry.
SetRateLimiter(r) ==
    /\ worker[r].pc = "apply"
    /\ IF worker[r].seen = NoKey THEN ClearOverride(r) ELSE Add(worker[r].seen, r)
    /\ worker' = [worker EXCEPT ![r] = [pc |-> "reconcile", seen |-> NoKey]]
    /\ UNCHANGED envVars

\* The managed reconciler reads the MR again.  It adds its finalizer or, once the external
\* resource of a deleted MR is gone, removes it; a stale copy is a conflict, but not if the
\* MR is gone.
InnerReconcile(r) ==
    /\ worker[r].pc = "reconcile"
    /\ \/ /\ cache[r] \in {"absent", "finalized"}
          /\ Goto(r, "succeeded")
          /\ UNCHANGED api
       \/ /\ cache[r] = "new" /\ api[r] = "new"
          /\ api' = [api EXCEPT ![r] = "finalized"]
          /\ Goto(r, "succeeded")
       \/ /\ cache[r] = "deleting" /\ api[r] \in {"deleting", "absent"}
          /\ api' = [api EXCEPT ![r] = "absent"]
          /\ Goto(r, "removed")
       \/ /\ cache[r] # "absent" /\ MayFail(r)
          /\ Goto(r, "failed")
          /\ UNCHANGED api
    /\ UNCHANGED <<limiterVars, cache, policy, queue>>

\* RemoveFinalizer after the inner finalizer has succeeded.
RemoveOverride(r) ==
    /\ worker[r].pc = "removed"
    /\ Remove(r)
    /\ Goto(r, "succeeded")
    /\ UNCHANGED envVars

\* The work queue forgets a request that succeeded, and polls what still exists.
Succeeded(r) ==
    /\ worker[r].pc = "succeeded"
    /\ Forget(r)
    /\ Goto(r, "idle")
    /\ queue' = IF cache[r] = "absent" THEN queue ELSE queue \cup {r}
    /\ UNCHANGED <<api, cache, policy>>

RetriesLater(r) == When(r) /\ queue' = queue \cup {r}

Failed(r) ==
    /\ worker[r].pc = "failed"
    /\ IF MayFail(r) THEN RetriesLater(r)
                     ELSE queue' = queue \cup {r} /\ UNCHANGED limiterVars
    /\ Goto(r, "idle")
    /\ UNCHANGED <<api, cache, policy>>

Reconcile(r) ==
    \/ Dequeue(r) \/ PolicyIsRead(r) \/ PolicyIsNotRead(r) \/ SetRateLimiter(r) \/ InnerReconcile(r)
    \/ RemoveOverride(r) \/ Succeeded(r) \/ Failed(r)

--------------------------------------------------------------------------------
(* The others *)

\* The callback of an asynchronous operation asks the event handler to requeue: after a
\* failure with the delay of the same rate limiter, which counts it; after a success at
\* once, and the limiter forgets the request.
RequestReconcile(r) ==
    /\ cache[r] # "absent"
    /\ \/ MayFail(r) /\ RetriesLater(r)
       \/ Forget(r) /\ queue' = queue \cup {r}
    /\ UNCHANGED <<api, cache, policy, worker>>

\* The cache catches up, and the watch event enqueues the request.
CacheSync(r) ==
    /\ cache[r] # api[r]
    /\ cache' = [cache EXCEPT ![r] = api[r]]
    /\ queue' = queue \cup {r}
    /\ UNCHANGED <<limiterVars, api, policy, worker>>

\* Bound: a name is used again only after the cache has seen that it is free.
UserCreates(r) ==
    /\ api[r] = "absent" /\ cache[r] = "absent"
    /\ api' = [api EXCEPT ![r] = "new"]
    /\ UNCHANGED <<limiterVars, cache, policy, queue, worker>>

UserDeletes(r) ==
    /\ \/ api[r] = "new" /\ api' = [api EXCEPT ![r] = "absent"]
       \/ api[r] = "finalized" /\ api' = [api EXCEPT ![r] = "deleting"]
    /\ UNCHANGED <<limiterVars, cache, policy, queue, worker>>

PolicyChanges(r) ==
    /\ \E key \in (Keys \cup {NoKey}) \ {policy[r]} : policy' = [policy EXCEPT ![r] = key]
    /\ UNCHANGED <<limiterVars, api, cache, queue, worker>>

StepOf(r) ==
    \/ Reconcile(r) \/ RequestReconcile(r)
    \/ CacheSync(r) \/ UserCreates(r) \/ UserDeletes(r) \/ PolicyChanges(r)

Next == \E r \in Requests : StepOf(r)

Spec == Init /\ [][Next]_vars

\* The workers and the informer run, and the policy source does not fail for ever.
Fairness == \A r \in Requests :
    WF_vars(Reconcile(r)) /\ WF_vars(CacheSync(r)) /\ SF_vars(PolicyIsRead(r))

FairSpec == Spec /\ Fairness

--------------------------------------------------------------------------------
(* Properties *)

Governs(r, key) == policy[r] = key /\ api[r] = "finalized"

\* A policy that stays in force, or is taken away for good, decides in the end on the
\* override of an MR that stays.
PolicyApplied(r) ==
    \A key \in Keys \cup {NoKey} : <>[]Governs(r, key) => <>[](inner[r] = key)

\* An override is cleaned up with its MR: once the MR is gone and nothing is left to
\* reconcile, none is registered.
Forgotten(r) ==
    api[r] = "absent" /\ cache[r] = "absent" /\ worker[r].pc = "idle" /\ r \notin queue

OverridesCleanedUp == \A r \in Requests : Forgotten(r) => inner[r] = NoKey

================================================================================
