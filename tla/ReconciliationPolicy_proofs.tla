----------------------- MODULE ReconciliationPolicy_proofs -----------------------
(***************************************************************************)
(* First, about the rate limiter alone: for all requests and keys and for  *)
(* every sequence of calls, the registry is consistent and requests that   *)
(* share a limiter do not notice one another.  Then, that the reconcilers, *)
(* finalizers, callbacks and the work queue together only use the limiter  *)
(* as EncapsulatingRateLimiter allows, so that what is proved of it holds  *)
(* of the whole.                                                           *)
(***************************************************************************)
EXTENDS ReconciliationPolicy, TLAPS

Limiters(L) ==
    /\ DOMAIN L \subseteq Keys
    /\ L = [k \in DOMAIN L |-> L[k]]
    /\ \A k \in DOMAIN L : L[k] \in RequestSets

--------------------------------------------------------------------------------
(* What the operations on the buckets return *)

\* Associate puts the request in its bucket and leaves the counts and the others alone.
Associated(L, key, req, A) ==
    /\ Limiters(A)
    /\ DOMAIN A = DOMAIN L \cup {key}
    /\ \A k \in DOMAIN L \ {key} : A[k] = L[k]
    /\ A[key].requests = IF key \in DOMAIN L THEN L[key].requests \cup {req} ELSE {req}
    /\ A[key].failures = IF key \in DOMAIN L THEN L[key].failures ELSE NoFailures

\* Associate puts the request into the bucket of its key and touches no other.
LEMMA AssociateFacts ==
    ASSUME NEW L, Limiters(L), NEW key \in Keys, NEW req \in Requests
    PROVE  Associated(L, key, req, Associate(L, key, req))
  <1> DEFINE rs == IF key \in DOMAIN L
                   THEN [L[key] EXCEPT !.requests = @ \cup {req}] ELSE NewRequestSet(req)
  <1>1. /\ rs \in RequestSets
        /\ rs.requests = IF key \in DOMAIN L THEN L[key].requests \cup {req} ELSE {req}
        /\ rs.failures = IF key \in DOMAIN L THEN L[key].failures ELSE NoFailures
    <2>1. CASE key \in DOMAIN L
      <3>1. L[key] \in RequestSets
        BY <2>1 DEF Limiters
      <3>2. rs = [L[key] EXCEPT !.requests = @ \cup {req}]
        BY <2>1
      <3>3. L[key].requests \cup {req} \in (SUBSET Requests) \ {{}}
        BY <3>1 DEF RequestSets
      <3> HIDE DEF rs
      <3> QED BY <2>1, <3>1, <3>2, <3>3 DEF RequestSets
    <2>2. CASE key \notin DOMAIN L
      <3>1. rs = NewRequestSet(req)
        BY <2>2
      <3>2. {req} \in (SUBSET Requests) \ {{}} /\ NoFailures \in Counts
        BY DEF NoFailures, Counts
      <3> HIDE DEF rs
      <3> QED BY <2>2, <3>1, <3>2 DEF NewRequestSet, RequestSets
    <2> QED BY <2>1, <2>2
  <1>2. Associate(L, key, req) = With(L, key, rs)
    BY DEF Associate
  <1> HIDE DEF rs
  <1>3. Associated(L, key, req, With(L, key, rs))
    BY <1>1 DEF Limiters, With, Associated
  <1> QED BY <1>2, <1>3

\* cleanup takes the request and its count out of its bucket, and the bucket away with
\* its last request; the other buckets stay as they are.
CleanedUp(L, key, req, C) ==
    /\ Limiters(C)
    /\ DOMAIN C = IF L[key].requests \subseteq {req} THEN DOMAIN L \ {key} ELSE DOMAIN L
    /\ \A k \in DOMAIN L \ {key} : C[k] = L[k]
    /\ ~(L[key].requests \subseteq {req}) =>
          /\ C[key].requests = L[key].requests \ {req}
          /\ C[key].failures = [L[key].failures EXCEPT ![req] = 0]

\* cleanup takes the request out of one bucket, and drops the bucket if it was the last.
LEMMA CleanupFacts ==
    ASSUME NEW L, Limiters(L), NEW key \in DOMAIN L, NEW req \in Requests
    PROVE  CleanedUp(L, key, req, cleanup(L, key, req))
  <1> DEFINE rs == Disassociate(L[key], req)
  <1>1. /\ rs.requests = L[key].requests \ {req}
        /\ rs.failures = [L[key].failures EXCEPT ![req] = 0]
        /\ rs.requests # {} => rs \in RequestSets
    BY DEF Disassociate, Limiters, RequestSets, Counts
  <1>2. cleanup(L, key, req) = IF rs.requests = {} THEN Without(L, key) ELSE With(L, key, rs)
    BY DEF cleanup, StoreOrDrop
  <1>3. rs.requests = {} <=> L[key].requests \subseteq {req}
    BY <1>1
  <1> HIDE DEF rs
  <1>4. CASE rs.requests = {}
    <2>1. CleanedUp(L, key, req, Without(L, key))
      BY <1>1, <1>3, <1>4 DEF Limiters, Without, CleanedUp
    <2> QED BY <1>2, <1>4, <2>1
  <1>5. CASE rs.requests # {}
    <2>1. CleanedUp(L, key, req, With(L, key, rs))
      BY <1>1, <1>3, <1>5 DEF Limiters, With, CleanedUp
    <2> QED BY <1>2, <1>5, <2>1
  <1> QED BY <1>4, <1>5

--------------------------------------------------------------------------------
(* The invariant, and what each call does to the count under the override.          *)
(* Registered needs the types; that a request which returns to a bucket starts      *)
(* afresh is NoStrayFailures.                                                       *)

LInv == LimiterTypeOK /\ Registered /\ NoStrayFailures

Own(r) == IF inner[r] \in DOMAIN rateLimiters THEN rateLimiters[inner[r]].failures[r] ELSE 0

\* Add is an assignment of an override, and keeps the buckets consistent.
LEMMA AddStep ==
    ASSUME LInv, NEW key \in Keys, NEW req \in Requests, Add(key, req)
    PROVE  /\ LInv'
           /\ \A r \in Requests \ {req} : Own(r)' = Own(r)
           /\ Own(req)' = IF inner[req] = key THEN Own(req) ELSE 0
  <1> DEFINE L   == rateLimiters
             A   == Associate(L, key, req)
             old == inner[req]
  <1>1. Limiters(L) /\ A = Associate(L, key, req)
    BY DEF LInv, LimiterTypeOK, Limiters
  <1> HIDE DEF A
  <1>2. /\ Limiters(A)
        /\ DOMAIN A = DOMAIN L \cup {key}
        /\ \A k \in DOMAIN L \ {key} : A[k] = L[k]
        /\ A[key].requests = IF key \in DOMAIN L THEN L[key].requests \cup {req} ELSE {req}
        /\ A[key].failures = IF key \in DOMAIN L THEN L[key].failures ELSE NoFailures
    <2>1. Associated(L, key, req, A)
      BY <1>1, AssociateFacts
    <2> QED BY <2>1 DEF Associated
  <1>3. /\ inner' = [inner EXCEPT ![req] = key] /\ defaultRateLimiter' = defaultRateLimiter
        /\ rateLimiters' = IF old # key THEN cleanup(A, old, req) ELSE A
    BY <1>1 DEF Add
  <1>4. /\ inner \in [Requests -> Keys \cup {NoKey}] /\ defaultRateLimiter \in Counts
        /\ inner' \in [Requests -> Keys \cup {NoKey}]
        /\ NoKey \notin DOMAIN A
    BY <1>2, <1>3, KeyAssumption DEF LInv, LimiterTypeOK, Limiters
  <1>5. CASE rateLimiters' = A
    <2>1. old = key \/ old \notin DOMAIN A
      <3>1. SUFFICES ASSUME old # key, old \in DOMAIN A PROVE FALSE
        OBVIOUS
      <3>2. req \in L[old].requests /\ A[old] = L[old] /\ old \in DOMAIN L
        BY <1>2, <3>1 DEF LInv, Registered
      <3>3. A = cleanup(A, old, req)
        BY <1>3, <1>5, <3>1
      <3>4. /\ A[old].requests \subseteq {req} => old \notin DOMAIN A
            /\ ~(A[old].requests \subseteq {req}) => req \notin A[old].requests
        <4>1. CleanedUp(A, old, req, A)
          BY <1>2, <3>1, <3>3, CleanupFacts
        <4> QED BY <4>1 DEF CleanedUp
      <3> QED BY <3>1, <3>2, <3>4
    <2>2. LimiterTypeOK'
      BY <1>2, <1>3, <1>4, <1>5 DEF LimiterTypeOK, Limiters
    <2>3. Registered'
      BY <1>2, <1>3, <1>4, <1>5, <2>1 DEF LInv, Registered
    <2>4. NoStrayFailures'
      BY <1>2, <1>3, <1>4, <1>5, <2>1 DEF LInv, Registered, NoStrayFailures, NoFailures
    <2>5. /\ \A r \in Requests \ {req} : Own(r)' = Own(r)
          /\ Own(req)' = IF inner[req] = key THEN Own(req) ELSE 0
      BY <1>2, <1>3, <1>4, <1>5, <2>1 DEF LInv, Registered, NoStrayFailures, Own, NoFailures
    <2> QED BY <2>2, <2>3, <2>4, <2>5 DEF LInv
  <1>6. CASE rateLimiters' # A
    <2> DEFINE C == cleanup(A, old, req)
    <2>1. old # key /\ rateLimiters' = C /\ C = cleanup(A, old, req)
          /\ old \in DOMAIN A /\ old \in DOMAIN L /\ A[old] = L[old]
      BY <1>2, <1>3, <1>6 DEF cleanup
    <2> HIDE DEF C
    <2>2. /\ Limiters(C)
          /\ DOMAIN C = IF L[old].requests \subseteq {req} THEN DOMAIN A \ {old} ELSE DOMAIN A
          /\ \A k \in DOMAIN A \ {old} : C[k] = A[k]
          /\ ~(L[old].requests \subseteq {req}) =>
                /\ C[old].requests = L[old].requests \ {req}
                /\ C[old].failures = [L[old].failures EXCEPT ![req] = 0]
      <3>1. CleanedUp(A, old, req, C)
        BY <1>2, <2>1, CleanupFacts
      <3> QED BY <2>1, <3>1 DEF CleanedUp
    <2>3. L[old].failures \in Counts
      BY <1>1, <2>1 DEF Limiters, RequestSets
    <2>4. LimiterTypeOK'
      BY <1>3, <1>4, <2>1, <2>2 DEF LimiterTypeOK, Limiters
    <2>5. Registered'
      BY <1>2, <1>3, <1>4, <2>1, <2>2 DEF LInv, Registered
    <2>6. NoStrayFailures'
      BY <1>2, <1>3, <1>4, <2>1, <2>2, <2>3
      DEF LInv, Registered, NoStrayFailures, NoFailures, Counts
    <2>7. /\ \A r \in Requests \ {req} : Own(r)' = Own(r)
          /\ Own(req)' = IF inner[req] = key THEN Own(req) ELSE 0
      BY <1>2, <1>3, <1>4, <2>1, <2>2, <2>3
      DEF LInv, Registered, NoStrayFailures, Own, NoFailures, Counts
    <2> QED BY <2>4, <2>5, <2>6, <2>7 DEF LInv
  <1> QED BY <1>5, <1>6

\* Remove is the assignment of none.
LEMMA RemoveStep ==
    ASSUME LInv, NEW req \in Requests, Remove(req)
    PROVE  /\ LInv'
           /\ \A r \in Requests \ {req} : Own(r)' = Own(r)
           /\ Own(req)' = 0
  <1> DEFINE L   == rateLimiters
             old == inner[req]
             C   == cleanup(L, old, req)
  <1>1. Limiters(L) /\ C = cleanup(L, old, req)
    BY DEF LInv, LimiterTypeOK, Limiters
  <1>2. /\ inner' = [inner EXCEPT ![req] = NoKey] /\ defaultRateLimiter' = defaultRateLimiter
        /\ rateLimiters' = C
    BY DEF Remove
  <1> HIDE DEF C
  <1>3. /\ inner \in [Requests -> Keys \cup {NoKey}] /\ defaultRateLimiter \in Counts
        /\ inner' \in [Requests -> Keys \cup {NoKey}]
        /\ NoKey \notin DOMAIN L
    BY <1>2, KeyAssumption DEF LInv, LimiterTypeOK
  <1>4. CASE old = NoKey
    <2>1. inner' = inner /\ rateLimiters' = rateLimiters
      BY <1>1, <1>2, <1>3, <1>4 DEF cleanup
    <2> QED BY <1>2, <1>3, <1>4, <2>1
          DEF LInv, LimiterTypeOK, Registered, NoStrayFailures, Own
  <1>5. CASE old # NoKey
    <2>1. old \in DOMAIN L
      BY <1>5 DEF LInv, Registered
    <2>2. /\ Limiters(C)
          /\ DOMAIN C = IF L[old].requests \subseteq {req} THEN DOMAIN L \ {old} ELSE DOMAIN L
          /\ \A k \in DOMAIN L \ {old} : C[k] = L[k]
          /\ ~(L[old].requests \subseteq {req}) =>
                /\ C[old].requests = L[old].requests \ {req}
                /\ C[old].failures = [L[old].failures EXCEPT ![req] = 0]
      <3>1. CleanedUp(L, old, req, C)
        BY <1>1, <2>1, CleanupFacts
      <3> QED BY <3>1 DEF CleanedUp
    <2>3. L[old].failures \in Counts
      BY <1>1, <2>1 DEF Limiters, RequestSets
    <2>4. LimiterTypeOK'
      BY <1>2, <1>3, <2>2 DEF LimiterTypeOK, Limiters
    <2>5. Registered'
      BY <1>2, <1>3, <1>5, <2>1, <2>2 DEF LInv, Registered
    <2>6. NoStrayFailures'
      BY <1>2, <1>3, <2>1, <2>2, <2>3 DEF LInv, Registered, NoStrayFailures, Counts
    <2>7. /\ \A r \in Requests \ {req} : Own(r)' = Own(r)
          /\ Own(req)' = 0
      BY <1>2, <1>3, <2>1, <2>2, <2>3 DEF LInv, Registered, Own, Counts
    <2> QED BY <2>4, <2>5, <2>6, <2>7 DEF LInv
  <1> QED BY <1>4, <1>5

\* When and Forget change the count of one request under its current limiter.
LEMMA CountStep ==
    ASSUME LInv, NEW req \in Requests, NEW n \in Nat, SetFailures(req, n)
    PROVE  /\ LInv'
           /\ inner' = inner
           /\ \A r \in Requests \ {req} : Own(r)' = Own(r)
           /\ inner[req] = NoKey =>
                  /\ Own(req)' = Own(req)
                  /\ defaultRateLimiter' = [defaultRateLimiter EXCEPT ![req] = n]
           /\ inner[req] # NoKey =>
                  /\ Own(req)' = n
                  /\ defaultRateLimiter' = defaultRateLimiter
  <1> DEFINE key == inner[req]
  <1>1. CASE Overridden(req)
    <2>1. /\ key \in DOMAIN rateLimiters /\ key # NoKey
          /\ rateLimiters' = [rateLimiters EXCEPT ![key].failures[req] = n]
          /\ inner' = inner /\ defaultRateLimiter' = defaultRateLimiter
      BY <1>1, KeyAssumption DEF SetFailures, Overridden, LInv, LimiterTypeOK
    <2>2. /\ DOMAIN rateLimiters' = DOMAIN rateLimiters
          /\ \A k \in DOMAIN rateLimiters \ {key} : rateLimiters'[k] = rateLimiters[k]
          /\ rateLimiters'[key].requests = rateLimiters[key].requests
          /\ rateLimiters'[key].failures = [rateLimiters[key].failures EXCEPT ![req] = n]
          /\ rateLimiters'[key] \in RequestSets
      BY <2>1, ZenonT(60) DEF LInv, LimiterTypeOK, RequestSets, Counts
    <2>3. LimiterTypeOK'
      BY <2>1, <2>2, ZenonT(60) DEF LInv, LimiterTypeOK
    <2>4. Registered'
      BY <2>1, <2>2 DEF LInv, Registered
    <2>5. rateLimiters[key].failures \in Counts
      BY <2>1 DEF LInv, LimiterTypeOK, RequestSets
    <2>6. NoStrayFailures'
      BY <2>1, <2>2, <2>5 DEF LInv, NoStrayFailures, Counts
    <2>7. Own(req)' = n /\ \A r \in Requests \ {req} : Own(r)' = Own(r)
      BY <2>1, <2>2, <2>5 DEF Own, Counts
    <2> QED BY <2>1, <2>3, <2>4, <2>6, <2>7 DEF LInv
  <1>2. CASE ~Overridden(req)
    <2>1. /\ key = NoKey /\ inner' = inner /\ rateLimiters' = rateLimiters
          /\ defaultRateLimiter' = [defaultRateLimiter EXCEPT ![req] = n]
      BY <1>2 DEF SetFailures, Overridden, LInv, Registered
    <2> QED BY <2>1 DEF LInv, LimiterTypeOK, Counts, Registered, NoStrayFailures, Own
  <1> QED BY <1>1, <1>2

\* NumRequeues is a number.
LEMMA CountType == ASSUME LInv, NEW req \in Requests PROVE NumRequeues(req) \in Nat
  BY DEF LInv, LimiterTypeOK, NumRequeues, Overridden, RequestSets, Counts

--------------------------------------------------------------------------------
(* For every sequence of calls *)

\* A new limiter has no buckets.
LEMMA LimiterInitInv == LimiterInit => LInv
  <1> SUFFICES ASSUME LimiterInit PROVE LInv
    OBVIOUS
  <1>1. DOMAIN rateLimiters = {} /\ rateLimiters = [k \in DOMAIN rateLimiters |-> rateLimiters[k]]
    BY DEF LimiterInit
  <1> QED BY <1>1
        DEF LimiterInit, LInv, LimiterTypeOK, Registered, NoStrayFailures, NoFailures, Counts

\* Every call keeps the buckets consistent.
LEMMA LimiterNextInv == LInv /\ [LimiterNext]_limiterVars => LInv'
  <1> SUFFICES ASSUME LInv, [LimiterNext]_limiterVars PROVE LInv'
    OBVIOUS
  <1>1. CASE UNCHANGED limiterVars
    BY <1>1 DEF limiterVars, LInv, LimiterTypeOK, Registered, NoStrayFailures
  <1>2. ASSUME NEW req \in Requests, When(req) \/ Forget(req) PROVE LInv'
    BY <1>2, CountStep, CountType DEF When, Forget
  <1> QED BY <1>1, <1>2, AddStep, RemoveStep DEF LimiterNext

\* The inductive invariant of the limiter.
LEMMA LimiterInductive == LimiterSpec => []LInv
  BY LimiterInitInv, LimiterNextInv, PTL DEF LimiterSpec

\* Whatever calls are made in whatever order, a request is in the bucket of its key, which
\* exists, and in no other, and no bucket is left without requests.
THEOREM BucketsMatch == LimiterSpec => []Registered
  <1>1. LInv => Registered
    BY DEF LInv
  <1> QED BY <1>1, LimiterInductive, PTL

\* A bucket counts failures of the requests that are in it now, and of no other: whatever
\* calls are made, one that was moved or removed leaves nothing behind.
THEOREM NothingRemembered == LimiterSpec => []NoStrayFailures
  <1>1. LInv => NoStrayFailures
    BY DEF LInv
  <1> QED BY <1>1, LimiterInductive, PTL

\* Every call about a request does to its own retry state what it would do if the request
\* were alone, and nothing to the state of another request that shares its limiter.
LEMMA PerRequestStep ==
    ASSUME LInv, [LimiterNext]_limiterVars
    PROVE  [PerRequest!Next]_(PerRequest!vars)
  <1> DEFINE own == [r \in Requests |-> Own(r)]
  <1>1. CASE UNCHANGED limiterVars
    BY <1>1 DEF limiterVars, PerRequest!vars
  <1>2. ASSUME NEW req \in Requests, NEW key \in Keys, Add(key, req)
        PROVE  PerRequest!Assign(req, key)
    <2>1. own' = [own EXCEPT ![req] = IF inner[req] = key THEN @ ELSE 0]
      BY <1>2, AddStep
    <2> QED BY <1>2, <2>1 DEF Add, Own, PerRequest!Assign
  <1>3. ASSUME NEW req \in Requests, Remove(req)
        PROVE  PerRequest!Assign(req, NoKey)
    <2>1. own' = [own EXCEPT ![req] = 0]
      BY <1>3, RemoveStep
    <2>2. inner[req] = NoKey => own[req] = 0
      BY KeyAssumption DEF Own, LInv, LimiterTypeOK
    <2>3. own' = [own EXCEPT ![req] = IF inner[req] = NoKey THEN @ ELSE 0]
      BY <2>1, <2>2
    <2> QED BY <1>3, <2>3 DEF Remove, Own, PerRequest!Assign
  <1>4. ASSUME NEW req \in Requests, When(req)
        PROVE  PerRequest!Fail(req)
    <2>1. /\ inner[req] = NoKey => NumRequeues(req) = defaultRateLimiter[req]
          /\ inner[req] # NoKey => NumRequeues(req) = Own(req)
      BY KeyAssumption DEF NumRequeues, Overridden, Own, LInv, LimiterTypeOK, Registered
    <2>2. NumRequeues(req) + 1 \in Nat
      BY CountType
    <2>3. SetFailures(req, NumRequeues(req) + 1)
      BY <1>4 DEF When
    <2>4. CASE inner[req] = NoKey
      <3>1. own' = own
        BY <2>2, <2>3, <2>4, CountStep
      <3>2. /\ inner' = inner
            /\ defaultRateLimiter' = [defaultRateLimiter EXCEPT ![req] = @ + 1]
        BY <2>1, <2>2, <2>3, <2>4, CountStep
      <3> QED BY <2>4, <3>1, <3>2 DEF Own, PerRequest!Fail
    <2>5. CASE inner[req] # NoKey
      <3>1. own' = [own EXCEPT ![req] = @ + 1]
        BY <2>1, <2>2, <2>3, <2>5, CountStep
      <3>2. inner' = inner /\ defaultRateLimiter' = defaultRateLimiter
        BY <2>2, <2>3, <2>5, CountStep
      <3> QED BY <2>5, <3>1, <3>2 DEF Own, PerRequest!Fail
    <2> QED BY <2>4, <2>5
  <1>5. ASSUME NEW req \in Requests, Forget(req)
        PROVE  PerRequest!Succeed(req)
    <2>1. CASE inner[req] = NoKey
      <3>1. own' = own
        BY <1>5, <2>1, CountStep DEF Forget
      <3>2. inner' = inner /\ defaultRateLimiter' = [defaultRateLimiter EXCEPT ![req] = 0]
        BY <1>5, <2>1, CountStep DEF Forget
      <3> QED BY <2>1, <3>1, <3>2 DEF Own, PerRequest!Succeed
    <2>2. CASE inner[req] # NoKey
      <3>1. own' = [own EXCEPT ![req] = 0]
        BY <1>5, <2>2, CountStep DEF Forget
      <3>2. inner' = inner /\ defaultRateLimiter' = defaultRateLimiter
        BY <1>5, <2>2, CountStep DEF Forget
      <3> QED BY <2>2, <3>1, <3>2 DEF Own, PerRequest!Succeed
    <2> QED BY <2>1, <2>2
  <1> QED BY <1>1, <1>2, <1>3, <1>4, <1>5 DEF LimiterNext, PerRequest!Next

\* A new limiter has counted nothing for anybody.
LEMMA PerRequestInit == LimiterInit => PerRequest!Init
  BY DEF LimiterInit, NoFailures, PerRequest!Init

\* Requests that share a limiter object have retry states of their own, as if each had its own
\* object: the contrary of what the comments at encapsulating.go:23-25 and types.go:25-27 say.
THEOREM ImplementsPerRequestRetries == LimiterSpec => RequestsIndependent
  BY PerRequestInit, PerRequestStep, LimiterInductive, PTL
  DEF LimiterSpec, RequestsIndependent, PerRequest!Spec

--------------------------------------------------------------------------------
(* The reconcilers and the queue *)

\* A worker only ever carries an override that the policy source may yield.
Overrides ==
    /\ policy \in [Requests -> Keys \cup {NoKey}]
    /\ worker \in [Requests -> Workers]

\* No worker has read a policy at the start.
LEMMA OverridesInit == Init => Overrides
  BY DEF Init, Overrides, IdleWorker, Workers, PCs

\* What a worker has read of a policy is an override or none.
LEMMA OverridesNext == Overrides /\ [Next]_vars => Overrides'
  <1> SUFFICES ASSUME Overrides, [Next]_vars PROVE Overrides'
    OBVIOUS
  <1> USE DEF Overrides
  <1>1. CASE UNCHANGED <<policy, worker>>
    BY <1>1
  <1>2. ASSUME NEW r \in Requests, NEW pc \in PCs, Goto(r, pc) PROVE worker' \in [Requests -> Workers]
    BY <1>2 DEF Goto, Workers
  <1>3. ASSUME NEW r \in Requests, Reconcile(r) PROVE Overrides'
    <2>1. CASE \/ Dequeue(r) \/ InnerReconcile(r) \/ RemoveOverride(r)
               \/ Succeeded(r) \/ Failed(r)
      <3>1. policy' = policy /\ \E pc \in PCs : Goto(r, pc)
        BY <2>1 DEF Dequeue, InnerReconcile, RemoveOverride, Succeeded, Failed, PCs, envVars
      <3> QED BY <1>2, <3>1
    <2>2. CASE PolicyIsRead(r) \/ PolicyIsNotRead(r)
      <3>1. policy' = policy
        BY <2>2 DEF PolicyIsRead, PolicyIsNotRead, envVars
      <3>2. CASE worker' = [worker EXCEPT ![r].pc = "apply", ![r].seen = policy[r]]
        BY <3>1, <3>2 DEF Workers, PCs
      <3>3. CASE Goto(r, "reconcile") \/ Goto(r, "failed")
        BY <1>2, <3>1, <3>3 DEF PCs
      <3> QED BY <2>2, <3>2, <3>3 DEF PolicyIsRead, PolicyIsNotRead
    <2>3. CASE SetRateLimiter(r)
      BY <2>3 DEF SetRateLimiter, envVars, Workers, PCs
    <2> QED BY <1>3, <2>1, <2>2, <2>3 DEF Reconcile
  <1>4. ASSUME NEW r \in Requests, PolicyChanges(r) PROVE Overrides'
    BY <1>4 DEF PolicyChanges
  <1>5. ASSUME NEW r \in Requests, RequestReconcile(r) PROVE UNCHANGED <<policy, worker>>
    BY <1>5 DEF RequestReconcile
  <1> QED
    BY <1>1, <1>3, <1>4, <1>5
    DEF Next, StepOf, vars, envVars, CacheSync, UserCreates, UserDeletes

\* What the reconcilers, finalizers, queue and event handler call of the limiter.
Calls(r) ==
    (\E key \in Keys : Add(key, r)) \/ Remove(r) \/ Forget(r) \/ (MayFail(r) /\ When(r))

\* Every step of the reconciler, the finalizer, the queue and the event handler is a
\* call of the limiter or leaves it alone.
LEMMA LimiterIsCalled ==
    ASSUME Overrides, [Next]_vars
    PROVE  UNCHANGED limiterVars \/ \E r \in Requests : Calls(r)
  <1>1. CASE UNCHANGED limiterVars
    BY <1>1
  <1>2. ASSUME NEW r \in Requests, Reconcile(r) PROVE UNCHANGED limiterVars \/ Calls(r)
    <2>1. CASE SetRateLimiter(r)
      <3>1. worker[r].seen = NoKey \/ worker[r].seen \in Keys
        BY DEF Overrides, Workers
      <3> QED BY <2>1, <3>1 DEF SetRateLimiter, ClearOverride, Calls
    <2>2. CASE RemoveOverride(r) \/ Succeeded(r) \/ Failed(r)
      BY <2>2 DEF RemoveOverride, Succeeded, Failed, RetriesLater, Calls
    <2>3. CASE Dequeue(r) \/ PolicyIsRead(r) \/ PolicyIsNotRead(r) \/ InnerReconcile(r)
      BY <2>3 DEF Dequeue, PolicyIsRead, PolicyIsNotRead, InnerReconcile
    <2> QED BY <1>2, <2>1, <2>2, <2>3 DEF Reconcile
  <1>3. ASSUME NEW r \in Requests, RequestReconcile(r) PROVE Calls(r)
    BY <1>3 DEF RequestReconcile, RetriesLater, Calls
  <1> QED
    BY <1>1, <1>2, <1>3
    DEF Next, StepOf, vars, CacheSync, UserCreates, UserDeletes, PolicyChanges

\* Such a step is one that the limiter allows.
LEMMA LimiterStep == Overrides /\ [Next]_vars => [LimiterNext]_limiterVars
  BY LimiterIsCalled DEF Calls, LimiterNext

\* The composition drives the rate limiter through its four operations alone.
THEOREM DrivesLimiter == Spec => LimiterSpec
  <1>1. Init => LimiterInit
    BY DEF Init
  <1> QED BY <1>1, OverridesInit, OverridesNext, LimiterStep, PTL DEF Spec, LimiterSpec

\* However the reconciles of the MRs, their callbacks and their deletions interleave, every
\* request is in the bucket of the override it has, and in no other.
THEOREM PolicyBucketsMatch == Spec => []Registered
  BY DrivesLimiter, BucketsMatch, PTL

\* However they interleave, no bucket remembers a failure of a request that is not its own.
THEOREM PolicyNothingRemembered == Spec => []NoStrayFailures
  BY DrivesLimiter, NothingRemembered, PTL

\* However they interleave, MRs with the same policy do not disturb each other's back-off.
THEOREM PolicyRequestsIndependent == Spec => RequestsIndependent
  BY DrivesLimiter, ImplementsPerRequestRetries, PTL

--------------------------------------------------------------------------------
(* Types.  That the count which governs a request is bounded is not inductive: one  *)
(* that loses its override goes on with the count of the default limiter.           *)

Failures == 0..MaxFailures

Bounded == \A r \in Requests : Own(r) \in Failures /\ defaultRateLimiter[r] \in Failures

Environment ==
    /\ api \in [Requests -> MRStates] /\ cache \in [Requests -> MRStates]
    /\ queue \subseteq Requests

PolicyInv == LInv /\ Bounded /\ Overrides /\ Environment

\* The count that governs a request is one of the two.
LEMMA CountBounded ==
    ASSUME PolicyInv, NEW r \in Requests
    PROVE  NumRequeues(r) \in Failures
  BY DEF PolicyInv, Bounded, Own, NumRequeues, Overridden

\* No call lets a count grow beyond the bound.
LEMMA CallsKeepBound ==
    ASSUME PolicyInv, NEW req \in Requests, Calls(req)
    PROVE  Bounded'
  <1> USE BoundAssumption DEF Failures
  <1>0. LInv /\ defaultRateLimiter \in Counts
    BY DEF PolicyInv, LInv, LimiterTypeOK
  <1>1. ASSUME NEW key \in Keys, Add(key, req) PROVE Bounded'
    <2>1. defaultRateLimiter' = defaultRateLimiter
      BY <1>1 DEF Add
    <2> QED BY <1>0, <1>1, <2>1, AddStep DEF PolicyInv, Bounded
  <1>2. ASSUME Remove(req) PROVE Bounded'
    <2>1. defaultRateLimiter' = defaultRateLimiter
      BY <1>2 DEF Remove
    <2> QED BY <1>0, <1>2, <2>1, RemoveStep DEF PolicyInv, Bounded
  <1>3. ASSUME NEW n \in Failures, SetFailures(req, n) PROVE Bounded'
    <2>1. CASE inner[req] = NoKey
      BY <1>0, <1>3, <2>1, CountStep DEF PolicyInv, Bounded, Counts
    <2>2. CASE inner[req] # NoKey
      BY <1>0, <1>3, <2>2, CountStep DEF PolicyInv, Bounded, Counts
    <2> QED BY <2>1, <2>2
  <1>4. CASE MayFail(req) /\ When(req)
    <2>1. NumRequeues(req) + 1 \in Failures
      BY <1>4, CountBounded DEF MayFail
    <2> QED BY <1>3, <1>4, <2>1 DEF When
  <1>5. CASE Forget(req)
    <2>1. 0 \in Failures
      OBVIOUS
    <2> QED BY <1>3, <1>5, <2>1 DEF Forget
  <1> QED BY <1>1, <1>2, <1>4, <1>5 DEF Calls

\* The MRs in the API server and in the cache stay what they may be.
LEMMA EnvironmentNext == Environment /\ [Next]_vars => Environment'
  <1> SUFFICES ASSUME Environment, [Next]_vars PROVE Environment'
    OBVIOUS
  <1> USE DEF Environment
  <1>1. CASE UNCHANGED envVars
    BY <1>1 DEF envVars
  <1>2. ASSUME NEW r \in Requests, StepOf(r) PROVE Environment'
    <2>1. CASE Dequeue(r) \/ PolicyIsRead(r) \/ PolicyIsNotRead(r) \/ SetRateLimiter(r) \/ RemoveOverride(r)
      BY <2>1 DEF Dequeue, PolicyIsRead, PolicyIsNotRead, SetRateLimiter, RemoveOverride, envVars
    <2>2. CASE InnerReconcile(r)
      BY <2>2 DEF InnerReconcile, MRStates
    <2>3. CASE Succeeded(r) \/ Failed(r) \/ RequestReconcile(r)
      BY <2>3 DEF Succeeded, Failed, RequestReconcile, RetriesLater
    <2>4. CASE CacheSync(r)
      BY <2>4 DEF CacheSync
    <2>5. CASE UserCreates(r) \/ UserDeletes(r) \/ PolicyChanges(r)
      BY <2>5 DEF UserCreates, UserDeletes, PolicyChanges, MRStates
    <2> QED BY <1>2, <2>1, <2>2, <2>3, <2>4, <2>5 DEF StepOf, Reconcile
  <1> QED BY <1>1, <1>2 DEF Next, vars

\* Initially nothing is counted, and nothing exists.
LEMMA PolicyInvInit == Init => PolicyInv
  <1> SUFFICES ASSUME Init PROVE PolicyInv
    OBVIOUS
  <1>1. LInv /\ Overrides
    BY LimiterInitInv, OverridesInit DEF Init
  <1>2. Bounded
    <2>1. DOMAIN rateLimiters = {} /\ defaultRateLimiter = [r \in Requests |-> 0]
      BY DEF Init, LimiterInit, NoFailures
    <2>2. 0 \in Failures
      BY BoundAssumption DEF Failures
    <2>3. \A r \in Requests : Own(r) = 0
      BY <2>1 DEF Own
    <2> QED BY <2>1, <2>2, <2>3 DEF Bounded
  <1>3. Environment
    BY DEF Init, Environment, MRStates
  <1> QED BY <1>1, <1>2, <1>3 DEF PolicyInv

\* Every step keeps the types and the bounds of both counts.
LEMMA PolicyInvNext == PolicyInv /\ [Next]_vars => PolicyInv'
  <1> SUFFICES ASSUME PolicyInv, [Next]_vars PROVE PolicyInv'
    OBVIOUS
  <1>1. LInv'
    BY LimiterStep, LimiterNextInv DEF PolicyInv
  <1>2. Bounded'
    <2>1. CASE UNCHANGED limiterVars
      BY <2>1 DEF PolicyInv, Bounded, Own, limiterVars
    <2>2. ASSUME NEW r \in Requests, Calls(r) PROVE Bounded'
      BY <2>2, CallsKeepBound
    <2> QED BY <2>1, <2>2, LimiterIsCalled DEF PolicyInv
  <1>3. Overrides' /\ Environment'
    BY OverridesNext, EnvironmentNext DEF PolicyInv
  <1> QED BY <1>1, <1>2, <1>3 DEF PolicyInv

\* The variables keep their types, and no request counts more failures than the bound, under
\* its override or without: losing an override brings back the default's count, which never
\* exceeded it either.
THEOREM PolicyTypes == Spec => []TypeOK
  <1>1. PolicyInv => TypeOK
    <2> SUFFICES ASSUME PolicyInv PROVE TypeOK
      OBVIOUS
    <2>1. \A r \in Requests : NumRequeues(r) \in 0..MaxFailures
      BY CountBounded DEF Failures
    <2> QED BY <2>1 DEF PolicyInv, LInv, Overrides, Environment, TypeOK
  <1> QED BY <1>1, PolicyInvInit, PolicyInvNext, PTL DEF Spec

================================================================================
