------------------------ MODULE EncapsulatingRateLimiter ------------------------
(***************************************************************************)
(* The work queue's rate limiter with per-request overrides,               *)
(* pkg/internal/ratelimiter/encapsulating.go.  Requests with an override   *)
(* are bucketed under the key of the override; the requests of a bucket    *)
(* share one limiter object, made for the first and dropped with the last. *)
(* Add and Remove hold the write lock and When and Forget the read lock    *)
(* for their whole body, so each is one step.  A limiter is                *)
(* workqueue.TypedItemExponentialFailureRateLimiter: a count of            *)
(* consecutive failures for each request, which determines the delay.      *)
(***************************************************************************)
EXTENDS Naturals

CONSTANTS
    Requests,   \* the names of managed resources
    Keys,       \* pairs of a base and a maximal delay
    NoKey       \* "no override"

ASSUME KeyAssumption == NoKey \notin Keys

VARIABLES
    inner,              \* the key of a request's override, or NoKey
    rateLimiters,       \* the buckets: a function on the keys in use
    defaultRateLimiter  \* the counts of the limiter of all other requests

limiterVars == <<inner, rateLimiters, defaultRateLimiter>>

Counts == [Requests -> Nat]

NoFailures == [r \in Requests |-> 0]

RequestSets == [requests: (SUBSET Requests) \ {{}}, failures: Counts]

LimiterTypeOK ==
    /\ inner \in [Requests -> Keys \cup {NoKey}]
    /\ DOMAIN rateLimiters \subseteq Keys
    /\ rateLimiters = [k \in DOMAIN rateLimiters |-> rateLimiters[k]]
    /\ \A k \in DOMAIN rateLimiters : rateLimiters[k] \in RequestSets
    /\ defaultRateLimiter \in Counts

LimiterInit ==
    /\ inner = [r \in Requests |-> NoKey]
    /\ rateLimiters = [k \in {} |-> NoKey]
    /\ defaultRateLimiter = NoFailures

--------------------------------------------------------------------------------

NewRequestSet(req) == [requests |-> {req}, failures |-> NoFailures]

Without(limiters, key) == [k \in DOMAIN limiters \ {key} |-> limiters[k]]

With(limiters, key, rs) ==
    [k \in DOMAIN limiters \cup {key} |-> IF k = key THEN rs ELSE limiters[k]]

(* Slips of the kind the properties are there to catch; no action uses them. *)
KeepsFailures(rs, req) == [rs EXCEPT !.requests = @ \ {req}]
KeepsEmpty(limiters, key, rs) == With(limiters, key, rs)
DropsShared(limiters, key, rs) == Without(limiters, key)
KeepsPrevious(limiters, key, req) == limiters

\* The request leaves the bucket, and the limiter of the bucket forgets it.
Disassociate(rs, req) ==
    [requests |-> rs.requests \ {req}, failures |-> [rs.failures EXCEPT ![req] = 0]]

\* A bucket without requests is dropped.
StoreOrDrop(limiters, key, rs) ==
    IF rs.requests = {} THEN Without(limiters, key) ELSE With(limiters, key, rs)

cleanup(limiters, key, req) ==
    IF key \in DOMAIN limiters
    THEN StoreOrDrop(limiters, key, Disassociate(limiters[key], req))
    ELSE limiters

\* The limiter of an existing bucket is kept, whatever limiter the caller brings.
Associate(limiters, key, req) ==
    With(limiters, key, IF key \in DOMAIN limiters
                        THEN [limiters[key] EXCEPT !.requests = @ \cup {req}]
                        ELSE NewRequestSet(req))

Add(key, req) ==
    /\ inner' = [inner EXCEPT ![req] = key]
    /\ rateLimiters' = LET added == Associate(rateLimiters, key, req)
                       IN IF inner[req] # key THEN cleanup(added, inner[req], req) ELSE added
    /\ UNCHANGED defaultRateLimiter

Remove(req) ==
    /\ inner' = [inner EXCEPT ![req] = NoKey]
    /\ rateLimiters' = cleanup(rateLimiters, inner[req], req)
    /\ UNCHANGED defaultRateLimiter

\* getRateLimiterFor: the default stands in for a bucket that is not there.
Overridden(req) == inner[req] \in DOMAIN rateLimiters

NumRequeues(req) == IF Overridden(req) THEN rateLimiters[inner[req]].failures[req]
                                       ELSE defaultRateLimiter[req]

SetFailures(req, n) ==
    /\ IF Overridden(req)
       THEN /\ rateLimiters' = [rateLimiters EXCEPT ![inner[req]].failures[req] = n]
            /\ UNCHANGED defaultRateLimiter
       ELSE /\ defaultRateLimiter' = [defaultRateLimiter EXCEPT ![req] = n]
            /\ UNCHANGED rateLimiters
    /\ UNCHANGED inner

When(req) == SetFailures(req, NumRequeues(req) + 1)

Forget(req) == SetFailures(req, 0)

\* Any calls, by the work queue, the reconcilers, the finalizers and the event handler.
LimiterNext == \E req \in Requests :
    (\E key \in Keys : Add(key, req)) \/ Remove(req) \/ When(req) \/ Forget(req)

LimiterSpec == LimiterInit /\ [][LimiterNext]_limiterVars

--------------------------------------------------------------------------------
(* Properties *)

\* A request is in the bucket of its key, which exists, and in no other: Add inserts it
\* in the new bucket before it takes it out of the old one, which may be the last.
Registered ==
    /\ \A r \in Requests : inner[r] # NoKey => inner[r] \in DOMAIN rateLimiters
    /\ \A k \in DOMAIN rateLimiters : rateLimiters[k].requests = {r \in Requests : inner[r] = k}

\* A limiter that is shared remembers nothing of a request that has left its bucket: one
\* that comes back starts afresh.
NoStrayFailures ==
    \A k \in DOMAIN rateLimiters : \A r \in Requests :
        rateLimiters[k].failures[r] # 0 => inner[r] = k

(* Requests that share a limiter object have retry states of their own all the same, since it
   counts failures for each request: every request has the retry state it would have alone,
   whatever is added to, removed from or dropped with its bucket.

   This is what the code does, and the contrary of what two comments say of it.
   encapsulating.go:23-25: "all requests sharing a key share the same backing rate limiter and
   therefore share its retry state"; reconciliationpolicy/types.go:25-27: "Requests with an
   override share the rate limiter (and therefore the retry/backoff state) of every other
   request configured with the same base and max delays".  What they share is the object with
   its delays. *)
PerRequest == INSTANCE PerRequestRetries WITH
    override <- inner,
    own      <- [r \in Requests |-> IF inner[r] \in DOMAIN rateLimiters
                                    THEN rateLimiters[inner[r]].failures[r] ELSE 0],
    base     <- defaultRateLimiter

RequestsIndependent == PerRequest!Spec

(* What these comments say: requests with the same key have the same retry state.  The code
   violates it with the first failure in a shared bucket: EncapsulatingRateLimiter_shared.cfg. *)
RetryStateShared ==
    \A r, s \in Requests : inner[r] = inner[s] /\ inner[r] # NoKey => NumRequeues(r) = NumRequeues(s)

================================================================================
