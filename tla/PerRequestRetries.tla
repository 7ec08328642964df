---------------------------- MODULE PerRequestRetries ----------------------------
(***************************************************************************)
(* What an EncapsulatingRateLimiter does for each request, whatever its    *)
(* comments say of shared retry state (see RequestsIndependent there):     *)
(* every request has the retry state it would have if it were alone, a     *)
(* count under the override that it is assigned and another one under the  *)
(* default, and no call about one request touches the state of another.    *)
(***************************************************************************)
EXTENDS Naturals

CONSTANTS Requests, Keys, NoKey

VARIABLES
    override,   \* the key of the override of a request, or NoKey
    own,        \* consecutive failures counted under the override
    base        \* consecutive failures counted under the default

vars == <<override, own, base>>

Init ==
    /\ override = [r \in Requests |-> NoKey]
    /\ own = [r \in Requests |-> 0]
    /\ base = [r \in Requests |-> 0]

\* A new override starts afresh; the same one goes on.
Assign(r, k) ==
    /\ override' = [override EXCEPT ![r] = k]
    /\ own' = [own EXCEPT ![r] = IF override[r] = k THEN @ ELSE 0]
    /\ UNCHANGED base

Fail(r) ==
    \/ override[r] = NoKey /\ base' = [base EXCEPT ![r] = @ + 1] /\ UNCHANGED <<override, own>>
    \/ override[r] # NoKey /\ own' = [own EXCEPT ![r] = @ + 1] /\ UNCHANGED <<override, base>>

Succeed(r) ==
    \/ override[r] = NoKey /\ base' = [base EXCEPT ![r] = 0] /\ UNCHANGED <<override, own>>
    \/ override[r] # NoKey /\ own' = [own EXCEPT ![r] = 0] /\ UNCHANGED <<override, base>>

Next == \E r \in Requests :
    (\E k \in Keys \cup {NoKey} : Assign(r, k)) \/ Fail(r) \/ Succeed(r)

Spec == Init /\ [][Next]_vars

================================================================================
