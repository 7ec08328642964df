---------------------------- MODULE SerialOperations ----------------------------
(***************************************************************************)
(* What the asynchronous external clients promise about one managed        *)
(* resource, whatever the schedule: its operations run one after another,  *)
(* each changes the external resource at most once and only in the way of  *)
(* its kind, and the outcome that is published is the one of the operation *)
(* that ran last.  AsyncExternal implements this specification.            *)
(***************************************************************************)
CONSTANTS Ids, Specs, Gone, NoError, Failed,
          Disturbed     \* may others change the external resource?

VARIABLES
    running,    \* the kind of the operation in progress, or "none"
    verdict,    \* how its call ended, or "open"
    world,      \* the external resource instances
    outcome     \* the published outcome of the last operation

vars == <<running, verdict, world, outcome>>

Kinds == {"create", "update", "delete"}

Init ==
    /\ running = "none"
    /\ verdict = "open"
    /\ world = [i \in Ids |-> Gone]
    /\ outcome = NoError

Begin(kind) ==
    /\ running = "none"
    /\ running' = kind
    /\ UNCHANGED <<verdict, world, outcome>>

Effect(kind) ==
    \E i \in Ids, s \in Specs :
        \/ kind = "create" /\ world[i] = Gone /\ world' = [world EXCEPT ![i] = s]
        \/ kind = "update" /\ world[i] # Gone /\ world' = [world EXCEPT ![i] = s]
        \/ kind = "delete" /\ world[i] # Gone /\ world' = [world EXCEPT ![i] = Gone]

\* A call that fails may or may not have had its effect; a delete may succeed
\* without one, and so may not a create.
Call(kind) ==
    /\ running = kind /\ verdict = "open"
    /\ verdict' \in {NoError, Failed}
    /\ \/ Effect(kind)
       \/ (verdict' = NoError => kind # "create") /\ UNCHANGED world
    /\ UNCHANGED <<running, outcome>>

End ==
    /\ running # "none" /\ verdict # "open"
    /\ running' = "none"
    /\ verdict' = "open"
    /\ outcome' = verdict
    /\ UNCHANGED world

\* An outcome is superseded by what an observation finds, or dropped with the MR.
Forget ==
    /\ running = "none"
    /\ outcome' = NoError
    /\ UNCHANGED <<running, verdict, world>>

Restart ==
    /\ running' = "none"
    /\ verdict' = "open"
    /\ outcome' = NoError
    /\ UNCHANGED world

Disturb ==
    /\ Disturbed
    /\ \E i \in Ids : /\ world[i] # Gone
                      /\ \E s \in Specs \cup {Gone} : world' = [world EXCEPT ![i] = s]
    /\ UNCHANGED <<running, verdict, outcome>>

Next ==
    \/ \E kind \in Kinds : Begin(kind) \/ Call(kind)
    \/ End \/ Forget \/ Restart \/ Disturb

Spec == Init /\ [][Next]_vars

================================================================================
