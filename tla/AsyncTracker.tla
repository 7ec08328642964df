------------------------------ MODULE AsyncTracker ------------------------------
(***************************************************************************)
(* The in-memory tracker of one managed resource that runs without the     *)
(* Terraform CLI, pkg/controller/nofork_store.go: the last operation, the  *)
(* cached Terraform state with its mark, and the logical-deletion flag.    *)
(* A cached state is abstracted to the identifier it carries; a nil state, *)
(* a null framework value and a state with an empty ID are all NoId, since *)
(* every reader of the state treats the three alike.                       *)
(***************************************************************************)
EXTENDS Operation

CONSTANTS
    Ids,    \* identifiers of external resource instances
    NoId    \* "no identifier": the empty external name, the empty state

StateMarks == {"default", "reconstructed"}

Trackers == [op: Operations, state: Ids \cup {NoId}, mark: StateMarks, deleted: BOOLEAN]

NewAsyncTracker ==
    [op |-> NewOperation, state |-> NoId, mark |-> "default", deleted |-> FALSE]

\* A slip: the mark is left empty.
SetUnmarkedState(t, id) == [t EXCEPT !.state = id, !.mark = ""]

HasState(t) == t.state # NoId

SetTfState(t, id) == [t EXCEPT !.state = id, !.mark = "default"]

SetReconstructedTfState(t, id) == [t EXCEPT !.state = id, !.mark = "reconstructed"]

ResetReconstructedTfState(t) ==
    IF t.mark = "reconstructed" THEN SetTfState(t, NoId) ELSE t

SetDeleted(t, d) == [t EXCEPT !.deleted = d]

================================================================================
