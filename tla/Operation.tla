------------------------------- MODULE Operation -------------------------------
(***************************************************************************)
(* The record of the last Terraform operation of one managed resource,     *)
(* pkg/terraform/operation.go.  Every method of the Go type holds its own  *)
(* mutex for its whole body, so each operator below is one atomic change.  *)
(* The start and end times are only ever tested for being set, and are the *)
(* booleans `started' and `ended'; an error is either absent or present.   *)
(***************************************************************************)

OpTypes == {"create", "update", "delete"}

NoError == "none"
Failed  == "failed"
Errors  == {NoError, Failed}

Operations == [type: OpTypes \cup {""}, started: BOOLEAN, ended: BOOLEAN, err: Errors]

NewOperation == [type |-> "", started |-> FALSE, ended |-> FALSE, err |-> NoError]

(* Slips of the kind the properties are there to catch; no specification uses them. *)
StartsUnchecked(o) == TRUE
NeverEnded(o) == o
KeepsFirstError(o, e) == [o EXCEPT !.err = IF @ = NoError THEN e ELSE @]
ClearsAll(o, preserveError) == NewOperation
ClearsErrorOnly(o, preserveError) == [o EXCEPT !.err = IF preserveError THEN @ ELSE NoError]

IsRunning(o) == o.started /\ ~o.ended

IsEnded(o) == o.ended

\* MarkStart refuses (returns false) exactly when an operation is running.  The
\* error of the previous operation is kept.
CanStart(o) == ~IsRunning(o)

MarkStart(o, type) == [o EXCEPT !.type = type, !.started = TRUE, !.ended = FALSE]

MarkEnd(o) == [o EXCEPT !.ended = TRUE]

SetError(o, e) == [o EXCEPT !.err = e]

Clear(o, preserveError) ==
    [NewOperation EXCEPT !.err = IF preserveError THEN o.err ELSE NoError]

Flush(o) == Clear(o, FALSE)

================================================================================
