------------------------------ MODULE CRDMigrator ------------------------------
(***************************************************************************)
(* The migration of custom resources to the storage version of their CRD   *)
(* (pkg/config/crd_migrator.go), as the init container of a provider runs  *)
(* it, and the crd-migrator command with its static mode                   *)
(* (cmd/crdmigrator/main.go), beside an API server whose clients write the *)
(* objects, upgrades that change the storage version, transient errors,    *)
(* errors that stay, and restarts.                                         *)
(*                                                                         *)
(* Of an object only the version it is stored in is kept.  An error is     *)
(* transient (retried by isRetryable) or permanent.                        *)
(***************************************************************************)
EXTENDS FiniteSets, Naturals

CONSTANTS
    CRDs, Versions,
    NoVersion,      \* no such object; no storage version
    Objects,        \* the names of the objects of a CRD
    Siblings,       \* CRDs of the root group that are not of the short group
    Broken,         \* CRDs whose objects cannot be patched: a webhook refuses
    Permitted,      \* CRDs whose status the migrator may patch
    Steps,          \* attempts of a call that fails transiently
    PageSize,       \* objects of one page
    MaxUpgrades, MaxFaults, MaxWrites  \* bounds: changes of the storage version, errors and
                                       \* crashes, writes of clients

MigratorAssumption == CRDs # {} /\ PageSize \in Nat \ {0}

VARIABLES
    crds,           \* the CRDs, with the versions their objects are stored in
    migrator,       \* the run of the migrator
    rollout,        \* an upgrade waits for the pod of the provider to be replaced
    stale,          \* history: CRDs whose storage version changed since the run listed them,
                    \* and those whose status was last written by such a run
    faults          \* the upgrades, errors and writes so far

vars == <<crds, migrator, rollout, stale, faults>>

(* The API server: `stored' is status.storedVersions *)
CRDStates == [storage : Versions, stored : SUBSET Versions,
              objects : [Objects -> Versions \cup {NoVersion}]]

(* One run.  `seen' are the CRDs as they were listed, `target' the storage version of
   `crd', `page' and `rest' the listed objects, `got' the stored versions just read. *)
Migrators ==
    [pc     : {"start", "next", "list", "patch", "permission", "get", "update", "done", "failed"},
     static : BOOLEAN, short : BOOLEAN, skipCheck : BOOLEAN,
     todo   : SUBSET CRDs, seen : [CRDs -> [storage : Versions, stored : SUBSET Versions]],
     crd    : CRDs, page : SUBSET Objects, rest : SUBSET Objects,
     got    : SUBSET Versions, tries : Nat, errs : BOOLEAN]

Seen == [c \in CRDs |-> [storage |-> crds[c].storage, stored |-> crds[c].stored]]

Init ==
    /\ \E old, new \in Versions, there \in SUBSET Objects :
          /\ old # new
          /\ crds = [c \in CRDs |-> [storage |-> new, stored |-> {old, new},
                        objects |-> [o \in Objects |-> IF o \in there THEN old ELSE NoVersion]]]
    /\ \E short \in BOOLEAN :
          migrator = [pc |-> "start", static |-> FALSE, short |-> short, skipCheck |-> FALSE,
                      todo |-> {}, seen |-> Seen, crd |-> CHOOSE c \in CRDs : TRUE,
                      page |-> {}, rest |-> {}, got |-> {}, tries |-> 0, errs |-> FALSE]
    /\ rollout = FALSE /\ stale = [listed |-> {}, written |-> {}]
    /\ faults = [upgrade |-> 0, error |-> 0, write |-> 0]

TypeOK ==
    /\ crds \in [CRDs -> CRDStates] /\ migrator \in Migrators
    /\ rollout \in BOOLEAN /\ stale \in [{"listed", "written"} -> SUBSET CRDs]
    /\ faults \in [{"upgrade", "error", "write"} -> Nat]

--------------------------------------------------------------------------------
(* The calls of the migrator *)

At(pc)   == migrator.pc = pc
crd      == migrator.crd
target   == migrator.seen[crd].storage
Goes(pc) == [migrator EXCEPT !.pc = pc, !.tries = 0]

\* Mutant: the first CRD that fails ends the run.
FirstErrorEnds(failed) ==
    migrator' = [Goes("next") EXCEPT !.errs = @ \/ failed, !.page = {}, !.rest = {}, !.got = {},
                                     !.todo = IF failed THEN {} ELSE @]

\* The next CRD, after an error of this one or without.
NextCRD(failed) ==
    migrator' = [Goes("next") EXCEPT !.errs = @ \/ failed, !.page = {}, !.rest = {}, !.got = {}]

Fault == /\ faults.error < MaxFaults
         /\ faults' = [faults EXCEPT !.error = @ + 1]

\* An error that is not retryable, or the last attempt of one that is.
CallFails ==
    /\ Fault
    /\ NextCRD(TRUE)
    /\ UNCHANGED <<crds, rollout, stale>>

\* A transient error: the call is repeated (a failed update reads the CRD again).
CallRetried(pc) ==
    /\ Fault
    /\ migrator.tries + 1 < Steps
    /\ migrator' = [migrator EXCEPT !.pc = pc, !.tries = @ + 1]
    /\ UNCHANGED <<crds, rollout, stale>>

MatchesGroup(c) == migrator.short => c \notin Siblings

\* Run lists the CRDs once; each is worked on as it was then.
ListCRDs ==
    /\ At("start")
    /\ \/ /\ migrator' = [Goes("next") EXCEPT !.todo = {c \in CRDs : MatchesGroup(c)}, !.seen = Seen]
          /\ stale' = [stale EXCEPT !.listed = {}]
          /\ UNCHANGED faults
       \/ /\ Fault
          /\ migrator' = [Goes("failed") EXCEPT !.errs = TRUE]
          /\ UNCHANGED stale
    /\ UNCHANGED <<crds, rollout>>

NeedMigration(c) == \E v \in migrator.seen[c].stored : v # migrator.seen[c].storage

TakeCRD ==
    /\ At("next")
    /\ \E c \in migrator.todo :
          LET begin == IF migrator.static THEN IF migrator.skipCheck THEN "get" ELSE "permission"
                                          ELSE IF NeedMigration(c) THEN "list" ELSE "next"
          IN  migrator' = [Goes(begin) EXCEPT !.crd = c, !.todo = @ \ {c}]
    /\ UNCHANGED <<crds, rollout, stale, faults>>

EndRun ==
    /\ At("next") /\ migrator.todo = {}
    /\ migrator' = Goes(IF migrator.errs THEN "failed" ELSE "done")
    /\ UNCHANGED <<crds, rollout, stale, faults>>

\* The pages of one list are of one moment; an expired token is an error that stays.
Names == {o \in Objects : crds[crd].objects[o] # NoVersion}

ListPage ==
    /\ At("list")
    /\ \/ /\ \E all \in IF migrator.rest = {} THEN {Names} ELSE {migrator.rest} :
             \E page \in SUBSET all :
                /\ Cardinality(page) = IF Cardinality(all) < PageSize THEN Cardinality(all) ELSE PageSize
                /\ migrator' = [Goes("patch") EXCEPT !.page = page, !.rest = all \ page]
          /\ UNCHANGED <<crds, rollout, stale, faults>>
       \/ CallFails
       \/ CallRetried("list")

\* The empty patch stores the object in the storage version the CRD has now.
StoredAnew(c, o) == [crds EXCEPT ![c].objects[o] = crds[c].storage]

\* Mutant: an error of a patch is taken for an object that is gone.
SkipsFailed ==
    /\ At("patch")
    /\ \E o \in migrator.page :
          /\ crds' \in IF crd \in Broken THEN {crds} ELSE {crds, StoredAnew(crd, o)}
          /\ migrator' = [Goes("patch") EXCEPT !.page = @ \ {o}]
          /\ UNCHANGED <<rollout, stale, faults>>

PatchObject ==
    /\ At("patch")
    /\ \E o \in migrator.page :
          \/ /\ crds[crd].objects[o] = NoVersion       \* NotFound: gone since it was listed
             /\ migrator' = [Goes("patch") EXCEPT !.page = @ \ {o}]
             /\ UNCHANGED <<crds, rollout, stale, faults>>
          \/ /\ crds[crd].objects[o] # NoVersion /\ crd \notin Broken
             /\ crds' = StoredAnew(crd, o)
             /\ migrator' = [Goes("patch") EXCEPT !.page = @ \ {o}]
             /\ UNCHANGED <<rollout, stale, faults>>
          \/ /\ crds[crd].objects[o] # NoVersion /\ crd \in Broken
             /\ NextCRD(TRUE)
             /\ UNCHANGED <<crds, rollout, stale, faults>>
          \/ CallFails
          \/ CallRetried("patch")

EndPage ==
    /\ At("patch") /\ migrator.page = {}
    /\ migrator' = Goes(IF migrator.rest = {} THEN "permission" ELSE "list")
    /\ UNCHANGED <<crds, rollout, stale, faults>>

\* Without permission the dynamic mode leaves the status and succeeds, the static one fails.
CheckPermission ==
    /\ At("permission")
    /\ \/ /\ IF crd \in Permitted THEN migrator' = Goes("get") ELSE NextCRD(migrator.static)
          /\ UNCHANGED <<crds, rollout, stale, faults>>
       \/ CallFails

\* UpdateCRDStorageVersion reads the CRD again, for its status only.
GetCRD ==
    /\ At("get")
    /\ \/ /\ migrator' = [migrator EXCEPT !.pc = "update", !.got = crds[crd].stored]
          /\ UNCHANGED <<crds, rollout, stale, faults>>
       \/ CallFails
       \/ CallRetried("get")

\* The merge patch sets the list to the target, unless it was that when it was read.
PatchedStored == IF migrator.got = {target} THEN crds[crd].stored ELSE {target}

UpdateStatus ==
    /\ At("update")
    /\ \/ /\ crd \in Permitted
          /\ crds' = [crds EXCEPT ![crd].stored = PatchedStored]
          /\ stale' = [stale EXCEPT !.written =
                IF crd \in stale.listed THEN @ \cup {crd}
                ELSE IF migrator.static THEN @ ELSE @ \ {crd}]
          /\ NextCRD(FALSE)
          /\ UNCHANGED <<rollout, faults>>
       \/ /\ crd \notin Permitted
          /\ NextCRD(TRUE)
          /\ UNCHANGED <<crds, rollout, stale, faults>>
       \/ CallFails
       \/ CallRetried("get")

MigratorStep ==
    \/ ListCRDs \/ TakeCRD \/ EndRun \/ ListPage \/ PatchObject \/ EndPage
    \/ CheckPermission \/ GetCRD \/ UpdateStatus

--------------------------------------------------------------------------------
(* Processes *)

Started(static) == [Goes("start") EXCEPT !.static = static, !.skipCheck = FALSE, !.errs = FALSE,
                                         !.todo = {}, !.page = {}, !.rest = {}, !.got = {}]

\* An init container that failed is started again.
Restart ==
    /\ At("failed") /\ ~rollout
    /\ migrator' = Started(FALSE)
    /\ UNCHANGED <<crds, rollout, stale, faults>>

\* The pod is replaced, by that of the new revision or after a crash, in the middle of a run too.
Rollout ==
    /\ rollout
    /\ migrator' = Started(FALSE)
    /\ rollout' = FALSE
    /\ UNCHANGED <<crds, stale, faults>>

Crash ==
    /\ ~migrator.static /\ ~At("done") /\ Fault
    /\ migrator' = Started(FALSE)
    /\ UNCHANGED <<crds, rollout, stale>>

(* The crd-migrator command: a user names CRDs whose objects are all stored in the storage
   version; the command only updates their status. *)
RunStatic ==
    /\ At("done") /\ ~rollout
    /\ \E mapped \in SUBSET CRDs \ {{}}, skip \in BOOLEAN :
          /\ \A c \in mapped, o \in Objects : crds[c].objects[o] \in {NoVersion, crds[c].storage}
          /\ migrator' = [Started(TRUE) EXCEPT !.pc = "next", !.todo = mapped, !.seen = Seen,
                                               !.skipCheck = skip]
    /\ stale' = [stale EXCEPT !.listed = {}]
    /\ UNCHANGED <<crds, rollout, faults>>

--------------------------------------------------------------------------------
(* The API server and its other clients *)

\* Clients create and update objects, and delete them.
Write(c, o) ==
    /\ faults.write < MaxWrites
    /\ faults' = [faults EXCEPT !.write = @ + 1]
    /\ crds' \in {StoredAnew(c, o), [crds EXCEPT ![c].objects[o] = NoVersion]}
    /\ UNCHANGED <<migrator, rollout, stale>>

(* Another revision of the package, newer or older: its CRDs are installed with their storage
   version, which the API server lists as stored, and then its provider is. *)
Upgrade(v) ==
    /\ faults.upgrade < MaxUpgrades
    /\ faults' = [faults EXCEPT !.upgrade = @ + 1]
    /\ \E c \in CRDs : crds[c].storage # v
    /\ crds' = [c \in CRDs |-> [crds[c] EXCEPT !.storage = v, !.stored = @ \cup {v}]]
    /\ stale' = [stale EXCEPT !.listed = @ \cup {c \in CRDs : crds[c].storage # v}]
    /\ rollout' = TRUE
    /\ UNCHANGED migrator

Next ==
    \/ MigratorStep \/ Restart \/ Rollout \/ Crash \/ RunStatic
    \/ \E c \in CRDs, o \in Objects : Write(c, o)
    \/ \E v \in Versions : Upgrade(v)

(* The migrator goes on, Kubernetes restarts a container that failed and replaces the pod
   when it is upgraded. *)
Fairness == WF_vars(MigratorStep) /\ WF_vars(Restart) /\ WF_vars(Rollout)

Spec == Init /\ [][Next]_vars /\ Fairness

--------------------------------------------------------------------------------
(* Properties *)

\* Every object of the CRD is stored in the storage version, and only that is listed.
Migrated(c) ==
    /\ \A o \in Objects : crds[c].objects[o] \in {NoVersion, crds[c].storage}
    /\ c \in Permitted => crds[c].stored = {crds[c].storage}

(* A version that some object is stored in stays listed in the status of the CRD, whatever
   clients write, pages, errors, crashes and upgrades come in between: if it were not, the
   version could be removed from the CRD and the object not be read any more.  Excepted is
   only a status written by a run that listed the CRD before its storage version changed. *)
StoredIsListed ==
    \A c \in CRDs \ stale.written, o \in Objects :
        crds[c].objects[o] \in crds[c].stored \cup {NoVersion}

(* The CRDs in scope are migrated in the end, also those that come after one that cannot be,
   with errors, crashes and upgrades on the way. *)
MigrationCompletes ==
    \A c \in CRDs \ Broken :
        <>[](MatchesGroup(c) /\ c \notin stale.written => Migrated(c))

================================================================================
