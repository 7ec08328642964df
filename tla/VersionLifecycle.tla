---------------------------- MODULE VersionLifecycle ----------------------------
(***************************************************************************)
(* The API versions of one kind, as the code generation pipeline keeps     *)
(* them on disk from one release of a provider to the next.                *)
(*                                                                         *)
(* The types of the version that is generated are written anew by every    *)
(* run; those of the previous versions stay as an earlier run left them,   *)
(* but for the markers that the two hooks at the end of a run maintain.    *)
(* The maintainers edit the configuration between two runs, and a run may  *)
(* be interrupted after any step.                                          *)
(*                                                                         *)
(* A file is what the hooks tell apart: the storage marker, and how often  *)
(* each lifecycle marker and each line of the description are in it.       *)
(***************************************************************************)
EXTENDS Naturals

CONSTANTS
    Unset,          \* no version, no deprecation
    LastVersion,    \* bound: the versions that are ever released are 1 .. LastVersion
    Deprecations,   \* what SetDeprecatedVersion records: a warning and its releases
    MaxEdits        \* bound: changes of the configuration

LifecycleAssumption ==
    /\ LastVersion \in Nat \ {0} /\ MaxEdits \in Nat
    /\ Unset \notin Deprecations /\ Unset \notin Nat /\ "unserved" \notin Deprecations \cup {Unset}

VARIABLES
    config,    \* the configuration of the resource
    files,     \* zz_<kind>_types.go of every version
    nodes,     \* the versions marked in the conversion files: hubs and spokes
    run,       \* the step that the pipeline is at and the files that its hook has to do
    edits      \* the changes of the configuration so far

lifecycleVars == <<config, files, nodes, run, edits>>

ApiVersions == 1 .. LastVersion

\* Lifecycle markers: of a version that is not served, and the warnings.
Marks == {"unserved"} \cup Deprecations

\* Lines of the description: of the schema or not, with a notice or without.
Lines == [schema : BOOLEAN, notice : Deprecations \cup {Unset}]

\* So many of each.
None(things) == [x \in things |-> 0]

Configs == [version : ApiVersions, previous : SUBSET ApiVersions, served : SUBSET ApiVersions,
            deprecated : [ApiVersions -> Deprecations \cup {Unset}],
            storage : ApiVersions \cup {Unset}, hub : ApiVersions \cup {Unset}]

Files == [there : BOOLEAN, storage : BOOLEAN, marks : [Marks -> Nat], text : [Lines -> Nat]]

NoFile == [there |-> FALSE, storage |-> FALSE, marks |-> None(Marks), text |-> None(Lines)]

Runs == [pc : {"idle", "types", "hubs", "spokes", "storage", "lifecycle"},
         todo : SUBSET ApiVersions, complete : BOOLEAN]

LifecycleTypeOK ==
    /\ config \in Configs
    /\ files \in [ApiVersions -> Files]
    /\ nodes \in [hubs : SUBSET ApiVersions, spokes : SUBSET ApiVersions]
    /\ run \in Runs
    /\ edits \in 0 .. MaxEdits

--------------------------------------------------------------------------------
(* The configuration *)

Known == {config.version} \cup config.previous

CRDStorageVersion == IF config.storage # Unset THEN config.storage ELSE config.version

CRDHubVersion == IF config.hub # Unset THEN config.hub ELSE config.version

GetServedVersions == IF config.served # {} THEN config.served ELSE Known

IsVersionDeprecated(v) == config.deprecated[v] # Unset

HasLifecycle == config.served # {} \/ \E v \in ApiVersions : IsVersionDeprecated(v)

Edit(new) ==
    /\ run.pc = "idle" /\ edits < MaxEdits
    /\ config' = new
    /\ edits' = edits + 1
    /\ run' = [run EXCEPT !.complete = FALSE]

Untouched == UNCHANGED <<files, nodes>>

\* An empty list clears the configuration: every version is served.
SetServedVersions(versions) ==
    /\ versions = {} \/ config.version \in versions
    /\ versions \subseteq Known
    /\ Edit([config EXCEPT !.served = versions])
    /\ Untouched

SetDeprecatedVersion(v, d) ==
    /\ v \in Known
    /\ Edit([config EXCEPT !.deprecated[v] = d])
    /\ Untouched

\* The configuration is code: a call that is deleted from it is not made by the next run.
NoLongerDeprecated(v) ==
    /\ v \in Known /\ IsVersionDeprecated(v)
    /\ Edit([config EXCEPT !.deprecated[v] = Unset])
    /\ Untouched

SetCRDStorageVersion(v) ==
    /\ v \in Known \cup {Unset}
    /\ Edit([config EXCEPT !.storage = v])
    /\ Untouched

SetCRDHubVersion(v) ==
    /\ v \in Known \cup {Unset}
    /\ Edit([config EXCEPT !.hub = v])
    /\ Untouched

\* The next version is generated once the current one has been.
NewVersion ==
    /\ config.version < LastVersion /\ files[config.version].there
    /\ Edit([config EXCEPT
                !.version = @ + 1,
                !.previous = @ \cup {config.version},
                !.served = IF @ = {} THEN {} ELSE @ \cup {config.version + 1}])
    /\ Untouched

\* A version that objects are neither stored in nor converted through is removed
\* with its directory.
DropVersion(v) ==
    /\ v \in config.previous /\ v \notin {CRDStorageVersion, CRDHubVersion}
    /\ Edit([config EXCEPT !.previous = @ \ {v}, !.served = @ \ {v}, !.deprecated[v] = Unset])
    /\ files' = [files EXCEPT ![v] = NoFile]
    /\ nodes' = [hubs |-> nodes.hubs \ {v}, spokes |-> nodes.spokes \ {v}]

--------------------------------------------------------------------------------
(* A run of the pipeline *)

RunIsAt(pc) == run.pc = pc

Go(pc, todo) == run' = [pc |-> pc, todo |-> todo, complete |-> FALSE]

\* The conversion files are removed before a run (by the provider's build): Generate of
\* the conversion nodes leaves the file of a version that has no node of its kind alone.
Start ==
    /\ RunIsAt("idle") /\ Go("types", {})
    /\ nodes' = [hubs |-> {}, spokes |-> {}]
    /\ UNCHANGED <<config, files, edits>>

\* The lifecycle markers of a version, one of each kind at most.
LifecycleMarkers(v) ==
    (IF v \in GetServedVersions THEN {} ELSE {"unserved"}) \cup ({config.deprecated[v]} \ {Unset})

Insert(bag, things) == [x \in DOMAIN bag |-> IF x \in things THEN bag[x] + 1 ELSE bag[x]]
Delete(bag, things) == [x \in DOMAIN bag |-> IF x \in things THEN 0 ELSE bag[x]]

\* The template has the notice on the line of the description.
Rendered ==
    [there   |-> TRUE,
     storage |-> CRDStorageVersion = config.version,
     marks   |-> Insert(None(Marks), LifecycleMarkers(config.version)),
     text    |-> Insert(None(Lines), {[schema |-> TRUE, notice |-> config.deprecated[config.version]]})]

GenerateTypes ==
    /\ RunIsAt("types") /\ Go("hubs", {})
    /\ files' = [files EXCEPT ![config.version] = Rendered]
    /\ UNCHANGED <<config, nodes, edits>>

\* The versions whose directory has types of the kind.
Directories == {v \in ApiVersions : files[v].there}

GenerateHubs ==
    /\ RunIsAt("hubs") /\ Go("spokes", {})
    /\ nodes' = [nodes EXCEPT !.hubs = @ \cup (Directories \cap {CRDHubVersion})]
    /\ UNCHANGED <<config, files, edits>>

\* The hooks go over the previous versions, in any order.  The storage hook has nothing to
\* do for a kind without previous versions, the lifecycle hook for one without lifecycle
\* configuration.
ToUpdate == IF HasLifecycle THEN config.previous ELSE {}

GenerateSpokes ==
    /\ RunIsAt("spokes") /\ Go("storage", config.previous)
    /\ nodes' = [nodes EXCEPT !.spokes = @ \cup (Directories \ {CRDHubVersion})]
    /\ UNCHANGED <<config, files, edits>>

\* Mutant: the marker is added only.
AddsStorageMarker(v) ==
    /\ RunIsAt("storage") /\ v \in run.todo /\ Go("storage", run.todo \ {v})
    /\ files' = IF ~files[v].there \/ v # CRDStorageVersion THEN files
                ELSE [files EXCEPT ![v].storage = TRUE]
    /\ UNCHANGED <<config, nodes, edits>>

\* The storage marker is added or removed where the file differs.
UpdateStorageMarker(v) ==
    /\ RunIsAt("storage") /\ v \in run.todo /\ Go("storage", run.todo \ {v})
    /\ files' = IF ~files[v].there THEN files
                ELSE [files EXCEPT ![v].storage = (v = CRDStorageVersion)]
    /\ UNCHANGED <<config, nodes, edits>>

StorageHookEnds ==
    /\ RunIsAt("storage") /\ run.todo = {} /\ Go("lifecycle", ToUpdate)
    /\ UNCHANGED <<config, files, nodes, edits>>

\* A line with a notice goes as a whole, whatever else is on it; the lines behind one would
\* go too, but a notice is always the last line.
Notices == {line \in Lines : line.notice # Unset}

RemoveDeprecationNotice(text) == Delete(text, Notices)

\* Behind the line of the description, or before the type when there is none.
InsertDeprecationNotice(text, d) == Insert(text, {[schema |-> FALSE, notice |-> d]})

NoDescription(text) == \A line \in Lines : text[line] = 0

\* A description that is gone as a whole stays away.
UpdateDescription(v, text) ==
    LET kept == RemoveDeprecationNotice(text)
    IN  IF NoDescription(text) THEN text
        ELSE IF IsVersionDeprecated(v) THEN InsertDeprecationNotice(kept, config.deprecated[v])
        ELSE kept

\* Mutant: the deprecation warnings stay.
RemovesUnserved(marks) == Delete(marks, {"unserved"})

\* All of them, however many there are.
RemoveLifecycleMarkers(marks) == Delete(marks, {"unserved"} \cup Deprecations)

UpdateFileMarkers(v, file) ==
    [file EXCEPT !.marks = Insert(RemoveLifecycleMarkers(@), LifecycleMarkers(v)),
                 !.text  = UpdateDescription(v, @)]

\* A version that is served and not deprecated needs no markers: its file is skipped.
NeedsMarkers(v) == v \notin GetServedVersions \/ IsVersionDeprecated(v)

UpdateLifecycleMarkers(v) ==
    /\ RunIsAt("lifecycle") /\ v \in run.todo /\ Go("lifecycle", run.todo \ {v})
    /\ files' = IF ~files[v].there \/ ~NeedsMarkers(v) THEN files
                ELSE [files EXCEPT ![v] = UpdateFileMarkers(v, @)]
    /\ UNCHANGED <<config, nodes, edits>>

RunEnds ==
    /\ RunIsAt("lifecycle") /\ run.todo = {}
    /\ run' = [pc |-> "idle", todo |-> {}, complete |-> TRUE]
    /\ UNCHANGED <<config, files, nodes, edits>>

\* A step panics or the run is stopped.
Interrupt ==
    /\ ~RunIsAt("idle") /\ Go("idle", {})
    /\ UNCHANGED <<config, files, nodes, edits>>

--------------------------------------------------------------------------------
LifecycleInit ==
    /\ config = [version |-> 1, previous |-> {}, served |-> {},
                 deprecated |-> [v \in ApiVersions |-> Unset], storage |-> Unset, hub |-> Unset]
    /\ files = [v \in ApiVersions |-> NoFile]
    /\ nodes = [hubs |-> {}, spokes |-> {}]
    /\ run = [pc |-> "idle", todo |-> {}, complete |-> FALSE]
    /\ edits = 0

LifecycleNext ==
    \/ \E versions \in SUBSET ApiVersions : SetServedVersions(versions)
    \/ \E v \in ApiVersions, d \in Deprecations : SetDeprecatedVersion(v, d)
    \/ \E v \in ApiVersions : NoLongerDeprecated(v) \/ DropVersion(v)
    \/ \E v \in ApiVersions \cup {Unset} : SetCRDStorageVersion(v) \/ SetCRDHubVersion(v)
    \/ NewVersion
    \/ Start \/ GenerateTypes \/ GenerateHubs \/ GenerateSpokes
    \/ \E v \in ApiVersions : UpdateStorageMarker(v) \/ UpdateLifecycleMarkers(v)
    \/ StorageHookEnds \/ RunEnds \/ Interrupt

LifecycleSpec == LifecycleInit /\ [][LifecycleNext]_lifecycleVars

--------------------------------------------------------------------------------
(* Properties *)

\* There is one of these things, and it is that one.
Just(bag, things, x) == \A y \in things : bag[y] = IF y = x THEN 1 ELSE 0

\* After a complete run exactly one version is marked as the storage version, the configured
\* one: kubebuilder accepts neither none nor two, and objects are persisted in it.  One version
\* is the hub of the conversions and every other one a spoke.  The files come from different
\* runs, with the default (the version generated) at some of them and a pinned version at
\* others (newStorageVersionMarkerUpdateHook, PipelineRunner.Run).
RolesAsConfigured ==
    run.complete =>
        /\ {v \in Directories : files[v].storage} = {CRDStorageVersion}
        /\ nodes.hubs = {CRDHubVersion}
        /\ nodes.spokes = Directories \ {CRDHubVersion}

\* The notice of a version in its description, once and as configured.
NoticeIn(text, v) ==
    \E line \in Notices : Just(text, Notices, line) /\ line.notice = config.deprecated[v]

Shown(v) ==
    /\ IsVersionDeprecated(v) =>
          /\ Just(files[v].marks, Deprecations, config.deprecated[v])
          /\ \/ NoticeIn(files[v].text, v)
             \/ v # config.version /\ NoDescription(files[v].text)
    /\ v \notin GetServedVersions => files[v].marks["unserved"] = 1

\* After a complete run a deprecated version has its warning, and a notice in its description,
\* exactly once each and as they are configured now, and a version that is not served has the
\* marker that says so exactly once -- whatever earlier runs, complete or interrupted, wrote.
\* Only where an earlier run took the description away as a whole is there no notice
\* (updateFileMarkers).
LifecycleShown == run.complete => \A v \in Known : Shown(v)

\* After a complete run every deprecated version has its notice: what updateFileMarkers is
\* called for (hooks_deprecated_version.go:228).
NoticeShown ==
    run.complete => \A v \in Known : IsVersionDeprecated(v) => NoticeIn(files[v].text, v)

\* After a complete run the markers of every version are those of the configuration: "This
\* ensures markers are always in sync with the configuration, regardless of previous state"
\* (hooks_deprecated_version.go:128).
MarkersInSync ==
    run.complete => \A v \in Known : files[v].marks = Insert(None(Marks), LifecycleMarkers(v))

================================================================================
