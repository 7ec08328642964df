------------------------------- MODULE MCVersions -------------------------------
(***************************************************************************)
(* The versions of an API, in one run: the types that the code generation  *)
(* pipeline keeps on disk for them, the conversion of an object that is    *)
(* served in two of them, and the migration of what is stored in an old    *)
(* one.  They do not meet: `system' says which one takes steps, and the    *)
(* others stay as they are at first.                                       *)
(***************************************************************************)
EXTENDS CRDMigrator, VersionLifecycle, APIConversions

VARIABLE system

allVars == <<system, vars, lifecycleVars, objectVars>>

ASSUME VersionsAssumption == MigratorAssumption /\ LifecycleAssumption

(* The systems that rest do so in one of their initial states.  The storage versions of
   the CRDs are alike. *)
InitAll ==
    /\ system \in {"migrator", "lifecycle", "object"}
    /\ Init /\ LifecycleInit /\ ObjectInit
    /\ \A c \in CRDs : crds[c].storage = CHOOSE v \in Versions : TRUE
    /\ system # "migrator" => /\ ~migrator.short
                               /\ \A c \in CRDs, o \in Objects : crds[c].objects[o] = NoVersion
    /\ system # "object" => storage = "v1"

NextAll ==
    /\ UNCHANGED system
    /\ \/ system = "migrator" /\ Next /\ UNCHANGED <<lifecycleVars, objectVars>>
       \/ system = "lifecycle" /\ LifecycleNext /\ UNCHANGED <<vars, objectVars>>
       \/ system = "object" /\ ObjectNext /\ UNCHANGED <<vars, lifecycleVars>>

\* The fairness of the migration, when it takes steps.
FairnessAll ==
    /\ WF_vars(system = "migrator" /\ MigratorStep)
    /\ WF_vars(system = "migrator" /\ Restart)
    /\ WF_vars(system = "migrator" /\ Rollout)

SpecAll == InitAll /\ [][NextAll]_allVars /\ FairnessAll

--------------------------------------------------------------------------------
(* Properties, under names of their own where they are not those of a module *)

\* The CRDs in scope are migrated in the end.
MigratedInTheEnd == system = "migrator" => MigrationCompletes

================================================================================
