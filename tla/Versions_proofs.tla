---------------------------- MODULE Versions_proofs ----------------------------
(***************************************************************************)
(* The versions of an API: what is stored in them, and what is generated.  *)
(*                                                                         *)
(* A version that objects are stored in stays listed, for any CRDs,        *)
(* versions and objects and any number of upgrades, writes, errors and     *)
(* crashes.                                                                *)
(*                                                                         *)
(* StoredIsListed is not inductive: that the status update may drop every  *)
(* other version rests on what the run has done to the objects before.     *)
(* The invariant follows the objects of the CRD at hand that are stored in *)
(* another version than the storage version (Old): those that were listed  *)
(* and not patched yet are all there are, since whatever clients write     *)
(* meanwhile is stored in the storage version -- unless that has changed   *)
(* since the run listed the CRD, in which case nothing is said of it.      *)
(*                                                                         *)
(* After a complete run one version is marked as the storage version, one  *)
(* is the hub, and the versions show what is configured of their           *)
(* lifecycle, for any number of versions, edits and interrupted runs.      *)
(*                                                                         *)
(* The invariant says what the files are while a run is under way: the     *)
(* version generated is right as soon as its types are, a previous one     *)
(* once the hook has been over it, and the configuration does not change   *)
(* before the run ends.                                                    *)
(*                                                                         *)
(* Clients of two versions work on one object through the conversions      *)
(* between them, for any values, lists and resources.  That what is read   *)
(* is what was written is not inductive: the fields of the other version   *)
(* are in the annotation.  The invariant is that what is stored Represents *)
(* the object: its fields are those of its version, and the annotation has *)
(* those that only the other one has.  The conversions are applied one by  *)
(* one to a document that Represents, in the order of their registration,  *)
(* and the result Represents in the other version, if that can hold it.    *)
(***************************************************************************)
EXTENDS CRDMigrator, VersionLifecycle, APIConversions, Induction, FiniteSetTheorems, SequenceTheorems

Old(c) == {o \in Objects : crds[c].objects[o] \notin {NoVersion, crds[c].storage}}

Current == CRDs \ stale.listed

Types ==
    /\ crds \in [CRDs -> CRDStates] /\ migrator \in Migrators
    /\ stale \in [{"listed", "written"} -> SUBSET CRDs]

\* The run knows the storage version of the CRDs that have not changed.
SeenInv == \A c \in Current : migrator.seen[c].storage = crds[c].storage

\* The storage version is listed, and so are the versions of the objects.
ListedInv ==
    \A c \in CRDs \ stale.written :
        /\ crds[c].storage \in crds[c].stored
        /\ \A o \in Objects : crds[c].objects[o] \in crds[c].stored \cup {NoVersion}

\* How far the run is with the CRD at hand.
RunInv ==
    /\ At("start") => ~migrator.static
    /\ ~At("list") /\ ~At("patch") => migrator.rest = {}
    /\ migrator.static => \A c \in migrator.todo \cap Current : Old(c) = {}

CRDInv ==
    crd \in Current =>
        /\ At("list") => migrator.rest = {} \/ Old(crd) \subseteq migrator.rest
        /\ At("patch") => Old(crd) \subseteq migrator.page \cup migrator.rest
        /\ At("permission") \/ At("get") \/ At("update") => Old(crd) = {}
        /\ At("update") => migrator.got \subseteq crds[crd].stored

MigratorInv == Types /\ SeenInv /\ ListedInv /\ RunInv /\ CRDInv

PCs == {"start", "next", "list", "patch", "permission", "get", "update", "done", "failed"}

--------------------------------------------------------------------------------
(* What the steps of a run do to its record *)

LEMMA GoesTo ==
    ASSUME Types, NEW pc \in PCs
    PROVE  /\ Goes(pc) \in Migrators /\ Goes(pc).pc = pc
           /\ Goes(pc).static = migrator.static /\ Goes(pc).errs = migrator.errs
           /\ Goes(pc).todo = migrator.todo /\ Goes(pc).seen = migrator.seen
           /\ Goes(pc).crd = migrator.crd /\ Goes(pc).page = migrator.page
           /\ Goes(pc).rest = migrator.rest /\ Goes(pc).got = migrator.got
<1> DEFINE p == [migrator EXCEPT !.pc = pc]
<1>1. /\ p \in Migrators /\ p.pc = pc
      /\ p.static = migrator.static /\ p.errs = migrator.errs
      /\ p.todo = migrator.todo /\ p.seen = migrator.seen
      /\ p.crd = migrator.crd /\ p.page = migrator.page
      /\ p.rest = migrator.rest /\ p.got = migrator.got
  BY DEF Types, Migrators, PCs
<1> HIDE DEF p
<1> DEFINE q == [p EXCEPT !.tries = 0]
<1>2. /\ q \in Migrators /\ q.pc = p.pc
      /\ q.static = p.static /\ q.errs = p.errs
      /\ q.todo = p.todo /\ q.seen = p.seen
      /\ q.crd = p.crd /\ q.page = p.page
      /\ q.rest = p.rest /\ q.got = p.got
  BY <1>1 DEF Migrators
<1>3. q = Goes(pc)
  BY DEF p, Goes
<1> HIDE DEF q
<1> QED
  BY <1>1, <1>2, <1>3

\* The record of a run that has nothing in hand.
LEMMA Cleared ==
    ASSUME NEW r \in Migrators, NEW e \in BOOLEAN
    PROVE  LET s == [r EXCEPT !.errs = e, !.page = {}, !.rest = {}, !.got = {}]
           IN  /\ s \in Migrators /\ s.pc = r.pc /\ s.static = r.static
               /\ s.todo = r.todo /\ s.seen = r.seen /\ s.rest = {}
<1> DEFINE p == [r EXCEPT !.errs = e]
           q == [p EXCEPT !.page = {}]
           t == [q EXCEPT !.rest = {}]
           s == [t EXCEPT !.got = {}]
<1>1. p \in Migrators /\ p.pc = r.pc /\ p.static = r.static /\ p.todo = r.todo /\ p.seen = r.seen
  BY DEF Migrators
<1> HIDE DEF p
<1>2. q \in Migrators /\ q.pc = r.pc /\ q.static = r.static /\ q.todo = r.todo /\ q.seen = r.seen
  BY <1>1 DEF Migrators
<1> HIDE DEF q
<1>3. /\ t \in Migrators /\ t.pc = r.pc /\ t.static = r.static /\ t.todo = r.todo /\ t.seen = r.seen
      /\ t.rest = {}
  BY <1>2 DEF Migrators
<1> HIDE DEF t
<1>4. /\ s \in Migrators /\ s.pc = r.pc /\ s.static = r.static /\ s.todo = r.todo /\ s.seen = r.seen
      /\ s.rest = {}
  BY <1>3 DEF Migrators
<1> QED
  BY <1>4 DEF t, q, p

LEMMA NextCRDClears ==
    ASSUME Types, NEW failed \in BOOLEAN, NextCRD(failed)
    PROVE  /\ migrator' \in Migrators /\ migrator'.pc = "next"
           /\ migrator'.static = migrator.static
           /\ migrator'.todo = migrator.todo /\ migrator'.seen = migrator.seen
           /\ migrator'.rest = {}
<1> DEFINE r == Goes("next")
           e == migrator.errs \/ failed
<1>1. r \in Migrators /\ r.pc = "next" /\ r.static = migrator.static
      /\ r.todo = migrator.todo /\ r.seen = migrator.seen /\ r.errs = migrator.errs
  BY GoesTo DEF PCs
<1>2. e \in BOOLEAN
  OBVIOUS
<1>3. migrator' = [r EXCEPT !.errs = e, !.page = {}, !.rest = {}, !.got = {}]
  BY <1>1 DEF NextCRD
<1> HIDE DEF r, e
<1> QED
  BY <1>1, <1>2, <1>3, Cleared

LEMMA StartedClears ==
    ASSUME Types, NEW static \in BOOLEAN
    PROVE  LET s == Started(static)
           IN  /\ s \in Migrators /\ s.pc = "start" /\ s.static = static
               /\ s.todo = {} /\ s.seen = migrator.seen /\ s.rest = {}
<1> DEFINE r == Goes("start")
           p == [r EXCEPT !.static = static]
           q == [p EXCEPT !.skipCheck = FALSE]
           t == [[q EXCEPT !.errs = FALSE] EXCEPT !.todo = {}]
<1>1. r \in Migrators /\ r.pc = "start" /\ r.seen = migrator.seen
  BY GoesTo DEF PCs
<1> HIDE DEF r
<1>2. p \in Migrators /\ p.pc = "start" /\ p.seen = migrator.seen /\ p.static = static
  BY <1>1 DEF Migrators
<1> HIDE DEF p
<1>3. q \in Migrators /\ q.pc = "start" /\ q.seen = migrator.seen /\ q.static = static
  BY <1>2 DEF Migrators
<1> HIDE DEF q
<1> DEFINE u == [q EXCEPT !.errs = FALSE]
<1>4. u \in Migrators /\ u.pc = "start" /\ u.seen = migrator.seen /\ u.static = static
  BY <1>3 DEF Migrators
<1> HIDE DEF u
<1> DEFINE v == [u EXCEPT !.todo = {}]
<1>5. v \in Migrators /\ v.pc = "start" /\ v.seen = migrator.seen /\ v.static = static /\ v.todo = {}
  BY <1>4 DEF Migrators
<1> HIDE DEF v
<1> DEFINE w == [v EXCEPT !.page = {}]
<1>6. w \in Migrators /\ w.pc = "start" /\ w.seen = migrator.seen /\ w.static = static /\ w.todo = {}
  BY <1>5 DEF Migrators
<1> HIDE DEF w
<1> DEFINE x == [w EXCEPT !.rest = {}]
<1>7. /\ x \in Migrators /\ x.pc = "start" /\ x.seen = migrator.seen /\ x.static = static /\ x.todo = {}
      /\ x.rest = {}
  BY <1>6 DEF Migrators
<1> HIDE DEF x
<1> DEFINE y == [x EXCEPT !.got = {}]
<1>8. /\ y \in Migrators /\ y.pc = "start" /\ y.seen = migrator.seen /\ y.static = static /\ y.todo = {}
      /\ y.rest = {}
  BY <1>7 DEF Migrators
<1>9. y = Started(static)
  BY DEF x, w, v, u, q, p, r, Started
<1> HIDE DEF y
<1> QED
  BY <1>8, <1>9
--------------------------------------------------------------------------------
(* Steps that leave the objects and CRDs alone *)

\* What is said of CRDs and objects stays true as long as these do.
LEMMA CRDsKept ==
    ASSUME MigratorInv, UNCHANGED <<crds, stale>>
    PROVE  /\ ListedInv' /\ Current' = Current /\ \A c : Old(c)' = Old(c)
           /\ migrator' \in Migrators => Types'
           /\ migrator'.seen = migrator.seen => SeenInv'
BY DEF MigratorInv, ListedInv, Current, Old, Types, SeenInv

\* A run that has no CRD in hand.
LEMMA NothingInHand ==
    ASSUME MigratorInv, UNCHANGED <<crds, stale>>, migrator' \in Migrators,
           migrator'.pc \in {"start", "next", "done", "failed"},
           migrator'.seen = migrator.seen, migrator'.rest = {},
           \/ migrator'.static = migrator.static /\ migrator'.todo = migrator.todo
           \/ ~migrator'.static,
           migrator'.pc = "start" => ~migrator'.static
    PROVE  MigratorInv'
<1>1. RunInv'
  BY CRDsKept DEF MigratorInv, RunInv, At
<1>2. CRDInv'
  BY DEF CRDInv, At
<1> QED
  BY <1>1, <1>2, CRDsKept DEF MigratorInv

LEMMA NextCRDKeepsInv ==
    ASSUME MigratorInv, NEW failed \in BOOLEAN, NextCRD(failed), UNCHANGED <<crds, stale>>
    PROVE  MigratorInv'
<1>1. Types
  BY DEF MigratorInv
<1> QED
  BY <1>1, NextCRDClears, NothingInHand

\* A call that is repeated: the update from the reading of the CRD on.
LEMMA CallRetriedKeepsInv ==
    ASSUME MigratorInv, NEW pc \in PCs, CallRetried(pc),
           At(pc) \/ (pc = "get" /\ At("update"))
    PROVE  MigratorInv'
<1> DEFINE p == [migrator EXCEPT !.pc = pc]
           q == [p EXCEPT !.tries = migrator.tries + 1]
<1>0. UNCHANGED <<crds, stale>> /\ migrator \in Migrators
  BY DEF CallRetried, MigratorInv, Types
<1>1. /\ p \in Migrators /\ p.pc = pc /\ p.static = migrator.static
      /\ p.todo = migrator.todo /\ p.seen = migrator.seen
      /\ p.crd = migrator.crd /\ p.page = migrator.page
      /\ p.rest = migrator.rest /\ p.got = migrator.got
  BY <1>0 DEF Migrators, PCs
<1>2. migrator.tries + 1 \in Nat
  BY <1>0 DEF Migrators
<1>3. migrator' = q
  BY DEF CallRetried
<1> HIDE DEF p
<1>4. /\ q \in Migrators /\ q.pc = pc /\ q.static = migrator.static
      /\ q.todo = migrator.todo /\ q.seen = migrator.seen
      /\ q.crd = migrator.crd /\ q.page = migrator.page
      /\ q.rest = migrator.rest /\ q.got = migrator.got
  BY <1>1, <1>2 DEF Migrators
<1> HIDE DEF q
<1>5. RunInv'
  BY <1>0, <1>3, <1>4, CRDsKept DEF MigratorInv, RunInv, At
<1>6. crd' = crd
  BY <1>3, <1>4 DEF crd
<1>7. CRDInv'
  BY <1>0, <1>3, <1>4, <1>6, CRDsKept DEF MigratorInv, CRDInv, At
<1> QED
  BY <1>0, <1>3, <1>4, <1>5, <1>7, CRDsKept DEF MigratorInv

LEMMA CallFailsKeepsInv ==
    ASSUME MigratorInv, CallFails
    PROVE  MigratorInv'
BY NextCRDKeepsInv DEF CallFails

LEMMA ListCRDsKeepsInv ==
    ASSUME MigratorInv, ListCRDs
    PROVE  MigratorInv'
<1>0. Types /\ migrator.rest = {} /\ ~migrator.static /\ UNCHANGED crds
  BY DEF MigratorInv, RunInv, ListCRDs, At
<1>1. CASE UNCHANGED stale /\ migrator' = [Goes("failed") EXCEPT !.errs = TRUE]
  <2> DEFINE r == Goes("failed")
  <2>1. /\ r \in Migrators /\ r.pc = "failed" /\ ~r.static /\ r.seen = migrator.seen
        /\ r.rest = {}
    BY <1>0, GoesTo DEF PCs
  <2> HIDE DEF r
  <2> DEFINE s == [r EXCEPT !.errs = TRUE]
  <2>2. /\ s \in Migrators /\ s.pc = "failed" /\ ~s.static /\ s.seen = migrator.seen
        /\ s.rest = {}
    BY <2>1 DEF Migrators
  <2>3. migrator' = s
    BY <1>1 DEF r
  <2> HIDE DEF s
  <2> QED
    BY <1>0, <1>1, <2>2, <2>3, NothingInHand
<1>2. CASE /\ migrator' = [Goes("next") EXCEPT !.todo = {c \in CRDs : MatchesGroup(c)}, !.seen = Seen]
           /\ stale' = [stale EXCEPT !.listed = {}]
  <2> DEFINE r == Goes("next")
             t == {c \in CRDs : MatchesGroup(c)}
  <2>1. r \in Migrators /\ r.pc = "next" /\ ~r.static /\ r.rest = {}
    BY <1>0, GoesTo DEF PCs
  <2>2. Seen \in [CRDs -> [storage : Versions, stored : SUBSET Versions]]
    BY <1>0 DEF Seen, Types, CRDStates
  <2>3. migrator' = [r EXCEPT !.todo = t, !.seen = Seen] /\ t \subseteq CRDs
    BY <1>2
  <2> HIDE DEF r, t
  <2> DEFINE s == [r EXCEPT !.todo = t]
  <2>4. s \in Migrators /\ s.pc = "next" /\ ~s.static /\ s.rest = {}
    BY <2>1, <2>3 DEF Migrators
  <2>5. migrator' = [s EXCEPT !.seen = Seen]
    BY <2>3
  <2> HIDE DEF s
  <2>6. /\ migrator' \in Migrators /\ migrator'.pc = "next" /\ ~migrator'.static
        /\ migrator'.rest = {} /\ migrator'.seen = Seen
    BY <2>2, <2>4, <2>5 DEF Migrators
  <2>7. stale' \in [{"listed", "written"} -> SUBSET CRDs] /\ stale'.written = stale.written
    BY <1>0, <1>2 DEF Types
  <2>8. Types' /\ ListedInv'
    BY <1>0, <2>6, <2>7 DEF MigratorInv, Types, ListedInv
  <2>9. SeenInv'
    BY <1>0, <2>6 DEF SeenInv, Seen, Current
  <2>10. RunInv' /\ CRDInv'
    BY <2>6 DEF RunInv, CRDInv, At
  <2> QED
    BY <2>8, <2>9, <2>10 DEF MigratorInv
<1> QED
  BY <1>1, <1>2 DEF ListCRDs

LEMMA TakeCRDKeepsInv ==
    ASSUME MigratorInv, TakeCRD
    PROVE  MigratorInv'
<1>0. /\ UNCHANGED <<crds, stale>> /\ Types /\ migrator.rest = {}
      /\ migrator \in Migrators
  BY DEF TakeCRD, MigratorInv, Types, RunInv, At
<1>1. PICK c \in migrator.todo, begin \in {"get", "permission", "list", "next"} :
         /\ begin \in {"get", "permission"} => migrator.static
         /\ migrator' = [Goes(begin) EXCEPT !.crd = c, !.todo = migrator.todo \ {c}]
  <2>1. PICK c \in migrator.todo :
          LET begin == IF migrator.static THEN IF migrator.skipCheck THEN "get" ELSE "permission"
                                          ELSE IF NeedMigration(c) THEN "list" ELSE "next"
          IN  migrator' = [Goes(begin) EXCEPT !.crd = c, !.todo = Goes(begin).todo \ {c}]
    BY DEF TakeCRD
  <2>2. \A pc \in PCs : Goes(pc).todo = migrator.todo
    BY <1>0, GoesTo
  <2> QED
    BY <2>1, <2>2 DEF PCs
<1>2. c \in CRDs
  BY <1>0 DEF Migrators
<1> DEFINE r == Goes(begin)
           t == migrator.todo \ {c}
<1>3. /\ r \in Migrators /\ r.pc = begin /\ r.static = migrator.static
      /\ r.seen = migrator.seen /\ r.rest = {}
  BY <1>0, GoesTo DEF PCs
<1>4. migrator' = [r EXCEPT !.crd = c, !.todo = t] /\ t \subseteq CRDs
  BY <1>0, <1>1 DEF Migrators
<1> HIDE DEF r
<1> DEFINE s == [r EXCEPT !.crd = c]
<1>5. /\ s \in Migrators /\ s.pc = begin /\ s.static = migrator.static
      /\ s.seen = migrator.seen /\ s.rest = {} /\ s.crd = c
  BY <1>2, <1>3 DEF Migrators
<1>6. migrator' = [s EXCEPT !.todo = t]
  BY <1>4
<1> HIDE DEF s
<1>7. /\ migrator' \in Migrators /\ migrator'.pc = begin /\ migrator'.static = migrator.static
      /\ migrator'.seen = migrator.seen /\ migrator'.rest = {} /\ migrator'.crd = c
      /\ migrator'.todo = t
  BY <1>4, <1>5, <1>6 DEF Migrators
<1>8. RunInv'
  BY <1>0, <1>7, CRDsKept DEF MigratorInv, RunInv, At
<1>9. CRDInv'
  <2>1. crd' = c
    BY <1>7 DEF crd
  <2>2. migrator.static /\ c \in Current => Old(c) = {}
    BY <1>1 DEF MigratorInv, RunInv
  <2> QED
    BY <1>0, <1>1, <1>7, <2>1, <2>2, CRDsKept DEF CRDInv, At
<1> QED
  BY <1>0, <1>7, <1>8, <1>9, CRDsKept DEF MigratorInv

LEMMA EndRunKeepsInv ==
    ASSUME MigratorInv, EndRun
    PROVE  MigratorInv'
<1>0. UNCHANGED <<crds, stale>> /\ Types /\ migrator.rest = {}
  BY DEF EndRun, MigratorInv, RunInv, At
<1>1. PICK pc \in {"failed", "done"} : migrator' = Goes(pc)
  BY DEF EndRun
<1>2. pc \in PCs
  BY DEF PCs
<1> QED
  BY <1>0, <1>1, <1>2, GoesTo, NothingInHand

LEMMA ListPageKeepsInv ==
    ASSUME MigratorInv, ListPage
    PROVE  MigratorInv'
<1>1. CASE CallFails
  BY <1>1, CallFailsKeepsInv
<1>2. CASE CallRetried("list")
  BY <1>2, CallRetriedKeepsInv DEF ListPage, PCs
<1>3. CASE ~CallFails /\ ~CallRetried("list")
  <2> DEFINE all == IF migrator.rest = {} THEN Names ELSE migrator.rest
  <2>1. PICK page \in SUBSET all :
           /\ migrator' = [Goes("patch") EXCEPT !.page = page, !.rest = all \ page]
           /\ UNCHANGED <<crds, stale>>
    BY <1>3 DEF ListPage
  <2>2. Types /\ migrator \in Migrators /\ At("list")
    BY DEF MigratorInv, Types, ListPage
  <2>3. all \subseteq Objects
    BY <2>1, <2>2 DEF Names, Migrators
  <2>4. crd \in Current => Old(crd) \subseteq all
    BY <2>1, <2>2 DEF MigratorInv, CRDInv, Old, Names, Current
  <2> DEFINE r == Goes("patch")
             s == [r EXCEPT !.page = page]
             t == [s EXCEPT !.rest = all \ page]
  <2>5. /\ r \in Migrators /\ r.pc = "patch" /\ r.static = migrator.static
        /\ r.seen = migrator.seen /\ r.crd = migrator.crd /\ r.todo = migrator.todo
    BY <2>2, GoesTo DEF PCs
  <2>6. migrator' = t
    BY <2>1
  <2> HIDE DEF r
  <2>7. /\ s \in Migrators /\ s.pc = "patch" /\ s.static = migrator.static
        /\ s.seen = migrator.seen /\ s.crd = migrator.crd /\ s.page = page
        /\ s.todo = migrator.todo
    BY <2>3, <2>5 DEF Migrators
  <2> HIDE DEF s
  <2>8. /\ t \in Migrators /\ t.pc = "patch" /\ t.static = migrator.static
        /\ t.seen = migrator.seen /\ t.crd = migrator.crd /\ t.page = page /\ t.rest = all \ page
        /\ t.todo = migrator.todo
    BY <2>3, <2>7 DEF Migrators
  <2> HIDE DEF t
  <2> HIDE DEF all
  <2>9. RunInv'
    <3>1. Current' = Current /\ \A c : Old(c)' = Old(c)
      BY <2>1, CRDsKept
    <3> QED
      BY <2>6, <2>8, <3>1 DEF MigratorInv, RunInv, At
  <2>10. CRDInv'
    <3>1. crd' = crd
      BY <2>6, <2>8 DEF crd
    <3>2. Current' = Current /\ \A c : Old(c)' = Old(c)
      BY <2>1, CRDsKept
    <3>3. Old(crd) \subseteq all => Old(crd) \subseteq page \cup (all \ page)
      OBVIOUS
    <3> QED
      BY <2>4, <2>6, <2>8, <3>1, <3>2, <3>3 DEF CRDInv, At
  <2> QED
    BY <2>1, <2>6, <2>8, <2>9, <2>10, CRDsKept DEF MigratorInv
<1> QED
  BY <1>1, <1>2, <1>3

LEMMA EndPageKeepsInv ==
    ASSUME MigratorInv, EndPage
    PROVE  MigratorInv'
<1>0. UNCHANGED <<crds, stale>> /\ Types /\ At("patch") /\ migrator.page = {}
  BY DEF EndPage, MigratorInv
<1>1. PICK pc \in {"permission", "list"} :
         migrator' = Goes(pc) /\ (pc = "permission" => migrator.rest = {})
  BY DEF EndPage
<1>2. /\ migrator' \in Migrators /\ migrator'.pc = pc /\ migrator'.static = migrator.static
      /\ migrator'.todo = migrator.todo /\ migrator'.seen = migrator.seen
      /\ migrator'.crd = migrator.crd /\ migrator'.rest = migrator.rest
  BY <1>0, <1>1, GoesTo DEF PCs
<1>3. RunInv'
  BY <1>0, <1>1, <1>2, CRDsKept DEF MigratorInv, RunInv, At
<1>4. crd' = crd
  BY <1>2 DEF crd
<1>5. CRDInv'
  BY <1>0, <1>1, <1>2, <1>4, CRDsKept DEF MigratorInv, CRDInv, At
<1> QED
  BY <1>0, <1>2, <1>3, <1>5, CRDsKept DEF MigratorInv
--------------------------------------------------------------------------------
(* Steps that change objects *)

\* One object is stored anew in the storage version, created in it, or deleted.
LEMMA ObjectChanged ==
    ASSUME MigratorInv, NEW c \in CRDs, NEW o \in Objects,
           NEW v \in {NoVersion, crds[c].storage},
           crds' = [crds EXCEPT ![c].objects[o] = v], UNCHANGED stale
    PROVE  /\ crds' \in [CRDs -> CRDStates] /\ ListedInv' /\ Current' = Current
           /\ \A d \in CRDs : /\ crds'[d].storage = crds[d].storage
                              /\ crds'[d].stored = crds[d].stored
                              /\ Old(d)' = IF d = c THEN Old(d) \ {o} ELSE Old(d)
<1> DEFINE objects == [crds[c].objects EXCEPT ![o] = v]
           new == [crds[c] EXCEPT !.objects = objects]
<1>1. crds \in [CRDs -> CRDStates]
  BY DEF MigratorInv, Types
<1>2. crds[c] \in CRDStates
  BY <1>1
<1>3. /\ objects \in [Objects -> Versions \cup {NoVersion}]
      /\ \A p \in Objects : objects[p] = IF p = o THEN v ELSE crds[c].objects[p]
  BY <1>2 DEF CRDStates
<1>4. crds' = [crds EXCEPT ![c] = new]
  OBVIOUS
<1> HIDE DEF objects
<1>5. /\ new \in CRDStates /\ new.objects = objects
      /\ new.storage = crds[c].storage /\ new.stored = crds[c].stored
  BY <1>2, <1>3 DEF CRDStates
<1> HIDE DEF new
<1>6. /\ crds' \in [CRDs -> CRDStates] /\ crds'[c] = new
      /\ \A d \in CRDs \ {c} : crds'[d] = crds[d]
  BY <1>1, <1>4, <1>5
<1>7. \A d \in CRDs : /\ crds'[d].storage = crds[d].storage
                       /\ crds'[d].stored = crds[d].stored
  BY <1>5, <1>6
<1>8. \A d \in CRDs : Old(d)' = IF d = c THEN Old(d) \ {o} ELSE Old(d)
  <2>1. Old(c)' = Old(c) \ {o}
    <3>1. crds'[c].objects = objects /\ crds'[c].storage = crds[c].storage
      BY <1>5, <1>6
    <3>2. objects[o] \in {NoVersion, crds[c].storage}
      BY <1>3
    <3>3. \A p \in Objects \ {o} : objects[p] = crds[c].objects[p]
      BY <1>3
    <3>4. Old(c)' = {p \in Objects : objects[p] \notin {NoVersion, crds[c].storage}}
      BY <3>1 DEF Old
    <3> QED
      BY <3>2, <3>3, <3>4 DEF Old
  <2>2. \A d \in CRDs \ {c} : Old(d)' = Old(d)
    BY <1>6 DEF Old
  <2> QED
    BY <2>1, <2>2
<1>9. ListedInv'
  <2>1. ASSUME NEW d \in CRDs \ stale.written, d # c
        PROVE  /\ crds'[d].storage \in crds'[d].stored
               /\ \A p \in Objects : crds'[d].objects[p] \in crds'[d].stored \cup {NoVersion}
    BY <1>6, <2>1 DEF MigratorInv, ListedInv
  <2>2. ASSUME c \in CRDs \ stale.written
        PROVE  /\ crds'[c].storage \in crds'[c].stored
               /\ \A p \in Objects : crds'[c].objects[p] \in crds'[c].stored \cup {NoVersion}
    BY <1>3, <1>5, <1>6, <2>2 DEF MigratorInv, ListedInv
  <2> QED
    BY <2>1, <2>2 DEF ListedInv
<1>10. Current' = Current
  BY DEF Current
<1> QED
  BY <1>6, <1>7, <1>8, <1>9, <1>10

LEMMA WriteKeepsInv ==
    ASSUME MigratorInv, NEW c \in CRDs, NEW o \in Objects, Write(c, o)
    PROVE  MigratorInv'
<1>1. PICK v \in {NoVersion, crds[c].storage} : crds' = [crds EXCEPT ![c].objects[o] = v]
  BY DEF Write, StoredAnew
<1>2. UNCHANGED <<migrator, stale>>
  BY DEF Write
<1>3. /\ crds' \in [CRDs -> CRDStates] /\ ListedInv' /\ Current' = Current
      /\ \A d \in CRDs : /\ crds'[d].storage = crds[d].storage
                         /\ crds'[d].stored = crds[d].stored
                         /\ Old(d)' \subseteq Old(d)
  <2>1. UNCHANGED stale
    BY <1>2
  <2>2. /\ crds' \in [CRDs -> CRDStates] /\ ListedInv' /\ Current' = Current
        /\ \A d \in CRDs : /\ crds'[d].storage = crds[d].storage
                           /\ crds'[d].stored = crds[d].stored
                           /\ Old(d)' = IF d = c THEN Old(d) \ {o} ELSE Old(d)
    BY <1>1, <2>1, ObjectChanged
  <2> QED
    BY <2>2
<1>4. Types'
  BY <1>2, <1>3 DEF MigratorInv, Types
<1>5. crd \in CRDs /\ crd' = crd /\ migrator.todo \subseteq CRDs
  BY <1>2 DEF MigratorInv, Types, Migrators, crd
<1>6. SeenInv' /\ RunInv'
  BY <1>2, <1>3, <1>5 DEF MigratorInv, SeenInv, RunInv, At, Current
<1>7. CRDInv'
  BY <1>2, <1>3, <1>5 DEF MigratorInv, CRDInv, At
<1> QED
  BY <1>3, <1>4, <1>6, <1>7 DEF MigratorInv

\* The record of a run that has dealt with an object.
LEMMA ObjectDone ==
    ASSUME Types, NEW o, migrator' = [Goes("patch") EXCEPT !.page = Goes("patch").page \ {o}]
    PROVE  /\ migrator' \in Migrators /\ migrator'.pc = "patch"
           /\ migrator'.static = migrator.static /\ migrator'.todo = migrator.todo
           /\ migrator'.seen = migrator.seen /\ migrator'.crd = migrator.crd
           /\ migrator'.page = migrator.page \ {o} /\ migrator'.rest = migrator.rest
<1> DEFINE r == Goes("patch")
           page == migrator.page \ {o}
<1>1. /\ r \in Migrators /\ r.pc = "patch" /\ r.static = migrator.static
      /\ r.seen = migrator.seen /\ r.crd = migrator.crd /\ r.todo = migrator.todo
      /\ r.page = migrator.page /\ r.rest = migrator.rest
  BY GoesTo DEF PCs
<1>2. migrator' = [r EXCEPT !.page = page] /\ page \subseteq Objects
  BY <1>1 DEF Migrators
<1> HIDE DEF r, page
<1>3. /\ migrator' \in Migrators /\ migrator'.pc = "patch"
      /\ migrator'.static = migrator.static /\ migrator'.todo = migrator.todo
      /\ migrator'.seen = migrator.seen /\ migrator'.crd = migrator.crd
      /\ migrator'.page = page /\ migrator'.rest = migrator.rest
  BY <1>1, <1>2 DEF Migrators
<1> QED
  BY <1>3 DEF page

LEMMA PatchObjectKeepsInv ==
    ASSUME MigratorInv, PatchObject
    PROVE  MigratorInv'
<1>0. Types /\ At("patch") /\ crd \in CRDs /\ migrator.page \subseteq Objects
  BY DEF MigratorInv, PatchObject, Types, Migrators, crd
<1>1. CASE CallFails
  BY <1>1, CallFailsKeepsInv
<1>2. CASE CallRetried("patch")
  BY <1>0, <1>2, CallRetriedKeepsInv DEF PCs
<1>3. CASE NextCRD(TRUE) /\ UNCHANGED <<crds, stale>>
  BY <1>3, NextCRDKeepsInv
<1>4. ASSUME NEW o \in migrator.page, crds[crd].objects[o] = NoVersion,
             migrator' = [Goes("patch") EXCEPT !.page = Goes("patch").page \ {o}],
             UNCHANGED <<crds, stale>>
      PROVE  MigratorInv'
  <2>1. /\ migrator' \in Migrators /\ migrator'.pc = "patch"
        /\ migrator'.static = migrator.static /\ migrator'.todo = migrator.todo
        /\ migrator'.seen = migrator.seen /\ migrator'.crd = migrator.crd
        /\ migrator'.page = migrator.page \ {o} /\ migrator'.rest = migrator.rest
    BY <1>0, <1>4, ObjectDone
  <2>2. Current' = Current /\ \A c : Old(c)' = Old(c)
    BY <1>4, CRDsKept
  <2>3. RunInv'
    BY <2>1, <2>2 DEF MigratorInv, RunInv, At
  <2>4. o \notin Old(crd) /\ crd' = crd
    BY <1>4, <2>1 DEF Old, crd
  <2>5. CRDInv'
    BY <1>0, <2>1, <2>2, <2>4 DEF MigratorInv, CRDInv, At
  <2> QED
    BY <1>4, <2>1, <2>3, <2>5, CRDsKept DEF MigratorInv
<1>5. ASSUME NEW o \in migrator.page, crds' = StoredAnew(crd, o),
             migrator' = [Goes("patch") EXCEPT !.page = Goes("patch").page \ {o}],
             UNCHANGED stale
      PROVE  MigratorInv'
  <2>1. /\ migrator' \in Migrators /\ migrator'.pc = "patch"
        /\ migrator'.static = migrator.static /\ migrator'.todo = migrator.todo
        /\ migrator'.seen = migrator.seen /\ migrator'.crd = migrator.crd
        /\ migrator'.page = migrator.page \ {o} /\ migrator'.rest = migrator.rest
    BY <1>0, <1>5, ObjectDone
  <2>2. /\ crds' \in [CRDs -> CRDStates] /\ ListedInv' /\ Current' = Current
        /\ \A d \in CRDs : /\ crds'[d].storage = crds[d].storage
                           /\ Old(d)' = IF d = crd THEN Old(d) \ {o} ELSE Old(d)
    <3>1. crds' = [crds EXCEPT ![crd].objects[o] = crds[crd].storage]
      BY <1>5 DEF StoredAnew
    <3> QED
      BY <1>0, <1>5, <3>1, ObjectChanged
  <2>3. Types' /\ SeenInv'
    BY <1>5, <2>1, <2>2 DEF MigratorInv, Types, SeenInv, Current
  <2>4. migrator.todo \subseteq CRDs /\ crd' = crd
    BY <1>0, <2>1 DEF Types, Migrators, crd
  <2>5. RunInv'
    BY <2>1, <2>2, <2>4 DEF MigratorInv, RunInv, At
  <2>6. CRDInv'
    BY <1>0, <2>1, <2>2, <2>4 DEF MigratorInv, CRDInv, At
  <2> QED
    BY <2>2, <2>3, <2>5, <2>6 DEF MigratorInv
<1> QED
  BY <1>1, <1>2, <1>3, <1>4, <1>5 DEF PatchObject

--------------------------------------------------------------------------------
(* The status of the CRD *)

LEMMA CheckPermissionKeepsInv ==
    ASSUME MigratorInv, CheckPermission
    PROVE  MigratorInv'
<1>0. Types /\ At("permission") /\ migrator.static \in BOOLEAN
  BY DEF MigratorInv, CheckPermission, Types, Migrators
<1>1. CASE CallFails
  BY <1>1, CallFailsKeepsInv
<1>2. CASE NextCRD(migrator.static) /\ UNCHANGED <<crds, stale>>
  BY <1>0, <1>2, NextCRDKeepsInv
<1>3. CASE migrator' = Goes("get") /\ UNCHANGED <<crds, stale>>
  <2>1. /\ migrator' \in Migrators /\ migrator'.pc = "get" /\ migrator'.static = migrator.static
        /\ migrator'.todo = migrator.todo /\ migrator'.seen = migrator.seen
        /\ migrator'.crd = migrator.crd /\ migrator'.rest = migrator.rest
    BY <1>0, <1>3, GoesTo DEF PCs
  <2>2. Current' = Current /\ \A c : Old(c)' = Old(c)
    BY <1>3, CRDsKept
  <2>3. crd' = crd
    BY <2>1 DEF crd
  <2>4. RunInv' /\ CRDInv'
    BY <1>0, <2>1, <2>2, <2>3 DEF MigratorInv, RunInv, CRDInv, At
  <2> QED
    BY <1>3, <2>1, <2>4, CRDsKept DEF MigratorInv
<1> QED
  BY <1>1, <1>2, <1>3 DEF CheckPermission

LEMMA GetCRDKeepsInv ==
    ASSUME MigratorInv, GetCRD
    PROVE  MigratorInv'
<1>0. Types /\ migrator \in Migrators /\ At("get") /\ crd \in CRDs
  BY DEF MigratorInv, GetCRD, Types, Migrators, crd
<1>1. CASE CallFails
  BY <1>1, CallFailsKeepsInv
<1>2. CASE CallRetried("get")
  BY <1>0, <1>2, CallRetriedKeepsInv DEF PCs
<1>3. CASE /\ migrator' = [migrator EXCEPT !.pc = "update", !.got = crds[crd].stored]
           /\ UNCHANGED <<crds, stale>>
  <2> DEFINE versions == crds[crd].stored
             r == [migrator EXCEPT !.pc = "update"]
             s == [r EXCEPT !.got = versions]
  <2>1. versions \subseteq Versions
    BY <1>0 DEF Types, CRDStates
  <2>2. migrator' = s
    BY <1>3
  <2> HIDE DEF versions
  <2>3. /\ r \in Migrators /\ r.pc = "update" /\ r.static = migrator.static
        /\ r.todo = migrator.todo /\ r.seen = migrator.seen
        /\ r.crd = migrator.crd /\ r.rest = migrator.rest
    BY <1>0 DEF Migrators
  <2> HIDE DEF r
  <2>4. /\ s \in Migrators /\ s.pc = "update" /\ s.static = migrator.static
        /\ s.todo = migrator.todo /\ s.seen = migrator.seen
        /\ s.crd = migrator.crd /\ s.rest = migrator.rest /\ s.got = versions
    BY <2>1, <2>3 DEF Migrators
  <2> HIDE DEF s
  <2>5. Current' = Current /\ \A c : Old(c)' = Old(c)
    BY <1>3, CRDsKept
  <2>6. crd' = crd /\ crds'[crd].stored = versions
    BY <1>3, <2>2, <2>4 DEF crd, versions
  <2>7. RunInv' /\ CRDInv'
    BY <1>0, <2>2, <2>4, <2>5, <2>6 DEF MigratorInv, RunInv, CRDInv, At
  <2> QED
    BY <1>3, <2>2, <2>4, <2>7, CRDsKept DEF MigratorInv
<1> QED
  BY <1>1, <1>2, <1>3 DEF GetCRD

\* The merge patch: what remains is either all there was, or the target.
LEMMA StatusPatched ==
    ASSUME MigratorInv, At("update"), crd \in Current
    PROVE  /\ crds[crd].storage \in PatchedStored
           /\ \A o \in Objects : crds[crd].objects[o] \in PatchedStored \cup {NoVersion}
<1>1. target = crds[crd].storage
  BY DEF MigratorInv, SeenInv, target
<1>2. \A o \in Objects : crds[crd].objects[o] \in {NoVersion, crds[crd].storage}
  BY DEF MigratorInv, CRDInv, At, Old
<1>3. migrator.got \subseteq crds[crd].stored
  BY DEF MigratorInv, CRDInv
<1> QED
  BY <1>1, <1>2, <1>3 DEF PatchedStored

LEMMA UpdateStatusKeepsInv ==
    ASSUME MigratorInv, UpdateStatus
    PROVE  MigratorInv'
<1>0. Types /\ migrator \in Migrators /\ At("update") /\ crd \in CRDs
  BY DEF MigratorInv, UpdateStatus, Types, Migrators, crd
<1>1. CASE CallFails
  BY <1>1, CallFailsKeepsInv
<1>2. CASE CallRetried("get")
  BY <1>0, <1>2, CallRetriedKeepsInv DEF PCs
<1>3. CASE NextCRD(TRUE) /\ UNCHANGED <<crds, stale>>
  BY <1>3, NextCRDKeepsInv
<1>4. CASE /\ crds' = [crds EXCEPT ![crd].stored = PatchedStored]
           /\ stale' = [stale EXCEPT !.written =
                 IF crd \in stale.listed THEN @ \cup {crd}
                 ELSE IF migrator.static THEN @ ELSE @ \ {crd}]
           /\ NextCRD(FALSE)
  <2> DEFINE written == IF crd \in stale.listed THEN stale.written \cup {crd}
                        ELSE IF migrator.static THEN stale.written ELSE stale.written \ {crd}
             new == [crds[crd] EXCEPT !.stored = PatchedStored]
  <2>1. /\ stale' = [stale EXCEPT !.written = written] /\ crds' = [crds EXCEPT ![crd] = new]
        /\ written \subseteq CRDs
    BY <1>0, <1>4 DEF Types
  <2>2. \A d \in CRDs \ written : d \notin stale.written \/ (d = crd /\ d \in Current)
    BY <1>0 DEF Current
  <2>3. crd \in CRDs \ written => crd \in Current
    BY DEF Current
  <2> HIDE DEF written
  <2>4. /\ stale' \in [{"listed", "written"} -> SUBSET CRDs]
        /\ stale'.listed = stale.listed /\ stale'.written = written
    BY <1>0, <2>1 DEF Types
  <2>5. crds[crd] \in CRDStates /\ PatchedStored \subseteq Versions
    <3>1. crds[crd] \in CRDStates
      BY <1>0 DEF Types
    <3>2. crds[crd].stored \subseteq Versions
      BY <3>1 DEF CRDStates
    <3>3. target \in Versions
      BY <1>0 DEF Migrators, target
    <3> QED
      BY <3>1, <3>2, <3>3 DEF PatchedStored
  <2>6. /\ new \in CRDStates /\ new.stored = PatchedStored
        /\ new.storage = crds[crd].storage /\ new.objects = crds[crd].objects
    BY <2>5 DEF CRDStates
  <2> HIDE DEF new
  <2>7. /\ crds' \in [CRDs -> CRDStates] /\ crds'[crd] = new
        /\ \A d \in CRDs \ {crd} : crds'[d] = crds[d]
    BY <1>0, <2>1, <2>6 DEF Types
  <2>8. /\ migrator' \in Migrators /\ migrator'.pc = "next"
        /\ migrator'.static = migrator.static
        /\ migrator'.todo = migrator.todo /\ migrator'.seen = migrator.seen
        /\ migrator'.rest = {}
    BY <1>0, <1>4, NextCRDClears
  <2>9. Types'
    BY <2>4, <2>7, <2>8 DEF Types
  <2>10. Current' = Current /\ \A d \in CRDs : Old(d)' = Old(d) /\ crds'[d].storage = crds[d].storage
    BY <2>4, <2>6, <2>7 DEF Current, Old
  <2>11. SeenInv'
    BY <2>8, <2>10 DEF MigratorInv, SeenInv, Current
  <2>12. ListedInv'
    <3>1. ASSUME NEW d \in CRDs \ written, d # crd
          PROVE  /\ crds'[d].storage \in crds'[d].stored
                 /\ \A o \in Objects : crds'[d].objects[o] \in crds'[d].stored \cup {NoVersion}
      BY <2>2, <2>7, <3>1 DEF MigratorInv, ListedInv
    <3>2. ASSUME crd \in CRDs \ written
          PROVE  /\ crds'[crd].storage \in crds'[crd].stored
                 /\ \A o \in Objects : crds'[crd].objects[o] \in crds'[crd].stored \cup {NoVersion}
      BY <1>0, <2>3, <2>6, <2>7, <3>2, StatusPatched
    <3> QED
      BY <2>4, <3>1, <3>2 DEF ListedInv
  <2>13. RunInv'
    <3>1. migrator.todo \subseteq CRDs
      BY <1>0 DEF Migrators
    <3> QED
      BY <2>8, <2>10, <3>1 DEF MigratorInv, RunInv, At
  <2>14. CRDInv'
    BY <2>8 DEF CRDInv, At
  <2> QED
    BY <2>9, <2>11, <2>12, <2>13, <2>14 DEF MigratorInv
<1> QED
  BY <1>1, <1>2, <1>3, <1>4 DEF UpdateStatus

--------------------------------------------------------------------------------
(* Processes and upgrades *)

\* A run that is started anew, after an error, a crash or an upgrade.
LEMMA StartedKeepsInv ==
    ASSUME MigratorInv, migrator' = Started(FALSE), UNCHANGED <<crds, stale>>
    PROVE  MigratorInv'
<1>1. Types
  BY DEF MigratorInv
<1>2. /\ migrator' \in Migrators /\ migrator'.pc = "start" /\ ~migrator'.static
      /\ migrator'.seen = migrator.seen /\ migrator'.rest = {}
  BY <1>1, StartedClears
<1> QED
  BY <1>2, NothingInHand

LEMMA RunStaticKeepsInv ==
    ASSUME MigratorInv, RunStatic
    PROVE  MigratorInv'
<1>0. Types /\ UNCHANGED crds /\ stale' = [stale EXCEPT !.listed = {}]
  BY DEF MigratorInv, RunStatic
<1>1. PICK mapped \in SUBSET CRDs, skip \in BOOLEAN :
         /\ \A c \in mapped, o \in Objects : crds[c].objects[o] \in {NoVersion, crds[c].storage}
         /\ migrator' = [Started(TRUE) EXCEPT !.pc = "next", !.todo = mapped, !.seen = Seen,
                                              !.skipCheck = skip]
  BY DEF RunStatic
<1> DEFINE r == Started(TRUE)
<1>2. r \in Migrators /\ r.static /\ r.rest = {}
  BY <1>0, StartedClears
<1>3. Seen \in [CRDs -> [storage : Versions, stored : SUBSET Versions]]
  BY <1>0 DEF Seen, Types, CRDStates
<1>4. migrator' = [r EXCEPT !.pc = "next", !.todo = mapped, !.seen = Seen, !.skipCheck = skip]
  BY <1>1
<1> HIDE DEF r
<1> DEFINE s == [r EXCEPT !.pc = "next"]
           t == [s EXCEPT !.todo = mapped]
           u == [t EXCEPT !.seen = Seen]
           v == [u EXCEPT !.skipCheck = skip]
<1>5. migrator' = v
  BY <1>4
<1>6. s \in Migrators /\ s.pc = "next" /\ s.static /\ s.rest = {}
  BY <1>2 DEF Migrators
<1> HIDE DEF s
<1>7. t \in Migrators /\ t.pc = "next" /\ t.static /\ t.rest = {} /\ t.todo = mapped
  BY <1>6 DEF Migrators
<1> HIDE DEF t
<1>8. /\ u \in Migrators /\ u.pc = "next" /\ u.static /\ u.rest = {} /\ u.todo = mapped
      /\ u.seen = Seen
  BY <1>3, <1>7 DEF Migrators
<1> HIDE DEF u
<1>9. /\ v \in Migrators /\ v.pc = "next" /\ v.static /\ v.rest = {} /\ v.todo = mapped
      /\ v.seen = Seen
  BY <1>8 DEF Migrators
<1> HIDE DEF v
<1>10. stale' \in [{"listed", "written"} -> SUBSET CRDs] /\ stale'.written = stale.written
  BY <1>0 DEF Types
<1>11. Types' /\ ListedInv'
  BY <1>0, <1>5, <1>9, <1>10 DEF MigratorInv, Types, ListedInv
<1>12. SeenInv'
  BY <1>0, <1>5, <1>9 DEF SeenInv, Seen, Current
<1>13. RunInv' /\ CRDInv'
  <2>1. \A c \in mapped : Old(c)' = {}
    BY <1>0, <1>1 DEF Old
  <2> QED
    BY <1>5, <1>9, <2>1 DEF RunInv, CRDInv, At
<1> QED
  BY <1>11, <1>12, <1>13 DEF MigratorInv

LEMMA UpgradeKeepsInv ==
    ASSUME MigratorInv, NEW v \in Versions, Upgrade(v)
    PROVE  MigratorInv'
<1> DEFINE new(c) == [crds[c] EXCEPT !.storage = v, !.stored = crds[c].stored \cup {v}]
           listed == stale.listed \cup {c \in CRDs : crds[c].storage # v}
<1>0. /\ Types /\ UNCHANGED migrator /\ crds' = [c \in CRDs |-> new(c)]
      /\ stale' = [stale EXCEPT !.listed = listed]
  BY DEF MigratorInv, Upgrade
<1>1. ASSUME NEW c \in CRDs
      PROVE  /\ new(c) \in CRDStates /\ new(c).storage = v
             /\ new(c).stored = crds[c].stored \cup {v} /\ new(c).objects = crds[c].objects
  <2> DEFINE versions == crds[c].stored \cup {v}
             p == [crds[c] EXCEPT !.storage = v]
             q == [p EXCEPT !.stored = versions]
  <2>1. crds[c] \in CRDStates
    BY <1>0 DEF Types
  <2>2. p \in CRDStates /\ p.storage = v /\ p.objects = crds[c].objects
    BY <2>1 DEF CRDStates
  <2>3. versions \in SUBSET Versions /\ q = new(c)
    BY <2>1 DEF CRDStates
  <2> HIDE DEF p, versions
  <2>4. /\ q \in CRDStates /\ q.storage = v /\ q.stored = versions
        /\ q.objects = crds[c].objects
    BY <2>2, <2>3 DEF CRDStates
  <2> HIDE DEF q
  <2> QED
    BY <2>3, <2>4 DEF versions
<1>2. /\ crds' \in [CRDs -> CRDStates]
      /\ \A c \in CRDs : /\ crds'[c].storage = v
                         /\ crds'[c].stored = crds[c].stored \cup {v}
                         /\ crds'[c].objects = crds[c].objects
  BY <1>0, <1>1
<1>3. /\ stale' \in [{"listed", "written"} -> SUBSET CRDs]
      /\ stale'.listed = listed /\ stale'.written = stale.written
  BY <1>0 DEF Types
<1>4. Types'
  BY <1>0, <1>2, <1>3 DEF Types
<1>5. \A c \in CRDs : c \in Current' => /\ c \in Current /\ crds[c].storage = v
                                        /\ Old(c)' = Old(c)
  BY <1>2, <1>3 DEF Current, Old
<1>6. SeenInv'
  BY <1>0, <1>2, <1>5 DEF MigratorInv, SeenInv, Current
<1>7. ListedInv'
  BY <1>2, <1>3 DEF MigratorInv, ListedInv
<1>8. crd \in CRDs /\ crd' = crd /\ migrator.todo \subseteq CRDs
  BY <1>0 DEF Types, Migrators, crd
<1>9. RunInv'
  BY <1>0, <1>5, <1>8 DEF MigratorInv, RunInv, At
<1>10. CRDInv'
  BY <1>0, <1>2, <1>5, <1>8 DEF MigratorInv, CRDInv, At
<1> QED
  BY <1>4, <1>6, <1>7, <1>9, <1>10 DEF MigratorInv

--------------------------------------------------------------------------------
(* The specification *)

LEMMA InitEstablishesInv ==
    ASSUME MigratorAssumption, Init
    PROVE  MigratorInv
<1>1. PICK old \in Versions, new \in Versions, there \in SUBSET Objects :
         crds = [c \in CRDs |-> [storage |-> new, stored |-> {old, new},
                    objects |-> [o \in Objects |-> IF o \in there THEN old ELSE NoVersion]]]
  BY DEF Init
<1>2. stale = [listed |-> {}, written |-> {}]
  BY DEF Init
<1>3. PICK short \in BOOLEAN :
         migrator = [pc |-> "start", static |-> FALSE, short |-> short, skipCheck |-> FALSE,
                     todo |-> {}, seen |-> Seen, crd |-> CHOOSE c \in CRDs : TRUE,
                     page |-> {}, rest |-> {}, got |-> {}, tries |-> 0, errs |-> FALSE]
  BY DEF Init
<1>4. (CHOOSE c \in CRDs : TRUE) \in CRDs
  BY DEF MigratorAssumption
<1>5. crds \in [CRDs -> CRDStates]
  BY <1>1 DEF CRDStates
<1>6. Seen \in [CRDs -> [storage : Versions, stored : SUBSET Versions]]
  BY <1>5 DEF Seen, CRDStates
<1>7. migrator \in Migrators
  BY <1>3, <1>4, <1>6 DEF Migrators
<1>8. Types
  BY <1>2, <1>5, <1>7 DEF Types
<1>9. SeenInv
  BY <1>3 DEF SeenInv, Seen, Current
<1>10. ListedInv
  BY <1>1 DEF ListedInv
<1>11. RunInv /\ CRDInv
  BY <1>3 DEF RunInv, CRDInv, At
<1> QED
  BY <1>8, <1>9, <1>10, <1>11 DEF MigratorInv

LEMMA NextKeepsInv ==
    ASSUME MigratorInv, [Next]_vars
    PROVE  MigratorInv'
<1>1. CASE MigratorStep
  BY <1>1, ListCRDsKeepsInv, TakeCRDKeepsInv, EndRunKeepsInv, ListPageKeepsInv,
     PatchObjectKeepsInv, EndPageKeepsInv, CheckPermissionKeepsInv, GetCRDKeepsInv,
     UpdateStatusKeepsInv DEF MigratorStep
<1>2. CASE Restart \/ Rollout \/ Crash
  BY <1>2, StartedKeepsInv DEF Restart, Rollout, Crash
<1>3. CASE RunStatic
  BY <1>3, RunStaticKeepsInv
<1>4. CASE \E c \in CRDs, o \in Objects : Write(c, o)
  BY <1>4, WriteKeepsInv
<1>5. CASE \E v \in Versions : Upgrade(v)
  BY <1>5, UpgradeKeepsInv
<1>6. CASE UNCHANGED vars
  BY <1>6 DEF vars, MigratorInv, Types, SeenInv, Current, ListedInv, RunInv, CRDInv, Old, At, crd
<1> QED
  BY <1>1, <1>2, <1>3, <1>4, <1>5, <1>6 DEF Next

(* Spec => []StoredIsListed: whatever a run of UpdateStorageVersions takes out of
   status.storedVersions, no object is stored in it (pkg/config/crd_migrator.go). *)
THEOREM StoredVersionsStayListed ==
    ASSUME MigratorAssumption
    PROVE  Spec => []StoredIsListed
<1>1. Init => MigratorInv
  BY InitEstablishesInv
<1>2. MigratorInv /\ [Next]_vars => MigratorInv'
  BY NextKeepsInv
<1>3. MigratorInv => StoredIsListed
  BY DEF MigratorInv, ListedInv, StoredIsListed
<1> QED
  BY <1>1, <1>2, <1>3, PTL DEF Spec

--------------------------------------------------------------------------------
\* The versions of the configuration: the previous ones are older, and the roles are theirs.
ConfigInv ==
    /\ config \in Configs
    /\ \A v \in config.previous : v < config.version
    /\ config.storage \in Known \cup {Unset}
    /\ config.hub \in Known \cup {Unset}

\* The files are those of the versions of the configuration.
FilesInv ==
    /\ files \in [ApiVersions -> Files]
    /\ \A v \in ApiVersions : files[v].there => v \in Known
    /\ \A v \in config.previous : files[v].there

Right(v) == files[v].there /\ files[v].storage = (v = CRDStorageVersion)

After(pcs) == run.pc \in pcs \/ run.complete

HookInv ==
    /\ run \in Runs
    /\ nodes \in [hubs : SUBSET ApiVersions, spokes : SUBSET ApiVersions]
    /\ run.complete => run.pc = "idle"
    /\ run.todo \subseteq config.previous
    /\ run.pc \notin {"storage", "lifecycle"} => run.todo = {}
    /\ run.pc \in {"types", "hubs"} => nodes.hubs = {}
    /\ run.pc \in {"types", "hubs", "spokes"} => nodes.spokes = {}
    /\ After({"spokes", "storage", "lifecycle"}) => nodes.hubs = {CRDHubVersion}
    /\ After({"storage", "lifecycle"}) => nodes.spokes = Directories \ {CRDHubVersion}

MarkersInv ==
    /\ After({"hubs", "spokes", "storage", "lifecycle"}) => Right(config.version)
    /\ run.pc = "storage" => \A v \in config.previous \ run.todo : Right(v)
    /\ After({"lifecycle"}) => \A v \in config.previous : Right(v)

\* A version that needs no markers shows what it has to.
ShownInv ==
    /\ After({"hubs", "spokes", "storage", "lifecycle"}) => Shown(config.version)
    /\ run.pc = "lifecycle" => \A v \in config.previous \ run.todo : Shown(v)
    /\ run.complete => \A v \in config.previous : Shown(v)

LifecycleInv == ConfigInv /\ FilesInv /\ HookInv /\ MarkersInv /\ ShownInv

--------------------------------------------------------------------------------
(* Lemmas about files and versions *)

\* What is said of a file when it has no storage marker and no lifecycle markers.
LEMMA NoFileIsFile ==
    NoFile \in Files /\ ~NoFile.there
BY DEF NoFile, Files, None

\* Replacing the storage marker leaves a file with its other fields.
LEMMA StorageReplaced ==
    ASSUME NEW f \in Files, NEW b \in BOOLEAN
    PROVE  LET g == [f EXCEPT !.storage = b]
           IN  /\ g \in Files /\ g.there = f.there /\ g.storage = b
               /\ g.marks = f.marks /\ g.text = f.text
BY DEF Files

\* Inserting and deleting, of a bag.
LEMMA InsertDelete ==
    ASSUME NEW S, NEW bag \in [S -> Nat], NEW things
    PROVE  /\ Insert(bag, things) \in [S -> Nat]
           /\ Delete(bag, things) \in [S -> Nat]
           /\ \A x \in S : Insert(bag, things)[x] = IF x \in things THEN bag[x] + 1 ELSE bag[x]
           /\ \A x \in S : Delete(bag, things)[x] = IF x \in things THEN 0 ELSE bag[x]
BY DEF Insert, Delete

\* The markers of a file after the hook has been over them: each one that is configured, once.
LEMMA MarkersReplaced ==
    ASSUME LifecycleAssumption, NEW marks \in [Marks -> Nat], NEW v
    PROVE  LET new == Insert(RemoveLifecycleMarkers(marks), LifecycleMarkers(v))
           IN  /\ new \in [Marks -> Nat]
               /\ IsVersionDeprecated(v) => Just(new, Deprecations, config.deprecated[v])
               /\ v \notin GetServedVersions => new["unserved"] = 1
<1> DEFINE kept == RemoveLifecycleMarkers(marks)
           new  == Insert(kept, LifecycleMarkers(v))
<1>1. kept \in [Marks -> Nat] /\ \A x \in Marks : kept[x] = 0
  BY InsertDelete DEF RemoveLifecycleMarkers, Marks
<1> HIDE DEF kept
<1>2. /\ new \in [Marks -> Nat]
      /\ \A x \in Marks : new[x] = IF x \in LifecycleMarkers(v) THEN kept[x] + 1 ELSE kept[x]
  BY <1>1, InsertDelete
<1> HIDE DEF new
<1>3. \A x \in Marks : new[x] = IF x \in LifecycleMarkers(v) THEN 1 ELSE 0
  BY <1>1, <1>2
<1>4. IsVersionDeprecated(v) => Just(new, Deprecations, config.deprecated[v])
  <2>1. IsVersionDeprecated(v) =>
           \A x \in Deprecations : x \in LifecycleMarkers(v) <=> x = config.deprecated[v]
    BY DEF IsVersionDeprecated, LifecycleMarkers, LifecycleAssumption
  <2> QED
    BY <1>3, <2>1 DEF Just, Marks
<1>5. v \notin GetServedVersions => new["unserved"] = 1
  BY <1>3 DEF LifecycleMarkers, Marks
<1> QED
  BY <1>2, <1>4, <1>5 DEF new, kept

\* The description of a file after the hook has been over it: one notice, the one that is
\* configured, or nothing as before.
LEMMA NoticeReplaced ==
    ASSUME NEW text \in [Lines -> Nat], NEW v,
           config.deprecated[v] \in Deprecations \cup {Unset}
    PROVE  LET new == UpdateDescription(v, text)
           IN  /\ new \in [Lines -> Nat]
               /\ IsVersionDeprecated(v) => NoticeIn(new, v) \/ NoDescription(new)
<1> DEFINE kept == RemoveDeprecationNotice(text)
           line == [schema |-> FALSE, notice |-> config.deprecated[v]]
           with == InsertDeprecationNotice(kept, config.deprecated[v])
<1>1. kept \in [Lines -> Nat] /\ \A x \in Notices : kept[x] = 0
  <2>1. Notices \subseteq Lines
    BY DEF Notices
  <2> QED
    BY <2>1, InsertDelete DEF RemoveDeprecationNotice
<1>2. CASE NoDescription(text)
  BY <1>2 DEF UpdateDescription
<1>3. CASE ~NoDescription(text) /\ ~IsVersionDeprecated(v)
  BY <1>1, <1>3 DEF UpdateDescription
<1>4. CASE ~NoDescription(text) /\ IsVersionDeprecated(v)
  <2> HIDE DEF kept
  <2>1. line \in Notices /\ line.notice = config.deprecated[v]
    BY <1>4 DEF Notices, Lines, IsVersionDeprecated
  <2> HIDE DEF line
  <2>2. with = Insert(kept, {line})
    BY DEF InsertDeprecationNotice, line
  <2>3. /\ with \in [Lines -> Nat]
        /\ \A x \in Lines : with[x] = IF x = line THEN kept[x] + 1 ELSE kept[x]
    BY <1>1, <2>2, InsertDelete
  <2> HIDE DEF with
  <2>4. Just(with, Notices, line)
    BY <1>1, <2>3 DEF Just, Notices
  <2>5. NoticeIn(with, v)
    BY <2>1, <2>4 DEF NoticeIn
  <2> QED
    BY <1>4, <2>3, <2>5 DEF UpdateDescription, with, kept
<1> QED
  BY <1>2, <1>3, <1>4

\* The lifecycle hook leaves a file with its storage marker.
LEMMA MarksReplaced ==
    ASSUME LifecycleAssumption, NEW f \in Files, NEW v,
           config.deprecated[v] \in Deprecations \cup {Unset}
    PROVE  LET g == UpdateFileMarkers(v, f)
           IN  /\ g \in Files /\ g.there = f.there /\ g.storage = f.storage
               /\ IsVersionDeprecated(v) =>
                     /\ Just(g.marks, Deprecations, config.deprecated[v])
                     /\ NoticeIn(g.text, v) \/ NoDescription(g.text)
               /\ v \notin GetServedVersions => g.marks["unserved"] = 1
<1> DEFINE marks == Insert(RemoveLifecycleMarkers(f.marks), LifecycleMarkers(v))
           text  == UpdateDescription(v, f.text)
           g     == UpdateFileMarkers(v, f)
<1>1. f.marks \in [Marks -> Nat] /\ f.text \in [Lines -> Nat]
  BY DEF Files
<1>2. /\ marks \in [Marks -> Nat]
      /\ IsVersionDeprecated(v) => Just(marks, Deprecations, config.deprecated[v])
      /\ v \notin GetServedVersions => marks["unserved"] = 1
  BY <1>1, MarkersReplaced
<1>3. /\ text \in [Lines -> Nat]
      /\ IsVersionDeprecated(v) => NoticeIn(text, v) \/ NoDescription(text)
  BY <1>1, NoticeReplaced
<1>4. g = [[f EXCEPT !.marks = marks] EXCEPT !.text = text]
  BY DEF UpdateFileMarkers
<1> HIDE DEF marks, text, g
<1> DEFINE h == [f EXCEPT !.marks = marks]
<1>5. h \in Files /\ h.there = f.there /\ h.storage = f.storage /\ h.marks = marks
  BY <1>2 DEF Files
<1>6. g = [h EXCEPT !.text = text]
  BY <1>4
<1> HIDE DEF h
<1>7. /\ g \in Files /\ g.there = f.there /\ g.storage = f.storage
      /\ g.marks = marks /\ g.text = text
  BY <1>3, <1>5, <1>6 DEF Files
<1> QED
  BY <1>2, <1>3, <1>7 DEF g

\* The types of the version that is generated show what is configured of it.
LEMMA RenderedShows ==
    ASSUME LifecycleAssumption, ConfigInv
    PROVE  LET v == config.version
           IN  /\ Rendered \in Files /\ Rendered.there
               /\ Rendered.storage = (v = CRDStorageVersion)
               /\ IsVersionDeprecated(v) =>
                     /\ Just(Rendered.marks, Deprecations, config.deprecated[v])
                     /\ NoticeIn(Rendered.text, v)
               /\ v \notin GetServedVersions => Rendered.marks["unserved"] = 1
<1> DEFINE v     == config.version
           line  == [schema |-> TRUE, notice |-> config.deprecated[v]]
           marks == Insert(None(Marks), LifecycleMarkers(v))
           text  == Insert(None(Lines), {line})
<1>0. config.deprecated[v] \in Deprecations \cup {Unset}
  BY DEF ConfigInv, Configs
<1>1. /\ None(Marks) \in [Marks -> Nat] /\ \A x \in Marks : None(Marks)[x] = 0
      /\ None(Lines) \in [Lines -> Nat] /\ \A x \in Lines : None(Lines)[x] = 0
  BY DEF None
<1>2. /\ marks \in [Marks -> Nat]
      /\ \A x \in Marks : marks[x] = IF x \in LifecycleMarkers(v) THEN 1 ELSE 0
  BY <1>1, InsertDelete
<1>3. line \in Lines /\ line.notice = config.deprecated[v]
  BY <1>0 DEF Lines
<1>4. /\ text \in [Lines -> Nat]
      /\ \A x \in Lines : text[x] = IF x = line THEN 1 ELSE 0
  BY <1>1, InsertDelete
<1>5. Rendered = [there |-> TRUE, storage |-> CRDStorageVersion = v, marks |-> marks, text |-> text]
  BY DEF Rendered
<1> HIDE DEF line, marks, text
<1>6. IsVersionDeprecated(v) => Just(marks, Deprecations, config.deprecated[v])
  <2>1. IsVersionDeprecated(v) =>
           \A x \in Deprecations : x \in LifecycleMarkers(v) <=> x = config.deprecated[v]
    BY DEF IsVersionDeprecated, LifecycleMarkers, LifecycleAssumption
  <2> QED
    BY <1>2, <2>1 DEF Just, Marks
<1>7. IsVersionDeprecated(v) => NoticeIn(text, v)
  <2>1. IsVersionDeprecated(v) => line \in Notices
    BY <1>3 DEF Notices, IsVersionDeprecated
  <2>2. Just(text, Notices, line)
    BY <1>4 DEF Just, Notices
  <2> QED
    BY <1>3, <2>1, <2>2 DEF NoticeIn
<1>8. v \notin GetServedVersions => marks["unserved"] = 1
  BY <1>2 DEF LifecycleMarkers, Marks
<1>9. /\ Rendered \in Files /\ Rendered.there /\ Rendered.storage = (v = CRDStorageVersion)
      /\ Rendered.marks = marks /\ Rendered.text = text
  BY <1>2, <1>4, <1>5 DEF Files
<1> QED
  BY <1>6, <1>7, <1>8, <1>9

\* One file is replaced by another one.
LEMMA FileReplaced ==
    ASSUME LifecycleInv, NEW w \in ApiVersions, NEW file \in Files,
           files' = [files EXCEPT ![w] = file]
    PROVE  /\ files' \in [ApiVersions -> Files]
           /\ files'[w] = file
           /\ \A v \in ApiVersions \ {w} : files'[v] = files[v]
BY DEF LifecycleInv, FilesInv

\* A version shows what it did while its file and the configuration stay.
LEMMA ShownKept ==
    ASSUME UNCHANGED config, NEW v, files'[v] = files[v]
    PROVE  Shown(v)' <=> Shown(v)
BY DEF Shown, IsVersionDeprecated, GetServedVersions, Known, NoticeIn, Just, NoDescription

\* The roles are those of versions there are.
LEMMA RolesKnown ==
    ASSUME ConfigInv
    PROVE  /\ Known \subseteq ApiVersions
           /\ CRDStorageVersion \in Known /\ CRDHubVersion \in Known
BY DEF ConfigInv, Configs, Known, CRDStorageVersion, CRDHubVersion

\* When the run is complete the roles are as configured.
LEMMA InvImpliesRoles ==
    ASSUME LifecycleInv
    PROVE  RolesAsConfigured
<1> SUFFICES ASSUME run.complete PROVE RolesAsConfigured
  BY DEF RolesAsConfigured
<1>1. \A v \in Known : Right(v)
  BY DEF LifecycleInv, MarkersInv, After, Known
<1>2. /\ Known \subseteq ApiVersions
      /\ CRDStorageVersion \in Known
  BY RolesKnown DEF LifecycleInv
<1>3. Directories = Known
  BY <1>1, <1>2 DEF LifecycleInv, FilesInv, Directories, Right
<1>4. {v \in Directories : files[v].storage} = {CRDStorageVersion}
  BY <1>1, <1>2, <1>3 DEF Right
<1> QED
  BY <1>4 DEF LifecycleInv, HookInv, After, RolesAsConfigured

--------------------------------------------------------------------------------
(* Edits: no run is under way, and none is complete afterwards *)

LEMMA EditKeepsRun ==
    ASSUME LifecycleInv, NEW new, Edit(new)
    PROVE  /\ run' \in Runs /\ run'.pc = "idle" /\ run'.todo = {} /\ ~run'.complete
           /\ config' = new
BY DEF LifecycleInv, HookInv, Runs, Edit

\* An edit that leaves the nodes keeps what is said of runs.
LEMMA EditKeepsMarkers ==
    ASSUME LifecycleInv, NEW new, Edit(new),
           nodes' \in [hubs : SUBSET ApiVersions, spokes : SUBSET ApiVersions]
    PROVE  HookInv' /\ MarkersInv' /\ ShownInv'
<1>1. run' \in Runs /\ run'.pc = "idle" /\ run'.todo = {} /\ ~run'.complete
  BY EditKeepsRun
<1> QED
  BY <1>1 DEF LifecycleInv, HookInv, MarkersInv, ShownInv, After

\* An edit that leaves versions and files alone keeps the invariant.
LEMMA EditKeepsInv ==
    ASSUME LifecycleInv, NEW new, Edit(new), Untouched,
           new \in Configs, new.version = config.version, new.previous = config.previous,
           new.storage \in Known \cup {Unset}, new.hub \in Known \cup {Unset}
    PROVE  LifecycleInv'
<1>1. config' = new
  BY EditKeepsRun
<1>2. Known' = Known
  BY <1>1 DEF Known
<1>3. ConfigInv'
  BY <1>1, <1>2 DEF LifecycleInv, ConfigInv
<1>4. FilesInv'
  BY <1>1, <1>2 DEF LifecycleInv, FilesInv, Untouched
<1> QED
  BY <1>3, <1>4, EditKeepsMarkers DEF LifecycleInv, HookInv, Untouched

LEMMA SettersKeepInv ==
    ASSUME LifecycleInv,
           \/ \E versions \in SUBSET ApiVersions : SetServedVersions(versions)
           \/ \E v \in ApiVersions, d \in Deprecations : SetDeprecatedVersion(v, d)
           \/ \E v \in ApiVersions : NoLongerDeprecated(v)
           \/ \E v \in ApiVersions \cup {Unset} : SetCRDStorageVersion(v) \/ SetCRDHubVersion(v)
    PROVE  LifecycleInv'
<1> USE DEF LifecycleInv, ConfigInv
<1>1. ASSUME NEW versions \in SUBSET ApiVersions, SetServedVersions(versions)
      PROVE  LifecycleInv'
  <2> DEFINE new == [config EXCEPT !.served = versions]
  <2>1. /\ new \in Configs /\ new.version = config.version /\ new.previous = config.previous
        /\ new.storage = config.storage /\ new.hub = config.hub
    BY DEF Configs
  <2> QED
    BY <1>1, <2>1, EditKeepsInv DEF SetServedVersions
<1>2. ASSUME NEW v \in ApiVersions, NEW d \in Deprecations \cup {Unset},
             Edit([config EXCEPT !.deprecated[v] = d]), Untouched
      PROVE  LifecycleInv'
  <2> DEFINE new == [config EXCEPT !.deprecated[v] = d]
  <2>1. /\ new \in Configs /\ new.version = config.version /\ new.previous = config.previous
        /\ new.storage = config.storage /\ new.hub = config.hub
    BY DEF Configs
  <2> QED
    BY <1>2, <2>1, EditKeepsInv
<1>3. ASSUME NEW v \in ApiVersions \cup {Unset}, SetCRDStorageVersion(v)
      PROVE  LifecycleInv'
  <2> DEFINE new == [config EXCEPT !.storage = v]
  <2>1. /\ new \in Configs /\ new.version = config.version /\ new.previous = config.previous
        /\ new.storage = v /\ new.hub = config.hub
    BY DEF Configs
  <2> QED
    BY <1>3, <2>1, EditKeepsInv DEF SetCRDStorageVersion
<1>4. ASSUME NEW v \in ApiVersions \cup {Unset}, SetCRDHubVersion(v)
      PROVE  LifecycleInv'
  <2> DEFINE new == [config EXCEPT !.hub = v]
  <2>1. /\ new \in Configs /\ new.version = config.version /\ new.previous = config.previous
        /\ new.storage = config.storage /\ new.hub = v
    BY DEF Configs
  <2> QED
    BY <1>4, <2>1, EditKeepsInv DEF SetCRDHubVersion
<1> QED
  BY <1>1, <1>2, <1>3, <1>4 DEF SetDeprecatedVersion, NoLongerDeprecated

LEMMA NewVersionKeepsInv ==
    ASSUME LifecycleAssumption, LifecycleInv, NewVersion
    PROVE  LifecycleInv'
<1> DEFINE v == config.version
           p == [config EXCEPT !.version = v + 1]
           q == [p EXCEPT !.previous = config.previous \cup {v}]
           served == IF config.served = {} THEN {} ELSE config.served \cup {v + 1}
           new == [q EXCEPT !.served = served]
<1>1. v \in ApiVersions /\ v + 1 \in ApiVersions /\ config \in Configs
  BY DEF LifecycleAssumption, LifecycleInv, ConfigInv, Configs, NewVersion, ApiVersions
<1>2. p \in Configs /\ p.version = v + 1 /\ p.previous = config.previous /\ p.served = config.served
      /\ p.storage = config.storage /\ p.hub = config.hub
  BY <1>1 DEF Configs
<1> HIDE DEF p
<1>3. q \in Configs /\ q.version = v + 1 /\ q.previous = config.previous \cup {v}
      /\ q.storage = config.storage /\ q.hub = config.hub /\ q.served = config.served
  BY <1>1, <1>2 DEF Configs
<1> HIDE DEF q
<1>4. served \in SUBSET ApiVersions
  BY <1>1 DEF Configs
<1> HIDE DEF served
<1>5. new \in Configs /\ new.version = v + 1 /\ new.previous = config.previous \cup {v}
      /\ new.storage = config.storage /\ new.hub = config.hub
  BY <1>3, <1>4 DEF Configs
<1>6. Edit(new) /\ Untouched /\ files[v].there
  BY DEF NewVersion, new, q, p, served
<1> HIDE DEF new
<1>7. config' = new
  BY <1>6, EditKeepsRun
<1>8. Known' = Known \cup {v + 1}
  BY <1>5, <1>7 DEF Known
<1>9. ConfigInv'
  <2>1. \A w \in new.previous : w < v + 1
    BY <1>1, <1>5 DEF LifecycleInv, ConfigInv, Configs, ApiVersions
  <2> QED
    BY <1>5, <1>7, <1>8, <2>1 DEF LifecycleInv, ConfigInv
<1>10. FilesInv'
  BY <1>5, <1>6, <1>7, <1>8 DEF LifecycleInv, FilesInv, Untouched
<1> QED
  BY <1>6, <1>9, <1>10, EditKeepsMarkers DEF LifecycleInv, HookInv, Untouched

LEMMA DropVersionKeepsInv ==
    ASSUME LifecycleAssumption, LifecycleInv, NEW v \in ApiVersions, DropVersion(v)
    PROVE  LifecycleInv'
<1> DEFINE p == [config EXCEPT !.previous = config.previous \ {v}]
           q == [p EXCEPT !.served = config.served \ {v}]
           new == [q EXCEPT !.deprecated[v] = Unset]
<1>1. config \in Configs
  BY DEF LifecycleInv, ConfigInv
<1>2. p \in Configs /\ p.version = config.version /\ p.previous = config.previous \ {v}
      /\ p.storage = config.storage /\ p.hub = config.hub /\ p.served = config.served
      /\ p.deprecated = config.deprecated
  BY <1>1 DEF Configs
<1> HIDE DEF p
<1>3. q \in Configs /\ q.version = config.version /\ q.previous = config.previous \ {v}
      /\ q.storage = config.storage /\ q.hub = config.hub /\ q.deprecated = config.deprecated
  BY <1>1, <1>2 DEF Configs
<1> HIDE DEF q
<1>4. new \in Configs /\ new.version = config.version /\ new.previous = config.previous \ {v}
      /\ new.storage = config.storage /\ new.hub = config.hub
  BY <1>3 DEF Configs
<1>5. /\ Edit(new) /\ v \in config.previous /\ v \notin {CRDStorageVersion, CRDHubVersion}
      /\ files' = [files EXCEPT ![v] = NoFile]
      /\ nodes' = [hubs |-> nodes.hubs \ {v}, spokes |-> nodes.spokes \ {v}]
  BY DEF DropVersion, new, q, p
<1> HIDE DEF new
<1>6. config' = new /\ run' \in Runs /\ run'.pc = "idle" /\ ~run'.complete
  BY <1>5, EditKeepsRun
<1>7. v # config.version /\ Known' = Known \ {v}
  <2>1. v # config.version
    BY <1>5, <1>1 DEF LifecycleInv, ConfigInv, Configs, ApiVersions
  <2> QED
    BY <1>4, <1>6, <2>1 DEF Known
<1>8. ConfigInv'
  <2>1. config.storage # v /\ config.hub # v
    BY <1>1, <1>5, <1>7 DEF CRDStorageVersion, CRDHubVersion, LifecycleAssumption, ApiVersions
  <2> QED
    BY <1>4, <1>6, <1>7, <2>1 DEF LifecycleInv, ConfigInv
<1>9. FilesInv'
  BY <1>4, <1>5, <1>6, <1>7, NoFileIsFile, FileReplaced DEF LifecycleInv, FilesInv
<1>10. nodes' \in [hubs : SUBSET ApiVersions, spokes : SUBSET ApiVersions]
  BY <1>5 DEF LifecycleInv, HookInv
<1> QED
  BY <1>5, <1>8, <1>9, <1>10, EditKeepsMarkers DEF LifecycleInv

--------------------------------------------------------------------------------
(* A run: the configuration stays as it is *)

LEMMA RunKeepsConfig ==
    ASSUME LifecycleInv, UNCHANGED config
    PROVE  /\ ConfigInv' /\ Known' = Known
           /\ CRDStorageVersion' = CRDStorageVersion /\ CRDHubVersion' = CRDHubVersion
BY DEF LifecycleInv, ConfigInv, Known, CRDStorageVersion, CRDHubVersion

\* Files that stay as they are keep what is said of them.
LEMMA FilesKept ==
    ASSUME LifecycleInv, UNCHANGED <<config, files>>
    PROVE  /\ FilesInv' /\ Directories' = Directories
           /\ \A v : Right(v)' <=> Right(v)
           /\ \A v : Shown(v)' <=> Shown(v)
<1>1. Known' = Known /\ CRDStorageVersion' = CRDStorageVersion
  BY RunKeepsConfig
<1>2. \A v : Shown(v)' <=> Shown(v)
  BY ShownKept
<1> QED
  BY <1>1, <1>2 DEF LifecycleInv, FilesInv, Directories, Right

\* A previous version without markers to be shows what it has to.
LEMMA NothingToShow ==
    ASSUME LifecycleAssumption, ConfigInv, NEW v \in config.previous,
           ~HasLifecycle \/ ~NeedsMarkers(v)
    PROVE  Shown(v)
<1>1. v \in ApiVersions
  BY DEF ConfigInv, Configs
<1> QED
  BY <1>1 DEF HasLifecycle, NeedsMarkers, Shown, GetServedVersions, Known

LEMMA StepKeepsInv ==
    ASSUME LifecycleAssumption, LifecycleInv,
           \/ Start \/ GenerateHubs \/ GenerateSpokes \/ StorageHookEnds \/ RunEnds \/ Interrupt
    PROVE  LifecycleInv'
<1>0. UNCHANGED <<config, files>>
  BY DEF Start, GenerateHubs, GenerateSpokes, StorageHookEnds, RunEnds, Interrupt
<1>1. /\ ConfigInv' /\ FilesInv'
      /\ CRDHubVersion' = CRDHubVersion /\ Directories' = Directories
      /\ \A v : Right(v)' <=> Right(v)
      /\ \A v : Shown(v)' <=> Shown(v)
  BY <1>0, RunKeepsConfig, FilesKept
<1>2. config.previous \in SUBSET ApiVersions
  BY DEF LifecycleInv, ConfigInv, Configs
<1>3. Directories \subseteq ApiVersions
  BY DEF Directories
<1> USE DEF LifecycleInv, HookInv, MarkersInv, ShownInv, After, RunIsAt, Go, Runs
<1>4. CASE Start
  BY <1>0, <1>1, <1>4 DEF Start
<1>5. CASE GenerateHubs
  <2>1. Right(config.version) /\ CRDHubVersion \in Directories
    BY <1>5, RolesKnown DEF GenerateHubs, FilesInv, Directories, Right, Known
  <2> QED
    BY <1>0, <1>1, <1>3, <1>5, <2>1 DEF GenerateHubs
<1>6. CASE GenerateSpokes
  BY <1>0, <1>1, <1>2, <1>3, <1>6 DEF GenerateSpokes
<1>7. CASE StorageHookEnds
  <2>1. \A v \in config.previous \ ToUpdate : Shown(v)
    BY NothingToShow DEF ToUpdate
  <2> QED
    BY <1>0, <1>1, <1>2, <1>7, <2>1 DEF StorageHookEnds, ToUpdate
<1>8. CASE RunEnds
  BY <1>0, <1>1, <1>8 DEF RunEnds
<1>9. CASE Interrupt
  BY <1>0, <1>1, <1>9 DEF Interrupt
<1> QED
  BY <1>4, <1>5, <1>6, <1>7, <1>8, <1>9

LEMMA GenerateTypesKeepsInv ==
    ASSUME LifecycleAssumption, LifecycleInv, GenerateTypes
    PROVE  LifecycleInv'
<1>1. /\ ConfigInv' /\ Known' = Known /\ UNCHANGED config
      /\ CRDStorageVersion' = CRDStorageVersion
  BY RunKeepsConfig DEF GenerateTypes
<1>2. config.version \in ApiVersions
  BY DEF LifecycleInv, ConfigInv, Configs
<1>3. /\ Rendered \in Files /\ Rendered.there
      /\ Rendered.storage = (config.version = CRDStorageVersion)
  BY RenderedShows DEF LifecycleInv
<1>4. files' = [files EXCEPT ![config.version] = Rendered]
  BY DEF GenerateTypes
<1>5. FilesInv'
  BY <1>1, <1>2, <1>3, <1>4, FileReplaced DEF LifecycleInv, FilesInv, Known
<1>6. Right(config.version)'
  BY <1>1, <1>2, <1>3, <1>4, FileReplaced DEF Right
<1>7. Shown(config.version)'
  <2>1. files'[config.version] = Rendered
    BY <1>2, <1>3, <1>4, FileReplaced
  <2> QED
    BY <1>1, <2>1, RenderedShows
       DEF LifecycleInv, Shown, IsVersionDeprecated, GetServedVersions, Known, NoticeIn, Just
<1>8. HookInv' /\ MarkersInv' /\ ShownInv'
  BY <1>1, <1>6, <1>7
     DEF LifecycleInv, HookInv, MarkersInv, ShownInv, After, RunIsAt, Go, Runs, GenerateTypes
<1> QED
  BY <1>1, <1>5, <1>8 DEF LifecycleInv

LEMMA StorageHookKeepsInv ==
    ASSUME LifecycleInv, NEW v \in ApiVersions, UpdateStorageMarker(v)
    PROVE  LifecycleInv'
<1> DEFINE file == [files[v] EXCEPT !.storage = (v = CRDStorageVersion)]
<1>1. /\ ConfigInv' /\ Known' = Known /\ UNCHANGED <<config, nodes>>
      /\ CRDStorageVersion' = CRDStorageVersion /\ CRDHubVersion' = CRDHubVersion
  BY RunKeepsConfig DEF UpdateStorageMarker
<1>2. /\ file \in Files /\ file.there = files[v].there /\ file.storage = (v = CRDStorageVersion)
      /\ file.marks = files[v].marks /\ file.text = files[v].text
  <2>1. files[v] \in Files /\ (v = CRDStorageVersion) \in BOOLEAN
    BY DEF LifecycleInv, FilesInv
  <2> QED
    BY <2>1, StorageReplaced
<1>3. files' = IF ~files[v].there THEN files ELSE [files EXCEPT ![v] = file]
  BY DEF UpdateStorageMarker
<1> HIDE DEF file
<1>4. /\ files' \in [ApiVersions -> Files]
      /\ \A w \in ApiVersions : /\ files'[w].there = files[w].there
                                /\ files'[w].marks = files[w].marks
                                /\ files'[w].text = files[w].text
      /\ \A w \in ApiVersions \ {v} : files'[w] = files[w]
      /\ files[v].there => files'[v].storage = (v = CRDStorageVersion)
  BY <1>2, <1>3 DEF LifecycleInv, FilesInv
<1>5. config.version \in ApiVersions /\ config.previous \in SUBSET ApiVersions
  BY DEF LifecycleInv, ConfigInv, Configs
<1>6. FilesInv' /\ Directories' = Directories
  BY <1>1, <1>4, <1>5 DEF LifecycleInv, FilesInv, Directories
<1>7. \A w \in ApiVersions : Right(w) => Right(w)'
  BY <1>1, <1>4 DEF Right
<1>8. v \in config.previous => Right(v)'
  BY <1>1, <1>4 DEF Right, LifecycleInv, FilesInv
<1>9. \A w \in ApiVersions : Shown(w) => Shown(w)'
  BY <1>1, <1>4 DEF Shown, IsVersionDeprecated, GetServedVersions, Known, NoticeIn, Just, NoDescription
<1>10. HookInv'
  BY <1>1, <1>6 DEF LifecycleInv, HookInv, After, RunIsAt, Go, Runs, UpdateStorageMarker
<1>11. MarkersInv'
  BY <1>1, <1>5, <1>7, <1>8
     DEF LifecycleInv, HookInv, MarkersInv, After, RunIsAt, Go, Runs, UpdateStorageMarker
<1>12. ShownInv'
  BY <1>1, <1>5, <1>9
     DEF LifecycleInv, HookInv, ShownInv, After, RunIsAt, Go, Runs, UpdateStorageMarker
<1> QED
  BY <1>1, <1>6, <1>10, <1>11, <1>12 DEF LifecycleInv

\* The hook has been over a version: it shows what is configured of it.
LEMMA LifecycleHookShows ==
    ASSUME LifecycleAssumption, LifecycleInv, NEW v \in ApiVersions, UpdateLifecycleMarkers(v)
    PROVE  Shown(v)'
<1>1. v \in config.previous /\ v # config.version
  BY DEF LifecycleInv, HookInv, ConfigInv, Configs, ApiVersions, UpdateLifecycleMarkers
<1>2. files[v] \in Files /\ files[v].there
  BY <1>1 DEF LifecycleInv, FilesInv
<1>3. UNCHANGED config
  BY DEF UpdateLifecycleMarkers
<1>4. CASE ~NeedsMarkers(v)
  <2>1. Shown(v)
    BY <1>1, <1>4, NothingToShow DEF LifecycleInv
  <2>2. files'[v] = files[v]
    BY <1>4 DEF UpdateLifecycleMarkers
  <2> QED
    BY <1>3, <2>1, <2>2, ShownKept
<1>5. CASE NeedsMarkers(v)
  <2> DEFINE file == UpdateFileMarkers(v, files[v])
  <2>1. files' = [files EXCEPT ![v] = file]
    BY <1>2, <1>5 DEF UpdateLifecycleMarkers
  <2>2. config.deprecated[v] \in Deprecations \cup {Unset}
    BY DEF LifecycleInv, ConfigInv, Configs
  <2>3. /\ IsVersionDeprecated(v) =>
              /\ Just(file.marks, Deprecations, config.deprecated[v])
              /\ NoticeIn(file.text, v) \/ NoDescription(file.text)
        /\ v \notin GetServedVersions => file.marks["unserved"] = 1
    BY <1>2, <2>2, MarksReplaced
  <2> HIDE DEF file
  <2>4. files'[v] = file
    BY <2>1 DEF LifecycleInv, FilesInv
  <2> QED
    BY <1>1, <1>3, <2>3, <2>4
       DEF Shown, IsVersionDeprecated, GetServedVersions, Known, NoticeIn, Just, NoDescription
<1> QED
  BY <1>4, <1>5

LEMMA LifecycleHookKeepsInv ==
    ASSUME LifecycleAssumption, LifecycleInv, NEW v \in ApiVersions, UpdateLifecycleMarkers(v)
    PROVE  LifecycleInv'
<1> DEFINE file == UpdateFileMarkers(v, files[v])
<1>1. /\ ConfigInv' /\ Known' = Known /\ UNCHANGED <<config, nodes>>
      /\ CRDStorageVersion' = CRDStorageVersion /\ CRDHubVersion' = CRDHubVersion
  BY RunKeepsConfig DEF UpdateLifecycleMarkers
<1>2. file \in Files /\ file.there = files[v].there /\ file.storage = files[v].storage
  BY MarksReplaced DEF LifecycleInv, FilesInv, ConfigInv, Configs
<1>3. files' = IF ~files[v].there \/ ~NeedsMarkers(v) THEN files ELSE [files EXCEPT ![v] = file]
  BY DEF UpdateLifecycleMarkers
<1> HIDE DEF file
<1>4. /\ files' \in [ApiVersions -> Files]
      /\ \A w \in ApiVersions : /\ files'[w].there = files[w].there
                                /\ files'[w].storage = files[w].storage
      /\ \A w \in ApiVersions \ {v} : files'[w] = files[w]
  BY <1>2, <1>3 DEF LifecycleInv, FilesInv
<1>5. config.version \in ApiVersions /\ config.previous \in SUBSET ApiVersions
  BY DEF LifecycleInv, ConfigInv, Configs
<1>6. FilesInv' /\ Directories' = Directories
  BY <1>1, <1>4, <1>5 DEF LifecycleInv, FilesInv, Directories
<1>7. \A w \in ApiVersions : Right(w) => Right(w)'
  BY <1>1, <1>4 DEF Right
<1>8. \A w \in ApiVersions : Shown(w) => Shown(w)'
  BY <1>1, <1>4, ShownKept, LifecycleHookShows
<1>9. HookInv'
  BY <1>1, <1>6 DEF LifecycleInv, HookInv, After, RunIsAt, Go, Runs, UpdateLifecycleMarkers
<1>10. MarkersInv'
  BY <1>1, <1>5, <1>7
     DEF LifecycleInv, HookInv, MarkersInv, After, RunIsAt, Go, Runs, UpdateLifecycleMarkers
<1>11. ShownInv'
  BY <1>1, <1>5, <1>8, LifecycleHookShows
     DEF LifecycleInv, HookInv, ShownInv, After, RunIsAt, Go, Runs, UpdateLifecycleMarkers
<1> QED
  BY <1>1, <1>6, <1>9, <1>10, <1>11 DEF LifecycleInv

--------------------------------------------------------------------------------

LEMMA LifecycleStarts ==
    ASSUME LifecycleAssumption, LifecycleInit
    PROVE  LifecycleInv
<1>1. 1 \in ApiVersions
  BY DEF LifecycleAssumption, ApiVersions
<1>2. ConfigInv
  BY <1>1 DEF LifecycleInit, ConfigInv, Configs
<1>3. FilesInv
  BY NoFileIsFile DEF LifecycleInit, FilesInv
<1>4. HookInv /\ MarkersInv /\ ShownInv
  BY DEF LifecycleInit, HookInv, MarkersInv, ShownInv, After, Runs
<1> QED
  BY <1>2, <1>3, <1>4 DEF LifecycleInv

LEMMA LifecycleGoesOn ==
    ASSUME LifecycleAssumption, LifecycleInv, [LifecycleNext]_lifecycleVars
    PROVE  LifecycleInv'
<1>1. CASE LifecycleNext
  BY <1>1, SettersKeepInv, NewVersionKeepsInv, DropVersionKeepsInv, StepKeepsInv,
     GenerateTypesKeepsInv, StorageHookKeepsInv, LifecycleHookKeepsInv DEF LifecycleNext
<1>2. CASE UNCHANGED lifecycleVars
  <2>1. UNCHANGED <<config, files, nodes, run>>
    BY <1>2 DEF lifecycleVars
  <2> QED
    BY <2>1, RunKeepsConfig, FilesKept DEF LifecycleInv, HookInv, MarkersInv, ShownInv, After
<1> QED
  BY <1>1, <1>2

LEMMA Invariant ==
    ASSUME LifecycleAssumption
    PROVE  LifecycleSpec => []LifecycleInv
<1>1. LifecycleInit => LifecycleInv
  BY LifecycleStarts
<1>2. LifecycleInv /\ [LifecycleNext]_lifecycleVars => LifecycleInv'
  BY LifecycleGoesOn
<1> QED
  BY <1>1, <1>2, PTL DEF LifecycleSpec

(* After a complete run of the pipeline exactly the configured version has the storage marker
   and exactly the configured version is the hub, for any number of versions and any history
   of edits and interrupted runs (newStorageVersionMarkerUpdateHook, PipelineRunner.Run). *)
THEOREM OneStorageVersion ==
    ASSUME LifecycleAssumption
    PROVE  LifecycleSpec => []RolesAsConfigured
<1>1. LifecycleInv => RolesAsConfigured
  BY InvImpliesRoles
<1> QED
  BY <1>1, Invariant, PTL

(* After a complete run every version shows what is configured of its lifecycle: its warning,
   its notice and that it is not served, once each, whatever earlier runs wrote and however
   often the configuration changed between them (updateFileMarkers). *)
THEOREM LifecycleIsShown ==
    ASSUME LifecycleAssumption
    PROVE  LifecycleSpec => []LifecycleShown
<1>1. LifecycleInv => LifecycleShown
  BY DEF LifecycleInv, ShownInv, After, LifecycleShown, Known
<1> QED
  BY <1>1, Invariant, PTL

--------------------------------------------------------------------------------
(* An object that is served in two versions *)

Document(v, fields, ann) == [version |-> v, fields |-> fields, ann |-> ann]

NotePaths == {<<"rules", e, "note">> : e \in Index}

\* A value is one that is meant, but for how it is written.
Same(value, meant) == value.type = meant.type /\ value.number = meant.number

\* The fields of the other version that v has not.
Hidden(i, v) == IF v = "v1" THEN {<<"label">>, <<"uid">>} \cup NotePaths ELSE {<<"tag">>}

Shows(doc, i) ==
    /\ DOMAIN doc.fields = Paths(i, doc.version)
    /\ \A p \in Paths(i, doc.version) : Same(doc.fields[p], Fields(i, doc.version)[p])

Keeps(doc, i) ==
    LET hidden == Hidden(i, doc.version)
        there  == Paths(i, Other(doc.version))
    IN  /\ DOMAIN doc.ann \subseteq {<<"label">>, <<"tag">>, <<"uid">>} \cup NotePaths
        /\ DOMAIN doc.ann \cap hidden = there \cap hidden
        /\ \A p \in there \cap hidden : Same(doc.ann[p], Fields(i, Other(doc.version))[p])

Represents(doc, i) ==
    /\ doc = Document(doc.version, doc.fields, doc.ann)
    /\ doc.version \in ServedVersions
    /\ Expressible(i, doc.version)
    /\ Shows(doc, i) /\ Keeps(doc, i)

ObjectInv ==
    /\ storage \in ServedVersions
    /\ intent \in Intents /\ intent.notes \subseteq intent.rules
    /\ Represents(stored, intent)

--------------------------------------------------------------------------------
(* Paths as they occur *)

SizeP == <<"size">>
TagP  == <<"tag">>
ZoneP == <<"zone">>
LabelP == <<"label">>
RegionP == <<"region">>
UidP  == <<"uid">>
ListP == <<"net", "0", "cidr">>
ObjectP == <<"net", "cidr">>
KeyP(e) == <<"rules", e, "key">>
NoteP(e) == <<"rules", e, "note">>

Lengths ==
    /\ Len(SizeP) = 1 /\ Len(TagP) = 1 /\ Len(ZoneP) = 1 /\ Len(LabelP) = 1 /\ Len(RegionP) = 1
    /\ Len(UidP) = 1 /\ Len(ObjectP) = 2 /\ Len(ListP) = 3
    /\ \A e : Len(KeyP(e)) = 3 /\ Len(NoteP(e)) = 3

LEMMA PathLengths == Lengths
  BY DEF Lengths, SizeP, TagP, ZoneP, LabelP, RegionP, UidP, ListP, ObjectP, KeyP, NoteP

LEMMA PathNames ==
    /\ SizeP[1] = "size" /\ TagP[1] = "tag" /\ ZoneP[1] = "zone" /\ LabelP[1] = "label"
    /\ RegionP[1] = "region" /\ UidP[1] = "uid"
    /\ ObjectP[1] = "net" /\ ObjectP[2] = "cidr"
    /\ ListP[1] = "net" /\ ListP[2] = "0" /\ ListP[3] = "cidr"
    /\ \A e : KeyP(e)[1] = "rules" /\ KeyP(e)[2] = e /\ KeyP(e)[3] = "key"
    /\ \A e : NoteP(e)[1] = "rules" /\ NoteP(e)[2] = e /\ NoteP(e)[3] = "note"
  BY DEF SizeP, TagP, ZoneP, LabelP, RegionP, UidP, ListP, ObjectP, KeyP, NoteP

LEMMA PathsDiffer ==
    /\ SizeP \notin {TagP, ZoneP, LabelP, RegionP, UidP, ListP, ObjectP}
    /\ TagP \notin {ZoneP, LabelP, RegionP, UidP, ListP, ObjectP}
    /\ ZoneP \notin {LabelP, RegionP, UidP, ListP, ObjectP}
    /\ LabelP \notin {RegionP, UidP, ListP, ObjectP}
    /\ RegionP \notin {UidP, ListP, ObjectP}
    /\ UidP \notin {ListP, ObjectP}
    /\ ListP # ObjectP
    /\ \A e : /\ KeyP(e) \notin {SizeP, TagP, ZoneP, LabelP, RegionP, UidP, ListP, ObjectP}
              /\ NoteP(e) \notin {SizeP, TagP, ZoneP, LabelP, RegionP, UidP, ListP, ObjectP}
    /\ \A e, f : /\ KeyP(e) # NoteP(f) 
                 /\ KeyP(e) = KeyP(f) => e = f
                 /\ NoteP(e) = NoteP(f) => e = f
  BY PathLengths, PathNames DEF Lengths

Plain == {SizeP, TagP, ZoneP, LabelP, RegionP, UidP}
AllPaths == Plain \cup {ListP, ObjectP} \cup {KeyP(e) : e \in Index} \cup {NoteP(e) : e \in Index}

LEMMA Expansions1 ==
    /\ \A e : IsExpansionOf(NoteP(e), <<"rules", "*", "note">>)
    /\ \A e : IsExpansionOf(KeyP(e), <<"rules", "*", "key">>)
    /\ IsExpansionOf(ListP, <<"net", "*", "cidr">>)
    /\ IsExpansionOf(ObjectP, <<"net", "cidr">>)
    /\ \A p \in Plain : IsExpansionOf(p, p)
  BY DEF IsExpansionOf, SizeP, TagP, ZoneP, LabelP, RegionP, UidP, ListP, ObjectP, KeyP, NoteP, Plain

LEMMA Expansions2 ==
    /\ \A p, q \in Plain : IsExpansionOf(p, q) => p = q
    /\ \A p \in AllPaths, q \in Plain : IsExpansionOf(p, q) => p = q
    /\ \A p \in AllPaths : IsExpansionOf(p, <<"rules", "*", "note">>) => \E e \in Index : p = NoteP(e)
    /\ \A p \in AllPaths : IsExpansionOf(p, <<"rules", "*", "key">>) => \E e \in Index : p = KeyP(e)
    /\ \A p \in AllPaths : IsExpansionOf(p, <<"net", "*", "cidr">>) => p = ListP
    /\ \A p \in AllPaths : IsExpansionOf(p, <<"net", "cidr">>) => p = ObjectP
  BY DEF IsExpansionOf, SizeP, TagP, ZoneP, LabelP, RegionP, UidP, ListP, ObjectP, KeyP, NoteP, Plain, AllPaths

--------------------------------------------------------------------------------
(* The conversions, in the order in which they are applied *)

LEMMA Joined ==
    ASSUME NEW U, NEW s \in Seq(U), NEW t \in Seq(U)
    PROVE  /\ s \o t \in Seq(U) /\ Len(s \o t) = Len(s) + Len(t)
           /\ \A k \in 1..Len(s) : (s \o t)[k] = s[k]
           /\ \A k \in 1..Len(t) : (s \o t)[Len(s) + k] = t[k]
  OBVIOUS

LEMMA JoinedPair ==
    ASSUME NEW U, NEW s \in Seq(U), NEW n \in Nat, Len(s) = n, NEW a \in U, NEW b \in U,
           NEW t, t = <<a, b>>
    PROVE  /\ s \o t \in Seq(U) /\ Len(s \o t) = n + 2
           /\ \A k \in 1..n : (s \o t)[k] = s[k]
           /\ (s \o t)[n + 1] = a /\ (s \o t)[n + 2] = b
  <1>1. t \in Seq(U)
    OBVIOUS
  <1>2. Len(t) = 2 /\ t[1] = a /\ t[2] = b
    OBVIOUS
  <1>3. /\ s \o t \in Seq(U) /\ Len(s \o t) = Len(s) + Len(t)
        /\ \A k \in 1..Len(s) : (s \o t)[k] = s[k]
        /\ \A k \in 1..Len(t) : (s \o t)[Len(s) + k] = t[k]
    BY ONLY s \in Seq(U), <1>1, Joined
  <1>4. (s \o t)[Len(s) + 1] = t[1] /\ (s \o t)[Len(s) + 2] = t[2]
    <2>1. 1 \in 1..Len(t) /\ 2 \in 1..Len(t)
      BY ONLY <1>2
    <2>. QED
      BY ONLY <1>3, <2>1
  <1>. QED
    BY ONLY <1>2, <1>3, <1>4, n \in Nat, Len(s) = n

From(path) == Conversion("fromAnnotation", "v1", "v2", path, "FromAnnotation")
Back(path) == Conversion("fromAnnotation", "v2", "v1", path, "FromAnnotation")
To(path)   == Conversion("toAnnotation", "v1", "v2", path, "ToAnnotation")
ToOld(path) == Conversion("toAnnotation", "v2", "v1", path, "ToAnnotation")
Reads  == Conversion("type", "v1", "v2", SizeP, "stringToInt")
Writes == Conversion("type", "v2", "v1", SizeP, "intToString")

LEMMA OfChanges ==
    /\ AutoConversions(Changes[1]) = <<From(LabelP), ToOld(LabelP)>>
    /\ AutoConversions(Changes[2]) = <<From(NoteP("*")), ToOld(NoteP("*"))>>
    /\ AutoConversions(Changes[3]) = <<From(UidP), ToOld(UidP)>>
    /\ AutoConversions(Changes[4]) = <<To(TagP), Back(TagP)>>
    /\ AutoConversions(Changes[5]) = <<Reads, Writes>>
  BY DEF AutoConversions, Changes, AutoRegisterExcludePaths, TypeModes, TFType, LabelP, NoteP, UidP,
         TagP, SizeP, From, ToOld, To, Back, Reads, Writes

Registrations(r) ==
    /\ r[1] = From(LabelP)     /\ r[2]  = ToOld(LabelP)
    /\ r[3] = From(NoteP("*")) /\ r[4]  = ToOld(NoteP("*"))
    /\ r[5] = From(UidP)       /\ r[6]  = ToOld(UidP)
    /\ r[7] = To(TagP)         /\ r[8]  = Back(TagP)
    /\ r[9] = Reads            /\ r[10] = Writes

Join(s, t) == s \o t

\* A recursion over sequences that are joined, as there are five of them.
LEMMA JoinedInTurn ==
    ASSUME NEW a
    PROVE  \E f : f = [n \in 0..5 |-> IF n = 0 THEN <<>> ELSE Join(f[n - 1], a[n])]
  <1>1. PICK s1 : s1 = Join(<<>>, a[1])
    OBVIOUS
  <1>2. PICK s2 : s2 = Join(s1, a[2])
    OBVIOUS
  <1>3. PICK s3 : s3 = Join(s2, a[3])
    OBVIOUS
  <1>4. PICK s4 : s4 = Join(s3, a[4])
    OBVIOUS
  <1>5. PICK s5 : s5 = Join(s4, a[5])
    OBVIOUS
  <1> DEFINE g == [n \in 0..5 |-> IF n = 0 THEN <<>> ELSE IF n = 1 THEN s1 ELSE IF n = 2 THEN s2
                                  ELSE IF n = 3 THEN s3 ELSE IF n = 4 THEN s4 ELSE s5]
  <1>6. g[0] = <<>> /\ g[1] = s1 /\ g[2] = s2 /\ g[3] = s3 /\ g[4] = s4 /\ g[5] = s5
    OBVIOUS
  <1>7. \A n \in 0..5 : n = 0 \/ n = 1 \/ n = 2 \/ n = 3 \/ n = 4 \/ n = 5
    OBVIOUS
  <1>8. \A n \in 0..5 : g[n] = IF n = 0 THEN <<>> ELSE Join(g[n - 1], a[n])
    <2> HIDE DEF g
    <2>. QED
      BY <1>1, <1>2, <1>3, <1>4, <1>5, <1>6, <1>7
  <1>9. g = [n \in 0..5 |-> IF n = 0 THEN <<>> ELSE Join(g[n - 1], a[n])]
    BY <1>8
  <1> HIDE DEF g
  <1>. QED
    BY <1>9

LEMMA RegisteredInTurn ==
    \E f : /\ RegisterAutoConversions = f[5] /\ f[0] = <<>>
           /\ f[1] = f[0] \o AutoConversions(Changes[1])
           /\ f[2] = f[1] \o AutoConversions(Changes[2])
           /\ f[3] = f[2] \o AutoConversions(Changes[3])
           /\ f[4] = f[3] \o AutoConversions(Changes[4])
           /\ f[5] = f[4] \o AutoConversions(Changes[5])
  <1> DEFINE A(n) == AutoConversions(Changes[n])
             Is(f) == f = [n \in 0..5 |-> IF n = 0 THEN <<>> ELSE Join(f[n - 1], A(n))]
  <1>1. Len(Changes) = 5
    BY DEF Changes
  <1>2. RegisterAutoConversions = (CHOOSE f : Is(f))[5]
    BY <1>1 DEF RegisterAutoConversions, Join
  <1> HIDE DEF A
  <1>3. \E f : Is(f)
    <2> DEFINE a == [n \in 0..5 |-> A(n)]
    <2>1. PICK f : f = [n \in 0..5 |-> IF n = 0 THEN <<>> ELSE Join(f[n - 1], a[n])]
      BY JoinedInTurn
    <2>2. f = [n \in 0..5 |-> IF n = 0 THEN <<>> ELSE Join(f[n - 1], A(n))]
      BY <2>1
    <2>. QED
      BY <2>2
  <1>4. PICK f : Is(f) /\ RegisterAutoConversions = f[5]
    <2> HIDE DEF Is
    <2>. QED
      BY <1>2, <1>3
  <1>5. f[0] = <<>> /\ \A n \in 1..5 : f[n] = Join(f[n - 1], A(n))
    BY <1>4
  <1>6. f[1] = Join(f[0], A(1)) /\ f[2] = Join(f[1], A(2)) /\ f[3] = Join(f[2], A(3))
    BY <1>5
  <1>7. f[4] = Join(f[3], A(4)) /\ f[5] = Join(f[4], A(5))
    BY <1>5
  <1>. QED
    BY <1>4, <1>5, <1>6, <1>7 DEF A, Join

LEMMA Registered ==
    ASSUME NEW U, {From(LabelP), ToOld(LabelP), From(NoteP("*")), ToOld(NoteP("*")), From(UidP),
                   ToOld(UidP), To(TagP), Back(TagP), Reads, Writes} \subseteq U
    PROVE  /\ RegisterAutoConversions \in Seq(U) /\ Len(RegisterAutoConversions) = 10
           /\ Registrations(RegisterAutoConversions)
  <1>1. PICK f :
           /\ RegisterAutoConversions = f[5] /\ f[0] = <<>>
           /\ f[1] = f[0] \o AutoConversions(Changes[1])
           /\ f[2] = f[1] \o AutoConversions(Changes[2])
           /\ f[3] = f[2] \o AutoConversions(Changes[3])
           /\ f[4] = f[3] \o AutoConversions(Changes[4])
           /\ f[5] = f[4] \o AutoConversions(Changes[5])
    BY RegisteredInTurn
  <1>4. f[0] \in Seq(U) /\ Len(f[0]) = 0
    BY <1>1
  <1>5. f[1] \in Seq(U) /\ Len(f[1]) = 2 /\ f[1][1] = From(LabelP) /\ f[1][2] = ToOld(LabelP)
    BY <1>1, <1>4, OfChanges, JoinedPair
  <1>6. /\ f[2] \in Seq(U) /\ Len(f[2]) = 4 /\ \A k \in 1..2 : f[2][k] = f[1][k]
        /\ f[2][3] = From(NoteP("*")) /\ f[2][4] = ToOld(NoteP("*"))
    BY <1>1, <1>5, OfChanges, JoinedPair
  <1>7. /\ f[3] \in Seq(U) /\ Len(f[3]) = 6 /\ \A k \in 1..4 : f[3][k] = f[2][k]
        /\ f[3][5] = From(UidP) /\ f[3][6] = ToOld(UidP)
    BY <1>1, <1>6, OfChanges, JoinedPair
  <1>8. /\ f[4] \in Seq(U) /\ Len(f[4]) = 8 /\ \A k \in 1..6 : f[4][k] = f[3][k]
        /\ f[4][7] = To(TagP) /\ f[4][8] = Back(TagP)
    BY <1>1, <1>7, OfChanges, JoinedPair
  <1>9. /\ f[5] \in Seq(U) /\ Len(f[5]) = 10 /\ \A k \in 1..8 : f[5][k] = f[4][k]
        /\ f[5][9] = Reads /\ f[5][10] = Writes
    BY <1>1, <1>8, OfChanges, JoinedPair
  <1>10. f[5][9] = Reads /\ f[5][10] = Writes
    BY ONLY <1>9
  <1>11. f[5][7] = To(TagP) /\ f[5][8] = Back(TagP) /\ \A k \in 1..6 : f[5][k] = f[3][k]
    BY ONLY <1>8, <1>9
  <1>12. f[5][5] = From(UidP) /\ f[5][6] = ToOld(UidP) /\ \A k \in 1..4 : f[5][k] = f[2][k]
    BY ONLY <1>7, <1>11
  <1>13. f[5][3] = From(NoteP("*")) /\ f[5][4] = ToOld(NoteP("*")) /\ \A k \in 1..2 : f[5][k] = f[1][k]
    BY ONLY <1>6, <1>12
  <1>14. f[5][1] = From(LabelP) /\ f[5][2] = ToOld(LabelP)
    BY ONLY <1>5, <1>13
  <1>. QED
    BY ONLY <1>1, <1>9, <1>10, <1>11, <1>12, <1>13, <1>14 DEF Registrations

Identity  == Conversion("identity", "*", "*", <<>>, {SizeP, <<"net">>})
ToObject  == Conversion("list", "v1", "v2", <<"net">>, "toEmbeddedObject")
ToList    == Conversion("list", "v2", "v1", <<"net">>, "toSingletonList")
Rename    == Conversion("copy", "v1", "v2", ZoneP, RegionP)
RenameOld == Conversion("copy", "v2", "v1", RegionP, ZoneP)

\* The conversions in their order.
LEMMA ConversionsAre ==
    /\ Len(Conversions) = 15
    /\ Conversions[1]  = Identity
    /\ Conversions[2]  = ToObject         /\ Conversions[3]  = ToList
    /\ Conversions[4]  = Rename           /\ Conversions[5]  = RenameOld
    /\ Conversions[6]  = From(LabelP)     /\ Conversions[7]  = ToOld(LabelP)
    /\ Conversions[8]  = From(NoteP("*")) /\ Conversions[9]  = ToOld(NoteP("*"))
    /\ Conversions[10] = From(UidP)       /\ Conversions[11] = ToOld(UidP)
    /\ Conversions[12] = To(TagP)         /\ Conversions[13] = Back(TagP)
    /\ Conversions[14] = Reads            /\ Conversions[15] = Writes
  <1> DEFINE s == <<Identity, ToObject, ToList, Rename, RenameOld>>
             r == RegisterAutoConversions
             U == {From(LabelP), ToOld(LabelP), From(NoteP("*")), ToOld(NoteP("*")), From(UidP),
                   ToOld(UidP), To(TagP), Back(TagP), Reads, Writes}
                      \cup {Identity, ToObject, ToList, Rename, RenameOld}
  <1>1. TypeChanged \cup {<<"net">>} = {SizeP, <<"net">>}
    BY DEF TypeChanged, Changes, AutoRegisterExcludePaths, SizeP
  <1>2. Conversions = s \o r
    BY <1>1 DEF Conversions, Identity, ToObject, ToList, Rename, RenameOld, ZoneP, RegionP
  <1>3. /\ s \in Seq(U) /\ Len(s) = 5
        /\ s[1] = Identity /\ s[2] = ToObject /\ s[3] = ToList /\ s[4] = Rename /\ s[5] = RenameOld
    OBVIOUS
  <1>4. r \in Seq(U) /\ Len(r) = 10 /\ Registrations(r)
    BY Registered
  <1> HIDE DEF s, r, U
  <1>5. s \in Seq(U) /\ r \in Seq(U)
    BY ONLY <1>3, <1>4
  <1>6. /\ Len(s \o r) = Len(s) + Len(r)
        /\ \A k \in 1..Len(s) : (s \o r)[k] = s[k]
        /\ \A k \in 1..Len(r) : (s \o r)[Len(s) + k] = r[k]
    BY ONLY <1>5, Joined
  <1>7. Len(s) = 5 /\ Len(r) = 10
    BY ONLY <1>3, <1>4
  <1>8. \A k \in 1..5 : Conversions[k] = s[k]
    BY ONLY <1>2, <1>6, <1>7
  <1>9. \A k \in 1..10 : Conversions[5 + k] = r[k]
    BY ONLY <1>2, <1>6, <1>7
  <1>10. /\ Conversions[6] = r[1] /\ Conversions[7] = r[2] /\ Conversions[8] = r[3]
         /\ Conversions[9] = r[4] /\ Conversions[10] = r[5] /\ Conversions[11] = r[6]
         /\ Conversions[12] = r[7] /\ Conversions[13] = r[8] /\ Conversions[14] = r[9]
         /\ Conversions[15] = r[10]
    BY ONLY <1>9
  <1>11. /\ Conversions[1] = Identity /\ Conversions[2] = ToObject /\ Conversions[3] = ToList
         /\ Conversions[4] = Rename /\ Conversions[5] = RenameOld
    BY ONLY <1>3, <1>8
  <1>12. Len(Conversions) = 15
    BY ONLY <1>2, <1>6, <1>7
  <1>. QED
    BY ONLY <1>4, <1>10, <1>11, <1>12 DEF Registrations

--------------------------------------------------------------------------------
(* A stage goes through them *)

Run(after, stage, pair) ==
    /\ after[0] = pair
    /\ \A n \in 1..15 : after[n] = ConvertInStage(stage, Conversions[n], after[n - 1])

LEMMA StageRuns ==
    ASSUME NEW stage, NEW pair
    PROVE  \E after : Run(after, stage, pair) /\ Stage(stage, pair) = after[15]
  <1> DEFINE Step(n, p) == ConvertInStage(stage, Conversions[n], p)
             Is(f, m) == f = [n \in 0..m |-> IF n = 0 THEN pair ELSE Step(n, f[n - 1])]
             T == {m \in Nat : \E f : Is(f, m)}
  <1>1. Stage(stage, pair) = (CHOOSE f : Is(f, 15))[15]
    BY ConversionsAre DEF Stage
  <1> HIDE DEF Step
  <1>2. 0 \in T
    <2>1. Is([n \in 0..0 |-> pair], 0)
      OBVIOUS
    <2>. QED
      BY <2>1
  <1>3. ASSUME NEW m \in Nat, m \in T
        PROVE  m + 1 \in T
    <2>1. PICK f : Is(f, m)
      BY <1>3
    <2> DEFINE g == [n \in 0..(m + 1) |-> IF n <= m THEN f[n] ELSE Step(n, f[m])]
    <2>2. \A n \in 0..m : g[n] = f[n]
      OBVIOUS
    <2>3. g[m + 1] = Step(m + 1, f[m])
      OBVIOUS
    <2>4. \A n \in 0..(m + 1) : g[n] = IF n = 0 THEN pair ELSE Step(n, g[n - 1])
      <3> HIDE DEF g
      <3>1. \A n \in 0..m : f[n] = IF n = 0 THEN pair ELSE Step(n, f[n - 1])
        BY <2>1
      <3> SUFFICES ASSUME NEW n \in 0..(m + 1)
                   PROVE  g[n] = IF n = 0 THEN pair ELSE Step(n, g[n - 1])
        OBVIOUS
      <3>2. CASE n = 0
        BY <2>2, <3>1, <3>2
      <3>3. CASE n \in 1..m
        <4>1. n - 1 \in 0..m /\ n \in 0..m /\ n # 0
          BY <3>3
        <4>. QED
          BY <2>2, <3>1, <4>1
      <3>4. CASE n = m + 1
        BY <2>2, <2>3, <3>4
      <3>. QED
        BY <3>2, <3>3, <3>4
    <2>5. Is(g, m + 1)
      BY <2>4
    <2>6. \E h : Is(h, m + 1)
      <3> HIDE DEF Is, g
      <3>. QED
        BY <2>5
    <2>. QED
      BY <2>6
  <1>4. 15 \in T
    <2> HIDE DEF T
    <2>. QED
      BY <1>2, <1>3, NaturalsByInduction
  <1>5. PICK f : Is(f, 15) /\ Stage(stage, pair) = f[15]
    <2>1. \E f : Is(f, 15)
      BY <1>4
    <2> HIDE DEF Is
    <2>. QED
      BY <1>1, <2>1
  <1>6. f[0] = pair /\ \A n \in 1..15 : f[n] = Step(n, f[n - 1])
    BY <1>5
  <1>. QED
    BY <1>5, <1>6 DEF Run, Step

LEMMA RunUnrolled ==
    ASSUME NEW stage, NEW pair, NEW after, Run(after, stage, pair)
    PROVE  /\ after[0] = pair
           /\ after[1] = ConvertInStage(stage, Conversions[1], after[0])
           /\ after[2] = ConvertInStage(stage, Conversions[2], after[1])
           /\ after[3] = ConvertInStage(stage, Conversions[3], after[2])
           /\ after[4] = ConvertInStage(stage, Conversions[4], after[3])
           /\ after[5] = ConvertInStage(stage, Conversions[5], after[4])
           /\ after[6] = ConvertInStage(stage, Conversions[6], after[5])
           /\ after[7] = ConvertInStage(stage, Conversions[7], after[6])
           /\ after[8] = ConvertInStage(stage, Conversions[8], after[7])
           /\ after[9] = ConvertInStage(stage, Conversions[9], after[8])
           /\ after[10] = ConvertInStage(stage, Conversions[10], after[9])
           /\ after[11] = ConvertInStage(stage, Conversions[11], after[10])
           /\ after[12] = ConvertInStage(stage, Conversions[12], after[11])
           /\ after[13] = ConvertInStage(stage, Conversions[13], after[12])
           /\ after[14] = ConvertInStage(stage, Conversions[14], after[13])
           /\ after[15] = ConvertInStage(stage, Conversions[15], after[14])
  <1> DEFINE Step(n, p) == ConvertInStage(stage, Conversions[n], p)
  <1>1. after[0] = pair /\ \A n \in 1..15 : after[n] = Step(n, after[n - 1])
    BY DEF Run
  <1> HIDE DEF Step
  <1>2. /\ after[1] = Step(1, after[0]) /\ after[2] = Step(2, after[1]) /\ after[3] = Step(3, after[2])
        /\ after[4] = Step(4, after[3]) /\ after[5] = Step(5, after[4]) /\ after[6] = Step(6, after[5])
        /\ after[7] = Step(7, after[6]) /\ after[8] = Step(8, after[7])
    BY <1>1
  <1>3. /\ after[9] = Step(9, after[8]) /\ after[10] = Step(10, after[9]) /\ after[11] = Step(11, after[10])
        /\ after[12] = Step(12, after[11]) /\ after[13] = Step(13, after[12])
        /\ after[14] = Step(14, after[13]) /\ after[15] = Step(15, after[14])
    BY <1>1
  <1>. QED
    BY <1>1, <1>2, <1>3 DEF Step

LEMMA Kinds ==
    /\ Identity.kind = "identity"
    /\ \A n \in 2..15 : Conversions[n].kind # "identity"
  <1>1. /\ Identity.kind = "identity"
        /\ ToObject.kind = "list" /\ ToList.kind = "list" /\ Rename.kind = "copy" /\ RenameOld.kind = "copy"
        /\ Reads.kind = "type" /\ Writes.kind = "type"
    BY DEF Identity, ToObject, ToList, Rename, RenameOld, Reads, Writes, Conversion
  <1>2. \A p : /\ From(p).kind = "fromAnnotation" /\ Back(p).kind = "fromAnnotation"
               /\ To(p).kind = "toAnnotation" /\ ToOld(p).kind = "toAnnotation"
    BY DEF From, Back, To, ToOld, Conversion
  <1>3. \A n \in 2..15 : \/ n = 2 \/ n = 3 \/ n = 4 \/ n = 5 \/ n = 6 \/ n = 7 \/ n = 8 \/ n = 9
                         \/ n = 10 \/ n = 11 \/ n = 12 \/ n = 13 \/ n = 14 \/ n = 15
    OBVIOUS
  <1>. QED
    BY <1>1, <1>2, <1>3, ConversionsAre

\* The first stage applies the identity conversion.
LEMMA FirstStage ==
    ASSUME NEW pair, pair.err = "nil"
    PROVE  Stage("managed", pair) = Convert(Identity, pair)
  <1>1. PICK f : Run(f, "managed", pair) /\ Stage("managed", pair) = f[15]
    BY StageRuns
  <1>2. f[1] = Convert(Identity, pair)
    <2>1. f[0] = pair /\ f[1] = ConvertInStage("managed", Conversions[1], f[0])
      BY <1>1, RunUnrolled
    <2>. QED
      BY <2>1, Kinds, ConversionsAre DEF ConvertInStage
  <1>3. \A n \in 2..15 : f[n] = f[n - 1]
    BY <1>1, Kinds DEF Run, ConvertInStage
  <1>4. /\ f[2] = f[1] /\ f[3] = f[2] /\ f[4] = f[3] /\ f[5] = f[4] /\ f[6] = f[5]
        /\ f[7] = f[6] /\ f[8] = f[7] /\ f[9] = f[8] /\ f[10] = f[9] /\ f[11] = f[10]
    BY <1>3
  <1>5. f[12] = f[11] /\ f[13] = f[12] /\ f[14] = f[13] /\ f[15] = f[14]
    BY <1>3
  <1>. QED
    BY <1>1, <1>2, <1>4, <1>5

--------------------------------------------------------------------------------
(* What each does to a pair *)

Pair(v, S, A, w, F, B) == [src |-> Document(v, S, A), dst |-> Document(w, F, B), err |-> "nil"]

LEMMA PairParts ==
    ASSUME NEW v, NEW S, NEW A, NEW w, NEW F, NEW B
    PROVE  LET pair == Pair(v, S, A, w, F, B)
           IN  /\ pair.err = "nil" /\ pair.src = Document(v, S, A) /\ pair.dst = Document(w, F, B)
               /\ pair.src.version = v /\ pair.src.fields = S /\ pair.src.ann = A
               /\ pair.dst.version = w /\ pair.dst.fields = F /\ pair.dst.ann = B
  BY DEF Pair, Document

LEMMA PairChanges ==
    ASSUME NEW v, NEW S, NEW A, NEW w, NEW F, NEW B, NEW G
    PROVE  LET pair == Pair(v, S, A, w, F, B)
           IN  /\ SetTarget(pair, G) = Pair(v, S, A, w, G, B)
               /\ SetAnnotation(pair, G) = Pair(v, S, A, w, F, G)
               /\ SetSource(pair, G) = Pair(v, G, A, w, F, B)
  <1> DEFINE pair == Pair(v, S, A, w, F, B)
  <1>1. [Document(w, F, B) EXCEPT !.fields = G] = Document(w, G, B)
    BY DEF Document
  <1>2. [Document(w, F, B) EXCEPT !.ann = G] = Document(w, F, G)
    BY DEF Document
  <1>3. [Document(v, S, A) EXCEPT !.fields = G] = Document(v, G, A)
    BY DEF Document
  <1>5. SetTarget(pair, G) = Pair(v, S, A, w, G, B)
    BY <1>1 DEF SetTarget, Pair
  <1>6. SetAnnotation(pair, G) = Pair(v, S, A, w, F, G)
    BY <1>2 DEF SetAnnotation, Pair
  <1>7. SetSource(pair, G) = Pair(v, G, A, w, F, B)
    BY <1>3 DEF SetSource, Pair
  <1>. QED
    BY <1>5, <1>6, <1>7

LEMMA Dispatch ==
    ASSUME NEW kind, NEW from, NEW to, NEW path, NEW how, NEW v, NEW S, NEW A, NEW w, NEW F, NEW B
    PROVE  LET c    == Conversion(kind, from, to, path, how)
               pair == Pair(v, S, A, w, F, B)
           IN  /\ from \notin {"*", v} \/ to \notin {"*", w} => Convert(c, pair) = pair
               /\ from \in {"*", v} /\ to \in {"*", w} =>
                    /\ kind = "identity" => Convert(c, pair) = IdentityConversion(c, pair)
                    /\ kind = "copy" => Convert(c, pair) = FieldCopy(c, pair)
                    /\ kind = "list" => Convert(c, pair) = SingletonListConversion(c, pair)
                    /\ kind = "toAnnotation" => Convert(c, pair) = ConvertToAnnotation(c, pair)
                    /\ kind = "fromAnnotation" => Convert(c, pair) = ConvertFromAnnotation(c, pair)
                    /\ kind = "type" => Convert(c, pair) = FieldTypeConversion(c, pair)
  <1> DEFINE c    == Conversion(kind, from, to, path, how)
             pair == Pair(v, S, A, w, F, B)
  <1>1. c.kind = kind /\ c.from = from /\ c.to = to
    BY DEF Conversion
  <1>2. pair.src.version = v /\ pair.dst.version = w
    BY PairParts
  <1>3. Applicable(c, pair.src, pair.dst) <=> from \in {"*", v} /\ to \in {"*", w}
    BY <1>1, <1>2 DEF Applicable
  <1> HIDE DEF c, pair
  <1>4. ~Applicable(c, pair.src, pair.dst) => Convert(c, pair) = pair
    BY DEF Convert
  <1>5. Applicable(c, pair.src, pair.dst) =>
            /\ kind = "identity" => Convert(c, pair) = IdentityConversion(c, pair)
            /\ kind = "copy" => Convert(c, pair) = FieldCopy(c, pair)
            /\ kind = "list" => Convert(c, pair) = SingletonListConversion(c, pair)
            /\ kind = "toAnnotation" => Convert(c, pair) = ConvertToAnnotation(c, pair)
            /\ kind = "fromAnnotation" => Convert(c, pair) = ConvertFromAnnotation(c, pair)
            /\ kind = "type" => Convert(c, pair) = FieldTypeConversion(c, pair)
    BY <1>1 DEF Convert
  <1>. QED
    BY <1>3, <1>4, <1>5 DEF c, pair

LEMMA Skips ==
    ASSUME NEW S, NEW A, NEW F, NEW B
    PROVE  /\ LET pair == Pair("v1", S, A, "v2", F, B)
              IN  /\ Convert(ToList, pair) = pair /\ Convert(RenameOld, pair) = pair
                  /\ Convert(Writes, pair) = pair
                  /\ \A p : Convert(ToOld(p), pair) = pair /\ Convert(Back(p), pair) = pair
           /\ LET pair == Pair("v2", S, A, "v1", F, B)
              IN  /\ Convert(ToObject, pair) = pair /\ Convert(Rename, pair) = pair
                  /\ Convert(Reads, pair) = pair
                  /\ \A p : Convert(To(p), pair) = pair /\ Convert(From(p), pair) = pair
  BY Dispatch DEF ToList, RenameOld, Writes, ToOld, Back, ToObject, Rename, Reads, To, From

Added(F, A, path)    == Overlay(Restrict(A, ExpandWildcards(A, path)), F)
Replaced(B, S, path) == Overlay(Restrict(S, ExpandWildcards(S, path)), Without(B, ExpandWildcards(B, path)))

\* As Go writes a number.
Written(n) == Text(n, TRUE)

LEMMA AnnotationEffects ==
    ASSUME NEW from, NEW to, NEW path, NEW how, NEW S, NEW A, NEW F, NEW B
    PROVE  /\ Convert(Conversion("fromAnnotation", from, to, path, how), Pair(from, S, A, to, F, B))
                = Pair(from, S, A, to, Added(F, A, path), B)
           /\ Convert(Conversion("toAnnotation", from, to, path, how), Pair(from, S, A, to, F, B))
                = Pair(from, S, A, to, F, Replaced(B, S, path))
  <1> DEFINE pair == Pair(from, S, A, to, F, B)
             c == Conversion("fromAnnotation", from, to, path, how)
             d == Conversion("toAnnotation", from, to, path, how)
  <1>1. c.path = path /\ d.path = path
    BY DEF Conversion
  <1>2. Convert(c, pair) = ConvertFromAnnotation(c, pair) /\ Convert(d, pair) = ConvertToAnnotation(d, pair)
    BY Dispatch
  <1>3. pair.src.fields = S /\ pair.src.ann = A /\ pair.dst.fields = F /\ pair.dst.ann = B
    BY PairParts
  <1>4. \A G : SetTarget(pair, G) = Pair(from, S, A, to, G, B) /\ SetAnnotation(pair, G) = Pair(from, S, A, to, F, G)
    BY PairChanges
  <1> HIDE DEF c, d, pair
  <1>5. Convert(c, pair) = Pair(from, S, A, to, Added(F, A, path), B)
    BY <1>1, <1>2, <1>3, <1>4 DEF ConvertFromAnnotation, Added
  <1>6. Convert(d, pair) = Pair(from, S, A, to, F, Replaced(B, S, path))
    BY <1>1, <1>2, <1>3, <1>4 DEF ConvertToAnnotation, Replaced
  <1>. QED
    BY <1>5, <1>6 DEF c, d, pair

LEMMA FieldEffects ==
    ASSUME NEW from, NEW to, NEW path, NEW how, NEW S, NEW A, NEW F, NEW B, path \in DOMAIN S
    PROVE  /\ Convert(Conversion("copy", from, to, path, how), Pair(from, S, A, to, F, B))
                = Pair(from, S, A, to, With(F, how, S[path]), B)
           /\ Convert(Conversion("type", from, to, path, "intToString"), Pair(from, S, A, to, F, B))
                = Pair(from, S, A, to, With(F, path, Written(S[path].number)), B)
           /\ Convert(Conversion("type", from, to, path, "stringToInt"), Pair(from, S, A, to, F, B))
                = IF S[path].number = NotANumber THEN Errs(Pair(from, S, A, to, F, B))
                  ELSE Pair(from, S, A, to, With(F, path, Number(S[path].number)), B)
  <1> DEFINE pair == Pair(from, S, A, to, F, B)
             c == Conversion("copy", from, to, path, how)
             d == Conversion("type", from, to, path, "intToString")
             e == Conversion("type", from, to, path, "stringToInt")
  <1>1. /\ c.path = path /\ c.how = how
        /\ d.path = path /\ d.how = "intToString"
        /\ e.path = path /\ e.how = "stringToInt"
    BY DEF Conversion
  <1>2. /\ Convert(c, pair) = FieldCopy(c, pair)
        /\ Convert(d, pair) = FieldTypeConversion(d, pair)
        /\ Convert(e, pair) = FieldTypeConversion(e, pair)
    BY Dispatch
  <1>3. pair.src.fields = S /\ pair.src.ann = A /\ pair.dst.fields = F /\ pair.dst.ann = B
    BY PairParts
  <1>4. \A G : SetTarget(pair, G) = Pair(from, S, A, to, G, B)
    BY PairChanges
  <1> HIDE DEF c, d, e, pair
  <1>5. Convert(c, pair) = Pair(from, S, A, to, With(F, how, S[path]), B)
    BY <1>1, <1>2, <1>3, <1>4 DEF FieldCopy
  <1>6. Convert(d, pair) = Pair(from, S, A, to, With(F, path, Written(S[path].number)), B)
    BY <1>1, <1>2, <1>3, <1>4 DEF FieldTypeConversion, Written
  <1>7. Convert(e, pair) = IF S[path].number = NotANumber THEN Errs(pair)
                           ELSE Pair(from, S, A, to, With(F, path, Number(S[path].number)), B)
    BY <1>1, <1>2, <1>3, <1>4 DEF FieldTypeConversion
  <1>. QED
    BY <1>5, <1>6, <1>7 DEF c, d, e, pair

LEMMA PavedSteps ==
    ASSUME NEW v, NEW S, NEW A, NEW w, NEW F, NEW B
    PROVE  LET pair == Pair(v, S, A, w, F, B)
           IN  /\ ConvertInStage("paved", Conversions[1], pair) = pair
               /\ \A n \in 2..15 : ConvertInStage("paved", Conversions[n], pair) = Convert(Conversions[n], pair)
               /\ \A n \in 2..15 : ConvertInStage("paved", Conversions[n], Errs(pair)) = Errs(pair)
  <1> DEFINE pair == Pair(v, S, A, w, F, B)
  <1>1. pair.err = "nil"
    BY PairParts
  <1>2. Errs(pair).err = "error"
    BY DEF Errs, Pair
  <1> HIDE DEF pair
  <1>. QED
    BY <1>1, <1>2, Kinds, ConversionsAre DEF ConvertInStage, pair

\* The other conversions from v1 to v2.
LEMMA ToV2Stage ==
    ASSUME NEW S, NEW A, NEW F, NEW B, NEW M,
           Convert(ToObject, Pair("v1", S, A, "v2", F, B)) = Pair("v1", M, A, "v2", M, B),
           ZoneP \in DOMAIN M, SizeP \in DOMAIN M
    PROVE  LET G == Added(Added(Added(With(M, RegionP, M[ZoneP]), A, LabelP), A, NoteP("*")), A, UidP)
               C == Replaced(B, M, TagP)
           IN  Stage("paved", Pair("v1", S, A, "v2", F, B))
                   = IF M[SizeP].number = NotANumber THEN Errs(Pair("v1", M, A, "v2", G, C))
                     ELSE Pair("v1", M, A, "v2", With(G, SizeP, Number(M[SizeP].number)), C)
  <1> DEFINE P(f, b) == Pair("v1", M, A, "v2", f, b)
             F4 == With(M, RegionP, M[ZoneP])
             F6 == Added(F4, A, LabelP)
             F8 == Added(F6, A, NoteP("*"))
             G  == Added(F8, A, UidP)
             C  == Replaced(B, M, TagP)
             first == Pair("v1", S, A, "v2", F, B)
             last  == IF M[SizeP].number = NotANumber THEN Errs(P(G, C))
                      ELSE P(With(G, SizeP, Number(M[SizeP].number)), C)
  <1>1. PICK f : Run(f, "paved", first) /\ Stage("paved", first) = f[15]
    BY StageRuns
  <1>2. \A n \in 2..15 : \A g, b :
           ConvertInStage("paved", Conversions[n], P(g, b)) = Convert(Conversions[n], P(g, b))
    BY PavedSteps
  <1>3. f[1] = first
    <2>1. f[0] = first /\ f[1] = ConvertInStage("paved", Conversions[1], f[0])
      BY <1>1, RunUnrolled
    <2>. QED
      BY <2>1, PavedSteps
  <1>4. f[2] = P(M, B)
    <2>1. f[2] = ConvertInStage("paved", Conversions[2], f[1])
      BY <1>1, RunUnrolled
    <2>2. f[2] = Convert(ToObject, first)
      BY <1>3, <2>1, PavedSteps, ConversionsAre
    <2>. QED
      BY <2>2
  <1>5. f[4] = P(F4, B)
    <2>1. /\ f[3] = ConvertInStage("paved", Conversions[3], f[2])
          /\ f[4] = ConvertInStage("paved", Conversions[4], f[3])
      BY <1>1, RunUnrolled
    <2>2. Convert(ToList, P(M, B)) = P(M, B)
      BY Skips
    <2>3. Convert(Rename, P(M, B)) = P(F4, B)
      BY FieldEffects DEF Rename
    <2> HIDE DEF P, F4
    <2>. QED
      BY <1>2, <1>4, <2>1, <2>2, <2>3, ConversionsAre
  <1>6. f[6] = P(F6, B)
    <2>1. /\ f[5] = ConvertInStage("paved", Conversions[5], f[4])
          /\ f[6] = ConvertInStage("paved", Conversions[6], f[5])
      BY <1>1, RunUnrolled
    <2>2. Convert(RenameOld, P(F4, B)) = P(F4, B)
      BY Skips
    <2>3. Convert(From(LabelP), P(F4, B)) = P(F6, B)
      BY AnnotationEffects DEF From
    <2> HIDE DEF P, F4, F6
    <2>. QED
      BY <1>2, <1>5, <2>1, <2>2, <2>3, ConversionsAre
  <1>7. f[8] = P(F8, B)
    <2>1. /\ f[7] = ConvertInStage("paved", Conversions[7], f[6])
          /\ f[8] = ConvertInStage("paved", Conversions[8], f[7])
      BY <1>1, RunUnrolled
    <2>2. Convert(ToOld(LabelP), P(F6, B)) = P(F6, B)
      BY Skips
    <2>3. Convert(From(NoteP("*")), P(F6, B)) = P(F8, B)
      BY AnnotationEffects DEF From
    <2> HIDE DEF P, F6, F8
    <2>. QED
      BY <1>2, <1>6, <2>1, <2>2, <2>3, ConversionsAre
  <1>8. f[10] = P(G, B)
    <2>1. /\ f[9] = ConvertInStage("paved", Conversions[9], f[8])
          /\ f[10] = ConvertInStage("paved", Conversions[10], f[9])
      BY <1>1, RunUnrolled
    <2>2. Convert(ToOld(NoteP("*")), P(F8, B)) = P(F8, B)
      BY Skips
    <2>3. Convert(From(UidP), P(F8, B)) = P(G, B)
      BY AnnotationEffects DEF From
    <2> HIDE DEF P, F8, G
    <2>. QED
      BY <1>2, <1>7, <2>1, <2>2, <2>3, ConversionsAre
  <1>9. f[12] = P(G, C)
    <2>1. /\ f[11] = ConvertInStage("paved", Conversions[11], f[10])
          /\ f[12] = ConvertInStage("paved", Conversions[12], f[11])
      BY <1>1, RunUnrolled
    <2>2. Convert(ToOld(UidP), P(G, B)) = P(G, B)
      BY Skips
    <2>3. Convert(To(TagP), P(G, B)) = P(G, C)
      BY AnnotationEffects DEF To
    <2> HIDE DEF P, G, C
    <2>. QED
      BY <1>2, <1>8, <2>1, <2>2, <2>3, ConversionsAre
  <1>10. f[14] = last
    <2>1. /\ f[13] = ConvertInStage("paved", Conversions[13], f[12])
          /\ f[14] = ConvertInStage("paved", Conversions[14], f[13])
      BY <1>1, RunUnrolled
    <2>2. Convert(Back(TagP), P(G, C)) = P(G, C)
      BY Skips
    <2>3. Convert(Reads, P(G, C)) = last
      BY FieldEffects DEF Reads
    <2> HIDE DEF P, G, C, last
    <2>. QED
      BY <1>2, <1>9, <2>1, <2>2, <2>3, ConversionsAre
  <1>11. f[15] = last
    <2>1. f[15] = ConvertInStage("paved", Conversions[15], f[14])
      BY <1>1, RunUnrolled
    <2>2. \A g, b : Convert(Writes, P(g, b)) = P(g, b)
      BY Skips
    <2>3. \A g, b : ConvertInStage("paved", Conversions[15], Errs(P(g, b))) = Errs(P(g, b))
      BY PavedSteps
    <2>4. \A g, b : ConvertInStage("paved", Conversions[15], P(g, b)) = P(g, b)
      BY <1>2, <2>2, ConversionsAre
    <2>. QED
      BY <1>10, <2>1, <2>3, <2>4
  <1>. QED
    BY <1>1, <1>11

\* And from v2 to v1.
LEMMA ToV1Stage ==
    ASSUME NEW S, NEW A, NEW F, NEW B, NEW M,
           Convert(ToList, Pair("v2", S, A, "v1", F, B)) = Pair("v2", M, A, "v1", M, B),
           RegionP \in DOMAIN M, SizeP \in DOMAIN M
    PROVE  LET G == Added(With(M, ZoneP, M[RegionP]), A, TagP)
               C == Replaced(Replaced(Replaced(B, M, LabelP), M, NoteP("*")), M, UidP)
           IN  Stage("paved", Pair("v2", S, A, "v1", F, B))
                   = Pair("v2", M, A, "v1", With(G, SizeP, Written(M[SizeP].number)), C)
  <1> DEFINE P(f, b) == Pair("v2", M, A, "v1", f, b)
             F5 == With(M, ZoneP, M[RegionP])
             B7 == Replaced(B, M, LabelP)
             B9 == Replaced(B7, M, NoteP("*"))
             C  == Replaced(B9, M, UidP)
             G  == Added(F5, A, TagP)
             H  == With(G, SizeP, Written(M[SizeP].number))
             first == Pair("v2", S, A, "v1", F, B)
  <1>1. PICK f : Run(f, "paved", first) /\ Stage("paved", first) = f[15]
    BY StageRuns
  <1>2. \A n \in 2..15 : \A g, b :
           ConvertInStage("paved", Conversions[n], P(g, b)) = Convert(Conversions[n], P(g, b))
    BY PavedSteps
  <1>3. f[1] = first
    <2>1. f[0] = first /\ f[1] = ConvertInStage("paved", Conversions[1], f[0])
      BY <1>1, RunUnrolled
    <2>. QED
      BY <2>1, PavedSteps
  <1>4. f[3] = P(M, B)
    <2>1. /\ f[2] = ConvertInStage("paved", Conversions[2], f[1])
          /\ f[3] = ConvertInStage("paved", Conversions[3], f[2])
      BY <1>1, RunUnrolled
    <2>2. Convert(ToObject, first) = first
      BY Skips
    <2>3. f[2] = first
      BY <1>3, <2>1, <2>2, PavedSteps, ConversionsAre
    <2>4. f[3] = Convert(ToList, first)
      BY <2>1, <2>3, PavedSteps, ConversionsAre
    <2>. QED
      BY <2>4
  <1>5. f[5] = P(F5, B)
    <2>1. /\ f[4] = ConvertInStage("paved", Conversions[4], f[3])
          /\ f[5] = ConvertInStage("paved", Conversions[5], f[4])
      BY <1>1, RunUnrolled
    <2>2. Convert(Rename, P(M, B)) = P(M, B)
      BY Skips
    <2>3. Convert(RenameOld, P(M, B)) = P(F5, B)
      BY FieldEffects DEF RenameOld
    <2> HIDE DEF P, F5
    <2>. QED
      BY <1>2, <1>4, <2>1, <2>2, <2>3, ConversionsAre
  <1>6. f[7] = P(F5, B7)
    <2>1. /\ f[6] = ConvertInStage("paved", Conversions[6], f[5])
          /\ f[7] = ConvertInStage("paved", Conversions[7], f[6])
      BY <1>1, RunUnrolled
    <2>2. Convert(From(LabelP), P(F5, B)) = P(F5, B)
      BY Skips
    <2>3. Convert(ToOld(LabelP), P(F5, B)) = P(F5, B7)
      BY AnnotationEffects DEF ToOld
    <2> HIDE DEF P, F5, B7
    <2>. QED
      BY <1>2, <1>5, <2>1, <2>2, <2>3, ConversionsAre
  <1>7. f[9] = P(F5, B9)
    <2>1. /\ f[8] = ConvertInStage("paved", Conversions[8], f[7])
          /\ f[9] = ConvertInStage("paved", Conversions[9], f[8])
      BY <1>1, RunUnrolled
    <2>2. Convert(From(NoteP("*")), P(F5, B7)) = P(F5, B7)
      BY Skips
    <2>3. Convert(ToOld(NoteP("*")), P(F5, B7)) = P(F5, B9)
      BY AnnotationEffects DEF ToOld
    <2> HIDE DEF P, F5, B7, B9
    <2>. QED
      BY <1>2, <1>6, <2>1, <2>2, <2>3, ConversionsAre
  <1>8. f[11] = P(F5, C)
    <2>1. /\ f[10] = ConvertInStage("paved", Conversions[10], f[9])
          /\ f[11] = ConvertInStage("paved", Conversions[11], f[10])
      BY <1>1, RunUnrolled
    <2>2. Convert(From(UidP), P(F5, B9)) = P(F5, B9)
      BY Skips
    <2>3. Convert(ToOld(UidP), P(F5, B9)) = P(F5, C)
      BY AnnotationEffects DEF ToOld
    <2> HIDE DEF P, F5, B9, C
    <2>. QED
      BY <1>2, <1>7, <2>1, <2>2, <2>3, ConversionsAre
  <1>9. f[13] = P(G, C)
    <2>1. /\ f[12] = ConvertInStage("paved", Conversions[12], f[11])
          /\ f[13] = ConvertInStage("paved", Conversions[13], f[12])
      BY <1>1, RunUnrolled
    <2>2. Convert(To(TagP), P(F5, C)) = P(F5, C)
      BY Skips
    <2>3. Convert(Back(TagP), P(F5, C)) = P(G, C)
      BY AnnotationEffects DEF Back
    <2> HIDE DEF P, F5, G, C
    <2>. QED
      BY <1>2, <1>8, <2>1, <2>2, <2>3, ConversionsAre
  <1>10. f[15] = P(H, C)
    <2>1. /\ f[14] = ConvertInStage("paved", Conversions[14], f[13])
          /\ f[15] = ConvertInStage("paved", Conversions[15], f[14])
      BY <1>1, RunUnrolled
    <2>2. Convert(Reads, P(G, C)) = P(G, C)
      BY Skips
    <2>3. Convert(Writes, P(G, C)) = P(H, C)
      BY FieldEffects DEF Writes
    <2> HIDE DEF P, G, H, C
    <2>. QED
      BY <1>2, <1>9, <2>1, <2>2, <2>3, ConversionsAre
  <1>. QED
    BY <1>1, <1>10

--------------------------------------------------------------------------------
(* The paths of the versions *)

IsIntent(i) ==
    /\ i.rules \subseteq Index /\ i.notes \subseteq Index /\ i.net \subseteq {"0"}
    /\ i.tag \in BOOLEAN /\ i.label \in BOOLEAN
    /\ i.size.type = "string"

KeyPaths == {KeyP(e) : e \in Index}

LEMMA NotePathsAre == NotePaths = {NoteP(e) : e \in Index}
  BY DEF NotePaths, NoteP

LEMMA AllPathsAre ==
    AllPaths = {SizeP, TagP, ZoneP, LabelP, RegionP, UidP, ListP, ObjectP} \cup KeyPaths \cup NotePaths
  BY NotePathsAre DEF AllPaths, Plain, KeyPaths

LEMMA PathsV1 ==
    ASSUME NEW i, IsIntent(i)
    PROVE  \A p : p \in Paths(i, "v1") <=> \/ p = SizeP \/ p = ZoneP
                                           \/ p = TagP /\ i.tag
                                           \/ p = ListP /\ "0" \in i.net
                                           \/ \E e \in i.rules : p = KeyP(e)
  <1>1. \A e \in i.net : e = "0"
    BY DEF IsIntent
  <1>2. Paths(i, "v1") = {SizeP} \cup {KeyP(e) : e \in i.rules} \cup
                            ({ZoneP} \cup {p \in {TagP} : i.tag} \cup {<<"net", e, "cidr">> : e \in i.net})
    BY DEF Paths, SizeP, ZoneP, TagP, KeyP
  <1>3. \A p : p \in {<<"net", e, "cidr">> : e \in i.net} <=> p = ListP /\ "0" \in i.net
    BY <1>1 DEF ListP
  <1>4. \A p : p \in {q \in {TagP} : i.tag} <=> p = TagP /\ i.tag
    BY DEF IsIntent
  <1> DEFINE net == {<<"net", e, "cidr">> : e \in i.net}
             tag == {p \in {TagP} : i.tag}
             keys == {KeyP(e) : e \in i.rules}
  <1>5. \A p : p \in keys <=> \E e \in i.rules : p = KeyP(e)
    OBVIOUS
  <1> HIDE DEF net, tag, keys
  <1>6. \A p : p \in Paths(i, "v1") <=> p = SizeP \/ p \in keys \/ p = ZoneP \/ p \in tag \/ p \in net
    BY <1>2 DEF net, tag, keys
  <1>7. \A p : (p \in tag <=> p = TagP /\ i.tag) /\ (p \in net <=> p = ListP /\ "0" \in i.net)
    BY <1>3, <1>4 DEF net, tag
  <1>. QED
    BY <1>5, <1>6, <1>7

LEMMA PathsV2 ==
    ASSUME NEW i, IsIntent(i)
    PROVE  \A p : p \in Paths(i, "v2") <=> \/ p = SizeP \/ p = RegionP
                                           \/ p = LabelP /\ i.label
                                           \/ p = UidP /\ i.uid # NoUid
                                           \/ p = ObjectP /\ "0" \in i.net
                                           \/ \E e \in i.rules : p = KeyP(e)
                                           \/ \E e \in i.notes : p = NoteP(e)
  <1>1. \A e \in i.net : e = "0"
    BY DEF IsIntent
  <1> DEFINE net == {<<"net", "cidr">> : e \in i.net}
             label == {p \in {LabelP} : i.label}
             uid == {p \in {UidP} : i.uid # NoUid}
             keys == {KeyP(e) : e \in i.rules}
             notes == {NoteP(e) : e \in i.notes}
  <1>2. Paths(i, "v2") = {SizeP} \cup keys \cup ({RegionP} \cup label \cup notes \cup net \cup uid)
    BY DEF Paths, SizeP, RegionP, LabelP, UidP, KeyP, NoteP
  <1>3. \A p : p \in net <=> p = ObjectP /\ "0" \in i.net
    BY <1>1 DEF ObjectP
  <1>4. \A p : p \in label <=> p = LabelP /\ i.label
    BY DEF IsIntent
  <1>5. \A p : p \in uid <=> p = UidP /\ i.uid # NoUid
    OBVIOUS
  <1>6. \A p : (p \in keys <=> \E e \in i.rules : p = KeyP(e)) /\ (p \in notes <=> \E e \in i.notes : p = NoteP(e))
    OBVIOUS
  <1> HIDE DEF net, label, uid, keys, notes
  <1>7. \A p : p \in Paths(i, "v2") <=> \/ p = SizeP \/ p \in keys \/ p = RegionP \/ p \in label
                                        \/ p \in notes \/ p \in net \/ p \in uid
    BY <1>2
  <1>. QED
    BY <1>3, <1>4, <1>5, <1>6, <1>7

LEMMA PathsKnown ==
    ASSUME NEW i, IsIntent(i)
    PROVE  /\ Paths(i, "v1") \subseteq AllPaths \ ({ObjectP, LabelP, RegionP, UidP} \cup NotePaths)
           /\ Paths(i, "v2") \subseteq AllPaths \ {ListP, TagP, ZoneP}
  <1>1. i.rules \subseteq Index /\ i.notes \subseteq Index
    BY DEF IsIntent
  <1>2. Paths(i, "v1") \subseteq AllPaths \ ({ObjectP, LabelP, RegionP, UidP} \cup NotePaths)
    BY <1>1, PathsV1, PathsDiffer, AllPathsAre, NotePathsAre DEF KeyPaths
  <1>3. Paths(i, "v2") \subseteq AllPaths \ {ListP, TagP, ZoneP}
    BY <1>1, PathsV2, PathsDiffer, AllPathsAre, NotePathsAre DEF KeyPaths
  <1>. QED
    BY <1>2, <1>3

KeptIn(v) == IF v = "v1" THEN {SizeP, TagP, ZoneP, ListP} \cup KeyPaths
             ELSE {SizeP, LabelP, RegionP, ObjectP, UidP} \cup KeyPaths \cup NotePaths

\* What the paths of the versions have in common.
LEMMA PathsShared ==
    ASSUME NEW i, IsIntent(i)
    PROVE  /\ {SizeP, ZoneP} \subseteq Paths(i, "v1") /\ {SizeP, RegionP} \subseteq Paths(i, "v2")
           /\ ListP \in Paths(i, "v1") <=> ObjectP \in Paths(i, "v2")
           /\ \A p \in KeyPaths : p \in Paths(i, "v1") <=> p \in Paths(i, "v2")
           /\ \A v \in ServedVersions : Paths(i, v) \subseteq KeptIn(v)
  <1>1. {SizeP, ZoneP} \subseteq Paths(i, "v1") /\ {SizeP, RegionP} \subseteq Paths(i, "v2")
    BY PathsV1, PathsV2
  <1>2. ListP \in Paths(i, "v1") <=> "0" \in i.net
    BY PathsV1, PathsDiffer
  <1>3. ObjectP \in Paths(i, "v2") <=> "0" \in i.net
    BY PathsV2, PathsDiffer
  <1>4. \A e : KeyP(e) \in Paths(i, "v1") <=> \E f \in i.rules : KeyP(e) = KeyP(f)
    BY PathsV1, PathsDiffer
  <1>5. \A e : KeyP(e) \in Paths(i, "v2") <=> \E f \in i.rules : KeyP(e) = KeyP(f)
    BY PathsV2, PathsDiffer
  <1>6. \A e \in i.rules : KeyP(e) \in KeyPaths
    BY DEF KeyPaths, IsIntent
  <1>7. \A e \in i.notes : NoteP(e) \in NotePaths
    BY NotePathsAre DEF IsIntent
  <1>8. Paths(i, "v1") \subseteq KeptIn("v1")
    BY PathsV1, <1>6 DEF KeptIn
  <1>9. Paths(i, "v2") \subseteq KeptIn("v2")
    BY PathsV2, <1>6, <1>7 DEF KeptIn
  <1>. QED
    BY <1>1, <1>2, <1>3, <1>4, <1>5, <1>8, <1>9 DEF KeyPaths, ServedVersions

\* What the type of a version keeps of a document with known paths.
LEMMA TypesKeep ==
    ASSUME NEW G, DOMAIN G \subseteq AllPaths, NEW v \in ServedVersions,
           SizeP \in DOMAIN G => G[SizeP].type = SizeType[v],
           v = "v1" => ObjectP \notin DOMAIN G,
           v = "v2" => ListP \notin DOMAIN G
    PROVE  /\ FromUnstructured(G, v).err = "nil"
           /\ DOMAIN FromUnstructured(G, v).fields = DOMAIN G \cap KeptIn(v)
           /\ \A p \in DOMAIN G \cap KeptIn(v) : FromUnstructured(G, v).fields[p] = G[p]
  <1> DEFINE kept == UNION {ExpandWildcards(G, s) : s \in Schema[v]}
  <1>1. v = "v1" => kept = DOMAIN G \cap KeptIn(v)
    <2>1. kept = UNION {ExpandWildcards(G, s) : s \in Schema[v]}
      OBVIOUS
    <2> HIDE DEF kept
    <2>2. v = "v1" => Schema[v] = {SizeP, TagP, ZoneP, KeyP("*"), <<"net", "*", "cidr">>}
      BY DEF Schema, SizeP, TagP, ZoneP, KeyP
    <2>3. \A p \in DOMAIN G, q \in Plain : p \in ExpandWildcards(G, q) <=> p = q
      BY Expansions1, Expansions2 DEF ExpandWildcards
    <2>4. \A p \in DOMAIN G : p \in ExpandWildcards(G, KeyP("*")) <=> p \in KeyPaths
      BY Expansions1, Expansions2 DEF ExpandWildcards, KeyP, KeyPaths
    <2>5. \A p \in DOMAIN G : p \in ExpandWildcards(G, <<"net", "*", "cidr">>) <=> p = ListP
      BY Expansions1, Expansions2 DEF ExpandWildcards
    <2>6. {SizeP, TagP, ZoneP} \subseteq Plain
      BY DEF Plain
    <2>7. kept \subseteq DOMAIN G
      BY <2>1 DEF ExpandWildcards
    <2>. QED
      BY <2>1, <2>2, <2>3, <2>4, <2>5, <2>6, <2>7 DEF KeptIn
  <1>2. v = "v2" => kept = DOMAIN G \cap KeptIn(v)
    <2>1. kept = UNION {ExpandWildcards(G, s) : s \in Schema[v]}
      OBVIOUS
    <2> HIDE DEF kept
    <2>2. v = "v2" => Schema[v] = {SizeP, LabelP, RegionP, KeyP("*"), NoteP("*"), ObjectP, UidP}
      BY DEF Schema, SizeP, LabelP, RegionP, KeyP, NoteP, ObjectP, UidP
    <2>3. \A p \in DOMAIN G, q \in Plain : p \in ExpandWildcards(G, q) <=> p = q
      BY Expansions1, Expansions2 DEF ExpandWildcards
    <2>4. \A p \in DOMAIN G : p \in ExpandWildcards(G, KeyP("*")) <=> p \in KeyPaths
      BY Expansions1, Expansions2 DEF ExpandWildcards, KeyP, KeyPaths
    <2>5. \A p \in DOMAIN G : p \in ExpandWildcards(G, NoteP("*")) <=> p \in NotePaths
      BY Expansions1, Expansions2, NotePathsAre DEF ExpandWildcards, NoteP
    <2>6. \A p \in DOMAIN G : p \in ExpandWildcards(G, ObjectP) <=> p = ObjectP
      BY Expansions1, Expansions2 DEF ExpandWildcards, ObjectP
    <2>7. {SizeP, LabelP, RegionP, UidP} \subseteq Plain
      BY DEF Plain
    <2>8. kept \subseteq DOMAIN G
      BY <2>1 DEF ExpandWildcards
    <2>. QED
      BY <2>1, <2>2, <2>3, <2>4, <2>5, <2>6, <2>7, <2>8 DEF KeptIn
  <1>3. \A e \in Index : <<"net", e, "cidr">> \in DOMAIN G => <<"net", e, "cidr">> = ListP
    <2>1. \A e : IsExpansionOf(<<"net", e, "cidr">>, <<"net", "*", "cidr">>)
      BY DEF IsExpansionOf
    <2>. QED
      BY <2>1, Expansions2
  <1>4. FromUnstructured(G, v) = [err |-> "nil", fields |-> Restrict(G, kept)]
    <2> HIDE DEF kept
    <2>1. ~(SizeP \in DOMAIN G /\ G[SizeP].type # SizeType[v])
      OBVIOUS
    <2>2. ~(v = "v1" /\ ObjectP \in DOMAIN G)
      OBVIOUS
    <2>3. ~(v = "v2" /\ \E e \in Index : <<"net", e, "cidr">> \in DOMAIN G)
      BY <1>3
    <2>. QED
      BY <2>1, <2>2, <2>3 DEF FromUnstructured, SizeP, ObjectP, kept
  <1>5. kept = DOMAIN G \cap KeptIn(v)
    BY <1>1, <1>2 DEF ServedVersions
  <1> HIDE DEF kept
  <1>. QED
    BY <1>4, <1>5 DEF Restrict

--------------------------------------------------------------------------------
(* Identity and the singleton list, for documents with known paths *)

LEMMA Appended ==
    ASSUME NEW U, NEW s \in Seq(U), NEW b \in U, NEW t \in Seq(U),
           Len(t) = Len(s) + 1, \A k \in 1..Len(s) : t[k] = s[k], t[Len(s) + 1] = b
    PROVE  Append(s, b) = t
  <1> DEFINE v == Append(s, b)
  <1>1. /\ v \in Seq(U) /\ Len(v) = Len(s) + 1 /\ v[Len(s) + 1] = b
        /\ \A k \in 1..Len(s) : v[k] = s[k]
    BY ONLY s \in Seq(U), b \in U, AppendProperties
  <1> HIDE DEF v
  <1>2. Len(s) \in Nat
    OBVIOUS
  <1>3. \A k \in 1..Len(v) : v[k] = t[k]
    BY <1>1, <1>2
  <1>. QED
    BY ONLY <1>1, <1>3, t \in Seq(U), Len(t) = Len(s) + 1, SeqEqual DEF v

LEMMA AppendedToOne ==
    ASSUME NEW a, NEW b
    PROVE  Append(<<a>>, b) = <<a, b>>
  <1> DEFINE U == {a, b}
             s == <<a>>
             t == <<a, b>>
  <1>1. s \in Seq(U) /\ t \in Seq(U) /\ b \in U
    OBVIOUS
  <1>2. Len(s) = 1 /\ Len(t) = 2 /\ s[1] = a /\ t[1] = a /\ t[2] = b
    OBVIOUS
  <1> HIDE DEF U, s, t
  <1>3. Len(t) = Len(s) + 1 /\ (\A k \in 1..Len(s) : t[k] = s[k]) /\ t[Len(s) + 1] = b
    BY ONLY <1>2
  <1>. QED
    BY ONLY <1>1, <1>3, Appended DEF s, t

LEMMA AppendedToTwo ==
    ASSUME NEW a, NEW b, NEW c
    PROVE  Append(<<a, b>>, c) = <<a, b, c>>
  <1> DEFINE U == {a, b, c}
             s == <<a, b>>
             t == <<a, b, c>>
  <1>1. s \in Seq(U) /\ t \in Seq(U) /\ c \in U
    OBVIOUS
  <1>2. Len(s) = 2 /\ Len(t) = 3 /\ s[1] = a /\ s[2] = b /\ t[1] = a /\ t[2] = b /\ t[3] = c
    OBVIOUS
  <1> HIDE DEF U, s, t
  <1>3. Len(t) = Len(s) + 1 /\ (\A k \in 1..Len(s) : t[k] = s[k]) /\ t[Len(s) + 1] = c
    BY ONLY <1>2
  <1>. QED
    BY ONLY <1>1, <1>3, Appended DEF s, t
LEMMA BelowNet ==
    /\ \A p \in AllPaths : Below(p, <<"net">>) <=> p = ListP \/ p = ObjectP
    /\ \A p \in AllPaths : ~Below(p, SizeP) /\ p # <<"net">>
  <1>1. Below(ListP, <<"net">>) /\ Below(ObjectP, <<"net">>)
    <2>1. Len(<<"net">>) = 1 /\ DOMAIN <<"net">> = {1} /\ <<"net">>[1] = "net"
      OBVIOUS
    <2>. QED
      BY <2>1, PathLengths, PathNames DEF Below, Lengths
  <1>2. \A p : Below(p, <<"net">>) => p[1] = "net"
    BY DEF Below
  <1>3. \A p : Below(p, SizeP) => p[1] = "size" /\ Len(p) # 1
    BY DEF Below, SizeP
  <1>4. \A p \in AllPaths : p[1] = "net" => p = ListP \/ p = ObjectP
    BY PathNames DEF AllPaths, Plain
  <1>5. \A p \in AllPaths : p[1] = "size" => Len(p) = 1
    BY PathNames, PathLengths DEF AllPaths, Plain, Lengths
  <1>6. \A p \in AllPaths : p = <<"net">> => Len(p) = 1 /\ p[1] = "net"
    OBVIOUS
  <1>7. Len(ListP) = 3 /\ Len(ObjectP) = 2
    BY PathLengths DEF Lengths
  <1>8. \A p \in AllPaths : Below(p, <<"net">>) <=> p = ListP \/ p = ObjectP
    BY ONLY <1>1, <1>2, <1>4
  <1>9. \A p \in AllPaths : ~Below(p, SizeP)
    BY ONLY <1>3, <1>5
  <1>10. \A p \in AllPaths : p # <<"net">>
    BY ONLY <1>4, <1>6, <1>7
  <1>. QED
    BY ONLY <1>8, <1>9, <1>10

\* The identity conversion succeeds; what it copies is replaced later on.
LEMMA IdentityCopies ==
    ASSUME NEW v \in ServedVersions, NEW w \in ServedVersions, NEW S, NEW A, DOMAIN S \subseteq AllPaths
    PROVE  \E F : Convert(Identity, Pair(v, S, A, w, <<>>, <<>>)) = Pair(v, S, A, w, F, A)
  <1> DEFINE pair == Pair(v, S, A, w, <<>>, <<>>)
             left == {p \in DOMAIN S : \E x \in Identity.how : p = x \/ Below(p, x)}
             rest == Without(S, left)
             copy == FromUnstructured(rest, w)
  <1>1. Convert(Identity, pair) = IdentityConversion(Identity, pair)
    BY Dispatch DEF Identity
  <1>2. Identity.how = {SizeP, <<"net">>}
    BY DEF Identity, Conversion
  <1>3. DOMAIN rest = DOMAIN S \ left
    BY DEF Without, Restrict
  <1>4. DOMAIN rest \subseteq AllPaths /\ SizeP \notin DOMAIN rest /\ ListP \notin DOMAIN rest /\ ObjectP \notin DOMAIN rest
    <2>1. ListP \in AllPaths /\ ObjectP \in AllPaths
      BY AllPathsAre
    <2>. QED
      BY <1>2, <1>3, <2>1, BelowNet
  <1>5. copy.err = "nil"
    <2> HIDE DEF rest
    <2>. QED
      BY <1>4, TypesKeep
  <1>6. pair.src.fields = S /\ pair.src.ann = A /\ pair.dst.version = w
    BY PairParts
  <1>7. IdentityConversion(Identity, pair) = SetAnnotation(SetTarget(pair, copy.fields), A)
    <2> HIDE DEF pair
    <2>. QED
      BY <1>5, <1>6 DEF IdentityConversion
  <1>8. SetAnnotation(SetTarget(pair, copy.fields), A) = Pair(v, S, A, w, copy.fields, A)
    <2> HIDE DEF copy
    <2>1. SetTarget(pair, copy.fields) = Pair(v, S, A, w, copy.fields, <<>>)
      BY PairChanges
    <2>. QED
      BY <2>1, PairChanges
  <1>. QED
    BY <1>1, <1>7, <1>8

\* A document where the item of a list has gone elsewhere.
MovedTo(M, S, from, to) ==
    /\ DOMAIN M = (DOMAIN S \ {from}) \cup {p \in {to} : from \in DOMAIN S}
    /\ \A p \in DOMAIN S \ {from} : M[p] = S[p]
    /\ from \in DOMAIN S => M[to] = S[from]

LEMMA ListBecomesObject ==
    ASSUME NEW S, NEW A, NEW F, NEW B, DOMAIN S \subseteq AllPaths \ {ObjectP}
    PROVE  \E M : /\ MovedTo(M, S, ListP, ObjectP)
                  /\ Convert(ToObject, Pair("v1", S, A, "v2", F, B)) = Pair("v1", M, A, "v2", M, B)
  <1> DEFINE pair == Pair("v1", S, A, "v2", F, B)
             at   == {p \in DOMAIN S : Below(p, <<"net">>)}
             new(p) == Append(<<"net">>, p[Len(p)])
             items == {p[Len(<<"net">>) + 1] : p \in at}
             M == [q \in (DOMAIN S \ at) \cup {new(p) : p \in at} |->
                     IF q \in DOMAIN S \ at THEN S[q] ELSE S[CHOOSE p \in at : new(p) = q]]
  <1>1. Convert(ToObject, pair) = SingletonListConversion(ToObject, pair)
    BY Dispatch DEF ToObject
  <1>2. ToObject.path = <<"net">> /\ ToObject.how = "toEmbeddedObject"
    BY DEF ToObject, Conversion
  <1>3. at = {p \in {ListP} : ListP \in DOMAIN S}
    BY BelowNet
  <1>4. new(ListP) = ObjectP
    <2>1. ListP[Len(ListP)] = "cidr"
      BY PathLengths, PathNames DEF Lengths
    <2>2. Append(<<"net">>, "cidr") = ObjectP
      BY AppendedToOne DEF ObjectP
    <2>. QED
      BY <2>1, <2>2
  <1>5. Cardinality(items) \in {0, 1}
    <2>1. items \subseteq {"0"}
      BY <1>3, PathNames
    <2>2. items = {} \/ items = {"0"}
      BY <2>1
    <2> HIDE DEF items
    <2>3. Cardinality({}) = 0
      BY FS_EmptySet
    <2>4. Cardinality({"0"}) = 1
      BY FS_Singleton
    <2>. QED
      BY <2>2, <2>3, <2>4
  <1>6. pair.src.fields = S
    BY PairParts
  <1>7. SingletonListConversion(ToObject, pair) = SetTarget(SetSource(pair, M), M)
    <2> HIDE DEF pair
    <2>1. ~(Cardinality(items) > 1)
      <3>1. Cardinality(items) \in {0, 1}
        BY <1>5
      <3> HIDE DEF items
      <3>. QED
        BY <3>1
    <2>. QED
      BY <1>2, <1>6, <2>1 DEF SingletonListConversion
  <1>8. SetTarget(SetSource(pair, M), M) = Pair("v1", M, A, "v2", M, B)
    <2> HIDE DEF M
    <2>1. SetSource(pair, M) = Pair("v1", M, A, "v2", F, B)
      BY PairChanges
    <2>. QED
      BY <2>1, PairChanges
  <1>9. MovedTo(M, S, ListP, ObjectP)
    <2> HIDE DEF at, new
    <2>1. {new(p) : p \in at} = {p \in {ObjectP} : ListP \in DOMAIN S}
      BY <1>3, <1>4
    <2>2. DOMAIN S \ at = DOMAIN S \ {ListP}
      BY <1>3
    <2>3. ListP \in DOMAIN S => M[ObjectP] = S[ListP]
      BY <1>3, <1>4, <2>1
    <2>. QED
      BY <2>1, <2>2, <2>3 DEF MovedTo
  <1>. QED
    BY <1>1, <1>7, <1>8, <1>9

LEMMA ObjectBecomesList ==
    ASSUME NEW S, NEW A, NEW F, NEW B, DOMAIN S \subseteq AllPaths \ {ListP}
    PROVE  \E M : /\ MovedTo(M, S, ObjectP, ListP)
                  /\ Convert(ToList, Pair("v2", S, A, "v1", F, B)) = Pair("v2", M, A, "v1", M, B)
  <1> DEFINE pair == Pair("v2", S, A, "v1", F, B)
             at   == {p \in DOMAIN S : Below(p, <<"net">>)}
             new(p) == Append(Append(<<"net">>, "0"), p[Len(p)])
             M == [q \in (DOMAIN S \ at) \cup {new(p) : p \in at} |->
                     IF q \in DOMAIN S \ at THEN S[q] ELSE S[CHOOSE p \in at : new(p) = q]]
  <1>1. Convert(ToList, pair) = SingletonListConversion(ToList, pair)
    BY Dispatch DEF ToList
  <1>2. ToList.path = <<"net">> /\ ToList.how = "toSingletonList"
    BY DEF ToList, Conversion
  <1>3. at = {p \in {ObjectP} : ObjectP \in DOMAIN S}
    BY BelowNet
  <1>4. new(ObjectP) = ListP
    <2>1. ObjectP[Len(ObjectP)] = "cidr"
      BY PathLengths, PathNames DEF Lengths
    <2>2. Append(<<"net">>, "0") = <<"net", "0">> /\ Append(<<"net", "0">>, "cidr") = ListP
      BY AppendedToOne, AppendedToTwo DEF ListP
    <2>. QED
      BY <2>1, <2>2
  <1>6. pair.src.fields = S
    BY PairParts
  <1>7. SingletonListConversion(ToList, pair) = SetTarget(SetSource(pair, M), M)
    <2> HIDE DEF pair
    <2>. QED
      BY <1>2, <1>6 DEF SingletonListConversion
  <1>8. SetTarget(SetSource(pair, M), M) = Pair("v2", M, A, "v1", M, B)
    <2> HIDE DEF M
    <2>1. SetSource(pair, M) = Pair("v2", M, A, "v1", F, B)
      BY PairChanges
    <2>. QED
      BY <2>1, PairChanges
  <1>9. MovedTo(M, S, ObjectP, ListP)
    <2> HIDE DEF at, new
    <2>1. {new(p) : p \in at} = {p \in {ListP} : ObjectP \in DOMAIN S}
      BY <1>3, <1>4
    <2>2. DOMAIN S \ at = DOMAIN S \ {ObjectP}
      BY <1>3
    <2>3. ObjectP \in DOMAIN S => M[ListP] = S[ObjectP]
      BY <1>3, <1>4, <2>1
    <2>. QED
      BY <2>1, <2>2, <2>3 DEF MovedTo
  <1>. QED
    BY <1>1, <1>7, <1>8, <1>9

--------------------------------------------------------------------------------
(* A conversion keeps what the object is meant to be *)

LEMMA Others == Other("v1") = "v2" /\ Other("v2") = "v1"
  BY DEF Other, ServedVersions

LEMMA ValuesAre ==
    ASSUME NEW n
    PROVE  /\ Number(n).type = "number" /\ Number(n).number = n
           /\ Written(n).type = "string" /\ Written(n).number = n
  BY DEF Number, Written, Text

LEMMA FieldsAre ==
    ASSUME NEW i, NEW v
    PROVE  /\ SizeP \in Paths(i, v) => Fields(i, v)[SizeP] = SizeIn(i, v)
           /\ UidP \in Paths(i, v) => Fields(i, v)[UidP] = Uid(i.uid)
           /\ \A p \in Paths(i, v) \ {SizeP, UidP} : Fields(i, v)[p] = Name
  BY PathsDiffer DEF Fields, SizeP, UidP

Those(path) == IF path = NoteP("*") THEN NotePaths ELSE {path}

LEMMA ExpandsTo ==
    ASSUME NEW f, DOMAIN f \subseteq AllPaths, NEW path \in Plain \cup {NoteP("*")}
    PROVE  ExpandWildcards(f, path) = DOMAIN f \cap Those(path)
  <1>1. CASE path = NoteP("*")
    <2>1. \A p \in DOMAIN f : IsExpansionOf(p, NoteP("*")) <=> p \in NotePaths
      BY Expansions1, Expansions2, NotePathsAre DEF NoteP
    <2>. QED
      BY <1>1, <2>1 DEF ExpandWildcards, Those
  <1>2. CASE path \in Plain /\ path # NoteP("*")
    <2>1. \A p \in DOMAIN f : IsExpansionOf(p, path) <=> p = path
      BY <1>2, Expansions1, Expansions2
    <2>. QED
      BY <1>2, <2>1 DEF ExpandWildcards, Those
  <1>. QED
    BY <1>1, <1>2

LEMMA ThosePaths ==
    /\ Those(LabelP) = {LabelP} /\ Those(UidP) = {UidP} /\ Those(TagP) = {TagP}
    /\ Those(NoteP("*")) = NotePaths
    /\ {LabelP, UidP, TagP} \subseteq Plain
  BY PathsDiffer DEF Those, Plain

NewFields == {LabelP, UidP} \cup NotePaths

LEMMA NewFieldsDiffer == {SizeP, TagP, ZoneP, RegionP, ListP, ObjectP} \cap NewFields = {} /\ KeyPaths \cap NewFields = {}
  BY PathsDiffer, NotePathsAre DEF NewFields, KeyPaths

InV2(M, A) == Added(Added(Added(With(M, RegionP, M[ZoneP]), A, LabelP), A, NoteP("*")), A, UidP)

IsInV2(H, M, A, size) ==
    /\ DOMAIN H = DOMAIN M \cup {RegionP, SizeP} \cup (DOMAIN A \cap NewFields)
    /\ H[SizeP] = size /\ H[RegionP] = M[ZoneP]
    /\ \A p \in DOMAIN A \cap NewFields : H[p] = A[p]
    /\ \A p \in DOMAIN M \ ({SizeP, RegionP} \cup NewFields) : H[p] = M[p]

LEMMA FieldsInV2 ==
    ASSUME NEW M, NEW A, DOMAIN A \subseteq AllPaths, NEW size
    PROVE  IsInV2(With(InV2(M, A), SizeP, size), M, A, size)
  <1> DEFINE F  == With(M, RegionP, M[ZoneP])
             G1 == Added(F, A, LabelP)
             G2 == Added(G1, A, NoteP("*"))
             G  == Added(G2, A, UidP)
             H  == With(G, SizeP, size)
  <1>1. /\ DOMAIN F = DOMAIN M \cup {RegionP} /\ F[RegionP] = M[ZoneP]
        /\ \A p \in DOMAIN M \ {RegionP} : F[p] = M[p]
    BY DEF With
  <1> HIDE DEF F
  <1>2. /\ DOMAIN G1 = DOMAIN F \cup (DOMAIN A \cap {LabelP})
        /\ \A p \in DOMAIN A \cap {LabelP} : G1[p] = A[p]
        /\ \A p \in DOMAIN F \ (DOMAIN A \cap {LabelP}) : G1[p] = F[p]
    BY ExpandsTo, ThosePaths DEF Added, Overlay, Restrict
  <1> HIDE DEF G1
  <1>3. /\ DOMAIN G2 = DOMAIN G1 \cup (DOMAIN A \cap NotePaths)
        /\ \A p \in DOMAIN A \cap NotePaths : G2[p] = A[p]
        /\ \A p \in DOMAIN G1 \ (DOMAIN A \cap NotePaths) : G2[p] = G1[p]
    BY ExpandsTo, ThosePaths DEF Added, Overlay, Restrict
  <1> HIDE DEF G2
  <1>4. /\ DOMAIN G = DOMAIN G2 \cup (DOMAIN A \cap {UidP})
        /\ \A p \in DOMAIN A \cap {UidP} : G[p] = A[p]
        /\ \A p \in DOMAIN G2 \ (DOMAIN A \cap {UidP}) : G[p] = G2[p]
    BY ExpandsTo, ThosePaths DEF Added, Overlay, Restrict
  <1> HIDE DEF G
  <1>5. DOMAIN H = DOMAIN G \cup {SizeP} /\ H[SizeP] = size /\ \A p \in DOMAIN G \ {SizeP} : H[p] = G[p]
    BY DEF With
  <1> HIDE DEF H
  <1>6. DOMAIN H = DOMAIN M \cup {RegionP, SizeP} \cup (DOMAIN A \cap NewFields)
    BY <1>1, <1>2, <1>3, <1>4, <1>5 DEF NewFields
  <1>7. SizeP \notin NewFields /\ RegionP \notin NewFields /\ RegionP # SizeP
    BY NewFieldsDiffer, PathsDiffer
  <1>8. H[RegionP] = M[ZoneP]
    BY <1>1, <1>2, <1>3, <1>4, <1>5, <1>7 DEF NewFields
  <1>9. \A p \in DOMAIN A \cap NewFields : H[p] = A[p]
    <2>1. \A p \in NotePaths : p # LabelP /\ p # UidP
      BY PathsDiffer, NotePathsAre
    <2>2. \A p \in DOMAIN A \cap NotePaths : H[p] = A[p]
      BY <1>3, <1>4, <1>5, <1>7, <2>1 DEF NewFields
    <2>3. LabelP \in DOMAIN A => H[LabelP] = A[LabelP]
      BY <1>2, <1>3, <1>4, <1>5, <1>7, <2>1, PathsDiffer DEF NewFields
    <2>4. UidP \in DOMAIN A => H[UidP] = A[UidP]
      BY <1>4, <1>5, <1>7 DEF NewFields
    <2>. QED
      BY <2>2, <2>3, <2>4 DEF NewFields
  <1>10. \A p \in DOMAIN M \ ({SizeP, RegionP} \cup NewFields) : H[p] = M[p]
    BY <1>1, <1>2, <1>3, <1>4, <1>5 DEF NewFields
  <1>. QED
    BY <1>5, <1>6, <1>8, <1>9, <1>10 DEF F, G1, G2, G, H, IsInV2, InV2

LEMMA AnnotationInV2 ==
    ASSUME NEW B, NEW M, DOMAIN B \subseteq AllPaths, DOMAIN M \subseteq AllPaths
    PROVE  LET C == Replaced(B, M, TagP)
           IN  /\ DOMAIN C = (DOMAIN B \ {TagP}) \cup (DOMAIN M \cap {TagP})
               /\ TagP \in DOMAIN M => C[TagP] = M[TagP]
  BY ExpandsTo, ThosePaths DEF Replaced, Overlay, Restrict, Without

\* A document of v1 that is converted to v2.
LEMMA ToV2 ==
    ASSUME NEW i, IsIntent(i), NEW doc, Represents(doc, i), doc.version = "v1"
    PROVE  IF Expressible(i, "v2") THEN Represents(RoundTrip(doc, "v2"), i) /\ RoundTrip(doc, "v2").version = "v2"
           ELSE RoundTrip(doc, "v2") = Failed
  <1> DEFINE S == doc.fields
             A == doc.ann
             n == i.size.number
             start == Pair("v1", S, A, "v2", <<>>, <<>>)
             ends  == Stage("paved", Stage("managed", start))
             result == FromUnstructured(ends.dst.fields, "v2")
  <1>1. /\ DOMAIN S = Paths(i, "v1")
        /\ \A p \in Paths(i, "v1") : Same(S[p], Fields(i, "v1")[p])
    BY DEF Represents, Shows
  <1>2. /\ DOMAIN A \subseteq {LabelP, TagP, UidP} \cup NotePaths
        /\ DOMAIN A \cap NewFields = Paths(i, "v2") \cap NewFields
        /\ \A p \in Paths(i, "v2") \cap NewFields : Same(A[p], Fields(i, "v2")[p])
    BY Others DEF Represents, Keeps, Hidden, NewFields, LabelP, TagP, UidP
  <1>3. DOMAIN S \subseteq AllPaths \ ({ObjectP, LabelP, RegionP, UidP} \cup NotePaths)
    BY <1>1, PathsKnown
  <1>4. DOMAIN A \subseteq AllPaths
    BY <1>2, AllPathsAre
  <1>5. RoundTrip(doc, "v2") = IF ends.err = "nil" /\ result.err = "nil"
                               THEN [ends.dst EXCEPT !.fields = result.fields] ELSE Failed
    <2>1. [src |-> doc, dst |-> [version |-> "v2", fields |-> <<>>, ann |-> <<>>], err |-> "nil"] = start
      BY DEF Represents, Pair, Document
    <2>. QED
      BY <2>1 DEF RoundTrip
  <1>6. PICK F : Stage("managed", start) = Pair("v1", S, A, "v2", F, A)
    <2>1. start.err = "nil"
      BY PairParts
    <2>2. Stage("managed", start) = Convert(Identity, start)
      BY <2>1, FirstStage
    <2>3. \E F : Convert(Identity, start) = Pair("v1", S, A, "v2", F, A)
      BY <1>3, IdentityCopies DEF ServedVersions
    <2>. QED
      BY <2>2, <2>3
  <1>7. PICK M : /\ MovedTo(M, S, ListP, ObjectP)
                 /\ Convert(ToObject, Pair("v1", S, A, "v2", F, A)) = Pair("v1", M, A, "v2", M, A)
    BY <1>3, ListBecomesObject
  <1>8. /\ ZoneP \in DOMAIN M /\ SizeP \in DOMAIN M /\ M[ZoneP] = S[ZoneP] /\ M[SizeP] = S[SizeP]
        /\ ZoneP \in Paths(i, "v1") /\ SizeP \in Paths(i, "v1")
    <2>1. ZoneP \in Paths(i, "v1") /\ SizeP \in Paths(i, "v1")
      BY PathsV1
    <2>. QED
      BY <1>1, <1>7, <2>1, PathsDiffer DEF MovedTo
  <1>9. S[SizeP].number = n
    BY <1>1, <1>8, FieldsAre DEF Same, SizeIn
  <1> DEFINE G == InV2(M, A)
             C == Replaced(A, M, TagP)
             H == With(G, SizeP, Number(n))
  <1>10. ends = IF n = NotANumber THEN Errs(Pair("v1", M, A, "v2", G, C)) ELSE Pair("v1", M, A, "v2", H, C)
    <2> HIDE DEF G, C, start
    <2>. QED
      BY <1>6, <1>7, <1>8, <1>9, ToV2Stage DEF G, C, InV2
  <1>11. CASE n = NotANumber
    <2>1. ends.err = "error"
      BY <1>10, <1>11 DEF Errs, Pair
    <2>2. ~Expressible(i, "v2")
      BY <1>11 DEF Expressible
    <2> HIDE DEF ends
    <2>. QED
      BY <1>5, <2>1, <2>2
  <1>12. CASE n # NotANumber
    <2> DEFINE new == FromUnstructured(H, "v2").fields
    <2>1. IsInV2(H, M, A, Number(n))
      BY <1>4, FieldsInV2
    <2>2. /\ DOMAIN C = (DOMAIN A \ {TagP}) \cup (DOMAIN M \cap {TagP})
          /\ TagP \in DOMAIN M => C[TagP] = M[TagP]
      <3>1. DOMAIN M \subseteq AllPaths
        BY <1>3, <1>7, AllPathsAre DEF MovedTo
      <3>. QED
        BY <1>4, <3>1, AnnotationInV2
    <2>3. ends = Pair("v1", M, A, "v2", H, C)
      BY <1>10, <1>12
    <2> HIDE DEF ends, H, C, G
    <2>4. /\ FromUnstructured(H, "v2").err = "nil"
          /\ DOMAIN new = DOMAIN H \cap KeptIn("v2")
          /\ \A p \in DOMAIN H \cap KeptIn("v2") : new[p] = H[p]
      <3>1. DOMAIN H \subseteq AllPaths /\ ListP \notin DOMAIN H
        BY <1>3, <1>4, <1>7, <2>1, AllPathsAre, NewFieldsDiffer, PathsDiffer DEF MovedTo, IsInV2
      <3>2. H[SizeP].type = SizeType["v2"]
        BY <2>1, ValuesAre DEF SizeType, IsInV2
      <3>. QED
        BY <3>1, <3>2, TypesKeep DEF ServedVersions
    <2>5. RoundTrip(doc, "v2") = Document("v2", new, C)
      <3>1. ends.err = "nil" /\ ends.dst = Document("v2", H, C) /\ ends.dst.fields = H
        BY <2>3, PairParts
      <3>2. [Document("v2", H, C) EXCEPT !.fields = new] = Document("v2", new, C)
        BY DEF Document
      <3>. QED
        BY <1>5, <2>4, <3>1, <3>2
    <2> HIDE DEF new
    <2>6. DOMAIN new = Paths(i, "v2")
      <3>1. KeptIn("v2") = {SizeP, RegionP, ObjectP} \cup KeyPaths \cup NewFields
        BY DEF KeptIn, NewFields
      <3>2. Paths(i, "v2") \subseteq KeptIn("v2")
        BY PathsShared DEF ServedVersions
      <3>3. \A p \in NewFields : p \in DOMAIN M => p \in Paths(i, "v2")
        BY <1>3, <1>7, NewFieldsDiffer DEF MovedTo, NewFields
      <3>4. \A p \in NewFields : p \in DOMAIN H <=> p \in Paths(i, "v2")
        BY <1>2, <2>1, <3>3, NewFieldsDiffer DEF IsInV2
      <3>5. \A p \in {SizeP, RegionP} : p \in DOMAIN H /\ p \in Paths(i, "v2")
        BY <2>1, PathsShared DEF IsInV2
      <3>6. ObjectP \in DOMAIN H <=> ObjectP \in Paths(i, "v2")
        <4>1. ObjectP \in DOMAIN M <=> ListP \in DOMAIN S
          BY <1>3, <1>7 DEF MovedTo
        <4>2. ObjectP \in DOMAIN H <=> ObjectP \in DOMAIN M
          BY <2>1, NewFieldsDiffer, PathsDiffer DEF IsInV2
        <4>. QED
          BY <1>1, <4>1, <4>2, PathsShared
      <3>7. \A p \in KeyPaths : p \in DOMAIN H <=> p \in Paths(i, "v2")
        <4>1. \A p \in KeyPaths : p \notin {ListP, ObjectP, SizeP, RegionP} /\ p \notin NewFields
          BY NewFieldsDiffer, PathsDiffer DEF KeyPaths
        <4>2. \A p \in KeyPaths : p \in DOMAIN M <=> p \in DOMAIN S
          BY <1>7, <4>1 DEF MovedTo
        <4>3. \A p \in KeyPaths : p \in DOMAIN H <=> p \in DOMAIN M
          BY <2>1, <4>1 DEF IsInV2
        <4>. QED
          BY <1>1, <4>2, <4>3, PathsShared
      <3>. QED
        BY <2>4, <3>1, <3>2, <3>4, <3>5, <3>6, <3>7
    <2>7. \A p \in Paths(i, "v2") : Same(new[p], Fields(i, "v2")[p])
      <3>1. \A p \in Paths(i, "v2") : new[p] = H[p]
        BY <2>4, <2>6
      <3>2. SizeP \in Paths(i, "v2") /\ RegionP \in Paths(i, "v2")
        BY PathsShared
      <3>3. Same(H[SizeP], Fields(i, "v2")[SizeP])
        <4>1. Fields(i, "v2")[SizeP] = Number(n)
          BY <3>2, FieldsAre DEF SizeIn
        <4>2. H[SizeP] = Number(n)
          BY <2>1 DEF IsInV2
        <4>. QED
          BY <4>1, <4>2 DEF Same
      <3>4. \A p \in Paths(i, "v2") \cap NewFields : Same(H[p], Fields(i, "v2")[p])
        BY <1>2, <2>1 DEF IsInV2
      <3>5. \A p \in Paths(i, "v2") \ {SizeP, UidP} : Fields(i, "v2")[p] = Name
        BY FieldsAre
      <3>6. \A p \in Paths(i, "v1") \ {SizeP, UidP} : Same(S[p], Name)
        BY <1>1, FieldsAre
      <3>7. Same(H[RegionP], Name)
        <4>1. H[RegionP] = S[ZoneP]
          BY <1>8, <2>1 DEF IsInV2
        <4>. QED
          BY <1>8, <3>6, <4>1, PathsDiffer
      <3>8. ObjectP \in Paths(i, "v2") => Same(H[ObjectP], Name)
        <4>1. ObjectP \in Paths(i, "v2") => ListP \in Paths(i, "v1")
          BY PathsShared
        <4>2. ListP \in Paths(i, "v1") => ObjectP \in DOMAIN M /\ M[ObjectP] = S[ListP]
          BY <1>1, <1>7 DEF MovedTo
        <4>3. ObjectP \notin {SizeP, RegionP} \cup NewFields
          BY NewFieldsDiffer, PathsDiffer
        <4>4. ListP \in Paths(i, "v1") => H[ObjectP] = S[ListP]
          BY <2>1, <4>2, <4>3 DEF IsInV2
        <4>. QED
          BY <3>6, <4>1, <4>4, PathsDiffer
      <3>9. \A p \in Paths(i, "v2") \cap KeyPaths : Same(H[p], Name)
        <4>1. \A p \in KeyPaths : p \notin {ListP, ObjectP, SizeP, RegionP, UidP} /\ p \notin NewFields
          BY NewFieldsDiffer, PathsDiffer DEF KeyPaths
        <4>2. \A p \in Paths(i, "v2") \cap KeyPaths : p \in Paths(i, "v1")
          BY PathsShared
        <4>3. \A p \in Paths(i, "v1") \cap KeyPaths : p \in DOMAIN M /\ M[p] = S[p]
          BY <1>1, <1>7, <4>1 DEF MovedTo
        <4>4. \A p \in Paths(i, "v1") \cap KeyPaths : H[p] = S[p]
          BY <2>1, <4>1, <4>3 DEF IsInV2
        <4>. QED
          BY <3>6, <4>1, <4>2, <4>4
      <3>10. \A p \in Paths(i, "v2") : p \in {SizeP, RegionP, ObjectP} \cup KeyPaths \cup NewFields
        BY PathsShared DEF KeptIn, NewFields, ServedVersions
      <3>11. UidP \in NewFields
        BY DEF NewFields
      <3>12. \A p \in Paths(i, "v2") : Same(H[p], Fields(i, "v2")[p])
        BY <3>3, <3>4, <3>5, <3>7, <3>8, <3>9, <3>10, <3>11
      <3>. QED
        BY <3>1, <3>12
    <2>8. /\ DOMAIN C \subseteq {LabelP, TagP, UidP} \cup NotePaths
          /\ DOMAIN C \cap {TagP} = Paths(i, "v1") \cap {TagP}
          /\ \A p \in Paths(i, "v1") \cap {TagP} : Same(C[p], Fields(i, "v1")[p])
      <3>1. \A p \in {TagP} : p \in DOMAIN M <=> p \in Paths(i, "v1")
        BY <1>1, <1>7, PathsDiffer DEF MovedTo
      <3>2. TagP \in DOMAIN M => M[TagP] = S[TagP]
        BY <1>7, PathsDiffer DEF MovedTo
      <3>3. DOMAIN C \subseteq {LabelP, TagP, UidP} \cup NotePaths
        BY <1>2, <2>2
      <3>4. DOMAIN C \cap {TagP} = Paths(i, "v1") \cap {TagP}
        BY <2>2, <3>1
      <3>5. TagP \in Paths(i, "v1") => Same(C[TagP], Fields(i, "v1")[TagP])
        BY <1>1, <2>2, <3>1, <3>2
      <3>. QED
        BY <3>3, <3>4, <3>5
    <2>9. Expressible(i, "v2")
      BY <1>12 DEF Expressible
    <2>10. Represents(Document("v2", new, C), i)
      <3> DEFINE d == Document("v2", new, C)
      <3>1. d.version = "v2" /\ d.fields = new /\ d.ann = C
        BY DEF Document
      <3> HIDE DEF d
      <3>2. Shows(d, i)
        BY <2>6, <2>7, <3>1 DEF Shows
      <3>3. Keeps(d, i)
        BY <2>8, <3>1, Others DEF Keeps, Hidden, LabelP, TagP, UidP
      <3>. QED
        BY <2>9, <3>1, <3>2, <3>3 DEF Represents, ServedVersions, d
    <2>. QED
      BY <2>5, <2>9, <2>10 DEF Document
  <1>. QED
    BY <1>11, <1>12

InV1(M, A) == Added(With(M, ZoneP, M[RegionP]), A, TagP)

IsInV1(H, M, A, size) ==
    /\ DOMAIN H = DOMAIN M \cup {ZoneP, SizeP} \cup (DOMAIN A \cap {TagP})
    /\ H[SizeP] = size /\ H[ZoneP] = M[RegionP]
    /\ TagP \in DOMAIN A => H[TagP] = A[TagP]
    /\ \A p \in DOMAIN M \ {SizeP, ZoneP, TagP} : H[p] = M[p]

LEMMA FieldsInV1 ==
    ASSUME NEW M, NEW A, DOMAIN A \subseteq AllPaths, NEW size
    PROVE  IsInV1(With(InV1(M, A), SizeP, size), M, A, size)
  <1> DEFINE F == With(M, ZoneP, M[RegionP])
             G == Added(F, A, TagP)
             H == With(G, SizeP, size)
  <1>1. /\ DOMAIN F = DOMAIN M \cup {ZoneP} /\ F[ZoneP] = M[RegionP]
        /\ \A p \in DOMAIN M \ {ZoneP} : F[p] = M[p]
    BY DEF With
  <1> HIDE DEF F
  <1>2. /\ DOMAIN G = DOMAIN F \cup (DOMAIN A \cap {TagP})
        /\ \A p \in DOMAIN A \cap {TagP} : G[p] = A[p]
        /\ \A p \in DOMAIN F \ (DOMAIN A \cap {TagP}) : G[p] = F[p]
    BY ExpandsTo, ThosePaths DEF Added, Overlay, Restrict
  <1> HIDE DEF G
  <1>3. DOMAIN H = DOMAIN G \cup {SizeP} /\ H[SizeP] = size /\ \A p \in DOMAIN G \ {SizeP} : H[p] = G[p]
    BY DEF With
  <1> HIDE DEF H
  <1>4. SizeP # ZoneP /\ SizeP # TagP /\ ZoneP # TagP
    BY PathsDiffer
  <1>5. DOMAIN H = DOMAIN M \cup {ZoneP, SizeP} \cup (DOMAIN A \cap {TagP})
    BY <1>1, <1>2, <1>3
  <1>6. H[ZoneP] = M[RegionP] /\ (TagP \in DOMAIN A => H[TagP] = A[TagP])
    BY <1>1, <1>2, <1>3, <1>4
  <1>7. \A p \in DOMAIN M \ {SizeP, ZoneP, TagP} : H[p] = M[p]
    BY <1>1, <1>2, <1>3
  <1>. QED
    BY <1>3, <1>5, <1>6, <1>7 DEF F, G, H, IsInV1, InV1

\* The annotation of v1 has the fields that only v2 has, as they are.
IsNoted(C, B, M) ==
    /\ DOMAIN C = (DOMAIN B \ NewFields) \cup (DOMAIN M \cap NewFields)
    /\ \A p \in DOMAIN M \cap NewFields : C[p] = M[p]

IsReplaced(C, B, M, paths) ==
    /\ DOMAIN C = (DOMAIN B \ paths) \cup (DOMAIN M \cap paths)
    /\ \A p \in DOMAIN M \cap paths : C[p] = M[p]
    /\ \A p \in DOMAIN B \ paths : C[p] = B[p]

LEMMA ReplacedIs ==
    ASSUME NEW B, NEW M, DOMAIN B \subseteq AllPaths, DOMAIN M \subseteq AllPaths,
           NEW path, path \in {LabelP, NoteP("*"), UidP, TagP}
    PROVE  IsReplaced(Replaced(B, M, path), B, M, Those(path))
  <1>1. path \in Plain \cup {NoteP("*")}
    BY ThosePaths
  <1>2. ExpandWildcards(B, path) = DOMAIN B \cap Those(path) /\ ExpandWildcards(M, path) = DOMAIN M \cap Those(path)
    BY <1>1, ExpandsTo
  <1>. QED
    BY <1>2 DEF IsReplaced, Replaced, Overlay, Restrict, Without

LEMMA AnnotationInV1 ==
    ASSUME NEW B, NEW M, DOMAIN B \subseteq AllPaths, DOMAIN M \subseteq AllPaths
    PROVE  IsNoted(Replaced(Replaced(Replaced(B, M, LabelP), M, NoteP("*")), M, UidP), B, M)
  <1> DEFINE C1 == Replaced(B, M, LabelP)
             C2 == Replaced(C1, M, NoteP("*"))
             C  == Replaced(C2, M, UidP)
  <1>1. /\ DOMAIN C1 = (DOMAIN B \ {LabelP}) \cup (DOMAIN M \cap {LabelP})
        /\ \A p \in DOMAIN M \cap {LabelP} : C1[p] = M[p]
    <2>1. IsReplaced(C1, B, M, {LabelP})
      BY ReplacedIs, ThosePaths
    <2>. QED
      BY <2>1 DEF IsReplaced
  <1>2. DOMAIN C1 \subseteq AllPaths
    BY <1>1
  <1> HIDE DEF C1
  <1>3. /\ DOMAIN C2 = (DOMAIN C1 \ NotePaths) \cup (DOMAIN M \cap NotePaths)
        /\ \A p \in DOMAIN M \cap NotePaths : C2[p] = M[p]
        /\ \A p \in DOMAIN C1 \ NotePaths : C2[p] = C1[p]
    <2>1. IsReplaced(C2, C1, M, NotePaths)
      BY <1>2, ReplacedIs, ThosePaths
    <2>. QED
      BY <2>1 DEF IsReplaced
  <1>4. DOMAIN C2 \subseteq AllPaths
    BY <1>2, <1>3
  <1> HIDE DEF C2
  <1>5. /\ DOMAIN C = (DOMAIN C2 \ {UidP}) \cup (DOMAIN M \cap {UidP})
        /\ \A p \in DOMAIN M \cap {UidP} : C[p] = M[p]
        /\ \A p \in DOMAIN C2 \ {UidP} : C[p] = C2[p]
    <2>1. IsReplaced(C, C2, M, {UidP})
      BY <1>4, ReplacedIs, ThosePaths
    <2>. QED
      BY <2>1 DEF IsReplaced
  <1> HIDE DEF C
  <1>6. LabelP \notin NotePaths /\ UidP \notin NotePaths /\ LabelP # UidP
    BY PathsDiffer, NotePathsAre
  <1>7. DOMAIN C = (DOMAIN B \ NewFields) \cup (DOMAIN M \cap NewFields)
    BY <1>1, <1>3, <1>5, <1>6 DEF NewFields
  <1>8. \A p \in DOMAIN M \cap NewFields : C[p] = M[p]
    BY <1>1, <1>3, <1>5, <1>6 DEF NewFields
  <1>. QED
    BY <1>7, <1>8 DEF IsNoted, C1, C2, C

\* A document of v2 that is converted to v1.
LEMMA ToV1 ==
    ASSUME NEW i, IsIntent(i), NEW doc, Represents(doc, i), doc.version = "v2"
    PROVE  Represents(RoundTrip(doc, "v1"), i) /\ RoundTrip(doc, "v1").version = "v1"
  <1> DEFINE S == doc.fields
             A == doc.ann
             n == i.size.number
             start == Pair("v2", S, A, "v1", <<>>, <<>>)
             ends  == Stage("paved", Stage("managed", start))
             result == FromUnstructured(ends.dst.fields, "v1")
  <1>1. /\ DOMAIN S = Paths(i, "v2")
        /\ \A p \in Paths(i, "v2") : Same(S[p], Fields(i, "v2")[p])
    BY DEF Represents, Shows
  <1>2. /\ DOMAIN A \subseteq {LabelP, TagP, UidP} \cup NotePaths
        /\ DOMAIN A \cap {TagP} = Paths(i, "v1") \cap {TagP}
        /\ \A p \in Paths(i, "v1") \cap {TagP} : Same(A[p], Fields(i, "v1")[p])
    BY Others DEF Represents, Keeps, Hidden, LabelP, TagP, UidP
  <1>3. DOMAIN S \subseteq AllPaths \ {ListP, TagP, ZoneP}
    BY <1>1, PathsKnown
  <1>4. DOMAIN A \subseteq AllPaths
    BY <1>2, AllPathsAre
  <1>5. RoundTrip(doc, "v1") = IF ends.err = "nil" /\ result.err = "nil"
                               THEN [ends.dst EXCEPT !.fields = result.fields] ELSE Failed
    <2>1. [src |-> doc, dst |-> [version |-> "v1", fields |-> <<>>, ann |-> <<>>], err |-> "nil"] = start
      BY DEF Represents, Pair, Document
    <2>. QED
      BY <2>1 DEF RoundTrip
  <1>6. PICK F : Stage("managed", start) = Pair("v2", S, A, "v1", F, A)
    <2>1. start.err = "nil"
      BY PairParts
    <2>2. Stage("managed", start) = Convert(Identity, start)
      BY <2>1, FirstStage
    <2>3. \E F : Convert(Identity, start) = Pair("v2", S, A, "v1", F, A)
      BY <1>3, IdentityCopies DEF ServedVersions
    <2>. QED
      BY <2>2, <2>3
  <1>7. PICK M : /\ MovedTo(M, S, ObjectP, ListP)
                 /\ Convert(ToList, Pair("v2", S, A, "v1", F, A)) = Pair("v2", M, A, "v1", M, A)
    BY <1>3, ObjectBecomesList
  <1>8. /\ RegionP \in DOMAIN M /\ SizeP \in DOMAIN M /\ M[RegionP] = S[RegionP] /\ M[SizeP] = S[SizeP]
        /\ RegionP \in Paths(i, "v2") /\ SizeP \in Paths(i, "v2")
    <2>1. RegionP \in Paths(i, "v2") /\ SizeP \in Paths(i, "v2")
      BY PathsShared
    <2>. QED
      BY <1>1, <1>7, <2>1, PathsDiffer DEF MovedTo
  <1>9. S[SizeP].number = n
    <2>1. Fields(i, "v2")[SizeP] = Number(n)
      BY <1>8, FieldsAre DEF SizeIn
    <2>. QED
      BY <1>1, <1>8, <2>1, ValuesAre DEF Same
  <1> DEFINE G == InV1(M, A)
             C == Replaced(Replaced(Replaced(A, M, LabelP), M, NoteP("*")), M, UidP)
             H == With(G, SizeP, Written(n))
             new == FromUnstructured(H, "v1").fields
  <1>10. ends = Pair("v2", M, A, "v1", H, C)
    <2> HIDE DEF G, C, start
    <2>. QED
      BY <1>6, <1>7, <1>8, <1>9, ToV1Stage DEF G, C, InV1
  <1>11. IsInV1(H, M, A, Written(n))
    BY <1>4, FieldsInV1
  <1>12. IsNoted(C, A, M)
    <2>1. DOMAIN M \subseteq AllPaths
      BY <1>3, <1>7, AllPathsAre DEF MovedTo
    <2>. QED
      BY <1>4, <2>1, AnnotationInV1
  <1> HIDE DEF ends, H, C, G
  <1>13. /\ FromUnstructured(H, "v1").err = "nil"
         /\ DOMAIN new = DOMAIN H \cap KeptIn("v1")
         /\ \A p \in DOMAIN H \cap KeptIn("v1") : new[p] = H[p]
    <2>1. DOMAIN H \subseteq AllPaths /\ ObjectP \notin DOMAIN H
      BY <1>3, <1>4, <1>7, <1>11, AllPathsAre, NewFieldsDiffer, PathsDiffer DEF MovedTo, IsInV1
    <2>2. H[SizeP].type = SizeType["v1"]
      BY <1>11, ValuesAre DEF SizeType, IsInV1
    <2>. QED
      BY <2>1, <2>2, TypesKeep DEF ServedVersions
  <1>14. RoundTrip(doc, "v1") = Document("v1", new, C)
    <2>1. ends.err = "nil" /\ ends.dst = Document("v1", H, C) /\ ends.dst.fields = H
      BY <1>10, PairParts
    <2>2. [Document("v1", H, C) EXCEPT !.fields = new] = Document("v1", new, C)
      BY DEF Document
    <2>. QED
      BY <1>5, <1>13, <2>1, <2>2
  <1> HIDE DEF new
  <1>15. DOMAIN new = Paths(i, "v1")
    <2>1. KeptIn("v1") = {SizeP, TagP, ZoneP, ListP} \cup KeyPaths
      BY DEF KeptIn
    <2>2. Paths(i, "v1") \subseteq KeptIn("v1")
      BY PathsShared DEF ServedVersions
    <2>3. \A p \in {SizeP, ZoneP} : p \in DOMAIN H /\ p \in Paths(i, "v1")
      BY <1>11, PathsShared DEF IsInV1
    <2>4. TagP \in DOMAIN H <=> TagP \in Paths(i, "v1")
      <3>1. TagP \notin DOMAIN M
        BY <1>3, <1>7, PathsDiffer DEF MovedTo
      <3>. QED
        BY <1>2, <1>11, <3>1, PathsDiffer DEF IsInV1
    <2>5. ListP \in DOMAIN H <=> ListP \in Paths(i, "v1")
      <3>1. ListP \in DOMAIN M <=> ObjectP \in DOMAIN S
        BY <1>3, <1>7 DEF MovedTo
      <3>2. ListP \in DOMAIN H <=> ListP \in DOMAIN M
        BY <1>11, PathsDiffer DEF IsInV1
      <3>. QED
        BY <1>1, <3>1, <3>2, PathsShared
    <2>6. \A p \in KeyPaths : p \in DOMAIN H <=> p \in Paths(i, "v1")
      <3>1. \A p \in KeyPaths : p \notin {ListP, ObjectP, SizeP, ZoneP, TagP}
        BY PathsDiffer DEF KeyPaths
      <3>2. \A p \in KeyPaths : p \in DOMAIN M <=> p \in DOMAIN S
        BY <1>7, <3>1 DEF MovedTo
      <3>3. \A p \in KeyPaths : p \in DOMAIN H <=> p \in DOMAIN M
        BY <1>11, <3>1 DEF IsInV1
      <3>. QED
        BY <1>1, <3>2, <3>3, PathsShared
    <2>. QED
      BY <1>13, <2>1, <2>2, <2>3, <2>4, <2>5, <2>6
  <1>16. \A p \in Paths(i, "v1") : Same(new[p], Fields(i, "v1")[p])
    <2>1. \A p \in Paths(i, "v1") : new[p] = H[p]
      BY <1>13, <1>15
    <2>2. SizeP \in Paths(i, "v1") /\ ZoneP \in Paths(i, "v1")
      BY PathsShared
    <2>3. Same(H[SizeP], Fields(i, "v1")[SizeP])
      <3>1. Fields(i, "v1")[SizeP] = i.size
        BY <2>2, FieldsAre DEF SizeIn
      <3>2. H[SizeP] = Written(n)
        BY <1>11 DEF IsInV1
      <3>3. i.size.type = "string"
        BY DEF IsIntent
      <3>. QED
        BY <3>1, <3>2, <3>3, ValuesAre DEF Same
    <2>4. TagP \in Paths(i, "v1") => Same(H[TagP], Fields(i, "v1")[TagP])
      BY <1>2, <1>11 DEF IsInV1
    <2>5. \A p \in Paths(i, "v1") \ {SizeP, UidP} : Fields(i, "v1")[p] = Name
      BY FieldsAre
    <2>6. \A p \in Paths(i, "v2") \ {SizeP, UidP} : Same(S[p], Name)
      BY <1>1, FieldsAre
    <2>7. Same(H[ZoneP], Name)
      <3>1. H[ZoneP] = S[RegionP]
        BY <1>8, <1>11 DEF IsInV1
      <3>. QED
        BY <1>8, <2>6, <3>1, PathsDiffer
    <2>8. ListP \in Paths(i, "v1") => Same(H[ListP], Name)
      <3>1. ListP \in Paths(i, "v1") => ObjectP \in Paths(i, "v2")
        BY PathsShared
      <3>2. ObjectP \in Paths(i, "v2") => ListP \in DOMAIN M /\ M[ListP] = S[ObjectP]
        BY <1>1, <1>7 DEF MovedTo
      <3>3. ObjectP \in Paths(i, "v2") => H[ListP] = S[ObjectP]
        BY <1>11, <3>2, PathsDiffer DEF IsInV1
      <3>. QED
        BY <2>6, <3>1, <3>3, PathsDiffer
    <2>9. \A p \in Paths(i, "v1") \cap KeyPaths : Same(H[p], Name)
      <3>1. \A p \in KeyPaths : p \notin {ListP, ObjectP, SizeP, ZoneP, TagP, UidP}
        BY PathsDiffer DEF KeyPaths
      <3>2. \A p \in Paths(i, "v1") \cap KeyPaths : p \in Paths(i, "v2")
        BY PathsShared
      <3>3. \A p \in Paths(i, "v2") \cap KeyPaths : p \in DOMAIN M /\ M[p] = S[p]
        BY <1>1, <1>7, <3>1 DEF MovedTo
      <3>4. \A p \in Paths(i, "v2") \cap KeyPaths : H[p] = S[p]
        BY <1>11, <3>1, <3>3 DEF IsInV1
      <3>. QED
        BY <2>6, <3>1, <3>2, <3>4
    <2>10. \A p \in Paths(i, "v1") : p \in {SizeP, TagP, ZoneP, ListP} \cup KeyPaths
      BY PathsShared DEF KeptIn, ServedVersions
    <2>11. \A p \in {ZoneP, ListP} \cup KeyPaths : p # SizeP /\ p # UidP
      BY PathsDiffer DEF KeyPaths
    <2>12. \A p \in Paths(i, "v1") : Same(H[p], Fields(i, "v1")[p])
      BY <2>3, <2>4, <2>5, <2>7, <2>8, <2>9, <2>10, <2>11
    <2>. QED
      BY <2>1, <2>12
  <1>17. /\ DOMAIN C \subseteq {LabelP, TagP, UidP} \cup NotePaths
         /\ DOMAIN C \cap NewFields = Paths(i, "v2") \cap NewFields
         /\ \A p \in Paths(i, "v2") \cap NewFields : Same(C[p], Fields(i, "v2")[p])
    <2>1. \A p \in NewFields : p \in DOMAIN M <=> p \in Paths(i, "v2")
      BY <1>1, <1>7, NewFieldsDiffer DEF MovedTo
    <2>2. \A p \in NewFields \cap DOMAIN M : M[p] = S[p]
      BY <1>1, <1>7, <2>1, NewFieldsDiffer DEF MovedTo
    <2>3. DOMAIN C \subseteq {LabelP, TagP, UidP} \cup NotePaths
      BY <1>2, <1>12 DEF IsNoted, NewFields
    <2>4. DOMAIN C \cap NewFields = Paths(i, "v2") \cap NewFields
      BY <1>12, <2>1 DEF IsNoted
    <2>5. \A p \in Paths(i, "v2") \cap NewFields : C[p] = S[p]
      BY <1>12, <2>1, <2>2 DEF IsNoted
    <2>. QED
      BY <1>1, <2>3, <2>4, <2>5
  <1>18. Represents(Document("v1", new, C), i)
    <2> DEFINE d == Document("v1", new, C)
    <2>1. d.version = "v1" /\ d.fields = new /\ d.ann = C
      BY DEF Document
    <2> HIDE DEF d
    <2>2. Shows(d, i)
      BY <1>15, <1>16, <2>1 DEF Shows
    <2>3. Keeps(d, i)
      BY <1>17, <2>1, Others DEF Keeps, Hidden, NewFields, LabelP, TagP, UidP
    <2>4. Expressible(i, "v1")
      BY DEF Expressible
    <2>. QED
      BY <2>1, <2>2, <2>3, <2>4 DEF Represents, ServedVersions, d
  <1>. QED
    BY <1>14, <1>18 DEF Document

--------------------------------------------------------------------------------
(* The object, in whichever version it is read *)

\* A version that can hold what the object is meant to be shows it, another fails.
IsView(view, i, v) ==
    IF Expressible(i, v) THEN Represents(view, i) /\ view.version = v ELSE view = Failed

LEMMA ViewsRepresent ==
    ASSUME NEW i, IsIntent(i), NEW doc, Represents(doc, i), NEW v \in ServedVersions
    PROVE  IsView(As(doc, v), i, v)
  <1>1. doc.version \in ServedVersions /\ Expressible(i, doc.version)
    BY DEF Represents
  <1>2. CASE doc.version = v
    BY <1>1, <1>2 DEF As, IsView
  <1>3. CASE doc.version = "v1" /\ v = "v2"
    BY <1>3, ToV2 DEF As, IsView
  <1>4. CASE doc.version = "v2" /\ v = "v1"
    <2>1. Expressible(i, "v1")
      BY DEF Expressible
    <2>. QED
      BY <1>4, <2>1, ToV1 DEF As, IsView
  <1>. QED
    BY <1>1, <1>2, <1>3, <1>4 DEF ServedVersions

LEMMA RepresentsIsADocument ==
    ASSUME NEW doc, NEW i, Represents(doc, i)
    PROVE  doc # Failed
  BY DEF Represents, Failed, ServedVersions

LEMMA IntentsAre ==
    ASSUME NEW i \in Intents
    PROVE  IsIntent(i)
  <1>1. UNION Lists \subseteq Index
    BY DEF Index
  <1>2. i.rules \in Lists /\ i.notes \subseteq Index /\ i.net \subseteq {"0"}
    BY DEF Intents
  <1>3. i.tag \in BOOLEAN /\ i.label \in BOOLEAN /\ i.size \in Sizes
    BY DEF Intents
  <1>4. \A size \in Sizes : size.type = "string"
    BY DEF Sizes, Text
  <1>5. i.rules \subseteq Index
    BY <1>1, <1>2
  <1>. QED
    BY <1>2, <1>3, <1>4, <1>5 DEF IsIntent

\* What of the fields that v2 alone has there is.
NewOf(label, notes, uid) ==
    {p \in {LabelP} : label} \cup {NoteP(e) : e \in notes} \cup {p \in {UidP} : uid # NoUid}

LEMMA NewFieldsOf ==
    ASSUME NEW i, IsIntent(i)
    PROVE  Paths(i, "v2") \cap NewFields = NewOf(i.label, i.notes, i.uid)
  <1> DEFINE label == {p \in {LabelP} : i.label}
             uid   == {p \in {UidP} : i.uid # NoUid}
             notes == {NoteP(e) : e \in i.notes}
             keys  == {KeyP(e) : e \in i.rules}
             net   == {<<"net", "cidr">> : e \in i.net}
  <1>1. Paths(i, "v2") = {SizeP} \cup keys \cup ({RegionP} \cup label \cup notes \cup net \cup uid)
    BY DEF Paths, SizeP, RegionP, LabelP, UidP, KeyP, NoteP
  <1>2. label \subseteq NewFields /\ uid \subseteq NewFields
    BY DEF NewFields
  <1>3. notes \subseteq NewFields
    BY NotePathsAre DEF NewFields, IsIntent
  <1>4. keys \cap NewFields = {}
    BY NewFieldsDiffer DEF KeyPaths, IsIntent
  <1>5. net \cap NewFields = {} /\ {SizeP, RegionP} \cap NewFields = {}
    BY NewFieldsDiffer DEF ObjectP
  <1>6. NewOf(i.label, i.notes, i.uid) = label \cup notes \cup uid
    BY DEF NewOf
  <1> HIDE DEF label, uid, notes, keys, net
  <1>. QED
    BY <1>1, <1>2, <1>3, <1>4, <1>5, <1>6

LEMMA TagOf ==
    ASSUME NEW i, IsIntent(i)
    PROVE  Paths(i, "v1") \cap {TagP} = {p \in {TagP} : i.tag}
  <1> DEFINE tag  == {p \in {TagP} : i.tag}
             keys == {KeyP(e) : e \in i.rules}
             net  == {<<"net", e, "cidr">> : e \in i.net}
  <1>1. Paths(i, "v1") = {SizeP} \cup keys \cup ({ZoneP} \cup tag \cup net)
    BY DEF Paths, SizeP, ZoneP, TagP, KeyP
  <1>2. TagP \notin keys /\ TagP \notin {SizeP, ZoneP}
    BY PathsDiffer
  <1>3. TagP \notin net
    <2>1. \A e \in i.net : <<"net", e, "cidr">> = ListP
      BY DEF ListP, IsIntent
    <2>. QED
      BY <2>1, PathsDiffer
  <1>4. tag \subseteq {TagP}
    OBVIOUS
  <1> HIDE DEF tag, keys, net
  <1>5. Paths(i, "v1") \cap {TagP} = tag
    BY <1>1, <1>2, <1>3, <1>4
  <1>. QED
    BY <1>5 DEF tag

\* Two intents that agree on the fields that v has not keep the same for it.
LEMMA KeptAlike ==
    ASSUME NEW i, IsIntent(i), NEW j, IsIntent(j),
           j.uid = i.uid, j.notes = i.notes, j.label = i.label
    PROVE  /\ Paths(j, "v2") \cap NewFields = Paths(i, "v2") \cap NewFields
           /\ \A p \in Paths(i, "v2") \cap NewFields : Fields(j, "v2")[p] = Fields(i, "v2")[p]
  <1>1. Paths(j, "v2") \cap NewFields = Paths(i, "v2") \cap NewFields
    BY NewFieldsOf
  <1>2. SizeP \notin NewFields
    BY NewFieldsDiffer
  <1>3. \A p \in Paths(i, "v2") \cap NewFields : Fields(j, "v2")[p] = Fields(i, "v2")[p]
    BY <1>1, <1>2, FieldsAre
  <1>. QED
    BY <1>1, <1>3

LEMMA TagKeptAlike ==
    ASSUME NEW i, IsIntent(i), NEW j, IsIntent(j), j.tag = i.tag
    PROVE  /\ Paths(j, "v1") \cap {TagP} = Paths(i, "v1") \cap {TagP}
           /\ \A p \in Paths(i, "v1") \cap {TagP} : Fields(j, "v1")[p] = Fields(i, "v1")[p]
  <1>1. Paths(j, "v1") \cap {TagP} = Paths(i, "v1") \cap {TagP}
    BY TagOf
  <1>2. TagP # SizeP /\ TagP # UidP
    BY PathsDiffer
  <1>. QED
    BY <1>1, <1>2, FieldsAre

\* What a document of a version keeps, with the names of the paths.
KeepsAt(doc, i, hidden, other) ==
    /\ DOMAIN doc.ann \subseteq {LabelP, TagP, UidP} \cup NotePaths
    /\ DOMAIN doc.ann \cap hidden = Paths(i, other) \cap hidden
    /\ \A p \in Paths(i, other) \cap hidden : Same(doc.ann[p], Fields(i, other)[p])

LEMMA KeepsIs ==
    ASSUME NEW doc, NEW i
    PROVE  /\ doc.version = "v1" => (Keeps(doc, i) <=> KeepsAt(doc, i, NewFields, "v2"))
           /\ doc.version = "v2" => (Keeps(doc, i) <=> KeepsAt(doc, i, {TagP}, "v1"))
  BY Others DEF Keeps, KeepsAt, Hidden, NewFields, LabelP, TagP, UidP

--------------------------------------------------------------------------------
(* ObjectInv is an invariant *)

LEMMA ObjectInvInit == ObjectInit => ObjectInv
  <1> SUFFICES ASSUME ObjectInit
               PROVE  ObjectInv
    OBVIOUS
  <1> DEFINE n == CHOOSE n \in Numbers : TRUE
  <1>1. n \in Numbers /\ n # NotANumber
    BY ConversionsAssumption
  <1> HIDE DEF n
  <1>2. intent = [size |-> Written(n), label |-> FALSE, tag |-> FALSE,
                  rules |-> {}, notes |-> {}, net |-> {}, uid |-> NoUid]
    BY DEF ObjectInit, Written, n
  <1>3. Written(n) \in Sizes
    BY <1>1 DEF Sizes, Written
  <1>4. intent \in Intents
    BY <1>2, <1>3, ConversionsAssumption DEF Intents
  <1>5. IsIntent(intent)
    BY <1>4, IntentsAre
  <1>6. intent.notes \subseteq intent.rules
    BY <1>2
  <1>7. storage \in ServedVersions /\ stored = Document(storage, Fields(intent, storage), <<>>)
    BY DEF ObjectInit, Document
  <1>8. stored.version = storage /\ stored.fields = Fields(intent, storage) /\ stored.ann = <<>>
    BY <1>7 DEF Document
  <1>9. Expressible(intent, storage)
    <2>1. intent.size.number = n
      BY <1>2, ValuesAre
    <2>. QED
      BY <1>1, <2>1 DEF Expressible
  <1>10. Shows(stored, intent)
    BY <1>8 DEF Shows, Fields, Same
  <1>11. Keeps(stored, intent)
    <2>1. Paths(intent, "v2") \cap NewFields = {}
      <3>1. NewOf(FALSE, {}, NoUid) = {}
        BY DEF NewOf
      <3>2. intent.label = FALSE /\ intent.notes = {} /\ intent.uid = NoUid
        BY <1>2
      <3>. QED
        BY <1>5, <3>1, <3>2, NewFieldsOf
    <2>2. Paths(intent, "v1") \cap {TagP} = {}
      BY <1>2, <1>5, TagOf
    <2>3. DOMAIN stored.ann = {}
      BY <1>8
    <2>4. KeepsAt(stored, intent, NewFields, "v2") /\ KeepsAt(stored, intent, {TagP}, "v1")
      BY <2>1, <2>2, <2>3 DEF KeepsAt
    <2>. QED
      BY <1>7, <1>8, <2>4, KeepsIs DEF ServedVersions
  <1>. QED
    BY <1>4, <1>6, <1>7, <1>8, <1>9, <1>10, <1>11 DEF ObjectInv, Represents

\* What the API server stores of a document that represents the object represents it.
LEMMA StoredRepresents ==
    ASSUME NEW i, IsIntent(i), NEW doc, Represents(doc, i), storage \in ServedVersions,
           As(doc, storage) # Failed
    PROVE  Represents(As(doc, storage), i)
  BY ViewsRepresent DEF IsView

LEMMA ClientWritesKeeps ==
    ASSUME ~Shortens, ObjectInv, NEW v \in ServedVersions, ClientWrites(v)
    PROVE  ObjectInv'
  <1>1. PICK view \in {As(stored, v)} \ {Failed}, new \in {i \in Intents : Means(i, v)} :
           /\ stored' = As([version |-> v, fields |-> Fields(new, v), ann |-> view.ann], storage)
           /\ stored' # Failed
           /\ intent' = new
           /\ storage' = storage
    BY DEF ClientWrites
  <1>2. new \in Intents /\ Means(new, v) /\ view = As(stored, v) /\ view # Failed
    BY <1>1
  <1>3. IsIntent(intent) /\ IsIntent(new)
    BY <1>2, IntentsAre DEF ObjectInv
  <1>4. Represents(view, intent) /\ view.version = v
    <2>1. IsView(view, intent, v)
      BY <1>2, <1>3, ViewsRepresent DEF ObjectInv
    <2>. QED
      BY <1>2, <2>1 DEF IsView
  <1> DEFINE doc == Document(v, Fields(new, v), view.ann)
  <1>5. doc.version = v /\ doc.fields = Fields(new, v) /\ doc.ann = view.ann
    BY DEF Document
  <1>6. stored' = As(doc, storage)
    BY <1>1 DEF Document
  <1> HIDE DEF doc
  <1>7. Shows(doc, new)
    BY <1>5 DEF Shows, Fields, Same
  <1>8. Keeps(doc, new)
    <2>1. CASE v = "v1"
      <3>1. KeepsAt(view, intent, NewFields, "v2")
        BY <1>4, <2>1, KeepsIs DEF Represents
      <3>2. new.notes = intent.notes
        BY <1>2, <2>1 DEF Means
      <3>3. new.label = intent.label /\ new.uid = intent.uid
        BY <1>2, <2>1 DEF Means
      <3>4. /\ Paths(new, "v2") \cap NewFields = Paths(intent, "v2") \cap NewFields
            /\ \A p \in Paths(intent, "v2") \cap NewFields : Fields(new, "v2")[p] = Fields(intent, "v2")[p]
        BY <1>3, <3>2, <3>3, KeptAlike
      <3>5. KeepsAt(doc, new, NewFields, "v2")
        BY <1>5, <3>1, <3>4 DEF KeepsAt
      <3>. QED
        BY <1>5, <2>1, <3>5, KeepsIs
    <2>2. CASE v = "v2"
      <3>1. KeepsAt(view, intent, {TagP}, "v1")
        BY <1>4, <2>2, KeepsIs DEF Represents
      <3>2. new.tag = intent.tag
        BY <1>2, <2>2 DEF Means
      <3>3. /\ Paths(new, "v1") \cap {TagP} = Paths(intent, "v1") \cap {TagP}
            /\ \A p \in Paths(intent, "v1") \cap {TagP} : Fields(new, "v1")[p] = Fields(intent, "v1")[p]
        BY <1>3, <3>2, TagKeptAlike
      <3>4. KeepsAt(doc, new, {TagP}, "v1")
        BY <1>5, <3>1, <3>3 DEF KeepsAt
      <3>. QED
        BY <1>5, <2>2, <3>4, KeepsIs
    <2>. QED
      BY <2>1, <2>2 DEF ServedVersions
  <1>9. Represents(doc, new)
    <2>1. Expressible(new, v)
      BY <1>2 DEF Means
    <2>2. doc = Document(doc.version, doc.fields, doc.ann)
      BY <1>5 DEF doc
    <2>. QED
      BY <1>5, <1>7, <1>8, <2>1, <2>2 DEF Represents
  <1>10. Represents(stored', new)
    BY <1>1, <1>3, <1>6, <1>9, StoredRepresents DEF ObjectInv
  <1>11. new.notes \subseteq new.rules
    BY <1>2 DEF Means
  <1>. QED
    BY <1>1, <1>2, <1>10, <1>11 DEF ObjectInv

LEMMA Observed ==
    ASSUME NEW i, IsIntent(i), NEW view, Represents(view, i), view.version = "v1", NEW uid \in Uids,
           NEW j, IsIntent(j), j.size = i.size, j.label = i.label, j.tag = i.tag, j.rules = i.rules,
           j.notes = i.notes, j.net = i.net, j.uid = uid
    PROVE  LET doc == MoveTFStateValuesToAnnotation(view, [p \in Status |-> Uid(uid)])
           IN  Represents(doc, j)
  <1> DEFINE observed == [p \in Status |-> Uid(uid)]
             ann == Overlay(Without(observed, DOMAIN view.fields), view.ann)
             doc == MoveTFStateValuesToAnnotation(view, observed)
  <1>1. DOMAIN view.fields = Paths(i, "v1") /\ view = Document("v1", view.fields, view.ann)
    BY DEF Represents, Shows
  <1>2. UidP \notin DOMAIN view.fields
    BY <1>1, PathsKnown
  <1>3. DOMAIN observed = {UidP} /\ observed[UidP] = Uid(uid)
    BY DEF Status, UidP
  <1> HIDE DEF observed
  <1>4. doc = [view EXCEPT !.ann = ann]
    BY <1>2, <1>3 DEF MoveTFStateValuesToAnnotation
  <1> HIDE DEF ann
  <1>5. doc = Document("v1", view.fields, ann)
    <2>1. [Document("v1", view.fields, view.ann) EXCEPT !.ann = ann] = Document("v1", view.fields, ann)
      BY DEF Document
    <2>. QED
      BY <1>1, <1>4, <2>1
  <1>6. /\ DOMAIN ann = DOMAIN view.ann \cup {UidP} /\ ann[UidP] = Uid(uid)
        /\ \A p \in DOMAIN view.ann \ {UidP} : ann[p] = view.ann[p]
    BY <1>2, <1>3 DEF ann, Overlay, Without, Restrict
  <1> HIDE DEF doc
  <1>7. doc.version = "v1" /\ doc.fields = view.fields /\ doc.ann = ann
    BY <1>5 DEF Document
  <1>8. Shows(doc, j)
    <2>1. Paths(j, "v1") = Paths(i, "v1")
      BY DEF Paths
    <2>2. \A p \in Paths(i, "v1") : Fields(j, "v1")[p] = Fields(i, "v1")[p]
      <3>1. UidP \notin Paths(i, "v1")
        BY PathsKnown
      <3>. QED
        BY <2>1, <3>1 DEF Fields, SizeIn, UidP
    <2>. QED
      BY <1>7, <2>1, <2>2 DEF Shows, Represents
  <1>9. Keeps(doc, j)
    <2>1. KeepsAt(view, i, NewFields, "v2")
      BY KeepsIs DEF Represents
    <2>2. uid # NoUid
      BY ConversionsAssumption
    <2>3. Paths(j, "v2") \cap NewFields = (Paths(i, "v2") \cap NewFields) \cup {UidP}
      <3>1. NewOf(i.label, i.notes, uid) = NewOf(i.label, i.notes, i.uid) \cup {UidP}
        BY <2>2 DEF NewOf
      <3>. QED
        BY <3>1, NewFieldsOf
    <2>4. UidP \in NewFields /\ SizeP \notin NewFields
      BY NewFieldsDiffer DEF NewFields
    <2>5. UidP \in Paths(j, "v2") /\ Fields(j, "v2")[UidP] = Uid(uid)
      BY <2>3, FieldsAre
    <2>6. \A p \in (Paths(i, "v2") \cap NewFields) \ {UidP} : Fields(j, "v2")[p] = Fields(i, "v2")[p]
      BY <2>3, <2>4, FieldsAre
    <2>7. DOMAIN ann \cap NewFields = Paths(j, "v2") \cap NewFields
      BY <1>6, <2>1, <2>3, <2>4 DEF KeepsAt
    <2>8. \A p \in (Paths(i, "v2") \cap NewFields) \ {UidP} : Same(ann[p], Fields(j, "v2")[p])
      BY <1>6, <2>1, <2>6 DEF KeepsAt
    <2>9. Same(ann[UidP], Fields(j, "v2")[UidP])
      BY <1>6, <2>5 DEF Same
    <2>10. DOMAIN ann \subseteq {LabelP, TagP, UidP} \cup NotePaths
      BY <1>6, <2>1 DEF KeepsAt
    <2>11. KeepsAt(doc, j, NewFields, "v2")
      BY <1>7, <2>3, <2>7, <2>8, <2>9, <2>10 DEF KeepsAt
    <2>. QED
      BY <1>7, <2>11, KeepsIs
  <1>10. Expressible(j, "v1")
    BY DEF Expressible
  <1>. QED
    BY <1>5, <1>7, <1>8, <1>9, <1>10 DEF Represents, ServedVersions, doc, observed

LEMMA ObserveKeeps ==
    ASSUME ObjectInv, NEW uid \in Uids, Observe(uid)
    PROVE  ObjectInv'
  <1>1. PICK view \in {As(stored, "v1")} \ {Failed} :
           stored' = As(MoveTFStateValuesToAnnotation(view, [p \in Status |-> Uid(uid)]), storage)
    BY DEF Observe
  <1>2. stored' # Failed /\ storage' = storage /\ intent' = [intent EXCEPT !.uid = uid]
    BY DEF Observe
  <1>3. intent \in Intents /\ IsIntent(intent)
    BY IntentsAre DEF ObjectInv
  <1>4. Represents(view, intent) /\ view.version = "v1"
    <2>1. IsView(view, intent, "v1")
      BY <1>1, <1>3, ViewsRepresent DEF ObjectInv, ServedVersions
    <2>. QED
      BY <1>1, <2>1 DEF IsView
  <1>5. intent' \in Intents
    BY <1>2, <1>3 DEF Intents
  <1>6. /\ intent'.size = intent.size /\ intent'.label = intent.label /\ intent'.tag = intent.tag
        /\ intent'.rules = intent.rules /\ intent'.notes = intent.notes /\ intent'.net = intent.net
        /\ intent'.uid = uid
    BY <1>2, <1>3 DEF Intents
  <1> DEFINE doc == MoveTFStateValuesToAnnotation(view, [p \in Status |-> Uid(uid)])
  <1>7. IsIntent(intent')
    BY <1>5, IntentsAre
  <1>8. Represents(doc, intent')
    BY <1>3, <1>4, <1>6, <1>7, Observed
  <1> HIDE DEF doc
  <1>9. stored' = As(doc, storage)
    BY <1>1 DEF doc
  <1>10. Represents(stored', intent')
    BY <1>2, <1>7, <1>8, <1>9, StoredRepresents DEF ObjectInv
  <1>11. intent'.notes \subseteq intent'.rules
    BY <1>6 DEF ObjectInv
  <1>. QED
    BY <1>2, <1>5, <1>10, <1>11 DEF ObjectInv

LEMMA ObjectInvStep ==
    ASSUME ~Shortens, ObjectInv, [ObjectNext]_objectVars
    PROVE  ObjectInv'
  <1>1. CASE NextRevision
    <2>1. storage' \in ServedVersions /\ stored' = stored /\ intent' = intent
      BY <1>1, Others DEF NextRevision, ObjectInv, ServedVersions
    <2>. QED
      BY <2>1 DEF ObjectInv
  <1>2. ASSUME NEW v \in ServedVersions, ClientWrites(v)
        PROVE  ObjectInv'
    BY <1>2, ClientWritesKeeps
  <1>3. ASSUME NEW uid \in Uids, Observe(uid)
        PROVE  ObjectInv'
    BY <1>3, ObserveKeeps
  <1>4. CASE UNCHANGED objectVars
    BY <1>4 DEF objectVars, ObjectInv
  <1>. QED
    BY <1>1, <1>2, <1>3, <1>4 DEF ObjectNext

LEMMA ObjectInvariant ==
    ASSUME ~Shortens
    PROVE  ObjectSpec => []ObjectInv
  BY ObjectInvInit, ObjectInvStep, PTL DEF ObjectSpec

--------------------------------------------------------------------------------
(* What clients and the controller read *)

LEMMA ReadsAgree ==
    ASSUME ObjectInv
    PROVE  OneObject
  <1>1. IsIntent(intent) /\ Represents(stored, intent)
    BY IntentsAre DEF ObjectInv
  <1> SUFFICES ASSUME NEW v \in ServedVersions
               PROVE  IF Expressible(intent, v) THEN Agrees(As(stored, v), intent, v)
                      ELSE As(stored, v) = Failed
    BY DEF OneObject
  <1>2. IsView(As(stored, v), intent, v)
    BY <1>1, ViewsRepresent
  <1>3. ASSUME Expressible(intent, v)
        PROVE  Agrees(As(stored, v), intent, v)
    <2> DEFINE view == As(stored, v)
    <2>1. Represents(view, intent) /\ view.version = v
      BY <1>2, <1>3 DEF IsView
    <2> HIDE DEF view
    <2>2. view # Failed
      BY <2>1, RepresentsIsADocument
    <2>. QED
      BY <2>1, <2>2 DEF Agrees, Represents, Shows, Same, view
  <1>. QED
    BY <1>2, <1>3 DEF IsView

LEMMA ReadsAll ==
    ASSUME ObjectInv
    PROVE  ControllerSeesAll
  <1> DEFINE view   == As(stored, "v1")
             spec   == MergeAnnotationFieldsWithSpec(view)
             status == MergeAnnotationFieldsWithStatus(view)
             added  == Paths(intent, "v2") \ (Paths(intent, "v1") \cup {RegionP, ObjectP})
  <1>1. IsIntent(intent)
    BY IntentsAre DEF ObjectInv
  <1>2. Represents(view, intent) /\ view.version = "v1"
    <2>1. IsView(view, intent, "v1")
      BY <1>1, ViewsRepresent DEF ObjectInv, ServedVersions
    <2>. QED
      BY <2>1 DEF IsView, Expressible
  <1> HIDE DEF view
  <1>3. DOMAIN view.fields = Paths(intent, "v1") /\ KeepsAt(view, intent, NewFields, "v2")
    BY <1>2, KeepsIs DEF Represents, Shows
  <1>4. Status = {UidP} /\ UidP \in NewFields /\ UidP \notin Paths(intent, "v1")
    BY <1>1, PathsKnown DEF Status, UidP, NewFields
  <1>5. added = Paths(intent, "v2") \cap NewFields
    <2>1. \A p \in Paths(intent, "v2") : p \in {SizeP, RegionP, ObjectP} \cup KeyPaths \cup NewFields
      BY <1>1, PathsShared DEF KeptIn, NewFields, ServedVersions
    <2>2. \A p \in NewFields : p \notin Paths(intent, "v1") \cup {RegionP, ObjectP}
      BY <1>1, PathsKnown, NewFieldsDiffer DEF NewFields
    <2>. QED
      BY <1>1, <2>1, <2>2, PathsShared
  <1>6. DOMAIN spec = (DOMAIN view.ann \ {UidP}) \cup Paths(intent, "v1")
    BY <1>3, <1>4 DEF MergeAnnotationFieldsWithSpec, Merged, Overlay, Restrict
  <1>7. /\ DOMAIN status = (DOMAIN view.ann \cap {UidP}) \cup Paths(intent, "v1")
        /\ UidP \in DOMAIN view.ann => status[UidP] = view.ann[UidP]
    <2>1. DOMAIN Restrict(view.ann, DOMAIN view.ann \cap Status) = DOMAIN view.ann \cap {UidP}
      BY <1>4 DEF Restrict
    <2>2. UidP \in DOMAIN view.ann => Restrict(view.ann, DOMAIN view.ann \cap Status)[UidP] = view.ann[UidP]
      BY <1>4 DEF Restrict
    <2>. QED
      BY <1>3, <1>4, <2>1, <2>2 DEF MergeAnnotationFieldsWithStatus, Merged, Overlay
  <1> HIDE DEF spec, status, added
  <1>8. DOMAIN spec = (DOMAIN spec \cap {TagP}) \cup Paths(intent, "v1") \cup (added \ Status)
    <2>1. DOMAIN view.ann \subseteq {TagP} \cup NewFields
      BY <1>3 DEF KeepsAt, NewFields
    <2>2. DOMAIN view.ann \cap NewFields = added
      BY <1>3, <1>5 DEF KeepsAt
    <2>3. TagP \notin NewFields
      BY NewFieldsDiffer
    <2>. QED
      BY <1>4, <1>6, <2>1, <2>2, <2>3
  <1>9. DOMAIN view.ann \cap {UidP} = added \cap Status
    BY <1>3, <1>4, <1>5 DEF KeepsAt
  <1>10. DOMAIN status = Paths(intent, "v1") \cup (added \cap Status)
    BY <1>7, <1>9
  <1>11. intent.uid # NoUid => status[UidP].number = intent.uid
    <2> SUFFICES ASSUME intent.uid # NoUid
                 PROVE  status[UidP].number = intent.uid
      OBVIOUS
    <2>1. UidP \in Paths(intent, "v2")
      BY <1>1, PathsV2
    <2>2. UidP \in DOMAIN view.ann /\ Same(view.ann[UidP], Fields(intent, "v2")[UidP])
      BY <1>3, <1>4, <2>1 DEF KeepsAt
    <2>3. Fields(intent, "v2")[UidP] = Uid(intent.uid)
      BY <2>1, FieldsAre
    <2>4. Uid(intent.uid).number = intent.uid
      BY DEF Uid
    <2>. QED
      BY <1>7, <2>2, <2>3, <2>4 DEF Same
  <1>. QED
    BY <1>8, <1>10, <1>11 DEF ControllerSeesAll, view, spec, status, added, UidP, TagP, RegionP, ObjectP

(* Clients of both versions work on one object: whichever is stored, whatever they write and
   the controller observes, each reads what was written last to the fields of its version.
   Clients of v1 must not remove elements that have fields of v2 only. *)
THEOREM OneObjectAlways ==
    ASSUME ~Shortens
    PROVE  ObjectSpec => []OneObject
  <1>1. ObjectInv => OneObject
    BY ReadsAgree
  <1>. QED
    BY <1>1, ObjectInvariant, PTL

(* The controller of v1 sees the fields that only v2 has, as set and as observed last. *)
THEOREM ControllerSeesAllAlways ==
    ASSUME ~Shortens
    PROVE  ObjectSpec => []ControllerSeesAll
  <1>1. ObjectInv => ControllerSeesAll
    BY ReadsAll
  <1>. QED
    BY <1>1, ObjectInvariant, PTL

(* The object is stored in a served version, with fields of that version that are meant. *)
THEOREM ObjectTyped ==
    ASSUME ~Shortens
    PROVE  ObjectSpec => []ObjectTypeOK
  <1>1. ObjectInv => ObjectTypeOK
    BY DEF ObjectInv, ObjectTypeOK, Represents, Shows
  <1>. QED
    BY <1>1, ObjectInvariant, PTL

================================================================================
