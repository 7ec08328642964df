--------------------------- MODULE ManagedParameters ---------------------------
(***************************************************************************)
(* How the spec of an MR reaches its external resource through the SDKv2   *)
(* client (pkg/controller/external_tfpluginsdk.go), and how the resource   *)
(* fills the spec in return (pkg/resource/lateinit.go):                    *)
(*   spec.initProvider and spec.forProvider are merged, and sensitive      *)
(*   parameters are read from Secrets (pkg/resource/sensitive.go);         *)
(*   the differences of the parameters and the state are found, and those  *)
(*   that only initProvider is concerned with are taken out of them        *)
(*   (pkg/controller/ignored_tfpluginsdk.go);                              *)
(*   fields of forProvider that are not set are late-initialized.          *)
(*                                                                         *)
(* A document is the function from its leaf paths to values; a path is a   *)
(* tuple.  The resource has                                                *)
(*   size     optional              mode      optional and computed        *)
(*   tags     an optional map; tags_all is computed from it                *)
(*   net      an optional list of a block, with cidr optional and zone     *)
(*            optional and computed                                        *)
(*   password optional and sensitive                                       *)
(* No field forces a replacement, and the calls of the provider succeed.   *)
(***************************************************************************)
EXTENDS FiniteSets, Functions, Naturals, Sequences

CONSTANTS
    Nil,                       \* no resource, no plan, no Secret
    IgnoredFields,              \* never late-initialized
    ConditionalIgnoredFields,   \* not late-initialized if they are in initProvider
    MaxDisturbances             \* bound on what users and others change

ASSUME ParametersAssumption == Nil # <<>>  \* no plan is not a plan that changes nothing

VARIABLES
    forProvider, initProvider,  \* of the spec
    owned,      \* history: the paths of forProvider that the user has set, or has found
                \* there when setting the field in initProvider
    refs,       \* the parts of the spec that refer to a Secret for password
    secrets,    \* what each of these Secrets holds
    policies,   \* the management policies
    world,      \* the external resource, Nil before it is created
    plan,       \* the differences a reconcile is about to apply, or Nil
    left        \* disturbances that may still happen

parametersVars == <<forProvider, initProvider, owned, refs, secrets, policies, world, plan, left>>

Empty == 0  \* the zero value, which an absent value of the resource has, too

Password == <<"password">>

Paths == {<<"size">>, <<"mode">>, <<"tags", "x">>, <<"tags", "y">>,
          <<"net", "0", "cidr">>, <<"net", "0", "zone">>, Password}

Computed == {<<"mode">>, <<"net", "0", "zone">>}

Fields == {"size", "mode", "tags", "net"}

Parent(path)          == SubSeq(path, 1, Len(path) - 1)
Below(path, prefix)   == /\ Len(prefix) <= Len(path)
                         /\ \A i \in 1..Len(prefix) : path[i] = prefix[i]
Within(doc, prefix)   == {p \in DOMAIN doc : Below(p, prefix)}
WithoutPaths(doc, paths) == Restrict(doc, DOMAIN doc \ paths)
Leaf(path, value)     == [p \in {path} |-> value]

\* What doc does not have is taken from other.
CompletedBy(doc, other) ==
    [p \in DOMAIN doc \cup DOMAIN other |-> IF p \in DOMAIN doc THEN doc[p] ELSE other[p]]

\* doc with what it has of a field replaced.
WithField(doc, field, new) == CompletedBy(new, WithoutPaths(doc, Within(doc, <<field>>)))

\* tags_all is as tags.
TagsAll(path)  == <<"tags_all">> \o Tail(path)
Mirrored(doc)  == {p \in DOMAIN doc : p[1] = "tags"}
WithTagsAll(doc) ==
    CompletedBy(doc, [q \in {TagsAll(p) : p \in Mirrored(doc)} |-> doc[<<"tags">> \o Tail(q)]])

--------------------------------------------------------------------------------
(* Parameters *)

(* GetMergedParameters: what forProvider lacks is taken from initProvider, and so is what
   is a zero value there. *)
GetMergedParameters ==
    [p \in DOMAIN forProvider \cup DOMAIN initProvider |->
        IF p \notin DOMAIN initProvider THEN forProvider[p]
        ELSE IF p \in DOMAIN forProvider /\ forProvider[p] # Empty THEN forProvider[p]
        ELSE initProvider[p]]

(* GetSensitiveParameters: a reference of forProvider overrides that of initProvider, and a
   Secret that is not found gives an empty value. *)
GetSensitiveParameters ==
    LET value(place) == IF secrets[place] = Nil THEN Empty ELSE secrets[place]
    IN  IF "forProvider" \in refs THEN Leaf(Password, value("forProvider"))
        ELSE IF "initProvider" \in refs THEN Leaf(Password, value("initProvider"))
        ELSE <<>>

GetExtendedParameters == WithTagsAll(CompletedBy(GetSensitiveParameters, GetMergedParameters))

--------------------------------------------------------------------------------
(* Differences *)

\* The length keys of the containers.
Length == [tags |-> <<"tags", "%">>, tags_all |-> <<"tags_all", "%">>, net |-> <<"net", "#">>]

\* The number of the elements: indices and keys come second in a path.
Count(doc, name) == {p[2] : p \in {q \in DOMAIN doc : q[1] = name /\ Len(q) > 1}}

\* The Terraform state of the resource, of which zero values are not part.
State(resource) ==
    IF resource = Nil THEN <<>>
    ELSE WithTagsAll(Restrict(resource, {p \in Paths : resource[p] # Empty}))

(* What the provider finds to be different.  A value that is not configured is kept if it is
   computed, in a block that is configured, and is removed otherwise. *)
Diff(config, state) ==
    LET changed == {p \in DOMAIN config : config[p] # (IF p \in DOMAIN state THEN state[p] ELSE Empty)}
        kept(p) == \/ p \in Computed /\ (Len(p) = 1 \/ Within(config, <<p[1]>>) # {})
                   \/ p[1] = "tags_all" /\ Within(config, <<"tags">>) = {}
        removed == {p \in DOMAIN state \ DOMAIN config : ~kept(p)}
        lengths == {Length[n] : n \in {m \in DOMAIN Length :
                        /\ Count(config, m) # Count(state, m)
                        /\ \E p \in changed \cup removed : p[1] = m}}
    IN  [k \in changed \cup removed \cup lengths |-> IF k \in changed THEN config[k] ELSE Empty]

\* Mutants: the whole field is ignored, or nothing that is part of a field.
WholeFields == {<<p[1]>> : p \in DOMAIN initProvider \ DOMAIN forProvider}
NothingNested == {k \in WholeFields : Within(forProvider, k) = {}}

(* getTerraformIgnoreChanges: the least paths that initProvider has a value at and
   forProvider has nothing. *)
GetTerraformIgnoreChanges ==
    LET prefixes == UNION {{SubSeq(p, 1, n) : n \in 1..Len(p)} : p \in DOMAIN initProvider}
    IN  {k \in prefixes : /\ Within(initProvider, k) # {}
                          /\ Within(forProvider, k) = {}
                          /\ Len(k) = 1 \/ Within(forProvider, Parent(k)) # {}}

\* Mutant: the length keys stay.
KeepsLengths(diff) ==
    LET ignored == {d \in DOMAIN diff : \E k \in GetTerraformIgnoreChanges : Below(d, k)}
    IN  WithoutPaths(diff, ignored \cup {TagsAll(d) : d \in {e \in ignored : e[1] = "tags"}})

(* filterInitExclusiveDiffs: the differences at these paths and below are left out, those of
   tags also as tags_all, and the length keys beside the paths. *)
FilterInitExclusiveDiffs(diff) ==
    LET keys    == GetTerraformIgnoreChanges
        ignored == {d \in DOMAIN diff : \E k \in keys : Below(d, k)}
        nested  == {k \in keys : Len(k) > 1}
        lengths == {Append(Parent(k), symbol) : k \in nested, symbol \in {"%", "#"}}
                        \cup {Length.tags_all : k \in {l \in nested : l[1] = "tags"}}
    IN  WithoutPaths(diff, ignored \cup lengths \cup {TagsAll(d) : d \in {e \in ignored : e[1] = "tags"}})

GetResourceDataDiff ==
    LET diff == Diff(GetExtendedParameters, State(world))
    IN  IF policies = "observeOnly" THEN <<>>
        ELSE IF world = Nil THEN diff
        ELSE FilterInitExclusiveDiffs(diff)

UpToDate == world # Nil /\ GetResourceDataDiff = <<>>

--------------------------------------------------------------------------------
(* Late initialization *)

\* Mutant: what is in initProvider is late-initialized, too.
NeverFilters(field) == FALSE

ConditionalFilter(field) ==
    field \in ConditionalIgnoredFields /\ Within(initProvider, <<field>>) # {}

\* All that the resource has in these fields, element by element, but for zero values.
Filled(fields) == Restrict(world, {p \in Paths : p[1] \in fields /\ world[p] # Empty})

\* Only a field that is not set at all is filled: what is set is not completed.
LateInitialize ==
    LET fields == {f \in Fields : /\ f \notin IgnoredFields
                                  /\ ~ConditionalFilter(f)
                                  /\ Within(forProvider, <<f>>) = {}}
    IN  IF policies = "all" THEN CompletedBy(forProvider, Filled(fields)) ELSE forProvider

--------------------------------------------------------------------------------
(* The user, the client and the provider *)

\* What the user sets a field to.
Documents ==
    [size |-> {Leaf(<<"size">>, 0), Leaf(<<"size">>, 1)},
     mode |-> {Leaf(<<"mode">>, 1)},
     tags |-> {Leaf(<<"tags", "x">>, 1), Leaf(<<"tags", "y">>, 1)},
     net  |-> {Leaf(<<"net", "0", "cidr">>, 1), Leaf(<<"net", "0", "zone">>, 1)}]

Disturbed == left > 0 /\ left' = left - 1

SetForProvider(field, doc) ==
    /\ forProvider' = WithField(forProvider, field, doc)
    /\ owned' = DOMAIN doc \cup {p \in owned : p[1] # field}
    /\ UNCHANGED <<initProvider, refs>>

SetInitProvider(field, doc) ==
    /\ initProvider' = WithField(initProvider, field, doc)
    /\ owned' = owned \cup Within(forProvider, <<field>>)
    /\ UNCHANGED <<forProvider, refs>>

Refer(places) ==
    /\ refs' = places
    /\ UNCHANGED <<forProvider, initProvider, owned>>

UserEdits ==
    /\ \/ \E f \in Fields : \E doc \in Documents[f] \cup {<<>>} : SetForProvider(f, doc) \/ SetInitProvider(f, doc)
       \/ \E places \in SUBSET {"forProvider", "initProvider"} : Refer(places)
    /\ <<forProvider', initProvider', refs'>> # <<forProvider, initProvider, refs>>
    /\ Disturbed
    /\ UNCHANGED <<secrets, policies, world, plan>>

SecretChanges ==
    /\ \E place \in refs, value \in {Nil, 1} : secrets' = [secrets EXCEPT ![place] = value]
    /\ Disturbed
    /\ UNCHANGED <<forProvider, initProvider, owned, refs, policies, world, plan>>

\* The client finds the differences; the reconciler stores what it late-initialized.
Observe ==
    /\ plan = Nil
    /\ plan' = IF policies = "observeOnly" \/ UpToDate THEN Nil ELSE GetResourceDataDiff
    /\ forProvider' = IF world = Nil THEN forProvider ELSE LateInitialize
    /\ UNCHANGED <<initProvider, owned, refs, secrets, policies, world, left>>

(* The provider creates or updates the resource.  A block is not added without its length
   key; what is computed has a default. *)
Applied(diff, resource) ==
    LET there == \/ resource[<<"net", "0", "cidr">>] # Empty
                 \/ resource[<<"net", "0", "zone">>] # Empty
                 \/ Length.net \in DOMAIN diff
        set == [p \in Paths |-> IF p \in DOMAIN diff /\ (p[1] = "net" => there) THEN diff[p] ELSE resource[p]]
    IN  [p \in Paths |->
            CASE p = <<"mode">> /\ set[p] = Empty -> 3
              [] p = <<"net", "0", "zone">> /\ set[p] = Empty /\ set[<<"net", "0", "cidr">>] # Empty -> 3
              [] OTHER -> set[p]]

Apply ==
    /\ plan # Nil
    /\ world' = Applied(plan, IF world = Nil THEN [p \in Paths |-> Empty] ELSE world)
    /\ plan' = Nil
    /\ UNCHANGED <<forProvider, initProvider, owned, refs, secrets, policies, left>>

\* Others change the resource.
Drift ==
    /\ world # Nil
    /\ \/ \E p \in Paths \ {Password} : world' = [world EXCEPT ![p] = 2]
       \/ \E f \in Fields \ {"mode"} : world' = [p \in Paths |-> IF p[1] = f THEN Empty ELSE world[p]]
    /\ Disturbed
    /\ UNCHANGED <<forProvider, initProvider, owned, refs, secrets, policies, plan>>

ParametersInit ==
    /\ forProvider = <<>> /\ initProvider = <<>> /\ owned = {} /\ refs = {}
    /\ secrets = [place \in {"forProvider", "initProvider"} |-> 1]
    /\ policies \in {"all", "noLateInitialize", "observeOnly"}
    /\ world = Nil /\ plan = Nil /\ left = MaxDisturbances

Disturb == UserEdits \/ SecretChanges \/ Drift

ParametersNext == Disturb \/ Observe \/ Apply

ParametersSpec == ParametersInit /\ [][ParametersNext]_parametersVars

--------------------------------------------------------------------------------
(* Properties *)

ParametersTypeOK ==
    /\ DOMAIN forProvider \subseteq Paths /\ owned \subseteq DOMAIN forProvider
    /\ DOMAIN initProvider \subseteq Paths
    /\ world # Nil => world \in [Paths -> 0..3]
    /\ plan = <<>> => world = Nil

(* No update is planned for what the user has put into initProvider only, and which is kept
   from late initialization: whoever changes it afterwards is left alone. *)
InitOnlyLeftAlone ==
    [][Observe /\ world # Nil /\ plan' # Nil =>
        \A p \in DOMAIN initProvider \ owned :
            p[1] \in ConditionalIgnoredFields => p \notin DOMAIN plan']_parametersVars

\* The zero values of forProvider that the merge replaces: initProvider has a value there.
Overwritten == {p \in DOMAIN forProvider \cap DOMAIN initProvider : forProvider[p] = Empty}

(* A resource that is reported as up to date has the values of forProvider, those that the
   user has set as well as those that were late-initialized, zero values among them.  The only
   exception is a zero value where initProvider has a value, too: the merge takes that one
   (mergo does not tell a zero value from none), and the resource has it. *)
SpecWins ==
    UpToDate /\ policies # "observeOnly" =>
        \A p \in DOMAIN forProvider :
            world[p] = IF p \in Overwritten THEN initProvider[p] ELSE forProvider[p]

(* The same without the exception, as terraformed.go.tmpl:101-105 says of the merge: "we don't
   want to overwrite the forProvider fields with the initProvider fields".  The code
   violates it: ManagedParameters_zero.cfg. *)
ForProviderKept ==
    UpToDate /\ policies # "observeOnly" =>
        \A p \in DOMAIN forProvider : world[p] = forProvider[p]

(* Once nobody disturbs it any more the client plans nothing in the end: what is left out of
   the differences, completed or late-initialized does not keep it updating for ever.  It needs
   no fairness: a client that stops plans nothing, too. *)
Settles == <>[][plan' = plan]_parametersVars

================================================================================
