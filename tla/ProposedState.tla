------------------------------ MODULE ProposedState ------------------------------
(***************************************************************************)
(* How the client of Terraform Plugin Framework resources plans an update  *)
(* (pkg/controller/external_tfpluginfw.go): the proposed new state is made *)
(* of the configuration and the prior state (proposed_state.go), the       *)
(* provider plans from it, and the plan is compared with the prior state.  *)
(*                                                                         *)
(* An object is the function from its attributes and blocks to values; a   *)
(* list and a set are sequences of objects (Terraform keeps sets in an     *)
(* order, too), a map is a function to objects.  The resource has          *)
(*   name   required, replaced when it changes                             *)
(*   size   optional            mode   optional and computed               *)
(*   arn    computed, the identifier                                       *)
(*   net    an optional and computed object, with cidr optional            *)
(*   ports  an optional list, labels an optional map                       *)
(*   disks  a set, of blocks or of nested attributes                       *)
(* and the objects in it have a computed id.  The objects have no objects  *)
(* below them, so that what is recursive in the code is applied twice.     *)
(***************************************************************************)
EXTENDS FiniteSets, Functions, Naturals, Sequences

CONSTANTS
    Null, Unknown,  \* values
    Strings,        \* the values of strings
    DisksAreBlocks, \* is disks a set of blocks?
    Labels,         \* the keys that labels may have
    Parameters,     \* what the user may set each field to
    MaxConfigured   \* bound on the fields the user has set at a time

VARIABLES
    params,  \* the parameters of the MR, with its external name
    resource \* the resource, Null before it is created; the client has read it

frameworkVars == <<params, resource>>

--------------------------------------------------------------------------------
(* Schemas *)

Attribute(computed, optional) ==
    [nesting |-> "leaf", block |-> FALSE, computed |-> computed, optional |-> optional, attrs |-> <<>>]

Nested(nesting, computed, attrs) ==
    [nesting |-> nesting, block |-> FALSE, computed |-> computed, optional |-> TRUE, attrs |-> attrs]

Block(nesting, attrs) ==
    [nesting |-> nesting, block |-> TRUE, computed |-> FALSE, optional |-> FALSE, attrs |-> attrs]

Required == Attribute(FALSE, FALSE)
Optional == Attribute(FALSE, TRUE)
ReadOnly == Attribute(TRUE, FALSE)
Default  == Attribute(TRUE, TRUE)

Net   == [cidr |-> Optional, id |-> ReadOnly]
Port  == [port |-> Required, id |-> ReadOnly]
Label == [value |-> Required, id |-> ReadOnly]
Disk  == [key |-> Required, tier |-> Default, id |-> ReadOnly]

Schema ==
    [name   |-> Required, size |-> Optional, mode |-> Default, arn |-> ReadOnly,
     net    |-> Nested("single", TRUE, Net),
     ports  |-> Nested("list", FALSE, Port),
     labels |-> Nested("map", FALSE, Label),
     disks  |-> IF DisksAreBlocks THEN Block("set", Disk) ELSE Nested("set", FALSE, Disk)]

ComputedOnly(a) == a.computed /\ ~a.optional

--------------------------------------------------------------------------------
(* The proposed new state (proposed_state.go).  A configuration is wholly known. *)

\* The prior object was configured if it has a value that is not computed.
OptionalValueNotComputable(a, prior) ==
    /\ a.optional /\ a.nesting = "single" /\ prior # Null
    /\ \E n \in DOMAIN a.attrs : prior[n] # Null /\ ~a.attrs[n].computed

(* A computed attribute that is not configured keeps its prior value; any other is as
   configured, and what is proposed for its objects if it has some. *)
ProposedNewAttribute(a, prior, config, nested) ==
    IF a.computed /\ config = Null
    THEN IF OptionalValueNotComputable(a, prior) THEN config ELSE prior
    ELSE IF a.nesting = "leaf" THEN config ELSE nested

PriorOf(prior, n) == IF prior = Null THEN Null ELSE prior[n]

ProposedNewObject(attrs, prior, config) ==
    [n \in DOMAIN attrs |-> ProposedNewAttribute(attrs[n], PriorOf(prior, n), config[n], config[n])]

\* The elements of a list and of a map correspond by their index and key.
ProposedNewElements(a, prior, config) ==
    IF config = Null THEN config
    ELSE [i \in DOMAIN config |->
            IF prior = Null THEN config[i]
            ELSE IF i \notin DOMAIN prior THEN config[i]
            ELSE ProposedNewObject(a.attrs, prior[i], config[i])]

\* Mutant: what is required of the element is not compared.
IgnoresKey(a, prior, config) ==
    \A n \in DOMAIN a.attrs : a.attrs[n].computed => config[n] \in {Null, prior[n]}

(* Could the prior element come from that of the configuration, by adding computed values?
   The attributes are looked up by their paths, which start in the element: a block has an
   attribute of such a path, but a nested attribute is a set at its path, and what is not
   found to be an attribute is not compared. *)
ValidPriorFromConfig(a, prior, config) ==
    \A n \in DOMAIN a.attrs :
        prior[n] = config[n] \/ (a.block => a.attrs[n].computed /\ config[n] = Null)

FirstOf(indices) == IF indices = {} THEN 0 ELSE CHOOSE j \in indices : \A k \in indices : j <= k

\* An element of a set has the first prior element it could be from and that is not used.
Correlated(a, prior, config) ==
    LET from[i \in DOMAIN config] ==
            LET valid == {j \in DOMAIN prior : /\ \A k \in 1..(i - 1) : from[k] # j
                                              /\ ValidPriorFromConfig(a, prior[j], config[i])}
            IN  FirstOf(valid)
    IN  from

ProposedNewSet(a, prior, config) ==
    LET Prior == IF prior = Null THEN <<>> ELSE prior
        from  == Correlated(a, Prior, config)
    IN  IF config = Null THEN config
        ELSE [i \in DOMAIN config |->
                ProposedNewObject(a.attrs, IF from[i] = 0 THEN Null ELSE Prior[from[i]], config[i])]

ProposedNewNested(a, prior, config) ==
    CASE a.nesting = "single" -> IF config = Null THEN config
                                 ELSE ProposedNewObject(a.attrs, prior, config)
      [] a.nesting \in {"list", "map"} -> ProposedNewElements(a, prior, config)
      [] a.nesting = "set" -> ProposedNewSet(a, prior, config)

\* Mutant: what is computed is not kept.
ForgetsPrior(attrs, prior, config) == config

ProposedNewAttributes(attrs, prior, config) ==
    [n \in DOMAIN attrs |->
        ProposedNewAttribute(attrs[n], PriorOf(prior, n), config[n],
                             ProposedNewNested(attrs[n], PriorOf(prior, n), config[n]))]

\* What nothing is known of has its objects and empty containers.
EmptyValue(attrs) ==
    [n \in DOMAIN attrs |->
        CASE attrs[n].nesting = "leaf"   -> Null
          [] attrs[n].nesting = "single" -> [m \in DOMAIN attrs[n].attrs |-> Null]
          [] attrs[n].nesting \in {"list", "set", "map"} -> <<>>]

ProposedNew(prior, config) ==
    ProposedNewAttributes(Schema, IF prior = Null THEN EmptyValue(Schema) ELSE prior, config)

\* What is only computed is taken out of the configuration: the identifier is among the parameters.
ConfigValue == [n \in DOMAIN Schema |-> IF ComputedOnly(Schema[n]) THEN Null ELSE params[n]]

--------------------------------------------------------------------------------
(* The provider.  It replaces the computed values that are not configured, if anything
   changes, by what it knows of the resource, or by Unknown until it has made the changes. *)

MarkedAttribute(n, a, value, nested) ==
    IF ComputedOnly(a) /\ n # "arn" THEN Unknown
    ELSE IF value = Null THEN (IF a.computed THEN Unknown ELSE Null)
    ELSE IF a.nesting = "leaf" THEN value ELSE nested

MarkedObject(attrs, object) ==
    [n \in DOMAIN attrs |-> MarkedAttribute(n, attrs[n], object[n], object[n])]

MarkedNested(a, value) ==
    IF a.nesting = "single" THEN MarkedObject(a.attrs, value)
    ELSE [i \in DOMAIN value |-> MarkedObject(a.attrs, value[i])]

Marked(attrs, object) ==
    [n \in DOMAIN attrs |->
        MarkedAttribute(n, attrs[n], object[n], MarkedNested(attrs[n], object[n]))]

\* Sets are equal in any order.
Equal(x, y) == [x EXCEPT !.disks = Range(@)] = [y EXCEPT !.disks = Range(@)]

Planned(prior, config) ==
    LET proposed == ProposedNew(prior, config)
    IN  IF prior # Null /\ Equal(proposed, prior) THEN prior ELSE Marked(Schema, proposed)

\* The provider names things for what is required of them.
Id(object) == CASE "key"   \in DOMAIN object -> object.key
                [] "port"  \in DOMAIN object -> object.port
                [] "value" \in DOMAIN object -> object.value
                [] "cidr"  \in DOMAIN object -> "net"

MadeObject(planned) ==
    [n \in DOMAIN planned |->
        IF planned[n] # Unknown THEN planned[n]
        ELSE IF n = "id" THEN Id(planned) ELSE "default"]

\* It keeps a set in an order of its own.
Arrangements(set) == {s \in [1..Cardinality(set) -> set] : Range(s) = set}

(* What the provider may make of a plan *)
Made(planned) ==
    LET leaf(n, made)  == IF planned[n] = Unknown THEN made ELSE planned[n]
        elements(n)    == IF planned[n] = Null THEN Null
                          ELSE [i \in DOMAIN planned[n] |-> MadeObject(planned[n][i])]
    IN  {[name |-> planned.name, size |-> planned.size, mode |-> leaf("mode", "default"),
          arn |-> "arn",
          net |-> IF planned.net = Unknown THEN [cidr |-> Null, id |-> "net"]
                  ELSE IF planned.net = Null THEN Null ELSE MadeObject(planned.net),
          ports |-> elements("ports"), labels |-> elements("labels"), disks |-> disks] :
            disks \in Arrangements({MadeObject(disk) : disk \in Range(planned.disks)})}

--------------------------------------------------------------------------------
(* The difference of the plan and the prior state *)

\* Mutant: what is unset makes no difference.
IgnoresUnset(planned, prior, computedOnly) == planned # prior /\ planned \notin {Null, Unknown}

\* A difference counts if something is planned, or unset that is not only computed.
FilteredDiff(planned, prior, computedOnly) ==
    /\ planned # prior
    /\ \/ planned \notin {Null, Unknown}
       \/ planned = Null /\ ~computedOnly

DiffOfObjects(a, planned, prior) ==
    \E n \in DOMAIN a.attrs :
        FilteredDiff(planned[n], prior[n], ComputedOnly(a) \/ ComputedOnly(a.attrs[n]))

DiffOfNested(a, planned, prior) ==
    CASE a.nesting = "single" -> DiffOfObjects(a, planned, prior)
      [] a.nesting = "set"    -> Range(planned) # Range(prior)
      [] a.nesting \in {"list", "map"} ->
            \/ DOMAIN planned # DOMAIN prior
            \/ \E i \in DOMAIN planned : DiffOfObjects(a, planned[i], prior[i])

DiffExists(attrs, planned, prior) ==
    \E n \in DOMAIN attrs :
        IF attrs[n].nesting = "leaf" \/ {planned[n], prior[n]} \cap {Null, Unknown} # {}
        THEN FilteredDiff(planned[n], prior[n], ComputedOnly(attrs[n]))
        ELSE DiffOfNested(attrs[n], planned[n], prior[n])

IsUpToDate(state) == state # Null /\ ~DiffExists(Schema, Planned(state, ConfigValue), state)

AppliedTo(state) == Made(Planned(state, ConfigValue))

(* The attributes of which the provider says that their change requires a replacement,
   reported now and then for attributes that do not change. *)
Reported(planned) == {r \in SUBSET {"name"} : planned.name # resource.name => r = {"name"}}

FilterRequiresReplace(reported, planned) == {n \in reported : planned[n] # resource[n]}

--------------------------------------------------------------------------------
(* Types.  An object is the user's, with no identifier; the resource's, with one; or planned. *)

Optionally(values) == values \cup {Null}

Nets(cidr, id)        == [cidr : cidr, id : id]
Ports(port, id)       == [port : port, id : id]
Values(value, id)     == [value : value, id : id]
Disks(key, tier, id)  == [key : key, tier : tier, id : id]

IsMap(labels, values) == labels # Null => \E keys \in SUBSET Labels : labels \in [keys -> values]

\* The elements of a set differ in what is required of them.
DistinctKeys(disks) == \A i, j \in DOMAIN disks : disks[i].key = disks[j].key => i = j

\* The provider names them for that.
OwnIds(disks) == \A d \in Range(disks) : d.id = d.key

IsConfiguration(p) ==
    /\ p \in [name : Strings, size : Optionally(Strings), mode : Optionally(Strings), arn : {Null, "arn"},
              net : Optionally(Nets(Optionally(Strings), {Null})),
              ports : Optionally(Seq(Ports(Strings, {Null}))), labels : {p.labels},
              disks : Seq(Disks(Strings, Optionally(Strings), {Null}))]
    /\ IsMap(p.labels, Values(Strings, {Null}))
    /\ DistinctKeys(p.disks)

IsResource(w) ==
    /\ w \in [name : Strings, size : Optionally(Strings), mode : Strings, arn : {"arn"},
              net : Optionally(Nets(Optionally(Strings), Strings)),
              ports : Optionally(Seq(Ports(Strings, Strings))), labels : {w.labels},
              disks : Seq(Disks(Strings, Strings, Strings))]
    /\ IsMap(w.labels, Values(Strings, Strings))
    /\ OwnIds(w.disks)

Open    == Strings \cup {Null, Unknown}
Objects == Nets(Open, Open) \cup Ports(Open, Open) \cup Values(Open, Open) \cup Disks(Open, Open, Open)

\* Null and Unknown are none of the values that they may stand for, nor is Null a resource.
ValuesAssumption ==
    /\ Null # Unknown /\ {"arn", "net", "default", "other"} \subseteq Strings
    /\ \A v \in {Null, Unknown} :
          /\ v \notin Strings /\ v \notin Objects /\ v \notin Seq(Objects)
          /\ \A keys \in SUBSET Labels : v \notin [keys -> Objects]
    /\ Null \notin [DOMAIN Schema -> Open \cup Objects \cup Seq(Objects)
                                        \cup UNION {[keys -> Objects] : keys \in SUBSET Labels}]

--------------------------------------------------------------------------------
(* The resource, its user and others *)

Minimal == [name |-> CHOOSE name \in Parameters.name : TRUE, size |-> Null, mode |-> Null,
            arn |-> Null, net |-> Null, ports |-> Null, labels |-> Null, disks |-> <<>>]

\* What the user sets has the types of the schema.
EditsAssumption ==
    /\ Parameters.name # {} /\ IsConfiguration(Minimal)
    /\ \A n \in DOMAIN Parameters : \A value \in Parameters[n] :
          n \in DOMAIN Minimal \ {"arn"} /\ IsConfiguration([Minimal EXCEPT ![n] = value])

FrameworkInit == resource = Null /\ params = Minimal

\* The user changes a field of the spec.
SpecChanges ==
    /\ \E n \in DOMAIN Parameters : \E value \in Parameters[n] :
          params' = [params EXCEPT ![n] = value]
    /\ Cardinality({n \in DOMAIN Parameters : params'[n] # Minimal[n]}) <= MaxConfigured
    /\ UNCHANGED resource

\* A resource that does not exist is created, from a plan of which all but the configuration is open.
Create ==
    /\ resource = Null
    /\ resource' \in AppliedTo(resource)
    /\ params' = [params EXCEPT !.arn = "arn"]

\* A plan that would replace the resource is refused.
Update ==
    /\ resource # Null /\ ~IsUpToDate(resource)
    /\ LET planned == Planned(resource, ConfigValue)
       IN  \E reported \in Reported(planned) : FilterRequiresReplace(reported, planned) = {}
    /\ resource' \in AppliedTo(resource)
    /\ UNCHANGED params

PlanAndApply == Create \/ Update

\* Others change the resource.
OthersChange ==
    /\ resource # Null
    /\ \/ resource' = [resource EXCEPT !.size = "other", !.mode = "other"]
       \/ resource.net # Null /\ resource' = [resource EXCEPT !.net.cidr = "other"]
       \/ resource.ports \notin {Null, <<>>} /\ resource' = [resource EXCEPT !.ports = <<Head(@)>>]
       \/ resource' = [resource EXCEPT !.disks = <<>>, !.labels = Null]
    /\ UNCHANGED params

FrameworkNext == SpecChanges \/ PlanAndApply \/ OthersChange

FrameworkSpec == FrameworkInit /\ [][FrameworkNext]_frameworkVars

--------------------------------------------------------------------------------
(* Properties *)

FrameworkTypeOK == IsConfiguration(params) /\ (resource # Null => IsResource(resource))

ObjectConforms(a, object, config) ==
    \A n \in DOMAIN a.attrs : IF config[n] = Null THEN a.attrs[n].computed \/ object[n] = Null
                              ELSE object[n] = config[n]

NestedConforms(a, objects, configs) ==
    CASE a.nesting = "single" -> ObjectConforms(a, objects, configs)
      [] a.nesting = "set" ->
            /\ \A c \in Range(configs) : \E o \in Range(objects) : ObjectConforms(a, o, c)
            /\ \A o \in Range(objects) : \E c \in Range(configs) : ObjectConforms(a, o, c)
      [] a.nesting \in {"list", "map"} ->
            /\ DOMAIN objects = DOMAIN configs
            /\ \A i \in DOMAIN configs : ObjectConforms(a, objects[i], configs[i])

(* A resource is as configured: what is not computed equals the configuration, also where
   that is empty, and what is computed does where it is configured. *)
Conforms(attrs, object, config) ==
    \A n \in DOMAIN attrs :
        IF config[n] = Null THEN attrs[n].computed \/ object[n] = Null
        ELSE IF attrs[n].nesting = "leaf" THEN object[n] = config[n]
        ELSE object[n] # Null /\ NestedConforms(attrs[n], object[n], config[n])

(* A resource is reported as up to date only when it is as configured: no change that the
   user or others made is lost among the differences that are left out. *)
UpToDateConforms == IsUpToDate(resource) => Conforms(Schema, resource, ConfigValue)

(* An update leaves nothing to update: computed values, unset fields and correlated elements
   make no difference again at the next reconcile, which would repeat it for ever, whatever
   order the provider returns the elements of a set in. *)
UpdateSettles == IsUpToDate(resource) \/ \A made \in AppliedTo(resource) : IsUpToDate(made)

(* What proposed_state.go says of the elements of sets: the prior element of one could have
   been derived from its configuration, so that it proposes the computed values of its own. *)
OwnValues ==
    resource # Null =>
        \A d \in Range(ProposedNew(resource, ConfigValue).disks) : d.id \in {Null, d.key}

================================================================================
