-------------------------- MODULE ProposedState_proofs --------------------------
(***************************************************************************)
(* The plans of the framework client: a resource is up to date only when   *)
(* it is as configured, an update leaves nothing to update, and elements   *)
(* of a set are proposed computed values of their own, whatever the user   *)
(* sets the fields to.  The last two need that disks is a set of blocks.   *)
(***************************************************************************)
EXTENDS ProposedState, Induction, SequenceTheorems, FiniteSetTheorems, TLAPS

--------------------------------------------------------------------------------
(* The correlation of sets *)

\* What Correlated chooses for the i-th element, from what it has chosen for those before.
Unused(a, prior, config, from, i) ==
    {j \in DOMAIN prior : /\ \A k \in 1..(i - 1) : from[k] # j
                          /\ ValidPriorFromConfig(a, prior[j], config[i])}

Choice(a, prior, config, from, i) == FirstOf(Unused(a, prior, config, from, i))

LEMMA CorrelatedExists ==
    ASSUME NEW a, NEW prior, NEW config, NEW n \in Nat, DOMAIN config = 1..n
    PROVE  LET from == Correlated(a, prior, config)
           IN  from = [i \in 1..n |-> Choice(a, prior, config, from, i)]
  <1> DEFINE Is(f, m) == f = [i \in 1..m |-> Choice(a, prior, config, f, i)]
             T == {m \in Nat : \E f : Is(f, m)}
  <1>1. 0 \in T
    <2>1. Is([i \in 1..0 |-> 0], 0)
      OBVIOUS
    <2>. QED
      BY <2>1
  <1>2. ASSUME NEW m \in Nat, m \in T
        PROVE  m + 1 \in T
    <2>1. PICK f : Is(f, m)
      BY <1>2
    <2> DEFINE g == [i \in 1..(m + 1) |-> IF i <= m THEN f[i] ELSE Choice(a, prior, config, f, i)]
    <2>2. ASSUME NEW i \in 1..(m + 1)
          PROVE  Choice(a, prior, config, g, i) = Choice(a, prior, config, f, i)
      <3>1. \A k \in 1..(i - 1) : g[k] = f[k]
        OBVIOUS
      <3>2. Unused(a, prior, config, g, i) = Unused(a, prior, config, f, i)
        BY <3>1 DEF Unused
      <3>. QED
        BY <3>2 DEF Choice
    <2>3. \A i \in 1..(m + 1) : g[i] = Choice(a, prior, config, f, i)
      BY <2>1
    <2>4. g = [i \in 1..(m + 1) |-> Choice(a, prior, config, g, i)]
      BY <2>2, <2>3
    <2>5. Is(g, m + 1)
      BY <2>4
    <2>6. \E h : Is(h, m + 1)
      <3> HIDE DEF Is, g
      <3>. QED
        BY <2>5
    <2>. QED
      BY <2>6
  <1>3. n \in T
    <2> HIDE DEF T
    <2>. QED
      BY <1>1, <1>2, NaturalsByInduction
  <1>4. PICK f : Is(f, n)
    BY <1>3
  <1>5. Correlated(a, prior, config)
            = CHOOSE f_1 : f_1 = [i \in 1..n |-> Choice(a, prior, config, f_1, i)]
    BY DEF Correlated, Choice, Unused
  <1>. QED
    BY <1>4, <1>5

\* An element corresponds to none, or to one that it could be from.
LEMMA CorrelatedIsValid ==
    ASSUME NEW a, NEW prior, NEW config, NEW m \in Nat, DOMAIN prior = 1..m,
           NEW n \in Nat, DOMAIN config = 1..n, NEW i \in 1..n
    PROVE  LET from == Correlated(a, prior, config)
           IN  \/ from[i] = 0 /\ Unused(a, prior, config, from, i) = {}
               \/ from[i] \in Unused(a, prior, config, from, i)
  <1> DEFINE from  == Correlated(a, prior, config)
             valid == Unused(a, prior, config, from, i)
  <1>1. from[i] = Choice(a, prior, config, from, i)
    <2> HIDE DEF from
    <2>1. from = [k \in 1..n |-> Choice(a, prior, config, from, k)]
      BY CorrelatedExists DEF from
    <2>. QED
      BY <2>1
  <1>2. CASE valid = {}
    BY <1>1, <1>2 DEF Choice, FirstOf
  <1>3. CASE valid # {}
    <2>1. valid \in SUBSET Nat
      BY DEF Unused
    <2>2. \E j \in valid : \A k \in valid : j <= k
      BY <1>3, <2>1, Least
    <2>. QED
      BY <1>1, <1>3, <2>2 DEF Choice, FirstOf
  <1>. QED
    BY <1>2, <1>3

--------------------------------------------------------------------------------
(* What the definitions come to for the attributes of the schema *)

Attributes == {"name", "size", "mode", "arn", "net", "ports", "labels", "disks"}

LEMMA SchemaAttributes ==
    /\ DOMAIN Schema = Attributes
    /\ Schema.name = Required /\ Schema.size = Optional
    /\ Schema.mode = Default /\ Schema.arn = ReadOnly
    /\ Schema.net = Nested("single", TRUE, Net)
    /\ Schema.ports = Nested("list", FALSE, Port)
    /\ Schema.labels = Nested("map", FALSE, Label)
    /\ Schema.disks = IF DisksAreBlocks THEN Block("set", Disk) ELSE Nested("set", FALSE, Disk)
  BY DEF Schema, Attributes

LEMMA Leaves ==
    /\ ~Required.computed /\ ~Required.optional /\ Required.nesting = "leaf"
    /\ ~Optional.computed /\ Optional.optional  /\ Optional.nesting = "leaf"
    /\ ReadOnly.computed  /\ ~ReadOnly.optional /\ ReadOnly.nesting = "leaf"
    /\ Default.computed   /\ Default.optional   /\ Default.nesting = "leaf"
  BY DEF Required, Optional, ReadOnly, Default, Attribute

LEMMA Nestings ==
    /\ Schema.net.nesting = "single" /\ Schema.net.computed /\ Schema.net.optional
    /\ Schema.net.attrs = Net
    /\ Schema.ports.nesting = "list" /\ ~Schema.ports.computed /\ Schema.ports.attrs = Port
    /\ Schema.labels.nesting = "map" /\ ~Schema.labels.computed /\ Schema.labels.attrs = Label
    /\ Schema.disks.nesting = "set" /\ ~Schema.disks.computed /\ Schema.disks.attrs = Disk
    /\ DisksAreBlocks => Schema.disks.block
  BY SchemaAttributes DEF Nested, Block

Kept(prior, config, n) == IF config[n] = Null THEN PriorOf(prior, n) ELSE config[n]

LEMMA ProposedObjects ==
    ASSUME NEW prior, NEW config
    PROVE  /\ ProposedNewObject(Net, prior, config)
                = [cidr |-> config.cidr, id |-> Kept(prior, config, "id")]
           /\ ProposedNewObject(Port, prior, config)
                = [port |-> config.port, id |-> Kept(prior, config, "id")]
           /\ ProposedNewObject(Label, prior, config)
                = [value |-> config.value, id |-> Kept(prior, config, "id")]
           /\ ProposedNewObject(Disk, prior, config)
                = [key |-> config.key, tier |-> Kept(prior, config, "tier"),
                   id |-> Kept(prior, config, "id")]
  <1>1. \A p, c, nested : /\ ProposedNewAttribute(Required, p, c, nested) = c
                          /\ ProposedNewAttribute(Optional, p, c, nested) = c
    BY Leaves DEF ProposedNewAttribute
  <1>2. \A p, c, nested : /\ ProposedNewAttribute(ReadOnly, p, c, nested) = IF c = Null THEN p ELSE c
                          /\ ProposedNewAttribute(Default, p, c, nested) = IF c = Null THEN p ELSE c
    BY Leaves DEF ProposedNewAttribute, OptionalValueNotComputable
  <1>. QED
    BY <1>1, <1>2 DEF ProposedNewObject, Kept, Net, Port, Label, Disk

Start(prior) == IF prior = Null THEN EmptyValue(Schema) ELSE prior

LEMMA IsSequence ==
    ASSUME NEW S, NEW n \in Nat, NEW s, s = [i \in 1..n |-> s[i]], \A i \in 1..n : s[i] \in S
    PROVE  s \in Seq(S)
  BY SeqDef

LEMMA ObjectsAre ==
    ASSUME NEW A \in SUBSET Open, NEW B \in SUBSET Open, NEW C \in SUBSET Open
    PROVE  /\ Nets(A, B) \subseteq Objects /\ Ports(A, B) \subseteq Objects
           /\ Values(A, B) \subseteq Objects /\ Disks(A, B, C) \subseteq Objects
  <1>1. Nets(A, B) \subseteq Nets(Open, Open)
    BY DEF Nets
  <1>2. Ports(A, B) \subseteq Ports(Open, Open)
    BY DEF Ports
  <1>3. Values(A, B) \subseteq Values(Open, Open)
    BY DEF Values
  <1>4. Disks(A, B, C) \subseteq Disks(Open, Open, Open)
    BY DEF Disks
  <1>. QED
    BY <1>1, <1>2, <1>3, <1>4 DEF Objects

LEMMA NoValues ==
    ASSUME ValuesAssumption, NEW v \in {Null, Unknown}
    PROVE  /\ v \notin Strings /\ v \notin Objects
           /\ \A S \in SUBSET Objects :
                 /\ v \notin Seq(S)
                 /\ \A keys \in SUBSET Labels : v \notin [keys -> S]
  <1>1. /\ v \notin Strings /\ v \notin Objects /\ v \notin Seq(Objects)
        /\ \A keys \in SUBSET Labels : v \notin [keys -> Objects]
    BY DEF ValuesAssumption
  <1>2. ASSUME NEW S \in SUBSET Objects
        PROVE  v \notin Seq(S)
    <2>1. v \in Seq(S) => v \in Seq(Objects)
      BY SeqMonotonic
    <2>. QED
      BY <1>1, <2>1
  <1>3. ASSUME NEW S \in SUBSET Objects, NEW keys \in SUBSET Labels
        PROVE  v \notin [keys -> S]
    <2>1. [keys -> S] \subseteq [keys -> Objects]
      OBVIOUS
    <2>. QED
      BY <1>1, <2>1
  <1>. QED
    BY <1>1, <1>2, <1>3

LEMMA TextsAreStrings ==
    ASSUME ValuesAssumption
    PROVE  "arn" \in Strings /\ "net" \in Strings /\ "default" \in Strings /\ "other" \in Strings
  BY DEF ValuesAssumption

LEMMA NullIsNotUnknown ==
    ASSUME ValuesAssumption
    PROVE  Null # Unknown
  BY DEF ValuesAssumption

LEMMA EmptyIs ==
    /\ EmptyValue(Schema).name = Null /\ EmptyValue(Schema).size = Null
    /\ EmptyValue(Schema).mode = Null /\ EmptyValue(Schema).arn = Null
    /\ EmptyValue(Schema).net = [cidr |-> Null, id |-> Null]
    /\ EmptyValue(Schema).ports = <<>> /\ EmptyValue(Schema).labels = <<>>
    /\ EmptyValue(Schema).disks = <<>>
  BY SchemaAttributes, Leaves, Nestings DEF EmptyValue, Attributes, Net

\* What has the attributes of a resource, and possible values for them, is not Null.
LEMMA NullIsNoResource ==
    ASSUME ValuesAssumption, NEW w,
           w = [n \in Attributes |-> w[n]],
           \A n \in Attributes \ {"labels"} : w[n] \in Open \cup Objects \cup Seq(Objects),
           \E keys \in SUBSET Labels : w.labels \in Open \cup [keys -> Objects]
    PROVE  w # Null
  <1> DEFINE Any == Open \cup Objects \cup Seq(Objects) \cup UNION {[keys -> Objects] : keys \in SUBSET Labels}
  <1>1. \A n \in Attributes : w[n] \in Any
    <2>1. w.labels \in Any
      OBVIOUS
    <2>. QED
      BY <2>1 DEF Attributes
  <1>2. Null \notin [DOMAIN Schema -> Any]
    BY DEF ValuesAssumption
  <1>3. w \in [Attributes -> Any]
    <2> HIDE DEF Any
    <2>. QED
      BY <1>1
  <1>. QED
    BY <1>2, <1>3, SchemaAttributes

LEMMA StartIsNotNull ==
    ASSUME ValuesAssumption, NEW prior
    PROVE  Start(prior) # Null
  <1> DEFINE e == EmptyValue(Schema)
  <1>1. e = [n \in Attributes |-> e[n]]
    <2> DEFINE E(n) == CASE Schema[n].nesting = "leaf"   -> Null
                         [] Schema[n].nesting = "single" -> [m \in DOMAIN Schema[n].attrs |-> Null]
                         [] Schema[n].nesting \in {"list", "set", "map"} -> <<>>
    <2>1. e = [n \in Attributes |-> E(n)]
      BY SchemaAttributes DEF EmptyValue
    <2> HIDE DEF E, e
    <2>. QED
      BY <2>1
  <1>2. <<>> \in Seq(Objects) /\ <<>> \in [{} -> Objects]
    <2>1. DOMAIN <<>> = {} /\ <<>> = [i \in {} |-> 0]
      OBVIOUS
    <2>. QED
      BY <2>1, EmptySeq
  <1>3. e.net \in Objects
    BY EmptyIs DEF Objects, Nets, Open
  <1>4. \A n \in Attributes \ {"labels"} : e[n] \in Open \cup Objects \cup Seq(Objects)
    <2> HIDE DEF e
    <2>1. e.name \in Open /\ e.size \in Open /\ e.mode \in Open /\ e.arn \in Open
      BY EmptyIs DEF Open, e
    <2>2. e.ports \in Seq(Objects) /\ e.disks \in Seq(Objects)
      BY EmptyIs, <1>2 DEF e
    <2>. QED
      BY <1>3, <2>1, <2>2 DEF Attributes
  <1>5. \E keys \in SUBSET Labels : e.labels \in Open \cup [keys -> Objects]
    BY EmptyIs, <1>2
  <1>6. e # Null
    <2> HIDE DEF e
    <2>. QED
      BY <1>1, <1>4, <1>5, NullIsNoResource
  <1>. QED
    BY <1>6 DEF Start

LEMMA ProposedIs ==
    ASSUME ValuesAssumption, NEW prior, NEW config
    PROVE  LET proposed == ProposedNew(prior, config)
               start    == Start(prior)
           IN  /\ DOMAIN proposed = Attributes
               /\ proposed = [n \in Attributes |-> proposed[n]]
               /\ proposed.name = config.name /\ proposed.size = config.size
               /\ proposed.mode = Kept(start, config, "mode")
               /\ proposed.arn = Kept(start, config, "arn")
               /\ proposed.net = IF config.net # Null THEN ProposedNewObject(Net, start.net, config.net)
                                 ELSE IF OptionalValueNotComputable(Schema.net, start.net) THEN Null
                                 ELSE start.net
               /\ proposed.ports = ProposedNewElements(Schema.ports, start.ports, config.ports)
               /\ proposed.labels = ProposedNewElements(Schema.labels, start.labels, config.labels)
               /\ proposed.disks = ProposedNewSet(Schema.disks, start.disks, config.disks)
  <1> DEFINE start == Start(prior)
             P(n)  == ProposedNewAttribute(Schema[n], start[n], config[n],
                                           ProposedNewNested(Schema[n], start[n], config[n]))
  <1>1. ProposedNew(prior, config) = [n \in Attributes |-> P(n)]
    BY SchemaAttributes, StartIsNotNull DEF ProposedNew, ProposedNewAttributes, PriorOf, Start
  <1>2. P("name") = config.name /\ P("size") = config.size
    BY SchemaAttributes, Leaves DEF ProposedNewAttribute
  <1>3. P("mode") = Kept(start, config, "mode") /\ P("arn") = Kept(start, config, "arn")
    BY SchemaAttributes, StartIsNotNull, Leaves DEF ProposedNewAttribute, OptionalValueNotComputable, Kept, PriorOf
  <1>4. P("net") = IF config.net # Null THEN ProposedNewObject(Net, start.net, config.net)
                   ELSE IF OptionalValueNotComputable(Schema.net, start.net) THEN Null
                   ELSE start.net
    BY Nestings DEF ProposedNewAttribute, ProposedNewNested
  <1>5. /\ P("ports") = ProposedNewElements(Schema.ports, start.ports, config.ports)
        /\ P("labels") = ProposedNewElements(Schema.labels, start.labels, config.labels)
        /\ P("disks") = ProposedNewSet(Schema.disks, start.disks, config.disks)
    BY Nestings DEF ProposedNewAttribute, ProposedNewNested
  <1> HIDE DEF P
  <1>. QED
    BY <1>1, <1>2, <1>3, <1>4, <1>5 DEF Attributes

--------------------------------------------------------------------------------
(* What the provider makes of a proposed state that differs from the prior one *)

Known == Optionally(Strings)

NetOf(o)   == [cidr |-> o.cidr, id |-> "net"]
PortOf(o)  == [port |-> o.port, id |-> o.port]
LabelOf(o) == [value |-> o.value, id |-> o.value]
DiskOf(o)  == [key |-> o.key, tier |-> IF o.tier = Null THEN "default" ELSE o.tier, id |-> o.key]

IsProposal(p) ==
    /\ p \in [name : Strings, size : Known, mode : Known, arn : {Null, "arn"},
              net : Optionally(Nets(Known, Known)), ports : Optionally(Seq(Ports(Strings, Known))),
              labels : {p.labels}, disks : Seq(Disks(Strings, Known, Known))]
    /\ IsMap(p.labels, Values(Strings, Known))

LEMMA MarkedObjects ==
    ASSUME NEW o
    PROVE  /\ MarkedObject(Net, o) = [cidr |-> o.cidr, id |-> Unknown]
           /\ MarkedObject(Port, o) = [port |-> o.port, id |-> Unknown]
           /\ MarkedObject(Label, o) = [value |-> o.value, id |-> Unknown]
           /\ MarkedObject(Disk, o) = [key |-> o.key, tier |-> IF o.tier = Null THEN Unknown ELSE o.tier,
                                       id |-> Unknown]
  <1>1. \A n, value : /\ MarkedAttribute(n, Required, value, value) = value
                      /\ MarkedAttribute(n, Optional, value, value) = value
                      /\ MarkedAttribute(n, Default, value, value) = IF value = Null THEN Unknown ELSE value
                      /\ n # "arn" => MarkedAttribute(n, ReadOnly, value, value) = Unknown
    BY Leaves DEF MarkedAttribute, ComputedOnly
  <1>. QED
    BY <1>1 DEF MarkedObject, Net, Port, Label, Disk

LEMMA MadeObjects ==
    ASSUME ValuesAssumption
    PROVE  /\ \A o \in Nets(Known, Known) : MadeObject(MarkedObject(Net, o)) = NetOf(o)
           /\ \A o \in Ports(Strings, Known) : MadeObject(MarkedObject(Port, o)) = PortOf(o)
           /\ \A o \in Values(Strings, Known) : MadeObject(MarkedObject(Label, o)) = LabelOf(o)
           /\ \A o \in Disks(Strings, Known, Known) : MadeObject(MarkedObject(Disk, o)) = DiskOf(o)
  <1>1. \A v \in Known : v # Unknown
    BY NoValues, NullIsNotUnknown DEF Known, Optionally
  <1>2. \A v \in Strings : v # Unknown /\ v # Null
    BY NoValues
  <1>3. ASSUME NEW o \in Nets(Known, Known)
        PROVE  MadeObject(MarkedObject(Net, o)) = NetOf(o)
    <2> DEFINE marked == MarkedObject(Net, o)
    <2> SUFFICES MadeObject(marked) = NetOf(o)
      OBVIOUS
    <2>1. marked = [cidr |-> o.cidr, id |-> Unknown]
      BY MarkedObjects
    <2>2. Id(marked) = "net"
      <3> HIDE DEF marked
      <3>. QED
        BY <2>1 DEF Id
    <2> HIDE DEF marked
    <2>3. MadeObject(marked) = [n \in DOMAIN marked |->
              IF marked[n] # Unknown THEN marked[n]
              ELSE IF n = "id" THEN Id(marked) ELSE "default"]
      BY DEF MadeObject
    <2>. QED
      BY <1>1, <1>2, <2>1, <2>2, <2>3 DEF NetOf, Nets
  <1>4. ASSUME NEW o \in Ports(Strings, Known)
        PROVE  MadeObject(MarkedObject(Port, o)) = PortOf(o)
    <2> DEFINE marked == MarkedObject(Port, o)
    <2> SUFFICES MadeObject(marked) = PortOf(o)
      OBVIOUS
    <2>1. marked = [port |-> o.port, id |-> Unknown]
      BY MarkedObjects
    <2>2. Id(marked) = o.port
      <3> HIDE DEF marked
      <3>. QED
        BY <2>1 DEF Id
    <2> HIDE DEF marked
    <2>3. MadeObject(marked) = [n \in DOMAIN marked |->
              IF marked[n] # Unknown THEN marked[n]
              ELSE IF n = "id" THEN Id(marked) ELSE "default"]
      BY DEF MadeObject
    <2>. QED
      BY <1>1, <1>2, <2>1, <2>2, <2>3 DEF PortOf, Ports
  <1>5. ASSUME NEW o \in Values(Strings, Known)
        PROVE  MadeObject(MarkedObject(Label, o)) = LabelOf(o)
    <2> DEFINE marked == MarkedObject(Label, o)
    <2> SUFFICES MadeObject(marked) = LabelOf(o)
      OBVIOUS
    <2>1. marked = [value |-> o.value, id |-> Unknown]
      BY MarkedObjects
    <2>2. Id(marked) = o.value
      <3> HIDE DEF marked
      <3>. QED
        BY <2>1 DEF Id
    <2> HIDE DEF marked
    <2>3. MadeObject(marked) = [n \in DOMAIN marked |->
              IF marked[n] # Unknown THEN marked[n]
              ELSE IF n = "id" THEN Id(marked) ELSE "default"]
      BY DEF MadeObject
    <2>. QED
      BY <1>1, <1>2, <2>1, <2>2, <2>3 DEF LabelOf, Values
  <1>6. ASSUME NEW o \in Disks(Strings, Known, Known)
        PROVE  MadeObject(MarkedObject(Disk, o)) = DiskOf(o)
    <2> DEFINE marked == MarkedObject(Disk, o)
    <2> SUFFICES MadeObject(marked) = DiskOf(o)
      OBVIOUS
    <2>1. marked = [key |-> o.key, tier |-> IF o.tier = Null THEN Unknown ELSE o.tier, id |-> Unknown]
      BY MarkedObjects
    <2>2. Id(marked) = o.key
      <3> HIDE DEF marked
      <3>. QED
        BY <2>1 DEF Id
    <2> HIDE DEF marked
    <2>3. MadeObject(marked) = [n \in DOMAIN marked |->
              IF marked[n] # Unknown THEN marked[n]
              ELSE IF n = "id" THEN Id(marked) ELSE "default"]
      BY DEF MadeObject
    <2>. QED
      BY <1>1, <1>2, <2>1, <2>2, <2>3 DEF DiskOf, Disks
  <1>. QED
    BY <1>3, <1>4, <1>5, <1>6

LEMMA MarkedIs ==
    ASSUME NEW p
    PROVE  LET marked == Marked(Schema, p)
           IN  /\ DOMAIN marked = Attributes
               /\ marked.name = p.name /\ marked.size = p.size
               /\ marked.mode = IF p.mode = Null THEN Unknown ELSE p.mode
               /\ marked.arn = IF p.arn = Null THEN Unknown ELSE p.arn
               /\ marked.net = IF p.net = Null THEN Unknown ELSE MarkedObject(Net, p.net)
               /\ marked.ports = IF p.ports = Null THEN Null
                                 ELSE [i \in DOMAIN p.ports |-> MarkedObject(Port, p.ports[i])]
               /\ marked.labels = IF p.labels = Null THEN Null
                                  ELSE [i \in DOMAIN p.labels |-> MarkedObject(Label, p.labels[i])]
               /\ marked.disks = IF p.disks = Null THEN Null
                                 ELSE [i \in DOMAIN p.disks |-> MarkedObject(Disk, p.disks[i])]
  <1> DEFINE M(n) == MarkedAttribute(n, Schema[n], p[n], MarkedNested(Schema[n], p[n]))
  <1>1. Marked(Schema, p) = [n \in Attributes |-> M(n)]
    BY SchemaAttributes DEF Marked
  <1>2. /\ M("name") = p.name /\ M("size") = p.size
        /\ M("mode") = IF p.mode = Null THEN Unknown ELSE p.mode
        /\ M("arn") = IF p.arn = Null THEN Unknown ELSE p.arn
    BY SchemaAttributes, Leaves DEF MarkedAttribute, ComputedOnly
  <1>3. M("net") = IF p.net = Null THEN Unknown ELSE MarkedObject(Net, p.net)
    BY Nestings DEF MarkedAttribute, MarkedNested, ComputedOnly
  <1>4. M("ports") = IF p.ports = Null THEN Null
                     ELSE [i \in DOMAIN p.ports |-> MarkedObject(Port, p.ports[i])]
    BY Nestings DEF MarkedAttribute, MarkedNested, ComputedOnly
  <1>5. M("labels") = IF p.labels = Null THEN Null
                      ELSE [i \in DOMAIN p.labels |-> MarkedObject(Label, p.labels[i])]
    BY Nestings DEF MarkedAttribute, MarkedNested, ComputedOnly
  <1>6. M("disks") = IF p.disks = Null THEN Null
                     ELSE [i \in DOMAIN p.disks |-> MarkedObject(Disk, p.disks[i])]
    BY Nestings DEF MarkedAttribute, MarkedNested, ComputedOnly
  <1> HIDE DEF M
  <1>. QED
    BY <1>1, <1>2, <1>3, <1>4, <1>5, <1>6 DEF Attributes

LEMMA KnownIsOpen == Strings \subseteq Open /\ Known \subseteq Open /\ {Null, Unknown} \subseteq Open
  BY DEF Known, Open, Optionally

LEMMA MarkedAreObjects ==
    /\ \A o \in Nets(Known, Known) : MarkedObject(Net, o) \in Objects
    /\ \A o \in Ports(Strings, Known) : MarkedObject(Port, o) \in Objects
    /\ \A o \in Values(Strings, Known) : MarkedObject(Label, o) \in Objects
    /\ \A o \in Disks(Strings, Known, Known) : MarkedObject(Disk, o) \in Objects
  <1>1. ASSUME NEW o \in Nets(Known, Known)
        PROVE  MarkedObject(Net, o) \in Nets(Open, Open)
    BY MarkedObjects, KnownIsOpen DEF Nets
  <1>2. ASSUME NEW o \in Ports(Strings, Known)
        PROVE  MarkedObject(Port, o) \in Ports(Open, Open)
    <2>1. o.port \in Open
      BY KnownIsOpen DEF Ports
    <2>2. MarkedObject(Port, o) = [port |-> o.port, id |-> Unknown]
      BY MarkedObjects
    <2>. QED
      BY <2>1, <2>2, KnownIsOpen DEF Ports
  <1>3. ASSUME NEW o \in Values(Strings, Known)
        PROVE  MarkedObject(Label, o) \in Values(Open, Open)
    <2>1. o.value \in Open
      BY KnownIsOpen DEF Values
    <2>2. MarkedObject(Label, o) = [value |-> o.value, id |-> Unknown]
      BY MarkedObjects
    <2>. QED
      BY <2>1, <2>2, KnownIsOpen DEF Values
  <1>4. ASSUME NEW o \in Disks(Strings, Known, Known)
        PROVE  MarkedObject(Disk, o) \in Disks(Open, Open, Open)
    <2>1. o.key \in Open /\ o.tier \in Open
      BY KnownIsOpen DEF Disks
    <2>2. MarkedObject(Disk, o) = [key |-> o.key, tier |-> IF o.tier = Null THEN Unknown ELSE o.tier, id |-> Unknown]
      BY MarkedObjects
    <2>. QED
      BY <2>1, <2>2, KnownIsOpen DEF Disks
  <1>. QED
    BY <1>1, <1>2, <1>3, <1>4 DEF Objects

\* What is made of a proposal: all but the order of the disks.
Result(p, disks) ==
    [name |-> p.name, size |-> p.size, mode |-> IF p.mode = Null THEN "default" ELSE p.mode,
     arn |-> "arn",
     net |-> IF p.net = Null THEN [cidr |-> Null, id |-> "net"] ELSE NetOf(p.net),
     ports |-> IF p.ports = Null THEN Null ELSE [i \in DOMAIN p.ports |-> PortOf(p.ports[i])],
     labels |-> IF p.labels = Null THEN Null ELSE [i \in DOMAIN p.labels |-> LabelOf(p.labels[i])],
     disks |-> disks]

Results(p) == {Result(p, disks) : disks \in Arrangements({DiskOf(d) : d \in Range(p.disks)})}

LEMMA ProposalFields ==
    ASSUME NEW p, IsProposal(p)
    PROVE  /\ p.name \in Strings /\ p.size \in Known /\ p.mode \in Known /\ p.arn \in {Null, "arn"}
           /\ p.net \in Optionally(Nets(Known, Known))
           /\ p.ports \in Optionally(Seq(Ports(Strings, Known)))
           /\ p.disks \in Seq(Disks(Strings, Known, Known))
           /\ p.labels # Null => \E keys \in SUBSET Labels : p.labels \in [keys -> Values(Strings, Known)]
  BY DEF IsProposal, IsMap

\* What is proposed for an object or a container is planned, with open values in it.
LEMMA MarkedNests ==
    ASSUME ValuesAssumption, NEW p, IsProposal(p)
    PROVE  LET marked == Marked(Schema, p)
           IN  /\ p.net # Null => marked.net \notin {Null, Unknown}
               /\ p.ports # Null => marked.ports \notin {Null, Unknown}
               /\ p.labels # Null => marked.labels \notin {Null, Unknown}
               /\ p.disks # Null /\ marked.disks \notin {Null, Unknown}
  <1> DEFINE marked == Marked(Schema, p)
  <1> HIDE DEF marked
  <1>1. Objects \in SUBSET Objects
    OBVIOUS
  <1>2. ASSUME p.net # Null
        PROVE  marked.net \notin {Null, Unknown}
    <2>1. p.net \in Nets(Known, Known) /\ marked.net = MarkedObject(Net, p.net)
      BY <1>2, MarkedIs, ProposalFields DEF marked, Optionally
    <2>2. marked.net \in Objects
      BY <2>1, MarkedAreObjects
    <2>. QED
      BY <2>2, NoValues
  <1>3. ASSUME p.ports # Null
        PROVE  marked.ports \notin {Null, Unknown}
    <2>1. /\ p.ports \in Seq(Ports(Strings, Known))
          /\ marked.ports = [i \in DOMAIN p.ports |-> MarkedObject(Port, p.ports[i])]
      BY <1>3, MarkedIs, ProposalFields DEF marked, Optionally
    <2>2. \A i \in DOMAIN p.ports : p.ports[i] \in Ports(Strings, Known)
      BY <2>1, ElementOfSeq, LenProperties
    <2>3. \A i \in DOMAIN p.ports : MarkedObject(Port, p.ports[i]) \in Objects
      BY <2>2, MarkedAreObjects
    <2>4. marked.ports \in Seq(Objects)
      BY <2>1, <2>3, LenProperties, IsSequence
    <2>. QED
      BY <1>1, <2>4, NoValues
  <1>4. ASSUME p.labels # Null
        PROVE  marked.labels \notin {Null, Unknown}
    <2>1. PICK keys \in SUBSET Labels : p.labels \in [keys -> Values(Strings, Known)]
      BY <1>4, ProposalFields
    <2>2. marked.labels = [i \in keys |-> MarkedObject(Label, p.labels[i])]
      BY <1>4, <2>1, MarkedIs DEF marked
    <2>3. \A i \in keys : MarkedObject(Label, p.labels[i]) \in Objects
      BY <2>1, MarkedAreObjects
    <2>4. marked.labels \in [keys -> Objects]
      BY <2>2, <2>3
    <2>5. Null \notin [keys -> Objects] /\ Unknown \notin [keys -> Objects]
      BY <1>1, NoValues
    <2>. QED
      BY <2>4, <2>5
  <1>5. p.disks # Null /\ marked.disks \notin {Null, Unknown}
    <2>1. p.disks \in Seq(Disks(Strings, Known, Known)) /\ Disks(Strings, Known, Known) \subseteq Objects
      BY ProposalFields, ObjectsAre, KnownIsOpen
    <2>2. p.disks # Null
      BY <2>1, NoValues
    <2>3. marked.disks = [i \in DOMAIN p.disks |-> MarkedObject(Disk, p.disks[i])]
      BY <2>2, MarkedIs DEF marked
    <2>4. \A i \in DOMAIN p.disks : p.disks[i] \in Disks(Strings, Known, Known)
      BY <2>1, ElementOfSeq, LenProperties
    <2>5. \A i \in DOMAIN p.disks : MarkedObject(Disk, p.disks[i]) \in Objects
      BY <2>4, MarkedAreObjects
    <2>6. marked.disks \in Seq(Objects)
      BY <2>1, <2>3, <2>5, LenProperties, IsSequence
    <2>. QED
      BY <1>1, <2>2, <2>6, NoValues
  <1>. QED
    BY <1>2, <1>3, <1>4, <1>5 DEF marked

LEMMA MadeIs ==
    ASSUME ValuesAssumption, NEW p, IsProposal(p)
    PROVE  Made(Marked(Schema, p)) = Results(p)
  <1> DEFINE marked == Marked(Schema, p)
  <1> HIDE DEF marked
  <1> USE ProposalFields, NullIsNotUnknown
  <1>1. (IF marked.mode = Unknown THEN "default" ELSE marked.mode)
            = IF p.mode = Null THEN "default" ELSE p.mode
    <2>1. marked.mode = IF p.mode = Null THEN Unknown ELSE p.mode
      BY MarkedIs DEF marked
    <2>2. p.mode # Unknown
      BY NoValues DEF Known, Optionally
    <2>. QED
      BY <2>1, <2>2
  <1>2. (IF marked.net = Unknown THEN [cidr |-> Null, id |-> "net"]
         ELSE IF marked.net = Null THEN Null ELSE MadeObject(marked.net))
            = IF p.net = Null THEN [cidr |-> Null, id |-> "net"] ELSE NetOf(p.net)
    <2>1. CASE p.net = Null
      BY <2>1, MarkedIs DEF marked
    <2>2. CASE p.net # Null
      <3>1. p.net \in Nets(Known, Known) /\ marked.net = MarkedObject(Net, p.net)
        BY <2>2, MarkedIs DEF marked, Optionally
      <3>2. marked.net # Unknown /\ marked.net # Null
        BY <2>2, MarkedNests DEF marked
      <3>. QED
        BY <2>2, <3>1, <3>2, MadeObjects
    <2>. QED
      BY <2>1, <2>2
  <1>3. (IF marked.ports = Null THEN Null ELSE [i \in DOMAIN marked.ports |-> MadeObject(marked.ports[i])])
            = IF p.ports = Null THEN Null ELSE [i \in DOMAIN p.ports |-> PortOf(p.ports[i])]
    <2>1. CASE p.ports = Null
      BY <2>1, MarkedIs DEF marked
    <2>2. CASE p.ports # Null
      <3>1. /\ p.ports \in Seq(Ports(Strings, Known))
            /\ marked.ports = [i \in DOMAIN p.ports |-> MarkedObject(Port, p.ports[i])]
        BY <2>2, MarkedIs DEF marked, Optionally
      <3>2. \A i \in DOMAIN p.ports : p.ports[i] \in Ports(Strings, Known)
        BY <3>1, ElementOfSeq, LenProperties
      <3>3. \A i \in DOMAIN p.ports : MadeObject(MarkedObject(Port, p.ports[i])) = PortOf(p.ports[i])
        BY <3>2, MadeObjects
      <3>4. marked.ports # Null
        BY <2>2, MarkedNests DEF marked
      <3>. QED
        BY <2>2, <3>1, <3>3, <3>4
    <2>. QED
      BY <2>1, <2>2
  <1>4. (IF marked.labels = Null THEN Null ELSE [i \in DOMAIN marked.labels |-> MadeObject(marked.labels[i])])
            = IF p.labels = Null THEN Null ELSE [i \in DOMAIN p.labels |-> LabelOf(p.labels[i])]
    <2>1. CASE p.labels = Null
      BY <2>1, MarkedIs DEF marked
    <2>2. CASE p.labels # Null
      <3>1. PICK keys \in SUBSET Labels : p.labels \in [keys -> Values(Strings, Known)]
        BY <2>2
      <3>2. marked.labels = [i \in keys |-> MarkedObject(Label, p.labels[i])] /\ DOMAIN p.labels = keys
        BY <2>2, <3>1, MarkedIs DEF marked
      <3>3. \A i \in keys : MadeObject(MarkedObject(Label, p.labels[i])) = LabelOf(p.labels[i])
        BY <3>1, MadeObjects
      <3>4. marked.labels # Null
        BY <2>2, MarkedNests DEF marked
      <3>. QED
        BY <2>2, <3>2, <3>3, <3>4
    <2>. QED
      BY <2>1, <2>2
  <1>5. {MadeObject(disk) : disk \in Range(marked.disks)} = {DiskOf(d) : d \in Range(p.disks)}
    <2>1. p.disks # Null
      BY MarkedNests
    <2>2. marked.disks = [i \in DOMAIN p.disks |-> MarkedObject(Disk, p.disks[i])]
      BY <2>1, MarkedIs DEF marked
    <2>3. \A i \in DOMAIN p.disks : MadeObject(MarkedObject(Disk, p.disks[i])) = DiskOf(p.disks[i])
      <3>1. \A i \in DOMAIN p.disks : p.disks[i] \in Disks(Strings, Known, Known)
        BY ElementOfSeq, LenProperties
      <3>. QED
        BY <3>1, MadeObjects
    <2>. QED
      BY <2>2, <2>3 DEF Range
  <1>6. marked.name = p.name /\ marked.size = p.size
    BY MarkedIs DEF marked
  <1>7. Made(marked) = Results(p)
    <2> DEFINE M(disks) ==
          [name |-> marked.name, size |-> marked.size,
           mode |-> IF marked.mode = Unknown THEN "default" ELSE marked.mode,
           arn |-> "arn",
           net |-> IF marked.net = Unknown THEN [cidr |-> Null, id |-> "net"]
                   ELSE IF marked.net = Null THEN Null ELSE MadeObject(marked.net),
           ports |-> IF marked.ports = Null THEN Null
                     ELSE [i \in DOMAIN marked.ports |-> MadeObject(marked.ports[i])],
           labels |-> IF marked.labels = Null THEN Null
                      ELSE [i \in DOMAIN marked.labels |-> MadeObject(marked.labels[i])],
           disks |-> disks]
    <2>1. Made(marked) = {M(disks) : disks \in Arrangements({MadeObject(disk) : disk \in Range(marked.disks)})}
      BY DEF Made
    <2>2. ASSUME NEW disks
          PROVE  M(disks) = Result(p, disks)
      BY <1>1, <1>2, <1>3, <1>4, <1>6 DEF Result
    <2> HIDE DEF M
    <2>. QED
      BY <1>5, <2>1, <2>2 DEF Results
  <1>. QED
    BY <1>7 DEF marked

\* An arrangement of the elements of a sequence is a sequence of them.
LEMMA ArrangementsAre ==
    ASSUME NEW S, NEW d \in Seq(S), NEW s \in Arrangements({DiskOf(x) : x \in Range(d)})
    PROVE  /\ \E n \in Nat : DOMAIN s = 1..n
           /\ Range(s) = {DiskOf(x) : x \in Range(d)}
           /\ \A T : Range(s) \subseteq T => s \in Seq(T)
  <1> DEFINE D == {DiskOf(x) : x \in Range(d)}
             f == [i \in 1..Len(d) |-> DiskOf(d[i])]
  <1>1. Len(d) \in Nat /\ DOMAIN d = 1..Len(d)
    BY LenProperties
  <1>2. f \in Surjection(1..Len(d), D)
    BY <1>1 DEF Surjection, Range
  <1>3. IsFiniteSet(1..Len(d))
    BY <1>1, FS_Interval
  <1>4. Cardinality(D) \in Nat
    <2> HIDE DEF D, f
    <2>. QED
      BY <1>2, <1>3, FS_Surjection, FS_CardinalityType
  <1>5. s \in [1..Cardinality(D) -> D] /\ Range(s) = D
    BY DEF Arrangements
  <1> HIDE DEF D, f
  <1>6. \A T : Range(s) \subseteq T => s \in Seq(T)
    BY <1>4, <1>5, SeqDef
  <1>. QED
    BY <1>4, <1>5, <1>6 DEF D

--------------------------------------------------------------------------------
(* What is proposed, for a configuration and a prior resource *)

LEMMA ConfigurationFields ==
    ASSUME NEW c, IsConfiguration(c)
    PROVE  /\ c.name \in Strings /\ c.size \in Known /\ c.mode \in Known /\ c.arn \in {Null, "arn"}
           /\ c.net \in Optionally(Nets(Known, {Null}))
           /\ c.ports \in Optionally(Seq(Ports(Strings, {Null})))
           /\ c.disks \in Seq(Disks(Strings, Known, {Null}))
           /\ c.labels # Null => \E keys \in SUBSET Labels : c.labels \in [keys -> Values(Strings, {Null})]
           /\ DistinctKeys(c.disks)
  BY DEF IsConfiguration, IsMap, Known

LEMMA ResourceFields ==
    ASSUME NEW w, IsResource(w)
    PROVE  /\ w.name \in Strings /\ w.size \in Known /\ w.mode \in Strings /\ w.arn = "arn"
           /\ w.net \in Optionally(Nets(Known, Strings))
           /\ w.ports \in Optionally(Seq(Ports(Strings, Strings)))
           /\ w.disks \in Seq(Disks(Strings, Strings, Strings))
           /\ w.labels # Null => \E keys \in SUBSET Labels : w.labels \in [keys -> Values(Strings, Strings)]
  BY DEF IsResource, IsMap, Known

LEMMA StartFields ==
    ASSUME NEW prior, prior # Null => IsResource(prior)
    PROVE  LET start == Start(prior)
           IN  /\ start.mode \in Known /\ start.arn \in {Null, "arn"}
               /\ start.net \in Optionally(Nets(Known, Known))
               /\ start.ports \in Optionally(Seq(Ports(Strings, Strings)))
               /\ start.disks \in Seq(Disks(Strings, Strings, Strings))
               /\ start.labels # Null => \E keys \in SUBSET Labels : start.labels \in [keys -> Values(Strings, Strings)]
  <1>1. CASE prior = Null
    <2> DEFINE e == EmptyValue(Schema)
    <2>1. Start(prior) = e
      BY <1>1 DEF Start
    <2>2. e.mode \in Known /\ e.arn \in {Null, "arn"}
      BY EmptyIs DEF Known, Optionally
    <2>3. e.net \in Optionally(Nets(Known, Known))
      BY EmptyIs DEF Known, Optionally, Nets
    <2>4. e.ports \in Optionally(Seq(Ports(Strings, Strings))) /\ e.disks \in Seq(Disks(Strings, Strings, Strings))
      BY EmptyIs, EmptySeq DEF Optionally
    <2>5. e.labels \in [{} -> Values(Strings, Strings)]
      <3>1. DOMAIN <<>> = {} /\ <<>> = [i \in {} |-> 0]
        OBVIOUS
      <3>. QED
        BY <3>1, EmptyIs
    <2> HIDE DEF e
    <2>. QED
      BY <2>1, <2>2, <2>3, <2>4, <2>5
  <1>2. CASE prior # Null
    <2>1. Nets(Known, Strings) \subseteq Nets(Known, Known)
      BY DEF Nets, Known, Optionally
    <2>. QED
      BY <1>2, <2>1, ResourceFields DEF Start, Known, Optionally
  <1>. QED
    BY <1>1, <1>2

KeptPorts(prior)        == prior \in Optionally(Seq(Ports(Strings, Strings)))
ConfiguredPorts(config) == config \in Seq(Ports(Strings, {Null}))
KnownPorts(ports)       == ports \in Seq(Ports(Strings, Known))

PortsFrom(prior, config) ==
    [i \in DOMAIN config |->
        [port |-> config[i].port,
         id   |-> IF prior # Null /\ i \in DOMAIN prior THEN prior[i].id ELSE Null]]

LEMMA ProposedPorts ==
    ASSUME ValuesAssumption, NEW prior, KeptPorts(prior), NEW config, ConfiguredPorts(config)
    PROVE  /\ ProposedNewElements(Schema.ports, prior, config) = PortsFrom(prior, config)
           /\ KnownPorts(PortsFrom(prior, config)) /\ PortsFrom(prior, config) # Null
  <1> USE DEF KeptPorts, ConfiguredPorts
  <1> DEFINE E(i) == IF prior = Null THEN config[i]
                     ELSE IF i \notin DOMAIN prior THEN config[i]
                     ELSE ProposedNewObject(Schema.ports.attrs, prior[i], config[i])
             R(i) == [port |-> config[i].port,
                      id   |-> IF prior # Null /\ i \in DOMAIN prior THEN prior[i].id ELSE Null]
  <1>1. ProposedNewElements(Schema.ports, prior, config) = [i \in DOMAIN config |-> E(i)]
    <2>1. Ports(Strings, {Null}) \subseteq Objects
      BY ObjectsAre, KnownIsOpen
    <2>2. config # Null
      BY <2>1, NoValues
    <2>. QED
      BY <2>2 DEF ProposedNewElements
  <1>2. ASSUME NEW i \in DOMAIN config
        PROVE  E(i) = R(i)
    <2>1. config[i] \in Ports(Strings, {Null})
      BY ElementOfSeq, LenProperties
    <2>2. config[i] = [port |-> config[i].port, id |-> Null]
      BY <2>1 DEF Ports
    <2>3. ASSUME prior # Null, i \in DOMAIN prior
          PROVE  ProposedNewObject(Port, prior[i], config[i]) = [port |-> config[i].port, id |-> prior[i].id]
      <3>1. prior[i] \in Ports(Strings, Strings)
        BY <2>3, ElementOfSeq, LenProperties DEF Optionally
      <3>2. prior[i] # Null
        BY <3>1, ObjectsAre, KnownIsOpen, NoValues
      <3>3. config[i].id = Null
        BY <2>2
      <3>. QED
        BY <3>2, <3>3, ProposedObjects DEF Kept, PriorOf
    <2>. QED
      BY <2>2, <2>3, Nestings
  <1> HIDE DEF E, R
  <1>3. ProposedNewElements(Schema.ports, prior, config) = [i \in DOMAIN config |-> R(i)]
    BY <1>1, <1>2
  <1>4. ASSUME NEW i \in DOMAIN config
        PROVE  R(i) \in Ports(Strings, Known)
    <2>1. config[i] \in Ports(Strings, {Null})
      BY ElementOfSeq, LenProperties
    <2>2. prior # Null /\ i \in DOMAIN prior => prior[i] \in Ports(Strings, Strings)
      BY ElementOfSeq, LenProperties DEF Optionally
    <2>3. config[i].port \in Strings /\ (prior # Null /\ i \in DOMAIN prior => prior[i].id \in Strings)
      BY <2>1, <2>2 DEF Ports
    <2>. QED
      BY <2>3 DEF R, Ports, Known, Optionally
  <1>5. [i \in DOMAIN config |-> R(i)] \in Seq(Ports(Strings, Known))
    BY <1>4, LenProperties, IsSequence
  <1>6. [i \in DOMAIN config |-> R(i)] # Null
    BY <1>5, ObjectsAre, KnownIsOpen, NoValues
  <1>. QED
    BY <1>3, <1>5, <1>6 DEF R, KnownPorts, PortsFrom

KeptLabels(prior)        == IsMap(prior, Values(Strings, Strings))
ConfiguredLabels(config) == config # Null /\ IsMap(config, Values(Strings, {Null}))
KnownLabels(labels)      == IsMap(labels, Values(Strings, Known))

LabelsFrom(prior, config) ==
    [i \in DOMAIN config |->
        [value |-> config[i].value,
         id    |-> IF prior # Null /\ i \in DOMAIN prior THEN prior[i].id ELSE Null]]

LEMMA ProposedLabels ==
    ASSUME ValuesAssumption, NEW prior, KeptLabels(prior), NEW config, ConfiguredLabels(config)
    PROVE  /\ ProposedNewElements(Schema.labels, prior, config) = LabelsFrom(prior, config)
           /\ KnownLabels(LabelsFrom(prior, config)) /\ LabelsFrom(prior, config) # Null
  <1> DEFINE E(i) == IF prior = Null THEN config[i]
                     ELSE IF i \notin DOMAIN prior THEN config[i]
                     ELSE ProposedNewObject(Schema.labels.attrs, prior[i], config[i])
             R(i) == [value |-> config[i].value,
                      id    |-> IF prior # Null /\ i \in DOMAIN prior THEN prior[i].id ELSE Null]
  <1>1. ProposedNewElements(Schema.labels, prior, config) = [i \in DOMAIN config |-> E(i)]
    BY DEF ProposedNewElements, ConfiguredLabels
  <1>2. ASSUME NEW i \in DOMAIN config
        PROVE  E(i) = R(i)
    <2>1. config[i] \in Values(Strings, {Null})
      BY DEF ConfiguredLabels, IsMap
    <2>2. config[i] = [value |-> config[i].value, id |-> Null]
      BY <2>1 DEF Values
    <2>3. ASSUME prior # Null, i \in DOMAIN prior
          PROVE  ProposedNewObject(Label, prior[i], config[i]) = [value |-> config[i].value, id |-> prior[i].id]
      <3>1. prior[i] \in Values(Strings, Strings)
        BY <2>3 DEF KeptLabels, IsMap
      <3>2. prior[i] # Null
        BY <3>1, ObjectsAre, KnownIsOpen, NoValues
      <3>3. config[i].id = Null
        BY <2>2
      <3>. QED
        BY <3>2, <3>3, ProposedObjects DEF Kept, PriorOf
    <2>. QED
      BY <2>2, <2>3, Nestings
  <1> HIDE DEF E, R
  <1>3. ProposedNewElements(Schema.labels, prior, config) = [i \in DOMAIN config |-> R(i)]
    BY <1>1, <1>2
  <1>4. ASSUME NEW i \in DOMAIN config
        PROVE  R(i) \in Values(Strings, Known)
    <2>1. config[i] \in Values(Strings, {Null})
      BY DEF ConfiguredLabels, IsMap
    <2>2. ASSUME prior # Null, i \in DOMAIN prior
          PROVE  prior[i] \in Values(Strings, Strings)
      BY <2>2 DEF KeptLabels, IsMap
    <2>3. config[i].value \in Strings /\ (prior # Null /\ i \in DOMAIN prior => prior[i].id \in Strings)
      BY <2>1, <2>2 DEF Values
    <2>. QED
      BY <2>3 DEF R, Values, Known, Optionally
  <1>5. PICK keys \in SUBSET Labels : keys = DOMAIN config
    BY DEF ConfiguredLabels, IsMap
  <1>6. [i \in DOMAIN config |-> R(i)] \in [keys -> Values(Strings, Known)]
    BY <1>4, <1>5
  <1>7. [i \in DOMAIN config |-> R(i)] # Null
    <2>1. Values(Strings, Known) \in SUBSET Objects
      BY ObjectsAre, KnownIsOpen
    <2>2. Null \notin [keys -> Values(Strings, Known)]
      BY <2>1, NoValues
    <2>. QED
      BY <1>6, <2>2
  <1>8. IsMap([i \in DOMAIN config |-> R(i)], Values(Strings, Known))
    BY <1>6 DEF IsMap
  <1>. QED
    BY <1>3, <1>7, <1>8 DEF R, KnownLabels, LabelsFrom

LEMMA ProposedDisks ==
    ASSUME ValuesAssumption,
           NEW prior \in Seq(Disks(Strings, Strings, Strings)), NEW config \in Seq(Disks(Strings, Known, {Null}))
    PROVE  LET from == Correlated(Schema.disks, prior, config)
           IN  /\ ProposedNewSet(Schema.disks, prior, config)
                    = [i \in DOMAIN config |->
                         IF from[i] = 0 THEN config[i]
                         ELSE [key  |-> config[i].key,
                               tier |-> IF config[i].tier = Null THEN prior[from[i]].tier ELSE config[i].tier,
                               id   |-> prior[from[i]].id]]
               /\ \A i \in DOMAIN config :
                     \/ from[i] = 0 /\ Unused(Schema.disks, prior, config, from, i) = {}
                     \/ from[i] \in Unused(Schema.disks, prior, config, from, i)
  <1> DEFINE from == Correlated(Schema.disks, prior, config)
             E(i) == ProposedNewObject(Schema.disks.attrs, IF from[i] = 0 THEN Null ELSE prior[from[i]], config[i])
             R(i) == IF from[i] = 0 THEN config[i]
                     ELSE [key  |-> config[i].key,
                           tier |-> IF config[i].tier = Null THEN prior[from[i]].tier ELSE config[i].tier,
                           id   |-> prior[from[i]].id]
  <1>1. ProposedNewSet(Schema.disks, prior, config) = [i \in DOMAIN config |-> E(i)]
    <2>1. Disks(Strings, Known, {Null}) \subseteq Objects /\ Disks(Strings, Strings, Strings) \subseteq Objects
      BY ObjectsAre, KnownIsOpen
    <2>2. config # Null /\ prior # Null
      BY <2>1, NoValues
    <2>. QED
      BY <2>2 DEF ProposedNewSet
  <1>2. \A i \in DOMAIN config :
            \/ from[i] = 0 /\ Unused(Schema.disks, prior, config, from, i) = {}
            \/ from[i] \in Unused(Schema.disks, prior, config, from, i)
    <2>1. /\ DOMAIN prior = 1..Len(prior) /\ Len(prior) \in Nat
          /\ DOMAIN config = 1..Len(config) /\ Len(config) \in Nat
      BY LenProperties
    <2>. QED
      BY <2>1, CorrelatedIsValid
  <1>3. ASSUME NEW i \in DOMAIN config
        PROVE  E(i) = R(i)
    <2> HIDE DEF from
    <2>1. config[i] \in Disks(Strings, Known, {Null})
      BY ElementOfSeq, LenProperties
    <2>2. config[i] = [key |-> config[i].key, tier |-> config[i].tier, id |-> Null] /\ config[i].id = Null
      BY <2>1 DEF Disks
    <2>3. CASE from[i] = 0
      <3>1. ProposedNewObject(Disk, Null, config[i]) = config[i]
        BY <2>2, ProposedObjects DEF Kept, PriorOf
      <3>. QED
        BY <2>3, <3>1, Nestings
    <2>4. CASE from[i] # 0
      <3>1. from[i] \in DOMAIN prior
        BY <1>2, <2>4 DEF Unused
      <3>2. prior[from[i]] \in Disks(Strings, Strings, Strings)
        BY <3>1, ElementOfSeq, LenProperties
      <3>3. prior[from[i]] # Null
        BY <3>2, ObjectsAre, KnownIsOpen, NoValues
      <3>. QED
        BY <2>2, <2>4, <3>3, Nestings, ProposedObjects DEF Kept, PriorOf
    <2>. QED
      BY <2>3, <2>4
  <1>4. ProposedNewSet(Schema.disks, prior, config) = [i \in DOMAIN config |-> R(i)]
    <2> HIDE DEF E, R, from
    <2>. QED
      BY <1>1, <1>3
  <1>. QED
    BY <1>2, <1>4

LEMMA ProposalTyped ==
    ASSUME ValuesAssumption, NEW prior, prior # Null => IsResource(prior), NEW c, IsConfiguration(c)
    PROVE  IsProposal(ProposedNew(prior, c))
  <1> DEFINE start == Start(prior)
             p     == ProposedNew(prior, c)
  <1>1. /\ start.mode \in Known /\ start.arn \in {Null, "arn"}
        /\ start.net \in Optionally(Nets(Known, Known))
        /\ start.ports \in Optionally(Seq(Ports(Strings, Strings)))
        /\ start.disks \in Seq(Disks(Strings, Strings, Strings))
        /\ start.labels # Null => \E keys \in SUBSET Labels : start.labels \in [keys -> Values(Strings, Strings)]
    BY StartFields
  <1>2. start # Null
    BY StartIsNotNull
  <1> HIDE DEF start
  <1>3. /\ p = [n \in Attributes |-> p[n]]
        /\ p.name = c.name /\ p.size = c.size
        /\ p.mode = Kept(start, c, "mode")
        /\ p.arn = Kept(start, c, "arn")
        /\ p.net = IF c.net # Null THEN ProposedNewObject(Net, start.net, c.net)
                   ELSE IF OptionalValueNotComputable(Schema.net, start.net) THEN Null
                   ELSE start.net
        /\ p.ports = ProposedNewElements(Schema.ports, start.ports, c.ports)
        /\ p.labels = ProposedNewElements(Schema.labels, start.labels, c.labels)
        /\ p.disks = ProposedNewSet(Schema.disks, start.disks, c.disks)
    BY ProposedIs DEF start
  <1> HIDE DEF p
  <1>4. p.name \in Strings /\ p.size \in Known /\ p.mode \in Known /\ p.arn \in {Null, "arn"}
    BY <1>1, <1>2, <1>3, ConfigurationFields DEF Kept, PriorOf
  <1>5. p.net \in Optionally(Nets(Known, Known))
    <2>1. CASE c.net # Null
      <3>1. c.net \in Nets(Known, {Null})
        BY <2>1, ConfigurationFields DEF Optionally
      <3>2. p.net = [cidr |-> c.net.cidr, id |-> PriorOf(start.net, "id")]
        BY <1>3, <2>1, <3>1, ProposedObjects DEF Kept, Nets
      <3>3. PriorOf(start.net, "id") \in Known
        BY <1>1 DEF PriorOf, Optionally, Known, Nets
      <3>. QED
        BY <3>1, <3>2, <3>3 DEF Optionally, Nets
    <2>. QED
      BY <1>1, <1>3, <2>1 DEF Optionally
  <1>6. p.ports \in Optionally(Seq(Ports(Strings, Known)))
    <2>1. c.ports = Null => p.ports = Null
      BY <1>3 DEF ProposedNewElements
    <2>2. ASSUME c.ports # Null
          PROVE  p.ports \in Seq(Ports(Strings, Known))
      <3>1. ConfiguredPorts(c.ports) /\ KeptPorts(start.ports)
        BY <1>1, <2>2, ConfigurationFields DEF ConfiguredPorts, KeptPorts, Optionally
      <3>2. KnownPorts(p.ports)
        BY <1>3, <3>1, ProposedPorts
      <3>. QED
        BY <3>2 DEF KnownPorts
    <2>. QED
      BY <2>1, <2>2 DEF Optionally
  <1>7. IsMap(p.labels, Values(Strings, Known))
    <2>1. c.labels = Null => p.labels = Null
      BY <1>3 DEF ProposedNewElements
    <2>2. KeptLabels(start.labels) /\ (c.labels # Null => ConfiguredLabels(c.labels))
      BY <1>1, ConfigurationFields DEF KeptLabels, ConfiguredLabels, IsMap
    <2>3. c.labels # Null => KnownLabels(p.labels)
      BY <1>3, <2>2, ProposedLabels
    <2>4. p.labels = Null => IsMap(p.labels, Values(Strings, Known))
      BY DEF IsMap
    <2>. QED
      BY <2>1, <2>3, <2>4 DEF KnownLabels
  <1>8. p.disks \in Seq(Disks(Strings, Known, Known))
    <2> DEFINE from == Correlated(Schema.disks, start.disks, c.disks)
    <2>1. c.disks \in Seq(Disks(Strings, Known, {Null}))
      BY ConfigurationFields
    <2>2. /\ p.disks = [i \in DOMAIN c.disks |->
                          IF from[i] = 0 THEN c.disks[i]
                          ELSE [key  |-> c.disks[i].key,
                                tier |-> IF c.disks[i].tier = Null THEN start.disks[from[i]].tier
                                         ELSE c.disks[i].tier,
                                id   |-> start.disks[from[i]].id]]
          /\ \A i \in DOMAIN c.disks : from[i] = 0 \/ from[i] \in DOMAIN start.disks
      BY <1>1, <1>3, <2>1, ProposedDisks DEF Unused
    <2> HIDE DEF from
    <2>3. ASSUME NEW i \in DOMAIN c.disks
          PROVE  p.disks[i] \in Disks(Strings, Known, Known)
      <3>1. c.disks[i] \in Disks(Strings, Known, {Null})
        BY <2>1, ElementOfSeq, LenProperties
      <3>2. CASE from[i] = 0
        <4>1. Disks(Strings, Known, {Null}) \subseteq Disks(Strings, Known, Known)
          BY DEF Disks, Known, Optionally
        <4>. QED
          BY <2>2, <3>1, <3>2, <4>1
      <3>3. CASE from[i] # 0
        <4>1. start.disks[from[i]] \in Disks(Strings, Strings, Strings)
          BY <1>1, <2>2, <3>3, ElementOfSeq, LenProperties
        <4>2. start.disks[from[i]].tier \in Strings /\ start.disks[from[i]].id \in Strings
          BY <4>1 DEF Disks
        <4>3. c.disks[i].key \in Strings /\ c.disks[i].tier \in Known
          BY <3>1 DEF Disks
        <4>. QED
          BY <2>2, <3>3, <4>2, <4>3 DEF Disks, Known, Optionally
      <3>. QED
        BY <3>2, <3>3
    <2>4. DOMAIN c.disks = 1..Len(c.disks) /\ Len(c.disks) \in Nat
      BY <2>1, LenProperties
    <2>5. p.disks = [i \in 1..Len(c.disks) |-> p.disks[i]]
      BY <2>2, <2>4
    <2>. QED
      BY <2>3, <2>4, <2>5, IsSequence
  <1>9. IsProposal(p)
    BY <1>3, <1>4, <1>5, <1>6, <1>7, <1>8 DEF IsProposal, Attributes
  <1>. QED
    BY <1>9 DEF p

LEMMA ConfigIs ==
    ASSUME IsConfiguration(params)
    PROVE  /\ IsConfiguration(ConfigValue)
           /\ ConfigValue.arn = Null
           /\ ConfigValue = [params EXCEPT !.arn = Null]
  <1>1. \A n \in Attributes : ConfigValue[n] = IF n = "arn" THEN Null ELSE params[n]
    <2>1. /\ ~ComputedOnly(Schema.name) /\ ~ComputedOnly(Schema.size)
          /\ ~ComputedOnly(Schema.mode) /\ ComputedOnly(Schema.arn)
      BY SchemaAttributes, Leaves DEF ComputedOnly
    <2>2. /\ ~ComputedOnly(Schema.net) /\ ~ComputedOnly(Schema.ports)
          /\ ~ComputedOnly(Schema.labels) /\ ~ComputedOnly(Schema.disks)
      BY Nestings DEF ComputedOnly
    <2>. QED
      BY <2>1, <2>2, SchemaAttributes DEF ConfigValue, Attributes
  <1>2. ConfigValue = [n \in Attributes |-> IF n = "arn" THEN Null ELSE params[n]]
    BY <1>1, SchemaAttributes DEF ConfigValue
  <1>3. params = [n \in Attributes |-> params[n]]
    BY DEF IsConfiguration, Attributes
  <1>4. ConfigValue = [params EXCEPT !.arn = Null]
    BY <1>2, <1>3
  <1>. QED
    BY <1>4 DEF IsConfiguration, IsMap

--------------------------------------------------------------------------------
(* A resource that is up to date is as configured *)

LEMMA EqualIs ==
    ASSUME NEW x, x = [n \in Attributes |-> x[n]], NEW y, y = [n \in Attributes |-> y[n]]
    PROVE  Equal(x, y) <=> /\ x.name = y.name /\ x.size = y.size /\ x.mode = y.mode /\ x.arn = y.arn
                           /\ x.net = y.net /\ x.ports = y.ports /\ x.labels = y.labels
                           /\ Range(x.disks) = Range(y.disks)
  <1> DEFINE X == [x EXCEPT !.disks = Range(@)]
             Y == [y EXCEPT !.disks = Range(@)]
  <1>1. /\ X = [n \in Attributes |-> IF n = "disks" THEN Range(x.disks) ELSE x[n]]
        /\ Y = [n \in Attributes |-> IF n = "disks" THEN Range(y.disks) ELSE y[n]]
    BY DEF Attributes
  <1>2. Equal(x, y) <=> X = Y
    BY DEF Equal
  <1> HIDE DEF X, Y
  <1>3. X = Y <=> \A n \in Attributes : X[n] = Y[n]
    BY <1>1
  <1>. QED
    BY <1>1, <1>2, <1>3 DEF Attributes

FollowsDisk(d, c) == d.key = c.key /\ (c.tier # Null => d.tier = c.tier)

\* What Conforms comes to for the attributes of the schema.
Follows(w, c) ==
    /\ w.name = c.name /\ w.size = c.size
    /\ c.mode # Null => w.mode = c.mode
    /\ c.net # Null => w.net # Null /\ w.net.cidr = c.net.cidr
    /\ c.ports = Null => w.ports = Null
    /\ c.ports # Null => /\ w.ports # Null /\ DOMAIN w.ports = DOMAIN c.ports
                         /\ \A i \in DOMAIN c.ports : w.ports[i].port = c.ports[i].port
    /\ c.labels = Null => w.labels = Null
    /\ c.labels # Null => /\ w.labels # Null /\ DOMAIN w.labels = DOMAIN c.labels
                          /\ \A i \in DOMAIN c.labels : w.labels[i].value = c.labels[i].value
    /\ \A i \in DOMAIN c.disks : \E d \in Range(w.disks) : FollowsDisk(d, c.disks[i])
    /\ \A d \in Range(w.disks) : \E i \in DOMAIN c.disks : FollowsDisk(d, c.disks[i])

LEMMA ObjectsConform ==
    ASSUME NEW o, NEW c, c.id = Null
    PROVE  /\ o.cidr = c.cidr => ObjectConforms(Schema.net, o, c)
           /\ o.port = c.port => ObjectConforms(Schema.ports, o, c)
           /\ o.value = c.value => ObjectConforms(Schema.labels, o, c)
           /\ FollowsDisk(o, c) => ObjectConforms(Schema.disks, o, c)
  BY Nestings, Leaves DEF ObjectConforms, Net, Port, Label, Disk, FollowsDisk

LEMMA ConfiguredObjects ==
    ASSUME NEW c, IsConfiguration(c)
    PROVE  /\ c.net # Null => c.net.id = Null
           /\ c.ports # Null => \A i \in DOMAIN c.ports : c.ports[i].id = Null /\ c.ports[i].port \in Strings
           /\ c.labels # Null => \A i \in DOMAIN c.labels : c.labels[i].id = Null /\ c.labels[i].value \in Strings
           /\ \A i \in DOMAIN c.disks : /\ c.disks[i].id = Null /\ c.disks[i].key \in Strings
                                        /\ c.disks[i].tier \in Known
  <1>1. c.net # Null => c.net.id = Null
    BY ConfigurationFields DEF Optionally, Nets
  <1>2. ASSUME c.ports # Null, NEW i \in DOMAIN c.ports
        PROVE  c.ports[i].id = Null /\ c.ports[i].port \in Strings
    <2>1. c.ports \in Seq(Ports(Strings, {Null}))
      BY <1>2, ConfigurationFields DEF Optionally
    <2>2. c.ports[i] \in Ports(Strings, {Null})
      BY <1>2, <2>1, ElementOfSeq, LenProperties
    <2>. QED
      BY <2>2 DEF Ports
  <1>3. ASSUME c.labels # Null, NEW i \in DOMAIN c.labels
        PROVE  c.labels[i].id = Null /\ c.labels[i].value \in Strings
    <2>1. c.labels[i] \in Values(Strings, {Null})
      BY <1>3, ConfigurationFields
    <2>. QED
      BY <2>1 DEF Values
  <1>4. ASSUME NEW i \in DOMAIN c.disks
        PROVE  c.disks[i].id = Null /\ c.disks[i].key \in Strings /\ c.disks[i].tier \in Known
    <2>1. c.disks[i] \in Disks(Strings, Known, {Null})
      BY ConfigurationFields, ElementOfSeq, LenProperties
    <2>. QED
      BY <2>1 DEF Disks
  <1>. QED
    BY <1>1, <1>2, <1>3, <1>4

LEMMA FollowingConforms ==
    ASSUME ValuesAssumption, NEW c, IsConfiguration(c), c.arn = Null,
           NEW w, Follows(w, c), w.disks # Null
    PROVE  Conforms(Schema, w, c)
  <1> USE ConfiguredObjects
  <1> DEFINE C(n) == IF c[n] = Null THEN Schema[n].computed \/ w[n] = Null
                     ELSE IF Schema[n].nesting = "leaf" THEN w[n] = c[n]
                     ELSE w[n] # Null /\ NestedConforms(Schema[n], w[n], c[n])
  <1>1. C("name") /\ C("size") /\ C("mode") /\ C("arn")
    BY SchemaAttributes, Leaves DEF Follows
  <1>2. C("net")
    <2>1. c.net # Null => w.net # Null /\ ObjectConforms(Schema.net, w.net, c.net)
      BY ObjectsConform DEF Follows
    <2>. QED
      BY <2>1, Nestings DEF NestedConforms
  <1>3. C("ports")
    <2>1. c.ports # Null => /\ w.ports # Null /\ DOMAIN w.ports = DOMAIN c.ports
                            /\ \A i \in DOMAIN c.ports : ObjectConforms(Schema.ports, w.ports[i], c.ports[i])
      BY ObjectsConform DEF Follows
    <2>. QED
      BY <2>1, Nestings DEF NestedConforms, Follows
  <1>4. C("labels")
    <2>1. c.labels # Null => /\ w.labels # Null /\ DOMAIN w.labels = DOMAIN c.labels
                             /\ \A i \in DOMAIN c.labels : ObjectConforms(Schema.labels, w.labels[i], c.labels[i])
      BY ObjectsConform DEF Follows
    <2>. QED
      BY <2>1, Nestings DEF NestedConforms, Follows
  <1>5. C("disks")
    <2>1. c.disks # Null
      <3>1. Disks(Strings, Known, {Null}) \subseteq Objects
        BY ObjectsAre, KnownIsOpen
      <3>2. c.disks \in Seq(Disks(Strings, Known, {Null}))
        BY ConfigurationFields
      <3>. QED
        BY <3>1, <3>2, NoValues
    <2>2. \A i \in DOMAIN c.disks : \E d \in Range(w.disks) : ObjectConforms(Schema.disks, d, c.disks[i])
      BY ObjectsConform DEF Follows
    <2>3. \A d \in Range(w.disks) : \E i \in DOMAIN c.disks : ObjectConforms(Schema.disks, d, c.disks[i])
      BY ObjectsConform DEF Follows
    <2>4. /\ \A x \in Range(c.disks) : \E o \in Range(w.disks) : ObjectConforms(Schema.disks, o, x)
          /\ \A o \in Range(w.disks) : \E x \in Range(c.disks) : ObjectConforms(Schema.disks, o, x)
      BY <2>2, <2>3 DEF Range
    <2>. QED
      BY <2>1, <2>4, Nestings DEF NestedConforms
  <1>6. Conforms(Schema, w, c) <=> \A n \in Attributes : C(n)
    BY SchemaAttributes DEF Conforms
  <1> HIDE DEF C
  <1>. QED
    BY <1>1, <1>2, <1>3, <1>4, <1>5, <1>6 DEF Attributes

\* What is proposed is as configured, and the elements of the sets have their order.
LEMMA ProposalFollows ==
    ASSUME ValuesAssumption, NEW prior, prior # Null => IsResource(prior), NEW c, IsConfiguration(c)
    PROVE  LET p == ProposedNew(prior, c)
           IN  /\ Follows(p, c)
               /\ DOMAIN p.disks = DOMAIN c.disks
               /\ \A i \in DOMAIN c.disks : FollowsDisk(p.disks[i], c.disks[i])
  <1> DEFINE start == Start(prior)
             p     == ProposedNew(prior, c)
  <1>1. /\ KeptPorts(start.ports)
        /\ start.disks \in Seq(Disks(Strings, Strings, Strings))
        /\ KeptLabels(start.labels)
    BY StartFields DEF KeptPorts, KeptLabels, IsMap
  <1> HIDE DEF start
  <1>2. /\ p.name = c.name /\ p.size = c.size
        /\ p.mode = Kept(start, c, "mode")
        /\ p.net = IF c.net # Null THEN ProposedNewObject(Net, start.net, c.net)
                   ELSE IF OptionalValueNotComputable(Schema.net, start.net) THEN Null
                   ELSE start.net
        /\ p.ports = ProposedNewElements(Schema.ports, start.ports, c.ports)
        /\ p.labels = ProposedNewElements(Schema.labels, start.labels, c.labels)
        /\ p.disks = ProposedNewSet(Schema.disks, start.disks, c.disks)
    BY ProposedIs DEF start
  <1>3. IsProposal(p)
    BY ProposalTyped
  <1> HIDE DEF p
  <1>4. c.mode # Null => p.mode = c.mode
    BY <1>2 DEF Kept
  <1>5. c.net # Null => p.net # Null /\ p.net.cidr = c.net.cidr
    <2>1. ASSUME c.net # Null
          PROVE  p.net # Null /\ p.net.cidr = c.net.cidr
      <3>1. p.net = [cidr |-> c.net.cidr, id |-> Kept(start.net, c.net, "id")]
        BY <1>2, <2>1, ProposedObjects
      <3>2. c.net \in Nets(Known, {Null})
        BY <2>1, ConfigurationFields DEF Optionally
      <3>3. Kept(start.net, c.net, "id") \in Known
        <4>1. start.net \in Optionally(Nets(Known, Known))
          BY StartFields DEF start
        <4>. QED
          BY <3>2, <4>1 DEF Kept, PriorOf, Nets, Known, Optionally
      <3>4. p.net \in Nets(Known, Known)
        BY <3>1, <3>2, <3>3 DEF Nets
      <3>5. p.net # Null
        BY <3>4, ObjectsAre, KnownIsOpen, NoValues
      <3>. QED
        BY <3>1, <3>5
    <2>. QED
      BY <2>1
  <1>6. /\ c.ports = Null => p.ports = Null
        /\ c.ports # Null => /\ p.ports # Null /\ DOMAIN p.ports = DOMAIN c.ports
                             /\ \A i \in DOMAIN c.ports : p.ports[i].port = c.ports[i].port
    <2>1. c.ports = Null => p.ports = Null
      BY <1>2 DEF ProposedNewElements
    <2>2. ASSUME c.ports # Null
          PROVE  /\ p.ports # Null /\ DOMAIN p.ports = DOMAIN c.ports
                 /\ \A i \in DOMAIN c.ports : p.ports[i].port = c.ports[i].port
      <3>1. ConfiguredPorts(c.ports)
        BY <2>2, ConfigurationFields DEF ConfiguredPorts, Optionally
      <3>2. p.ports = PortsFrom(start.ports, c.ports) /\ p.ports # Null
        BY <1>1, <1>2, <3>1, ProposedPorts
      <3>. QED
        BY <3>2 DEF PortsFrom
    <2>. QED
      BY <2>1, <2>2
  <1>7. /\ c.labels = Null => p.labels = Null
        /\ c.labels # Null => /\ p.labels # Null /\ DOMAIN p.labels = DOMAIN c.labels
                              /\ \A i \in DOMAIN c.labels : p.labels[i].value = c.labels[i].value
    <2>1. c.labels = Null => p.labels = Null
      BY <1>2 DEF ProposedNewElements
    <2>2. ASSUME c.labels # Null
          PROVE  /\ p.labels # Null /\ DOMAIN p.labels = DOMAIN c.labels
                 /\ \A i \in DOMAIN c.labels : p.labels[i].value = c.labels[i].value
      <3>1. ConfiguredLabels(c.labels)
        BY <2>2, ConfigurationFields DEF ConfiguredLabels, IsMap
      <3>2. p.labels = LabelsFrom(start.labels, c.labels) /\ p.labels # Null
        BY <1>1, <1>2, <3>1, ProposedLabels
      <3>. QED
        BY <3>2 DEF LabelsFrom
    <2>. QED
      BY <2>1, <2>2
  <1>8. /\ DOMAIN p.disks = DOMAIN c.disks
        /\ \A i \in DOMAIN c.disks : FollowsDisk(p.disks[i], c.disks[i])
    <2> DEFINE from == Correlated(Schema.disks, start.disks, c.disks)
    <2>1. c.disks \in Seq(Disks(Strings, Known, {Null}))
      BY ConfigurationFields
    <2>2. p.disks = [i \in DOMAIN c.disks |->
                       IF from[i] = 0 THEN c.disks[i]
                       ELSE [key  |-> c.disks[i].key,
                             tier |-> IF c.disks[i].tier = Null THEN start.disks[from[i]].tier
                                      ELSE c.disks[i].tier,
                             id   |-> start.disks[from[i]].id]]
      BY <1>1, <1>2, <2>1, ProposedDisks
    <2> HIDE DEF from
    <2>. QED
      BY <2>2 DEF FollowsDisk
  <1>9. /\ \A i \in DOMAIN c.disks : \E d \in Range(p.disks) : FollowsDisk(d, c.disks[i])
        /\ \A d \in Range(p.disks) : \E i \in DOMAIN c.disks : FollowsDisk(d, c.disks[i])
    BY <1>8 DEF Range
  <1>10. Follows(p, c)
    BY <1>2, <1>4, <1>5, <1>6, <1>7, <1>9 DEF Follows
  <1>. QED
    BY <1>8, <1>10 DEF p

LEMMA ResourceNests ==
    ASSUME ValuesAssumption, NEW w, IsResource(w)
    PROVE  /\ w.net # Unknown /\ w.ports # Unknown /\ w.labels # Unknown
           /\ w.disks \notin {Null, Unknown}
  <1>1. w.net # Unknown
    <2>1. w.net \in Optionally(Nets(Known, Strings)) /\ Nets(Known, Strings) \subseteq Objects
      BY ResourceFields, ObjectsAre, KnownIsOpen
    <2>. QED
      BY <2>1, NoValues, NullIsNotUnknown DEF Optionally
  <1>2. w.ports # Unknown
    <2>1. w.ports \in Optionally(Seq(Ports(Strings, Strings))) /\ Ports(Strings, Strings) \subseteq Objects
      BY ResourceFields, ObjectsAre, KnownIsOpen
    <2>2. Unknown \notin Seq(Ports(Strings, Strings))
      BY <2>1, NoValues
    <2>. QED
      BY <2>1, <2>2, NullIsNotUnknown DEF Optionally
  <1>3. w.labels # Unknown
    <2>1. Values(Strings, Strings) \in SUBSET Objects
      BY ObjectsAre, KnownIsOpen
    <2>2. ASSUME NEW keys \in SUBSET Labels, w.labels \in [keys -> Values(Strings, Strings)]
          PROVE  w.labels # Unknown
      <3>1. Unknown \notin [keys -> Values(Strings, Strings)]
        BY <2>1, NoValues
      <3>. QED
        BY <2>2, <3>1
    <2>. QED
      BY <2>2, ResourceFields, NullIsNotUnknown
  <1>4. w.disks \notin {Null, Unknown}
    <2>1. w.disks \in Seq(Disks(Strings, Strings, Strings)) /\ Disks(Strings, Strings, Strings) \subseteq Objects
      BY ResourceFields, ObjectsAre, KnownIsOpen
    <2>. QED
      BY <2>1, NoValues
  <1>. QED
    BY <1>1, <1>2, <1>3, <1>4

\* What makes no difference equals what is planned, or is only computed and open.
LEMMA NoDifference ==
    ASSUME NEW planned, NEW prior, NEW computedOnly, ~FilteredDiff(planned, prior, computedOnly)
    PROVE  /\ planned \notin {Null, Unknown} => planned = prior
           /\ planned = Null /\ ~computedOnly => prior = Null
  BY DEF FilteredDiff

LEMMA NoDifferenceOfObjects ==
    ASSUME NEW planned, NEW prior
    PROVE  /\ ~DiffOfObjects(Schema.net, planned, prior) => ~FilteredDiff(planned.cidr, prior.cidr, FALSE)
           /\ ~DiffOfObjects(Schema.ports, planned, prior) => ~FilteredDiff(planned.port, prior.port, FALSE)
           /\ ~DiffOfObjects(Schema.labels, planned, prior) => ~FilteredDiff(planned.value, prior.value, FALSE)
  <1>1. /\ ~ComputedOnly(Schema.net) /\ ~ComputedOnly(Schema.ports) /\ ~ComputedOnly(Schema.labels)
        /\ ~ComputedOnly(Optional) /\ ~ComputedOnly(Required)
    BY Nestings, Leaves DEF ComputedOnly
  <1>2. /\ "cidr" \in DOMAIN Schema.net.attrs /\ Schema.net.attrs["cidr"] = Optional
        /\ "port" \in DOMAIN Schema.ports.attrs /\ Schema.ports.attrs["port"] = Required
        /\ "value" \in DOMAIN Schema.labels.attrs /\ Schema.labels.attrs["value"] = Required
    BY Nestings DEF Net, Port, Label
  <1>. QED
    BY <1>1, <1>2 DEF DiffOfObjects, FilteredDiff

\* What is planned of a resource that is not as proposed, and makes no difference, is there.
LEMMA NoDifferenceFollows ==
    ASSUME ValuesAssumption, NEW c, IsConfiguration(c), NEW w, IsResource(w),
           ~DiffExists(Schema, Marked(Schema, ProposedNew(w, c)), w)
    PROVE  Follows(w, c)
  <1> DEFINE p == ProposedNew(w, c)
             m == Marked(Schema, p)
             D(n) == IF Schema[n].nesting = "leaf" \/ {m[n], w[n]} \cap {Null, Unknown} # {}
                     THEN FilteredDiff(m[n], w[n], ComputedOnly(Schema[n]))
                     ELSE DiffOfNested(Schema[n], m[n], w[n])
  <1>1. \A n \in Attributes : ~D(n)
    BY SchemaAttributes DEF DiffExists
  <1>2. IsProposal(p)
    BY ProposalTyped
  <1>3. Follows(p, c) /\ DOMAIN p.disks = DOMAIN c.disks
    BY ProposalFollows
  <1> HIDE DEF p
  <1>4. /\ m.name = p.name /\ m.size = p.size
        /\ m.mode = IF p.mode = Null THEN Unknown ELSE p.mode
        /\ m.net = IF p.net = Null THEN Unknown ELSE MarkedObject(Net, p.net)
        /\ m.ports = IF p.ports = Null THEN Null
                     ELSE [i \in DOMAIN p.ports |-> MarkedObject(Port, p.ports[i])]
        /\ m.labels = IF p.labels = Null THEN Null
                      ELSE [i \in DOMAIN p.labels |-> MarkedObject(Label, p.labels[i])]
        /\ m.disks = IF p.disks = Null THEN Null
                     ELSE [i \in DOMAIN p.disks |-> MarkedObject(Disk, p.disks[i])]
    BY MarkedIs
  <1>5. /\ p.net # Null => m.net \notin {Null, Unknown}
        /\ p.ports # Null => m.ports \notin {Null, Unknown}
        /\ p.labels # Null => m.labels \notin {Null, Unknown}
        /\ p.disks # Null /\ m.disks \notin {Null, Unknown}
    BY <1>2, MarkedNests
  <1>6. /\ c.name \in Strings /\ c.size \in Known /\ c.mode \in Known
        /\ c.net # Null => c.net.cidr \in Known
    BY ConfigurationFields DEF Optionally, Nets
  <1>7. \A v \in Strings : v \notin {Null, Unknown}
    BY NoValues
  <1> HIDE DEF m
  <1>8. w.name = c.name /\ w.size = c.size /\ (c.mode # Null => w.mode = c.mode)
    <2>1. ~D("name") /\ ~D("size") /\ ~D("mode")
      BY <1>1 DEF Attributes
    <2>2. /\ ~FilteredDiff(m.name, w.name, FALSE) /\ ~FilteredDiff(m.size, w.size, FALSE)
          /\ ~FilteredDiff(m.mode, w.mode, FALSE)
      BY <2>1, SchemaAttributes, Leaves DEF ComputedOnly
    <2>3. m.name = c.name /\ m.size = c.size /\ (c.mode # Null => m.mode = c.mode)
      BY <1>3, <1>4 DEF Follows
    <2>. QED
      BY <1>6, <1>7, <2>2, <2>3, NoDifference DEF Known, Optionally
  <1>9. ASSUME c.net # Null
        PROVE  w.net # Null /\ w.net.cidr = c.net.cidr
    <2>1. ~D("net")
      BY <1>1 DEF Attributes
    <2>2. p.net # Null /\ p.net.cidr = c.net.cidr
      BY <1>3, <1>9 DEF Follows
    <2>3. m.net \notin {Null, Unknown} /\ m.net = MarkedObject(Net, p.net)
      BY <1>4, <1>5, <2>2
    <2>4. w.net # Null
      BY <2>1, <2>3 DEF FilteredDiff
    <2>5. ~DiffOfObjects(Schema.net, m.net, w.net)
      BY <2>1, <2>3, <2>4, ResourceNests, Nestings DEF DiffOfNested
    <2>6. ~FilteredDiff(m.net.cidr, w.net.cidr, FALSE)
      BY <2>5, NoDifferenceOfObjects
    <2>7. m.net.cidr = c.net.cidr
      <3>1. MarkedObject(Net, p.net) = [cidr |-> p.net.cidr, id |-> Unknown]
        BY MarkedObjects
      <3>. QED
        BY <2>2, <2>3, <3>1
    <2>. QED
      BY <1>6, <1>7, <1>9, <2>4, <2>6, <2>7, NoDifference DEF Known, Optionally
  <1>10. /\ c.ports = Null => w.ports = Null
         /\ c.ports # Null => /\ w.ports # Null /\ DOMAIN w.ports = DOMAIN c.ports
                              /\ \A i \in DOMAIN c.ports : w.ports[i].port = c.ports[i].port
    <2>1. ~D("ports")
      BY <1>1 DEF Attributes
    <2>2. ASSUME c.ports = Null
          PROVE  w.ports = Null
      <3>1. m.ports = Null
        BY <1>3, <1>4, <2>2 DEF Follows
      <3>. QED
        BY <2>1, <3>1, Nestings DEF FilteredDiff, ComputedOnly
    <2>3. ASSUME c.ports # Null
          PROVE  /\ w.ports # Null /\ DOMAIN w.ports = DOMAIN c.ports
                 /\ \A i \in DOMAIN c.ports : w.ports[i].port = c.ports[i].port
      <3>1. /\ p.ports # Null /\ DOMAIN p.ports = DOMAIN c.ports
            /\ \A i \in DOMAIN c.ports : p.ports[i].port = c.ports[i].port
        BY <1>3, <2>3 DEF Follows
      <3>2. m.ports \notin {Null, Unknown} /\ m.ports = [i \in DOMAIN c.ports |-> MarkedObject(Port, p.ports[i])]
        BY <1>4, <1>5, <3>1
      <3>3. w.ports # Null
        BY <2>1, <3>2 DEF FilteredDiff
      <3>4. ~DiffOfNested(Schema.ports, m.ports, w.ports)
        BY <2>1, <3>2, <3>3, ResourceNests, Nestings
      <3>5. /\ DOMAIN m.ports = DOMAIN w.ports
            /\ \A i \in DOMAIN m.ports : ~DiffOfObjects(Schema.ports, m.ports[i], w.ports[i])
        BY <3>4, Nestings DEF DiffOfNested
      <3>6. ASSUME NEW i \in DOMAIN c.ports
            PROVE  w.ports[i].port = c.ports[i].port
        <4>1. m.ports[i] = MarkedObject(Port, p.ports[i])
          BY <3>2
        <4>2. m.ports[i].port = c.ports[i].port
          <5>1. MarkedObject(Port, p.ports[i]) = [port |-> p.ports[i].port, id |-> Unknown]
            BY MarkedObjects
          <5>. QED
            BY <3>1, <4>1, <5>1
        <4>3. ~FilteredDiff(m.ports[i].port, w.ports[i].port, FALSE)
          BY <3>2, <3>5, NoDifferenceOfObjects
        <4>4. c.ports[i].port \in Strings
          BY <2>3, ConfiguredObjects
        <4>. QED
          BY <1>7, <4>2, <4>3, <4>4, NoDifference
      <3>. QED
        BY <3>2, <3>3, <3>5, <3>6
    <2>. QED
      BY <2>2, <2>3
  <1>11. /\ c.labels = Null => w.labels = Null
         /\ c.labels # Null => /\ w.labels # Null /\ DOMAIN w.labels = DOMAIN c.labels
                               /\ \A i \in DOMAIN c.labels : w.labels[i].value = c.labels[i].value
    <2>1. ~D("labels")
      BY <1>1 DEF Attributes
    <2>2. ASSUME c.labels = Null
          PROVE  w.labels = Null
      <3>1. m.labels = Null
        BY <1>3, <1>4, <2>2 DEF Follows
      <3>. QED
        BY <2>1, <3>1, Nestings DEF FilteredDiff, ComputedOnly
    <2>3. ASSUME c.labels # Null
          PROVE  /\ w.labels # Null /\ DOMAIN w.labels = DOMAIN c.labels
                 /\ \A i \in DOMAIN c.labels : w.labels[i].value = c.labels[i].value
      <3>1. /\ p.labels # Null /\ DOMAIN p.labels = DOMAIN c.labels
            /\ \A i \in DOMAIN c.labels : p.labels[i].value = c.labels[i].value
        BY <1>3, <2>3 DEF Follows
      <3>2. m.labels \notin {Null, Unknown} /\ m.labels = [i \in DOMAIN c.labels |-> MarkedObject(Label, p.labels[i])]
        BY <1>4, <1>5, <3>1
      <3>3. w.labels # Null
        BY <2>1, <3>2 DEF FilteredDiff
      <3>4. ~DiffOfNested(Schema.labels, m.labels, w.labels)
        BY <2>1, <3>2, <3>3, ResourceNests, Nestings
      <3>5. /\ DOMAIN m.labels = DOMAIN w.labels
            /\ \A i \in DOMAIN m.labels : ~DiffOfObjects(Schema.labels, m.labels[i], w.labels[i])
        BY <3>4, Nestings DEF DiffOfNested
      <3>6. ASSUME NEW i \in DOMAIN c.labels
            PROVE  w.labels[i].value = c.labels[i].value
        <4>1. m.labels[i] = MarkedObject(Label, p.labels[i])
          BY <3>2
        <4>2. m.labels[i].value = c.labels[i].value
          <5>1. MarkedObject(Label, p.labels[i]) = [value |-> p.labels[i].value, id |-> Unknown]
            BY MarkedObjects
          <5>. QED
            BY <3>1, <4>1, <5>1
        <4>3. ~FilteredDiff(m.labels[i].value, w.labels[i].value, FALSE)
          BY <3>2, <3>5, NoDifferenceOfObjects
        <4>4. c.labels[i].value \in Strings
          BY <2>3, ConfiguredObjects
        <4>. QED
          BY <1>7, <4>2, <4>3, <4>4, NoDifference
      <3>. QED
        BY <3>2, <3>3, <3>5, <3>6
    <2>. QED
      BY <2>2, <2>3
  \* The identifiers of the disks are open, so that there are none in the plan nor in the resource.
  <1>12. DOMAIN c.disks = {} /\ Range(w.disks) = {}
    <2>1. ~D("disks")
      BY <1>1 DEF Attributes
    <2>2. Range(m.disks) = Range(w.disks)
      BY <1>5, <2>1, ResourceNests, Nestings DEF DiffOfNested
    <2>3. m.disks = [i \in DOMAIN c.disks |-> MarkedObject(Disk, p.disks[i])]
      BY <1>3, <1>4, <1>5
    <2>4. ASSUME NEW i \in DOMAIN c.disks
          PROVE  FALSE
      <3>1. m.disks[i] \in Range(w.disks) /\ m.disks[i].id = Unknown
        <4>1. m.disks[i] = MarkedObject(Disk, p.disks[i])
          BY <2>3
        <4>2. m.disks[i].id = Unknown
          BY <4>1, MarkedObjects
        <4>3. m.disks[i] \in Range(m.disks)
          BY <2>3 DEF Range
        <4>. QED
          BY <2>2, <4>2, <4>3
      <3>2. \A d \in Range(w.disks) : d \in Disks(Strings, Strings, Strings)
        BY ResourceFields, ElementOfSeq, LenProperties DEF Range
      <3>3. m.disks[i].id \in Strings
        BY <3>1, <3>2 DEF Disks
      <3>. QED
        BY <3>1, <3>3, <1>7
    <2>. QED
      BY <2>2, <2>3, <2>4 DEF Range
  <1>. QED
    BY <1>8, <1>9, <1>10, <1>11, <1>12 DEF Follows

--------------------------------------------------------------------------------
(* An update settles *)

LEMMA ResourceIsNotNull ==
    ASSUME ValuesAssumption, NEW w, IsResource(w)
    PROVE  w # Null /\ w = [n \in Attributes |-> w[n]]
  <1>1. w = [n \in Attributes |-> w[n]]
    BY DEF IsResource, Attributes
  <1>2. ASSUME NEW n \in Attributes \ {"labels"}
        PROVE  w[n] \in Open \cup Objects \cup Seq(Objects)
    <2>1. w.name \in Open /\ w.size \in Open /\ w.mode \in Open /\ w.arn \in Open
      BY TextsAreStrings, ResourceFields, KnownIsOpen
    <2>2. w.net \in Open \cup Objects
      <3>1. w.net \in Optionally(Nets(Known, Strings)) /\ Nets(Known, Strings) \subseteq Objects
        BY ResourceFields, ObjectsAre, KnownIsOpen
      <3>. QED
        BY <3>1, KnownIsOpen DEF Optionally
    <2>3. w.ports \in Open \cup Seq(Objects)
      <3>1. w.ports \in Optionally(Seq(Ports(Strings, Strings))) /\ Ports(Strings, Strings) \subseteq Objects
        BY ResourceFields, ObjectsAre, KnownIsOpen
      <3>2. \A s \in Seq(Ports(Strings, Strings)) : s \in Seq(Objects)
        BY <3>1, SeqMonotonic
      <3>. QED
        BY <3>1, <3>2, KnownIsOpen DEF Optionally
    <2>4. w.disks \in Seq(Objects)
      <3>1. w.disks \in Seq(Disks(Strings, Strings, Strings)) /\ Disks(Strings, Strings, Strings) \subseteq Objects
        BY ResourceFields, ObjectsAre, KnownIsOpen
      <3>. QED
        BY <3>1, SeqMonotonic
    <2>. QED
      BY <2>1, <2>2, <2>3, <2>4 DEF Attributes
  <1>3. \E keys \in SUBSET Labels : w.labels \in Open \cup [keys -> Objects]
    <2>1. CASE w.labels = Null
      BY <2>1, KnownIsOpen
    <2>2. CASE w.labels # Null
      <3>1. PICK keys \in SUBSET Labels : w.labels \in [keys -> Values(Strings, Strings)]
        BY <2>2, ResourceFields
      <3>2. Values(Strings, Strings) \subseteq Objects
        BY ObjectsAre, KnownIsOpen
      <3>3. w.labels \in [keys -> Objects]
        BY <3>1, <3>2
      <3>. QED
        BY <3>3
    <2>. QED
      BY <2>1, <2>2
  <1>. QED
    BY <1>1, <1>2, <1>3, NullIsNoResource

\* What is made of a proposal is a resource, with identifiers of its own.
LEMMA ResultTyped ==
    ASSUME ValuesAssumption, NEW p, IsProposal(p), NEW made \in Results(p)
    PROVE  /\ IsResource(made)
           /\ Range(made.disks) = {DiskOf(d) : d \in Range(p.disks)}
           /\ \E n \in Nat : DOMAIN made.disks = 1..n
  <1>1. PICK disks \in Arrangements({DiskOf(d) : d \in Range(p.disks)}) : made = Result(p, disks)
    BY DEF Results
  <1>2. p.disks \in Seq(Disks(Strings, Known, Known))
    BY ProposalFields
  <1>3. /\ \E n \in Nat : DOMAIN disks = 1..n
        /\ Range(disks) = {DiskOf(d) : d \in Range(p.disks)}
        /\ \A T : Range(disks) \subseteq T => disks \in Seq(T)
    BY <1>2, ArrangementsAre
  <1>4. \A d \in Range(p.disks) : d \in Disks(Strings, Known, Known)
    BY <1>2, ElementOfSeq, LenProperties DEF Range
  <1>5. \A d \in Range(p.disks) : DiskOf(d) \in Disks(Strings, Strings, Strings) /\ DiskOf(d).id = DiskOf(d).key
    <2>1. ASSUME NEW d \in Range(p.disks)
          PROVE  DiskOf(d) \in Disks(Strings, Strings, Strings) /\ DiskOf(d).id = DiskOf(d).key
      <3>1. d.key \in Strings /\ d.tier \in Strings \cup {Null}
        BY <1>4 DEF Disks, Known, Optionally
      <3>2. (IF d.tier = Null THEN "default" ELSE d.tier) \in Strings
        BY <3>1, TextsAreStrings
      <3>. QED
        BY <3>1, <3>2 DEF DiskOf, Disks
    <2>. QED
      BY <2>1
  <1>6. disks \in Seq(Disks(Strings, Strings, Strings)) /\ \A d \in Range(disks) : d.id = d.key
    BY <1>3, <1>5
  <1>7. made.name \in Strings /\ made.size \in Optionally(Strings) /\ made.mode \in Strings /\ made.arn \in {"arn"}
    <2>1. /\ p.name \in Strings /\ p.size \in Strings \cup {Null} /\ p.mode \in Strings \cup {Null}
      BY ProposalFields DEF Known, Optionally
    <2>2. /\ made.name = p.name /\ made.size = p.size /\ made.arn = "arn"
          /\ made.mode = IF p.mode = Null THEN "default" ELSE p.mode
      BY <1>1 DEF Result
    <2>3. made.mode \in Strings
      BY <2>1, <2>2, TextsAreStrings
    <2>. QED
      BY <2>1, <2>2, <2>3 DEF Optionally
  <1>8. made.net \in Optionally(Nets(Optionally(Strings), Strings))
    <2>1. p.net # Null => p.net \in Nets(Known, Known)
      BY ProposalFields DEF Optionally
    <2>2. made.net = IF p.net = Null THEN [cidr |-> Null, id |-> "net"] ELSE NetOf(p.net)
      BY <1>1 DEF Result
    <2>3. p.net # Null => NetOf(p.net) \in Nets(Known, Strings)
      BY <2>1, TextsAreStrings DEF NetOf, Nets
    <2>4. [cidr |-> Null, id |-> "net"] \in Nets(Known, Strings)
      BY TextsAreStrings DEF Nets, Known, Optionally
    <2>. QED
      BY <2>2, <2>3, <2>4 DEF Known, Optionally
  <1>9. made.ports \in Optionally(Seq(Ports(Strings, Strings)))
    <2>1. made.ports = IF p.ports = Null THEN Null ELSE [i \in DOMAIN p.ports |-> PortOf(p.ports[i])]
      BY <1>1 DEF Result
    <2>2. ASSUME p.ports # Null
          PROVE  made.ports \in Seq(Ports(Strings, Strings))
      <3>1. p.ports \in Seq(Ports(Strings, Known))
        BY <2>2, ProposalFields DEF Optionally
      <3>2. \A i \in DOMAIN p.ports : p.ports[i] \in Ports(Strings, Known)
        BY <3>1, ElementOfSeq, LenProperties
      <3>3. \A i \in DOMAIN p.ports : PortOf(p.ports[i]) \in Ports(Strings, Strings)
        BY <3>2 DEF PortOf, Ports
      <3>. QED
        BY <2>1, <2>2, <3>1, <3>3, LenProperties, IsSequence
    <2>. QED
      BY <2>1, <2>2 DEF Optionally
  <1>10. IsMap(made.labels, Values(Strings, Strings))
    <2>1. made.labels = IF p.labels = Null THEN Null ELSE [i \in DOMAIN p.labels |-> LabelOf(p.labels[i])]
      BY <1>1 DEF Result
    <2>2. ASSUME p.labels # Null
          PROVE  IsMap(made.labels, Values(Strings, Strings))
      <3>1. PICK keys \in SUBSET Labels : p.labels \in [keys -> Values(Strings, Known)]
        BY <2>2, ProposalFields
      <3>2. \A i \in keys : LabelOf(p.labels[i]) \in Values(Strings, Strings)
        BY <3>1 DEF LabelOf, Values
      <3>3. made.labels \in [keys -> Values(Strings, Strings)]
        BY <2>1, <2>2, <3>1, <3>2
      <3>. QED
        BY <3>3 DEF IsMap
    <2>. QED
      BY <2>1, <2>2 DEF IsMap
  <1>11. made.disks = disks
    BY <1>1 DEF Result
  <1>12. made = [name |-> made.name, size |-> made.size, mode |-> made.mode, arn |-> made.arn,
                 net |-> made.net, ports |-> made.ports, labels |-> made.labels, disks |-> made.disks]
    BY <1>1 DEF Result
  <1>13. IsResource(made)
    BY <1>6, <1>7, <1>8, <1>9, <1>10, <1>11, <1>12 DEF IsResource, OwnIds
  <1>. QED
    BY <1>3, <1>6, <1>11, <1>13

\* A resource makes no difference to itself.
LEMMA NoDifferenceToItself ==
    ASSUME NEW w
    PROVE  ~DiffExists(Schema, w, w)
  <1>1. \A x, co : ~FilteredDiff(x, x, co)
    BY DEF FilteredDiff
  <1>2. \A a, x : ~DiffOfObjects(a, x, x)
    BY <1>1 DEF DiffOfObjects
  <1>3. ASSUME NEW n \in Attributes, Schema[n].nesting # "leaf"
        PROVE  ~DiffOfNested(Schema[n], w[n], w[n])
    <2>1. Schema[n].nesting \in {"single", "list", "map", "set"}
      BY <1>3, SchemaAttributes, Leaves, Nestings DEF Attributes
    <2>. QED
      BY <1>2, <2>1 DEF DiffOfNested
  <1>. QED
    BY <1>1, <1>3, SchemaAttributes DEF DiffExists

\* If disks are blocks, the prior element of a disk has its key, and its tier if that is configured.
LEMMA ValidPriorDisk ==
    ASSUME DisksAreBlocks = TRUE, NEW prior, NEW config, config.key # Null, config.id = Null
    PROVE  ValidPriorFromConfig(Schema.disks, prior, config)
               <=> prior.key = config.key /\ (config.tier # Null => prior.tier = config.tier)
  <1>1. Schema.disks.block /\ Schema.disks.attrs = Disk
    BY Nestings
  <1>2. DOMAIN Disk = {"key", "tier", "id"} /\ Disk.key = Required /\ Disk.tier = Default /\ Disk.id = ReadOnly
    BY DEF Disk
  <1>. QED
    BY <1>1, <1>2, Leaves DEF ValidPriorFromConfig

LEMMA NetWasConfigured ==
    ASSUME NEW net
    PROVE  OptionalValueNotComputable(Schema.net, net) <=> net # Null /\ net.cidr # Null
  <1>1. DOMAIN Net = {"cidr", "id"} /\ Net.cidr = Optional /\ Net.id = ReadOnly
    BY DEF Net
  <1>. QED
    BY <1>1, Nestings, Leaves DEF OptionalValueNotComputable

\* Every disk of the configuration gets the one that was made for it, in whatever order they are.
LEMMA DisksSettle ==
    ASSUME ValuesAssumption, DisksAreBlocks = TRUE,
           NEW config, config \in Seq(Disks(Strings, Known, {Null})), DistinctKeys(config),
           NEW p, DOMAIN p = DOMAIN config, \A i \in DOMAIN config : FollowsDisk(p[i], config[i]),
           NEW made, made \in Seq(Disks(Strings, Strings, Strings)),
           Range(made) = {DiskOf(d) : d \in Range(p)}
    PROVE  Range(ProposedNewSet(Schema.disks, made, config)) = Range(made)
  <1> DEFINE from  == Correlated(Schema.disks, made, config)
             q     == ProposedNewSet(Schema.disks, made, config)
             mine(i) == DiskOf(p[i])
  <1>1. /\ q = [i \in DOMAIN config |->
                  IF from[i] = 0 THEN config[i]
                  ELSE [key  |-> config[i].key,
                        tier |-> IF config[i].tier = Null THEN made[from[i]].tier ELSE config[i].tier,
                        id   |-> made[from[i]].id]]
        /\ \A i \in DOMAIN config :
              \/ from[i] = 0 /\ Unused(Schema.disks, made, config, from, i) = {}
              \/ from[i] \in Unused(Schema.disks, made, config, from, i)
    BY ProposedDisks
  <1>2. /\ DOMAIN config = 1..Len(config) /\ Len(config) \in Nat
        /\ DOMAIN made = 1..Len(made) /\ Len(made) \in Nat
    BY LenProperties
  <1>3. \A i \in DOMAIN config : config[i].key \in Strings /\ config[i].key # Null /\ config[i].id = Null
    <2>1. \A i \in DOMAIN config : config[i] \in Disks(Strings, Known, {Null})
      BY ElementOfSeq, <1>2
    <2>. QED
      BY <2>1, NoValues DEF Disks
  <1> HIDE DEF from, q
  <1>4. ASSUME NEW i \in DOMAIN config
        PROVE  /\ mine(i).key = config[i].key /\ mine(i).id = config[i].key
               /\ config[i].tier # Null => mine(i).tier = config[i].tier
    BY DEF DiskOf, FollowsDisk
  <1>5. \A i \in DOMAIN config : mine(i) \in Range(made)
    BY DEF Range
  <1>6. ASSUME NEW j \in DOMAIN made
        PROVE  \E i \in DOMAIN config : made[j] = mine(i)
    <2>1. made[j] \in Range(made)
      BY DEF Range
    <2>. QED
      BY <2>1 DEF Range
  <1> HIDE DEF mine
  <1>7. ASSUME NEW i \in DOMAIN config, NEW j \in DOMAIN made,
               ValidPriorFromConfig(Schema.disks, made[j], config[i])
        PROVE  made[j] = mine(i)
    <2>1. made[j].key = config[i].key
      BY <1>3, <1>7, ValidPriorDisk
    <2>2. PICK k \in DOMAIN config : made[j] = mine(k)
      BY <1>6
    <2>3. config[k].key = config[i].key
      BY <1>4, <2>1, <2>2
    <2>4. k = i
      BY <2>3 DEF DistinctKeys
    <2>. QED
      BY <2>2, <2>4
  <1>8. ASSUME NEW i \in DOMAIN config
        PROVE  from[i] \in Unused(Schema.disks, made, config, from, i)
    <2>1. PICK j \in DOMAIN made : made[j] = mine(i)
      BY <1>5 DEF Range
    <2>2. ValidPriorFromConfig(Schema.disks, made[j], config[i])
      BY <1>3, <1>4, <2>1, ValidPriorDisk
    <2>3. ASSUME NEW k \in 1..(i - 1), from[k] = j
          PROVE  FALSE
      <3>1. k \in DOMAIN config /\ k # i
        BY <1>2
      <3>2. from[k] # 0
        BY <1>2, <2>3
      <3>3. ValidPriorFromConfig(Schema.disks, made[j], config[k])
        BY <1>1, <2>3, <3>1, <3>2 DEF Unused
      <3>4. made[j].key = config[k].key
        BY <1>3, <3>1, <3>3, ValidPriorDisk
      <3>5. config[k].key = config[i].key
        BY <1>4, <2>1, <3>4
      <3>. QED
        BY <3>1, <3>5 DEF DistinctKeys
    <2>4. j \in Unused(Schema.disks, made, config, from, i)
      BY <2>2, <2>3 DEF Unused
    <2>. QED
      BY <1>1, <2>4
  <1>9. ASSUME NEW i \in DOMAIN config
        PROVE  q[i] = mine(i)
    <2>1. from[i] \in DOMAIN made /\ ValidPriorFromConfig(Schema.disks, made[from[i]], config[i])
      BY <1>8 DEF Unused
    <2>2. made[from[i]] = mine(i)
      BY <1>7, <2>1
    <2>3. q[i] = [key  |-> config[i].key,
                  tier |-> IF config[i].tier = Null THEN mine(i).tier ELSE config[i].tier,
                  id   |-> mine(i).id]
      <3>1. from[i] # 0
        BY <1>2, <2>1
      <3>. QED
        BY <1>1, <2>2, <3>1
    <2>4. mine(i) = [key |-> mine(i).key, tier |-> mine(i).tier, id |-> mine(i).id]
      BY DEF mine, DiskOf
    <2>. QED
      BY <1>4, <2>3, <2>4
  <1>10. DOMAIN q = DOMAIN config
    BY <1>1
  <1>11. Range(q) = Range(made)
    BY <1>5, <1>6, <1>9, <1>10 DEF Range
  <1>. QED
    BY <1>11 DEF q

\* What is proposed for what was made of a proposal for the same configuration is what was made.
LEMMA ProposalSettles ==
    ASSUME ValuesAssumption, DisksAreBlocks = TRUE,
           NEW prior, prior # Null => IsResource(prior),
           NEW c, IsConfiguration(c), c.arn = Null, NEW made \in Results(ProposedNew(prior, c))
    PROVE  Equal(ProposedNew(made, c), made)
  <1> DEFINE p     == ProposedNew(prior, c)
             start == Start(prior)
             q     == ProposedNew(made, c)
  <1>1. IsProposal(p)
    BY ProposalTyped
  <1>2. /\ Follows(p, c) /\ DOMAIN p.disks = DOMAIN c.disks
        /\ \A i \in DOMAIN c.disks : FollowsDisk(p.disks[i], c.disks[i])
    BY ProposalFollows
  <1>3. c.net = Null => p.net = Null \/ p.net.cidr = Null
    <2>1. p.net = IF c.net # Null THEN ProposedNewObject(Net, start.net, c.net)
                  ELSE IF OptionalValueNotComputable(Schema.net, start.net) THEN Null
                  ELSE start.net
      BY ProposedIs
    <2> HIDE DEF p, start
    <2>. QED
      BY <2>1, NetWasConfigured
  <1>4. /\ IsResource(made)
        /\ Range(made.disks) = {DiskOf(d) : d \in Range(p.disks)}
    BY <1>1, ResultTyped
  <1>5. PICK disks : made = Result(p, disks)
    BY DEF Results
  <1>6. /\ made.name = p.name /\ made.size = p.size
        /\ made.mode = IF p.mode = Null THEN "default" ELSE p.mode
        /\ made.net = IF p.net = Null THEN [cidr |-> Null, id |-> "net"] ELSE NetOf(p.net)
        /\ made.ports = IF p.ports = Null THEN Null ELSE [i \in DOMAIN p.ports |-> PortOf(p.ports[i])]
        /\ made.labels = IF p.labels = Null THEN Null ELSE [i \in DOMAIN p.labels |-> LabelOf(p.labels[i])]
    BY <1>5 DEF Result
  <1>7. made # Null /\ made = [n \in Attributes |-> made[n]]
    BY <1>4, ResourceIsNotNull
  <1>8. /\ q = [n \in Attributes |-> q[n]]
        /\ q.name = c.name /\ q.size = c.size
        /\ q.mode = Kept(made, c, "mode")
        /\ q.arn = Kept(made, c, "arn")
        /\ q.net = IF c.net # Null THEN ProposedNewObject(Net, made.net, c.net)
                   ELSE IF OptionalValueNotComputable(Schema.net, made.net) THEN Null
                   ELSE made.net
        /\ q.ports = ProposedNewElements(Schema.ports, made.ports, c.ports)
        /\ q.labels = ProposedNewElements(Schema.labels, made.labels, c.labels)
        /\ q.disks = ProposedNewSet(Schema.disks, made.disks, c.disks)
    <2>1. Start(made) = made
      BY <1>7 DEF Start
    <2>. QED
      BY <2>1, ProposedIs
  <1> HIDE DEF p, start, q
  <1>9. q.name = made.name /\ q.size = made.size /\ q.arn = made.arn
    BY <1>2, <1>6, <1>7, <1>8 DEF Follows, Kept, PriorOf
  <1>10. q.mode = made.mode
    BY <1>2, <1>6, <1>7, <1>8 DEF Follows, Kept, PriorOf
  <1>11. q.net = made.net
    <2>1. CASE c.net = Null
      <3>1. made.net.cidr = Null
        BY <1>3, <1>6, <2>1 DEF NetOf
      <3>. QED
        BY <1>8, <2>1, <3>1, NetWasConfigured
    <2>2. CASE c.net # Null
      <3>1. p.net # Null /\ p.net.cidr = c.net.cidr /\ c.net.id = Null
        BY <1>2, <2>2, ConfiguredObjects DEF Follows
      <3>2. made.net = [cidr |-> c.net.cidr, id |-> "net"]
        BY <1>6, <3>1 DEF NetOf
      <3>3. made.net # Null
        <4>1. made.net \in Nets(Known, Strings)
          <5>1. c.net.cidr \in Known
            BY <2>2, ConfigurationFields DEF Optionally, Nets
          <5>. QED
            BY <3>2, <5>1, TextsAreStrings DEF Nets
        <4>. QED
          BY <4>1, ObjectsAre, KnownIsOpen, NoValues
      <3>4. ProposedNewObject(Net, made.net, c.net) = [cidr |-> c.net.cidr, id |-> Kept(made.net, c.net, "id")]
        BY ProposedObjects
      <3>5. Kept(made.net, c.net, "id") = made.net.id
        BY <3>1, <3>3 DEF Kept, PriorOf
      <3>. QED
        BY <1>8, <2>2, <3>2, <3>4, <3>5
    <2>. QED
      BY <2>1, <2>2
  <1>12. q.ports = made.ports
    <2>1. CASE c.ports = Null
      BY <1>2, <1>6, <1>8, <2>1 DEF Follows, ProposedNewElements
    <2>2. CASE c.ports # Null
      <3>1. /\ p.ports # Null /\ DOMAIN p.ports = DOMAIN c.ports
            /\ \A i \in DOMAIN c.ports : p.ports[i].port = c.ports[i].port
        BY <1>2, <2>2 DEF Follows
      <3>2. made.ports = [i \in DOMAIN c.ports |-> [port |-> c.ports[i].port, id |-> c.ports[i].port]]
        BY <1>6, <3>1 DEF PortOf
      <3>3. KeptPorts(made.ports) /\ ConfiguredPorts(c.ports)
        BY <1>4, <2>2, ResourceFields, ConfigurationFields DEF KeptPorts, ConfiguredPorts, Optionally
      <3>4. q.ports = PortsFrom(made.ports, c.ports)
        BY <1>8, <3>3, ProposedPorts
      <3>5. made.ports # Null
        <4>1. DOMAIN c.ports = 1..Len(c.ports) /\ Len(c.ports) \in Nat
          BY <3>3, LenProperties DEF ConfiguredPorts
        <4>2. \A i \in DOMAIN c.ports : made.ports[i] \in Ports(Strings, Strings)
          BY <2>2, <3>2, ConfiguredObjects DEF Ports
        <4>3. made.ports = [i \in 1..Len(c.ports) |-> made.ports[i]]
          BY <3>2, <4>1
        <4>4. made.ports \in Seq(Ports(Strings, Strings))
          BY <4>1, <4>2, <4>3, IsSequence
        <4>. QED
          BY <4>4, ObjectsAre, KnownIsOpen, NoValues
      <3>. QED
        BY <3>2, <3>4, <3>5 DEF PortsFrom
    <2>. QED
      BY <2>1, <2>2
  <1>13. q.labels = made.labels
    <2>1. CASE c.labels = Null
      BY <1>2, <1>6, <1>8, <2>1 DEF Follows, ProposedNewElements
    <2>2. CASE c.labels # Null
      <3>1. /\ p.labels # Null /\ DOMAIN p.labels = DOMAIN c.labels
            /\ \A i \in DOMAIN c.labels : p.labels[i].value = c.labels[i].value
        BY <1>2, <2>2 DEF Follows
      <3>2. made.labels = [i \in DOMAIN c.labels |-> [value |-> c.labels[i].value, id |-> c.labels[i].value]]
        BY <1>6, <3>1 DEF LabelOf
      <3>3. KeptLabels(made.labels) /\ ConfiguredLabels(c.labels)
        BY <1>4, <2>2 DEF IsResource, IsConfiguration, KeptLabels, ConfiguredLabels
      <3>4. q.labels = LabelsFrom(made.labels, c.labels)
        BY <1>8, <3>3, ProposedLabels
      <3>5. made.labels # Null
        <4>1. PICK keys \in SUBSET Labels : c.labels \in [keys -> Values(Strings, {Null})]
          BY <2>2, ConfigurationFields
        <4>2. \A i \in keys : c.labels[i].value \in Strings
          BY <4>1 DEF Values
        <4>3. made.labels \in [keys -> Values(Strings, Strings)]
          BY <3>2, <4>1, <4>2 DEF Values
        <4>4. Values(Strings, Strings) \in SUBSET Objects
          BY ObjectsAre, KnownIsOpen
        <4>5. Null \notin [keys -> Values(Strings, Strings)]
          BY <4>4, NoValues
        <4>. QED
          BY <4>3, <4>5
      <3>. QED
        BY <3>2, <3>4, <3>5 DEF LabelsFrom
    <2>. QED
      BY <2>1, <2>2
  <1>14. Range(q.disks) = Range(made.disks)
    <2>1. c.disks \in Seq(Disks(Strings, Known, {Null})) /\ DistinctKeys(c.disks)
      BY ConfigurationFields
    <2>2. made.disks \in Seq(Disks(Strings, Strings, Strings))
      BY <1>4, ResourceFields
    <2>3. Range(ProposedNewSet(Schema.disks, made.disks, c.disks)) = Range(made.disks)
      BY <1>2, <1>4, <2>1, <2>2, DisksSettle
    <2>. QED
      BY <1>8, <2>3
  <1>15. Equal(q, made)
    BY <1>7, <1>8, <1>9, <1>10, <1>11, <1>12, <1>13, <1>14, EqualIs
  <1>. QED
    BY <1>15 DEF q

--------------------------------------------------------------------------------
(* The reachable states *)

\* What is applied when a resource is not up to date is made of what is proposed.
LEMMA AppliedIs ==
    ASSUME ValuesAssumption, FrameworkTypeOK, ~IsUpToDate(resource)
    PROVE  AppliedTo(resource) = Results(ProposedNew(resource, ConfigValue))
  <1> DEFINE p == ProposedNew(resource, ConfigValue)
  <1>1. IsProposal(p)
    BY ConfigIs, ProposalTyped DEF FrameworkTypeOK
  <1>2. ~(resource # Null /\ Equal(p, resource))
    <2>1. ASSUME resource # Null, Equal(p, resource)
          PROVE  FALSE
      <3>1. Planned(resource, ConfigValue) = resource
        BY <2>1 DEF Planned
      <3>. QED
        BY <2>1, <3>1, NoDifferenceToItself DEF IsUpToDate
    <2>. QED
      BY <2>1
  <1>3. Planned(resource, ConfigValue) = Marked(Schema, p)
    BY <1>2 DEF Planned
  <1> HIDE DEF p
  <1>4. AppliedTo(resource) = Results(p)
    BY <1>1, <1>3, MadeIs DEF AppliedTo
  <1>. QED
    BY <1>4 DEF p

LEMMA ConfigurationIf ==
    ASSUME NEW c, c = [n \in Attributes |-> c[n]],
           c.name \in Strings, c.size \in Known, c.mode \in Known, c.arn \in {Null, "arn"},
           c.net \in Optionally(Nets(Known, {Null})), c.ports \in Optionally(Seq(Ports(Strings, {Null}))),
           c.disks \in Seq(Disks(Strings, Known, {Null})), IsMap(c.labels, Values(Strings, {Null})),
           DistinctKeys(c.disks)
    PROVE  IsConfiguration(c)
  BY DEF IsConfiguration, Attributes, Known

LEMMA ResourceIf ==
    ASSUME NEW w, w = [n \in Attributes |-> w[n]],
           w.name \in Strings, w.size \in Known, w.mode \in Strings, w.arn = "arn",
           w.net \in Optionally(Nets(Known, Strings)), w.ports \in Optionally(Seq(Ports(Strings, Strings))),
           w.disks \in Seq(Disks(Strings, Strings, Strings)), IsMap(w.labels, Values(Strings, Strings)),
           OwnIds(w.disks)
    PROVE  IsResource(w)
  BY DEF IsResource, Attributes, Known

LEMMA InitTyped ==
    ASSUME EditsAssumption, FrameworkInit
    PROVE  FrameworkTypeOK
  BY DEF EditsAssumption, FrameworkInit, FrameworkTypeOK

LEMMA UserEditsTyped ==
    ASSUME EditsAssumption, FrameworkTypeOK, SpecChanges
    PROVE  FrameworkTypeOK'
  <1>1. PICK n \in DOMAIN Parameters : \E value \in Parameters[n] : params' = [params EXCEPT ![n] = value]
    BY DEF SpecChanges
  <1>2. PICK value \in Parameters[n] : params' = [params EXCEPT ![n] = value]
    BY <1>1
  <1> DEFINE m == [Minimal EXCEPT ![n] = value]
  <1>3. n \in DOMAIN Minimal \ {"arn"} /\ IsConfiguration(m)
    BY DEF EditsAssumption
  <1>4. DOMAIN Minimal = Attributes
    BY DEF Minimal, Attributes
  <1>5. m[n] = value
    BY <1>3, <1>4
  <1> HIDE DEF m
  <1>6. IsConfiguration(params) /\ params = [x \in Attributes |-> params[x]]
    BY DEF FrameworkTypeOK, IsConfiguration, Attributes
  <1>7. /\ params' = [x \in Attributes |-> params'[x]]
        /\ \A x \in Attributes : params'[x] = params[x] \/ params'[x] = m[x]
    BY <1>2, <1>3, <1>4, <1>5, <1>6
  <1>8. /\ params.name \in Strings /\ params.size \in Known /\ params.mode \in Known /\ params.arn \in {Null, "arn"}
        /\ params.net \in Optionally(Nets(Known, {Null}))
        /\ params.ports \in Optionally(Seq(Ports(Strings, {Null})))
        /\ params.disks \in Seq(Disks(Strings, Known, {Null})) /\ DistinctKeys(params.disks)
        /\ IsMap(params.labels, Values(Strings, {Null}))
    BY <1>6, ConfigurationFields DEF IsMap
  <1>9. /\ m.name \in Strings /\ m.size \in Known /\ m.mode \in Known /\ m.arn \in {Null, "arn"}
        /\ m.net \in Optionally(Nets(Known, {Null}))
        /\ m.ports \in Optionally(Seq(Ports(Strings, {Null})))
        /\ m.disks \in Seq(Disks(Strings, Known, {Null})) /\ DistinctKeys(m.disks)
        /\ IsMap(m.labels, Values(Strings, {Null}))
    BY <1>3, ConfigurationFields DEF IsMap
  <1>10. /\ params'.name \in Strings /\ params'.size \in Known /\ params'.mode \in Known
         /\ params'.arn \in {Null, "arn"}
    BY <1>7, <1>8, <1>9 DEF Attributes
  <1>11. /\ params'.net \in Optionally(Nets(Known, {Null}))
         /\ params'.ports \in Optionally(Seq(Ports(Strings, {Null})))
    BY <1>7, <1>8, <1>9 DEF Attributes
  <1>12. /\ params'.disks \in Seq(Disks(Strings, Known, {Null})) /\ DistinctKeys(params'.disks)
         /\ IsMap(params'.labels, Values(Strings, {Null}))
    BY <1>7, <1>8, <1>9 DEF Attributes
  <1>13. IsConfiguration(params')
    BY <1>7, <1>10, <1>11, <1>12, ConfigurationIf
  <1>. QED
    BY <1>13 DEF FrameworkTypeOK, SpecChanges

LEMMA ReconcileTyped ==
    ASSUME ValuesAssumption, FrameworkTypeOK, PlanAndApply
    PROVE  FrameworkTypeOK'
  <1>1. ~IsUpToDate(resource) /\ resource' \in AppliedTo(resource)
    BY DEF PlanAndApply, Create, Update, IsUpToDate
  <1>2. resource' \in Results(ProposedNew(resource, ConfigValue))
    BY <1>1, AppliedIs
  <1>3. IsResource(resource')
    BY <1>2, ConfigIs, ProposalTyped, ResultTyped DEF FrameworkTypeOK
  <1>4. IsConfiguration(params')
    <2>1. CASE params' = params
      BY <2>1 DEF FrameworkTypeOK
    <2>2. CASE params' = [params EXCEPT !.arn = "arn"]
      BY <2>2 DEF FrameworkTypeOK, IsConfiguration, IsMap
    <2>. QED
      BY <2>1, <2>2 DEF PlanAndApply, Create, Update
  <1>. QED
    BY <1>3, <1>4 DEF FrameworkTypeOK

LEMMA DriftTyped ==
    ASSUME ValuesAssumption, FrameworkTypeOK, OthersChange
    PROVE  FrameworkTypeOK'
  <1> SUFFICES IsResource(resource')
    BY DEF FrameworkTypeOK, OthersChange
  <1>1. IsResource(resource)
    BY DEF OthersChange, FrameworkTypeOK
  <1>2. resource = [n \in Attributes |-> resource[n]]
    BY <1>1, ResourceIsNotNull
  <1>3. /\ resource.name \in Strings /\ resource.size \in Known /\ resource.mode \in Strings /\ resource.arn = "arn"
        /\ resource.net \in Optionally(Nets(Known, Strings))
        /\ resource.ports \in Optionally(Seq(Ports(Strings, Strings)))
        /\ resource.disks \in Seq(Disks(Strings, Strings, Strings))
        /\ IsMap(resource.labels, Values(Strings, Strings))
        /\ OwnIds(resource.disks)
    BY <1>1, ResourceFields DEF IsResource
  <1>4. CASE resource' = [resource EXCEPT !.size = "other", !.mode = "other"]
    <2>1. resource' = [n \in Attributes |-> IF n \in {"size", "mode"} THEN "other" ELSE resource[n]]
      BY <1>2, <1>4 DEF Attributes
    <2>2. "other" \in Strings /\ "other" \in Known
      BY TextsAreStrings DEF Known, Optionally
    <2>3. /\ resource' = [n \in Attributes |-> resource'[n]]
          /\ resource'.name \in Strings /\ resource'.size \in Known /\ resource'.mode \in Strings
          /\ resource'.arn = "arn"
          /\ resource'.net \in Optionally(Nets(Known, Strings))
          /\ resource'.ports \in Optionally(Seq(Ports(Strings, Strings)))
          /\ resource'.disks \in Seq(Disks(Strings, Strings, Strings))
          /\ IsMap(resource'.labels, Values(Strings, Strings))
          /\ OwnIds(resource'.disks)
      BY <1>3, <2>1, <2>2 DEF Attributes
    <2>. QED
      BY <2>3, ResourceIf
  <1>5. CASE resource.net # Null /\ resource' = [resource EXCEPT !.net.cidr = "other"]
    <2>1. resource.net \in Nets(Known, Strings)
      BY <1>3, <1>5 DEF Optionally
    <2>2. [resource.net EXCEPT !.cidr = "other"] \in Nets(Known, Strings)
      BY <2>1, TextsAreStrings DEF Nets, Known, Optionally
    <2>3. resource' = [n \in Attributes |-> IF n = "net" THEN [resource.net EXCEPT !.cidr = "other"] ELSE resource[n]]
      BY <1>2, <1>5 DEF Attributes
    <2>4. resource'.net \in Optionally(Nets(Known, Strings))
      BY <2>2, <2>3 DEF Attributes, Optionally
    <2>5. /\ resource' = [n \in Attributes |-> resource'[n]]
          /\ resource'.name \in Strings /\ resource'.size \in Known /\ resource'.mode \in Strings
          /\ resource'.arn = "arn"
          /\ resource'.net \in Optionally(Nets(Known, Strings))
          /\ resource'.ports \in Optionally(Seq(Ports(Strings, Strings)))
          /\ resource'.disks \in Seq(Disks(Strings, Strings, Strings))
          /\ IsMap(resource'.labels, Values(Strings, Strings))
          /\ OwnIds(resource'.disks)
      BY <1>3, <2>3, <2>4 DEF Attributes
    <2>. QED
      BY <2>5, ResourceIf
  <1>6. CASE resource.ports \notin {Null, <<>>} /\ resource' = [resource EXCEPT !.ports = <<Head(@)>>]
    <2>1. resource.ports \in Seq(Ports(Strings, Strings)) /\ resource.ports # <<>>
      BY <1>3, <1>6 DEF Optionally
    <2>2. <<Head(resource.ports)>> \in Seq(Ports(Strings, Strings))
      BY <2>1
    <2>3. resource' = [n \in Attributes |-> IF n = "ports" THEN <<Head(resource.ports)>> ELSE resource[n]]
      BY <1>2, <1>6 DEF Attributes
    <2>4. resource'.ports \in Optionally(Seq(Ports(Strings, Strings)))
      BY <2>2, <2>3 DEF Attributes, Optionally
    <2>5. /\ resource' = [n \in Attributes |-> resource'[n]]
          /\ resource'.name \in Strings /\ resource'.size \in Known /\ resource'.mode \in Strings
          /\ resource'.arn = "arn"
          /\ resource'.net \in Optionally(Nets(Known, Strings))
          /\ resource'.ports \in Optionally(Seq(Ports(Strings, Strings)))
          /\ resource'.disks \in Seq(Disks(Strings, Strings, Strings))
          /\ IsMap(resource'.labels, Values(Strings, Strings))
          /\ OwnIds(resource'.disks)
      BY <1>3, <2>3, <2>4 DEF Attributes
    <2>. QED
      BY <2>5, ResourceIf
  <1>7. CASE resource' = [resource EXCEPT !.disks = <<>>, !.labels = Null]
    <2>1. resource' = [n \in Attributes |-> IF n = "disks" THEN <<>> ELSE IF n = "labels" THEN Null ELSE resource[n]]
      BY <1>2, <1>7 DEF Attributes
    <2>2. <<>> \in Seq(Disks(Strings, Strings, Strings)) /\ OwnIds(<<>>)
      BY EmptySeq DEF OwnIds, Range
    <2>3. IsMap(Null, Values(Strings, Strings))
      BY DEF IsMap
    <2>4. /\ resource' = [n \in Attributes |-> resource'[n]]
          /\ resource'.name \in Strings /\ resource'.size \in Known /\ resource'.mode \in Strings
          /\ resource'.arn = "arn"
          /\ resource'.net \in Optionally(Nets(Known, Strings))
          /\ resource'.ports \in Optionally(Seq(Ports(Strings, Strings)))
          /\ resource'.disks \in Seq(Disks(Strings, Strings, Strings))
          /\ IsMap(resource'.labels, Values(Strings, Strings))
          /\ OwnIds(resource'.disks)
      BY <1>3, <2>1, <2>2, <2>3 DEF Attributes
    <2>. QED
      BY <2>4, ResourceIf
  <1>. QED
    BY <1>4, <1>5, <1>6, <1>7 DEF OthersChange

--------------------------------------------------------------------------------
(* Theorems *)

\* The parameters have the types of the schema, and so does the resource, with the identifiers
\* that the provider gave it: whatever the user sets, the framework client and others do.
THEOREM ProposedStateTyped ==
    ASSUME ValuesAssumption, EditsAssumption
    PROVE  FrameworkSpec => []FrameworkTypeOK
  <1>1. FrameworkInit => FrameworkTypeOK
    BY InitTyped
  <1>2. FrameworkTypeOK /\ [FrameworkNext]_frameworkVars => FrameworkTypeOK'
    <2> SUFFICES ASSUME FrameworkTypeOK, [FrameworkNext]_frameworkVars PROVE FrameworkTypeOK'
      OBVIOUS
    <2>1. CASE SpecChanges
      BY <2>1, UserEditsTyped
    <2>2. CASE PlanAndApply
      BY <2>2, ReconcileTyped
    <2>3. CASE OthersChange
      BY <2>3, DriftTyped
    <2>4. CASE UNCHANGED frameworkVars
      BY <2>4 DEF frameworkVars, FrameworkTypeOK
    <2>. QED
      BY <2>1, <2>2, <2>3, <2>4 DEF FrameworkNext
  <1>. QED
    BY <1>1, <1>2, PTL DEF FrameworkSpec

LEMMA UpToDateFollows ==
    ASSUME ValuesAssumption, FrameworkTypeOK
    PROVE  UpToDateConforms
  <1> SUFFICES ASSUME IsUpToDate(resource) PROVE Conforms(Schema, resource, ConfigValue)
    BY DEF UpToDateConforms
  <1> DEFINE c == ConfigValue
             p == ProposedNew(resource, c)
  <1>1. resource # Null /\ IsResource(resource) /\ ~DiffExists(Schema, Planned(resource, c), resource)
    BY DEF IsUpToDate, FrameworkTypeOK
  <1>2. IsConfiguration(c) /\ c.arn = Null
    BY ConfigIs DEF FrameworkTypeOK
  <1> HIDE DEF c
  <1>3. Follows(resource, c)
    <2>1. CASE Equal(p, resource)
      <3>1. Follows(p, c)
        BY <1>1, <1>2, ProposalFollows
      <3>2. p = [n \in Attributes |-> p[n]]
        BY ProposedIs
      <3>3. resource = [n \in Attributes |-> resource[n]]
        BY <1>1, ResourceIsNotNull
      <3> HIDE DEF p
      <3>4. /\ p.name = resource.name /\ p.size = resource.size /\ p.mode = resource.mode
            /\ p.net = resource.net /\ p.ports = resource.ports /\ p.labels = resource.labels
            /\ Range(p.disks) = Range(resource.disks)
        BY <2>1, <3>2, <3>3, EqualIs
      <3>. QED
        BY <3>1, <3>4 DEF Follows
    <2>2. CASE ~Equal(p, resource)
      <3>1. Planned(resource, c) = Marked(Schema, p)
        BY <2>2 DEF Planned
      <3>. QED
        BY <1>1, <1>2, <3>1, NoDifferenceFollows
    <2>. QED
      BY <2>1, <2>2
  <1>4. resource.disks # Null
    BY <1>1, ResourceNests
  <1>5. Conforms(Schema, resource, c)
    BY <1>1, <1>2, <1>3, <1>4, FollowingConforms
  <1>. QED
    BY <1>5 DEF c

\* A resource is reported as up to date only when it is as configured, for every schema of disks.
THEOREM UpToDateConformsAlways ==
    ASSUME ValuesAssumption, EditsAssumption
    PROVE  FrameworkSpec => []UpToDateConforms
  <1>1. FrameworkTypeOK => UpToDateConforms
    BY UpToDateFollows
  <1>. QED
    BY <1>1, ProposedStateTyped, PTL

LEMMA Settles ==
    ASSUME ValuesAssumption, DisksAreBlocks = TRUE, FrameworkTypeOK
    PROVE  UpdateSettles
  <1> SUFFICES ASSUME ~IsUpToDate(resource), NEW made \in AppliedTo(resource)
               PROVE  IsUpToDate(made)
    BY DEF UpdateSettles
  <1> DEFINE c == ConfigValue
  <1>1. IsConfiguration(c) /\ c.arn = Null /\ (resource # Null => IsResource(resource))
    BY ConfigIs DEF FrameworkTypeOK
  <1>2. made \in Results(ProposedNew(resource, c))
    BY AppliedIs
  <1> HIDE DEF c
  <1>3. IsResource(made)
    BY <1>1, <1>2, ProposalTyped, ResultTyped
  <1>4. made # Null
    BY <1>3, ResourceIsNotNull
  <1>5. Equal(ProposedNew(made, c), made)
    BY <1>1, <1>2, ProposalSettles
  <1>6. Planned(made, c) = made
    BY <1>4, <1>5 DEF Planned
  <1>. QED
    BY <1>4, <1>6, NoDifferenceToItself DEF IsUpToDate, c

\* What an update makes of a resource is up to date, whatever was set and in whatever order the
\* provider returns the disks: the next reconcile does not update it again.
THEOREM UpdateSettlesAlways ==
    ASSUME ValuesAssumption, EditsAssumption, DisksAreBlocks = TRUE
    PROVE  FrameworkSpec => []UpdateSettles
  <1>1. FrameworkTypeOK => UpdateSettles
    BY Settles
  <1>. QED
    BY <1>1, ProposedStateTyped, PTL

LEMMA OwnValuesNow ==
    ASSUME ValuesAssumption, DisksAreBlocks = TRUE, FrameworkTypeOK
    PROVE  OwnValues
  <1> SUFFICES ASSUME resource # Null, NEW d \in Range(ProposedNew(resource, ConfigValue).disks)
               PROVE  d.id \in {Null, d.key}
    BY DEF OwnValues
  <1> DEFINE c    == ConfigValue
             from == Correlated(Schema.disks, resource.disks, c.disks)
             q    == ProposedNewSet(Schema.disks, resource.disks, c.disks)
  <1>1. IsConfiguration(c) /\ IsResource(resource)
    BY ConfigIs DEF FrameworkTypeOK
  <1> HIDE DEF c
  <1>2. c.disks \in Seq(Disks(Strings, Known, {Null})) /\ resource.disks \in Seq(Disks(Strings, Strings, Strings))
    BY <1>1, ConfigurationFields, ResourceFields
  <1>3. ProposedNew(resource, c).disks = q
    <2>1. Start(resource) = resource
      BY DEF Start
    <2>. QED
      BY <2>1, ProposedIs
  <1>4. /\ q = [i \in DOMAIN c.disks |->
                  IF from[i] = 0 THEN c.disks[i]
                  ELSE [key  |-> c.disks[i].key,
                        tier |-> IF c.disks[i].tier = Null THEN resource.disks[from[i]].tier ELSE c.disks[i].tier,
                        id   |-> resource.disks[from[i]].id]]
        /\ \A i \in DOMAIN c.disks :
              \/ from[i] = 0 /\ Unused(Schema.disks, resource.disks, c.disks, from, i) = {}
              \/ from[i] \in Unused(Schema.disks, resource.disks, c.disks, from, i)
    BY <1>2, ProposedDisks
  <1> HIDE DEF from, q
  <1>5. PICK i \in DOMAIN c.disks : d = q[i]
    BY <1>3, <1>4 DEF c, Range
  <1>6. c.disks[i].id = Null /\ c.disks[i].key \in Strings
    BY <1>1, ConfiguredObjects
  <1>7. CASE from[i] = 0
    BY <1>4, <1>5, <1>6, <1>7
  <1>8. CASE from[i] # 0
    <2>1. from[i] \in DOMAIN resource.disks /\ ValidPriorFromConfig(Schema.disks, resource.disks[from[i]], c.disks[i])
      BY <1>4, <1>8 DEF Unused
    <2>2. resource.disks[from[i]].key = c.disks[i].key
      BY <1>6, <2>1, NoValues, ValidPriorDisk
    <2>3. resource.disks[from[i]].id = resource.disks[from[i]].key
      <3>1. resource.disks[from[i]] \in Range(resource.disks)
        BY <2>1 DEF Range
      <3>. QED
        BY <1>1, <3>1 DEF IsResource, OwnIds
    <2>. QED
      BY <1>4, <1>5, <1>8, <2>2, <2>3
  <1>. QED
    BY <1>7, <1>8

\* The computed values that are proposed for an element of a set of blocks are its own: the prior
\* element it corresponds to could have been derived from its configuration.
THEOREM OwnValuesAlways ==
    ASSUME ValuesAssumption, EditsAssumption, DisksAreBlocks = TRUE
    PROVE  FrameworkSpec => []OwnValues
  <1>1. FrameworkTypeOK => OwnValues
    BY OwnValuesNow
  <1>. QED
    BY <1>1, ProposedStateTyped, PTL

================================================================================
