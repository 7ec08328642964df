------------------------ MODULE ManagedParameters_proofs ------------------------
(***************************************************************************)
(* Proofs about ManagedParameters, for every value of its constants.  What *)
(* they need of the paths of the example resource is in PathFacts.         *)
(***************************************************************************)
EXTENDS ManagedParameters, SequenceTheorems, TLAPS

--------------------------------------------------------------------------------
(* The invariant *)

Values == 0..3

\* A document that the user or a late initialization has made.
IsDocument(doc) == /\ DOMAIN doc \subseteq Paths \ {Password}
                   /\ \A p \in DOMAIN doc : doc[p] \in Values

OfField(doc, field) == \A p \in DOMAIN doc : p[1] = field

\* What the actions keep of the types, with the values.
Typed ==
    /\ IsDocument(forProvider) /\ IsDocument(initProvider)
    /\ owned \subseteq DOMAIN forProvider
    /\ \A place \in {"forProvider", "initProvider"} : secrets[place] \in Values \cup {Nil}
    /\ refs \subseteq {"forProvider", "initProvider"}
    /\ world # Nil => world \in [Paths -> Values]
    /\ plan # Nil => \A p \in DOMAIN plan \cap Paths : plan[p] \in Values
    /\ plan = <<>> => world = Nil

\* Where initProvider has something of a field that is then kept from late initialization,
\* all that forProvider has of it is the user's.
InitOnlyKept ==
    \A p \in DOMAIN initProvider :
        p[1] \in ConditionalIgnoredFields => Within(forProvider, <<p[1]>>) \subseteq owned

IInv == Typed /\ InitOnlyKept

--------------------------------------------------------------------------------
(* Paths and documents *)

Names == {"size", "mode", "tags", "tags_all", "net", "password", "x", "y", "0", "cidr", "zone", "%", "#"}

PathNames == Seq(Names) \ {<<>>}

LEMMA ShortSequences ==
    ASSUME NEW S, NEW x \in S, NEW y \in S, NEW z \in S
    PROVE  <<x>> \in Seq(S) /\ <<x, y>> \in Seq(S) /\ <<x, y, z>> \in Seq(S)
  OBVIOUS

\* The paths of the example resource: all that the proofs need of it.
LEMMA PathFacts ==
    \A p \in Paths : /\ p \in PathNames
                     /\ Len(p) \in 1..3
                     /\ p[1] # "tags_all"
                     /\ p[Len(p)] # "%" /\ p[Len(p)] # "#"
  <1> SUFFICES ASSUME NEW p \in Paths
               PROVE  p \in PathNames /\ Len(p) \in 1..3 /\ p[1] # "tags_all"
                      /\ p[Len(p)] # "%" /\ p[Len(p)] # "#"
    OBVIOUS
  <1>1. p \in Seq(Names)
    <2>1. <<"size">> \in Seq(Names) /\ <<"mode">> \in Seq(Names) /\ <<"password">> \in Seq(Names)
      BY ShortSequences DEF Names
    <2>2. <<"tags", "x">> \in Seq(Names) /\ <<"tags", "y">> \in Seq(Names)
      BY ShortSequences DEF Names
    <2>3. <<"net", "0", "cidr">> \in Seq(Names) /\ <<"net", "0", "zone">> \in Seq(Names)
      BY ShortSequences DEF Names
    <2> QED
      BY <2>1, <2>2, <2>3 DEF Paths, Password
  <1>2. Len(p) \in 1..3
    BY DEF Paths, Password
  <1>3. p # <<>>
    BY <1>2
  <1>4. p[1] # "tags_all" /\ p[Len(p)] # "%" /\ p[Len(p)] # "#"
    BY DEF Paths, Password
  <1> QED
    BY <1>1, <1>2, <1>3, <1>4 DEF PathNames

\* No path of the example resource is below another one.
LEMMA PathsApart == \A p, q \in Paths : Below(q, p) => q = p
  BY DEF Paths, Password, Below

\* The paths that end in a length key are no paths of parameters.
LEMMA LengthNames == \A n \in DOMAIN Length : Length[n] \in PathNames
  <1>1. <<"tags", "%">> \in Seq(Names) /\ <<"tags_all", "%">> \in Seq(Names) /\ <<"net", "#">> \in Seq(Names)
    BY ShortSequences DEF Names
  <1>2. <<"tags", "%">> \in PathNames /\ <<"tags_all", "%">> \in PathNames /\ <<"net", "#">> \in PathNames
    BY <1>1 DEF PathNames
  <1> QED
    BY <1>2 DEF Length

\* A path of tags_all begins with it.
LEMMA TagsAllNames ==
    ASSUME NEW p \in PathNames
    PROVE  TagsAll(p) \in PathNames /\ TagsAll(p)[1] = "tags_all"
  <1>1. Tail(p) \in Seq(Names)
    BY DEF PathNames
  <1>2. <<"tags_all">> \in Seq(Names) /\ Len(<<"tags_all">>) = 1
    BY DEF Names
  <1>3. TagsAll(p) \in Seq(Names) /\ Len(TagsAll(p)) = 1 + Len(Tail(p))
    BY <1>1, <1>2 DEF TagsAll
  <1>4. Len(TagsAll(p)) # 0
    BY <1>1, <1>3
  <1>5. TagsAll(p)[1] = "tags_all"
    BY <1>1, <1>2 DEF TagsAll
  <1> QED
    BY <1>3, <1>4, <1>5 DEF PathNames

\* Completing a document changes nothing that it has.
LEMMA Completing ==
    ASSUME NEW doc, NEW other
    PROVE  /\ DOMAIN CompletedBy(doc, other) = DOMAIN doc \cup DOMAIN other
           /\ \A p \in DOMAIN doc : CompletedBy(doc, other)[p] = doc[p]
           /\ \A p \in DOMAIN other \ DOMAIN doc : CompletedBy(doc, other)[p] = other[p]
  BY DEF CompletedBy

LEMMA Restricting ==
    ASSUME NEW doc, NEW S
    PROVE  DOMAIN Restrict(doc, S) = S /\ \A p \in S : Restrict(doc, S)[p] = doc[p]
  BY DEF Restrict

\* tags_all adds nothing to the paths of the resource.
LEMMA AddingTagsAll ==
    ASSUME NEW doc, DOMAIN doc \subseteq Paths
    PROVE  /\ DOMAIN WithTagsAll(doc) \cap Paths = DOMAIN doc
           /\ \A p \in DOMAIN doc : WithTagsAll(doc)[p] = doc[p]
           /\ DOMAIN WithTagsAll(doc) \subseteq PathNames
  <1> DEFINE all == [q \in {TagsAll(p) : p \in Mirrored(doc)} |-> doc[<<"tags">> \o Tail(q)]]
  <1>1. WithTagsAll(doc) = CompletedBy(doc, all)
    BY DEF WithTagsAll
  <1>2. \A q \in DOMAIN all : q \in PathNames /\ q[1] = "tags_all"
    BY PathFacts, TagsAllNames DEF Mirrored
  <1>3. \A q \in DOMAIN all : q \notin Paths
    BY <1>2, PathFacts
  <1>4. DOMAIN doc \subseteq PathNames
    BY PathFacts
  <1> HIDE DEF all
  <1>5. /\ DOMAIN CompletedBy(doc, all) = DOMAIN doc \cup DOMAIN all
        /\ \A p \in DOMAIN doc : CompletedBy(doc, all)[p] = doc[p]
    BY Completing
  <1> QED
    BY <1>1, <1>2, <1>3, <1>4, <1>5

--------------------------------------------------------------------------------
(* Parameters and differences *)

\* What the client configures: the value of forProvider, but for zero values that are
\* overwritten.
LEMMA Configured ==
    ASSUME Typed
    PROVE  /\ \A p \in DOMAIN forProvider : /\ p \in DOMAIN GetExtendedParameters
                                            /\ GetExtendedParameters[p] =
                                                    IF p \in Overwritten THEN initProvider[p] ELSE forProvider[p]
           /\ \A p \in DOMAIN GetExtendedParameters \cap Paths : GetExtendedParameters[p] \in Values
           /\ DOMAIN GetExtendedParameters \subseteq PathNames
           /\ \A p \in DOMAIN initProvider : p \in DOMAIN GetExtendedParameters
  <1> DEFINE merged == GetMergedParameters
             secret == GetSensitiveParameters
             both   == CompletedBy(secret, merged)
  <1>1. /\ DOMAIN merged = DOMAIN forProvider \cup DOMAIN initProvider
        /\ \A p \in DOMAIN merged : merged[p] \in Values
        /\ \A p \in DOMAIN forProvider :
                merged[p] = IF p \in Overwritten THEN initProvider[p] ELSE forProvider[p]
    BY DEF Typed, IsDocument, GetMergedParameters, Overwritten
  <1>2. DOMAIN secret \subseteq {Password} /\ \A p \in DOMAIN secret : secret[p] \in Values
    <2>1. \A v \in Values : DOMAIN Leaf(Password, v) = {Password} /\ Leaf(Password, v)[Password] \in Values
      BY DEF Leaf
    <2>2. DOMAIN <<>> = {}
      OBVIOUS
    <2>3. Empty \in Values
      BY DEF Empty, Values
    <2>4. \A place \in {"forProvider", "initProvider"} : secrets[place] # Nil => secrets[place] \in Values
      BY DEF Typed
    <2>5. \/ secret = <<>>
          \/ \E place \in {"forProvider", "initProvider"} :
                secret = Leaf(Password, IF secrets[place] = Nil THEN Empty ELSE secrets[place])
      BY DEF GetSensitiveParameters
    <2> HIDE DEF secret
    <2> QED
      BY <2>1, <2>2, <2>3, <2>4, <2>5
  <1>3. Password \in Paths /\ DOMAIN merged \subseteq Paths \ {Password}
    BY <1>1 DEF Typed, IsDocument, Paths
  <1>4. GetExtendedParameters = WithTagsAll(both)
    BY DEF GetExtendedParameters
  <1> HIDE DEF merged, secret
  <1>5. /\ DOMAIN both = DOMAIN secret \cup DOMAIN merged
        /\ \A p \in DOMAIN merged : both[p] = merged[p]
        /\ \A p \in DOMAIN both : both[p] \in Values
    <2>1. /\ DOMAIN both = DOMAIN secret \cup DOMAIN merged
          /\ \A p \in DOMAIN secret : both[p] = secret[p]
          /\ \A p \in DOMAIN merged \ DOMAIN secret : both[p] = merged[p]
      BY Completing
    <2> HIDE DEF both
    <2>2. DOMAIN merged \cap DOMAIN secret = {}
      BY <1>2, <1>3
    <2> QED
      BY <1>1, <1>2, <2>1, <2>2
  <1>6. DOMAIN both \subseteq Paths
    BY <1>2, <1>3, <1>5
  <1> HIDE DEF both
  <1>7. /\ DOMAIN GetExtendedParameters \cap Paths = DOMAIN both
        /\ \A p \in DOMAIN both : GetExtendedParameters[p] = both[p]
        /\ DOMAIN GetExtendedParameters \subseteq PathNames
    BY <1>4, <1>6, AddingTagsAll
  <1> QED
    BY <1>1, <1>5, <1>7

\* What the client finds of the external resource: its values but for zero values.
LEMMA Found ==
    ASSUME Typed, world # Nil
    PROVE  /\ \A p \in Paths : world[p] = IF p \in DOMAIN State(world) THEN State(world)[p] ELSE Empty
           /\ DOMAIN State(world) \subseteq PathNames
  <1> DEFINE set == {p \in Paths : world[p] # Empty}
  <1>1. State(world) = WithTagsAll(Restrict(world, set))
    BY DEF State
  <1>2. DOMAIN Restrict(world, set) = set /\ \A p \in set : Restrict(world, set)[p] = world[p]
    BY Restricting
  <1> QED
    BY <1>1, <1>2, AddingTagsAll

\* The paths of a state, of a resource that exists or not.
LEMMA StateNames ==
    ASSUME Typed
    PROVE  DOMAIN State(world) \subseteq PathNames
  <1>1. world = Nil => State(world) = <<>>
    BY DEF State
  <1>2. DOMAIN <<>> = {}
    OBVIOUS
  <1> QED
    BY <1>1, <1>2, Found

\* A path that is configured with another value than that of the state is different, and
\* a difference says what is configured, or nothing.
LEMMA Differences ==
    ASSUME NEW config, NEW state,
           DOMAIN config \subseteq PathNames, DOMAIN state \subseteq PathNames
    PROVE  /\ \A p \in DOMAIN config :
                config[p] # (IF p \in DOMAIN state THEN state[p] ELSE Empty) => p \in DOMAIN Diff(config, state)
           /\ \A p \in DOMAIN Diff(config, state) :
                \/ p \in DOMAIN config /\ Diff(config, state)[p] = config[p]
                \/ Diff(config, state)[p] = Empty
           /\ DOMAIN Diff(config, state) \subseteq PathNames
  <1>1. \A p \in DOMAIN config :
            config[p] # (IF p \in DOMAIN state THEN state[p] ELSE Empty) => p \in DOMAIN Diff(config, state)
    BY DEF Diff
  <1>2. \A p \in DOMAIN Diff(config, state) :
            \/ p \in DOMAIN config /\ Diff(config, state)[p] = config[p]
            \/ Diff(config, state)[p] = Empty
    BY DEF Diff
  <1>3. DOMAIN Diff(config, state) \subseteq
            DOMAIN config \cup DOMAIN state \cup {Length[n] : n \in DOMAIN Length}
    BY DEF Diff
  <1> QED
    BY <1>1, <1>2, <1>3, LengthNames

--------------------------------------------------------------------------------
(* What is left out of the differences *)

\* What is left out is below an ignored path, is a length key or is of tags_all.
LEMMA LeftOut ==
    ASSUME NEW diff, DOMAIN diff \subseteq PathNames,
           DOMAIN initProvider \subseteq Paths,
           NEW p \in DOMAIN diff \cap Paths, p \notin DOMAIN FilterInitExclusiveDiffs(diff)
    PROVE  \E k \in GetTerraformIgnoreChanges : Below(p, k)
  <1> DEFINE keys    == GetTerraformIgnoreChanges
             ignored == {d \in DOMAIN diff : \E k \in keys : Below(d, k)}
             nested  == {k \in keys : Len(k) > 1}
             lengths == {Append(Parent(k), symbol) : k \in nested, symbol \in {"%", "#"}}
                            \cup {Length.tags_all : k \in {l \in nested : l[1] = "tags"}}
             mirrors == {TagsAll(d) : d \in {e \in ignored : e[1] = "tags"}}
  <1>1. DOMAIN FilterInitExclusiveDiffs(diff) = DOMAIN diff \ (ignored \cup lengths \cup mirrors)
    BY Restricting DEF FilterInitExclusiveDiffs, WithoutPaths
  <1>2. p \notin mirrors
    BY PathFacts, TagsAllNames
  <1>3. p \notin {Append(Parent(k), symbol) : k \in nested, symbol \in {"%", "#"}}
    <2> SUFFICES ASSUME NEW k \in nested, NEW symbol \in {"%", "#"}, p = Append(Parent(k), symbol)
                 PROVE  FALSE
      OBVIOUS
    <2>1. PICK q \in DOMAIN initProvider : k \in {SubSeq(q, 1, n) : n \in 1..Len(q)}
      BY DEF GetTerraformIgnoreChanges
    <2>2. q \in Seq(Names) /\ Len(q) \in 1..3
      BY PathFacts DEF PathNames
    <2>3. k \in Seq(Names)
      BY <2>1, <2>2, SubSeqProperties
    <2>4. Parent(k) \in Seq(Names)
      BY <2>3, SubSeqProperties DEF Parent
    <2>5. Len(p) = Len(Parent(k)) + 1 /\ p[Len(Parent(k)) + 1] = symbol
      BY <2>4
    <2> QED
      BY <2>5, PathFacts
  <1>4. p \notin {Length.tags_all : k \in {l \in nested : l[1] = "tags"}}
    <2>1. Length.tags_all = <<"tags_all", "%">>
      BY DEF Length
    <2>2. Length.tags_all[1] = "tags_all"
      BY <2>1
    <2> QED
      BY <2>2, PathFacts
  <1> QED
    BY <1>1, <1>2, <1>3, <1>4

\* What the user configures differently is among the differences, whatever initProvider has.
LEMMA DifferenceShows ==
    ASSUME Typed, world # Nil, policies # "observeOnly",
           NEW p \in DOMAIN forProvider,
           world[p] # IF p \in Overwritten THEN initProvider[p] ELSE forProvider[p]
    PROVE  p \in DOMAIN GetResourceDataDiff
  <1> DEFINE config == GetExtendedParameters
             state  == State(world)
             diff   == Diff(config, state)
  <1>1. p \in Paths
    BY DEF Typed, IsDocument
  <1>2. p \in DOMAIN config /\ config[p] # world[p]
    BY Configured
  <1>3. world[p] = IF p \in DOMAIN state THEN state[p] ELSE Empty
    BY <1>1, Found
  <1>4. DOMAIN config \subseteq PathNames /\ DOMAIN state \subseteq PathNames
    BY Configured, StateNames
  <1> HIDE DEF config, state
  <1>5. p \in DOMAIN diff /\ DOMAIN diff \subseteq PathNames
    BY <1>2, <1>3, <1>4, Differences
  <1>6. GetResourceDataDiff = FilterInitExclusiveDiffs(diff)
    BY DEF GetResourceDataDiff, config, state
  <1> HIDE DEF diff
  <1>7. \A k \in GetTerraformIgnoreChanges : ~Below(p, k)
    BY DEF GetTerraformIgnoreChanges, Within
  <1>8. DOMAIN initProvider \subseteq Paths
    BY DEF Typed, IsDocument
  <1> QED
    BY <1>1, <1>5, <1>6, <1>7, <1>8, LeftOut

\* A resource that is up to date conforms.
LEMMA UpToDateShows == Typed => SpecWins
  <1>1. DOMAIN <<>> = {}
    OBVIOUS
  <1> QED
    BY <1>1, DifferenceShows DEF SpecWins, UpToDate

--------------------------------------------------------------------------------
(* The steps *)

\* The documents of the user are of one field each.
LEMMA DocumentsOfFields ==
    ASSUME NEW field \in Fields, NEW doc \in Documents[field] \cup {<<>>}
    PROVE  IsDocument(doc) /\ OfField(doc, field)
  <1>1. \/ doc = <<>>
        \/ \E q \in Paths \ {Password}, v \in {0, 1} : q[1] = field /\ doc = Leaf(q, v)
    <2>1. CASE field = "size"
      <3>1. <<"size">> \in Paths \ {Password} /\ <<"size">>[1] = "size"
        BY DEF Paths, Password
      <3> QED
        BY <2>1, <3>1 DEF Documents
    <2>2. CASE field = "mode"
      <3>1. <<"mode">> \in Paths \ {Password} /\ <<"mode">>[1] = "mode"
        BY DEF Paths, Password
      <3> QED
        BY <2>2, <3>1 DEF Documents
    <2>3. CASE field = "tags"
      <3>1. /\ <<"tags", "x">> \in Paths \ {Password} /\ <<"tags", "x">>[1] = "tags"
            /\ <<"tags", "y">> \in Paths \ {Password} /\ <<"tags", "y">>[1] = "tags"
        BY DEF Paths, Password
      <3> QED
        BY <2>3, <3>1 DEF Documents
    <2>4. CASE field = "net"
      <3>1. /\ <<"net", "0", "cidr">> \in Paths \ {Password} /\ <<"net", "0", "cidr">>[1] = "net"
            /\ <<"net", "0", "zone">> \in Paths \ {Password} /\ <<"net", "0", "zone">>[1] = "net"
        BY DEF Paths, Password
      <3> QED
        BY <2>4, <3>1 DEF Documents
    <2> QED
      BY <2>1, <2>2, <2>3, <2>4 DEF Fields
  <1>2. CASE doc = <<>>
    <2>1. DOMAIN <<>> = {}
      OBVIOUS
    <2> QED
      BY <1>2, <2>1 DEF IsDocument, OfField
  <1>3. ASSUME NEW q \in Paths \ {Password}, NEW v \in {0, 1}, q[1] = field, doc = Leaf(q, v)
        PROVE  IsDocument(doc) /\ OfField(doc, field)
    <2>1. DOMAIN doc = {q} /\ doc[q] = v
      BY <1>3 DEF Leaf
    <2> QED
      BY <1>3, <2>1 DEF IsDocument, OfField, Values
  <1> QED
    BY <1>1, <1>2, <1>3

\* What belongs to the field that a path begins with.
LEMMA FieldOf ==
    ASSUME NEW doc, DOMAIN doc \subseteq Paths, NEW field
    PROVE  Within(doc, <<field>>) = {p \in DOMAIN doc : p[1] = field}
  <1> SUFFICES ASSUME NEW p \in DOMAIN doc PROVE Below(p, <<field>>) <=> p[1] = field
    BY DEF Within
  <1>1. Len(p) \in 1..3
    BY PathFacts
  <1> QED
    BY <1>1 DEF Below

\* Setting a field replaces it and leaves the others alone.
LEMMA Setting ==
    ASSUME NEW doc, NEW new, NEW field, IsDocument(doc), IsDocument(new), OfField(new, field)
    PROVE  /\ IsDocument(WithField(doc, field, new))
           /\ \A p : p \in DOMAIN WithField(doc, field, new) <=>
                        p \in DOMAIN new \/ (p \in DOMAIN doc /\ p[1] # field)
  <1> DEFINE rest == WithoutPaths(doc, Within(doc, <<field>>))
  <1>1. Within(doc, <<field>>) = {p \in DOMAIN doc : p[1] = field}
    BY FieldOf DEF IsDocument
  <1>2. DOMAIN rest = {p \in DOMAIN doc : p[1] # field} /\ \A p \in DOMAIN rest : rest[p] = doc[p]
    <2>1. /\ DOMAIN rest = DOMAIN doc \ Within(doc, <<field>>)
          /\ \A p \in DOMAIN doc \ Within(doc, <<field>>) : rest[p] = doc[p]
      BY Restricting DEF WithoutPaths
    <2> HIDE DEF rest
    <2> QED
      BY <1>1, <2>1
  <1> HIDE DEF rest
  <1>3. /\ DOMAIN CompletedBy(new, rest) = DOMAIN new \cup DOMAIN rest
        /\ \A p \in DOMAIN new : CompletedBy(new, rest)[p] = new[p]
        /\ \A p \in DOMAIN rest \ DOMAIN new : CompletedBy(new, rest)[p] = rest[p]
    BY Completing
  <1>4. /\ DOMAIN CompletedBy(new, rest) = DOMAIN new \cup {p \in DOMAIN doc : p[1] # field}
        /\ \A p \in DOMAIN new : CompletedBy(new, rest)[p] = new[p]
        /\ \A p \in DOMAIN CompletedBy(new, rest) \ DOMAIN new :
                p \in DOMAIN doc /\ CompletedBy(new, rest)[p] = doc[p]
    BY <1>2, <1>3
  <1>5. IsDocument(CompletedBy(new, rest))
    BY <1>4 DEF IsDocument
  <1> QED
    BY <1>4, <1>5 DEF rest, WithField

\* The user's changes.
LEMMA EditsKeep ==
    ASSUME IInv, UserEdits
    PROVE  IInv'
  <1> USE DEF IInv
  <1>1. /\ UNCHANGED <<secrets, world, plan>>
        /\ IsDocument(forProvider) /\ IsDocument(initProvider) /\ owned \subseteq DOMAIN forProvider
    BY DEF UserEdits, Typed
  <1>2. ASSUME NEW f \in Fields, NEW doc \in Documents[f] \cup {<<>>}, SetForProvider(f, doc)
        PROVE  Typed' /\ InitOnlyKept'
    <2>1. IsDocument(doc) /\ OfField(doc, f)
      BY DocumentsOfFields
    <2>2. /\ forProvider' = WithField(forProvider, f, doc)
          /\ owned' = DOMAIN doc \cup {p \in owned : p[1] # f}
          /\ UNCHANGED <<initProvider, refs>>
      BY <1>2 DEF SetForProvider
    <2>3. /\ IsDocument(forProvider')
          /\ \A p : p \in DOMAIN forProvider' <=> p \in DOMAIN doc \/ (p \in DOMAIN forProvider /\ p[1] # f)
      BY <1>1, <2>1, <2>2, Setting
    <2>4. Typed'
      BY <1>1, <2>2, <2>3 DEF Typed
    <2>5. InitOnlyKept'
      <3>0. \A p : Within(forProvider', <<p[1]>>) = {q \in DOMAIN forProvider' : q[1] = p[1]}
        BY <2>3, FieldOf DEF IsDocument
      <3> SUFFICES ASSUME NEW p \in DOMAIN initProvider, p[1] \in ConditionalIgnoredFields,
                          NEW q \in DOMAIN forProvider', q[1] = p[1]
                   PROVE  q \in owned'
        <4>1. initProvider' = initProvider
          BY <2>2
        <4> QED
          BY <3>0, <4>1 DEF InitOnlyKept
      <3>1. CASE q \in DOMAIN doc
        BY <2>2, <3>1
      <3>2. CASE q \notin DOMAIN doc
        <4>1. q \in DOMAIN forProvider /\ q[1] # f
          BY <2>3, <3>2
        <4>2. q \in Within(forProvider, <<p[1]>>)
          BY <1>1, <4>1, FieldOf DEF IsDocument
        <4> QED
          BY <2>2, <4>1, <4>2 DEF InitOnlyKept
      <3> QED
        BY <3>1, <3>2
    <2> QED
      BY <2>4, <2>5
  <1>3. ASSUME NEW f \in Fields, NEW doc \in Documents[f] \cup {<<>>}, SetInitProvider(f, doc)
        PROVE  Typed' /\ InitOnlyKept'
    <2>1. IsDocument(doc) /\ OfField(doc, f)
      BY DocumentsOfFields
    <2>2. /\ initProvider' = WithField(initProvider, f, doc)
          /\ owned' = owned \cup Within(forProvider, <<f>>)
          /\ UNCHANGED <<forProvider, refs>>
      BY <1>3 DEF SetInitProvider
    <2>3. /\ IsDocument(initProvider')
          /\ \A p : p \in DOMAIN initProvider' <=> p \in DOMAIN doc \/ (p \in DOMAIN initProvider /\ p[1] # f)
      BY <1>1, <2>1, <2>2, Setting
    <2>4. Typed'
      BY <1>1, <2>2, <2>3 DEF Typed, Within
    <2>5. InitOnlyKept'
      <3> SUFFICES ASSUME NEW p \in DOMAIN initProvider', p[1] \in ConditionalIgnoredFields
                   PROVE  Within(forProvider, <<p[1]>>) \subseteq owned'
        BY <2>2 DEF InitOnlyKept
      <3>1. CASE p[1] = f
        BY <2>2, <3>1
      <3>2. CASE p[1] # f
        BY <2>1, <2>2, <2>3, <3>2 DEF InitOnlyKept, OfField
      <3> QED
        BY <3>1, <3>2
    <2> QED
      BY <2>4, <2>5
  <1>4. ASSUME NEW places \in SUBSET {"forProvider", "initProvider"}, Refer(places)
        PROVE  Typed' /\ InitOnlyKept'
    BY <1>1, <1>4 DEF Refer, Typed, InitOnlyKept
  <1> QED
    BY <1>2, <1>3, <1>4 DEF UserEdits

\* The values of the differences are those of the parameters.
LEMMA DifferenceValues ==
    ASSUME Typed
    PROVE  \A p \in DOMAIN GetResourceDataDiff \cap Paths : GetResourceDataDiff[p] \in Values
  <1> DEFINE config == GetExtendedParameters
             state  == State(world)
             diff   == Diff(config, state)
  <1>1. \A p \in DOMAIN config \cap Paths : config[p] \in Values
    BY Configured
  <1>2. DOMAIN config \subseteq PathNames /\ DOMAIN state \subseteq PathNames
    BY Configured, StateNames
  <1> HIDE DEF config, state
  <1>3. \A p \in DOMAIN diff : (p \in DOMAIN config /\ diff[p] = config[p]) \/ diff[p] = Empty
    BY <1>2, Differences
  <1> HIDE DEF diff
  <1>4. \A p \in DOMAIN diff \cap Paths : diff[p] \in Values
    BY <1>1, <1>3 DEF Empty, Values
  <1>5. \A p \in DOMAIN FilterInitExclusiveDiffs(diff) :
            p \in DOMAIN diff /\ FilterInitExclusiveDiffs(diff)[p] = diff[p]
    BY Restricting DEF FilterInitExclusiveDiffs, WithoutPaths
  <1>6. DOMAIN <<>> = {}
    OBVIOUS
  <1>7. \/ GetResourceDataDiff = <<>>
        \/ GetResourceDataDiff = diff
        \/ GetResourceDataDiff = FilterInitExclusiveDiffs(diff)
    BY DEF GetResourceDataDiff, diff, config, state
  <1> QED
    BY <1>4, <1>5, <1>6, <1>7

\* Late initialization fills fields that are not set, and none that is ignored.
LEMMA Initializing ==
    ASSUME Typed, world # Nil
    PROVE  /\ IsDocument(LateInitialize)
           /\ DOMAIN forProvider \subseteq DOMAIN LateInitialize
           /\ \A p \in DOMAIN LateInitialize \ DOMAIN forProvider : ~ConditionalFilter(p[1])
  <1> DEFINE fields == {f \in Fields : /\ f \notin IgnoredFields
                                       /\ ~ConditionalFilter(f)
                                       /\ Within(forProvider, <<f>>) = {}}
             filled == Filled(fields)
  <1>1. DOMAIN filled = {p \in Paths : p[1] \in fields /\ world[p] # Empty} /\ \A p \in DOMAIN filled : filled[p] = world[p]
    BY Restricting DEF Filled
  <1>2. Password[1] \notin Fields
    BY DEF Password, Fields
  <1>3. IsDocument(filled)
    BY <1>1, <1>2 DEF IsDocument, Typed
  <1>4. \A p \in DOMAIN filled : ~ConditionalFilter(p[1])
    BY <1>1
  <1>5. LateInitialize = CompletedBy(forProvider, filled) \/ LateInitialize = forProvider
    BY DEF LateInitialize
  <1> HIDE DEF filled
  <1>6. /\ DOMAIN CompletedBy(forProvider, filled) = DOMAIN forProvider \cup DOMAIN filled
        /\ \A p \in DOMAIN forProvider : CompletedBy(forProvider, filled)[p] = forProvider[p]
        /\ \A p \in DOMAIN filled \ DOMAIN forProvider : CompletedBy(forProvider, filled)[p] = filled[p]
    BY Completing
  <1>7. IsDocument(CompletedBy(forProvider, filled))
    BY <1>3, <1>6 DEF IsDocument, Typed
  <1> QED
    BY <1>4, <1>5, <1>6, <1>7 DEF Typed

\* A reconcile that observes.
LEMMA ObserveKeeps ==
    ASSUME IInv, Observe
    PROVE  IInv'
  <1> USE DEF IInv
  <1>1. /\ UNCHANGED <<initProvider, owned, refs, secrets, world>>
        /\ plan' = IF policies = "observeOnly" \/ UpToDate THEN Nil ELSE GetResourceDataDiff
        /\ forProvider' = IF world = Nil THEN forProvider ELSE LateInitialize
    BY DEF Observe
  <1>2. /\ IsDocument(forProvider') /\ DOMAIN forProvider \subseteq DOMAIN forProvider'
        /\ \A p \in DOMAIN forProvider' \ DOMAIN forProvider : ~ConditionalFilter(p[1])
    BY <1>1, Initializing DEF Typed
  <1>3. plan' # Nil => \A p \in DOMAIN plan' \cap Paths : plan'[p] \in Values
    BY <1>1, DifferenceValues
  <1>4. plan' = <<>> => world = Nil
    BY <1>1, ParametersAssumption DEF UpToDate
  <1>5. Typed'
    BY <1>1, <1>2, <1>3, <1>4 DEF Typed
  <1>6. InitOnlyKept'
    <2>0. \A p : Within(forProvider', <<p[1]>>) = {q \in DOMAIN forProvider' : q[1] = p[1]}
      BY <1>2, FieldOf DEF IsDocument
    <2> SUFFICES ASSUME NEW p \in DOMAIN initProvider, p[1] \in ConditionalIgnoredFields,
                        NEW q \in DOMAIN forProvider', q[1] = p[1]
                 PROVE  q \in owned
      BY <1>1, <2>0 DEF InitOnlyKept
    <2>1. p \in Within(initProvider, <<p[1]>>)
      BY FieldOf DEF Typed, IsDocument
    <2>2. ConditionalFilter(q[1])
      BY <2>1 DEF ConditionalFilter
    <2>3. q \in Within(forProvider, <<p[1]>>)
      BY <1>2, <2>2, FieldOf DEF Typed, IsDocument
    <2> QED
      BY <2>3 DEF InitOnlyKept
  <1> QED
    BY <1>5, <1>6

\* The provider and others change the resource.
LEMMA ResourceKeeps ==
    ASSUME IInv, Apply \/ Drift
    PROVE  IInv'
  <1> USE DEF IInv
  <1>1. UNCHANGED <<forProvider, initProvider, owned, refs, secrets>>
    BY DEF Apply, Drift
  <1>2. world' \in [Paths -> Values] /\ plan' # <<>>
    <2>1. CASE Apply
      <3> DEFINE resource == IF world = Nil THEN [p \in Paths |-> Empty] ELSE world
      <3>1. resource \in [Paths -> Values]
        BY DEF Typed, Empty, Values
      <3>2. \A p \in DOMAIN plan \cap Paths : plan[p] \in Values
        BY <2>1 DEF Apply, Typed
      <3>3. world' = Applied(plan, resource) /\ plan' = Nil
        BY <2>1 DEF Apply
      <3> HIDE DEF resource
      <3>4. Applied(plan, resource) \in [Paths -> Values]
        BY <3>1, <3>2 DEF Applied, Values
      <3> QED
        BY <3>3, <3>4, ParametersAssumption
    <2>2. CASE Drift
      <3>1. world \in [Paths -> Values] /\ plan' # <<>>
        BY <2>2 DEF Drift, Typed
      <3>2. CASE \E p \in Paths \ {Password} : world' = [world EXCEPT ![p] = 2]
        BY <3>1, <3>2 DEF Values
      <3>3. CASE \E f \in Fields \ {"mode"} : world' = [p \in Paths |-> IF p[1] = f THEN Empty ELSE world[p]]
        BY <3>1, <3>3 DEF Values, Empty
      <3> QED
        BY <2>2, <3>1, <3>2, <3>3 DEF Drift
    <2> QED
      BY <2>1, <2>2
  <1>3. plan' = Nil \/ plan' = plan
    BY DEF Apply, Drift
  <1> QED
    BY <1>1, <1>2, <1>3 DEF Typed, InitOnlyKept

\* A Secret changes or goes.
LEMMA SecretsKeep ==
    ASSUME IInv, SecretChanges
    PROVE  IInv'
  <1> USE DEF IInv
  <1>1. UNCHANGED <<forProvider, initProvider, owned, refs, world, plan>>
    BY DEF SecretChanges
  <1>2. \A place \in {"forProvider", "initProvider"} : secrets'[place] \in Values \cup {Nil}
    <2>1. PICK changed \in refs, value \in {Nil, 1} : secrets' = [secrets EXCEPT ![changed] = value]
      BY DEF SecretChanges
    <2> QED
      BY <2>1 DEF Typed, Values
  <1> QED
    BY <1>1, <1>2 DEF Typed, InitOnlyKept

\* The invariant.
LEMMA Inductive == ParametersSpec => []IInv
  <1>1. ParametersInit => IInv
    <2>1. DOMAIN <<>> = {}
      OBVIOUS
    <2> QED
      BY <2>1, ParametersAssumption DEF ParametersInit, IInv, Typed, InitOnlyKept, IsDocument, Values
  <1>2. IInv /\ [ParametersNext]_parametersVars => IInv'
    <2>1. IInv /\ UNCHANGED parametersVars => IInv'
      BY DEF IInv, Typed, InitOnlyKept, parametersVars
    <2> QED
      BY <2>1, EditsKeep, SecretsKeep, ObserveKeeps, ResourceKeeps DEF ParametersNext, Disturb
  <1> QED
    BY <1>1, <1>2, PTL DEF ParametersSpec

--------------------------------------------------------------------------------
(* The theorems *)

(* The documents keep their types, and nothing is planned where there is no difference
   (ParametersTypeOK): the merge, the difference and late initialization of
   external_tfpluginsdk.go and lateinit.go. *)
THEOREM ParametersTypes == ParametersSpec => []ParametersTypeOK
  <1>1. IInv => ParametersTypeOK
    BY DEF IInv, Typed, IsDocument, ParametersTypeOK, Values
  <1> QED
    BY <1>1, Inductive, PTL

(* An MR that Observe reports as up to date has the values of forProvider, zero values among
   them, but for a zero value where initProvider has a value, too, in whose place it has that
   one (SpecWins): what filterInitExclusiveDiffs (external_tfpluginsdk.go) leaves out of the
   differences is never something that forProvider sets. *)
THEOREM SpecIsEnforced == ParametersSpec => []SpecWins
  <1>1. IInv => SpecWins
    BY UpToDateShows DEF IInv
  <1> QED
    BY <1>1, Inductive, PTL

\* What is beside a path of initProvider that forProvider does not have is ignored.
LEMMA InitOnlyIgnored ==
    ASSUME NEW p \in DOMAIN initProvider \ DOMAIN forProvider,
           DOMAIN initProvider \subseteq Paths, DOMAIN forProvider \subseteq Paths
    PROVE  \E k \in GetTerraformIgnoreChanges : Below(p, k)
  <1> DEFINE prefix(n) == SubSeq(p, 1, n)
             nothing   == {n \in 1..Len(p) : Within(forProvider, prefix(n)) = {}}
  <1>1. p \in Seq(Names) /\ Len(p) \in 1..3
    BY PathFacts DEF PathNames
  <1>2. \A n \in 1..Len(p) : /\ prefix(n) \in Seq(Names) /\ Len(prefix(n)) = n
                             /\ \A i \in 1..n : prefix(n)[i] = p[i]
    BY <1>1, SubSeqProperties
  <1>3. \A n \in 1..Len(p) : Below(p, prefix(n))
    BY <1>1, <1>2 DEF Below
  <1>4. \A n \in 2..Len(p) : Parent(prefix(n)) = prefix(n - 1)
    BY <1>1, <1>2, SubSeqOfSubSeq DEF Parent
  <1>5. Len(p) \in nothing
    <2>1. \A q \in DOMAIN forProvider : ~Below(q, p)
      BY PathsApart
    <2>2. prefix(Len(p)) = p
      BY <1>1, SubSeqFull
    <2>3. Within(forProvider, prefix(Len(p))) = {}
      BY <2>1, <2>2 DEF Within
    <2> QED
      BY <1>1, <2>3
  <1>6. \E n \in nothing : n = 1 \/ n - 1 \notin nothing
    <2>1. nothing \subseteq 1..Len(p)
      OBVIOUS
    <2> HIDE DEF nothing
    <2>2. CASE 1 \in nothing
      BY <2>2
    <2>3. CASE 1 \notin nothing /\ 2 \in nothing
      <3>1. 2 - 1 = 1
        OBVIOUS
      <3> QED
        BY <2>3, <3>1
    <2>4. CASE 1 \notin nothing /\ 2 \notin nothing
      <3>1. Len(p) # 1 /\ Len(p) # 2
        BY <1>5, <2>4
      <3>2. Len(p) = 3
        BY <1>1, <3>1
      <3>3. 3 - 1 = 2
        OBVIOUS
      <3> QED
        BY <1>5, <2>4, <3>2, <3>3
    <2> QED
      BY <2>2, <2>3, <2>4
  <1>7. PICK n \in nothing : n = 1 \/ n - 1 \notin nothing
    BY <1>6
  <1>8. p \in Within(initProvider, prefix(n))
    BY <1>3 DEF Within
  <1>9. prefix(n) \in GetTerraformIgnoreChanges
    <2>1. prefix(n) \in UNION {{SubSeq(q, 1, m) : m \in 1..Len(q)} : q \in DOMAIN initProvider}
      OBVIOUS
    <2>2. n # 1 => n \in 2..Len(p)
      BY <1>1
    <2>3. n \in 1..Len(p) /\ Within(forProvider, prefix(n)) = {}
      OBVIOUS
    <2>4. Within(initProvider, prefix(n)) # {}
      BY <1>8
    <2>5. CASE n = 1
      <3>1. Len(prefix(n)) = 1
        BY <1>2, <2>3, <2>5
      <3> QED
        BY <2>1, <2>3, <2>4, <3>1 DEF GetTerraformIgnoreChanges
    <2>6. CASE n # 1
      <3>1. Parent(prefix(n)) = prefix(n - 1) /\ n - 1 \in 1..Len(p)
        BY <1>1, <1>4, <2>2, <2>3, <2>6
      <3>2. Within(forProvider, prefix(n - 1)) # {}
        BY <1>7, <2>6, <3>1
      <3>3. Within(forProvider, Parent(prefix(n))) # {}
        BY <3>1, <3>2
      <3> QED
        BY <2>1, <2>3, <2>4, <3>3 DEF GetTerraformIgnoreChanges
    <2> QED
      BY <2>5, <2>6
  <1> QED
    BY <1>3, <1>9

(* No update is planned for what only initProvider has, and which is kept from late
   initialization (InitOnlyLeftAlone): neither the late initialization of the field nor an
   update of its neighbours takes it into the differences.  ignored_tfpluginsdk.go and
   external_tfpluginsdk.go:331-407. *)
THEOREM InitOnlyIsLeftAlone == ParametersSpec => InitOnlyLeftAlone
  <1>1. ASSUME IInv, Observe, world # Nil, plan' # Nil,
               NEW p \in DOMAIN initProvider \ owned, p[1] \in ConditionalIgnoredFields
        PROVE  p \notin DOMAIN plan'
    <2> USE <1>1 DEF IInv
    <2>1. /\ DOMAIN initProvider \subseteq Paths /\ DOMAIN forProvider \subseteq Paths
      BY DEF Typed, IsDocument
    <2>2. p \notin DOMAIN forProvider
      <3> SUFFICES ASSUME p \in DOMAIN forProvider PROVE FALSE
        OBVIOUS
      <3>1. p \in Within(forProvider, <<p[1]>>)
        BY <2>1, FieldOf
      <3> QED
        BY <3>1 DEF InitOnlyKept
    <2>3. PICK k \in GetTerraformIgnoreChanges : Below(p, k)
      BY <2>1, <2>2, InitOnlyIgnored
    <2> DEFINE diff == Diff(GetExtendedParameters, State(world))
    <2>4. plan' = FilterInitExclusiveDiffs(diff)
      BY DEF Observe, GetResourceDataDiff
    <2> HIDE DEF diff
    <2>5. p \notin DOMAIN FilterInitExclusiveDiffs(diff)
      BY <2>3, Restricting DEF FilterInitExclusiveDiffs, WithoutPaths
    <2> QED
      BY <2>4, <2>5
  <1>2. IInv /\ [ParametersNext]_parametersVars
            => [Observe /\ world # Nil /\ plan' # Nil =>
                    \A p \in DOMAIN initProvider \ owned :
                        p[1] \in ConditionalIgnoredFields => p \notin DOMAIN plan']_parametersVars
    BY <1>1
  <1> QED
    BY <1>2, Inductive, PTL DEF ParametersSpec, InitOnlyLeftAlone

================================================================================
