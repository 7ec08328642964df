----------------------------- MODULE APIConversions -----------------------------
(***************************************************************************)
(* Conversions of a custom resource between two versions of its API        *)
(* (pkg/config/conversion, pkg/config/conversion.go,                       *)
(* pkg/controller/conversion), behind an API server that stores the object *)
(* in one version and serves it in both.                                   *)
(*                                                                         *)
(* A document is the function from its leaf paths to their values; `ann'   *)
(* is the annotation that holds fields of the other version.  A path is a  *)
(* tuple of names and indices, "*" is the wildcard.  The resource has a    *)
(* field of every kind of change between "v1" and "v2":                    *)
(*   size   a string, then a number        zone   renamed to region        *)
(*   label  added                          tag    deleted                  *)
(*   rules  a list, note is added to its elements                          *)
(*   net    a singleton list, then an embedded object                      *)
(*   uid    added, in the status                                           *)
(* The controller reconciles the object as v1                              *)
(* (pkg/controller/annotation_conversions.go).                             *)
(***************************************************************************)
EXTENDS FiniteSets, Functions, Naturals, Sequences

CONSTANTS
    Numbers,    \* what text may read as
    NotANumber, \* what text reads as that is not a number
    Lists,      \* the sets of indices that rules may have
    Uids,       \* of external resources
    Shortens    \* do clients of v1 remove elements of rules that have a note?

VARIABLES
    storage,    \* the storage version
    stored,     \* the object, in the version it was stored in
    intent      \* history: what the clients mean the object to be

objectVars == <<storage, stored, intent>>

ServedVersions == {"v1", "v2"}
Other(v) == CHOOSE w \in ServedVersions : w # v

(* Values: text that reads as a number or not, written as Go writes it or not; numbers. *)
Text(number, plain) == [type |-> "string", number |-> number, plain |-> plain]
Number(n)           == [type |-> "number", number |-> n, plain |-> TRUE]
Uid(n)              == [type |-> "uid", number |-> n, plain |-> TRUE]
Name                == [type |-> "name", number |-> 0, plain |-> TRUE]

NoUid == 0
Index == {"0"} \cup UNION Lists     \* of the elements of a list

ASSUME ConversionsAssumption ==
    /\ Numbers # {} /\ NotANumber \notin Numbers
    /\ {} \in Lists /\ NoUid \notin Uids

(* The fields of the versions: paths with their types *)
Schema ==
    [v1 |-> {<<"size">>, <<"tag">>, <<"zone">>, <<"rules", "*", "key">>, <<"net", "*", "cidr">>},
     v2 |-> {<<"size">>, <<"label">>, <<"region">>, <<"rules", "*", "key">>,
             <<"rules", "*", "note">>, <<"net", "cidr">>, <<"uid">>}]

SizeType == [v1 |-> "string", v2 |-> "number"]

Failed == [version |-> "failed", fields |-> <<>>, ann |-> <<>>]

--------------------------------------------------------------------------------
(* Paths *)

\* A path is an expansion of a pattern that agrees with it but for the wildcards.
IsExpansionOf(path, pattern) ==
    /\ Len(path) = Len(pattern)
    /\ \A i \in DOMAIN path : pattern[i] \in {"*", path[i]}

Below(path, prefix) == Len(path) > Len(prefix) /\ \A i \in DOMAIN prefix : path[i] = prefix[i]

ExpandWildcards(fields, pattern) == {p \in DOMAIN fields : IsExpansionOf(p, pattern)}

Without(f, paths)   == Restrict(f, DOMAIN f \ paths)
With(f, path, value) == [p \in DOMAIN f \cup {path} |-> IF p = path THEN value ELSE f[p]]
Overlay(top, f)     == [p \in DOMAIN f \cup DOMAIN top |-> IF p \in DOMAIN top THEN top[p] ELSE f[p]]

\* What the type of a version keeps of the fields; a value of another type is an error.
FromUnstructured(fields, v) ==
    IF \/ <<"size">> \in DOMAIN fields /\ fields[<<"size">>].type # SizeType[v]
       \/ v = "v1" /\ <<"net", "cidr">> \in DOMAIN fields
       \/ v = "v2" /\ \E i \in Index : <<"net", i, "cidr">> \in DOMAIN fields
    THEN [err |-> "error", fields |-> <<>>]
    ELSE [err |-> "nil", fields |-> Restrict(fields, UNION {ExpandWildcards(fields, s) : s \in Schema[v]})]

--------------------------------------------------------------------------------
(* The conversions.  `pair' is a source and a target, and the error if there was one. *)

Applicable(c, src, dst) == c.from \in {"*", src.version} /\ c.to \in {"*", dst.version}

Errs(pair)             == [pair EXCEPT !.err = "error"]
SetSource(pair, f)     == [pair EXCEPT !.src.fields = f]
SetTarget(pair, f)     == [pair EXCEPT !.dst.fields = f]
SetAnnotation(pair, f) == [pair EXCEPT !.dst.ann = f]

\* Identity copies the document, but for what is excluded, into the type of the target.
IdentityConversion(c, pair) ==
    LET left == {p \in DOMAIN pair.src.fields : \E x \in c.how : p = x \/ Below(p, x)}
        copy == FromUnstructured(Without(pair.src.fields, left), pair.dst.version)
    IN  IF copy.err # "nil" THEN Errs(pair)
        ELSE SetAnnotation(SetTarget(pair, copy.fields), pair.src.ann)

FieldCopy(c, pair) ==
    IF c.path \notin DOMAIN pair.src.fields THEN pair
    ELSE SetTarget(pair, With(pair.dst.fields, c.how, pair.src.fields[c.path]))

(* The list at `path' becomes an object or the object a list, in the source, which then
   replaces all that the target has under the prefixes. *)
SingletonListConversion(c, pair) ==
    LET src  == pair.src.fields
        at   == {p \in DOMAIN src : Below(p, c.path)}
        name(p) == p[Len(p)]
        new(p)  == IF c.how = "toEmbeddedObject" THEN Append(c.path, name(p))
                                                  ELSE Append(Append(c.path, "0"), name(p))
        items == {p[Len(c.path) + 1] : p \in at}
        converted == [q \in (DOMAIN src \ at) \cup {new(p) : p \in at} |->
                        IF q \in DOMAIN src \ at THEN src[q]
                        ELSE src[CHOOSE p \in at : new(p) = q]]
    IN  IF c.how = "toEmbeddedObject" /\ Cardinality(items) > 1 THEN Errs(pair)
        ELSE SetTarget(SetSource(pair, converted), converted)

\* Mutant: entries of elements that are gone stay.
KeepsStaleEntries(c, pair) ==
    LET there == ExpandWildcards(pair.src.fields, c.path)
    IN  SetAnnotation(pair, Overlay(Restrict(pair.src.fields, there), pair.dst.ann))

(* A field that only the source has is kept in the annotation of the target: the entries of
   a wildcard path are replaced by those of the elements there are, and that of a field is
   removed with the field. *)
ConvertToAnnotation(c, pair) ==
    LET there == ExpandWildcards(pair.src.fields, c.path)
        stale == ExpandWildcards(pair.dst.ann, c.path)
    IN  SetAnnotation(pair, Overlay(Restrict(pair.src.fields, there), Without(pair.dst.ann, stale)))

\* A field that only the target has is read from the annotation of the source.
ConvertFromAnnotation(c, pair) ==
    LET kept == ExpandWildcards(pair.src.ann, c.path)
    IN  SetTarget(pair, Overlay(Restrict(pair.src.ann, kept), pair.dst.fields))

\* A number or truth value is written as text, and text that is one is read.
FieldTypeConversion(c, pair) ==
    LET value == pair.src.fields[c.path]
    IN  IF c.path \notin DOMAIN pair.src.fields THEN pair
        ELSE IF c.how \in {"intToString", "floatToString", "boolToString"}
        THEN SetTarget(pair, With(pair.dst.fields, c.path, Text(value.number, TRUE)))
        ELSE IF value.number = NotANumber THEN Errs(pair)
        ELSE SetTarget(pair, With(pair.dst.fields, c.path, Number(value.number)))

Convert(c, pair) ==
    IF ~Applicable(c, pair.src, pair.dst) THEN pair
    ELSE CASE c.kind = "identity"       -> IdentityConversion(c, pair)
           [] c.kind = "copy"           -> FieldCopy(c, pair)
           [] c.kind = "list"           -> SingletonListConversion(c, pair)
           [] c.kind = "toAnnotation"   -> ConvertToAnnotation(c, pair)
           [] c.kind = "fromAnnotation" -> ConvertFromAnnotation(c, pair)
           [] c.kind = "type"           -> FieldTypeConversion(c, pair)

--------------------------------------------------------------------------------
(* Registration *)

(* `how' is what a kind has besides: the target of a copy, the mode of a list or type
   conversion, the paths that identity leaves out. *)
Conversion(kind, from, to, path, how) ==
    [kind |-> kind, from |-> from, to |-> to, path |-> path, how |-> how]

(* The report of what changed between the schemas, and what the resource takes out of it *)
Changes ==
    << [type |-> "added",   path |-> <<"label">>],
       [type |-> "added",   path |-> <<"rules", "*", "note">>],
       [type |-> "added",   path |-> <<"uid">>],
       [type |-> "deleted", path |-> <<"tag">>],
       [type |-> "changed", path |-> <<"size">>, deleted |-> "string", added |-> "number"] >>

AutoRegisterExcludePaths == {}

TFType(path) == "int"    \* of the Terraform schema

\* The conversion of a field whose type changed, and the one back.  An old number is taken for an int.
TypeModes(change) ==
    CASE change.deleted = "string" /\ change.added = "number" ->
             IF TFType(change.path) = "float" THEN <<"stringToFloat", "floatToString">>
                                              ELSE <<"stringToInt", "intToString">>
      [] change.deleted = "number"  /\ change.added = "string"  -> <<"intToString", "stringToInt">>
      [] change.deleted = "string"  /\ change.added = "boolean" -> <<"stringToBool", "boolToString">>
      [] change.deleted = "boolean" /\ change.added = "string"  -> <<"boolToString", "stringToBool">>

\* The conversions of a change, in both directions.
AutoConversions(change) ==
    LET path == change.path
    IN  CASE change.path \in AutoRegisterExcludePaths -> <<>>
          [] change.type = "added"   -> << Conversion("fromAnnotation", "v1", "v2", path, "FromAnnotation"),
                                           Conversion("toAnnotation", "v2", "v1", path, "ToAnnotation") >>
          [] change.type = "deleted" -> << Conversion("toAnnotation", "v1", "v2", path, "ToAnnotation"),
                                           Conversion("fromAnnotation", "v2", "v1", path, "FromAnnotation") >>
          [] change.type = "changed" -> << Conversion("type", "v1", "v2", path, TypeModes(change)[1]),
                                           Conversion("type", "v2", "v1", path, TypeModes(change)[2]) >>

RegisterAutoConversions ==
    LET registered[n \in 0..Len(Changes)] ==
            IF n = 0 THEN <<>> ELSE registered[n - 1] \o AutoConversions(Changes[n])
    IN  registered[Len(Changes)]

\* Paths whose type changed are not copied by the identity conversion.
TypeChanged == {Changes[i].path : i \in {j \in DOMAIN Changes : Changes[j].type = "changed"}}
                    \ AutoRegisterExcludePaths

(* As providers register them: identity first, then the lists, then the provider's own and
   the automatic ones. *)
Conversions ==
    << Conversion("identity", "*", "*", <<>>, TypeChanged \cup {<<"net">>}),
       Conversion("list", "v1", "v2", <<"net">>, "toEmbeddedObject"),
       Conversion("list", "v2", "v1", <<"net">>, "toSingletonList"),
       Conversion("copy", "v1", "v2", <<"zone">>, <<"region">>),
       Conversion("copy", "v2", "v1", <<"region">>, <<"zone">>) >>
    \o RegisterAutoConversions

\* Nothing is converted after an error, and identity conversions have a stage of their own.
ConvertInStage(stage, c, pair) ==
    IF pair.err = "nil" /\ (c.kind = "identity" <=> stage = "managed") THEN Convert(c, pair) ELSE pair

Stage(stage, pair) ==
    LET after[n \in 0..Len(Conversions)] ==
            IF n = 0 THEN pair ELSE ConvertInStage(stage, Conversions[n], after[n - 1])
    IN  after[Len(Conversions)]

(* RoundTrip: the identity conversions between the objects, then the others on one pair of
   documents, then back into the type of the target. *)
RoundTrip(doc, version) ==
    LET target    == [version |-> version, fields |-> <<>>, ann |-> <<>>]
        converted == Stage("paved", Stage("managed", [src |-> doc, dst |-> target, err |-> "nil"]))
        result    == FromUnstructured(converted.dst.fields, version)
    IN  IF converted.err = "nil" /\ result.err = "nil" THEN [converted.dst EXCEPT !.fields = result.fields] ELSE Failed

--------------------------------------------------------------------------------
(* The controller of v1: fields of v2 are in the annotation for it *)

Status == {<<"uid">>}

\* What the annotation holds is added to the fields, and replaces them.
Merged(doc, paths) == Overlay(Restrict(doc.ann, DOMAIN doc.ann \cap paths), doc.fields)

MergeAnnotationFieldsWithSpec(doc)   == Merged(doc, DOMAIN doc.ann \ Status)
MergeAnnotationFieldsWithStatus(doc) == Merged(doc, Status)

\* Mutant: an entry is not replaced.
KeepsFirstObserved(doc, observed) == [doc EXCEPT !.ann = Overlay(@, observed)]

\* The fields of the observed state that the status of v1 has not go to the annotation.
MoveTFStateValuesToAnnotation(doc, observed) ==
    IF DOMAIN observed \subseteq DOMAIN doc.fields THEN doc
    ELSE [doc EXCEPT !.ann = Overlay(Without(observed, DOMAIN doc.fields), @)]

--------------------------------------------------------------------------------
(* The API server and its clients.  What they mean is one object with the fields of both
   versions: the elements of rules, those of them with a note, whether there is a net, and
   the rest.  The uid is that of the external resource. *)

Sizes == {Text(n, TRUE) : n \in Numbers \cup {NotANumber}} \cup {Text(n, FALSE) : n \in Numbers}

Intents == [size : Sizes, label : BOOLEAN, tag : BOOLEAN,
            rules : Lists, notes : SUBSET Index, net : SUBSET {"0"}, uid : Uids \cup {NoUid}]

\* v2 cannot hold text that is no number.
Expressible(i, v) == v = "v2" => i.size.number # NotANumber

SizeIn(i, v) == IF v = "v1" THEN i.size ELSE Number(i.size.number)

Paths(i, v) ==
    {<<"size">>} \cup {<<"rules", e, "key">> : e \in i.rules} \cup
    IF v = "v1"
    THEN {<<"zone">>} \cup {p \in {<<"tag">>} : i.tag} \cup {<<"net", e, "cidr">> : e \in i.net}
    ELSE {<<"region">>} \cup {p \in {<<"label">>} : i.label}
            \cup {<<"rules", e, "note">> : e \in i.notes} \cup {<<"net", "cidr">> : e \in i.net}
            \cup {p \in {<<"uid">>} : i.uid # NoUid}

Fields(i, v) == [p \in Paths(i, v) |-> IF p = <<"size">> THEN SizeIn(i, v)
                                       ELSE IF p = <<"uid">> THEN Uid(i.uid) ELSE Name]

\* A client of v sets the fields of v; it leaves the status, and what only the other version has.
Means(new, v) ==
    /\ Expressible(new, v)
    /\ new.notes \subseteq new.rules
    /\ new.uid = intent.uid
    /\ v = "v1" => /\ new.label = intent.label
                   /\ new.notes = intent.notes \cap new.rules
                   /\ ~Shortens => intent.notes \subseteq new.rules
    /\ v = "v2" => new.tag = intent.tag /\ new.size.plain

ObjectInit ==
    /\ storage \in ServedVersions
    /\ intent = [size |-> Text(CHOOSE n \in Numbers : TRUE, TRUE), label |-> FALSE, tag |-> FALSE,
                 rules |-> {}, notes |-> {}, net |-> {}, uid |-> NoUid]
    /\ stored = [version |-> storage, fields |-> Fields(intent, storage), ann |-> <<>>]

As(doc, v) == IF doc.version = v THEN doc ELSE RoundTrip(doc, v)

\* A client that has read the object as v writes it, with the annotations it has read.
ClientWrites(v) ==
    /\ \E view \in {As(stored, v)} \ {Failed}, new \in {i \in Intents : Means(i, v)} :
          /\ stored' = As([version |-> v, fields |-> Fields(new, v), ann |-> view.ann], storage)
          /\ stored' # Failed
          /\ intent' = new
    /\ UNCHANGED storage

\* The controller, which reads the object as v1, has observed the external resource.
Observe(uid) ==
    /\ \E view \in {As(stored, "v1")} \ {Failed} :
          stored' = As(MoveTFStateValuesToAnnotation(view, [p \in Status |-> Uid(uid)]), storage)
    /\ stored' # Failed
    /\ intent' = [intent EXCEPT !.uid = uid]
    /\ UNCHANGED storage

\* Another revision of the provider stores the other version.
NextRevision ==
    /\ storage' = Other(storage)
    /\ UNCHANGED <<stored, intent>>

ObjectNext ==
    \/ NextRevision
    \/ \E v \in ServedVersions : ClientWrites(v)
    \/ \E uid \in Uids : Observe(uid)

ObjectSpec == ObjectInit /\ [][ObjectNext]_objectVars

--------------------------------------------------------------------------------
(* Properties *)

ObjectTypeOK ==
    /\ storage \in ServedVersions
    /\ stored.version \in ServedVersions /\ DOMAIN stored.fields \subseteq Paths(intent, stored.version)
    /\ intent \in Intents

Agrees(doc, i, v) ==
    /\ doc # Failed
    /\ DOMAIN doc.fields = Paths(i, v)
    /\ \A p \in DOMAIN doc.fields : /\ doc.fields[p].type = Fields(i, v)[p].type
                                     /\ doc.fields[p].number = Fields(i, v)[p].number

(* Clients of both versions, whichever of them is stored, work on one object: each reads
   what was written last to the fields of its version, through any number of reads and
   writes of the other, and an object can be read unless the version cannot hold it.
   (Text that reads as a number may come back as Go writes that number.) *)
OneObject ==
    \A v \in ServedVersions :
        \E view \in {As(stored, v)} :
            IF Expressible(intent, v) THEN Agrees(view, intent, v) ELSE view = Failed

(* What conversions.go says of wildcard paths: entries for indices that no longer exist do
   not leak across conversions when list elements are deleted. *)
NoStaleElements ==
    \A v \in ServedVersions :
        \E view \in {As(stored, v)} :
            Expressible(intent, v) => {p[2] : p \in {q \in DOMAIN view.fields : q[1] = "rules"}} = intent.rules

(* The controller of v1 sees the fields that only v2 has as they were set last, and the
   state it has observed last: it neither forgets them nor takes what is gone for set. *)
ControllerSeesAll ==
    \E view \in {As(stored, "v1")} :
        LET spec   == MergeAnnotationFieldsWithSpec(view)
            status == MergeAnnotationFieldsWithStatus(view)
            added  == Paths(intent, "v2") \ (Paths(intent, "v1") \cup {<<"region">>, <<"net", "cidr">>})
        IN  /\ DOMAIN spec = (DOMAIN spec \cap {<<"tag">>}) \cup Paths(intent, "v1") \cup (added \ Status)
            /\ DOMAIN status = Paths(intent, "v1") \cup (added \cap Status)
            /\ intent.uid # NoUid => status[<<"uid">>].number = intent.uid

================================================================================
