---------------------------- MODULE JsonSchemas ----------------------------
(***************************************************************************)
(* The codecs that the ujson, circe and Play JSON interpreters derive from *)
(* a schema, and the schema that the OpenAPI interpreter documents for it. *)
(* `xmap` is with functions that are inverses of each other: the value is  *)
(* the same, what differs is what becomes of the schema. The primitive     *)
(* codecs of circe and Play are external.                                  *)
(***************************************************************************)
EXTENDS Integers, Sequences, SequencesExt, Functions, FiniteSets, FiniteSetsExt

CONSTANTS
  DoubleBits,    \* the significant bits of a Double: 53
  LongBits,      \* the bits of a Long, its sign left out: 63
  Definitions    \* the schemas that lazy schemas refer to, by name

ASSUME JsonSchemasAssumption == DoubleBits \in Nat \ {0} /\ LongBits \in Nat /\ DoubleBits < LongBits

Libraries == {"ujson", "circe", "playjson"}

\* JSON values, and an object of no field.
Null      == [null |-> TRUE]
Str(s)    == [str |-> s]
Num(n)    == [num |-> n]
Obj(f)    == [obj |-> f]
NoFields  == [name \in {} |-> Null]

IsA(json, type) == type \in DOMAIN json
HasField(json, name) == IsA(json, "obj") /\ name \in DOMAIN json.obj
Field(name, json) == [n \in {name} |-> json]

\* f, and what g has that f has not.
Merge(f, g) == [n \in DOMAIN f \cup DOMAIN g |-> IF n \in DOMAIN f THEN f[n] ELSE g[n]]

(***************************************************************************)
(* Schemas, and the values of their types.                                 *)
(***************************************************************************)
StringSchema == [kind |-> "string"]
LongSchema   == [kind |-> "long"]
Enumeration(values)         == [kind |-> "enum", values |-> values]
ArrayOf(item)               == [kind |-> "array", item |-> item]
EmptyRecord                 == [kind |-> "empty"]
Required(name, item)        == [kind |-> "field", name |-> name, item |-> item]
OptField(name, item)        == [kind |-> "opt", name |-> name, item |-> item]
FieldWithDefault(name, item, default) ==
  [kind |-> "default", name |-> name, item |-> item, default |-> default]
PreciseField(name, item)    == [kind |-> "precise", name |-> name, item |-> item]
ZipRecords(left, right)     == [kind |-> "zip", left |-> left, right |-> right]
TaggedRecord(record, tag)   == [kind |-> "tagged", record |-> record, tag |-> tag]
WithDiscriminator(of, name) == [kind |-> "discriminator", of |-> of, name |-> name]
ChoiceTagged(left, right)   == [kind |-> "choice", left |-> left, right |-> right]
XmapTagged(of)              == [kind |-> "xmap", of |-> of]
OrFallback(left, right)     == [kind |-> "fallback", left |-> left, right |-> right]
Named(of, name)             == [kind |-> "named", of |-> of, name |-> name]
Lazy(name)                  == [kind |-> "lazy", name |-> name]

FieldKinds  == {"field", "opt", "precise", "default"}
TaggedKinds == {"tagged", "discriminator", "choice", "xmap"}

Unit        == [unit |-> TRUE]
None        == [none |-> TRUE]
Some(v)     == [some |-> v]
Absent      == [absent |-> TRUE]
NullValue   == [nullValue |-> TRUE]
Present(v)  == [present |-> v]
Left(v)     == [left |-> v]
Right(v)    == [right |-> v]
Pair(v, w)  == [fst |-> v, snd |-> w]
Items(vs)   == [items |-> vs]
String(s)   == [string |-> s]
Long(n)     == [long |-> n]

\* What an optional or a precise field holds.
Carried(value) ==
  IF "some" \in DOMAIN value THEN {value.some}
  ELSE IF "present" \in DOMAIN value THEN {value.present} ELSE {}

Valid(v)    == [valid |-> v]
Invalid     == [invalid |-> TRUE]
IsValid(r)  == "valid" \in DOMAIN r
MapValid(r, F(_)) == IF IsValid(r) THEN Valid(F(r.valid)) ELSE Invalid

(***************************************************************************)
(* Numbers. ujson holds every number in a Double.                          *)
(***************************************************************************)

\* The distance between two Doubles at n.
Step(n) == Max({1} \cup {2^i : i \in {i \in 1..LongBits : n >= 2^(DoubleBits + i - 1)}})

\* `toDouble`, and the parser of ujson: to the nearest, to the even one of two.
ToDouble(n) ==
  LET step  == Step(n)
      below == n \div step
      over  == 2 * (n % step)
  IN  IF over < step \/ (over = step /\ below % 2 = 0) THEN below * step ELSE (below + 1) * step

\* `BigDecimal(x)` is the shortest decimal that denotes the Double.
Decimals(x) == {n \in 0..(2^(LongBits + 1)) : ToDouble(n) = x}
Zeros(n)    == IF n = 0 THEN 0 ELSE Max({i \in 0..LongBits : n % 10^i = 0})
Distance(n, m) == IF n < m THEN m - n ELSE n - m
ShortestDecimal(x) ==
  LET shortest == {n \in Decimals(x) : \A m \in Decimals(x) : Zeros(m) <= Zeros(n)}
  IN  CHOOSE n \in shortest : \A m \in shortest : Distance(n, x) <= Distance(m, x)

EncodeLong(lib, n) == IF lib = "ujson" THEN ToDouble(n) ELSE n

DecodeLong(lib, n) ==
  LET read == IF lib = "ujson" THEN ShortestDecimal(ToDouble(n)) ELSE n
  IN  IF read < 2^LongBits THEN Valid(Long(read)) ELSE Invalid

(***************************************************************************)
(* Encoders.                                                               *)
(***************************************************************************)
DefaultDiscriminatorName == "type"

\* `xmap` and `choiceTagged` make a new Tagged. That of ujson has the name of the one that
\* it is made of (for a choice, of both); that of circe and Play has the default name.
Rebuilt(lib, kept) == IF lib = "ujson" THEN kept ELSE DefaultDiscriminatorName

\* The alternatives of a choice have one discriminator: `WellMade` again.
RECURSIVE Discriminator(_, _)
Discriminator(lib, schema) ==
  CASE schema.kind = "tagged"        -> DefaultDiscriminatorName
    [] schema.kind = "discriminator" -> schema.name
    [] schema.kind = "xmap"          -> Rebuilt(lib, Discriminator(lib, schema.of))
    [] schema.kind = "choice"        -> Rebuilt(lib, Discriminator(lib, schema.right))
    [] schema.kind = "named"         -> Discriminator(lib, schema.of)

\* The object with a field of that name, or with none.
ObjOf(name, jsons) ==
  Obj([n \in {name : j \in jsons} |-> CHOOSE json \in jsons : TRUE])

\* `deepMerge` of circe keeps the fields of the record on the left. It is deep only where
\* both records have a field of one name, which `WellMade` (of module Messages) rules out.
MergeObjs(lib, left, right) ==
  Obj(IF lib = "circe" THEN Merge(left.obj, right.obj) ELSE Merge(right.obj, left.obj))

AddTag(name, tagged) == Obj(Merge(Field(name, Str(tagged.tag)), tagged.json.obj))

RECURSIVE EncodeJson(_, _, _), EncodeTagged(_, _, _)

\* The tag of a value and its object, the discriminator field left out.
EncodeTagged(lib, schema, value) ==
  CASE schema.kind = "tagged" ->
         [tag |-> schema.tag, json |-> EncodeJson(lib, schema.record, value)]
    [] schema.kind \in {"discriminator", "xmap", "named"} ->
         EncodeTagged(lib, schema.of, value)
    [] schema.kind = "choice" ->
         IF "left" \in DOMAIN value THEN EncodeTagged(lib, schema.left, value.left)
                                    ELSE EncodeTagged(lib, schema.right, value.right)

EncodeJson(lib, schema, value) ==
  CASE schema.kind \in {"string", "enum"} -> Str(value.string)
    [] schema.kind = "long"  -> Num(EncodeLong(lib, value.long))
    [] schema.kind = "array" ->
         [arr |-> [i \in DOMAIN value.items |-> EncodeJson(lib, schema.item, value.items[i])]]
    [] schema.kind = "empty" -> Obj(NoFields)
    [] schema.kind \in {"field", "default"} ->
         ObjOf(schema.name, {EncodeJson(lib, schema.item, value)})
    [] schema.kind \in {"opt", "precise"} ->
         ObjOf(schema.name, {Null : v \in {value} \cap {NullValue}} \cup
                            {EncodeJson(lib, schema.item, v) : v \in Carried(value)})
    [] schema.kind = "zip" ->
         MergeObjs(lib, EncodeJson(lib, schema.left, value.fst),
                        EncodeJson(lib, schema.right, value.snd))
    [] schema.kind \in TaggedKinds ->
         AddTag(Discriminator(lib, schema), EncodeTagged(lib, schema, value))
    [] schema.kind = "fallback" ->
         IF "left" \in DOMAIN value THEN EncodeJson(lib, schema.left, value.left)
                                    ELSE EncodeJson(lib, schema.right, value.right)
    [] schema.kind = "named" -> EncodeJson(lib, schema.of, value)
    [] schema.kind = "lazy"  -> EncodeJson(lib, Definitions[schema.name], value)

(***************************************************************************)
(* Decoders. The result of a field is that of its value, when it has one.  *)
(***************************************************************************)

\* The readers of Play look for the field of anything; those of circe and ujson fail.
DecodeOpt(lib, json, name, result) ==
  IF ~IsA(json, "obj") THEN (IF lib = "playjson" THEN Valid(None) ELSE Invalid)
  ELSE IF ~HasField(json, name) \/ json.obj[name] = Null THEN Valid(None)
  ELSE MapValid(result, Some)

\* A bug: a field that is null is an absent one.
DecodePreciseAsOpt(lib, json, name, result) ==
  IF ~HasField(json, name) \/ json.obj[name] = Null THEN Valid(Absent)
  ELSE MapValid(result, Present)

\* For circe and Play, what is not an object has no such field.
DecodePrecise(lib, json, name, result) ==
  IF ~IsA(json, "obj") /\ lib = "ujson" THEN Invalid
  ELSE IF ~HasField(json, name) THEN Valid(Absent)
  ELSE IF json.obj[name] = Null THEN Valid(NullValue)
  ELSE MapValid(result, Present)

DecodeDefault(lib, json, name, default, result) ==
  MapValid(DecodeOpt(lib, json, name, result),
           LAMBDA v : IF v = None THEN default ELSE v.some)

ZipResults(left, right) ==
  IF IsValid(left) /\ IsValid(right) THEN Valid(Pair(left.valid, right.valid)) ELSE Invalid

Fallback(left, right) == IF IsValid(left) THEN MapValid(left, Left) ELSE MapValid(right, Right)

RECURSIVE DecodeJson(_, _, _), DecodeTagged(_, _, _, _)

\* The decoder of a tag: none, or what it decodes.
DecodeTagged(lib, schema, tag, json) ==
  CASE schema.kind = "tagged" ->
         IF schema.tag = tag THEN {DecodeJson(lib, schema.record, json)} ELSE {}
    [] schema.kind \in {"discriminator", "xmap", "named"} ->
         DecodeTagged(lib, schema.of, tag, json)
    [] schema.kind = "choice" ->
         LET left == DecodeTagged(lib, schema.left, tag, json)
         IN  IF left # {} THEN {MapValid(result, Left) : result \in left}
             ELSE {MapValid(result, Right) : result \in DecodeTagged(lib, schema.right, tag, json)}

\* That of the tag that the discriminator field has.
DecodeByTag(lib, schema, json) ==
  LET name    == Discriminator(lib, schema)
      results == IF HasField(json, name) /\ IsA(json.obj[name], "str")
                 THEN DecodeTagged(lib, schema, json.obj[name].str, json) ELSE {}
  IN  IF results = {} THEN Invalid ELSE CHOOSE result \in results : TRUE

DecodeJson(lib, schema, json) ==
  LET field == IF schema.kind \in FieldKinds /\ HasField(json, schema.name)
               THEN DecodeJson(lib, schema.item, json.obj[schema.name]) ELSE Invalid
  IN
  CASE schema.kind = "string" -> IF IsA(json, "str") THEN Valid(String(json.str)) ELSE Invalid
    [] schema.kind = "enum"   ->
         IF IsA(json, "str") /\ json.str \in schema.values THEN Valid(String(json.str)) ELSE Invalid
    [] schema.kind = "long"   -> IF IsA(json, "num") THEN DecodeLong(lib, json.num) ELSE Invalid
    [] schema.kind = "array"  ->
         LET results == [i \in DOMAIN json.arr |-> DecodeJson(lib, schema.item, json.arr[i])]
         IN  IF IsA(json, "arr") /\ \A i \in DOMAIN results : IsValid(results[i])
             THEN Valid(Items([i \in DOMAIN results |-> results[i].valid])) ELSE Invalid
    [] schema.kind = "empty"   -> IF IsA(json, "obj") THEN Valid(Unit) ELSE Invalid
    [] schema.kind = "field"   -> field
    [] schema.kind = "opt"     -> DecodeOpt(lib, json, schema.name, field)
    [] schema.kind = "precise" -> DecodePrecise(lib, json, schema.name, field)
    [] schema.kind = "default" -> DecodeDefault(lib, json, schema.name, schema.default, field)
    [] schema.kind = "zip"     ->
         ZipResults(DecodeJson(lib, schema.left, json), DecodeJson(lib, schema.right, json))
    [] schema.kind \in TaggedKinds -> DecodeByTag(lib, schema, json)
    [] schema.kind = "fallback" ->
         Fallback(DecodeJson(lib, schema.left, json), DecodeJson(lib, schema.right, json))
    [] schema.kind = "named" -> DecodeJson(lib, schema.of, json)
    [] schema.kind = "lazy"  -> DecodeJson(lib, Definitions[schema.name], json)
=============================================================================
