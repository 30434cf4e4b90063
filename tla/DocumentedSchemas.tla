------------------------- MODULE DocumentedSchemas -------------------------
(***************************************************************************)
(* The OpenAPI schema documented for a JSON schema: its expansion, with    *)
(* references to the named schemas, the components that the references     *)
(* stand for, and the JSON values that conform to it. The encoding of      *)
(* coproducts is the default one, OneOf; descriptions, titles, examples    *)
(* and numeric constraints are left out.                                   *)
(***************************************************************************)
EXTENDS JsonSchemas

Primitive(name)           == [primitive |-> name]
EnumOf(values)            == [enum |-> values]
ArraySchema(item)         == [array |-> item]
ObjectSchema(properties)  == [properties |-> properties]
OneOf(alternatives)       == [oneOf |-> alternatives]
\* original: of a schema that the reference is not inside of.
Reference(name, original) == [ref |-> name, original |-> original]

Property(name, schema, required) == [name |-> name, schema |-> schema, required |-> required]

(***************************************************************************)
(* DocumentedRecord and DocumentedCoProd.                                  *)
(***************************************************************************)

\* `choiceTagged` makes a DocumentedCoProd with the default name; `xmap` keeps the one
\* that there is.
RECURSIVE DocumentedDiscriminator(_)
DocumentedDiscriminator(schema) ==
  CASE schema.kind = "discriminator"        -> schema.name
    [] schema.kind \in {"tagged", "choice"} -> DefaultDiscriminatorName
    [] schema.kind \in {"xmap", "named"}    -> DocumentedDiscriminator(schema.of)

RECURSIVE Alternatives(_)
Alternatives(schema) ==
  CASE schema.kind = "tagged" -> <<[tag |-> schema.tag, record |-> schema.record]>>
    [] schema.kind \in {"discriminator", "xmap", "named"} -> Alternatives(schema.of)
    [] schema.kind = "choice" -> Alternatives(schema.left) \o Alternatives(schema.right)

\* The fields that a record is made of.
RECURSIVE FieldsOf(_)
FieldsOf(record) ==
  CASE record.kind = "empty"      -> <<>>
    [] record.kind \in FieldKinds -> <<record>>
    [] record.kind = "zip"        -> FieldsOf(record.left) \o FieldsOf(record.right)
    [] record.kind = "named"      -> FieldsOf(record.of)
    [] record.kind = "lazy"       -> FieldsOf(Definitions[record.name])

RECURSIVE OneOfAlternatives(_)
OneOfAlternatives(schema) ==
  IF schema.kind = "fallback"
  THEN OneOfAlternatives(schema.left) \o OneOfAlternatives(schema.right) ELSE <<schema>>

RECURSIVE IsTagged(_)
IsTagged(schema) ==
  schema.kind \in TaggedKinds \/ (schema.kind = "named" /\ IsTagged(schema.of))

\* The outermost name: that of a schema which changes it is kept, except by a choice.
RECURSIVE NamesOf(_)
NamesOf(schema) ==
  CASE schema.kind \in {"named", "lazy"}         -> {schema.name}
    [] schema.kind \in {"discriminator", "xmap"} -> NamesOf(schema.of)
    [] OTHER                                     -> {}

(***************************************************************************)
(* toSchema. `base` is the coproduct and the tag that a record is an       *)
(* alternative of, if any; `referenced` are the names that the schema is   *)
(* inside of.                                                              *)
(***************************************************************************)
\* A bug: an optional field is documented as a required one.
IsRequiredOrOptional(field) == field.kind \in {"field", "opt"}

IsRequired(field) == field.kind = "field"

RECURSIVE ToSchema(_, _, _), Expand(_, _, _)

TagProperty(base) ==
  [i \in DOMAIN base |-> Property(base[i].discriminator, EnumOf({base[i].tag}), TRUE)]

ToSchema(schema, base, referenced) ==
  IF NamesOf(schema) = {} THEN Expand(schema, base, referenced)
  ELSE LET name == CHOOSE n \in NamesOf(schema) : TRUE
       IN  Reference(name, IF name \in referenced THEN {}
                           ELSE {Expand(schema, base, referenced \cup {name})})

Expand(schema, base, referenced) ==
  CASE schema.kind = "string" -> Primitive("string")
    [] schema.kind = "long"   -> Primitive("integer")
    [] schema.kind = "enum"   -> EnumOf(schema.values)
    [] schema.kind = "array"  -> ArraySchema(ToSchema(schema.item, base, referenced))
    [] schema.kind = "fallback" ->
         LET alternatives == OneOfAlternatives(schema)
         IN  OneOf([i \in DOMAIN alternatives |-> ToSchema(alternatives[i], base, referenced)])
    [] IsTagged(schema) ->
         LET alternatives == Alternatives(schema)
         IN  OneOf([i \in DOMAIN alternatives |->
                      ToSchema(alternatives[i].record,
                               <<[discriminator |-> DocumentedDiscriminator(schema),
                                  tag |-> alternatives[i].tag]>>, referenced)])
    [] OTHER ->
         LET fields == FieldsOf(schema)
         IN  ObjectSchema(TagProperty(base) \o
               [i \in DOMAIN fields |->
                  Property(fields[i].name, ToSchema(fields[i].item, <<>>, referenced),
                           IsRequired(fields[i]))])

DocumentOf(schema) == ToSchema(schema, <<>>, {})

(***************************************************************************)
(* The components of the document: what the references stand for.          *)
(***************************************************************************)
RECURSIVE References(_)
References(document) ==
  CASE "properties" \in DOMAIN document ->
         FlattenSeq([i \in DOMAIN document.properties |-> References(document.properties[i].schema)])
    [] "oneOf" \in DOMAIN document ->
         FlattenSeq([i \in DOMAIN document.oneOf |-> References(document.oneOf[i])])
    [] "array" \in DOMAIN document -> References(document.array)
    [] "ref" \in DOMAIN document   ->
         FlattenSeq([i \in 1..Cardinality(document.original) |->
           LET original == CHOOSE o \in document.original : TRUE
           IN  <<<<document.ref, original>>>> \o References(original)])
    [] OTHER -> <<>>

\* `toMap`: the last one of a name.
Components(references) ==
  [name \in {references[i][1] : i \in DOMAIN references} |->
     references[Max({i \in DOMAIN references : references[i][1] = name})][2]]

(***************************************************************************)
(* The JSON values that conform to a document, as readers of an OpenAPI    *)
(* document understand it (external).                                      *)
(***************************************************************************)
RECURSIVE Conforms(_, _, _)
Conforms(json, document, components) ==
  CASE "primitive" \in DOMAIN document ->
         IsA(json, IF document.primitive = "string" THEN "str" ELSE "num")
    [] "enum" \in DOMAIN document  -> IsA(json, "str") /\ json.str \in document.enum
    [] "array" \in DOMAIN document ->
         /\ IsA(json, "arr")
         /\ \A i \in DOMAIN json.arr : Conforms(json.arr[i], document.array, components)
    [] "properties" \in DOMAIN document ->
         /\ IsA(json, "obj")
         /\ \A i \in DOMAIN document.properties :
              LET property == document.properties[i]
              IN  IF property.name \in DOMAIN json.obj
                  THEN Conforms(json.obj[property.name], property.schema, components)
                  ELSE ~property.required
    [] "oneOf" \in DOMAIN document ->
         Cardinality({i \in DOMAIN document.oneOf :
                        Conforms(json, document.oneOf[i], components)}) = 1
    [] "ref" \in DOMAIN document -> Conforms(json, components[document.ref], components)

ConformsTo(json, schema) ==
  Conforms(json, DocumentOf(schema), Components(References(DocumentOf(schema))))
=============================================================================
