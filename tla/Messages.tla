------------------------------ MODULE Messages ------------------------------
(***************************************************************************)
(* A message between two interpreters of the same description: the URL of  *)
(* a request, from a client to a server, or a JSON entity, from one JSON   *)
(* library to another (or the same) one. The sender encodes the value, the *)
(* receiver decodes what is on the wire.                                   *)
(***************************************************************************)
EXTENDS UrlExchange, DocumentedSchemas

CONSTANT JsonMessages   \* the schemas and their values: [schema, value]

\* What circe and Play merge has no object in common, and the alternatives of a choice have
\* the same discriminator, as the ujson interpreter asserts.
RECURSIVE WellMade(_)
WellMade(schema) ==
  CASE schema.kind \in FieldKinds \cup {"array"}            -> WellMade(schema.item)
    [] schema.kind = "tagged"                             -> WellMade(schema.record)
    [] schema.kind \in {"discriminator", "xmap", "named"} -> WellMade(schema.of)
    [] schema.kind \in {"zip", "choice", "fallback"}      ->
         /\ WellMade(schema.left) /\ WellMade(schema.right)
         /\ schema.kind = "zip" => \A f \in Range(FieldsOf(schema.left)) :
              \A g \in Range(FieldsOf(schema.right)) : f.name # g.name
         /\ schema.kind = "choice" =>
              Discriminator("ujson", schema.left) = Discriminator("ujson", schema.right)
    [] OTHER                                              -> TRUE

ASSUME JsonMessagesAssumption == \A m \in JsonMessages : WellMade(m.schema)

Init ==
  \/ UrlInit
  \/ /\ message \in JsonMessages /\ sender \in Libraries /\ receiver \in Libraries
     /\ wire = NotYet /\ received = NotYet

SendJson ==
  /\ ~IsUrl(message) /\ wire = NotYet
  /\ wire' = EncodeJson(sender, message.schema, message.value)
  /\ UNCHANGED <<message, sender, receiver, received>>

ReceiveJson ==
  /\ ~IsUrl(message) /\ wire # NotYet /\ received = NotYet
  /\ received' = DecodeJson(receiver, message.schema, wire)
  /\ UNCHANGED <<message, sender, receiver, wire>>

Next == UrlNext \/ SendJson \/ ReceiveJson

Spec == Init /\ [][Next]_vars

(***************************************************************************)
(* JSON.                                                                   *)
(***************************************************************************)

\* The schemas inside of a schema whose codecs it calls.
RECURSIVE CodecsIn(_)
CodecsIn(schema) ==
  {schema} \cup
  CASE schema.kind \in FieldKinds \cup {"array"}  -> CodecsIn(schema.item)
    [] schema.kind \in {"zip", "fallback"}        -> CodecsIn(schema.left) \cup CodecsIn(schema.right)
    [] schema.kind = "named"                      -> CodecsIn(schema.of)
    [] schema.kind \in TaggedKinds                ->
         UNION {CodecsIn(a.record) : a \in Range(Alternatives(schema))}
    [] OTHER                                      -> {}

RECURSIVE LeavesOf(_)
LeavesOf(json) ==
  CASE IsA(json, "arr") -> UNION {LeavesOf(json.arr[i]) : i \in DOMAIN json.arr}
    [] IsA(json, "obj") -> UNION {LeavesOf(json.obj[n]) : n \in DOMAIN json.obj}
    [] OTHER            -> {json}

\* withDiscriminator, and above it an operation for which the libraries differ.
DiscriminatorForgotten(schema) ==
  \E s \in CodecsIn(schema) :
    s.kind \in {"xmap", "choice"} /\ Discriminator("ujson", s) # DefaultDiscriminatorName

\* A number that a Double may not be able to hold meets ujson.
NumberTooWide ==
  /\ "ujson" \in {sender, receiver}
  /\ \E leaf \in LeavesOf(EncodeJson("circe", message.schema, message.value)) :
       IsA(leaf, "num") /\ leaf.num > 2^DoubleBits

\* The records that the decoder of a library finds in anything.
ReadsAnything(lib, schema) ==
  /\ schema.kind \in FieldKinds \cup {"zip"}
  /\ \A i \in DOMAIN FieldsOf(schema) :
       FieldsOf(schema)[i].kind \in CASE lib = "ujson"    -> {}
                                      [] lib = "circe"    -> {"precise"}
                                      [] lib = "playjson" -> {"precise", "opt", "default"}

\* The value is of the second of two alternatives, and can be taken for the first.
TakenForLeft(schema, value) ==
  /\ schema.kind = "fallback" /\ "right" \in DOMAIN value
  /\ \/ ConformsTo(wire, schema.left)
     \/ ReadsAnything(receiver, schema.left) /\ ~IsA(wire, "obj")

\* What one library encodes, each of the three decodes to the same value: optional fields,
\* null or absent, defaults, tags, alternatives. The named cases are the only ones where
\* it is not so, and numbers too wide for a Double, which may arrive or not.
JsonRoundTrip ==
  ~IsUrl(message) /\ received # NotYet =>
    LET schema == message.schema  value == message.value IN
    \/ NumberTooWide
    \/ (received = Valid(value)) <=>
         ~(\/ DiscriminatorForgotten(schema) /\ Cardinality({sender, receiver} \cap {"ujson"}) = 1
                                             /\ sender # receiver
           \/ TakenForLeft(schema, value))

\* A name is given to records that are not the same.
NameShared(schema) ==
  LET references == References(DocumentOf(schema)) IN
  \E i, j \in DOMAIN references :
    references[i][1] = references[j][1] /\ references[i][2] # references[j][2]

Misdocumented(schema) ==
  \E s \in CodecsIn(schema) :
    IsTagged(s) /\ Discriminator(sender, s) # DocumentedDiscriminator(s)

InBothAlternatives(schema) ==
  schema.kind = "fallback" /\ ConformsTo(wire, schema.left) /\ ConformsTo(wire, schema.right)

\* What an interpreter sends conforms to the OpenAPI schema that is documented for it. Not
\* so when the discriminator has another name there, for the null of a precise field, for
\* a value of both alternatives of a oneOf, and, it may be, for a name given twice.
DocumentIsTrue ==
  ~IsUrl(message) /\ wire # NotYet =>
    \/ NameShared(message.schema)
    \/ ConformsTo(wire, message.schema) <=>
         ~(\/ Misdocumented(message.schema)
           \/ Null \in LeavesOf(wire)
           \/ InBothAlternatives(message.schema))

\* "Make sure that `xmap` preserves the discriminator" (ujson/JsonSchemasTest.scala).
XmapKeepsDiscriminator ==
  ~IsUrl(message) /\ wire # NotYet /\ message.schema.kind = "xmap" =>
    wire = EncodeJson(sender, message.schema.of, message.value)
=============================================================================
