----------------------------- MODULE MCMessages -----------------------------
(***************************************************************************)
(* An instance of Messages for TLC: descriptions with every combinator of  *)
(* the algebra that is modelled, and values for the cases that differ.     *)
(***************************************************************************)
EXTENDS Messages, TLC

a == <<"a">>
Texts == {<<>>, a, <<"a", " ">>, <<"+", "a">>, <<"/">>}

Root == Static(<<>>)

UrlOf(path, query)   == [path |-> path, query |-> query]
ValueOf(path, query) == [path |-> path, query |-> query]
Sent(url, values)    == {[url |-> url, value |-> v] : v \in values}

Rests == {<<<<>>>>, <<a>>, <<a, a>>, <<<<"%2F">>, a>>, <<<<"%20">>>>, <<<<"+">>>>, <<<<"%2B">>>>,
          <<a, <<>>>>, <<a, <<>>, <<>>>>, <<<<>>, a>>, <<<<>>, <<>>>>}

\* The root, static, typed and remaining segments, at the start, inside and at the end of
\* a path; empty ones, and a static segment with a slash.
PathUrls ==
  LET A == Static(a)  S == Segment
      Of(path, carried) == Sent(UrlOf(path, <<>>), {ValueOf(c, <<>>) : c \in carried})
  IN  UNION {
    Of(<<Root>>, {<<<<>>>>}),
    Of(<<Root, Static(<<>>)>>, {<<<<>>, <<>>>>}),
    Of(<<Root, A, Static(<<>>)>>, {<<<<>>, <<>>, <<>>>>}),
    Of(<<Root, Static(<<"a", "/", "a">>)>>, {<<<<>>, <<>>>>}),
    Of(<<Root, S>>, {<<<<>>, t>> : t \in Texts}),
    Of(<<Root, A, S>>, {<<<<>>, <<>>, t>> : t \in Texts}),
    Of(<<Root, S, A>>, {<<<<>>, t, <<>>>> : t \in Texts}),
    Of(<<Root, S, Static(<<>>)>>, {<<<<>>, t, <<>>>> : t \in Texts}),
    Of(<<Root, A, Static(<<>>), Static(<<>>)>>, {<<<<>>, <<>>, <<>>, <<>>>>}),
    Of(<<Root, S, S>>, {<<<<>>, t, u>> : t \in Texts, u \in Texts}),
    Of(<<Root, A, S, S, A>>, {<<<<>>, <<>>, t, u, <<>>>> : t \in Texts, u \in Texts}),
    Of(<<Root, Remaining>>, {<<<<>>, r>> : r \in Rests}),
    Of(<<Root, A, Remaining>>, {<<<<>>, <<>>, r>> : r \in Rests})}

\* A required, an optional, a repeated and a defaulted parameter; a missing one is a
\* repeated one that the client leaves empty.
QueryUrls ==
  Sent(UrlOf(<<Root>>, <<Param("s", "required"), Param("o", "optional"), Param("r", "repeated"),
                         DefaultParam("d", <<"a", "a">>)>>),
       {ValueOf(<<<<>>>>, <<<<s>>, o, r, d>>) :
          s \in Texts, o \in {<<>>, <<<<>>>>, <<a>>}, d \in {<<>>, <<<<>>>>, <<a>>},
          r \in {<<>>, <<<<"+", "a">>>>, <<a, <<" ">>>>, <<<<>>, a, a>>}})

SomeUrlMessages == PathUrls \cup QueryUrls

\* A list, as the recursive schema of the documentation of lazyRecord.
SomeDefinitions == [rec |-> OptField("next", Lazy("rec"))]

With(schema, values) == {[schema |-> schema, value |-> v] : v \in values}

x == String("x")
IntRecord    == Required("i", LongSchema)
StringRecord == Required("s", StringSchema)
Choice       == ChoiceTagged(TaggedRecord(IntRecord, "I"), TaggedRecord(StringRecord, "S"))
OfChoice     == {Left(Long(1)), Right(x)}
Kind(tagged) == WithDiscriminator(tagged, "kind")
NamedInt     == Named(IntRecord, "Int")

RecordMessages == UNION {
  With(LongSchema, {Long(n) : n \in 0..(2^LongBits - 1)}),
  With(EmptyRecord, {Unit}),
  With(ArrayOf(Enumeration({"x", "y"})), {Items(<<>>), Items(<<x, String("y")>>)}),
  With(Lazy("rec"), {None, Some(None), Some(Some(None))}),
  With(ZipRecords(OptField("o", StringSchema), PreciseField("p", OptField("o", StringSchema))),
       {Pair(o, p) : o \in {None, Some(x)}, p \in {Absent, NullValue, Present(None), Present(Some(x))}}),
  With(ZipRecords(FieldWithDefault("d", StringSchema, x), Required("a", ArrayOf(StringRecord))),
       {Pair(d, v) : d \in {x, String("y")}, v \in {Items(<<>>), Items(<<x, String("y")>>)}}),
  With(OrFallback(IntRecord, StringSchema), {Left(Long(1)), Right(x)}),
  With(OrFallback(StringRecord, ZipRecords(StringRecord, IntRecord)),
       {Left(x), Right(Pair(x, Long(1)))}),
  With(OrFallback(OptField("o", StringSchema), StringSchema), {Left(None), Left(Some(x)), Right(x)}),
  With(OrFallback(PreciseField("o", StringSchema), StringSchema), {Left(Absent), Left(Present(x)), Right(x)})}

\* The discriminator, by default and named, below and above the operations that rebuild
\* a Tagged; alternatives that are named, and used outside of it too.
TaggedMessages == UNION {
  With(Choice, OfChoice),
  With(Kind(Choice), OfChoice),
  With(XmapTagged(Choice), OfChoice),
  With(XmapTagged(Kind(Choice)), OfChoice),
  With(Kind(XmapTagged(Choice)), OfChoice),
  With(ChoiceTagged(Kind(TaggedRecord(IntRecord, "I")), Kind(TaggedRecord(StringRecord, "S"))), OfChoice),
  With(ChoiceTagged(Choice, TaggedRecord(EmptyRecord, "E")), {Left(v) : v \in OfChoice} \cup {Right(Unit)}),
  With(Required("t", Named(Kind(Choice), "Choice")), OfChoice),
  With(ZipRecords(Required("t", Kind(ChoiceTagged(TaggedRecord(NamedInt, "I"), TaggedRecord(NamedInt, "J")))),
                  Required("i", LongSchema)),
       {Pair(Left(Long(1)), Long(2)), Pair(Right(Long(1)), Long(2))}),
  With(ZipRecords(Required("i", NamedInt), Required("t", TaggedRecord(NamedInt, "I"))),
       {Pair(Long(1), Long(2))})}

SomeJsonMessages == RecordMessages \cup TaggedMessages
=============================================================================
