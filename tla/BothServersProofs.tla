------------------------- MODULE BothServersProofs --------------------------
(***************************************************************************)
(* Proofs about both servers, one after the other, on the same request,    *)
(* and about each of them alone.                                           *)
(*                                                                         *)
(* The inductive invariant is a story: what a server has asked so far and  *)
(* what it makes of the answers. It is one definition for both, with the   *)
(* places where they differ spelt out (who), and it is rigid: a function   *)
(* of the endpoints, the request and the answers, whichever variables hold *)
(* them. So each step of a server is one lemma about a story, a finished   *)
(* story can be kept and compared with another, and that the interpreters  *)
(* agree is a comparison of two stories, row by row, with no more steps.   *)
(***************************************************************************)
EXTENDS BothServers, SequenceTheorems, TLAPS

\* The checks of an endpoint, by name.
LEMMA ChecksAre ==
  Checks = {"method", "url", "headers", "added", "first", "second", "transform", "command",
            "run", "responseHeaders", "accept", "responseEntity"}
  BY DEF Checks, Verdicts

\* A verdict is a verdict of its check, and there is another value for "not asked".
LEMMA VerdictsAre ==
  ASSUME NEW c \in Checks
  PROVE  Verdicts[c] \subseteq AnyVerdict /\ Unasked \notin Verdicts[c]
<1>1. Verdicts[c] \subseteq AnyVerdict
  BY DEF AnyVerdict
<1>2. Unasked \notin Verdicts[c]
  BY ChecksAre DEF Verdicts, Validity, Raises, Unasked
<1> QED BY <1>1, <1>2

(***************************************************************************)
(* A row x is what the checks of one endpoint e have answered a server.    *)
(* When is a check asked? When those before it have answered so that the   *)
(* server comes to it (Open), all but the one that is pending, p.          *)
(***************************************************************************)
Open(who, c, x, e) ==
  /\ c = "url" => x.method = "yes"
  /\ c = "headers" => x.url \in {"valid", "invalid"}
  /\ c = "added" => x.headers \in {"valid", "invalid"} /\ (e.auth => request.credentials)
  /\ c = "first" => x.url = "valid" /\ x.headers = "valid" /\ x.added = "valid"
  /\ c = "second" => x.first \in Raises /\ (who = "pekko" => x.first # "mapThrows")
  /\ c = "transform" => x.first = "valid" \/ x.second = "valid"
  /\ c = "command" => x.transform = "valid" /\ e.kind = "mux"
  /\ c = "run" => /\ x.transform = "valid" /\ (e.kind = "mux" => x.command = "valid")
                  /\ who = "pekko" /\ e.kind = "sync" => request.encoding
  /\ c = "responseHeaders" => /\ x.run = "value"
                              /\ who = "pekko" /\ e.kind = "async" => request.encoding
  /\ c = "accept" => who = "pekko" /\ x.responseHeaders = "ok"
  /\ c = "responseEntity" => IF who = "pekko" THEN x.accept = "yes"
                                              ELSE x.responseHeaders = "ok"

\* The check that is asked next at a stage that asks none.
Pending(stage, e) ==
  CASE stage = "credentials" -> "added"
    [] stage = "validated"   -> "first"
    [] stage = "encoding"    -> IF e.kind = "sync" THEN "run" ELSE "responseHeaders"
    [] OTHER -> stage

\* A check has answered exactly if the server came to it and it is not the pending one.
Row(who, x, e, p) == \A c \in Checks : x[c] # Unasked <=> Open(who, c, x, e) /\ c # p

\* What the stage says of the answers so far.
Reached(who, stage, x, e) ==
  /\ stage \in Checks => Open(who, stage, x, e)
  /\ stage = "credentials" => e.auth /\ x.headers \in {"valid", "invalid"}
  /\ stage = "validated" => x.added \in {"valid", "invalid"}
  /\ stage = "encoding" =>
       /\ who = "pekko"
       /\ \/ e.kind = "sync" /\ x.transform = "valid"
          \/ e.kind = "async" /\ x.run = "value"

\* The server leaves the endpoint for the next one.
Left(who, x, e) ==
  \/ x.method = "no" \/ x.url = "none"
  \/ /\ who = "pekko"
     /\ \/ x.second \in {"mediaType", "decoderThrows"}
        \/ e.kind = "sync" /\ x.transform = "valid" /\ ~request.encoding
        \/ e.kind = "async" /\ x.run = "value" /\ ~request.encoding
        \/ x.accept = "no"

\* An exception that the server answers itself.
Threw(who, x, e) ==
  IF who = "pekko"
  THEN \/ \E c \in Checks \ {"run"} : x[c] \in {"throws", "mapThrows"}
       \/ x.run = "throws"
       \/ x.run = "fails" /\ e.kind # "mux"
  ELSE \/ \E c \in {"url", "headers", "added", "command", "responseHeaders", "responseEntity"} :
            x[c] = "throws"
       \/ x.run \in {"throws", "fails"}

\* What is invalid in the request, and what else is reported as an error of the client.
Invalid(x) == {c \in Validations : x[c] = "invalid"}
Errors(who, x, e) ==
  Invalid(x) \cup (IF who = "pekko" /\ e.kind = "mux" /\ x.run = "fails" THEN {"run"} ELSE {})

\* The answer of the endpoint, once nothing more is asked of it.
Status(who, x, e) ==
  IF Threw(who, x, e) THEN "serverError"
  ELSE IF x.headers \in {"valid", "invalid"} /\ e.auth /\ ~request.credentials THEN "unauthorized"
  ELSE IF Errors(who, x, e) # {} THEN "clientErrors"
  ELSE IF x.responseEntity = "ok" THEN "value" ELSE "backend"

\* Every check gives one of its verdicts, or none.
TypedRow(x) ==
  /\ x \in [Checks -> AnyVerdict \cup {Unasked}]
  /\ \A c \in Checks : x[c] \in Verdicts[c] \cup {Unasked}

\* The verdicts, check by check.
LEMMA RowIs ==
  ASSUME NEW x, TypedRow(x)
  PROVE  /\ x.method \in {"yes", "no", "unasked"}
         /\ x.url \in {"valid", "invalid", "throws", "none", "unasked"}
         /\ x.headers \in {"valid", "invalid", "throws", "unasked"}
         /\ x.added \in {"valid", "invalid", "throws", "unasked"}
         /\ x.first \in {"valid", "invalid", "mediaType", "decoderThrows", "mapThrows", "unasked"}
         /\ x.second \in {"valid", "invalid", "mediaType", "decoderThrows", "mapThrows", "unasked"}
         /\ x.transform \in {"valid", "invalid", "throws", "unasked"}
         /\ x.command \in {"valid", "invalid", "throws", "unasked"}
         /\ x.run \in {"value", "throws", "fails", "unasked"}
         /\ x.responseHeaders \in {"ok", "throws", "unasked"}
         /\ x.accept \in {"yes", "no", "unasked"}
         /\ x.responseEntity \in {"ok", "throws", "unasked"}
  BY ChecksAre DEF TypedRow, Verdicts, Validity, Raises, Unasked

\* When each check is asked, check by check.
LEMMA RowReads ==
  ASSUME NEW who, NEW x, NEW e, NEW p
  PROVE  Row(who, x, e, p) <=>
    /\ x.method # Unasked <=> "method" # p
    /\ x.url # Unasked <=> x.method = "yes" /\ "url" # p
    /\ x.headers # Unasked <=> x.url \in {"valid", "invalid"} /\ "headers" # p
    /\ x.added # Unasked <=> /\ x.headers \in {"valid", "invalid"}
                             /\ (e.auth => request.credentials) /\ "added" # p
    /\ x.first # Unasked <=> /\ x.url = "valid" /\ x.headers = "valid" /\ x.added = "valid"
                             /\ "first" # p
    /\ x.second # Unasked <=> /\ x.first \in Raises /\ (who = "pekko" => x.first # "mapThrows")
                              /\ "second" # p
    /\ x.transform # Unasked <=> (x.first = "valid" \/ x.second = "valid") /\ "transform" # p
    /\ x.command # Unasked <=> x.transform = "valid" /\ e.kind = "mux" /\ "command" # p
    /\ x.run # Unasked <=> /\ x.transform = "valid" /\ (e.kind = "mux" => x.command = "valid")
                           /\ (who = "pekko" /\ e.kind = "sync" => request.encoding)
                           /\ "run" # p
    /\ x.responseHeaders # Unasked <=>
         /\ x.run = "value" /\ (who = "pekko" /\ e.kind = "async" => request.encoding)
         /\ "responseHeaders" # p
    /\ x.accept # Unasked <=> who = "pekko" /\ x.responseHeaders = "ok" /\ "accept" # p
    /\ x.responseEntity # Unasked <=>
         /\ IF who = "pekko" THEN x.accept = "yes" ELSE x.responseHeaders = "ok"
         /\ "responseEntity" # p
  BY ChecksAre DEF Row, Open

\* The check that comes after the verdict v of c, if any does.
After(who, c, v, e) ==
  CASE c = "method" /\ v = "yes" -> "url"
    [] c = "url" /\ v \in {"valid", "invalid"} -> "headers"
    [] c = "headers" /\ v \in {"valid", "invalid"} -> "added"
    [] c = "added" /\ v \in {"valid", "invalid"} -> "first"
    [] c \in {"first", "second"} /\ v = "valid" -> "transform"
    [] c = "first" /\ v \in Raises /\ (who = "pekko" => v # "mapThrows") -> "second"
    [] c = "transform" /\ v = "valid" -> IF e.kind = "mux" THEN "command" ELSE "run"
    [] c = "command" /\ v = "valid" -> "run"
    [] c = "run" /\ v = "value" -> "responseHeaders"
    [] c = "responseHeaders" /\ v = "ok" -> IF who = "pekko" THEN "accept" ELSE "responseEntity"
    [] c = "accept" /\ v = "yes" -> "responseEntity"
    [] OTHER -> "done"

\* A row stays one when the pending check answers.
LEMMA RowAfter ==
  ASSUME NEW who, NEW x, NEW y, NEW e, NEW c \in Checks,
         TypedRow(x), TypedRow(y), Row(who, x, e, c), Open(who, c, x, e),
         \A d \in Checks \ {c} : y[d] = x[d], y[c] # Unasked,
         e.kind \in {"sync", "async", "mux"}
  PROVE  Row(who, y, e, After(who, c, y[c], e))
<1>1. CASE c \in {"method", "url", "headers", "added"}
  BY <1>1, RowIs, RowReads, ChecksAre DEF After, Unasked, Raises, Open
<1>2. CASE c \in {"first", "second", "transform", "command"}
  BY <1>2, RowIs, RowReads, ChecksAre DEF After, Unasked, Raises, Open
<1>3. CASE c \in {"run", "responseHeaders", "accept", "responseEntity"}
  BY <1>3, RowIs, RowReads, ChecksAre DEF After, Unasked, Raises, Open
<1> QED
  BY <1>1, <1>2, <1>3, ChecksAre

\* The endpoint's own answer.
Answers(who, x, e, status, errors) ==
  /\ ~Left(who, x, e)
  /\ Status(who, x, e) = status
  /\ errors = IF status = "clientErrors" THEN Errors(who, x, e) ELSE {}

\* What a row says when nothing more is asked of its endpoint.
LEMMA RowThrew ==
  ASSUME NEW who, NEW y, NEW e, TypedRow(y), Row(who, y, e, "done"),
         e.kind \in {"sync", "async", "mux"},
         \/ \E c \in {"url", "headers", "added", "command", "run", "responseHeaders",
                      "responseEntity"} : y[c] = "throws"
         \/ who = "pekko" /\ "mapThrows" \in {y.first, y.second}
         \/ who = "pekko" /\ y.transform = "throws"
         \/ y.run = "fails" /\ (who = "pekko" => e.kind # "mux")
  PROVE  Answers(who, y, e, "serverError", {})
<1>1. ~Left(who, y, e)
  BY RowIs, RowReads DEF Unasked, Raises, Left
<1>2. Threw(who, y, e)
  BY RowIs, RowReads, ChecksAre DEF Unasked, Raises, Threw
<1> QED BY <1>1, <1>2 DEF Answers, Status

\* And when no exception is to be answered.
LEMMA RowNotThrew ==
  ASSUME NEW who, NEW y, NEW e, TypedRow(y), Row(who, y, e, "done"),
         e.kind \in {"sync", "async", "mux"}
  PROVE
    /\ y.headers \in {"valid", "invalid"} /\ e.auth /\ ~request.credentials
         => Answers(who, y, e, "unauthorized", {})
    /\ y.added \in {"valid", "invalid"} /\ Invalid(y) # {} /\ y.first = Unasked
         => Answers(who, y, e, "clientErrors", Invalid(y))
    /\ \A c \in {"first", "second", "transform", "command"} :
         y[c] = "invalid" => Answers(who, y, e, "clientErrors", {c})
    /\ who = "pekko" /\ e.kind = "mux" /\ y.run = "fails"
         => Answers(who, y, e, "clientErrors", {"run"})
    /\ who # "pekko" /\ (y.transform = "throws" \/ y.second \in Raises)
         => Answers(who, y, e, "backend", {})
    /\ y.responseEntity = "ok" => Answers(who, y, e, "value", {})
<1> USE RowIs, RowReads, ChecksAre
    DEF Unasked, Raises, Left, Status, Threw, Errors, Invalid, Validations, Answers
<1>1. y.headers \in {"valid", "invalid"} /\ e.auth /\ ~request.credentials
        => Answers(who, y, e, "unauthorized", {})
  OBVIOUS
<1>2. y.added \in {"valid", "invalid"} /\ Invalid(y) # {} /\ y.first = Unasked
        => Answers(who, y, e, "clientErrors", Invalid(y))
  OBVIOUS
<1>3. ASSUME NEW c \in {"first", "second", "transform", "command"}, y[c] = "invalid"
      PROVE  Answers(who, y, e, "clientErrors", {c})
  BY <1>3
<1>4. who = "pekko" /\ e.kind = "mux" /\ y.run = "fails"
        => Answers(who, y, e, "clientErrors", {"run"})
  OBVIOUS
<1>5. who # "pekko" /\ (y.transform = "throws" \/ y.second \in Raises)
         => Answers(who, y, e, "backend", {})
  OBVIOUS
<1>6. y.responseEntity = "ok" => Answers(who, y, e, "value", {})
  OBVIOUS
<1> QED BY <1>1, <1>2, <1>3, <1>4, <1>5, <1>6

(***************************************************************************)
(* The story of a server: o is what the checks have answered it, t where   *)
(* it is. The endpoints before t.at have been left, those after it have    *)
(* not been asked anything, and t.at is at t.stage, or has been answered.  *)
(***************************************************************************)
Typed(o, t) ==
  /\ o \in [1 .. Len(routes) -> [Checks -> AnyVerdict \cup {Unasked}]]
  /\ \A r \in 1 .. Len(routes) : TypedRow(o[r])
  /\ t \in [at : 1 .. Len(routes), stage : Stages, invalid : SUBSET Checks,
            ran : Seq(1 .. Len(routes)),
            answer : [status : Statuses, route : 0 .. Len(routes), errors : SUBSET Checks]]

RowsFit(who, o, t) ==
  \A r \in 1 .. Len(routes) :
    Row(who, o[r], routes[r], IF r < t.at THEN "done" ELSE IF r > t.at THEN "method"
                              ELSE Pending(t.stage, routes[r]))

\* The implementations run are those that answered, in the order of the endpoints.
RanFits(o, t) ==
  /\ \A i, j \in 1 .. Len(t.ran) : i < j => t.ran[i] < t.ran[j]
  /\ {t.ran[i] : i \in 1 .. Len(t.ran)} = {r \in 1 .. Len(routes) : o[r].run # Unasked}

BackendAnswer == [status |-> "backend", route |-> 0, errors |-> {}]

\* What the server knows of the endpoint at hand, or what it has answered.
AnswerFits(who, o, t) ==
  LET x == o[t.at]
      e == routes[t.at]
  IN IF t.stage # "done"
     THEN Reached(who, t.stage, x, e) /\ t.answer = NoAnswer /\ t.invalid = Invalid(x)
     ELSE IF Left(who, x, e) THEN t.at = Len(routes) /\ t.answer = BackendAnswer
     ELSE /\ t.answer.route = t.at
          /\ Answers(who, x, e, t.answer.status, t.answer.errors)

Story(who, o, t) ==
  /\ Typed(o, t)
  /\ RowsFit(who, o, t)
  /\ \A r \in 1 .. Len(routes) : r < t.at => Left(who, o[r], routes[r])
  /\ AnswerFits(who, o, t)
  /\ RanFits(o, t)

\* The endpoints, however many.
RoutesOK == routes \in Seq(EndpointType) /\ Len(routes) \in Nat

LEMMA RoutesAre ==
  ASSUME RoutesOK, NEW r \in 1 .. Len(routes)
  PROVE  routes[r].kind \in {"sync", "async", "mux"}
<1>1. routes[r] \in EndpointType
  BY DEF RoutesOK
<1> QED BY <1>1 DEF EndpointType

\* A step of the server at a route: only the answers of its checks change.
StepsTo(o, t, o2, y, ran) ==
  /\ t.stage # "done"
  /\ o2 \in [1 .. Len(routes) -> [Checks -> AnyVerdict \cup {Unasked}]]
  /\ \A r \in (1 .. Len(routes)) \ {t.at} : o2[r] = o[r]
  /\ o2[t.at] = y /\ TypedRow(y)
  /\ \/ ran = t.ran /\ (y.run # Unasked <=> o[t.at].run # Unasked)
     \/ ran = Append(t.ran, t.at) /\ y.run # Unasked /\ o[t.at].run = Unasked

\* The implementations run, after a step.
LEMMA RanGrows ==
  ASSUME RoutesOK, NEW who, NEW o, NEW t, Story(who, o, t), NEW o2, NEW y, NEW ran,
         StepsTo(o, t, o2, y, ran)
  PROVE  /\ ran \in Seq(1 .. Len(routes))
         /\ \A i, j \in 1 .. Len(ran) : i < j => ran[i] < ran[j]
         /\ {ran[i] : i \in 1 .. Len(ran)} = {r \in 1 .. Len(routes) : o2[r].run # Unasked}
<1>1. /\ t.at \in 1 .. Len(routes) /\ t.ran \in Seq(1 .. Len(routes)) /\ Len(routes) \in Nat
  BY DEF Story, Typed, RoutesOK
<1>2. CASE ran = t.ran /\ (y.run # Unasked <=> o[t.at].run # Unasked)
  <2>1. {r \in 1 .. Len(routes) : o2[r].run # Unasked}
          = {r \in 1 .. Len(routes) : o[r].run # Unasked}
    BY <1>1, <1>2 DEF StepsTo
  <2> QED BY <1>1, <1>2, <2>1 DEF Story, RanFits
<1>3. CASE ran = Append(t.ran, t.at) /\ y.run # Unasked /\ o[t.at].run = Unasked
  <2>1. ran \in Seq(1 .. Len(routes)) /\ Len(ran) = Len(t.ran) + 1 /\ Len(t.ran) \in Nat
        /\ ran[Len(ran)] = t.at /\ \A i \in 1 .. Len(t.ran) : ran[i] = t.ran[i]
    BY <1>1, <1>3
  <2>2. \A i \in 1 .. Len(t.ran) :
          t.ran[i] \in 1 .. Len(routes) /\ o[t.ran[i]].run # Unasked
    BY DEF Story, RanFits
  <2>3. \A r \in 1 .. Len(routes) : o[r].run # Unasked => r < t.at
    <3>1. ASSUME NEW r \in 1 .. Len(routes), r > t.at PROVE o[r].run = Unasked
      <4>1. Row(who, o[r], routes[r], "method") /\ TypedRow(o[r])
        BY <1>1, <3>1 DEF Story, RowsFit, Typed
      <4> QED BY <4>1, RowReads, RowIs DEF Raises, Unasked
    <3> QED BY <1>1, <1>3, <3>1
  <2>4. ASSUME NEW i \in 1 .. Len(ran), NEW j \in 1 .. Len(ran), i < j
        PROVE  ran[i] < ran[j]
    <3> HIDE <1>3
    <3>0. i \in 1 .. Len(t.ran)
      BY <2>1, <2>4
    <3>1. i \in 1 .. Len(t.ran) /\ ran[i] = t.ran[i] /\ t.ran[i] < t.at
      BY <2>1, <2>2, <2>3, <3>0
    <3>2. CASE j \in 1 .. Len(t.ran)
      BY <2>1, <3>1, <3>2, <2>4 DEF Story, RanFits
    <3>3. CASE j = Len(ran)
      BY <2>1, <3>1, <3>3
    <3> QED BY <2>1, <3>2, <3>3
  <2>5. {ran[i] : i \in 1 .. Len(ran)} = {t.ran[i] : i \in 1 .. Len(t.ran)} \cup {t.at}
    <3>1. 1 .. Len(ran) = (1 .. Len(t.ran)) \cup {Len(ran)}
      BY <2>1
    <3> HIDE <1>3
    <3> QED BY <2>1, <3>1
  <2>6. {r \in 1 .. Len(routes) : o2[r].run # Unasked}
          = {r \in 1 .. Len(routes) : o[r].run # Unasked} \cup {t.at}
    BY <1>1, <1>3 DEF StepsTo
  <2> QED BY <2>1, <2>4, <2>5, <2>6 DEF Story, RanFits
<1> QED BY <1>2, <1>3 DEF StepsTo

LEMMA RanStep ==
  ASSUME RoutesOK, NEW who, NEW o, NEW t, Story(who, o, t), NEW o2, NEW y, NEW ran,
         StepsTo(o, t, o2, y, ran), NEW t2, t2.ran = ran
  PROVE  ran \in Seq(1 .. Len(routes)) /\ RanFits(o2, t2)
  BY RanGrows DEF RanFits

\* The server goes on with the same route.
LEMMA GoesOn ==
  ASSUME RoutesOK, NEW who, NEW o, NEW t, Story(who, o, t), NEW o2, NEW y, NEW ran,
         StepsTo(o, t, o2, y, ran), NEW stage \in Stages \ {"done"},
         Row(who, y, routes[t.at], Pending(stage, routes[t.at])),
         Reached(who, stage, y, routes[t.at]),
         NEW t2, t2 = [at |-> t.at, stage |-> stage, invalid |-> Invalid(y), ran |-> ran,
                       answer |-> t.answer]
  PROVE  Story(who, o2, t2)
<1>1. Typed(o2, t2)
  <2>1. \A r \in 1 .. Len(routes) : TypedRow(o2[r])
    BY DEF Story, Typed, StepsTo
  <2>2. Invalid(y) \in SUBSET Checks
    BY ChecksAre DEF Invalid, Validations
  <2>3. ran \in Seq(1 .. Len(routes))
    <3>1. t2.ran = ran
      OBVIOUS
    <3> QED BY <3>1, RanStep
  <2> QED BY <2>1, <2>2, <2>3 DEF Story, Typed, StepsTo
<1>2. t.at \in 1 .. Len(routes) /\ Len(routes) \in Nat
  BY DEF Story, Typed, RoutesOK
<1>3. RowsFit(who, o2, t2)
  BY <1>2 DEF Story, RowsFit, StepsTo
<1>4. \A r \in 1 .. Len(routes) : r < t2.at => Left(who, o2[r], routes[r])
  BY <1>2 DEF Story, StepsTo
<1>5. AnswerFits(who, o2, t2)
  BY DEF Story, StepsTo, AnswerFits
<1>6. RanFits(o2, t2)
  <2>1. t2.ran = ran
    OBVIOUS
  <2> QED BY <2>1, RanStep
<1> QED BY <1>1, <1>3, <1>4, <1>5, <1>6 DEF Story

\* The request is answered.
LEMMA Concludes ==
  ASSUME RoutesOK, NEW who, NEW o, NEW t, Story(who, o, t), NEW o2, NEW y, NEW ran,
         StepsTo(o, t, o2, y, ran),
         Row(who, y, routes[t.at], "done"),
         NEW status, NEW errors, Answers(who, y, routes[t.at], status, errors),
         NEW t2, t2 = [at |-> t.at, stage |-> "done", invalid |-> t.invalid, ran |-> ran,
                       answer |-> [status |-> status, route |-> t.at, errors |-> errors]]
  PROVE  Story(who, o2, t2)
<1>2. t.at \in 1 .. Len(routes) /\ Len(routes) \in Nat
  BY DEF Story, Typed, RoutesOK
<1>1. Typed(o2, t2)
  <2>1. [status |-> status, route |-> t.at, errors |-> errors] \in
         [status : Statuses, route : 0 .. Len(routes), errors : SUBSET Checks]
    <3>1. status \in Statuses
      BY DEF Answers, Status, Statuses
    <3>2. errors \in SUBSET Checks
      BY ChecksAre DEF Answers, Errors, Invalid, Validations
    <3> QED BY <1>2, <3>1, <3>2
  <2>2. \A r \in 1 .. Len(routes) : TypedRow(o2[r])
    BY DEF Story, Typed, StepsTo
  <2>3. ran \in Seq(1 .. Len(routes))
    <3>1. t2.ran = ran
      OBVIOUS
    <3> QED BY <3>1, RanStep
  <2> QED BY <2>1, <2>2, <2>3 DEF Story, Typed, StepsTo, Stages
<1>3. RowsFit(who, o2, t2)
  <2>1. Pending("done", routes[t.at]) = "done"
    BY DEF Pending
  <2> QED BY <1>2, <2>1 DEF Story, RowsFit, StepsTo
<1>4. \A r \in 1 .. Len(routes) : r < t2.at => Left(who, o2[r], routes[r])
  BY <1>2 DEF Story, StepsTo
<1>5. AnswerFits(who, o2, t2)
  <2>1. /\ t2.at = t.at /\ t2.stage = "done" /\ t2.answer.route = t.at
        /\ t2.answer.status = status /\ t2.answer.errors = errors /\ o2[t2.at] = y
    BY DEF StepsTo
  <2>2. ~Left(who, y, routes[t.at])
    BY DEF Answers
  <2> QED BY <2>1, <2>2 DEF AnswerFits
<1>6. RanFits(o2, t2)
  <2>1. t2.ran = ran
    OBVIOUS
  <2> QED BY <2>1, RanStep
<1> QED BY <1>1, <1>3, <1>4, <1>5, <1>6 DEF Story

\* The server leaves the route: it goes on with the next one, if there is one.
LEMMA LeavesRoute ==
  ASSUME RoutesOK, NEW who, NEW o, NEW t, Story(who, o, t), NEW o2, NEW y,
         StepsTo(o, t, o2, y, t.ran),
         Row(who, y, routes[t.at], "done"), Left(who, y, routes[t.at]),
         NEW t2,
         \/ /\ t.at < Len(routes)
            /\ t2 = [at |-> t.at + 1, stage |-> "method", invalid |-> {}, ran |-> t.ran,
                     answer |-> t.answer]
         \/ /\ ~(t.at < Len(routes))
            /\ t2 = [at |-> t.at, stage |-> "done", invalid |-> t.invalid, ran |-> t.ran,
                     answer |-> BackendAnswer]
  PROVE  Story(who, o2, t2)
<1>2. t.at \in 1 .. Len(routes) /\ Len(routes) \in Nat
  BY DEF Story, Typed, RoutesOK
<1>6. RanFits(o2, t2)
  <2>1. t2.ran = t.ran
    OBVIOUS
  <2> QED BY <2>1, RanStep
<1>7. Typed(o2, t2)
  <2>1. \A r \in 1 .. Len(routes) : TypedRow(o2[r])
    BY DEF Story, Typed, StepsTo
  <2>2. CASE t.at < Len(routes)
    BY <1>2, <2>1, <2>2, ChecksAre DEF Story, Typed, StepsTo, Stages
  <2>3. CASE ~(t.at < Len(routes))
    <3>1. BackendAnswer \in [status : Statuses, route : 0 .. Len(routes), errors : SUBSET Checks]
      BY <1>2 DEF BackendAnswer, Statuses
    <3> QED BY <2>1, <2>3, <3>1 DEF Story, Typed, StepsTo, Stages
  <2> QED BY <2>2, <2>3
<1>8. Pending("done", routes[t.at]) = "done" /\ \A e : Pending("method", e) = "method"
    BY DEF Pending
<1>3. RowsFit(who, o2, t2)
  BY <1>2, <1>8 DEF Story, RowsFit, StepsTo
<1>4. \A r \in 1 .. Len(routes) : r < t2.at => Left(who, o2[r], routes[r])
  BY <1>2 DEF Story, StepsTo
<1>5. AnswerFits(who, o2, t2)
  <2>1. CASE t.at < Len(routes)
    <3>1. Row(who, o[t.at + 1], routes[t.at + 1], "method") /\ TypedRow(o[t.at + 1])
          /\ o2[t.at + 1] = o[t.at + 1]
      BY <1>2, <2>1 DEF Story, RowsFit, Typed, StepsTo
    <3>2. Invalid(o2[t.at + 1]) = {}
      BY <3>1, RowReads, RowIs DEF Raises, Unasked, Invalid, Validations
    <3>3. Reached(who, "method", o2[t.at + 1], routes[t.at + 1])
      BY DEF Reached, Open
    <3>4. t2.at = t.at + 1 /\ t2.stage = "method" /\ t2.invalid = {} /\ t2.answer = t.answer
      BY <2>1
    <3> QED BY <3>2, <3>3, <3>4 DEF Story, StepsTo, AnswerFits
  <2>2. CASE ~(t.at < Len(routes))
    BY <1>2, <2>2 DEF AnswerFits, StepsTo
  <2> QED BY <2>1, <2>2
<1> QED BY <1>7, <1>3, <1>4, <1>5, <1>6 DEF Story

\* The check c is asked and says v.
Asked(c, v) ==
  /\ s.stage = c /\ v \in Verdicts[c]
  /\ oracle' = [oracle EXCEPT ![s.at][c] = v]
  /\ UNCHANGED <<routes, request>>

\* The row before and after a check is asked.
LEMMA AskedRow ==
  ASSUME RoutesOK, NEW who, Story(who, oracle, s), NEW c \in Checks, NEW v, Asked(c, v),
         NEW x, x = oracle[s.at], NEW y, y = oracle'[s.at], NEW e, e = routes[s.at]
  PROVE  /\ TypedRow(x) /\ TypedRow(y) /\ e.kind \in {"sync", "async", "mux"}
         /\ Row(who, x, e, c) /\ Open(who, c, x, e)
         /\ x[c] = Unasked /\ y[c] = v /\ \A d \in Checks \ {c} : y[d] = x[d]
         /\ Row(who, y, e, After(who, c, v, e))
         /\ StepsTo(oracle, s, oracle', y, IF c = "run" THEN Append(s.ran, s.at) ELSE s.ran)
         /\ s.invalid = Invalid(x) /\ s.answer = NoAnswer /\ s.stage # "done"
<1>1. /\ s.at \in 1 .. Len(routes) /\ Typed(oracle, s) /\ Len(routes) \in Nat
      /\ c \notin {"credentials", "validated", "encoding", "done"} /\ s.stage = c
  BY ChecksAre DEF Story, Typed, Asked, RoutesOK
<1>2. TypedRow(x) /\ e.kind \in {"sync", "async", "mux"}
  BY <1>1, RoutesAre DEF Typed
<1>3. Row(who, x, e, c)
  <2>1. Pending(s.stage, e) = c
    BY <1>1 DEF Pending
  <2> QED BY <1>1, <2>1 DEF Story, RowsFit
<1>4. Open(who, c, x, e) /\ s.invalid = Invalid(x) /\ s.answer = NoAnswer
  BY <1>1 DEF Story, AnswerFits, Reached
<1>5. x[c] = Unasked
  BY <1>3, <1>4 DEF Row
<1>6. v \in AnyVerdict /\ v # Unasked
  BY VerdictsAre DEF Asked
<1>7. oracle' \in [1 .. Len(routes) -> [Checks -> AnyVerdict \cup {Unasked}]]
      /\ y = [x EXCEPT ![c] = v]
      /\ \A r \in (1 .. Len(routes)) \ {s.at} : oracle'[r] = oracle[r]
  BY <1>1, <1>6 DEF Typed, Asked
<1>8. y[c] = v /\ \A d \in Checks \ {c} : y[d] = x[d]
  BY <1>2, <1>7 DEF TypedRow
<1>9. TypedRow(y)
  BY <1>1, <1>2, <1>7, <1>8 DEF TypedRow, Asked
<1>10. Row(who, y, e, After(who, c, v, e))
  BY <1>2, <1>3, <1>4, <1>6, <1>8, <1>9, RowAfter
<1>11. StepsTo(oracle, s, oracle', y, IF c = "run" THEN Append(s.ran, s.at) ELSE s.ran)
  BY <1>1, <1>5, <1>6, <1>7, <1>8, <1>9, ChecksAre DEF StepsTo
<1> QED BY <1>1, <1>2, <1>3, <1>4, <1>5, <1>8, <1>9, <1>10, <1>11

\* The next route, for both servers.
TryNext ==
  IF s.at < Len(routes)
  THEN [s EXCEPT !.at = @ + 1, !.stage = "method", !.invalid = {}]
  ELSE Unmatched

\* What can become of the server, field by field.
LEMMA StatesAre ==
  ASSUME NEW who, Story(who, oracle, s), NEW stage, NEW status, NEW errors, NEW u
  PROVE  /\ u = To(stage) =>
              u = [at |-> s.at, stage |-> stage, invalid |-> s.invalid, ran |-> s.ran,
                   answer |-> s.answer]
         /\ u = Invalidated(stage) =>
              u = [at |-> s.at, stage |-> stage, invalid |-> s.invalid \cup {s.stage},
                   ran |-> s.ran, answer |-> s.answer]
         /\ u = Ran(To(stage)) =>
              u = [at |-> s.at, stage |-> stage, invalid |-> s.invalid,
                   ran |-> Append(s.ran, s.at), answer |-> s.answer]
         /\ u = Answer(status, errors) =>
              u = [at |-> s.at, stage |-> "done", invalid |-> s.invalid, ran |-> s.ran,
                   answer |-> [status |-> status, route |-> s.at, errors |-> errors]]
         /\ u = Ran(Answer(status, errors)) =>
              u = [at |-> s.at, stage |-> "done", invalid |-> s.invalid,
                   ran |-> Append(s.ran, s.at),
                   answer |-> [status |-> status, route |-> s.at, errors |-> errors]]
         /\ u = TryNext =>
              \/ /\ s.at < Len(routes)
                 /\ u = [at |-> s.at + 1, stage |-> "method", invalid |-> {}, ran |-> s.ran,
                         answer |-> s.answer]
              \/ /\ ~(s.at < Len(routes))
                 /\ u = [at |-> s.at, stage |-> "done", invalid |-> s.invalid,
                         ran |-> s.ran, answer |-> BackendAnswer]
<1>1. s = [at |-> s.at, stage |-> s.stage, invalid |-> s.invalid, ran |-> s.ran,
           answer |-> s.answer]
  BY DEF Story, Typed
<1>2. ASSUME u = To(stage)
      PROVE  u = [at |-> s.at, stage |-> stage, invalid |-> s.invalid, ran |-> s.ran,
                  answer |-> s.answer]
  BY <1>1, <1>2 DEF To
<1>3. ASSUME u = Invalidated(stage)
      PROVE  u = [at |-> s.at, stage |-> stage, invalid |-> s.invalid \cup {s.stage},
                  ran |-> s.ran, answer |-> s.answer]
  BY <1>1, <1>3 DEF Invalidated
<1>4. ASSUME u = Ran(To(stage))
      PROVE  u = [at |-> s.at, stage |-> stage, invalid |-> s.invalid,
                  ran |-> Append(s.ran, s.at), answer |-> s.answer]
  BY <1>1, <1>4 DEF To, Ran
<1>5. ASSUME u = Answer(status, errors)
      PROVE  u = [at |-> s.at, stage |-> "done", invalid |-> s.invalid, ran |-> s.ran,
                  answer |-> [status |-> status, route |-> s.at, errors |-> errors]]
  BY <1>1, <1>5 DEF Answer
<1>6. ASSUME u = Ran(Answer(status, errors))
      PROVE  u = [at |-> s.at, stage |-> "done", invalid |-> s.invalid,
                  ran |-> Append(s.ran, s.at),
                  answer |-> [status |-> status, route |-> s.at, errors |-> errors]]
  BY <1>1, <1>6 DEF Answer, Ran
<1>7. ASSUME u = TryNext
      PROVE  \/ /\ s.at < Len(routes)
                /\ u = [at |-> s.at + 1, stage |-> "method", invalid |-> {}, ran |-> s.ran,
                        answer |-> s.answer]
             \/ /\ ~(s.at < Len(routes))
                /\ u = [at |-> s.at, stage |-> "done", invalid |-> s.invalid,
                        ran |-> s.ran, answer |-> BackendAnswer]
  <2>1. CASE s.at < Len(routes)
    BY <1>1, <1>7, <2>1 DEF TryNext
  <2>2. CASE ~(s.at < Len(routes))
    <3>1. [NoAnswer EXCEPT !.status = "backend"] = BackendAnswer
      BY DEF NoAnswer, BackendAnswer
    <3> QED BY <1>1, <1>7, <2>2, <3>1 DEF TryNext, Unmatched
  <2> QED BY <2>1, <2>2
<1> QED BY <1>2, <1>3, <1>4, <1>5, <1>6, <1>7

\* A check that asks for more.
LEMMA AskOn ==
  ASSUME RoutesOK, NEW who, Story(who, oracle, s), NEW c \in Checks, NEW v, Asked(c, v),
         NEW y, y = oracle'[s.at], NEW e, e = routes[s.at],
         NEW stage \in Stages \ {"done"},
         Pending(stage, e) = After(who, c, v, e), Reached(who, stage, y, e),
         \/ s' = To(stage) /\ c # "run" /\ v # "invalid"
         \/ s' = Invalidated(stage) /\ v = "invalid" /\ c \in Validations
         \/ s' = Ran(To(stage)) /\ c = "run"
  PROVE  Story(who, oracle', s')
<1> DEFINE ran == IF c = "run" THEN Append(s.ran, s.at) ELSE s.ran
<1>1. PICK x : x = oracle[s.at]
  OBVIOUS
<1>2. /\ TypedRow(x) /\ TypedRow(y)
      /\ x[c] = Unasked /\ y[c] = v /\ (\A d \in Checks \ {c} : y[d] = x[d])
      /\ Row(who, y, e, After(who, c, v, e))
      /\ StepsTo(oracle, s, oracle', y, ran) /\ s.invalid = Invalid(x) /\ s.answer = NoAnswer
  BY <1>1, AskedRow
<1>3. Invalid(y) = IF v = "invalid" /\ c \in Validations THEN s.invalid \cup {c} ELSE s.invalid
  BY <1>2, ChecksAre DEF Invalid, Validations, Unasked
<1>4. (v = "invalid" => c # "run") /\ s.stage = c
  BY DEF Asked, Verdicts
<1>5. s' = [at |-> s.at, stage |-> stage, invalid |-> Invalid(y), ran |-> ran,
            answer |-> s.answer]
  <2>1. CASE s' = To(stage) /\ c # "run" /\ v # "invalid"
    <3>1. s' = [at |-> s.at, stage |-> stage, invalid |-> s.invalid, ran |-> s.ran,
                answer |-> s.answer]
      BY <2>1, StatesAre
    <3>2. Invalid(y) = s.invalid /\ ran = s.ran
      BY <1>3, <2>1
    <3> QED BY <3>1, <3>2
  <2>2. CASE s' = Invalidated(stage) /\ v = "invalid" /\ c \in Validations
    <3>1. s' = [at |-> s.at, stage |-> stage, invalid |-> s.invalid \cup {s.stage},
                ran |-> s.ran, answer |-> s.answer]
      BY <2>2, StatesAre
    <3>2. Invalid(y) = s.invalid \cup {s.stage} /\ ran = s.ran
      BY <1>3, <1>4, <2>2
    <3> QED BY <3>1, <3>2
  <2>3. CASE s' = Ran(To(stage)) /\ c = "run"
    <3>1. s' = [at |-> s.at, stage |-> stage, invalid |-> s.invalid,
                ran |-> Append(s.ran, s.at), answer |-> s.answer]
      BY <2>3, StatesAre
    <3> QED BY <1>3, <1>4, <2>3, <3>1
  <2> QED BY <2>1, <2>2, <2>3
<1> QED BY <1>2, <1>5, GoesOn

\* A check that concludes.
LEMMA AskAnswer ==
  ASSUME RoutesOK, NEW who, Story(who, oracle, s), NEW c \in Checks, NEW v, Asked(c, v),
         After(who, c, v, routes[s.at]) = "done", NEW status, NEW errors,
         Answers(who, oracle'[s.at], routes[s.at], status, errors),
         s' = IF c = "run" THEN Ran(Answer(status, errors)) ELSE Answer(status, errors)
  PROVE  Story(who, oracle', s')
<1> DEFINE ran == IF c = "run" THEN Append(s.ran, s.at) ELSE s.ran
<1>1. /\ Row(who, oracle'[s.at], routes[s.at], "done")
      /\ StepsTo(oracle, s, oracle', oracle'[s.at], ran)
  BY AskedRow
<1>2. s' = [at |-> s.at, stage |-> "done", invalid |-> s.invalid, ran |-> ran,
            answer |-> [status |-> status, route |-> s.at, errors |-> errors]]
  BY StatesAre
<1> QED BY <1>1, <1>2, Concludes

\* A check after which the route is left.
LEMMA AskLeave ==
  ASSUME RoutesOK, NEW who, Story(who, oracle, s), NEW c \in Checks, NEW v, Asked(c, v),
         After(who, c, v, routes[s.at]) = "done", c # "run",
         Left(who, oracle'[s.at], routes[s.at]),
         s' = TryNext
  PROVE  Story(who, oracle', s')
<1>1. /\ Row(who, oracle'[s.at], routes[s.at], "done")
      /\ StepsTo(oracle, s, oracle', oracle'[s.at], s.ran)
  BY AskedRow
<1> QED BY <1>1, StatesAre, LeavesRoute

\* The server asks a check, and gets a verdict.
LEMMA AskIsAsked ==
  ASSUME NEW c \in Checks, NEW outcomes, Ask(c, outcomes), DOMAIN outcomes \subseteq Verdicts[c]
  PROVE  \E v \in DOMAIN outcomes : Asked(c, v) /\ s' = outcomes[v]
  BY DEF Ask, Asked

\* A check after which nothing more is asked.
LEMMA DoneRow ==
  ASSUME RoutesOK, NEW who, Story(who, oracle, s), NEW c \in Checks, NEW v, Asked(c, v),
         After(who, c, v, routes[s.at]) = "done"
  PROVE  /\ TypedRow(oracle'[s.at]) /\ routes[s.at].kind \in {"sync", "async", "mux"}
         /\ Row(who, oracle'[s.at], routes[s.at], "done")
         /\ oracle'[s.at][c] = v
  BY AskedRow

\* The method.
LEMMA MethodStory ==
  ASSUME RoutesOK, NEW who, Story(who, oracle, s),
         Ask("method", [yes |-> To("url"), no |-> TryNext])
  PROVE  Story(who, oracle', s')
<1> DEFINE y == oracle'[s.at]
           e == routes[s.at]
<1>1. PICK v \in {"yes", "no"} : Asked("method", v) /\ s' = [yes |-> To("url"), no |-> TryNext][v]
  BY AskIsAsked, ChecksAre DEF Verdicts
<1>2. "method" \in Checks /\ y.method = v
  BY <1>1, AskedRow, ChecksAre
<1>3. CASE v = "yes"
  <2>1. Pending("url", e) = After(who, "method", v, e) /\ Reached(who, "url", y, e)
    BY <1>2, <1>3 DEF Pending, After, Reached, Open
  <2>2. "url" \in Stages \ {"done"}
    BY ChecksAre DEF Stages
  <2>3. s' = To("url")
    BY <1>1, <1>3
  <2> QED BY <1>1, <1>2, <1>3, <2>1, <2>2, <2>3, AskOn
<1>4. CASE v = "no"
  <2>1. After(who, "method", v, e) = "done" /\ Left(who, y, e)
    BY <1>2, <1>4 DEF After, Left
  <2>2. s' = TryNext
    BY <1>1, <1>4
  <2> QED BY <1>1, <1>2, <1>4, <2>1, <2>2, AskLeave
<1> QED BY <1>3, <1>4

\* A check that throws.
LEMMA ThrowsStory ==
  ASSUME RoutesOK, NEW who, Story(who, oracle, s), NEW c \in Checks,
         NEW v, Asked(c, v), v = "throws",
         c \notin {"method", "first", "second", "accept"}, c = "transform" => who = "pekko",
         \/ c # "run" /\ s' = ServerError
         \/ c = "run" /\ s' = Ran(ServerError)
  PROVE  Story(who, oracle', s')
<1>1. /\ TypedRow(oracle'[s.at]) /\ routes[s.at].kind \in {"sync", "async", "mux"}
      /\ oracle'[s.at][c] = "throws"
      /\ Row(who, oracle'[s.at], routes[s.at], After(who, c, v, routes[s.at]))
  BY AskedRow
<1>2. After(who, c, v, routes[s.at]) = "done"
  BY DEF After, Raises
<1>3. Answers(who, oracle'[s.at], routes[s.at], "serverError", {})
  BY <1>1, <1>2, RowThrew, ChecksAre
<1> QED BY <1>2, <1>3, AskAnswer DEF ServerError

\* A part of the request is valid, or noted as invalid.
LEMMA NotesStory ==
  ASSUME RoutesOK, NEW who, Story(who, oracle, s), NEW c \in {"url", "headers", "added"},
         NEW v, Asked(c, v), NEW stage \in {"headers", "credentials", "added", "validated"},
         \/ v = "valid" /\ s' = To(stage)
         \/ v = "invalid" /\ s' = Invalidated(stage),
         Pending(stage, routes[s.at]) = After(who, c, v, routes[s.at]),
         Reached(who, stage, oracle'[s.at], routes[s.at])
  PROVE  Story(who, oracle', s')
<1>1. c \in Checks /\ c \in Validations /\ c # "run" /\ stage \in Stages \ {"done"}
  BY ChecksAre DEF Stages, Validations
<1>2. CASE v = "valid" /\ s' = To(stage)
  BY <1>1, <1>2, AskOn
<1>3. CASE v = "invalid" /\ s' = Invalidated(stage)
  BY <1>1, <1>3, AskOn
<1> QED BY <1>2, <1>3

\* The URL.
LEMMA UrlStory ==
  ASSUME RoutesOK, NEW who, Story(who, oracle, s),
         Ask("url", [none |-> TryNext, valid |-> To("headers"),
                     invalid |-> Invalidated("headers"), throws |-> ServerError])
  PROVE  Story(who, oracle', s')
<1> DEFINE y == oracle'[s.at]
           e == routes[s.at]
<1>1. PICK v \in {"none", "valid", "invalid", "throws"} :
        /\ Asked("url", v)
        /\ s' = [none |-> TryNext, valid |-> To("headers"),
                 invalid |-> Invalidated("headers"), throws |-> ServerError][v]
  BY AskIsAsked, ChecksAre DEF Verdicts, Validity
<1>2. "url" \in Checks /\ y.url = v
  BY <1>1, AskedRow, ChecksAre
<1>3. CASE v \in {"valid", "invalid"}
  <2>1. Pending("headers", e) = After(who, "url", v, e) /\ Reached(who, "headers", y, e)
    BY <1>2, <1>3 DEF Pending, After, Reached, Open
  <2> QED BY <1>1, <1>3, <2>1, NotesStory
<1>4. CASE v = "none"
  <2>1. After(who, "url", v, e) = "done" /\ Left(who, y, e)
    BY <1>2, <1>4 DEF After, Left
  <2>2. s' = TryNext
    BY <1>1, <1>4
  <2> QED BY <1>1, <1>2, <2>1, <2>2, AskLeave
<1>5. CASE v = "throws"
  <2>1. s' = ServerError
    BY <1>1, <1>5
  <2> QED BY <1>1, <1>2, <1>5, <2>1, ThrowsStory
<1> QED BY <1>3, <1>4, <1>5

\* The headers, and what is added to the request.
LEMMA PartStory ==
  ASSUME RoutesOK, NEW who, Story(who, oracle, s), NEW c \in {"headers", "added"}, NEW stage,
         stage = IF c = "added" THEN "validated"
                 ELSE IF Endpoint.auth THEN "credentials" ELSE "added",
         Ask(c, [valid |-> To(stage), invalid |-> Invalidated(stage), throws |-> ServerError])
  PROVE  Story(who, oracle', s')
<1> DEFINE y == oracle'[s.at]
           e == routes[s.at]
<1>1. c \in Checks /\ c # "run"
  BY ChecksAre
<1>2. PICK v \in {"valid", "invalid", "throws"} :
        /\ Asked(c, v)
        /\ s' = [valid |-> To(stage), invalid |-> Invalidated(stage), throws |-> ServerError][v]
  BY <1>1, AskIsAsked DEF Verdicts, Validity
<1>3. y[c] = v
  BY <1>1, <1>2, AskedRow
<1>4. CASE v \in {"valid", "invalid"}
  <2>1. Pending(stage, e) = After(who, c, v, e) /\ Reached(who, stage, y, e)
    BY <1>3, <1>4, ChecksAre DEF Pending, After, Reached, Open, Endpoint
  <2>2. stage \in {"credentials", "added", "validated"}
    OBVIOUS
  <2> QED BY <1>2, <1>4, <2>1, <2>2, NotesStory
<1>5. CASE v = "throws"
  <2>1. s' = ServerError
    BY <1>2, <1>5
  <2> QED BY <1>1, <1>2, <1>5, <2>1, ThrowsStory
<1> QED BY <1>4, <1>5

\* What ends with an invalid part.
LEMMA InvalidStory ==
  ASSUME RoutesOK, NEW who, Story(who, oracle, s),
         NEW c \in {"first", "second", "transform", "command"},
         NEW v, Asked(c, v), v = "invalid",
         s' = ClientErrors({c})
  PROVE  Story(who, oracle', s')
<1>0. c \in Checks
  BY ChecksAre
<1>1. /\ TypedRow(oracle'[s.at]) /\ routes[s.at].kind \in {"sync", "async", "mux"}
      /\ oracle'[s.at][c] = "invalid"
      /\ Row(who, oracle'[s.at], routes[s.at], After(who, c, v, routes[s.at]))
  BY <1>0, AskedRow
<1>2. After(who, c, v, routes[s.at]) = "done"
  BY DEF After, Raises
<1>3. Answers(who, oracle'[s.at], routes[s.at], "clientErrors", {c})
  BY <1>1, <1>2, RowNotThrew
<1> QED BY <1>0, <1>2, <1>3, AskAnswer DEF ClientErrors

\* What becomes of the server that could not unmarshal an alternative of the entity, and of
\* the one whose mapping of the entity has thrown.
Unread(who, c) ==
  IF c = "first" THEN To("second") ELSE IF who = "pekko" THEN TryNext ELSE Raised
Unmapped(who, c) == IF who = "pekko" THEN ServerError ELSE Unread(who, c)

\* An alternative of the entity.
LEMMA EntityStory ==
  ASSUME RoutesOK, NEW who, Story(who, oracle, s), NEW c \in {"first", "second"},
         Ask(c, [valid |-> To("transform"), invalid |-> ClientErrors({c}),
                 mediaType |-> Unread(who, c), decoderThrows |-> Unread(who, c),
                 mapThrows |-> Unmapped(who, c)])
  PROVE  Story(who, oracle', s')
<1> DEFINE y == oracle'[s.at]
           e == routes[s.at]
<1>1. c \in Checks /\ c # "run"
  BY ChecksAre
<1>2. PICK v \in {"valid", "invalid", "mediaType", "decoderThrows", "mapThrows"} :
        /\ Asked(c, v)
        /\ s' = [valid |-> To("transform"), invalid |-> ClientErrors({c}),
                 mediaType |-> Unread(who, c), decoderThrows |-> Unread(who, c),
                 mapThrows |-> Unmapped(who, c)][v]
  BY <1>1, AskIsAsked DEF Verdicts, Raises
<1>3. y[c] = v
  BY <1>1, <1>2, AskedRow
<1>4. CASE v = "valid"
  <2>1. y.first = "valid" \/ y.second = "valid"
    BY <1>3, <1>4
  <2>2. Reached(who, "transform", y, e)
    BY <2>1 DEF Reached, Open
  <2>3. Pending("transform", e) = After(who, c, v, e)
    BY <1>4 DEF Pending, After, Raises
  <2>4. "transform" \in Stages \ {"done"} /\ s' = To("transform")
    BY <1>2, <1>4, ChecksAre DEF Stages
  <2> QED BY <1>1, <1>2, <1>4, <2>2, <2>3, <2>4, AskOn
<1>5. CASE v = "invalid"
  <2>1. s' = ClientErrors({c})
    BY <1>2, <1>5
  <2> QED BY <1>2, <1>5, <2>1, InvalidStory
<1>6. CASE v \in Raises /\ (who = "pekko" => v # "mapThrows")
  <2>1. s' = Unread(who, c)
    BY <1>2, <1>6 DEF Raises, Unmapped
  <2>2. CASE c = "first"
    <3>1. Pending("second", e) = After(who, c, v, e) /\ Reached(who, "second", y, e)
      BY <1>3, <1>6, <2>2, ChecksAre DEF Pending, After, Reached, Open, Raises
    <3>2. "second" \in Stages \ {"done"} /\ v # "invalid" /\ s' = To("second")
      BY <1>6, <2>1, <2>2, ChecksAre DEF Stages, Raises, Unread
    <3> QED BY <1>1, <1>2, <3>1, <3>2, AskOn
  <2>3. CASE c = "second"
    <3>1. After(who, c, v, e) = "done"
      BY <1>6, <2>3 DEF After, Raises
    <3>2. CASE who = "pekko"
      <4>1. Left(who, y, e) /\ s' = TryNext
        BY <1>3, <1>6, <2>1, <2>3, <3>2 DEF Left, Raises, Unread
      <4> QED BY <1>1, <1>2, <3>1, <4>1, AskLeave
    <3>3. CASE who # "pekko"
      <4>1. Answers(who, y, e, "backend", {})
        BY <1>1, <1>2, <1>3, <1>6, <2>3, <3>1, <3>3, DoneRow, RowNotThrew
      <4>2. s' = Raised
        BY <2>1, <2>3, <3>3 DEF Unread
      <4> QED BY <1>1, <1>2, <3>1, <4>1, <4>2, AskAnswer DEF Raised
    <3> QED BY <3>2, <3>3
  <2> QED BY <2>2, <2>3
<1>7. CASE who = "pekko" /\ v = "mapThrows"
  <2>1. After(who, c, v, e) = "done"
    BY <1>7 DEF After, Raises
  <2>2. Answers(who, y, e, "serverError", {})
    BY <1>1, <1>2, <1>3, <1>7, <2>1, DoneRow, RowThrew
  <2>3. s' = ServerError
    BY <1>2, <1>7 DEF Unmapped
  <2> QED BY <1>1, <1>2, <2>1, <2>2, <2>3, AskAnswer DEF ServerError
<1> QED BY <1>4, <1>5, <1>6, <1>7 DEF Raises

\* The stage that comes after the transformation of the request.
TransformedStage(who, e) ==
  IF e.kind = "mux" THEN "command"
  ELSE IF who = "pekko" /\ e.kind = "sync" THEN "encoding" ELSE "run"

\* The transformation of the request.
LEMMA TransformStory ==
  ASSUME RoutesOK, NEW who, Story(who, oracle, s),
         NEW stage, stage = TransformedStage(who, routes[s.at]),
         NEW thrown, thrown = IF who = "pekko" THEN ServerError ELSE Raised,
         Ask("transform", [valid |-> To(stage), invalid |-> ClientErrors({"transform"}),
                           throws |-> thrown])
  PROVE  Story(who, oracle', s')
<1> DEFINE y == oracle'[s.at]
           e == routes[s.at]
<1>1. PICK v \in {"valid", "invalid", "throws"} :
        /\ Asked("transform", v)
        /\ s' = [valid |-> To(stage), invalid |-> ClientErrors({"transform"}),
                 throws |-> thrown][v]
  BY AskIsAsked, ChecksAre DEF Verdicts, Validity
<1>2. "transform" \in Checks /\ y.transform = v /\ e.kind \in {"sync", "async", "mux"}
  BY <1>1, AskedRow, ChecksAre
<1>3. CASE v = "valid"
  <2>1. Pending(stage, e) = After(who, "transform", v, e) /\ Reached(who, stage, y, e)
    BY <1>2, <1>3, ChecksAre DEF Pending, After, Reached, Open, TransformedStage
  <2>2. stage \in Stages \ {"done"}
    BY ChecksAre DEF Stages, TransformedStage
  <2>3. s' = To(stage)
    BY <1>1, <1>3
  <2> QED BY <1>1, <1>2, <1>3, <2>1, <2>2, <2>3, AskOn
<1>4. CASE v = "invalid"
  <2>1. s' = ClientErrors({"transform"})
    BY <1>1, <1>4
  <2> QED BY <1>1, <1>4, <2>1, InvalidStory
<1>5. CASE v = "throws" /\ who = "pekko"
  <2>1. s' = ServerError
    BY <1>1, <1>5
  <2> QED BY <1>1, <1>2, <1>5, <2>1, ThrowsStory
<1>6. CASE v = "throws" /\ who # "pekko"
  <2>1. s' = Raised
    BY <1>1, <1>6
  <2>2. After(who, "transform", v, e) = "done"
    BY <1>6 DEF After
  <2>3. Answers(who, y, e, "backend", {})
    BY <1>1, <1>2, <1>6, <2>2, DoneRow, RowNotThrew
  <2> QED BY <1>1, <1>2, <2>1, <2>2, <2>3, AskAnswer DEF Raised
<1> QED BY <1>3, <1>4, <1>5, <1>6

\* The command of a multiplexed request.
LEMMA CommandStory ==
  ASSUME RoutesOK, NEW who, Story(who, oracle, s),
         Ask("command", [valid |-> To("run"), invalid |-> ClientErrors({"command"}),
                         throws |-> ServerError])
  PROVE  Story(who, oracle', s')
<1> DEFINE y == oracle'[s.at]
           e == routes[s.at]
<1>1. PICK v \in {"valid", "invalid", "throws"} :
        /\ Asked("command", v)
        /\ s' = [valid |-> To("run"), invalid |-> ClientErrors({"command"}),
                 throws |-> ServerError][v]
  BY AskIsAsked, ChecksAre DEF Verdicts, Validity
<1>2. "command" \in Checks /\ y.command = v /\ y.transform = "valid" /\ e.kind = "mux"
  BY <1>1, AskedRow, ChecksAre DEF Open
<1>3. CASE v = "valid"
  <2>1. Pending("run", e) = After(who, "command", v, e) /\ Reached(who, "run", y, e)
    BY <1>2, <1>3, ChecksAre DEF Pending, After, Reached, Open
  <2>2. "run" \in Stages \ {"done"} /\ s' = To("run")
    BY <1>1, <1>3, ChecksAre DEF Stages
  <2> QED BY <1>1, <1>2, <1>3, <2>1, <2>2, AskOn
<1>4. CASE v = "invalid"
  <2>1. s' = ClientErrors({"command"})
    BY <1>1, <1>4
  <2> QED BY <1>1, <1>4, <2>1, InvalidStory
<1>5. CASE v = "throws"
  <2>1. s' = ServerError
    BY <1>1, <1>5
  <2> QED BY <1>1, <1>2, <1>5, <2>1, ThrowsStory
<1> QED BY <1>3, <1>4, <1>5

\* The stage that comes after the implementation, and what becomes of its failure.
RunStage(who, e) == IF who = "pekko" /\ e.kind = "async" THEN "encoding" ELSE "responseHeaders"
RunFailed(who, e) ==
  IF who = "pekko" /\ e.kind = "mux" THEN ClientErrors({"run"}) ELSE ServerError

\* The implementation.
LEMMA RunStory ==
  ASSUME RoutesOK, NEW who, Story(who, oracle, s),
         NEW stage, stage = RunStage(who, routes[s.at]),
         NEW failed, failed = RunFailed(who, routes[s.at]),
         Ask("run", [value |-> Ran(To(stage)), throws |-> Ran(ServerError),
                     fails |-> Ran(failed)])
  PROVE  Story(who, oracle', s')
<1> DEFINE y == oracle'[s.at]
           e == routes[s.at]
<1>1. PICK v \in {"value", "throws", "fails"} :
        /\ Asked("run", v)
        /\ s' = [value |-> Ran(To(stage)), throws |-> Ran(ServerError), fails |-> Ran(failed)][v]
  BY AskIsAsked, ChecksAre DEF Verdicts
<1>2. "run" \in Checks /\ y.run = v
  BY <1>1, AskedRow, ChecksAre
<1>3. CASE v = "value"
  <2>1. Pending(stage, e) = After(who, "run", v, e) /\ Reached(who, stage, y, e)
    BY <1>2, <1>3, ChecksAre DEF Pending, After, Reached, Open, RunStage
  <2>2. stage \in Stages \ {"done"}
    BY ChecksAre DEF Stages, RunStage
  <2>3. s' = Ran(To(stage))
    BY <1>1, <1>3
  <2> QED BY <1>1, <1>2, <2>1, <2>2, <2>3, AskOn
<1>4. CASE v = "throws"
  <2>1. s' = Ran(ServerError)
    BY <1>1, <1>4
  <2> QED BY <1>1, <1>2, <1>4, <2>1, ThrowsStory
<1>5. CASE v = "fails"
  <2>1. After(who, "run", v, e) = "done" /\ s' = Ran(failed)
    BY <1>1, <1>5 DEF After
  <2>2. CASE who = "pekko" /\ e.kind = "mux"
    <3>1. Answers(who, y, e, "clientErrors", {"run"})
      BY <1>1, <1>2, <1>5, <2>1, <2>2, DoneRow, RowNotThrew
    <3>2. failed = Answer("clientErrors", {"run"})
      BY <2>2 DEF RunFailed, ClientErrors
    <3> QED BY <1>1, <1>2, <2>1, <3>1, <3>2, AskAnswer
  <2>3. CASE ~(who = "pekko" /\ e.kind = "mux")
    <3>1. Answers(who, y, e, "serverError", {})
      BY <1>1, <1>2, <1>5, <2>1, <2>3, DoneRow, RowThrew
    <3>2. failed = Answer("serverError", {})
      BY <2>3 DEF RunFailed, ServerError
    <3> QED BY <1>1, <1>2, <2>1, <3>1, <3>2, AskAnswer
  <2> QED BY <2>2, <2>3
<1> QED BY <1>3, <1>4, <1>5

\* The head of the response.
LEMMA ResponseHeadersStory ==
  ASSUME RoutesOK, NEW who, Story(who, oracle, s),
         NEW stage, stage = IF who = "pekko" THEN "accept" ELSE "responseEntity",
         Ask("responseHeaders", [ok |-> To(stage), throws |-> ServerError])
  PROVE  Story(who, oracle', s')
<1> DEFINE y == oracle'[s.at]
           e == routes[s.at]
<1>1. PICK v \in {"ok", "throws"} :
        Asked("responseHeaders", v) /\ s' = [ok |-> To(stage), throws |-> ServerError][v]
  BY AskIsAsked, ChecksAre DEF Verdicts
<1>2. "responseHeaders" \in Checks /\ y.responseHeaders = v
  BY <1>1, AskedRow, ChecksAre
<1>3. CASE v = "ok"
  <2>1. Pending(stage, e) = After(who, "responseHeaders", v, e) /\ Reached(who, stage, y, e)
    BY <1>2, <1>3, ChecksAre DEF Pending, After, Reached, Open
  <2>2. stage \in Stages \ {"done"} /\ s' = To(stage)
    BY <1>1, <1>3, ChecksAre DEF Stages
  <2> QED BY <1>1, <1>2, <1>3, <2>1, <2>2, AskOn
<1>4. CASE v = "throws"
  <2>1. s' = ServerError
    BY <1>1, <1>4
  <2> QED BY <1>1, <1>2, <1>4, <2>1, ThrowsStory
<1> QED BY <1>3, <1>4

\* The negotiation of the content type, which only Pekko does.
LEMMA AcceptStory ==
  ASSUME RoutesOK, Story("pekko", oracle, s),
         Ask("accept", [yes |-> To("responseEntity"), no |-> TryNext])
  PROVE  Story("pekko", oracle', s')
<1> DEFINE y == oracle'[s.at]
           e == routes[s.at]
<1>1. PICK v \in {"yes", "no"} :
        Asked("accept", v) /\ s' = [yes |-> To("responseEntity"), no |-> TryNext][v]
  BY AskIsAsked, ChecksAre DEF Verdicts
<1>2. "accept" \in Checks /\ y.accept = v
  BY <1>1, AskedRow, ChecksAre
<1>3. CASE v = "yes"
  <2>1. /\ Pending("responseEntity", e) = After("pekko", "accept", v, e)
        /\ Reached("pekko", "responseEntity", y, e)
    BY <1>2, <1>3, ChecksAre DEF Pending, After, Reached, Open
  <2>2. "responseEntity" \in Stages \ {"done"} /\ s' = To("responseEntity")
    BY <1>1, <1>3, ChecksAre DEF Stages
  <2> QED BY <1>1, <1>2, <1>3, <2>1, <2>2, AskOn
<1>4. CASE v = "no"
  <2>1. After("pekko", "accept", v, e) = "done" /\ Left("pekko", y, e) /\ s' = TryNext
    BY <1>1, <1>2, <1>4 DEF After, Left
  <2> QED BY <1>1, <1>2, <2>1, AskLeave
<1> QED BY <1>3, <1>4

\* The entity of the response.
LEMMA ResponseEntityStory ==
  ASSUME RoutesOK, NEW who, Story(who, oracle, s),
         Ask("responseEntity", [ok |-> Answer("value", {}), throws |-> ServerError])
  PROVE  Story(who, oracle', s')
<1> DEFINE y == oracle'[s.at]
           e == routes[s.at]
<1>1. PICK v \in {"ok", "throws"} :
        /\ Asked("responseEntity", v)
        /\ s' = [ok |-> Answer("value", {}), throws |-> ServerError][v]
  BY AskIsAsked, ChecksAre DEF Verdicts
<1>2. "responseEntity" \in Checks /\ y.responseEntity = v
  BY <1>1, AskedRow, ChecksAre
<1>3. CASE v = "ok"
  <2>1. After(who, "responseEntity", v, e) = "done" /\ s' = Answer("value", {})
    BY <1>1, <1>3 DEF After
  <2>2. Answers(who, y, e, "value", {})
    BY <1>1, <1>2, <1>3, <2>1, DoneRow, RowNotThrew
  <2> QED BY <1>1, <1>2, <2>1, <2>2, AskAnswer
<1>4. CASE v = "throws"
  <2>1. s' = ServerError
    BY <1>1, <1>4
  <2> QED BY <1>1, <1>2, <1>4, <2>1, ThrowsStory
<1> QED BY <1>3, <1>4

\* The row at a stage that asks nothing.
LEMMA SilentRow ==
  ASSUME RoutesOK, NEW who, Story(who, oracle, s), s.stage \notin Checks \cup {"done"},
         UNCHANGED <<routes, request, oracle>>, NEW x, x = oracle[s.at], NEW e, e = routes[s.at]
  PROVE  /\ TypedRow(x) /\ e.kind \in {"sync", "async", "mux"} /\ x = oracle'[s.at]
         /\ Row(who, x, e, Pending(s.stage, e)) /\ Reached(who, s.stage, x, e)
         /\ StepsTo(oracle, s, oracle', x, s.ran)
         /\ s.invalid = Invalid(x)
<1>1. /\ s.at \in 1 .. Len(routes) /\ Typed(oracle, s) /\ Len(routes) \in Nat
  BY DEF Story, Typed, RoutesOK
<1>2. TypedRow(x) /\ e.kind \in {"sync", "async", "mux"}
  BY <1>1, RoutesAre DEF Typed
<1>3. Row(who, x, e, Pending(s.stage, e))
  BY <1>1 DEF Story, RowsFit
<1>4. Reached(who, s.stage, x, e) /\ s.invalid = Invalid(x)
  BY <1>1 DEF Story, AnswerFits
<1>5. StepsTo(oracle, s, oracle', x, s.ran)
  BY <1>1, <1>2 DEF StepsTo, Typed
<1> QED BY <1>1, <1>2, <1>3, <1>4, <1>5

\* The credentials.
LEMMA CredentialsStory ==
  ASSUME RoutesOK, NEW who, Story(who, oracle, s), s.stage = "credentials",
         UNCHANGED <<routes, request, oracle>>,
         s' = IF request.credentials THEN To("added") ELSE Answer("unauthorized", {})
  PROVE  Story(who, oracle', s')
<1>0. PICK x, e : x = oracle[s.at] /\ e = routes[s.at]
  OBVIOUS
<1>1. /\ TypedRow(x) /\ e.kind \in {"sync", "async", "mux"}
      /\ Row(who, x, e, "added") /\ Reached(who, "credentials", x, e)
      /\ StepsTo(oracle, s, oracle', x, s.ran) /\ s.invalid = Invalid(x)
  <2>1. s.stage \notin Checks \cup {"done"} /\ Pending(s.stage, e) = "added"
    BY ChecksAre DEF Pending
  <2> QED BY <1>0, <2>1, SilentRow
<1>2. CASE request.credentials
  <2>1. s' = [at |-> s.at, stage |-> "added", invalid |-> Invalid(x), ran |-> s.ran,
              answer |-> s.answer]
    BY <1>1, <1>2, StatesAre
  <2>2. Pending("added", e) = "added" /\ Reached(who, "added", x, e)
    BY <1>1, <1>2, ChecksAre DEF Pending, Reached, Open
  <2>3. "added" \in Stages \ {"done"}
    BY ChecksAre DEF Stages
  <2> QED BY <1>0, <1>1, <2>1, <2>2, <2>3, GoesOn
<1>3. CASE ~request.credentials
  <2>1. s' = [at |-> s.at, stage |-> "done", invalid |-> s.invalid, ran |-> s.ran,
              answer |-> [status |-> "unauthorized", route |-> s.at, errors |-> {}]]
    BY <1>3, StatesAre
  <2>2. e.auth /\ x.headers \in {"valid", "invalid"}
    BY <1>1 DEF Reached
  <2>3. Row(who, x, e, "done")
    BY <1>1, <1>3, <2>2, ChecksAre DEF Row, Open
  <2>4. Answers(who, x, e, "unauthorized", {})
    BY <1>1, <1>3, <2>2, <2>3, RowNotThrew
  <2> QED BY <1>0, <1>1, <2>1, <2>3, <2>4, Concludes
<1> QED BY <1>2, <1>3

\* The end of the decoding of the head of the request.
LEMMA ValidateStory ==
  ASSUME RoutesOK, NEW who, Story(who, oracle, s), s.stage = "validated",
         UNCHANGED <<routes, request, oracle>>,
         s' = IF s.invalid = {} THEN To("first") ELSE ClientErrors(s.invalid)
  PROVE  Story(who, oracle', s')
<1>0. PICK x, e : x = oracle[s.at] /\ e = routes[s.at]
  OBVIOUS
<1>1. /\ TypedRow(x) /\ e.kind \in {"sync", "async", "mux"}
      /\ Row(who, x, e, "first") /\ Reached(who, "validated", x, e)
      /\ StepsTo(oracle, s, oracle', x, s.ran) /\ s.invalid = Invalid(x)
  <2>1. s.stage \notin Checks \cup {"done"} /\ Pending(s.stage, e) = "first"
    BY ChecksAre DEF Pending
  <2> QED BY <1>0, <2>1, SilentRow
<1>2. /\ x.url \in {"valid", "invalid"} /\ x.headers \in {"valid", "invalid"}
      /\ x.added \in {"valid", "invalid"} /\ x.first = Unasked
  BY <1>1, RowIs, RowReads DEF Unasked, Reached
<1>3. CASE s.invalid = {}
  <2>1. s' = [at |-> s.at, stage |-> "first", invalid |-> Invalid(x), ran |-> s.ran,
              answer |-> s.answer]
    BY <1>1, <1>3, StatesAre
  <2>2. x.url = "valid" /\ x.headers = "valid" /\ x.added = "valid"
    BY <1>1, <1>2, <1>3 DEF Invalid, Validations
  <2>3. Pending("first", e) = "first" /\ Reached(who, "first", x, e)
    BY <2>2, ChecksAre DEF Pending, Reached, Open
  <2>4. "first" \in Stages \ {"done"}
    BY ChecksAre DEF Stages
  <2> QED BY <1>0, <1>1, <2>1, <2>3, <2>4, GoesOn
<1>4. CASE s.invalid # {}
  <2>1. s' = [at |-> s.at, stage |-> "done", invalid |-> s.invalid, ran |-> s.ran,
              answer |-> [status |-> "clientErrors", route |-> s.at, errors |-> s.invalid]]
    BY <1>4, StatesAre DEF ClientErrors
  <2>2. ~(x.url = "valid" /\ x.headers = "valid" /\ x.added = "valid")
    BY <1>1, <1>2, <1>4, RowIs, RowReads DEF Invalid, Validations, Unasked, Raises
  <2>3. Row(who, x, e, "done")
    BY <1>1, <2>2, ChecksAre DEF Row, Open
  <2>4. Answers(who, x, e, "clientErrors", s.invalid)
    BY <1>1, <1>2, <1>4, <2>3, RowNotThrew
  <2> QED BY <1>0, <1>1, <2>1, <2>3, <2>4, Concludes
<1> QED BY <1>3, <1>4

\* The negotiation of the encoding, which only Pekko does.
LEMMA EncodingStory ==
  ASSUME RoutesOK, Story("pekko", oracle, s), s.stage = "encoding",
         UNCHANGED <<routes, request, oracle>>,
         s' = IF request.encoding
              THEN To(IF routes[s.at].kind = "sync" THEN "run" ELSE "responseHeaders")
              ELSE TryNext
  PROVE  Story("pekko", oracle', s')
<1>0. PICK x, e : x = oracle[s.at] /\ e = routes[s.at]
  OBVIOUS
<1> DEFINE stage == IF e.kind = "sync" THEN "run" ELSE "responseHeaders"
<1>1. /\ TypedRow(x) /\ e.kind \in {"sync", "async", "mux"}
      /\ Row("pekko", x, e, stage) /\ Reached("pekko", "encoding", x, e)
      /\ StepsTo(oracle, s, oracle', x, s.ran) /\ s.invalid = Invalid(x)
  <2>1. s.stage \notin Checks \cup {"done"} /\ Pending(s.stage, e) = stage
    BY ChecksAre DEF Pending
  <2> QED BY <1>0, <2>1, SilentRow
<1>2. \/ e.kind = "sync" /\ x.transform = "valid"
      \/ e.kind = "async" /\ x.run = "value"
  BY <1>1 DEF Reached
<1>3. CASE request.encoding
  <2>1. s' = [at |-> s.at, stage |-> stage, invalid |-> Invalid(x), ran |-> s.ran,
              answer |-> s.answer]
    BY <1>0, <1>1, <1>3, StatesAre
  <2>2. Pending(stage, e) = stage /\ Reached("pekko", stage, x, e)
    BY <1>2, <1>3, ChecksAre DEF Pending, Reached, Open
  <2>3. stage \in Stages \ {"done"}
    BY ChecksAre DEF Stages
  <2> HIDE DEF stage
  <2> QED BY <1>0, <1>1, <2>1, <2>2, <2>3, GoesOn
<1>4. CASE ~request.encoding
  <2>1. Row("pekko", x, e, "done")
    BY <1>1, <1>2, <1>4, ChecksAre DEF Row, Open
  <2>2. Left("pekko", x, e)
    BY <1>2, <1>4 DEF Left
  <2> QED BY <1>0, <1>1, <1>4, <2>1, <2>2, StatesAre, LeavesRoute
<1> QED BY <1>3, <1>4

(***************************************************************************)
(* What the instances of the servers do, in the words of this module.      *)
(***************************************************************************)
LEMMA SameWords ==
  ASSUME NEW c, NEW outcomes, NEW stage, NEW status, NEW errors
  PROVE  /\ Http4s!Ask(c, outcomes) => Ask(c, outcomes)
         /\ Pekko!Ask(c, outcomes) => Ask(c, outcomes)
         /\ Http4s!To(stage) = To(stage) /\ Pekko!To(stage) = To(stage)
         /\ Http4s!Invalidated(stage) = Invalidated(stage)
         /\ Pekko!Invalidated(stage) = Invalidated(stage)
         /\ Http4s!Answer(status, errors) = Answer(status, errors)
         /\ Pekko!Answer(status, errors) = Answer(status, errors)
         /\ Http4s!NextRoute = TryNext /\ Pekko!Rejected = TryNext
         /\ Http4s!Ran(stage) = Ran(stage) /\ Pekko!Ran(stage) = Ran(stage)
  BY DEF Http4s!Ask, Pekko!Ask, Ask, Http4s!Unasked, Pekko!Unasked, Unasked,
         Http4s!Endpoint, Pekko!Endpoint, Endpoint, Http4s!To, Pekko!To, To,
         Http4s!Invalidated, Pekko!Invalidated, Invalidated,
         Http4s!Answer, Pekko!Answer, Answer, Http4s!Ran, Pekko!Ran, Ran,
         Http4s!NextRoute, Pekko!Rejected, TryNext, Http4s!Unmatched, Pekko!Unmatched, Unmatched,
         Http4s!NoAnswer, Pekko!NoAnswer, NoAnswer

\* And how they end a request.
LEMMA SameErrors ==
  ASSUME NEW errors
  PROVE  /\ Http4s!ServerError = ServerError /\ Pekko!ServerError = ServerError
         /\ Http4s!ClientErrors(errors) = ClientErrors(errors)
         /\ Pekko!ClientErrors(errors) = ClientErrors(errors)
         /\ Http4s!Raised = Raised
  BY SameWords DEF Http4s!ServerError, Pekko!ServerError, ServerError, Http4s!ClientErrors,
         Pekko!ClientErrors, ClientErrors, Http4s!Raised, Raised

\* Every step of the http4s server.
LEMMA Http4sStory ==
  ASSUME RoutesOK, Story("http4s", oracle, s), Http4s!Next
  PROVE  Story("http4s", oracle', s')
<1>1. CASE Http4s!MatchMethod
  BY <1>1, SameWords, MethodStory DEF Http4s!MatchMethod
<1>2. CASE Http4s!DecodeUrl
  BY <1>2, SameWords, SameErrors, UrlStory DEF Http4s!DecodeUrl
<1>3. CASE Http4s!DecodeHeaders
  BY <1>3, SameWords, SameErrors, PartStory
     DEF Http4s!DecodeHeaders, Http4s!AfterHeaders, Http4s!Endpoint, Endpoint
<1>4. CASE Http4s!CheckCredentials
  BY <1>4, SameWords, CredentialsStory DEF Http4s!CheckCredentials
<1>5. CASE Http4s!DecodeAdded
  BY <1>5, SameWords, SameErrors, PartStory DEF Http4s!DecodeAdded
<1>6. CASE Http4s!Validate
  BY <1>6, SameWords, SameErrors, ValidateStory DEF Http4s!Validate
<1>7. CASE Http4s!DecodeEntity
  BY <1>7, SameWords, SameErrors, EntityStory
     DEF Http4s!DecodeEntity, Http4s!EntityOutcomes, Unread, Unmapped
<1>8. CASE Http4s!Transform
  BY <1>8, SameWords, SameErrors, TransformStory
     DEF Http4s!Transform, Http4s!AfterTransform, TransformedStage, Http4s!Endpoint
<1>9. CASE Http4s!DecodeCommand
  BY <1>9, SameWords, SameErrors, CommandStory DEF Http4s!DecodeCommand
<1>10. CASE Http4s!RunImplementation
  BY <1>10, SameWords, SameErrors, RunStory DEF Http4s!RunImplementation, RunStage, RunFailed
<1>11. CASE Http4s!EncodeResponse
  BY <1>11, SameWords, SameErrors, ResponseHeadersStory, ResponseEntityStory
     DEF Http4s!EncodeResponse
<1> QED
  BY <1>1, <1>2, <1>3, <1>4, <1>5, <1>6, <1>7, <1>8, <1>9, <1>10, <1>11 DEF Http4s!Next

\* Every step of the Pekko server.
LEMMA PekkoStory ==
  ASSUME RoutesOK, Story("pekko", oracle, s), Pekko!Next
  PROVE  Story("pekko", oracle', s')
<1>1. CASE Pekko!MatchMethod
  BY <1>1, SameWords, MethodStory DEF Pekko!MatchMethod
<1>2. CASE Pekko!DecodeUrl
  BY <1>2, SameWords, SameErrors, UrlStory DEF Pekko!DecodeUrl
<1>3. CASE Pekko!DecodeHeaders
  BY <1>3, SameWords, SameErrors, PartStory
     DEF Pekko!DecodeHeaders, Pekko!AfterHeaders, Pekko!Endpoint, Endpoint
<1>4. CASE Pekko!CheckCredentials
  BY <1>4, SameWords, CredentialsStory DEF Pekko!CheckCredentials
<1>5. CASE Pekko!DecodeAdded
  BY <1>5, SameWords, SameErrors, PartStory DEF Pekko!DecodeAdded
<1>6. CASE Pekko!Validate
  BY <1>6, SameWords, SameErrors, ValidateStory DEF Pekko!Validate
<1>7. CASE Pekko!DecodeEntity
  BY <1>7, SameWords, SameErrors, EntityStory
     DEF Pekko!DecodeEntity, Pekko!EntityOutcomes, Unread, Unmapped
<1>8. CASE Pekko!Transform
  <2>1. s.at \in 1 .. Len(routes)
    BY DEF Story, Typed
  <2>2. Pekko!AfterTransform = TransformedStage("pekko", routes[s.at])
    BY <2>1, RoutesAre DEF Pekko!AfterTransform, TransformedStage, Pekko!Endpoint
  <2> QED BY <1>8, <2>2, SameWords, SameErrors, TransformStory DEF Pekko!Transform
<1>9. CASE Pekko!DecodeCommand
  BY <1>9, SameWords, SameErrors, CommandStory DEF Pekko!DecodeCommand
<1>10. CASE Pekko!NegotiateEncoding
  BY <1>10, SameWords, EncodingStory
     DEF Pekko!NegotiateEncoding, Pekko!AfterEncoding, Pekko!Endpoint
<1>11. CASE Pekko!RunImplementation
  BY <1>11, SameWords, SameErrors, RunStory
     DEF Pekko!RunImplementation, RunStage, RunFailed, Pekko!Endpoint, Pekko!AfterRun, Pekko!Failed
<1>12. CASE Pekko!EncodeResponse
  BY <1>12, SameWords, SameErrors, ResponseHeadersStory, AcceptStory, ResponseEntityStory
     DEF Pekko!EncodeResponse
<1> QED
  BY <1>1, <1>2, <1>3, <1>4, <1>5, <1>6, <1>7, <1>8, <1>9, <1>10, <1>11, <1>12 DEF Pekko!Next

\* A step of either server leaves the input alone.
LEMMA InputKept ==
  ASSUME Http4s!Next \/ Pekko!Next
  PROVE  UNCHANGED <<routes, request>>
<1>1. ASSUME NEW c, NEW outcomes, Ask(c, outcomes) PROVE UNCHANGED <<routes, request>>
  BY <1>1 DEF Ask
<1>2. CASE Http4s!Next
  BY <1>1, <1>2, SameWords
     DEF Http4s!Next, Http4s!MatchMethod, Http4s!DecodeUrl, Http4s!DecodeHeaders,
         Http4s!CheckCredentials, Http4s!DecodeAdded, Http4s!Validate, Http4s!DecodeEntity,
         Http4s!Transform, Http4s!DecodeCommand, Http4s!RunImplementation, Http4s!EncodeResponse
<1>3. CASE Pekko!Next
  BY <1>1, <1>3, SameWords
     DEF Pekko!Next, Pekko!MatchMethod, Pekko!DecodeUrl, Pekko!DecodeHeaders,
         Pekko!CheckCredentials, Pekko!DecodeAdded, Pekko!Validate, Pekko!DecodeEntity,
         Pekko!Transform, Pekko!DecodeCommand, Pekko!NegotiateEncoding,
         Pekko!RunImplementation, Pekko!EncodeResponse
<1> QED BY <1>2, <1>3

\* Before anything is asked.
LEMMA StartStory ==
  ASSUME RoutesOK, Len(routes) >= 1, NEW who, NEW o,
         o = [r \in 1 .. Len(routes) |-> [c \in Checks |-> Unasked]]
  PROVE  Story(who, o, Start)
<1>1. Len(routes) \in Nat
  BY DEF RoutesOK
<1>2. \A r \in 1 .. Len(routes) : TypedRow(o[r]) /\ Row(who, o[r], routes[r], "method")
  <2> SUFFICES ASSUME NEW r \in 1 .. Len(routes), NEW x, x = [c \in Checks |-> Unasked]
               PROVE  TypedRow(x) /\ Row(who, x, routes[r], "method")
    OBVIOUS
  <2>1. \A c \in Checks : x[c] = Unasked
    OBVIOUS
  <2>2. TypedRow(x)
    BY <2>1 DEF TypedRow
  <2>3. Row(who, x, routes[r], "method")
    BY <2>1, RowReads, ChecksAre DEF Raises, Unasked
  <2> QED BY <2>2, <2>3
<1>3. Typed(o, Start)
  <2>1. o \in [1 .. Len(routes) -> [Checks -> AnyVerdict \cup {Unasked}]]
    OBVIOUS
  <2>2. "method" \in Stages /\ 1 \in 1 .. Len(routes)
    BY <1>1, ChecksAre DEF Stages
  <2>3. NoAnswer \in [status : Statuses, route : 0 .. Len(routes), errors : SUBSET Checks]
    BY <1>1 DEF NoAnswer, Statuses
  <2>4. {} \in SUBSET Checks /\ << >> \in Seq(1 .. Len(routes))
    OBVIOUS
  <2> QED BY <1>2, <2>1, <2>2, <2>3, <2>4 DEF Typed, Start
<1>4. RowsFit(who, o, Start)
  BY <1>1, <1>2 DEF RowsFit, Start, Pending
<1>5. AnswerFits(who, o, Start)
  <2>1. Invalid(o[1]) = {}
    BY <1>1, ChecksAre DEF Invalid, Validations, Unasked
  <2>2. Reached(who, "method", o[1], routes[1])
    BY DEF Reached, Open
  <2> QED BY <2>1, <2>2 DEF AnswerFits, Start
<1>6. RanFits(o, Start)
  <2>1. \A r \in 1 .. Len(routes) : o[r].run = Unasked
    BY ChecksAre
  <2> QED BY <2>1 DEF RanFits, Start
<1> QED BY <1>1, <1>3, <1>4, <1>5, <1>6 DEF Story, Start

\* A story is about the input and what the checks have answered, and nothing else.
LEMMA StoryIsRigid ==
  ASSUME UNCHANGED <<routes, request>>, NEW who, Story(who, oracle', s')
  PROVE  Story(who, oracle, s)'
  BY SMTT(30) DEF Story, Typed, TypedRow, RowsFit, Row, Open, Left, AnswerFits, Answers, Status,
                  Threw, Errors, Invalid, Reached, RanFits

LEMMA FinishedStoryIsRigid ==
  ASSUME UNCHANGED <<routes, request>>, NEW who, Story(who, http4sOracle', http4s')
  PROVE  Story(who, http4sOracle, http4s)'
  BY SMTT(30) DEF Story, Typed, TypedRow, RowsFit, Row, Open, Left, AnswerFits, Answers, Status,
                  Threw, Errors, Invalid, Reached, RanFits

(***************************************************************************)
(* What the story says of the properties of a server.                      *)
(***************************************************************************)
LEMMA RowAhead ==
  ASSUME NEW who, NEW x, NEW e, TypedRow(x), Row(who, x, e, "method")
  PROVE  \A c \in Checks : x[c] = Unasked
  BY RowIs, RowReads, ChecksAre DEF Raises, Unasked

\* The row of a route that the server has tried, or is trying.
LEMMA RowOfRoute ==
  ASSUME RoutesOK, NEW who, Story(who, oracle, s), NEW r \in 1 .. Len(routes)
  PROVE  /\ TypedRow(oracle[r]) /\ routes[r].kind \in {"sync", "async", "mux"}
         /\ \E p : Row(who, oracle[r], routes[r], p)
         /\ r > s.at => \A c \in Checks : oracle[r][c] = Unasked
         /\ r < s.at => Row(who, oracle[r], routes[r], "done") /\ Left(who, oracle[r], routes[r])
         /\ r = s.at => Row(who, oracle[r], routes[r], Pending(s.stage, routes[r]))
         /\ s.at \in 1 .. Len(routes)
<1>1. TypedRow(oracle[r]) /\ routes[r].kind \in {"sync", "async", "mux"}
  BY RoutesAre DEF Story, Typed
<1>2. s.at \in 1 .. Len(routes) /\ Len(routes) \in Nat
  BY DEF Story, Typed, RoutesOK
<1>3. Row(who, oracle[r], routes[r], IF r < s.at THEN "done" ELSE IF r > s.at THEN "method"
                                     ELSE Pending(s.stage, routes[r]))
  BY DEF Story, RowsFit
<1>4. r > s.at => \A c \in Checks : oracle[r][c] = Unasked
  BY <1>1, <1>2, <1>3, RowAhead
<1>5. r < s.at => Left(who, oracle[r], routes[r])
  BY DEF Story
<1> QED BY <1>1, <1>2, <1>3, <1>4, <1>5

\* What Progress says of the checks that are behind, of one row.
Behind(stage, x, e) ==
  /\ stage \notin {"method", "done"} => x.method = "yes"
  /\ stage \in Authorized \cup {"headers", "credentials"} => x.url \in {"valid", "invalid"}
  /\ stage \in Authorized \cup {"credentials"} => x.headers \in {"valid", "invalid"}
  /\ stage \in Authorized => (e.auth => request.credentials)
  /\ stage \in Validated \cup {"validated"} => x.added \in {"valid", "invalid"}
  /\ stage \in Validated => Invalid(x) = {}
  /\ stage = "second" => x.first \in Raises
  /\ stage \in EntityRead =>
       x.first = "valid" \/ (x.first \in Raises /\ x.second = "valid")
  /\ stage \in Transformed => x.transform = "valid"
  /\ stage \in Transformed \ {"command"} => (e.kind = "mux" => x.command = "valid")

\* Progress, of one row.
LEMMA RowProgress ==
  ASSUME NEW who, NEW x, NEW e, TypedRow(x), e.kind \in {"sync", "async", "mux"},
         NEW stage \in Stages, Row(who, x, e, Pending(stage, e)), Reached(who, stage, x, e)
  PROVE  Behind(stage, x, e)
<1> USE RowIs, RowReads, ChecksAre
    DEF Pending, Reached, Open, Unasked, Raises, Authorized, Validated, EntityRead,
        Transformed, Responding, Invalid, Validations
<1>1. stage \notin {"method", "done"} => x.method = "yes"
  BY DEF Stages
<1>2. stage \in Authorized \cup {"headers", "credentials"} => x.url \in {"valid", "invalid"}
  OBVIOUS
<1>3. stage \in Authorized \cup {"credentials"} => x.headers \in {"valid", "invalid"}
  OBVIOUS
<1>4. stage \in Authorized => (e.auth => request.credentials)
  OBVIOUS
<1>5. stage \in Validated \cup {"validated"} => x.added \in {"valid", "invalid"}
  OBVIOUS
<1>6. stage \in Validated => Invalid(x) = {}
  OBVIOUS
<1>7. stage = "second" => x.first \in Raises
  OBVIOUS
<1>8. stage \in EntityRead => x.first = "valid" \/ (x.first \in Raises /\ x.second = "valid")
  OBVIOUS
<1>9. stage \in Transformed => x.transform = "valid"
  OBVIOUS
<1>10. stage \in Transformed \ {"command"} => (e.kind = "mux" => x.command = "valid")
  OBVIOUS
<1> HIDE RowIs, RowReads, ChecksAre
    DEF Pending, Reached, Open, Unasked, Raises, Authorized, Validated, EntityRead,
        Transformed, Responding, Invalid, Validations
<1> QED BY <1>1, <1>2, <1>3, <1>4, <1>5, <1>6, <1>7, <1>8, <1>9, <1>10 DEF Behind

\* An implementation has run.
LEMMA RowRan ==
  ASSUME NEW who, NEW x, NEW e, NEW p, TypedRow(x), Row(who, x, e, p), x.run # Unasked
  PROVE  /\ x.method = "yes" /\ x.url = "valid" /\ x.headers = "valid" /\ x.added = "valid"
         /\ x.transform = "valid" /\ (e.auth => request.credentials)
         /\ x.first = "valid" \/ (x.first \in Raises /\ x.second = "valid")
         /\ e.kind = "mux" => x.command = "valid"
         /\ who = "pekko" /\ e.kind = "sync" => request.encoding
  BY RowIs, RowReads DEF Unasked, Raises

\* ServerInv.
LEMMA StoryServerInv ==
  ASSUME RoutesOK, NEW who, Story(who, oracle, s), routes \in Tables,
         request \in [credentials : BOOLEAN, encoding : BOOLEAN]
  PROVE  ServerInv
<1>1. s.at \in 1 .. Len(routes) /\ s.stage \in Stages
  BY DEF Story, Typed
<1>2. PICK x, e : x = oracle[s.at] /\ e = routes[s.at]
  OBVIOUS
<1>3. /\ TypedRow(x) /\ e.kind \in {"sync", "async", "mux"}
      /\ Row(who, x, e, Pending(s.stage, e))
  BY <1>1, <1>2, RowOfRoute
<1>4. s.stage # "done" => Reached(who, s.stage, x, e) /\ s.invalid = Invalid(x)
  BY <1>1, <1>2 DEF Story, AnswerFits
<1>5. ServerTypeOK
  <2>1. Answered <=> s.answer.status # "none"
    <3>1. CASE s.stage = "done"
      BY <3>1 DEF Story, AnswerFits, Answered, Answers, Status, BackendAnswer
    <3>2. CASE s.stage # "done"
      BY <3>2 DEF Story, AnswerFits, Answered, NoAnswer
    <3> QED BY <3>1, <3>2
  <2> QED BY <2>1 DEF Story, Typed, TypedRow, ServerTypeOK
<1>6. Progress
  <2>1. CASE s.stage = "done"
    BY <2>1 DEF Progress, Authorized, Validated, EntityRead, Transformed, Responding
  <2>2. CASE s.stage # "done"
    <3>1. Reached(who, s.stage, x, e) /\ s.invalid = Invalid(x)
      BY <1>4, <2>2
    <3>2. \A c \in {"url", "headers", "added"} : x[c] \in {"valid", "invalid"} => Noted(c)
      BY <1>2, <3>1 DEF Noted, Invalid, Validations
    <3>3. Behind(s.stage, x, e)
      BY <1>1, <1>3, <3>1, RowProgress
    <3> QED BY <1>2, <2>2, <3>1, <3>2, <3>3 DEF Behind, Progress, EntityValid
  <2> QED BY <2>1, <2>2
<1>7. RunsOnlyValidRequests
  <2> SUFFICES ASSUME NEW r \in RoutesRun PROVE RequestValid(r)
    BY DEF RunsOnlyValidRequests
  <2>1. r \in 1 .. Len(routes) /\ oracle[r].run # Unasked
    BY DEF RoutesRun, Story, RanFits
  <2>2. PICK p : Row(who, oracle[r], routes[r], p)
    BY <2>1, RowOfRoute
  <2> QED BY <2>1, <2>2, RowOfRoute, RowRan DEF RequestValid, EntityValid
<1> QED BY <1>5, <1>6, <1>7 DEF ServerInv

\* UnauthorizedFirst.
LEMMA StoryUnauthorizedFirst ==
  ASSUME RoutesOK, NEW who, Story(who, oracle, s)
  PROVE  UnauthorizedFirst
<1> SUFFICES ASSUME NEW r \in 1 .. Len(routes), routes[r].auth, ~request.credentials
             PROVE  /\ \A c \in Checks \ {"method", "url", "headers"} : oracle[r][c] = Unasked
                    /\ s.answer.route = r => s.answer.status \in {"unauthorized", "serverError"}
  BY DEF UnauthorizedFirst
<1>1. PICK x, e, p : x = oracle[r] /\ e = routes[r] /\ Row(who, x, e, p) /\ TypedRow(x)
  BY RowOfRoute
<1>2. \A c \in Checks \ {"method", "url", "headers"} : x[c] = Unasked
  BY <1>1, RowIs, RowReads, ChecksAre DEF Unasked, Raises
<1>3. ASSUME s.answer.route = r PROVE s.answer.status \in {"unauthorized", "serverError"}
  <2>1. s.stage = "done" /\ r = s.at /\ Answers(who, x, e, s.answer.status, s.answer.errors)
    BY <1>1, <1>3 DEF Story, AnswerFits, NoAnswer, BackendAnswer
  <2>2. Row(who, x, e, "done")
    BY <1>1, <2>1, RowOfRoute DEF Pending
  <2>3. ~Left(who, x, e) /\ s.answer.status = Status(who, x, e)
    BY <2>1 DEF Answers
  <2>4. x.headers \in {"valid", "invalid"} \/ x.url = "throws" \/ x.headers = "throws"
    BY <1>1, <2>2, <2>3, RowIs, RowReads DEF Left, Unasked
  <2>5. x.url = "throws" \/ x.headers = "throws" => Threw(who, x, e)
    BY ChecksAre DEF Threw
  <2> QED BY <1>1, <2>3, <2>4, <2>5 DEF Status
<1> QED BY <1>1, <1>2, <1>3

\* AllErrorsReported.
LEMMA StoryAllErrorsReported ==
  ASSUME RoutesOK, NEW who, Story(who, oracle, s)
  PROVE  AllErrorsReported
<1>1. ASSUME s.answer.status = "clientErrors"
      PROVE  s.answer.errors \cap Validations =
               {c \in Validations : oracle[s.answer.route][c] = "invalid"}
  <2>1. /\ s.answer.route = s.at
        /\ s.answer.errors = Errors(who, oracle[s.at], routes[s.at])
    BY <1>1 DEF Story, AnswerFits, NoAnswer, BackendAnswer, Answers
  <2> QED BY <2>1 DEF Errors, Invalid, Validations
<1>2. ASSUME NEW r \in 1 .. Len(routes),
             \E c \in {"url", "headers", "added"} : oracle[r][c] = "invalid"
      PROVE  oracle[r].first = Unasked
  <2>1. PICK p : Row(who, oracle[r], routes[r], p)
    BY RowOfRoute
  <2> QED BY <1>2, <2>1, RowReads
<1> QED BY <1>1, <1>2 DEF AllErrorsReported

\* An exception ends the request, unless it is one of those that the server does not see.
LEMMA StoryThrown ==
  ASSUME RoutesOK, NEW who, Story(who, oracle, s), NEW r \in 1 .. Len(routes),
         Threw(who, oracle[r], routes[r])
  PROVE  s.answer = [status |-> "serverError", route |-> r, errors |-> {}]
<1>1. PICK x, e : x = oracle[r] /\ e = routes[r]
  OBVIOUS
<1>2. TypedRow(x) /\ e.kind \in {"sync", "async", "mux"} /\ Threw(who, x, e)
  BY <1>1, RowOfRoute
<1>3. r = s.at
  <2>1. ~(r > s.at)
    <3>1. SUFFICES ASSUME r > s.at PROVE FALSE
      OBVIOUS
    <3>2. \A c \in Checks : x[c] = Unasked
      BY <1>1, <3>1, RowOfRoute
    <3> QED BY <1>2, <3>2, ChecksAre DEF Threw, Unasked
  <2>2. ~(r < s.at)
    <3>1. SUFFICES ASSUME r < s.at PROVE FALSE
      OBVIOUS
    <3>2. Row(who, x, e, "done") /\ Left(who, x, e)
      BY <1>1, <3>1, RowOfRoute
    <3> QED BY <1>2, <3>2, RowIs, RowReads, ChecksAre DEF Threw, Left, Unasked, Raises
  <2> QED BY <2>1, <2>2, RowOfRoute DEF RoutesOK
<1>4. s.stage = "done"
  <2>1. SUFFICES ASSUME s.stage # "done" PROVE FALSE
    OBVIOUS
  <2>2. Row(who, x, e, Pending(s.stage, e)) /\ Reached(who, s.stage, x, e) /\ s.stage \in Stages
    BY <1>1, <1>3, <2>1, RowOfRoute DEF Story, AnswerFits, Typed
  <2> QED BY <1>2, <2>1, <2>2, RowIs, RowReads, ChecksAre
          DEF Threw, Pending, Reached, Open, Unasked, Raises, Stages
<1>5. ~Left(who, x, e)
  <2>1. Row(who, x, e, "done")
    BY <1>1, <1>3, <1>4, RowOfRoute DEF Pending
  <2> QED BY <1>2, <2>1, RowIs, RowReads, ChecksAre DEF Threw, Left, Unasked, Raises
<1>6. /\ s.answer.route = r /\ s.answer.status = "serverError" /\ s.answer.errors = {}
  BY <1>1, <1>2, <1>3, <1>4, <1>5 DEF Story, AnswerFits, Answers, Status
<1>7. s.answer \in [status : Statuses, route : 0 .. Len(routes), errors : SUBSET Checks]
  BY DEF Story, Typed
<1> QED BY <1>6, <1>7

\* On the http4s server, the route that matches owns the request.
LEMMA StoryFirstMatch ==
  ASSUME RoutesOK, Story("http4s", oracle, s)
  PROVE  Http4s!FirstMatchOwnsRequest
<1> SUFFICES ASSUME NEW r \in 1 .. Len(routes), oracle[r].url \in Validity
             PROVE  (Answered => s.answer.route = r) /\ RoutesRun \subseteq {r}
  <2>1. DOMAIN routes = 1 .. Len(routes)
    BY DEF RoutesOK
  <2> QED BY <2>1 DEF Http4s!FirstMatchOwnsRequest, Http4s!Validity, Validity, Http4s!Answered,
                      Answered, Http4s!RoutesRun, RoutesRun
<1>1. s.at \in 1 .. Len(routes) /\ Len(routes) \in Nat
  BY DEF Story, Typed, RoutesOK
<1>2. ASSUME NEW q \in 1 .. Len(routes), q < s.at
      PROVE  oracle[q].url \notin Validity /\ oracle[q].run = Unasked
  <2>1. TypedRow(oracle[q]) /\ Row("http4s", oracle[q], routes[q], "done")
        /\ Left("http4s", oracle[q], routes[q])
    BY <1>2, RowOfRoute
  <2> QED BY <2>1, RowIs, RowReads DEF Left, Validity, Unasked, Raises
<1>3. ASSUME NEW q \in 1 .. Len(routes), q > s.at
      PROVE  oracle[q].url \notin Validity /\ oracle[q].run = Unasked
  BY <1>3, RowOfRoute, ChecksAre DEF Validity, Unasked
<1>4. r = s.at
  BY <1>1, <1>2, <1>3
<1>5. RoutesRun \subseteq {r}
  <2>1. \A q \in RoutesRun : q \in 1 .. Len(routes) /\ oracle[q].run # Unasked
    BY DEF RoutesRun, Story, RanFits
  <2> QED BY <1>1, <1>2, <1>3, <1>4, <2>1
<1>6. ASSUME Answered PROVE s.answer.route = r
  <2>1. TypedRow(oracle[r]) /\ Row("http4s", oracle[r], routes[r], "done")
    BY <1>4, <1>6, RowOfRoute DEF Answered, Pending
  <2>2. ~Left("http4s", oracle[r], routes[r])
    BY <2>1, RowIs, RowReads DEF Left, Validity, Unasked
  <2> QED BY <1>4, <1>6, <2>2 DEF Answered, Story, AnswerFits
<1> QED BY <1>5, <1>6

\* On the Pekko server, the results that are dropped are those the client does not accept.
LEMMA StoryDropped ==
  ASSUME RoutesOK, Story("pekko", oracle, s)
  PROVE  Pekko!DroppedOnlyIfUnacceptable
<1>1. s.ran \in Seq(1 .. Len(routes)) /\ s.at \in 1 .. Len(routes) /\ Len(routes) \in Nat
  BY DEF Story, Typed, RoutesOK
<1>2. \A i, j \in DOMAIN s.ran : i < j => s.ran[i] < s.ran[j]
  <2>1. DOMAIN s.ran = 1 .. Len(s.ran)
    BY <1>1
  <2> QED BY <2>1 DEF Story, RanFits
<1>3. ASSUME NEW r \in RoutesRun, s.at > r \/ (Answered /\ s.answer.route # r)
      PROVE  oracle[r].run = "value" /\ Pekko!Unacceptable(r)
  <2>1. r \in 1 .. Len(routes) /\ oracle[r].run # Unasked
    BY DEF RoutesRun, Story, RanFits
  <2>2. PICK x, e : x = oracle[r] /\ e = routes[r]
    OBVIOUS
  <2>3. TypedRow(x) /\ e.kind \in {"sync", "async", "mux"} /\ x.run # Unasked
    BY <2>1, <2>2, RowOfRoute
  <2>4. Row("pekko", x, e, "done") /\ Left("pekko", x, e)
    <3>1. CASE s.at > r
      BY <1>1, <2>1, <2>2, <3>1, RowOfRoute
    <3>2. CASE ~(s.at > r)
      <4>1. s.at = r
        BY <1>1, <2>1, <3>2, RowOfRoute, ChecksAre
      <4>2. Row("pekko", x, e, "done")
        BY <1>3, <2>1, <2>2, <3>2, <4>1, RowOfRoute DEF Answered, Pending
      <4>3. Left("pekko", x, e)
        BY <1>3, <2>2, <3>2, <4>1 DEF Answered, Story, AnswerFits
      <4> QED BY <4>2, <4>3
    <3> QED BY <3>1, <3>2
  <2>5. x.run = "value" /\ (x.accept = "no" \/ (e.kind = "async" /\ ~request.encoding))
    BY <2>3, <2>4, RowIs, RowReads DEF Left, Unasked, Raises
  <2> QED BY <2>2, <2>5 DEF Pekko!Unacceptable
<1> QED BY <1>2, <1>3 DEF Pekko!DroppedOnlyIfUnacceptable, Pekko!RoutesRun, RoutesRun,
                          Pekko!Answered, Answered

\* ThrownIsAnswered, of each server.
LEMMA StoryThrownIsAnswered ==
  ASSUME RoutesOK
  PROVE  /\ Story("http4s", oracle, s) => Http4s!ThrownIsAnswered
         /\ Story("pekko", oracle, s) => Pekko!ThrownIsAnswered
<1>1. DOMAIN routes = 1 .. Len(routes)
  BY DEF RoutesOK
<1>2. ASSUME NEW r, Http4s!ThrewOutside(r) PROVE Threw("http4s", oracle[r], routes[r])
  BY <1>2 DEF Http4s!ThrewOutside, Threw
<1>3. ASSUME NEW r, Pekko!ThrewOutside(r) PROVE Threw("pekko", oracle[r], routes[r])
  BY <1>3 DEF Pekko!ThrewOutside, Threw, Pekko!Checks, Checks, Pekko!Verdicts, Verdicts
<1>4. ASSUME Story("http4s", oracle, s) PROVE Http4s!ThrownIsAnswered
  BY <1>1, <1>2, <1>4, StoryThrown DEF Http4s!ThrownIsAnswered
<1>5. ASSUME Story("pekko", oracle, s) PROVE Pekko!ThrownIsAnswered
  BY <1>1, <1>3, <1>5, StoryThrown DEF Pekko!ThrownIsAnswered
<1> QED BY <1>4, <1>5

(***************************************************************************)
(* Of both servers, one after the other. When the Pekko server has the     *)
(* request, what the http4s server left of it is a finished story.         *)
(***************************************************************************)
BothInv ==
  /\ routes \in Tables
  /\ request \in [credentials : BOOLEAN, encoding : BOOLEAN]
  /\ server \in {"http4s", "pekko"}
  /\ Story(server, oracle, s)
  /\ server = "pekko" =>
       Story("http4s", http4sOracle, http4s) /\ http4s.stage = "done" /\ Consistent

\* Every list of endpoints has one.
LEMMA TablesAreOK ==
  ASSUME routes \in Tables
  PROVE  RoutesOK /\ Len(routes) >= 1 /\ DOMAIN routes = 1 .. Len(routes)
<1>1. routes \in Seq(EndpointType) /\ routes # <<>>
  BY TablesAssumption
<1> QED BY <1>1 DEF RoutesOK

LEMMA InitBothInv ==
  ASSUME Init
  PROVE  BothInv
<1>1. RoutesOK /\ Len(routes) >= 1
  BY TablesAreOK DEF Init, InputInit
<1> QED BY <1>1, StartStory DEF Init, InputInit, BothInv

LEMMA StepBothInv ==
  ASSUME BothInv, [Next]_vars
  PROVE  BothInv'
<1>1. RoutesOK /\ Len(routes) >= 1 /\ DOMAIN routes = 1 .. Len(routes)
  BY TablesAreOK DEF BothInv
<1>2. CASE Http4sStep
  <2>1. /\ server = "http4s" /\ server' = "http4s" /\ Http4s!Next
        /\ UNCHANGED <<routes, request>>
    BY <1>2, InputKept DEF Http4sStep
  <2>2. Story("http4s", oracle', s')
    BY <1>1, <2>1, Http4sStory DEF BothInv
  <2>3. Story("http4s", oracle, s)'
    BY <2>1, <2>2, StoryIsRigid, FinishedStoryIsRigid
  <2> QED BY <2>1, <2>3 DEF BothInv
<1>3. CASE Resend
  <2>1. /\ server = "http4s" /\ server' = "pekko" /\ s.stage = "done"
        /\ http4s' = s /\ http4sOracle' = oracle /\ s' = Start
        /\ oracle' = [r \in 1 .. Len(routes) |-> [c \in Checks |-> Unasked]]
        /\ UNCHANGED <<routes, request>>
    BY <1>1, <1>3 DEF Resend, Answered
  <2>2. Story("pekko", oracle', s') /\ Story("http4s", http4sOracle', http4s')
    BY <1>1, <2>1, StartStory DEF BothInv
  <2>3. Story("pekko", oracle, s)' /\ Story("http4s", http4sOracle, http4s)'
    BY <2>1, <2>2, StoryIsRigid, FinishedStoryIsRigid
  <2>4. Consistent'
    BY <1>1, <2>1 DEF Consistent
  <2> QED BY <2>1, <2>3, <2>4 DEF BothInv
<1>4. CASE PekkoStep
  <2>1. /\ server = "pekko" /\ server' = "pekko" /\ Pekko!Next /\ Consistent'
        /\ UNCHANGED <<routes, request, http4s, http4sOracle>>
    BY <1>4, InputKept DEF PekkoStep, http4sVars
  <2>2. Story("pekko", oracle', s') /\ Story("http4s", http4sOracle', http4s')
    BY <1>1, <2>1, PekkoStory DEF BothInv
  <2>3. Story("pekko", oracle, s)' /\ Story("http4s", http4sOracle, http4s)'
    BY <2>1, <2>2, StoryIsRigid, FinishedStoryIsRigid
  <2> QED BY <2>1, <2>3 DEF BothInv
<1>5. CASE UNCHANGED vars
  <2>1. UNCHANGED <<routes, request, server, oracle, s, http4s, http4sOracle>>
    BY <1>5 DEF vars
  <2>2. Story(server, oracle, s)' /\ (server = "pekko" => Story("http4s", http4sOracle, http4s)')
    BY <2>1, StoryIsRigid, FinishedStoryIsRigid DEF BothInv
  <2> QED BY <2>1, <2>2 DEF BothInv, Consistent
<1> QED BY <1>2, <1>3, <1>4, <1>5 DEF Next

(***************************************************************************)
(* The two rows of one endpoint when both servers are finished with it: x  *)
(* of the http4s server, y of the Pekko server.                            *)
(***************************************************************************)
SameVerdicts(x, y) == \A c \in Checks : Unasked \in {x[c], y[c]} \/ x[c] = y[c]

\* But for TriesLaterRoute, which is about other endpoints as well, where they differ.
Differs(x, y, e) ==
  \/ x.transform = "throws" \/ "mapThrows" \in {y.first, y.second}
  \/ e.kind = "mux" /\ y.run = "fails"
  \/ x.run # Unasked /\ (y.accept = "no" \/ (~request.encoding /\ e.kind # "mux"))

\* What both have asked, when they do not differ.
LEMMA RowsAgree ==
  ASSUME NEW x, NEW y, NEW e, e.kind \in {"sync", "async", "mux"},
         TypedRow(x), TypedRow(y), Row("http4s", x, e, "done"), Row("pekko", y, e, "done"),
         SameVerdicts(x, y), ~Differs(x, y, e)
  PROVE  /\ \A c \in {"method", "url", "headers", "added", "first", "second", "transform",
                      "command", "run", "responseHeaders", "responseEntity"} : x[c] = y[c]
         /\ y.accept # "no"
         /\ (e.kind # "mux" /\ x.run # Unasked) => request.encoding
<1>1. \A c \in Checks : x[c] = y[c] \/ x[c] = "unasked" \/ y[c] = "unasked"
  BY DEF SameVerdicts, Unasked
<1>2. x.method = y.method /\ x.url = y.url /\ x.headers = y.headers /\ x.added = y.added
  BY <1>1, RowIs, RowReads, ChecksAre DEF Unasked
<1>3. x.first = y.first
  BY <1>1, <1>2, RowIs, RowReads, ChecksAre DEF Unasked
<1>4. x.second = y.second
  BY <1>1, <1>3, RowIs, RowReads, ChecksAre DEF Unasked, Raises, Differs
<1>5. x.transform = y.transform /\ x.command = y.command
  BY <1>1, <1>3, <1>4, RowIs, RowReads, ChecksAre DEF Unasked
<1>6. x.run = y.run /\ ((e.kind # "mux" /\ x.run # Unasked) => request.encoding)
  BY <1>1, <1>5, RowIs, RowReads, ChecksAre DEF Unasked, Differs
<1>7. x.responseHeaders = y.responseHeaders
  BY <1>1, <1>6, RowIs, RowReads, ChecksAre DEF Unasked
<1>8. y.accept # "no"
  BY <1>6, <1>7, RowIs, RowReads DEF Unasked, Differs
<1>9. x.responseEntity = y.responseEntity
  BY <1>1, <1>7, <1>8, RowIs, RowReads, ChecksAre DEF Unasked
<1> QED BY <1>2, <1>3, <1>4, <1>5, <1>6, <1>7, <1>8, <1>9

\* The endpoint's answers agree, but that the Pekko server goes on when no alternative of the
\* entity could be unmarshalled, and the http4s server leaves the request to the backend.
LEMMA EndpointsAgree ==
  ASSUME NEW x, NEW y, NEW e, e.kind \in {"sync", "async", "mux"},
         TypedRow(x), TypedRow(y), Row("http4s", x, e, "done"), Row("pekko", y, e, "done"),
         SameVerdicts(x, y), ~Differs(x, y, e)
  PROVE  /\ x.run # Unasked <=> y.run # Unasked
         /\ Left("http4s", x, e) => Left("pekko", y, e)
         /\ Left("pekko", y, e) =>
              \/ Left("http4s", x, e)
              \/ /\ y.second \in {"mediaType", "decoderThrows"}
                 /\ Status("http4s", x, e) = "backend"
         /\ ~Left("pekko", y, e) =>
              /\ Status("http4s", x, e) = Status("pekko", y, e)
              /\ Errors("http4s", x, e) = Errors("pekko", y, e)
<1>1. /\ \A c \in {"method", "url", "headers", "added", "first", "second", "transform",
                   "command", "run", "responseHeaders", "responseEntity"} : x[c] = y[c]
      /\ y.accept # "no"
      /\ (e.kind # "mux" /\ x.run # Unasked) => request.encoding
  BY RowsAgree
<1>2. Left("http4s", x, e) <=> y.method = "no" \/ y.url = "none"
  BY <1>1 DEF Left
<1>3. Left("http4s", x, e) => Left("pekko", y, e)
  BY <1>2 DEF Left
<1>4. Left("pekko", y, e) =>
        Left("http4s", x, e) \/ y.second \in {"mediaType", "decoderThrows"}
  BY <1>1, <1>2, RowReads DEF Left, Unasked
<1>5. Invalid(x) = Invalid(y)
  BY <1>1 DEF Invalid, Validations
<1>6. Errors("http4s", x, e) = Errors("pekko", y, e)
  BY <1>5 DEF Errors, Differs
<1>7. Threw("http4s", x, e) <=> Threw("pekko", y, e)
  <2>1. x.transform # "throws" /\ y.transform # "throws" /\ y.first # "mapThrows"
        /\ y.second # "mapThrows" /\ ~(e.kind = "mux" /\ y.run = "fails")
    BY <1>1 DEF Differs
  <2>2. Threw("http4s", x, e) <=>
          \/ \E c \in {"url", "headers", "added", "command", "responseHeaders",
                       "responseEntity"} : y[c] = "throws"
          \/ y.run \in {"throws", "fails"}
    BY <1>1 DEF Threw
  <2>3. Threw("pekko", y, e) <=>
          \/ \E c \in {"url", "headers", "added", "command", "responseHeaders",
                       "responseEntity"} : y[c] = "throws"
          \/ y.run \in {"throws", "fails"}
    BY <2>1, RowIs, ChecksAre DEF Threw, Unasked
  <2> QED BY <2>2, <2>3
<1>8. y.second \in {"mediaType", "decoderThrows"} => Status("http4s", x, e) = "backend"
  <2>1. ASSUME x.second \in {"mediaType", "decoderThrows"}
        PROVE  ~Threw("http4s", x, e) /\ Errors("http4s", x, e) = {}
               /\ ~(e.auth /\ ~request.credentials) /\ x.responseEntity # "ok"
    BY <2>1, RowIs, RowReads, ChecksAre
       DEF Threw, Errors, Invalid, Validations, Unasked, Raises
  <2> QED BY <1>1, <2>1 DEF Status
<1>9. Status("http4s", x, e) = Status("pekko", y, e)
  BY <1>1, <1>6, <1>7 DEF Status
<1> QED BY <1>1, <1>3, <1>4, <1>6, <1>8, <1>9

\* What a finished story says of the rows.
LEMMA DoneRows ==
  ASSUME RoutesOK, NEW who, NEW o, NEW t, Story(who, o, t), t.stage = "done",
         NEW r \in 1 .. Len(routes)
  PROVE  /\ TypedRow(o[r]) /\ t.at \in 1 .. Len(routes) /\ Len(routes) \in Nat
         /\ r > t.at => \A c \in Checks : o[r][c] = Unasked
         /\ r <= t.at => Row(who, o[r], routes[r], "done")
         /\ r < t.at => Left(who, o[r], routes[r])
<1>1. TypedRow(o[r]) /\ t.at \in 1 .. Len(routes) /\ Len(routes) \in Nat
  BY DEF Story, Typed, RoutesOK
<1>2. Row(who, o[r], routes[r], IF r < t.at THEN "done" ELSE IF r > t.at THEN "method"
                                ELSE "done")
  BY DEF Story, RowsFit, Pending
<1>3. r > t.at => \A c \in Checks : o[r][c] = Unasked
  BY <1>1, <1>2, RowAhead
<1>4. r <= t.at => Row(who, o[r], routes[r], "done")
  BY <1>1, <1>2
<1> QED BY <1>1, <1>3, <1>4 DEF Story

\* Two increasing sequences of the same elements, of which there is at most one.
LEMMA SameRuns ==
  ASSUME NEW n \in Nat, NEW u \in Seq(1 .. n), NEW v \in Seq(1 .. n), NEW a,
         \A i, j \in 1 .. Len(u) : i < j => u[i] < u[j],
         \A i, j \in 1 .. Len(v) : i < j => v[i] < v[j],
         {u[i] : i \in 1 .. Len(u)} = {v[i] : i \in 1 .. Len(v)},
         \A i \in 1 .. Len(u) : u[i] = a
  PROVE  u = v
<1>1. \A i \in 1 .. Len(v) : v[i] = a
  OBVIOUS
<1>2. /\ Len(u) \in Nat /\ Len(v) \in Nat
      /\ \A i \in 1 .. Len(u) : u[i] \in Nat
      /\ \A i \in 1 .. Len(v) : v[i] \in Nat
  OBVIOUS
<1>3. Len(u) <= 1
  <2> SUFFICES ASSUME Len(u) >= 2 PROVE FALSE
    BY <1>2
  <2>1. 1 \in 1 .. Len(u) /\ 2 \in 1 .. Len(u)
    BY <1>2
  <2>2. u[1] < u[2] /\ u[1] = a /\ u[2] = a /\ u[1] \in Nat
    BY <1>2, <2>1
  <2> QED BY <2>2
<1>4. Len(v) <= 1
  <2> SUFFICES ASSUME Len(v) >= 2 PROVE FALSE
    BY <1>2
  <2>1. 1 \in 1 .. Len(v) /\ 2 \in 1 .. Len(v)
    BY <1>2
  <2>2. v[1] < v[2] /\ v[1] = a /\ v[2] = a /\ v[1] \in Nat
    BY <1>1, <1>2, <2>1
  <2> QED BY <2>2
<1>5. Len(u) = Len(v)
  <2>1. 1 \in 1 .. Len(u) => \E i \in 1 .. Len(v) : v[i] = u[1]
    OBVIOUS
  <2>2. 1 \in 1 .. Len(v) => \E i \in 1 .. Len(u) : u[i] = v[1]
    OBVIOUS
  <2> QED BY <1>2, <1>3, <1>4, <2>1, <2>2
<1>6. \A i \in 1 .. Len(u) : u[i] = v[i]
  BY <1>1, <1>5
<1> QED BY <1>5, <1>6, SeqEqual

\* InterpretersAgree.
LEMMA StoriesAgree ==
  ASSUME BothInv
  PROVE  InterpretersAgree
<1> SUFFICES ASSUME server = "pekko", s.stage = "done",
                    ~ \E r \in DOMAIN routes :
                        MappingThrows(r) \/ TriesLaterRoute(r) \/ HandlerFails(r) \/ NotAccepted(r)
             PROVE  SameAnswer(http4s.answer, s.answer) /\ http4s.ran = s.ran
  BY DEF InterpretersAgree, Answered
<1>1. RoutesOK /\ DOMAIN routes = 1 .. Len(routes)
  BY TablesAreOK DEF BothInv
<1>2. PICK a, b : a = http4s.at /\ b = s.at
  OBVIOUS
<1>3. /\ Story("http4s", http4sOracle, http4s) /\ http4s.stage = "done"
      /\ Story("pekko", oracle, s) /\ Consistent
  BY DEF BothInv
<1>4. a \in 1 .. Len(routes) /\ b \in 1 .. Len(routes) /\ Len(routes) \in Nat
  BY <1>1, <1>2, <1>3 DEF Story, Typed, RoutesOK
<1>5. ASSUME NEW r \in 1 .. Len(routes), r <= a, r <= b, NEW x, x = http4sOracle[r],
             NEW y, y = oracle[r], NEW e, e = routes[r]
      PROVE  /\ TypedRow(x) /\ TypedRow(y) /\ e.kind \in {"sync", "async", "mux"}
             /\ Row("http4s", x, e, "done") /\ Row("pekko", y, e, "done")
             /\ SameVerdicts(x, y) /\ ~Differs(x, y, e)
  <2>1. /\ TypedRow(x) /\ TypedRow(y) /\ e.kind \in {"sync", "async", "mux"}
        /\ Row("http4s", x, e, "done") /\ Row("pekko", y, e, "done")
    BY <1>1, <1>2, <1>3, <1>5, DoneRows, RoutesAre
  <2>2. SameVerdicts(x, y)
    BY <1>1, <1>3, <1>5 DEF Consistent, SameVerdicts
  <2>3. ~Differs(x, y, e)
    <3>1. /\ ~MappingThrows(r) /\ ~HandlerFails(r) /\ ~NotAccepted(r)
      BY <1>1
    <3> QED BY <1>5, <3>1 DEF MappingThrows, HandlerFails, NotAccepted, Differs
  <2> QED BY <2>1, <2>2, <2>3
<1>6. ASSUME NEW r \in 1 .. Len(routes), r <= a, r <= b
      PROVE  /\ http4sOracle[r].run # Unasked <=> oracle[r].run # Unasked
             /\ Left("http4s", http4sOracle[r], routes[r]) => Left("pekko", oracle[r], routes[r])
             /\ Left("pekko", oracle[r], routes[r]) =>
                  \/ Left("http4s", http4sOracle[r], routes[r])
                  \/ /\ oracle[r].second \in {"mediaType", "decoderThrows"}
                     /\ Status("http4s", http4sOracle[r], routes[r]) = "backend"
             /\ ~Left("pekko", oracle[r], routes[r]) =>
                  /\ Status("http4s", http4sOracle[r], routes[r])
                       = Status("pekko", oracle[r], routes[r])
                  /\ Errors("http4s", http4sOracle[r], routes[r])
                       = Errors("pekko", oracle[r], routes[r])
  BY <1>5, <1>6, EndpointsAgree
\* How each of the two ended.
<1>7. IF Left("http4s", http4sOracle[a], routes[a])
      THEN a = Len(routes) /\ http4s.answer = BackendAnswer
      ELSE /\ http4s.answer.route = a
           /\ Answers("http4s", http4sOracle[a], routes[a], http4s.answer.status,
                      http4s.answer.errors)
  BY <1>2, <1>3 DEF Story, AnswerFits
<1>8. IF Left("pekko", oracle[b], routes[b])
      THEN b = Len(routes) /\ s.answer = BackendAnswer
      ELSE /\ s.answer.route = b
           /\ Answers("pekko", oracle[b], routes[b], s.answer.status, s.answer.errors)
  BY <1>2, <1>3 DEF Story, AnswerFits
\* The http4s server goes no further than the Pekko server.
<1>9. a <= b
  <2>1. SUFFICES ASSUME b < a PROVE FALSE
    BY <1>4
  <2>2. Left("http4s", http4sOracle[b], routes[b])
    BY <1>1, <1>2, <1>3, <1>4, <2>1, DoneRows
  <2>3. Left("pekko", oracle[b], routes[b])
    BY <1>4, <1>6, <2>1, <2>2
  <2> QED BY <1>4, <1>8, <2>1, <2>3
\* If the Pekko server goes further, it finds nothing there.
<1>10. ASSUME a < b
       PROVE  /\ oracle[a].second \in {"mediaType", "decoderThrows"}
              /\ Status("http4s", http4sOracle[a], routes[a]) = "backend"
              /\ ~Left("http4s", http4sOracle[a], routes[a])
              /\ \A q \in a + 1 .. Len(routes) : oracle[q].url \notin Validity
              /\ Left("pekko", oracle[b], routes[b])
              /\ \A q \in a + 1 .. b : oracle[q].run = Unasked
  <2>1. Left("pekko", oracle[a], routes[a])
    BY <1>1, <1>2, <1>3, <1>4, <1>10, DoneRows
  <2>2. ~Left("http4s", http4sOracle[a], routes[a])
    BY <1>4, <1>7, <1>10
  <2>3. /\ oracle[a].second \in {"mediaType", "decoderThrows"}
        /\ Status("http4s", http4sOracle[a], routes[a]) = "backend"
    BY <1>4, <1>6, <1>9, <2>1, <2>2
  <2>4. \A q \in a + 1 .. Len(routes) : oracle[q].url \notin Validity
    <3>1. ~TriesLaterRoute(a)
      BY <1>1, <1>4
    <3> QED BY <2>3, <3>1 DEF TriesLaterRoute
  <2>5. ASSUME NEW q \in a + 1 .. b
        PROVE  oracle[q].run = Unasked /\ Left("pekko", oracle[q], routes[q])
    <3>1. q \in 1 .. Len(routes) /\ q <= b /\ q \in a + 1 .. Len(routes)
      BY <1>4
    <3>2. TypedRow(oracle[q]) /\ Row("pekko", oracle[q], routes[q], "done")
      BY <1>1, <1>2, <1>3, <3>1, DoneRows
    <3>3. oracle[q].method = "no" \/ oracle[q].url = "none"
      BY <2>4, <3>1, <3>2, RowIs, RowReads DEF Validity, Unasked
    <3> QED BY <3>2, <3>3, RowIs, RowReads DEF Left, Unasked, Raises
  <2>6. b \in a + 1 .. b
    BY <1>4, <1>10
  <2> QED BY <2>2, <2>3, <2>4, <2>5, <2>6
<1>11. SameAnswer(http4s.answer, s.answer)
  <2>1. CASE Left("pekko", oracle[b], routes[b])
    <3>1. s.answer.status = "backend" /\ s.answer.errors = {}
      BY <1>8, <2>1 DEF BackendAnswer
    <3>2. CASE Left("http4s", http4sOracle[a], routes[a])
      BY <1>7, <3>1, <3>2 DEF BackendAnswer, SameAnswer
    <3>3. CASE ~Left("http4s", http4sOracle[a], routes[a])
      <4>1. Status("http4s", http4sOracle[a], routes[a]) = "backend"
        BY <1>4, <1>6, <1>9, <1>10, <2>1, <3>3
      <4> QED BY <1>7, <3>1, <3>3, <4>1 DEF Answers, SameAnswer
    <3> QED BY <3>2, <3>3
  <2>2. CASE ~Left("pekko", oracle[b], routes[b])
    <3>1. a = b
      BY <1>4, <1>9, <1>10, <2>2
    <3>2. /\ ~Left("http4s", http4sOracle[a], routes[a])
          /\ Status("http4s", http4sOracle[a], routes[a]) = Status("pekko", oracle[b], routes[b])
          /\ Errors("http4s", http4sOracle[a], routes[a]) = Errors("pekko", oracle[b], routes[b])
      BY <1>4, <1>6, <2>2, <3>1
    <3>3. http4s.answer.status = s.answer.status /\ http4s.answer.errors = s.answer.errors
      BY <1>7, <1>8, <2>2, <3>2 DEF Answers
    <3> QED BY <1>7, <1>8, <2>2, <3>1, <3>2, <3>3 DEF SameAnswer
  <2> QED BY <2>1, <2>2
\* Only the last route of the http4s server can have run.
<1>12. \A r \in 1 .. Len(routes) : http4sOracle[r].run # Unasked => r = a
  <2> SUFFICES ASSUME NEW r \in 1 .. Len(routes), r # a PROVE http4sOracle[r].run = Unasked
    OBVIOUS
  <2>1. CASE r < a
    <3>1. /\ TypedRow(http4sOracle[r]) /\ Row("http4s", http4sOracle[r], routes[r], "done")
          /\ Left("http4s", http4sOracle[r], routes[r])
      BY <1>1, <1>2, <1>3, <1>4, <2>1, DoneRows
    <3> QED BY <3>1, RowIs, RowReads DEF Left, Unasked, Raises
  <2>2. CASE r > a
    BY <1>1, <1>2, <1>3, <2>2, DoneRows, ChecksAre
  <2> QED BY <1>4, <2>1, <2>2
<1>13. \A r \in 1 .. Len(routes) : http4sOracle[r].run # Unasked <=> oracle[r].run # Unasked
  <2> SUFFICES ASSUME NEW r \in 1 .. Len(routes)
               PROVE  http4sOracle[r].run # Unasked <=> oracle[r].run # Unasked
    OBVIOUS
  <2>1. CASE r <= a
    BY <1>4, <1>6, <1>9, <2>1
  <2>2. CASE r > a /\ r <= b
    <3>1. a < b /\ r \in a + 1 .. b
      BY <1>4, <2>2
    <3> QED BY <1>10, <1>12, <2>2, <3>1
  <2>3. CASE r > b
    <3>1. oracle[r].run = Unasked
      BY <1>1, <1>2, <1>3, <2>3, DoneRows, ChecksAre
    <3>2. r # a
      BY <1>4, <1>9, <2>3
    <3> QED BY <1>12, <3>1, <3>2
  <2> QED BY <1>4, <2>1, <2>2, <2>3
<1>14. http4s.ran = s.ran
  <2>1. PICK u, v : u = http4s.ran /\ v = s.ran
    OBVIOUS
  <2>2. /\ u \in Seq(1 .. Len(routes)) /\ v \in Seq(1 .. Len(routes))
        /\ \A i, j \in 1 .. Len(u) : i < j => u[i] < u[j]
        /\ \A i, j \in 1 .. Len(v) : i < j => v[i] < v[j]
        /\ {u[i] : i \in 1 .. Len(u)} = {r \in 1 .. Len(routes) : http4sOracle[r].run # Unasked}
        /\ {v[i] : i \in 1 .. Len(v)} = {r \in 1 .. Len(routes) : oracle[r].run # Unasked}
    BY <1>3, <2>1 DEF Story, Typed, RanFits
  <2>3. {u[i] : i \in 1 .. Len(u)} = {v[i] : i \in 1 .. Len(v)}
    BY <1>13, <2>2
  <2>4. \A i \in 1 .. Len(u) : u[i] = a
    BY <1>12, <2>2
  <2>5. u = v
    BY <1>4, <2>2, <2>3, <2>4, SameRuns
  <2> QED BY <2>1, <2>5
<1> QED BY <1>11, <1>14

(***************************************************************************)
(* Both servers, whichever has the request, have asked exactly the checks  *)
(* that the answers of the earlier ones lead to, and have drawn from them  *)
(* what follows; and the Pekko server is asked nothing that contradicts    *)
(* what the http4s server was answered.                                    *)
(***************************************************************************)
THEOREM InvariantHolds == Spec => []BothInv
BY InitBothInv, StepBothInv, PTL DEF Spec

(***************************************************************************)
(* Whichever server has the request, it knows at each stage what it has    *)
(* checked: typed, and with the stages that the decoding went through.     *)
(***************************************************************************)
THEOREM ServerInvariant == Spec => []ServerInv
<1>1. BothInv => ServerInv
  BY TablesAreOK, StoryServerInv DEF BothInv
<1> QED BY <1>1, InvariantHolds, PTL

(***************************************************************************)
(* On either server an implementation runs only on a request that passed   *)
(* every check of its endpoint.                                            *)
(***************************************************************************)
THEOREM OnlyValidRequestsRun == Spec => []RunsOnlyValidRequests
BY ServerInvariant, PTL DEF ServerInv

(***************************************************************************)
(* On either server a request without credentials learns nothing of an     *)
(* endpoint that asks for them.                                            *)
(***************************************************************************)
THEOREM UnauthorizedAnsweredFirst == Spec => []UnauthorizedFirst
<1>1. BothInv => UnauthorizedFirst
  BY TablesAreOK, StoryUnauthorizedFirst DEF BothInv
<1> QED BY <1>1, InvariantHolds, PTL

(***************************************************************************)
(* A 400 of either server lists every part of the request that was found   *)
(* invalid.                                                                *)
(***************************************************************************)
THEOREM ReportsAreComplete == Spec => []AllErrorsReported
<1>1. BothInv => AllErrorsReported
  BY TablesAreOK, StoryAllErrorsReported DEF BothInv
<1> QED BY <1>1, InvariantHolds, PTL

(***************************************************************************)
(* On the http4s server the first route that matches owns the request, and *)
(* no other answers it or runs, among any number of routes.                *)
(***************************************************************************)
THEOREM FirstMatchWins == Spec => []FirstMatchOwnsRequest
<1>1. BothInv => FirstMatchOwnsRequest
  BY TablesAreOK, StoryFirstMatch DEF BothInv, FirstMatchOwnsRequest
<1> QED BY <1>1, InvariantHolds, PTL

(***************************************************************************)
(* On the Pekko server implementations run in the order of the routes,     *)
(* each at most once, and the result of one is only dropped when the       *)
(* client does not accept its response.                                    *)
(***************************************************************************)
THEOREM ResultsAreDroppedRightly == Spec => []DroppedOnlyIfUnacceptable
<1>1. BothInv => DroppedOnlyIfUnacceptable
  BY TablesAreOK, StoryDropped DEF BothInv, DroppedOnlyIfUnacceptable
<1> QED BY <1>1, InvariantHolds, PTL

(***************************************************************************)
(* On both servers an exception ends the request with a server error of    *)
(* the endpoint that threw it, but for the exceptions that each server     *)
(* does not see or takes for a rejection.                                  *)
(***************************************************************************)
THEOREM ExceptionsAreAnswered == Spec => []ThrownIsAnswered
<1>1. BothInv => ThrownIsAnswered
  BY TablesAreOK, StoryThrownIsAnswered DEF BothInv, ThrownIsAnswered
<1> QED BY <1>1, InvariantHolds, PTL

(***************************************************************************)
(* The two servers run the same implementations and give the same answer,  *)
(* for any number of endpoints and whatever decoders and implementations   *)
(* answer, unless one of the four listed differences occurs.               *)
(***************************************************************************)
THEOREM ServersAgree == Spec => []InterpretersAgree
BY StoriesAgree, InvariantHolds, PTL
(***************************************************************************)
(* Each server on its own, on a request that no other server has had: its  *)
(* story is an inductive invariant of its own specification too.           *)
(***************************************************************************)
Alone(who) ==
  /\ routes \in Tables
  /\ request \in [credentials : BOOLEAN, encoding : BOOLEAN]
  /\ Story(who, oracle, s)

\* The request comes in.
LEMMA AloneStarts ==
  ASSUME NEW who, Http4s!Init \/ Pekko!Init
  PROVE  Alone(who)
<1>1. InputInit /\ s = Start
  BY DEF Http4s!Init, Pekko!Init, Http4s!InputInit, Pekko!InputInit, InputInit,
         Http4s!Start, Pekko!Start, Start, Http4s!NoAnswer, Pekko!NoAnswer, NoAnswer,
         Http4s!Checks, Pekko!Checks, Checks, Http4s!Verdicts, Pekko!Verdicts, Verdicts,
         Http4s!Validity, Pekko!Validity, Validity, Http4s!Raises, Pekko!Raises, Raises,
         Http4s!Unasked, Pekko!Unasked, Unasked
<1>2. RoutesOK /\ Len(routes) >= 1
  BY <1>1, TablesAreOK DEF InputInit
<1> QED BY <1>1, <1>2, StartStory DEF InputInit, Alone

\* A step of a server, or a stutter.
LEMMA AloneGoesOn ==
  ASSUME NEW who, Alone(who),
         \/ who = "http4s" /\ [Http4s!Next]_Http4s!vars
         \/ who = "pekko" /\ [Pekko!Next]_Pekko!vars
  PROVE  Alone(who)'
<1>1. RoutesOK
  BY TablesAreOK DEF Alone
<1>2. CASE (who = "http4s" /\ Http4s!Next) \/ (who = "pekko" /\ Pekko!Next)
  <2>1. UNCHANGED <<routes, request>>
    BY <1>2, InputKept
  <2>2. Story(who, oracle', s')
    BY <1>1, <1>2, Http4sStory, PekkoStory DEF Alone
  <2>3. Story(who, oracle, s)'
    BY <2>1, <2>2, StoryIsRigid
  <2> QED BY <2>1, <2>3 DEF Alone
<1>3. CASE UNCHANGED <<routes, request, oracle, s>>
  <2>1. Story(who, oracle', s')
    BY <1>3 DEF Alone
  <2>2. UNCHANGED <<routes, request>>
    BY <1>3
  <2>3. Story(who, oracle, s)'
    BY <2>1, <2>2, StoryIsRigid
  <2> QED BY <2>2, <2>3 DEF Alone
<1>4. \/ who = "http4s" /\ Http4s!Next
      \/ who = "pekko" /\ Pekko!Next
      \/ UNCHANGED Http4s!vars \/ UNCHANGED Pekko!vars
  OBVIOUS
<1>5. UNCHANGED Http4s!vars \/ UNCHANGED Pekko!vars => UNCHANGED <<routes, request, oracle, s>>
  BY DEF Http4s!vars, Pekko!vars
<1> QED BY <1>2, <1>3, <1>4, <1>5

(***************************************************************************)
(* The http4s server: it knows at each stage what it has checked, runs an  *)
(* implementation only on a request that passed every check, tells nothing *)
(* of an endpoint to whom it does not know, reports every part that is     *)
(* invalid, lets the first route that matches own the request, and answers *)
(* exceptions, for any number of endpoints.                                *)
(***************************************************************************)
THEOREM Http4sServerIsRight ==
  Http4s!Spec => [](/\ ServerInv /\ UnauthorizedFirst /\ AllErrorsReported
                    /\ Http4s!FirstMatchOwnsRequest /\ Http4s!ThrownIsAnswered)
<1>1. Http4s!Init => Alone("http4s")
  BY AloneStarts
<1>2. Alone("http4s") /\ [Http4s!Next]_Http4s!vars => Alone("http4s")'
  BY AloneGoesOn
<1>3. Alone("http4s") => /\ ServerInv /\ UnauthorizedFirst /\ AllErrorsReported
                         /\ Http4s!FirstMatchOwnsRequest /\ Http4s!ThrownIsAnswered
  BY TablesAreOK, StoryServerInv, StoryUnauthorizedFirst, StoryAllErrorsReported,
     StoryFirstMatch, StoryThrownIsAnswered DEF Alone
<1> QED BY <1>1, <1>2, <1>3, PTL DEF Http4s!Spec

(***************************************************************************)
(* The Pekko server: the same, but that routes are tried after one that    *)
(* matched; the implementations run in the order of the routes, each at    *)
(* most once, and a result is only dropped when the client does not accept *)
(* its response.                                                           *)
(***************************************************************************)
THEOREM PekkoServerIsRight ==
  Pekko!Spec => [](/\ ServerInv /\ UnauthorizedFirst /\ AllErrorsReported
                   /\ Pekko!DroppedOnlyIfUnacceptable /\ Pekko!ThrownIsAnswered)
<1>1. Pekko!Init => Alone("pekko")
  BY AloneStarts
<1>2. Alone("pekko") /\ [Pekko!Next]_Pekko!vars => Alone("pekko")'
  BY AloneGoesOn
<1>3. Alone("pekko") => /\ ServerInv /\ UnauthorizedFirst /\ AllErrorsReported
                        /\ Pekko!DroppedOnlyIfUnacceptable /\ Pekko!ThrownIsAnswered
  BY TablesAreOK, StoryServerInv, StoryUnauthorizedFirst, StoryAllErrorsReported,
     StoryDropped, StoryThrownIsAnswered DEF Alone
<1> QED BY <1>1, <1>2, <1>3, PTL DEF Pekko!Spec
=============================================================================
