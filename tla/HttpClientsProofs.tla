-------------------------- MODULE HttpClientsProofs --------------------------
(***************************************************************************)
(* IInv, OutcomeExplained and StreamsHandedOverOpen hold of the clients,   *)
(* for any calls, endpoints, answers and size of the pool.                 *)
(***************************************************************************)
EXTENDS HttpClients, FiniteSetTheorems, WellFoundedInduction, SequenceTheorems, TLAPS

\* Indexes have a least one.
LEMMA LeastIndex ==
  ASSUME NEW T \in SUBSET Nat, T # {}
  PROVE  \E i \in T : \A j \in T : i <= j
<1> DEFINE less == {ss \in Nat \X Nat : ss[1] < ss[2]}
<1>1. IsWellFoundedOn(less, Nat)
  BY NatLessThanWellFounded DEF OpToRel
<1>2. \E i \in T : \A j \in T : <<j, i>> \notin less
  <2> HIDE DEF less
  <2> QED BY <1>1, WFMin
<1>3. PICK i \in T : \A j \in T : <<j, i>> \notin less
  BY <1>2
<1>4. ASSUME NEW j \in T PROVE i <= j
  <2>1. i \in Nat /\ j \in Nat /\ <<j, i>> \notin less
    BY <1>3
  <2>2. <<j, i>> \in Nat \X Nat /\ <<j, i>>[1] = j /\ <<j, i>>[2] = i
    BY <2>1
  <2>3. ~(j < i)
    BY <2>1, <2>2
  <2> QED BY <2>1, <2>3
<1> QED BY <1>4

LEMMA ErrorResponsesType ==
  /\ ErrorResponses \in Seq(ResponseType)
  /\ Len(ErrorResponses) = 2
  /\ ErrorResponses[1].status = "clientErrors"
  /\ ErrorResponses[2].status = "serverError"
BY DEF ErrorResponses, ResponseType, Statuses, Entities

LEMMA ResponsesAre ==
  ASSUME NEW e \in EndpointType
  PROVE  LET n == Len(e.responses)
         IN  /\ n \in Nat
             /\ DOMAIN e.responses = 1..n
             /\ DOMAIN Responses(e) = 1..(n + 2)
             /\ \A i \in 1..(n + 2) :
                  /\ Responses(e)[i] = IF i <= n THEN e.responses[i] ELSE ErrorResponses[i - n]
                  /\ Responses(e)[i] \in ResponseType
<1>1. e.responses \in Seq(ResponseType)
  BY DEF EndpointType
<1> DEFINE n == Len(e.responses)
<1>2. n \in Nat /\ DOMAIN e.responses = 1..n /\ \A i \in 1..n : e.responses[i] \in ResponseType
  BY <1>1, LenProperties
<1>3. \A i \in 1..2 : ErrorResponses[i] \in ResponseType
  BY ErrorResponsesType, LenProperties
<1>4. /\ Responses(e) \in Seq(ResponseType)
      /\ Len(Responses(e)) = n + 2
      /\ \A i \in 1..(n + 2) :
           Responses(e)[i] = IF i <= n THEN e.responses[i] ELSE ErrorResponses[i - n]
  <2> DEFINE s1 == e.responses
             s2 == ErrorResponses
  <2>1. s1 \in Seq(ResponseType) /\ s2 \in Seq(ResponseType) /\ Len(s2) = 2
    BY <1>1, ErrorResponsesType
  <2>2. Responses(e) = s1 \o s2
    BY DEF Responses
  <2> HIDE DEF s1, s2
  <2>3. /\ s1 \o s2 \in Seq(ResponseType)
        /\ Len(s1 \o s2) = Len(s1) + Len(s2)
        /\ \A i \in 1 .. Len(s1) + Len(s2) :
             (s1 \o s2)[i] = IF i <= Len(s1) THEN s1[i] ELSE s2[i - Len(s1)]
    BY <2>1, ConcatProperties
  <2> QED BY <2>1, <2>2, <2>3 DEF s1, s2
<1>5. DOMAIN Responses(e) = 1..(n + 2)
  BY <1>4, LenProperties
<1> HIDE DEF n
<1> QED BY <1>2, <1>3, <1>4, <1>5 DEF n

\* What is selected is what the answer is meant to be.
LEMMA SelectedIsMeant ==
  ASSUME NEW e \in EndpointType, NEW a \in AnswerType
  PROVE  /\ Matching(e, a) = {} => Meant(e, a) = {}
         /\ Matching(e, a) # {} => /\ Selected(e, a) \in Meant(e, a)
                                   /\ Selected(e, a) \in ResponseType
<1> DEFINE n == Len(e.responses)
           declared == {i \in DOMAIN e.responses : e.responses[i].status = a.status}
<1>1. /\ n \in Nat
      /\ DOMAIN e.responses = 1..n
      /\ DOMAIN Responses(e) = 1..(n + 2)
      /\ \A i \in 1..(n + 2) :
           /\ Responses(e)[i] = IF i <= n THEN e.responses[i] ELSE ErrorResponses[i - n]
           /\ Responses(e)[i] \in ResponseType
  BY ResponsesAre
<1> HIDE DEF n
<1>2. \A i \in 1..n : i \in 1..(n + 2) /\ Responses(e)[i] = e.responses[i]
  BY <1>1
<1>3. /\ n + 1 \in 1..(n + 2) /\ Responses(e)[n + 1] = ErrorResponses[1]
      /\ n + 2 \in 1..(n + 2) /\ Responses(e)[n + 2] = ErrorResponses[2]
      /\ \A i \in 1..(n + 2) : i \in 1..n \/ i = n + 1 \/ i = n + 2
  BY <1>1
<1>4. ASSUME Matching(e, a) = {} PROVE Meant(e, a) = {}
  <2>1. declared = {}
    BY <1>1, <1>2, <1>4 DEF Matching
  <2>2. ErrorResponses[1].status # a.status /\ ErrorResponses[2].status # a.status
    BY <1>1, <1>3, <1>4 DEF Matching
  <2> QED BY <2>1, <2>2 DEF Meant
<1>5. ASSUME Matching(e, a) # {}
      PROVE  Selected(e, a) \in Meant(e, a) /\ Selected(e, a) \in ResponseType
  <2>1. Matching(e, a) \subseteq 1..(n + 2) /\ Matching(e, a) \in SUBSET Nat
    BY <1>1 DEF Matching
  <2>2. PICK i \in Matching(e, a) : /\ Selected(e, a) = Responses(e)[i]
                                    /\ \A j \in Matching(e, a) : i <= j
    BY <1>5, <2>1, LeastIndex DEF Selected
  <2>3. i \in 1..(n + 2) /\ Responses(e)[i].status = a.status
    BY <2>1, <2>2 DEF Matching
  <2>4. CASE i \in 1..n
    <3>1. i \in declared /\ Selected(e, a) = e.responses[i]
      BY <1>1, <1>2, <2>2, <2>3, <2>4
    <3>2. declared \subseteq Matching(e, a)
      BY <1>1, <1>2 DEF Matching
    <3> QED BY <1>1, <2>2, <2>3, <3>1, <3>2 DEF Meant
  <2>5. CASE i \notin 1..n
    <3>1. declared = {}
      <4> SUFFICES ASSUME NEW j \in declared PROVE FALSE
        OBVIOUS
      <4>1. j \in 1..n /\ j \in Matching(e, a)
        BY <1>1, <1>2 DEF Matching
      <4> QED BY <1>1, <2>2, <2>3, <2>5, <4>1
    <3>2. Selected(e, a) \in {ErrorResponses[1], ErrorResponses[2]}
      BY <1>3, <2>2, <2>3, <2>5
    <3> QED BY <1>1, <2>2, <2>3, <3>1, <3>2 DEF Meant
  <2> QED BY <2>4, <2>5
<1> QED BY <1>4, <1>5

\* A response that is neither of the built-in ones is one of the endpoint's.
LEMMA MeantIsDeclared ==
  ASSUME NEW e \in EndpointType, NEW a \in AnswerType, NEW r \in Meant(e, a),
         r.entity # "decoded"
  PROVE  \E i \in DOMAIN e.responses : r = e.responses[i]
BY DEF Meant, ErrorResponses

\* The verdict of http4s and sttp.
LEMMA HeadersFirstExplained ==
  ASSUME NEW e \in EndpointType, NEW a \in AnswerType, Matching(e, a) # {}
  PROVE  /\ HeadersFirst(e, Selected(e, a), a) \in Outcomes \ NoVerdict
         /\ Explained(HeadersFirst(e, Selected(e, a), a), e, a)
<1> DEFINE r == Selected(e, a)
<1>1. r \in Meant(e, a) /\ r \in ResponseType
  BY SelectedIsMeant
<1> HIDE DEF r
<1>2. Own(r, a) \in HeaderValues /\ Added(e, r, a) \in HeaderValues
  BY <1>1 DEF Own, Added, AnswerType, HeaderValues, EndpointType, ResponseType
<1>3. HeadersFirst(e, r, a) \in Outcomes \ NoVerdict
  BY <1>1, <1>2 DEF HeadersFirst, HeadersVerdict, EntityVerdict, Outcomes, NoVerdict,
                    ResponseType, HeaderValues
<1>4. IF Problems(e, r, a) = {} THEN HeadersFirst(e, r, a) = r.as
                                ELSE HeadersFirst(e, r, a) \in Problems(e, r, a)
  BY <1>1, <1>2 DEF HeadersFirst, HeadersVerdict, EntityVerdict, Problems, HeaderValues
<1> QED BY <1>1, <1>3, <1>4 DEF Explained, r

\* The verdict of pekko-http, once the headers of the response itself are valid.
LEMMA EntityFirstExplained ==
  ASSUME NEW e \in EndpointType, NEW a \in AnswerType, Matching(e, a) # {},
         Own(Selected(e, a), a) = "good"
  PROVE  /\ EntityFirst(e, Selected(e, a), a) \in Outcomes \ NoVerdict
         /\ Explained(EntityFirst(e, Selected(e, a), a), e, a)
<1> DEFINE r == Selected(e, a)
<1>1. r \in Meant(e, a) /\ r \in ResponseType /\ Own(r, a) = "good"
  BY SelectedIsMeant
<1> HIDE DEF r
<1>2. Added(e, r, a) \in HeaderValues
  BY <1>1 DEF Added, AnswerType, HeaderValues, EndpointType, ResponseType
<1>3. EntityFirst(e, r, a) \in Outcomes \ NoVerdict
  BY <1>1, <1>2 DEF EntityFirst, EntityVerdict, Outcomes, NoVerdict, ResponseType, HeaderValues
<1>4. IF Problems(e, r, a) = {} THEN EntityFirst(e, r, a) = r.as
                                ELSE EntityFirst(e, r, a) \in Problems(e, r, a)
  <2>1. r.as # "decodeError"
    BY <1>1 DEF ResponseType
  <2>2. CASE r.entity = "decoded" /\ ~a.decodes
    BY <2>2 DEF EntityFirst, EntityVerdict, Problems
  <2>3. CASE ~(r.entity = "decoded" /\ ~a.decodes)
    <3>1. EntityVerdict(r, a) = r.as
      BY <2>3 DEF EntityVerdict
    <3>2. CASE Added(e, r, a) = "good"
      BY <1>1, <2>1, <2>3, <3>1, <3>2 DEF EntityFirst, Problems
    <3>3. CASE Added(e, r, a) = "absent"
      BY <1>1, <2>1, <2>3, <3>1, <3>3 DEF EntityFirst, Problems
    <3>4. CASE Added(e, r, a) = "bad"
      BY <1>1, <2>1, <2>3, <3>1, <3>4 DEF EntityFirst, Problems
    <3> QED BY <1>2, <3>2, <3>3, <3>4 DEF HeaderValues
  <2> QED BY <2>2, <2>3
<1> QED BY <1>1, <1>3, <1>4 DEF Explained, r

Inv == IInv /\ OutcomeExplained

USE HttpClientsAssumption

LEMMA CallsAre ==
  ASSUME TypeOK, NEW c \in Calls, call[c] # NotCalled
  PROVE  /\ call[c] \in CallType(c)
         /\ Client(c) \in Clients
         /\ Endpoint(c) \in EndpointType
BY DEF TypeOK, CallType, Client, Endpoint, HttpClientsAssumption

\* Giving a connection back does not make the pool exceed its size.
LEMMA FewerBusy ==
  ASSUME IInv, (Busy)' \subseteq Busy
  PROVE  Cardinality((Busy)') <= PoolSize
<1>1. IsFiniteSet(Busy) /\ Busy \subseteq Calls
  BY FS_Subset DEF Busy, HttpClientsAssumption
<1>2. /\ Cardinality((Busy)') <= Cardinality(Busy)
      /\ Cardinality(Busy) \in Nat /\ Cardinality((Busy)') \in Nat
  BY <1>1, FS_Subset, FS_CardinalityType
<1>3. Cardinality(Busy) <= PoolSize
  BY DEF IInv
<1> QED BY <1>2, <1>3 DEF HttpClientsAssumption

\* What is said of a call only depends on its own state.
LEMMA OthersKeep ==
  ASSUME NEW d \in Calls, Progress(d), HeldRightly(d),
         call'[d] = call[d], phase'[d] = phase[d], answer'[d] = answer[d],
         holder'[d] = holder[d], outcome'[d] = outcome[d]
  PROVE  Progress(d)' /\ HeldRightly(d)'
BY DEF Progress, HeldRightly, Client, Endpoint

\* A call ends.
LEMMA EndKeepsInv ==
  ASSUME Inv, NEW c \in Calls, call[c] # NotCalled, UNCHANGED call,
         NEW o \in Outcomes \ {"none"}, NEW h \in Holders \ {"call"}, End(c, o, h),
         NEW a \in Answers \cup {NoAnswer}, answer' = [answer EXCEPT ![c] = a],
         h # "none" => holder[c] # "none",
         HeldRightly(c)',
         o \notin NoVerdict => a # NoAnswer /\ Explained(o, Endpoint(c), a)
  PROVE  Inv'
<1>1. TypeOK /\ \A d \in Calls : Progress(d) /\ HeldRightly(d)
  BY DEF Inv, IInv
<1>2. TypeOK'
  BY <1>1 DEF TypeOK, End, Phases
<1>3. Cardinality((Busy)') <= PoolSize
  <2>1. (Busy)' \subseteq Busy
    BY <1>1 DEF TypeOK, End, Busy
  <2> QED BY <2>1, FewerBusy DEF Inv
<1>4. ASSUME NEW d \in Calls PROVE Progress(d)' /\ HeldRightly(d)'
  <2>1. CASE d = c
    BY <1>1, <2>1 DEF TypeOK, End, Progress, Client, Endpoint
  <2>2. CASE d # c
    BY <1>1, <1>4, <2>2, OthersKeep DEF TypeOK, End
  <2> QED BY <2>1, <2>2
<1>5. ASSUME NEW d \in Calls, outcome'[d] \notin NoVerdict
      PROVE  answer'[d] # NoAnswer /\ Explained(outcome'[d], Endpoint(d)', answer'[d])
  <2>1. CASE d = c
    BY <1>1, <1>5, <2>1 DEF TypeOK, End, Endpoint
  <2>2. CASE d # c
    BY <1>1, <1>5, <2>2 DEF TypeOK, End, Endpoint, Inv, OutcomeExplained
  <2> QED BY <2>1, <2>2
<1> QED BY <1>2, <1>3, <1>4, <1>5 DEF Inv, IInv, OutcomeExplained

\* A call starts to read the entity.
LEMMA ReadKeepsInv ==
  ASSUME Inv, NEW c \in Calls, phase[c] = "sent", UNCHANGED call, Read(c),
         NEW a \in Answers, answer' = [answer EXCEPT ![c] = a],
         Progress(c)'
  PROVE  Inv'
<1>1. TypeOK /\ \A d \in Calls : Progress(d) /\ HeldRightly(d)
  BY DEF Inv, IInv
<1>2. TypeOK'
  BY <1>1 DEF TypeOK, Read, Phases
<1>3. Cardinality((Busy)') <= PoolSize
  BY FewerBusy DEF Inv, Read, Busy
<1>4. ASSUME NEW d \in Calls PROVE Progress(d)' /\ HeldRightly(d)'
  <2>1. CASE d = c
    BY <1>1, <2>1 DEF TypeOK, Read, Progress, HeldRightly
  <2>2. CASE d # c
    BY <1>1, <1>4, <2>2, OthersKeep DEF TypeOK, Read
  <2> QED BY <2>1, <2>2
<1>5. outcome[c] = "none"
  BY <1>1 DEF TypeOK, Progress
<1>6. OutcomeExplained'
  BY <1>1, <1>5 DEF TypeOK, Read, Endpoint, Inv, OutcomeExplained, NoVerdict
<1> QED BY <1>2, <1>3, <1>4, <1>6 DEF Inv, IInv

\* A connection is given back.
LEMMA GiveBackKeepsInv ==
  ASSUME Inv, NEW c \in Calls, GiveBack(c), holder[c] # "call"
  PROVE  Inv'
<1>1. TypeOK /\ \A d \in Calls : Progress(d) /\ HeldRightly(d)
  BY DEF Inv, IInv
<1>2. TypeOK'
  BY <1>1 DEF TypeOK, GiveBack, Holders
<1>3. Cardinality((Busy)') <= PoolSize
  <2>1. (Busy)' \subseteq Busy
    BY <1>1 DEF TypeOK, GiveBack, Busy
  <2> QED BY <2>1, FewerBusy DEF Inv
<1>4. ASSUME NEW d \in Calls PROVE Progress(d)' /\ HeldRightly(d)'
  <2>1. CASE d = c
    BY <1>1, <2>1 DEF TypeOK, GiveBack, Progress, HeldRightly, Client, Endpoint
  <2>2. CASE d # c
    BY <1>1, <1>4, <2>2, OthersKeep DEF TypeOK, GiveBack
  <2> QED BY <2>1, <2>2
<1>5. OutcomeExplained'
  BY DEF GiveBack, Endpoint, Inv, OutcomeExplained
<1> QED BY <1>2, <1>3, <1>4, <1>5 DEF Inv, IInv

\* The facts that an action on a call starts from.
LEMMA CallFacts ==
  ASSUME Inv, NEW c \in Calls
  PROVE  /\ TypeOK /\ Progress(c) /\ HeldRightly(c)
         /\ call[c] = NotCalled <=> phase[c] = "idle"
         /\ answer = [answer EXCEPT ![c] = answer[c]]
         /\ answer[c] \in Answers \cup {NoAnswer}
BY DEF Inv, IInv, TypeOK, Progress

LEMMA ApplyStep ==
  ASSUME Inv, NEW c \in Calls, Apply(c)
  PROVE  Inv'
<1>1. TypeOK /\ \A d \in Calls : Progress(d) /\ HeldRightly(d)
  BY DEF Inv, IInv
<1>2. PICK k \in CallType(c) : call' = [call EXCEPT ![c] = k]
  BY DEF Apply
<1>3. k # NotCalled /\ phase[c] = "idle" /\ holder[c] = "none" /\ outcome[c] = "none"
  BY <1>1, <1>2 DEF Apply, CallType, NotCalled, Clients, Progress
<1>4. /\ phase'[c] \in {"queued", "ended"} /\ holder' = holder
      /\ outcome'[c] \in {"none", "notSent"} /\ (phase'[c] = "ended" <=> outcome'[c] # "none")
      /\ \A d \in Calls \ {c} : phase'[d] = phase[d] /\ outcome'[d] = outcome[d]
      /\ answer' = answer
  BY <1>1, <1>3 DEF Apply, End, TypeOK
<1>5. TypeOK'
  BY <1>1, <1>2 DEF TypeOK, Apply, End, Phases, Holders, Outcomes
<1>6. Cardinality((Busy)') <= PoolSize
  BY <1>4, FewerBusy DEF Inv, Busy
<1>7. ASSUME NEW d \in Calls PROVE Progress(d)' /\ HeldRightly(d)'
  <2>1. CASE d = c
    BY <1>1, <1>2, <1>3, <1>4, <2>1 DEF TypeOK, Progress, HeldRightly
  <2>2. CASE d # c
    BY <1>1, <1>2, <1>4, <1>7, <2>2, OthersKeep DEF TypeOK
  <2> QED BY <2>1, <2>2
<1>8. OutcomeExplained'
  BY <1>1, <1>2, <1>4 DEF TypeOK, Endpoint, Inv, OutcomeExplained, NoVerdict
<1> QED BY <1>5, <1>6, <1>7, <1>8 DEF Inv, IInv

LEMMA AcquireStep ==
  ASSUME Inv, NEW c \in Calls, Acquire(c)
  PROVE  Inv'
<1>1. TypeOK /\ \A d \in Calls : Progress(d) /\ HeldRightly(d)
  BY DEF Inv, IInv
<1>2. TypeOK'
  BY <1>1 DEF TypeOK, Acquire, Phases, Holders
<1>3. Cardinality((Busy)') <= PoolSize
  <2>1. IsFiniteSet(Busy) /\ Cardinality(Busy) \in Nat
    BY FS_Subset, FS_CardinalityType DEF Busy
  <2>2. (Busy)' = Busy \cup {c} /\ c \notin Busy
    BY <1>1 DEF TypeOK, Acquire, Busy, Progress
  <2>3. Cardinality((Busy)') = Cardinality(Busy) + 1
    BY <2>1, <2>2, FS_AddElement
  <2> QED BY <2>1, <2>3 DEF Acquire
<1>4. ASSUME NEW d \in Calls PROVE Progress(d)' /\ HeldRightly(d)'
  <2>1. CASE d = c
    BY <1>1, <2>1 DEF TypeOK, Acquire, Progress, HeldRightly, Client, Endpoint
  <2>2. CASE d # c
    BY <1>1, <1>4, <2>2, OthersKeep DEF TypeOK, Acquire
  <2> QED BY <2>1, <2>2
<1>5. OutcomeExplained'
  BY DEF Acquire, Endpoint, Inv, OutcomeExplained
<1> QED BY <1>2, <1>3, <1>4, <1>5 DEF Inv, IInv

\* A call that ends without a verdict on an answer leaves its connection to nobody else.
LEMMA EndWithoutVerdict ==
  ASSUME Inv, NEW c \in Calls, phase[c] \in {"queued", "sent", "reading"},
         NEW o \in NoVerdict \ {"none"}, End(c, o, "none"), UNCHANGED <<call, answer>>
  PROVE  Inv'
<1>1. /\ TypeOK /\ call[c] # NotCalled
      /\ answer' = [answer EXCEPT ![c] = answer[c]] /\ answer[c] \in Answers \cup {NoAnswer}
  BY CallFacts
<1>2. HeldRightly(c)'
  BY <1>1 DEF HeldRightly, End, TypeOK
<1>3. o \in Outcomes \ {"none"} /\ "none" \in Holders \ {"call"}
  BY DEF NoVerdict, Outcomes, Holders
<1> QED BY <1>1, <1>2, <1>3, EndKeepsInv

LEMMA TransportFailsStep ==
  ASSUME Inv, NEW c \in Calls, TransportFails(c)
  PROVE  Inv'
<1>1. PICK cause \in {"timeout", "other", "none"} :
        End(c, IF Client(c) = "sttp" THEN SttpFailure(cause) ELSE "transport", "none")
  BY DEF TransportFails
<1>2. (IF Client(c) = "sttp" THEN SttpFailure(cause) ELSE "transport") \in NoVerdict \ {"none"}
  BY DEF SttpFailure, NoVerdict
<1> QED BY <1>1, <1>2, EndWithoutVerdict DEF TransportFails

LEMMA ToStrictTimeoutStep ==
  ASSUME Inv, NEW c \in Calls, ToStrictTimeout(c)
  PROVE  Inv'
BY EndWithoutVerdict DEF ToStrictTimeout, NoVerdict

LEMMA CancelStep ==
  ASSUME Inv, NEW c \in Calls, Cancel(c)
  PROVE  Inv'
BY EndWithoutVerdict DEF Cancel, NoVerdict

\* http4s, when the headers have come.
LEMMA Http4sHeadStep ==
  ASSUME Inv, NEW c \in Calls, NEW a \in Answers, HeadArrives(c, a), Client(c) = "http4s"
  PROVE  Inv'
<1> DEFINE e == Endpoint(c)
           r == Selected(e, a)
<1>1. /\ TypeOK /\ call[c] # NotCalled /\ phase[c] = "sent" /\ holder[c] = "call"
      /\ UNCHANGED call /\ answer' = [answer EXCEPT ![c] = a] /\ Http4sHead(c, a)
  BY CallFacts DEF HeadArrives, Progress
<1>2. /\ e \in EndpointType /\ a \in AnswerType /\ a # NoAnswer
      /\ e' = e /\ Client(c)' = "http4s"
  BY <1>1, CallsAre DEF AnswerType, NoAnswer, Endpoint, Client, Statuses
<1>3. CASE Matching(e, a) = {}
  <2>1. End(c, "unexpectedStatus", "none")
    BY <1>1, <1>3 DEF Http4sHead
  <2>2. Explained("unexpectedStatus", e, a)
    BY <1>2, <1>3, SelectedIsMeant DEF Explained
  <2>3. HeldRightly(c)'
    BY <1>1, <2>1 DEF HeldRightly, End, TypeOK
  <2> QED BY <1>1, <1>2, <2>1, <2>2, <2>3, EndKeepsInv DEF Outcomes, Holders
<1>4. CASE Matching(e, a) # {} /\ HeadersVerdict(e, r, a) = "valid" /\ r.entity = "decoded"
  <2>1. Read(c)
    BY <1>1, <1>4 DEF Http4sHead
  <2>2. Own(r, a) \in HeaderValues /\ Added(e, r, a) \in HeaderValues
    BY <1>2 DEF Own, Added, AnswerType, HeaderValues
  <2>3. Own(r, a) = "good" /\ Added(e, r, a) = "good"
    BY <1>4, <2>2 DEF HeadersVerdict, HeaderValues
  <2>4. answer'[c] = a /\ phase'[c] = "reading" /\ holder'[c] = "call" /\ outcome'[c] = "none"
    BY <1>1, <2>1, CallFacts DEF Read, TypeOK, Progress
  <2>5. Progress(c)'
    BY <1>1, <1>2, <1>4, <2>3, <2>4 DEF Progress
  <2> QED BY <1>1, <2>1, <2>5, ReadKeepsInv
<1>5. CASE Matching(e, a) # {} /\ ~(HeadersVerdict(e, r, a) = "valid" /\ r.entity = "decoded")
  <2> DEFINE o == HeadersFirst(e, r, a)
  <2>1. End(c, o, Http4sHolder(c, o))
    BY <1>1, <1>5 DEF Http4sHead
  <2>2. o \in Outcomes \ NoVerdict /\ Explained(o, e, a)
    BY <1>2, <1>5, HeadersFirstExplained
  <2> HIDE DEF o
  <2>3. HeldRightly(c)'
    BY <1>1, <2>1 DEF HeldRightly, End, TypeOK, Http4sHolder
  <2>4. Http4sHolder(c, o) \in Holders \ {"call"} /\ o # "none"
    BY <2>2 DEF Http4sHolder, Holders, NoVerdict
  <2> QED BY <1>1, <1>2, <2>1, <2>2, <2>3, <2>4, EndKeepsInv
<1> QED BY <1>3, <1>4, <1>5

\* pekko-http, when the headers have come.
LEMMA PekkoHeadStep ==
  ASSUME Inv, NEW c \in Calls, NEW a \in Answers, HeadArrives(c, a), Client(c) = "pekko"
  PROVE  Inv'
<1> DEFINE e == Endpoint(c)
           r == Selected(e, a)
           o == EntityFirst(e, r, a)
<1>1. /\ TypeOK /\ call[c] # NotCalled /\ phase[c] = "sent" /\ holder[c] = "call"
      /\ UNCHANGED call /\ answer' = [answer EXCEPT ![c] = a] /\ PekkoHead(c, a)
  BY CallFacts DEF HeadArrives, Progress
<1>2. /\ e \in EndpointType /\ a \in AnswerType /\ a # NoAnswer
      /\ e' = e /\ call'[c] = call[c] /\ call[c].client = "pekko" /\ Client(c)' = "pekko"
  BY <1>1, CallsAre DEF AnswerType, NoAnswer, Endpoint, Client, Statuses
<1>3. answer'[c] = a
  BY <1>1 DEF TypeOK
<1>4. CASE Matching(e, a) = {}
  <2>1. End(c, "unexpectedStatus", "drain")
    BY <1>1, <1>4 DEF PekkoHead, Discarded
  <2>2. Explained("unexpectedStatus", e, a)
    BY <1>2, <1>4, SelectedIsMeant DEF Explained
  <2>3. HeldRightly(c)'
    BY <1>1, <1>2, <2>1 DEF HeldRightly, End, TypeOK
  <2> QED BY <1>1, <1>2, <2>1, <2>2, <2>3, EndKeepsInv DEF Outcomes, Holders
<1>5. ASSUME Matching(e, a) # {} PROVE Inv'
  <2>1. r \in Meant(e, a) /\ r \in ResponseType /\ Own(r, a) \in HeaderValues
    BY <1>2, <1>5, SelectedIsMeant DEF Own, AnswerType, HeaderValues
  <2>2. CASE Own(r, a) # "good"
    <3>1. CASE Own(r, a) = "bad"
      <4>1. End(c, "threw", "nobody")
        BY <1>1, <1>5, <3>1 DEF PekkoHead
      <4>2. Explained("threw", e, a)
        BY <2>1, <3>1 DEF Explained, Problems
      <4>3. Abandons(call'[c], a)
        BY <1>2, <1>5, <3>1 DEF Abandons, Endpoint
      <4>4. HeldRightly(c)'
        BY <1>1, <1>2, <1>3, <4>1, <4>3 DEF HeldRightly, End, TypeOK
      <4> QED BY <1>1, <1>2, <4>1, <4>2, <4>4, EndKeepsInv DEF Outcomes, Holders
    <3>2. CASE Own(r, a) = "absent"
      <4>1. End(c, "headersError", "drain")
        BY <1>1, <1>5, <3>2 DEF PekkoHead, Discarded
      <4>2. Explained("headersError", e, a)
        BY <2>1, <3>2 DEF Explained, Problems
      <4>3. HeldRightly(c)'
        BY <1>1, <1>2, <4>1 DEF HeldRightly, End, TypeOK
      <4> QED BY <1>1, <1>2, <4>1, <4>2, <4>3, EndKeepsInv DEF Outcomes, Holders
    <3> QED BY <2>1, <2>2, <3>1, <3>2 DEF HeaderValues
  <2>3. CASE Own(r, a) = "good"
    <3>1. o \in Outcomes \ NoVerdict /\ Explained(o, e, a)
      BY <1>2, <1>5, <2>3, EntityFirstExplained
    <3>2. CASE r.entity = "empty"
      <4>1. End(c, o, "drain")
        BY <1>1, <1>5, <2>3, <3>2 DEF PekkoHead, Discarded
      <4> HIDE DEF o
      <4>2. HeldRightly(c)'
        BY <1>1, <1>2, <4>1 DEF HeldRightly, End, TypeOK
      <4> QED BY <1>1, <1>2, <3>1, <4>1, <4>2, EndKeepsInv DEF Holders, NoVerdict
    <3>3. CASE r.entity = "stream"
      <4> DEFINE h == IF o = "value" THEN "caller" ELSE "nobody"
      <4>1. End(c, o, h)
        BY <1>1, <1>5, <2>3, <3>3 DEF PekkoHead
      <4>2. o = "value" \/ Added(e, r, a) # "good"
        <5>1. r.as = "value"
          BY <1>2, <2>1, <3>3, MeantIsDeclared, CallsAre, <1>1 DEF TypeOK, CallType, Endpoint
        <5> QED BY <1>2, <2>1, <3>3, <5>1 DEF EntityFirst, EntityVerdict, Added, AnswerType,
                                           HeaderValues
      <4>3. o # "value" => Abandons(call'[c], a)
        BY <1>2, <1>5, <3>3, <4>2 DEF Abandons, Endpoint
      <4>4. Selected(Endpoint(c)', a).entity = "stream"
        BY <1>2, <3>3
      <4> HIDE DEF o
      <4>5. HeldRightly(c)'
        BY <1>1, <1>2, <1>3, <4>1, <4>3, <4>4 DEF HeldRightly, End, TypeOK
      <4> QED BY <1>1, <1>2, <3>1, <4>1, <4>5, EndKeepsInv DEF Holders, NoVerdict
    <3>4. CASE r.entity = "decoded"
      <4>1. Read(c)
        BY <1>1, <1>5, <2>3, <3>4 DEF PekkoHead
      <4>2. phase'[c] = "reading" /\ holder'[c] = "call" /\ outcome'[c] = "none"
        BY <1>1, <4>1, CallFacts DEF Read, TypeOK, Progress
      <4>3. Progress(c)'
        BY <1>1, <1>2, <1>3, <1>5, <2>3, <3>4, <4>2 DEF Progress
      <4> QED BY <1>1, <4>1, <4>3, ReadKeepsInv
    <3> QED BY <2>1, <3>2, <3>3, <3>4 DEF ResponseType, Entities
  <2> QED BY <2>2, <2>3
<1> QED BY <1>4, <1>5

\* sttp reads the entity of any answer.
LEMMA SttpHeadStep ==
  ASSUME Inv, NEW c \in Calls, NEW a \in Answers, HeadArrives(c, a), Client(c) = "sttp"
  PROVE  Inv'
<1>1. /\ TypeOK /\ call[c] # NotCalled /\ phase[c] = "sent" /\ holder[c] = "call"
      /\ outcome[c] = "none"
      /\ UNCHANGED call /\ answer' = [answer EXCEPT ![c] = a] /\ Read(c)
  BY CallFacts DEF HeadArrives, Progress
<1>2. a # NoAnswer /\ Client(c)' = "sttp" /\ answer'[c] = a
  BY <1>1 DEF AnswerType, NoAnswer, Client, Statuses, TypeOK
<1>3. Progress(c)'
  BY <1>1, <1>2 DEF Progress, Read, TypeOK
<1> QED BY <1>1, <1>3, ReadKeepsInv

\* The end of the entity ends the call.
LEMMA BodyEndsStep ==
  ASSUME Inv, NEW c \in Calls, BodyEnds(c)
  PROVE  Inv'
<1> DEFINE e == Endpoint(c)
           a == answer[c]
           r == Selected(e, a)
<1>1. /\ TypeOK /\ call[c] # NotCalled /\ phase[c] = "reading" /\ holder[c] = "call"
      /\ UNCHANGED <<call, answer>> /\ answer' = [answer EXCEPT ![c] = a]
      /\ a # NoAnswer /\ a \in Answers /\ Progress(c)
  BY CallFacts DEF BodyEnds, Progress
<1>2. e \in EndpointType /\ a \in AnswerType /\ Client(c) \in Clients
  BY <1>1, CallsAre
<1>3. CASE Client(c) = "http4s"
  <2> DEFINE o == EntityVerdict(r, a)
  <2>1. End(c, o, Http4sHolder(c, o))
    BY <1>3 DEF BodyEnds
  <2>2. o = HeadersFirst(e, r, a)
    BY <1>1, <1>3 DEF Progress, HeadersFirst, HeadersVerdict
  <2>3. o \in Outcomes \ NoVerdict /\ Explained(o, e, a)
    BY <1>1, <1>2, <1>3, <2>2, HeadersFirstExplained DEF Progress
  <2> HIDE DEF o
  <2>4. HeldRightly(c)'
    BY <1>1, <2>1 DEF HeldRightly, End, TypeOK, Http4sHolder
  <2>5. Http4sHolder(c, o) \in Holders \ {"call"} /\ o # "none"
    BY <2>3 DEF Http4sHolder, Holders, NoVerdict
  <2> QED BY <1>1, <2>1, <2>3, <2>4, <2>5, EndKeepsInv
<1>4. CASE Client(c) = "pekko"
  <2> DEFINE o == EntityFirst(e, r, a)
  <2>1. End(c, o, "none")
    BY <1>4 DEF BodyEnds
  <2>2. o \in Outcomes \ NoVerdict /\ Explained(o, e, a)
    BY <1>1, <1>2, <1>4, EntityFirstExplained DEF Progress
  <2> HIDE DEF o
  <2>3. HeldRightly(c)'
    BY <1>1, <2>1 DEF HeldRightly, End, TypeOK
  <2> QED BY <1>1, <2>1, <2>2, <2>3, EndKeepsInv DEF Holders, NoVerdict
<1>5. CASE Client(c) = "sttp"
  <2> DEFINE o == SttpOutcome(e, a)
  <2>1. End(c, o, "none")
    BY <1>5 DEF BodyEnds
  <2>2. o \in Outcomes \ NoVerdict /\ Explained(o, e, a)
    BY <1>2, HeadersFirstExplained, SelectedIsMeant DEF SttpOutcome, Explained, Outcomes, NoVerdict
  <2> HIDE DEF o
  <2>3. HeldRightly(c)'
    BY <1>1, <2>1 DEF HeldRightly, End, TypeOK
  <2> QED BY <1>1, <2>1, <2>2, <2>3, EndKeepsInv DEF Holders, NoVerdict
<1> QED BY <1>2, <1>3, <1>4, <1>5 DEF Clients

LEMMA InitInv == Init => Inv
<1> SUFFICES ASSUME Init PROVE Inv
  OBVIOUS
<1>1. Busy = {} /\ Cardinality(Busy) = 0
  BY FS_EmptySet DEF Init, Busy
<1> QED BY <1>1 DEF Init, Inv, IInv, TypeOK, Progress, HeldRightly, OutcomeExplained, Phases,
                    Holders, Outcomes, NoVerdict, NotCalled, NoAnswer

LEMMA NextInv == Inv /\ [Next]_vars => Inv'
<1> SUFFICES ASSUME Inv, [Next]_vars PROVE Inv'
  OBVIOUS
<1>1. CASE UNCHANGED vars
  BY <1>1 DEF vars, Inv, IInv, TypeOK, Progress, HeldRightly, OutcomeExplained, Busy, Client,
              Endpoint
<1>2. ASSUME NEW c \in Calls, NEW a \in Answers, HeadArrives(c, a) PROVE Inv'
  <2>1. Client(c) \in Clients
    BY <1>2, CallsAre, CallFacts DEF HeadArrives
  <2> QED BY <1>2, <2>1, Http4sHeadStep, PekkoHeadStep, SttpHeadStep DEF Clients
<1>3. ASSUME NEW c \in Calls, Drained(c) \/ CallerDone(c) \/ CloseIdle(c) PROVE Inv'
  BY <1>3, GiveBackKeepsInv DEF Drained, CallerDone, CloseIdle
<1> QED BY <1>1, <1>2, <1>3, ApplyStep, AcquireStep, BodyEndsStep, TransportFailsStep,
           ToStrictTimeoutStep, CancelStep DEF Next

LEMMA InvHolds == SafeSpec => []Inv
BY InitInv, NextInv, PTL DEF SafeSpec

\* The pool is never exceeded, and every connection in use is accounted for.
THEOREM InvariantHolds == Spec => []IInv
<1>1. Inv => IInv
  BY DEF Inv
<1> QED BY <1>1, InvHolds, PTL DEF Spec

\* Every interpreter gives the same meaning to an answer.
THEOREM OutcomesAreExplained == Spec => []OutcomeExplained
<1>1. Inv => OutcomeExplained
  BY DEF Inv
<1> QED BY <1>1, InvHolds, PTL DEF Spec

\* An open stream is only given together with its connection.
LEMMA StreamStep ==
  ASSUME Inv, NEW c \in Calls, [Next]_vars,
         outcome[c] = "none", outcome'[c] = "value",
         Selected(Endpoint(c), answer'[c]).entity = "stream", call[c].way # "sendAndConsume"
  PROVE  holder'[c] = "caller"
<1> DEFINE e == Endpoint(c)
<1>1. TypeOK /\ Progress(c)
  BY CallFacts
<1>2. outcome' # outcome
  OBVIOUS
<1>3. ASSUME NEW d \in Calls, Apply(d) \/ Acquire(d) PROVE FALSE
  BY <1>1, <1>3 DEF Apply, Acquire, End, TypeOK
<1>4. ASSUME NEW d \in Calls,
             TransportFails(d) \/ ToStrictTimeout(d) \/ Cancel(d)
      PROVE FALSE
  BY <1>1, <1>4 DEF TransportFails, SttpFailure, ToStrictTimeout, Cancel, End, TypeOK
<1>5. ASSUME NEW d \in Calls, Drained(d) \/ CallerDone(d) \/ CloseIdle(d) PROVE FALSE
  BY <1>2, <1>5 DEF Drained, CallerDone, CloseIdle, GiveBack
<1>6. ASSUME NEW d \in Calls, NEW a \in Answers, HeadArrives(d, a) PROVE holder'[c] = "caller"
  <2>1. d = c
    <3> SUFFICES ASSUME d # c PROVE FALSE
      OBVIOUS
    <3>1. ~Read(d) /\ \A o, h : ~End(d, o, h)
      BY <1>1, <1>2 DEF Read, End, TypeOK
    <3>2. Client(d) \in Clients
      BY <1>1, <1>6, CallsAre, CallFacts DEF HeadArrives
    <3>3. ~Http4sHead(d, a)
      <4> HIDE DEF e
      <4> QED BY <3>1 DEF Http4sHead
    <3>4. ~PekkoHead(d, a)
      BY <3>1 DEF PekkoHead, Discarded
    <3> QED BY <1>6, <3>1, <3>2, <3>3, <3>4 DEF HeadArrives, Clients
  <2>2. answer'[c] = a /\ call[c] # NotCalled /\ call[c] \in CallType(c)
    BY <1>1, <1>6, <2>1, CallsAre DEF HeadArrives, TypeOK, Progress
  <2>3. Selected(e, a).entity = "stream"
    BY <2>2
  <2>4. CASE Client(c) = "http4s"
    <3>1. call[c].way = "send"
      BY <2>2, <2>4 DEF CallType, Ways, Client
    <3>2. PICK o : End(c, o, Http4sHolder(c, o)) \/ End(c, "unexpectedStatus", "none")
      BY <1>2, <1>6, <2>1, <2>3, <2>4 DEF HeadArrives, Http4sHead, Client
    <3>3. End(c, o, Http4sHolder(c, o)) /\ o = "value"
      BY <1>1, <3>2 DEF End, TypeOK
    <3> QED BY <1>1, <3>1, <3>3 DEF End, TypeOK, Http4sHolder
  <2>5. CASE Client(c) = "pekko"
    <3>1. \/ \E o : End(c, o, IF o = "value" THEN "caller" ELSE "nobody")
          \/ End(c, "threw", "nobody") \/ End(c, "headersError", "drain")
          \/ End(c, "unexpectedStatus", "drain")
      BY <1>2, <1>6, <2>1, <2>3, <2>5 DEF HeadArrives, PekkoHead, Discarded, Client, Read
    <3> QED BY <1>1, <3>1 DEF End, TypeOK
  <2>6. CASE Client(c) = "sttp"
    BY <1>2, <1>6, <2>1, <2>6 DEF HeadArrives, Read, Client
  <2> QED BY <2>2, <2>4, <2>5, <2>6, CallsAre, <1>1 DEF Clients
<1>7. ASSUME NEW d \in Calls, BodyEnds(d) PROVE FALSE
  <2> DEFINE a == answer[c]
  <2>1. \E o, h : End(d, o, h)
    BY <1>7, CallsAre, CallFacts DEF BodyEnds, Clients
  <2>2. d = c
    BY <1>1, <2>1 DEF End, TypeOK
  <2>3. /\ answer'[c] = a /\ phase[c] = "reading" /\ a \in AnswerType
        /\ call[c] # NotCalled /\ call[c] \in CallType(c) /\ e \in EndpointType
    BY <1>1, <1>7, <2>2, CallsAre DEF BodyEnds, TypeOK, Progress
  <2>4. Client(c) = "sttp"
    BY <1>1, <2>3 DEF Progress
  <2>5. Matching(e, a) # {}
    <3> SUFFICES ASSUME Matching(e, a) = {} PROVE FALSE
      OBVIOUS
    <3>1. End(c, "unexpectedStatus", "none")
      BY <1>7, <2>2, <2>4 DEF BodyEnds, SttpOutcome
    <3> QED BY <1>1, <3>1 DEF End, TypeOK
  <2>6. PICK i \in DOMAIN e.responses : Selected(e, a) = e.responses[i]
    BY <2>3, <2>5, SelectedIsMeant, MeantIsDeclared
  <2> QED BY <2>3, <2>4, <2>6 DEF CallType, Client, Endpoint
<1> QED BY <1>2, <1>3, <1>4, <1>5, <1>6, <1>7 DEF Next, vars

\* Who is given a stream is given its connection, but for sendAndConsume.
THEOREM StreamsComeOpen == Spec => StreamsHandedOverOpen
<1>1. Inv /\ [Next]_vars =>
        [\A c \in Calls :
           /\ outcome[c] = "none" /\ outcome'[c] = "value"
           /\ Selected(Endpoint(c), answer'[c]).entity = "stream"
           /\ call[c].way # "sendAndConsume"
           => holder'[c] = "caller"]_vars
  BY StreamStep
<1> QED BY <1>1, InvHolds, PTL DEF Spec, SafeSpec, StreamsHandedOverOpen
=============================================================================
