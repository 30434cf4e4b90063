# A TLA+ verification of endpoints4s

endpoints4s describes HTTP endpoints once, in Scala, and interprets the description as clients (Fetch,
http4s, pekko-http, sttp), servers (http4s, pekko-http) and documentation (OpenAPI). This directory
holds TLA+ models of the parts of the library, and of the larger of its examples, whose behaviour
depends on time: on the order of callbacks, on what fails half way, and on how a stream is cut; and of the
codecs (URLs, JSON, documents of schemas) that different interpreters must agree on. The models are checked
by TLC, and what matters most is proved with TLAPS.

All paths are relative to the repository (`src/`).

## 1. Inventory

| Component | State | Operations | Interacts with | Hard behaviour |
|---|---|---|---|---|
| **Fetch client, calls** (`fetch/client/.../Endpoints.scala`, `future/`, `thenable/`) | per call: the promises of `fetch` and of the entity, the timer, the `timedOut` flag, the abort controller, the caller's promise | `performFetch`, the reactions of `f` and of the entity, the timer's callback, `abort()` | browser (fetch, event loop), the caller | race of response, failure, timer and caller; exceptions in reactions; what is left armed or pending |
| **Chunked entities and framing** (`ChunkedEntities.scala` of five interpreters) | sender: was a frame sent; receiver: decoder carry, frame buffer, first-chunk flag, queue | encode, delimit, cut by the transport, split, decode, flush at the end, fail | both ends of a streamed endpoint | re-framing anywhere, characters of several bytes, the end of the stream, decoding failures, slow consumers |
| **CQRS example** (`documentation/examples/cqrs`): commands, queries and public services | commands: aggregates, log, last timestamp; queries: projection and its last timestamp; public server: its requests | `CommandsService.apply`, `events`; `findById`, `findAll`, `update`; list/get/create/add | HTTP between the three services | parallel updates, stale reads, failed calls after a write, restarts |
| **Servers: request processing** (`http4s/server`, `pekko-http/server`) | none shared; one pipeline per request | match method and URL, validate URL, headers, authenticate, decode the entity, transform, run the implementation, encode the response, handle errors | the HTTP backend, the user's implementation | which check wins, which exceptions are handled, first matching route |
| **Clients: http4s, pekko-http, sttp** | per call: its progress, and who uses its connection; the connections of the pool | encode a request, wait for a connection, dispatch on the response (declared, client errors, server error, unexpected), decode headers and entity, discard or hand over an entity, release, time out, cancel | HTTP client libraries, the caller | entities consumed after release, entities that nobody reads, order of the checks, timeouts, an exhausted pool |
| **URLs** (`algebra/Urls.scala` and six interpreters) | none | encode and decode static, typed and remaining segments, query strings, optional, defaulted and repeated parameters | clients and servers | encode/decode agreement, empty segments, `+` and `/` |
| **Assets** | none | digest lookup, `If-Modified-Since`, gzip variant | servers | 304 and fallback order |
| **JSON schemas** (`json-schema`, `ujson`, circe, Play) | none | encode, decode with accumulated errors, tagged unions, fallbacks, optional and precise fields, enumerations, constraints | entities, OpenAPI | agreement of three libraries, number widths, recursive schemas, ambiguous alternatives, discriminators |
| **OpenAPI** (`openapi`) | none | document schemas, collect components, merge paths, render | endpoints, the ujson codecs | recursive references, colliding names, documents that differ from the codec |
| **Authentication example** | none | login, token check, 401s | http4s and pekko-http server pipelines | which failure is answered how |
| Stub server, testkits, sbt plugin, generic derivation, web pages of the examples | – | – | – | fixtures, build-time or presentation code: not modelled |

What makes each correct:

* a Fetch call is completed at most once, by the event that came first, with the reason that matches;
  `abort()` and the timeout really end the wait; nothing that is still armed disturbs a finished call;
* a stream delivers the values sent, in order, whatever the cuts; it ends when all have come; it fails
  only for a reason;
* the projection of the queries service is a prefix of the log, each event applied once; a write is
  in the answer of the request that made it; every request ends;
* a server runs an implementation only on a request that passed every check, answers every request
  once, and both servers answer alike;
* a client gives its caller what the response means, or an error that is really in it, and its connection
  comes back;
* clients and servers agree: what a client encodes a server decodes, for URLs and JSON, and a document
  describes what is sent.

The hazards behind these are listed, at their lines, in `PROJECT.json`.


## 2. Plan

The models that depend on time came first, the pure algorithms after them:

1. **Fetch client** – `AsyncCall` (abstract), `FetchClient`, `FetchClientProofs`.
2. **CQRS example** – `CommandsService`, `QueriesService` (extends it), `PublicServer` (extends both and
   composes them), `EventSourcing` (abstract), `CqrsProofs`.
3. **Framing** – `ChunkStream` (abstract), `Folding` (folds of sequences), `FramedStream`, `FoldingProofs`,
   `FramedStreamProofs`.
4. **Servers** – `RequestProcessing` (what both share), `Http4sServer`, `PekkoServer`, `BothServers`
   (instantiates both on one request), `BothServersProofs`.
5. **Clients** – `HttpClients`, `HttpClientsProofs`.
6. **Messages** – `Urls`, `JsonSchemas`, `DocumentedSchemas` (operators), `UrlExchange`, which composes the
   first with a client and a server, and `Messages`, which extends it with senders and receivers of JSON;
   `UrlProofs`, `UrlExchangeProofs`.

Runs are few and broad: one run checks all the properties of a model that its state space allows. What could
be added: the merging of operations by path in a document.

## 3. The models

### Fetch client (`FetchClient`, `AsyncCall`)

State per call: the promise `f` of `fetch` (with the cause of a rejection), the promise of the entity, the
queued reaction (`job`), `timer`, `timedOut`, who aborted the signal first, and the caller's promise. There is
one action per thing that can happen: `Apply` and the two ways in which building the request throws, `Abort`,
`TimerFires`, `HeadersArrive`, `FetchFails`, `BodyEnds`, and the two reactions `OnResponse`/`OnFetchError`
and `OnEntity` (`RunJob`). JavaScript runs one task at a time and every queued reaction before the next task:
tasks (network, timer) need `NoJobs`, while the caller's own `abort()` may run between two reactions.
The browser is modelled from how the code uses it (`AbortSignal`, `HeadersArrive`, `FetchFails`, `BodyEnds`).
`DecodedEntities` says what the promise of an entity may be at first: a body has to be awaited, an entity without
one is there at once, or its mapping has thrown.

`AsyncCall` is what a caller may rely on: the first of four events wins, and the outcome is one which that
event explains. `FetchClient` implements it under the mapping of `Winner`.

### CQRS example (`CommandsService`, `QueriesService`, `PublicServer`, `EventSourcing`)

`CommandsService` holds the aggregates, log and last timestamp that one STM transaction updates.
`QueriesService` is the projection. A request is a process with a program counter: `AnswerAtOnce`,
`UpdateRequired`, `Update`, `FetchEvents`, `ApplyEvents` are the points at which other requests may come
between; `Restart` loses the projection. `PublicServer` adds the four endpoints: a write sends its command and
then queries `after` the event's timestamp; every call may fail, before or after it took effect
(`CallFails`). A record's value is identified by the timestamp of its event, the sum of values is left out.
The restart of the commands service is left out: its store is in memory on purpose.

### Framed streams (`FramedStream`, `ChunkStream`)

A sender frames texts (with a new-line after each, or between two), the transport delivers any prefix of the
bytes under way (`Receive(n)`), the receiver decodes UTF-8, splits frames, decodes values, and flushes at the
end (`Finish`); the connection may be lost (`Lose`: fs2 keeps the values it has, Pekko's delimiter may drop those nobody has
pulled, the fetch client drops all), and the consumer may be slow. Characters are `"a"`, `"b"` or `"e"`,
whose encoding has two bytes. `Units` and `Carry` tell the three receivers apart: http4s decodes UTF-8 across
chunks, the fetch client decodes each chunk by itself, Pekko splits bytes. Encoding, decoding and splitting are
folds by a function (`Folded`, of module `Folding`), so that they can be proved about. fs2, Akka's framing and the
browser's streams are modelled from how the code uses them.

### Servers (`RequestProcessing`, `Http4sServer`, `PekkoServer`, `BothServers`)

The server is a record `s`: the route it tries, its stage, the parts found invalid, the implementations that
ran, the answer. What an application puts into its endpoints is unknown: each decoder, mapping and
implementation is a *check* with a set of `Verdicts`. `Ask(c, outcomes)` lets the oracle answer check `c` and
says what becomes of the server for each verdict; the oracle remembers, so a check is a function of the
request. A part that a description does not have is a check that answers "valid". The stages follow the code
of each interpreter: `orElse` of partial functions and an effect whose errors escape in http4s; directives
that complete, reject or throw in Pekko, where a rejection leads to the next route, also after an
implementation ran (`NegotiateEncoding`, `accept`).

`BothServers` sends one request to both, with the same verdicts. `InterpretersAgree` names the four situations
in which they differ; each was seen to be needed by removing it.

What is assumed of Pekko, which is not part of the repository: `entity` turns what its unmarshaller raises into
a rejection; `encodeResponse` and `complete` reject what the client does not accept; error responses are
accepted.

### Clients (`HttpClients`)

A call goes through the phases queued, sent, reading, ended. `holder` says who uses its connection: the call,
the caller (a stream, or the resource of http4s `send`), a drain (`discardBytes` of Pekko), or nobody any more.
`HeadArrives` is what a client does with the status and the headers: select the first response that matches
(`Responses`: those of the endpoint, then the built-in errors), decode headers, and either end or go on to
read the entity (`Read`); `BodyEnds` decodes it. The three interpreters differ in what they read when (sttp
always reads the whole entity first), in what they check first (`HeadersFirst`, `EntityFirst`) and in who
releases (`Http4sHolder`, `Discarded`, `End`). `TransportFails`, `ToStrictTimeout`, `Cancel` and a
request that cannot be built (in `Apply`) are the ways in which a call ends without an answer. The pool and the
transport are external: a pool serves its waiting calls, a connection nobody reads may be closed.

### Messages (`Urls`, `UrlExchange`, `JsonSchemas`, `DocumentedSchemas`, `Messages`)

Descriptions are data: a URL is a sequence of path parts and parameters, a schema a tree of the combinators of
the algebra. `Urls` says what each client writes (`EncodeUrl`) and what each server makes of it (`DecodeUrl`): the
splitting of static segments, the decoding of the parts one after the other and that of a query are folds, as in the framing.
A text is a sequence of characters out of a letter, a space, `+` and `/`: those that are treated differently.
What a client writes (`WrittenPath`) is not yet the path of the request (`RequestPath`): with its default base (`Uri("/")`) the
Pekko client gives it to `Uri.apply`, which reads `//a` as the host `a`; http4s and sttp put their host before it. A fetch
client has the origin of the server for a base, or none: then `//a` is another host and the empty path its own page, so the
request does not reach the server (`NeedsBase`, `Unsent`).
`JsonSchemas` has the encoders and decoders of ujson, circe and Play JSON: where they differ, an operator asks for the
library (`Rebuilt`, `DecodeOpt`, `DecodePrecise`, `EncodeLong`). `DocumentedSchemas` is `toSchema` of the
OpenAPI interpreter, the components it collects, and what conforms to them. The operators of these two are
recursive over trees of descriptions, so they are for TLC.

`UrlExchange` sends one URL: a client encodes it (`SendUrl`), a server decodes it (`ReceiveUrl`). `Messages`
adds the JSON messages (`SendJson`, `ReceiveJson`). Each property is an equivalence: the message arrives *if and only if*
none of the named cases applies, so a case that is named and does not occur, or occurs and is not named, violates it. Two cases
are let go: numbers too wide for a Double, which may happen to arrive, and schemas that share a name, whose document may happen
to be right. What a URL may carry is the assumption `UrlMessagesAssumption`: any path that starts at the root and
has remaining segments only at its end, any query with different names, and values that have the shape of their description. What a schema may be is `JsonMessagesAssumption`: no record has two fields of
one name (circe and Play would merge their objects), and the alternatives of a choice have one discriminator (ujson asserts it).

## 4. The runs

| Run | Instance | What it shows |
|---|---|---|
| `fetch` | 2 calls, 3 endpoints (strict, immediate, one whose responses shadow the client errors), 4 statuses, a timeout | In every interleaving a call completes once, for the reason that came first; `abort()` and the timeout end the wait; `AsyncCall` is implemented |
| `cqrs` | 3 requests, 3 meters, 2 dates, symmetric | The log has no gaps, the projection is a prefix of it, updates never throw, answers are snapshots, writes are read back |
| `cqrs_live` | 2 requests, 2 meters, 1 date | Requests end, only a restart takes the projection back, `EventSourcing` is implemented |
| `cqrs_polling` | the same | **Violated**: the projection is not polled |
| `framing` | 4 pairs of interpreters, up to 3 values, one of them rejected by the codec, one of two bytes | Values arrive in order whatever the cuts, streams end, failures have a reason |
| `framing_utf8` | any server to the fetch client, values with a two-byte character | **Violated**: a cut character does not arrive |
| `framing_trailing` | fetch client to http4s server | **Violated**: the stream ends with a failure |
| `servers` | any two endpoints (credentials or not; `implementedBy`, `implementedByAsync`/`Effect`, multiplexed), any request and verdicts | What runs was checked, what is answered is complete and in order, both servers agree but for four differences |
| `servers_exceptions` | the same, http4s | **Violated**: an exception in the decoding of an entity is not answered by endpoints4s |
| `clients` | one call of any of four endpoints and one of a stream, on a pool of one connection; answers with up to two things wrong | What a caller is given is explained by the answer, streams come with their connection, calls end and connections come back |
| `messages` | 4 clients to 2 servers, 3 JSON libraries to each other, 13 shapes of paths, 4 kinds of parameters, 21 schemas | What is sent is what is received, and what is documented, except in the named cases |
| `messages_discriminator` | the same | **Violated**: circe and Play forget the discriminator under `xmap` |

**Bounds.** Two calls of the Fetch client suffice, as a step of a call reads of the others only whether a
reaction is queued (`NoJobs`); the proofs show it. Three requests to the CQRS example are two that race and one
that wrote before them; each writes once, so the log has at most three events. There must be as many meters as
requests: fresh UUIDs do not run out, and with fewer meters a `create` would be stuck. Three values
and any cut include: several frames in a chunk, a frame in several chunks, a cut between a value and its
new-line, and an empty stream. Two routes are what a rejection or a mismatch needs to go on to another one;
a third would be tried like the second (and the proofs do not bound them). Two calls of the HTTP clients suffice for one
connection: the second one waits for what the first one leaves; a call depends on others only through the pool
(`Busy`), and the proofs bound neither. A Double is given 3 bits and a Long 6, so every Long is tried, among them
those that are rounded down, up, to the even one, and beyond the largest Long; the widths are constants.
Paths have up to five parts, so that an empty segment comes first, last, alone, twice, and inside.
`CHECK_DEADLOCK FALSE` is given where the system comes to rest: no more calls, requests or values.

**Fairness.** Fetch client: the event loop runs queued reactions, and an armed timer fires; nothing obliges the
network to answer or the caller to act. CQRS: each service goes on with the requests it has; no
client has to send one, and failures need not come. Streams: what was sent gets delivered, and the
consumer keeps pulling; no producer has to end. Clients: the server answers or the
transport fails (HTTP libraries give up at some time), the same for the end of an entity except for pekko-http,
which sets a timer for it (`ToStrictTimeout`); discarded entities end; a pool serves waiting calls in some fair order. Nothing is
assumed of callers, nor of connections that nobody uses, so `CallsEnd` excepts a pool of which they hold all.
Servers: a decoder or implementation returns, throws or fails.

## 5. What is proved

**Fetch client** (`FetchClientProofs`, for any calls, endpoints, statuses, with or without timeout; from
`FetchAssumption`). `IInv` is inductive: `TypeOK` and, per call, `CallInv`, which ties the state of the promises
to that of the reaction, timer, flag and result. The single invariants are not inductive: that a timeout is
blamed rightly needs to know that while the reaction of a rejected `f` is queued the flag says who aborted, and
that no timer is armed once the first reaction has run. `CallInv(d)` reads only call `d`, so a step of another
call preserves it (lemma `Frame`); one lemma per action does the rest. From it follow
`CallsCompleteOnce`, `TimeoutsAreBlamedRightly`, `TimersNeverCutBodies`, `PendingCallsHaveSources`,
`ValuesAreEarned`, `AbortedCallsReadNothing`, and `Refinement`: every behaviour is one of `AsyncCall` (its safety
part). That an aborted call takes nothing more from the network (`NothingReadAfterAbort`) needs of `CallInv` that a
body is only awaited while nobody has aborted: the abort may come before the headers, between their arrival and the reaction
to them, and while the body is read, and each of `HeadersArrive`, `OnResponse` and `BodyEnds` must respect it.

**CQRS example** (`CqrsProofs`, for any number of requests, meters and dates; from the assumptions of the
modules). `IInv` is the type invariant, `LogWellFormed` (timestamps are positions of the log, a meter is created
once and before its records), `ProjectionIsPrefix`, `AnswersAreSnapshots`, and per request `UpdateInv` (what it
fetched is a segment of the log that starts at or before the end of what the projection has applied; a restart fails the
updates in progress) and `WriteInv` (its event is at its timestamp). The projection alone is not inductive: applying fetched
events keeps it a prefix only because they are a segment of the log that starts at or before its end, which is
`UpdateInv`. The meaning of a projection (the last record of a date) is stated with the largest element of a set,
whose existence follows from the well-foundedness of `<`. From it: `ProjectionsArePrefixes`, `UpdatesNeverThrow`,
`QueriesAnswerSnapshots`, `WritesAreRead`, `OnlyRestartsGoBack`, and `Refinement` of `EventSourcing`.

**Streams** (`FramedStreamProofs`, for any texts, any number of values and any cuts; from
`FramedStreamAssumption`). Two hypotheses are written into the theorems, for the code does break them (section 7):
`FetchIsAscii`, the fetch client is sent ASCII only, and, for the theorems about failures,
`NoTrailingNewLine`, no sender ends every frame with a new-line unless it is for Pekko. The pairs and texts of run
`framing` satisfy both; `framing_utf8` and `framing_trailing` show that neither can be dropped.
That the values delivered are a prefix of those sent is not inductive: one must know what the bytes under way
will become. `FlowOf` says it. The bytes held back and those under way *carry* units (characters, or bytes
for Pekko), and the framing, given those units after the frames of what was delivered and the buffer, ends as
if it had been given the units of all the values sent, at once (`SplitOf`). `StreamInv` is this for a stream
that is open, that a stream that was closed has delivered all, and that one that failed has an excuse
(`Excused`). Sending appends units (`FlowSends`); receiving
takes some of them away, wherever the cut is (`FlowReceives`: `EncodeCut` for a decoder that holds back the
first byte of a character, `SplitConcat` for the framing), and the frames that it completes are those of the next
values (`NextFrames`); at the end what was not delivered is in the buffer (`FlowEnds`).
`Encode`, `DecodeText` and `Split` need induction over sequences: `EverySequence` (module `FoldingProofs`) states
it for a *set* (one that has the empty sequence, and with a
sequence the longer ones, has all), which follows from the well-foundedness of `<`; `FoldedIs` and its
corollaries say what a fold computes. From them: `DecodeEncode`, `EncodeConcat`, `SplitConcat`, `SplitShift`.
Theorems: `FramingKeepsValues`, `OnlyLastWaits`, `FailuresHaveReasons`, `FailureComesInOrder`, and
`StreamsOfValues`: each behaviour is one of `ChunkStream`.

**Clients** (`HttpClientsProofs`, for any calls, endpoints, answers and size of the pool; from
`HttpClientsAssumption`). `IInv`: the connections in use fit the pool, a call in progress holds its own, and one
that has ended leaves it only to whom `HeldRightly` allows. `OutcomeExplained` needs of it that a call which
reads an entity has an answer whose headers are those that its client checks first (`Progress`). A step of
another call changes nothing that is said of a call (`OthersKeep`). Theorems: `InvariantHolds`,
`OutcomesAreExplained`, `StreamsComeOpen`.

**Servers** (`BothServersProofs`, for any number of endpoints; from `TablesAssumption`).
`RunsOnlyValidRequests` is not inductive: when an implementation is about to run, one must know that each check before it
passed. To compare how two servers ended, one must even know all that a server has done from the
first endpoint on, and know it of a server that is not at work any more. `Story(who, o, t)` says so, of a server that the
checks have answered `o` and that is at `t`: a check has been asked *exactly* if the answers to those
before it lead to it (`Open`), the endpoints before `t.at` have been left (`Left`), none after it was asked
anything, the errors noted and the implementations run are those that the answers say, and the final
answer is the one that follows from them (`Status`, `Errors`). It is one definition for both servers, with the few places
where they differ spelt out, so each kind of step is one lemma (`UrlStory`, `EntityStory`, `RunStory`, ...) and
the two modules of the servers, as instances, apply them (`Http4sStory`, `PekkoStory`). It is preserved because
an answer of the oracle never changes. Three inductive invariants are made of it:

* `Alone("http4s")` and `Alone("pekko")`, of the specification of each server by itself. All the invariants of a
  server follow from its story without another induction: that an implementation
  runs only on a request that passed every check (in `ServerInv`), that credentials come first, that a 400 lists
  every invalid part, that an exception is answered by the endpoint that threw it, that the first match owns the request
  (http4s), that a result is dropped only when the client does not accept it (Pekko). Theorems:
  `Http4sServerIsRight`, `PekkoServerIsRight`.
* `BothInv`, of both on the same request: the server at work has its story, and while it is Pekko the
  http4s server's is finished, and no check has answered the two differently. TLC checks it on the instance of run
  `servers` too. For `InterpretersAgree`, two rows of the same endpoint that are both finished ask the same
  checks and end alike (`RowsAgree`, `EndpointsAgree`), unless they are one of the differences; so the http4s
  server goes no further than the Pekko server, and when Pekko goes further, because no alternative of the
  entity could be unmarshalled, it finds no other endpoint that matches and ends like the http4s
  server (`StoriesAgree`). Theorems: `InvariantHolds`, `ServerInvariant`, `OnlyValidRequestsRun`,
  `UnauthorizedAnsweredFirst`, `ReportsAreComplete`, `FirstMatchWins`, `ResultsAreDroppedRightly`,
  `ExceptionsAreAnswered`, `ServersAgree`.

**URLs** (`UrlProofs`, `UrlExchangeProofs`, for any description of a URL, any value, texts and lists of any length,
every client and server; from `UrlMessagesAssumption`). `UrlsRoundTrip`: the value of a request that reaches the server arrives *exactly* when no `+` is
mistaken, no empty segment is lost and no static segment has a slash. So these cases are all there are, and nothing else about a
text, its length or its place can go wrong. Without slashes the argument goes as the data does:

* characters: decoding an encoded text gives it back, but for a `+` (`SegmentText`, `QueryText`, `DecodedText`);
* the query: the values of a name are those that its parameter wrote, as names differ (`QueryValues`), so every
  parameter means what it meant (`QueryDecoded`);
* the client's path: a part writes one piece, a segment each but for the last one (`OnePiecePerPart`), and the request
  has these segments unless the http4s client leaves out the first ones or that of Pekko takes one for a host (`RequestPathIs`);
* the server's segments: those of the path decoded one by one, or fewer when it loses an empty one
  (`Http4sSegmentsAre`, `PekkoSegmentsAre`);
* the parts: a prefix of them that matches has consumed as many segments (`RunBefore`, by induction), so all of them
  match and mean what was meant exactly when the segments are the wanted ones (`PathDecoded`);
* together (`PathArrives`): fewer segments than pieces never match, and as many are the wanted ones unless a `+` is mistaken.

With a slash in a static segment the parts and the segments are no longer in step, and there may even be as many segments
as wanted; but fewer of them have a slash, which nothing on the way adds (`SlashNeverArrives`): a client writes
such a static segment as several without a slash (`PartSlashes`), leaves segments out but adds none with one (`RequestSlashes`), no
conversion of characters makes one (`SlashKept`), nor does a server (`Http4sSlashes`, `PekkoSlashes`).

The invariant (`ExchangeInv`) only says that what is on the wire was encoded, and what is received decoded.

**Folds** (`FoldingProofs`) has what the last and the streams have in common: induction over sequences and numbers, for
a *set* that is closed under their construction (the induction theorems of the library take an operator), and
what a fold and the concatenation of sequences compute (`FoldedIs`, `FoldedAppend`, `JoinedSpread`, `JoinedJoined`, `CutInTwo`).

## 6. What is only model-checked

* Liveness (`AbortEndsCall`, `TimeoutBoundsFetch`, `RequestsEnd`, `StreamEnds`, `EveryRequestAnswered`,
  `CallsEnd`, `ConnectionsComeBack`, and the fairness of `AsyncCall`): temporal reasoning
  about `ENABLED` is beyond the prover.
* `JsonRoundTrip` and `DocumentIsTrue`: the codecs and documents are recursive operators over trees of
  descriptions, and the prover cannot reason about `RECURSIVE` operators at all.

## 7. Where the code and its documentation differ

* The queries service says that it polls the event log; it builds an effect that nobody runs
  (`QueriesService.scala:57`). After a failed request its event is projected only when a later query
  asks for more (`PolledUpToDate`).
* The fetch client decodes each chunk of the transport as UTF-8 of its own (`ChunkedEntities.scala:161`): a
  character that is cut becomes replacement characters (`PrefixDelivered`).
* The fetch client ends every frame with a new-line, and http4s and fetch receivers take what follows
  the last one as a frame, even when empty: a stream from the fetch client to an http4s server ends with a
  decoding error (`NoSpuriousFailure`).
* http4s: an exception raised while the entity is decoded or the request transformed gets past
  both handlers of exceptions to the backend (`DecodingExceptionsAnswered`); the manual promises a 500 that
  endpoints4s reports.
* A multiplexed handler that fails is answered 400 by pekko-http and 500 by http4s (the disjunct `HandlerFails`
  of `InterpretersAgree`).
* circe and Play JSON forget the name given by `withDiscriminator` when the schema is transformed by `xmap` or
  composed by `orElse` afterwards; ujson keeps it, as its test asks (`XmapKeepsDiscriminator`; the case
  `DiscriminatorForgotten` of `JsonRoundTrip`).

Found by the equivalences of `messages`, where no document says otherwise:

* The document of a choice whose alternatives were given a discriminator names the default one, whereas
  ujson sends the one that was given (`Misdocumented`).
* A `+` in a segment arrives at the http4s server as a space, unless the fetch client sent it; so does a `%2B` in the remaining
  segments that the Pekko or the sttp client sent, whose URI classes make a `+` of it (`PlusMistaken`).
* A path that starts with an empty segment (`path / remainingSegments()` with `/a`) is written `//a`: the Pekko client requests
  the path after the host `a` (`EmptySegmentLost`), a fetch client without a base another host (`NeedsBase`).
* `path / ""` and `path` are the same at the root; Pekko servers reject empty segments inside of a path, http4s clients leave
  those out that come first, http4s servers keep one of several at the end, and a Pekko client throws on an empty
  one (`EmptySegmentLost`, `Encodes`). A static
  segment with a slash is written by every client and matched by no server (`SlashInStaticSegment`).
* Readers of circe and Play decode anything that is not an object as a record of precise (for Play, also optional) fields, so a fallback
  takes it for its first alternative (`ReadsAnything`).
* ujson sends a Long beyond 2^53 as the nearest Double (`NumberTooWide`).
* An exception of the transport without a cause becomes a `NullPointerException` in the sttp client (outcome
  `nullPointer` of `HttpClients`), and a pekko-http client abandons the entity of some refused responses (`Abandons`).

## 8. What is not modelled

`PROJECT.json` lists every part with the reason. In short: the stub server, testkits, generic derivation, the
sbt plugin and the pages of the examples have no behaviour of their own; assets and the authentication
example look something up for each request, without state; the thenable results of the fetch client are
the calls of `FetchClient` behind another promise; `swagger-ui-*.js` are vendored bundles, the only JavaScript of
the repository. Within the modelled parts left out are:

* streams: text and byte chunks without framing, back-pressure (the queue of decoded values is unbounded in
  the model as in the fetch client), the contents of messages;
* URLs: a base with a path, segments and parameters of other types than String (their decoders give the verdicts of the
  server modules), `xmap`, texts with a `%` that escapes nothing in the remaining segments, and characters of several bytes;
* JSON: the wording and accumulation of errors, constraints, maps and tuples, `xmapPartial` that refuses a
  value, numbers other than Long, negative Longs (they are rounded like positive ones), records with a field given twice and
  choices of alternatives with different discriminators (excluded by `JsonMessagesAssumption`);
* documents: operations, paths and their merging, other encodings of coproducts, descriptions, and the rendering.
