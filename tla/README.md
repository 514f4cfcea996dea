# wasm-shim in TLA+

wasm-shim is a Proxy-Wasm filter for Envoy. For every HTTP stream it selects an
*action set* from its configuration, turns it into a *pipeline* of tasks (gRPC
calls to authorization and rate limit services, header changes, local replies)
and holds the request or the response while calls that guard it are out. This
directory models the parts of it whose correctness depends on the order of
events, and the conversions and translations the data goes through, checks them
with TLC and proves the main invariants with TLAPS.

Paths below are relative to the crate (`src/src/`).

## The system and where it is modelled

| Part | Source | Module | Status |
|---|---|---|---|
| HTTP filter: callbacks, pause and resume | `filter/kuadrant_filter.rs` | `KuadrantFilter` | modelled |
| Executor: `eval`, `digest`, termination, teardown | `kuadrant/pipeline/executor.rs` | `Pipeline` | modelled |
| Tasks: gRPC, deny, headers, store, trace export | `kuadrant/pipeline/tasks/*.rs` | `Pipeline` | modelled |
| Decorators: failure mode, tracing | `tasks/failure_mode.rs`, `tasks/tracing_decorator.rs` | `Pipeline` | modelled |
| Token usage | `tasks/token_usage.rs` | `Pipeline`, `EventParser`, `BodyReader` | modelled |
| Action sets, ids, dependencies, `to_tasks` | `kuadrant/pipeline/blueprint.rs` | `Blueprint` | modelled |
| Factory and routing | `kuadrant/pipeline/factory.rs` | `Blueprint`, `KuadrantFilter`, `Routing`, `Reconfiguration` | modelled |
| Barrier, end of stream, pending data | `kuadrant/context.rs`, `data/cel.rs` | `Pipeline` | modelled |
| Attribute cache, header maps, request id | `kuadrant/context.rs`, `kuadrant/cache.rs`, `data/headers.rs` | `RequestContext` | modelled |
| Root context: configuration, tick, answers | `filter/root_context.rs` | `Reconfiguration`, `DescriptorManager` | modelled |
| What a change of configuration promises | | `ActiveConfiguration` | abstract |
| Descriptor cache | `filter/descriptor_manager.rs` | `DescriptorManager` | modelled |
| What the descriptor cache promises | | `DescriptorRegistry` | abstract |
| Dynamic services, lazily built CEL environment | `services/dynamic.rs` | `DescriptorManager`, `Reconfiguration`, `TypeRegistry` | partly |
| SSE and line parsers | `tasks/token_usage/` | `EventParser` | modelled |
| Span buffer and its export | `tracing/`, `services/tracing.rs` | `SpanBuffer`, `Reconfiguration` | partly |
| Expressions and predicates | `data/cel.rs` | `Expressions`, `QueryMap` | partly |
| String functions | `data/cel/strings.rs` | `StringFunctions` | partly |
| Converters between CEL and protobuf | `services/dynamic/converters.rs` | `Converters`, `TypeRegistry` | modelled |
| Legacy actions | `configuration/legacy_translation.rs` | `LegacyTranslation` | modelled |
| Configuration as parsed | `configuration.rs` | `Reconfiguration` | partly |

### Blueprint

A blueprint maps the id of every action to a record. Ids are sequences of
numbers: `<<2>>` is the second action of the set, `<<2, 1>>` the first action
of its `onReply` list. The code builds the same ids as dotted strings. An
action is abstracted to what control depends on: its operation, what its
predicate and its other expression must wait for (`Data`), the header target,
`terminal`, `is_guard` and the failure mode of its service. `List` is the list
an action is in, as the id of the action it replies to, and `Rank` its place
there; `Dependencies` is the action before it. `ToTasks` is
`Blueprint::to_tasks`, and `FirstTasks` the tasks of the first *n* actions.

Each action has a response body field of its own, where the code keys values by
field name, and expressions of `requestData` are left out.

### Pipeline

One stream's `Pipeline` with the parts of `ReqRespCtx` its tasks share. `eval`
drains the queue (`tasks_to_process`) and visits each task once (`EvalTask`);
`digest` processes the `onReply` list of the answered call one action per step
(`DigestReply`) and then runs `eval`. `Apply(t)` is the set of outcomes of a
task. A predicate, an expression or a host call that can succeed or fail
contributes both outcomes. `WithFailureMode` and `WithTracing` are the two
decorators. `IsGuard` keeps a detail of the code: the decorators do not
delegate `is_guard`, so the no-op that replaces a decorated guard after a
termination does not lower the barrier.

`failed_tasks` is a history variable: the gRPC actions that failed without
being let pass or aborted.

### KuadrantFilter

The callbacks of the HTTP context. The first action of a callback
(`OnHttpRequestHeaders`, ..., `OnGrpcCallResponse`) starts it, `Step` runs the
pipeline and a `Return...` action ends it with the pause or resume decision.
The plugin is single-threaded, so no callback starts while `step # "idle"`.
Everything else interleaves: body chunks, response headers and gRPC answers
come in any order Envoy allows.

The host's view of the stream (`request`, `response`, `in_flight`) is external:
a held side gets no further callbacks for headers, a local reply starts the
response phase instead of the upstream, and every dispatched call is answered
at most once. `StreamReset` is Envoy deleting the stream at any time between two
callbacks, whatever is queued or in flight. Two constants widen the host:
`HostTimeouts` (Envoy may answer a request the filter still holds) and
`HostMayReject` (it may refuse a local reply). The response body is readable in
the callback that delivers its end.

### DescriptorManager and DescriptorRegistry

`descriptors` is the state of every key (`Absent` for a key that is not in the
map), `pools` the cached pools, `calls` the fetches in flight. The pools of the
code are indexed by a 64-bit hash of the file; hash and file are identified.
`OnConfigure`, `OnTick` and `OnGrpcCallResponse` are the root context's
callbacks. A configuration that fails to compile has already announced some of
its keys (`ConfigureFails`). `CelEnv` is the moment a service builds the
environment it caches for good.

`DescriptorRegistry` is the promise to the services: the descriptors handed out
for a key contain its service, they are never withdrawn, and, if answers carry
only what was asked for, they never change. `RegistrySpec` maps `GetPool` to
the registry's only variable.

### Routing

A host is the sequence of its labels from the top-level domain down. The code
writes it backwards, character by character, and ends it with `$` (exact) or `.`
(wildcard); `ReverseSubdomain` does the same with labels. That is enough, since
labels contain neither mark. The trie is external: `GetAncestor` is its longest
key that is a prefix. `SelectBlueprint` looks the host up and keeps the
candidates as a set, from which `NextCandidate` takes the lowest number;
`RoutePredicatesMatch` tries it and `NoCandidateMatches` ends the search. The
properties use a definition of "most specific pattern" that does not mention the
index. Ports and letter case are left out, and so are hosts that begin with `*`
and patterns with a `*` inside a label (`*foo.com`, whose `*` the code strips
like that of `*.foo.com`). A host name listed twice in one action set only
repeats a candidate.

### EventParser

`FeedBuffer` hands over a chunk, which is rejected as a whole if it is not
UTF-8. `ParseLine`, `ParseEmptyLine` and `ParseIncomplete` are the iterations
of `parse` and `parse_one_event`. Characters are the classes the grammar tells
apart. Every line has a parse (comment, field or empty), so the error branch
of `parse_one_event` is not reachable and has no action. `EventsOf` is what a
whole text means, without a buffer. The comment at `token_usage.rs:134` names
the two slots of `last_two_events` the other way round; `UsageIsSecondToLast`
says what they hold.

### SpanBuffer

The streams of a worker run on one thread and share the buffer of ended spans
and the stack of entered spans. The registry of the `tracing` crates is
external: a new span is a child of the span entered last, and a span ends when
it has no handle and no open child. Between callbacks only request spans are
entered. Tracing is assumed to be on at a level that records the spans.

A callback (`EnterRequestSpan`, `ApplyTask`, `FinishTask`, `ExecuteTeardown`,
`StreamDeleted`) puts the handles it drops on `agenda`, with the export among
them where the code has it. Then `DropHandle` drops them one by one in the order
of the code, `EndSpan` ends what has become free, from a span up to its parents,
and `HandlesDropped` exports when it is due. The thread does nothing else until
the agenda is empty (`Idle`). `StreamDeleted` is Envoy deleting a stream in the
middle of a pipeline.

### RequestContext

The context of one stream between the filter and the host. The host owns the
header maps and properties, opens a map only around its callback, may refuse a
call, and other filters may change what it holds. `GetAttribute`,
`EnsureAttribute`, `ModifyHeaders`, `SetAttribute` and the request id are the
operations; `seen` and `sent` are histories of what was answered and sent.
`Pipeline` assumes response headers can be read throughout the response phase;
here the window in which they can is explicit. A store action may export to any
path (`Exports`), that of a header map or of the client's address too: the bytes
then shadow the headers in the cache, and later reads of them as headers fail.

### Reconfiguration and ActiveConfiguration

`OnConfigure` is the whole of `on_configure`: the span filter is set first, then
`try_from` (services, request data, legacy actions, blueprints) accepts or
rejects, and only then are the factory and the descriptor service replaced.
Keys of services are announced as they are created, in any order, so a rejected
configuration may leave some. An expression is reduced to whether it parses.
`ActiveConfiguration` is the promise: a well-formed configuration replaces the
factory and the descriptor service in force as a whole, any other changes
neither, a stream keeps its own. The span filter is outside it: a configuration
that is rejected has already replaced it.

### Expressions and QueryMap

`Properties` collects the paths an expression reads from its syntax; they are
fetched into one nested map, bound with the stored values, and the expression is
evaluated. `Meaning` reads every attribute alone, without the map. `QueryMap` is
`decode_query_string`, one part of the query per step.

### Converters and TypeRegistry

`Converters` has both directions between CEL values and messages, with their
errors and the panics of `set_field`. `TypeRegistry` is the walk of
`register_message_types` over any graph of types.

### StringFunctions, LegacyTranslation and BodyReader

`StringFunctions` counts bytes or characters as the code does and casts indices
to `usize`. `lastIndexOf` with a base returns an index relative to it, as the
test at `data/cel/strings.rs:333` expects. `LegacyTranslation` keeps predicates
as token sequences, because the code pastes their text, and evaluates the result
with CEL's precedences. `BodyReader` is the token usage task over the pieces the
host shows, with answers in between and pieces the filter holds. What an `eval`
sees is the host's: the pieces held so far and the new one in a body callback,
the held ones in that of an answer. The body ends with `end_of_stream` or with
trailers, for which the filter has no callback.

## Runs

| Run | Module | Checks | Result |
|---|---|---|---|
| `DescriptorSafety` | `MCDescriptors` | descriptor cache with unsolicited answers, type registry, conversions | holds, 91,033 states |
| `DescriptorLiveness` | `MCDescriptorManager` | `EnvMatchesPool`, `RegistrySpec`, `EventuallyResolved` without unsolicited answers | holds, 446 states |
| `FilterStreams` | `MCKuadrantFilter` | nine safety properties of the filter and `StreamSettles` over ten action sets | holds, 221,916 states |
| `EventParsing` | `MCResponseBody` | event parser, reading of the response body | holds, 177,164 states |
| `RequestRouting` | `MCFactory` | routing, reconfiguration, translation of legacy actions | holds, 230,608 states |
| `SpanSafety` | `MCStreamContext` | span buffer, header maps and attributes, expressions and their functions | holds, 359,120 states |
| `FailureModeLost` | `MCKuadrantFilter` | `FailureModeHonoured` | violated |
| `AllowedMetric` | `MCKuadrantFilter` | `AllowedMeansAllowed` | violated |
| `HeldForever` | `MCKuadrantFilter` | `StreamEnds` for an action behind one that can fail after a requeue | violated |
| `BodyReread` | `MCResponseBody` | `FoundIsReturned` | violated |
| `BodyValuePending` | `MCExpressions` | `BodyFunctionsReturn` | violated |
| `RequestSpanOpen` | `MCSpanBuffer` | `RequestSpanEnds` | violated |

Four runs check several components each. These components abstract from each
other's data and share no variable, so their composition would only multiply
their states. The module of such a run has a variable `part`: a behaviour is one
of the component that `part` names, and the others stay idle. The state counts
of the components add up:

| Run | `part` | Component | Properties | States |
|---|---|---|---|---|
| `DescriptorSafety` | `cache` | `DescriptorManager` | `TypeOK`, `PendingHasCall`, `NoDuplicateFetch`, `PoolServesKey`, refinement `RegistrySpec` | 2,650 |
| | `walk` | `TypeRegistry` | `RegistersAll`, `WalkEnds` | 24,454 |
| | `conversion` | `Converters` | `ConversionsKeepData`, `PanicsOnlyOnKeys` | 63,929 |
| `EventParsing` | `events` | `EventParser` | `ChunkingInvisible`, `UsageIsSecondToLast`, `ParseEnds` | 99,058 |
| | `body` | `BodyReader` | `BodyIsRead` | 78,106 |
| `RequestRouting` | `routes` | `Routing` | `RouteIsMostSpecific`, `UnroutedIsUnmatched` | 59,576 |
| | `configurations` | `Reconfiguration` | `ConfigurationUsable`, refinement `ActiveSpec` | 6,504 |
| | `predicates` | `LegacyTranslation` | `LegacyCallsKept` | 124,880 |
| | `names` | `LegacyTranslation` | `LegacyCallsKept`, of request data | 37,464 |
| | `replies` | `LegacyTranslation` | `LegacyRepliesDecide` | 2,184 |
| `SpanSafety` | `spans` | `SpanBuffer` | `SpansExportedOnce`, `BufferKeepsNewest`, `NoSpanLeaks` | 64,249 |
| | `headers` | `RequestContext` | `ContextCoherent`, `EditsOnce` | 76,115 |
| | `exported`, `plain`, `address` | `RequestContext` | `ContextCoherent`, of attributes | 23,680 |
| | `shadowed` | `RequestContext` | `ContextCoherent`, `EditsOnce`, of maps exported to | 992 |
| | `expressions` | `Expressions` | `ExpressionsMean` | 77,760 |
| | `strings` | `StringFunctions` | `FunctionsAgree` | 79,040 |
| | `queries` | `QueryMap` | `FunctionsAgree` | 37,284 |

Some of these properties are conjunctions of the statements that the component's
module makes one by one, each with its own mutants:

* `ConversionsKeepData`: `RoundTrip`, `DecodedAsDeclared`, `EncodesFaithfully`,
  `ExportsJson`, `HeadersArrive`.
* `BodyIsRead`: `BodyReadInOrder`, `EndSettles`, `FieldsAreSet`.
* `ConfigurationUsable`: `KeysKnown`, `SpanFilterAgrees`.
* `LegacyCallsKept`: `CalledWhenMeant`, `EntriesOfHoldingBlocks`,
  `RequestDataKept`, `FieldsAreNames`. `LegacyRepliesDecide`:
  `RateLimitDecides`, `AuthAllOrNothing`.
* `ContextCoherent`: `ReadsAreRepeatable`, `CacheIsWriteThrough`,
  `OneRequestId`.
* `ExpressionsMean`: `EvalMeans`, `PendingForAReason`, `PredicatesConjoin`.
* `FunctionsAgree`: `IndexOfFindsFirst`, `PanicsInsideCharacter`, `SplitJoins`,
  `SubstringsMakeString`, `NegativeIsBeyond`, `MapOfQuery`.

What the properties of the filter say:

* `BarrierBalanced`: until termination the barrier is the number of guard calls
  that wait for an answer, and `Barrier::lower` never finds it at 0.
* `GuardedForward`: a request is let through only when no guard call is out.
* `LeadingGuardsDecided`: a request the upstream sees has passed every guard
  that leads its action set.
* `ActionsConserved`: until termination a gRPC action is in at most one place
  (queued, called, completed or failed), and one of the set itself always is.
* `ListsAreSequential`: two actions of one list never wait at the same time.
* `TerminationIsFinal`: answers after termination have no effect.
* `TeardownBeforeDrop`: the filter drops a pipeline only after its teardown. It
  is about the filter: a stream that the host deletes in the middle of its
  pipeline (a reset, or a response that is over before the pipeline is, as one
  without a body whose `end_of_stream` the filter ignores) has no teardown.
* `HeldIsAwaited`: a held request waits for a guard call in flight, and a held
  response for any call in flight, with two exceptions. `RequestAbandoned`: the
  pipeline was terminated and the client got no reply, because the host refused
  it or because a terminal gRPC action of an `onReply` ended the pipeline
  (`tasks/dynamic.rs:335`, `executor.rs:189`); nothing resumes the request of a
  terminated pipeline (`filter/kuadrant_filter.rs:37`). `ResponseAbandoned`: the
  response has ended with a task in the queue that comes after a dead dependency
  or whose predicate waits for data the filter will not see.
* `StreamSettles`: under the fairness below every stream ends or comes to rest
  in one of these two exceptions, which are therefore the only ways in which the
  filter holds a stream for ever.

Some of the other properties hold only under a premise, which is part of what
they say about the code:

* `EncodesFaithfully` speaks of integers in the range of their field (others are
  truncated), `ExportsJson` of integers a double is exact for.
* `CalledWhenMeant` excludes a block whose one predicate is a conditional beside
  another block: it is joined by `||` without parentheses and regroups.
* `EvalMeans` excludes paths that end above a stored value, which they hide.
* `PendingForAReason` speaks of expressions whose body values are all in the
  response body; for the others see `BodyValuePending`.
* `BodyReadInOrder` and `FieldsAreSet` allow for a piece read twice because the
  filter held it, which `BodyReread` is about; `FieldsAreSet` excludes events
  cut inside a character. `EndSettles` is about `end_of_stream`: a body that
  ends with trailers leaves the task in the queue.
* `CacheIsWriteThrough` speaks of the headers in the cache, not of bytes that a
  store action exported to the path of their map.
* `NegativeIsBeyond` speaks of negative indices that are beyond the string after
  the cast to `usize`; one near `-2^bits` wraps into the string again. The other
  properties of string functions are stated of the index after the cast.
* `EnvMatchesPool` is checked and proved without unsolicited answers.
* `LeadingGuardsDecided` says nothing of guards behind an action that does not
  guard, nor of ones that wait for data.
* `RequestDataKept` gives every request datum a name of its own in authorization
  calls only: in rate limit calls `metrics.labels.a` and `a` have the same key.
* `SpanFilterAgrees` speaks of accepted configurations with a header identifier
  and, if any, a tracing service of that type. The filter then has a level
  exactly if blueprints export spans, and lets the INFO spans of requests pass
  exactly if the default level is INFO, DEBUG or TRACE: with WARN, ERROR, OFF or
  an unknown level the export finds none. A rejected configuration changes the
  filter too; other tracing settings record spans that no blueprint exports.

The six violated runs record disagreements with the repository's own text:

* `FailureModeLost`. A gRPC action that is requeued comes back without its
  `FailureModeTask`, so a later failure neither allows nor denies
  (`tasks/failure_mode.rs:38`; `configuration.rs:232`).
* `AllowedMetric`. `kuadrant.allowed` is incremented for every response,
  denied and unmatched requests included (`filter/kuadrant_filter.rs:167`;
  the crate's `README.md:176`).
* `HeldForever`. The same lost failure mode leaves the failed action's id out
  of `completed_tasks`. Its successor stays queued, and at the end of the body
  the response is held with nothing in flight.
* `BodyReread`. Every `eval` feeds the buffered body to the task from its first
  byte (`tasks/token_usage.rs:65`). A piece that the filter held is read again
  with the next one, and a field the body has is not found; the crate's
  `README.md:122` says that a value found is returned.
* `BodyValuePending`. A field the response body does not have stays pending
  (`data/cel.rs:279`) when the body has been read; `README.md:121` promises an
  evaluation error, line 149 null. Nothing sets request body values
  (`kuadrant/context.rs:397`), so `requestBodyJSON` (`README.md:75`) is always
  pending.
* `RequestSpanOpen`. The request span stays entered between callbacks
  (`kuadrant/context.rs:99`), so a stream that starts meanwhile becomes its
  child and keeps it open. Ending it at teardown does not add it to the buffer
  (`tasks/export_traces.rs:20`); it is exported later, by another stream.

Other disagreements met while modelling have no run of their own. The modules
have the code's behaviour, and the properties are stated so that they hold of
it:

* The port of `source.remote_address` is cut off at the first colon, also of an
  IPv6 address (`kuadrant/context.rs:265`; the crate's `README.md:164`).
* The grammar quoted in `sse_line_parser.rs:18` allows a byte order mark; the
  code reads it as part of the first field's name, which `EventParser` has.
* Attributes under `connection` are fetched but not bound, so an expression that
  reads one fails (`data/cel.rs:247`; `README.md:163`). `Expressions` has this,
  but none of the expressions of `SpanSafety` reads one.
* Null, list and object fields of a body are found and dropped
  (`tasks/token_usage.rs:98`; `README.md:122`). `FieldsAreSet` promises nothing
  for them, and `BodyReread` has only fields of the other kinds.
* `queryMap` lists repeated names only if its second argument is `true`
  (`data/cel.rs:437`); the comment at line 428 says unless it is `false`.
  `MapOfQuery` asks for the first value where there is no second argument.
* `on_http_response_headers` ignores its `end_of_stream`
  (`filter/kuadrant_filter.rs:165`), so tasks that wait for the body of a
  response without one are never run. No property speaks of them.

### Bounds

`MCKuadrantFilter` has ten action sets. Between them they have every kind of
action, terminal and not, guards before and after other calls, two levels of
`onReply`, data of the response headers and of the body, and all three tracing
settings. Lists have at most three actions: dependencies only reach the action
before. Two body chunks per direction allow an `eval` before, between and after
answers. Pending data does not need more, since a task only distinguishes
"response started" and "response ended".

`MCDescriptorManager` has two fetched keys and one with embedded descriptors,
two files of which one serves only some keys, and two tokens: calls in flight
ask for disjoint non-empty sets of fetched keys.

The `events` of `MCResponseBody` are ten chunks and up to five of them: a data
line whole and in parts, each line end, a carriage return apart from its line
feed and a two-byte character whole and cut. Five chunks make two events and an
unfinished third. The `routes` of `MCFactory` take every configuration of two
action sets over five patterns of depth 0 to 3, and five hosts. The `spans` of
`MCStreamContext` have two streams with two task spans each and a buffer of
three, so that it overflows and a span has a parent of another stream;
`MCSpanBuffer` has three streams with one task span each.

The `headers` of `MCStreamContext` have two names, two values and maps of up to
two headers, so that a name can repeat; its attributes are one that the filter
exports, one it only reads and the client's address, each beside the header
maps, and `shadowed` exports to both maps. The `walk` of `MCDescriptors` takes
every graph of three types with up to two message fields. `conversion` has
integers of three and two bits in place of 64 and 32, `strings` up to three
characters of one or two bytes, a three-bit `usize` and indices from -9 to 9:
each still has values that fit, that truncate and that wrap at both ends.
`predicates` has up to two blocks of two predicates, `names` up to two request
data with names of up to three characters, `replies` every reply. `expressions`
has sixteen attributes, singly and in pairs, with values stored in between.
`body` cuts five bytes (three events, a two-byte character) everywhere, with
three answers. `queries` has three parts over three texts, of which two are
spellings of one. `configurations` has some that fail at each stage and two
interchangeable streams.

Deadlock is checked in `RequestRouting`, `DescriptorSafety` and
`DescriptorLiveness`; finished walks, conversions and translations stutter
there. It is not in `EventParsing`, `SpanSafety`, `BodyReread` and
`RequestSpanOpen`, where the chunks, streams or computations run out, nor in
`FilterStreams` and `HeldForever`: a stream that is held with nothing in flight
really stops.

### Fairness

`KuadrantFilter`: a running callback returns (the code has no loops that wait),
Envoy goes on with a stream that is not held, and every gRPC call is answered,
if need be by its timeout. Fairness is weak. Nothing relies on what only may
happen: that Envoy times a held request out, that an upstream responds before it
has the whole request, or that a stream is reset.

`EventParser` and `TypeRegistry`: the loop goes on.

`DescriptorManager`: while a tick period is set the host ticks and takes the
call; every call is answered or times out. Strong fairness is assumed only of
the descriptor service: when it is asked for a key again and again, it at last
sends a usable descriptor. Without it the code can do nothing but retry.

## Proofs

The theorems of the eight `...Proofs` modules hold for every value of the
constants, under the assumptions the modules name: well-formed blueprints
(`BlueprintsAssumption`) and the types of the constants (`BoundsAssumption` of
the filter, `ConstantsAssumption` of the descriptor manager,
`ServicesAssumption`, `RoutingAssumption`, `LengthAssumption`,
`BufferAssumption`, `TasksAssumption`, and the name, value, path and operation
assumptions of `RequestContext`). TLC evaluates all of them on the runs.

| Module | Theorems |
|---|---|
| `PipelineProofs` | lemmas about tasks and the executor, and its moves |
| `KuadrantFilterProofs` | `TypeOK`, `BarrierBalanced`, `TeardownBeforeDrop`, `GuardedForward`, `TerminationIsFinal` |
| `FilterTasksProofs` | `ActionsConserved`, `ListsAreSequential` |
| `FilterHoldProofs` | `LeadingGuardsDecided`, `HeldIsAwaited` |
| `DescriptorManagerProofs` | `TypeOK`, `PendingHasCall`, `NoDuplicateFetch`, `PoolServesKey`, `RegistrySpec`, `EnvMatchesPool`; `RegistersAll` |
| `FactoryProofs` | `ConfigurationUsable`, `ActiveSpec`; `RouteIsMostSpecific`, `UnroutedIsUnmatched` |
| `RequestDataProofs` | `ContextCoherent`; `BodyIsRead` |
| `SpanBufferProofs` | `SpansExportedOnce`, `BufferKeepsNewest`, `NoSpanLeaks` |

The arguments:

* **Filter.** `IInv` is `TypeOK`, `BarrierBalanced` and what ties the executor
  to the filter: `Phases` (which variables are in use between callbacks, in
  `digest` and in `eval`), `Inactive` (a dropped pipeline has no tasks, calls or
  teardown left), `TokensFresh` (the tokens of deferred tasks are below
  `next_token`, so an insert never overwrites a waiting call) and `Inert` (a
  terminated pipeline has only no-ops and an empty queue). `TokensFresh` is
  what makes the barrier count right, and `Inert` what keeps late answers
  without effect.
* **Where the actions are.** `PipelineProofs` reduces the steps of a pipeline
  that goes on to moves of tasks (`Moves`: a pipeline is admitted, the queue is
  drained, an answer is taken, an `onReply` action is looked at, `digest`
  settles, a task is requeued, called or finished, `eval` ends). `Placed(id)` is
  kept by every move: the action is in at most one place (`Apart`), it comes
  after the call whose reply it belongs to (`ParentFirst`), it is called only
  when the actions before it in its list are completed (`InOrder`), and in
  every queue it is behind the one it depends on (`InSequence`: the order in
  which `digest` puts tasks in front of the queue matters here). `Present` says
  that no action of the set is lost. `FilterTasksProofs` shows that every step
  of the filter is a move, from `TInv`: `IInv`, the variables of `eval` and
  `digest` are empty outside them (`Transient`), tasks stand for actions of the
  blueprint (`Local`), and nothing has happened before the first callback.
* **What is held.** `GInv` adds that a leading guard keeps its failure mode
  wherever it is (`Protected`; `FailureModeLost` shows that other actions do
  not), and that a leading guard that stays in the queue does so behind one that
  is not completed (`Blocked`). If no guard call is out, the first guard in the
  queue would be behind a completed one, so there is none. `HInv` adds that
  pending tasks are answered (`Awaited`), how the filter and the host agree on
  the phase (`Phased`), why the filter pauses (`HeldFor`), what an `eval`
  after the end of the stream leaves in the queue (`QueueWaits`), and why a
  terminated pipeline sent no reply (`Explained`: it was refused, or a terminal
  call ended the pipeline).
* **Descriptor manager.** The inductive invariant is `TypeOK` with
  `Consistent`: Pending keys are in their call, calls are disjoint and ask for
  no embedded key, embedded keys are never Missing or Pending, and every
  Embedded or Resolved file is in `pools` and serves its key. From it follow
  the four safety invariants and the refinement `Spec => RegistrySpec`, step by
  step. `EnvMatchesPool` is proved under `~Unsolicited` with the extra fact
  `Solicited`: every key a call asked for is still Pending on that call.
* **Type registry.** `WalkInv`: what is visited or on the stack contains the
  root and all fields of visited types, and lies in every closed set with the
  root; with an empty stack it is the reachable set.
* **Reconfiguration.** `KeysKnown` is inductive since keys are only added.
  `SpanFilterAgrees` follows from `JustAccepted`: until the host calls again,
  the span filter, with its level, and the factory are both those of the
  configuration that was accepted. In the refinement `Spec => ActiveSpec` the
  compiler accepts exactly the well-formed configurations and its factory does
  what they promise.
* **Routing.** The main lemma is about the keys: one is a prefix of another
  exactly when its pattern matches, and the longest key found is that of the
  most specific pattern, a definition that does not mention the index. `RInv`
  adds that the candidates left and tried are together the eligible action sets
  and that those tried did not match (`Selecting`).
* **Request context.** `ContextCoherent`. The inductive invariant adds that what
  was answered is cached (`SeenIsCached`), that response headers are cached only
  from the response on (`ResponseIsLater`, of headers only: otherwise opening
  the map would make a stale entry) and that every id sent is the one kept
  (`SentIsKept`).
* **Response body.** `BInv`: while the task is queued its buffer has exactly the
  bytes delivered, in order unless the host held some or an event was cut inside
  a character (`ReadSoFar`), and nothing is set. Answers between pieces, holds
  of the host and trailers are steps like any other.
* **Span buffer.** `SInv`: open and ended spans are spans their streams have
  made, and an ended span is in one place (`EndedOnce`); a handle belongs to a
  running stream or is on the agenda of the callback (`HandlesGo`); and the
  spans can be ranked so that a parent is below its children (`Ranked`), which
  a new span keeps because it is ranked above all others. `NoSpanLeaks` needs
  all three: without handles an open span of the highest rank has no child
  either, so it would be ending.

TLC also found each inductive invariant to hold on the instances of the runs.

Only model-checked:

* Liveness (`StreamSettles`, `EventuallyResolved`, `ParseEnds`, `WalkEnds`) is
  beyond the prover.
* `ChunkingInvisible` and `UsageIsSecondToLast` compare the parser with what a
  whole text means, and `EditsOnce` counts the headers of a list: both need
  induction over a sequence, which no installed prover can do.
* `ConversionsKeepData`, `PanicsOnlyOnKeys`, `ExpressionsMean`,
  `FunctionsAgree`, `LegacyCallsKept` and `LegacyRepliesDecide` are about
  recursive algorithms over nested values and strings, for the same reason.

## Not modelled

* The operators of CEL, which the cel crate evaluates, and `lowerAscii`,
  `upperAscii`, `trim` and arguments of the wrong type of the string functions.
* The wire encoding of protobuf (prost), JSON parsing, percent decoding, and
  deserialization of the configuration (serde), timeouts included.
* Logging and the log level, the `configs` counter, propagation of trace headers
  and the encoding of spans.
* Generated protobuf code and the plugin's entry point.
* Hosts and patterns with `*` other than a first label of its own (`Routing`).
* A VM crash: nothing is persisted, and Envoy starts a new VM.

## Plan

1. An abstract request gate (held, let through, answered) refined by the filter.
2. A model of the propagation of trace headers.
