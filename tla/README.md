# inferlog in TLA+

inferlog records what a program asks of language models: an SDK inside the
program captures the calls and ships one event per call; an ingestion service
puts the events on a Redis stream; workers write them to Postgres. A chat
gateway and a web client come with it. This directory models the parts of that
system where interleaving, failure and order decide whether it is right, checks
the models with TLC on small instances, shows that the parts together implement
an abstract log store, and proves the main safety properties with TLAPS for all
sizes.

    tlc -config Dispatcher.cfg Dispatcher        model-check one run
    tlapm Dispatcher_proofs.tla                  check the proofs about it

Paths below are relative to the repository.

## 1. The system

| part | where | state it keeps | operations | what makes it correct |
|---|---|---|---|---|
| log dispatcher | `sdk/inferlog/dispatcher.py` | bounded queue, one flusher task, two flags, two counters, the HTTP client | `submit`, `start`, `aclose`; the flusher batches, sends, retries | every event accounted for; order; close drains, ends, and is final |
| HTTP capture, lifecycle | `auto.py`, `__init__.py`, `runtime.py` | active runtime, `_state` with httpx's own methods, per-stream parser and `_emitted` | `install`, `uninstall`, patched `send`, `transport()`, stream wrappers; `init`, `shutdown`, `ashutdown`, `flush`, `stats` | the host's call works; one event per call; the last `init` stays in force |
| explicit wrapper | `client.py`, contextvar in `auto.py:44-56` | `_inside_explicit` per task, a token per call | `complete`, `stream` | one event per call; capture off inside a scope, on outside |
| event shape, redaction, sampling, tags | `events.py`, `redaction.py`, `sampling.py`, `context.py` | a contextvar of tags | pure functions | caps, masks, keep rate |
| parsers | `parsers.py` | a byte buffer per stream | `feed`, `parse_request`, `parse_response` | the result does not depend on chunk boundaries, nor on streaming |
| ingestion API | `ingestion/app/api.py`, `events.py` | none | `POST /v1/ingest`, queries, health | what is answered 202 is on the stream; what the SDK sends is valid |
| stream and worker | `ingestion/app/stream.py`, `worker.py`, `db.py:60-75` | consumer group, pending list, DLQ, table `inference_logs` | publish, read, claim, ack, park, upsert; SIGTERM | nothing lost, one row per request, only the unprocessable parked |
| enrichment | `processing.py`, `enrich.py`, `redaction.py` | none | pure functions of one event | cost, throughput, masks |
| dashboards | `ingestion/app/db.py:79-194` | none | read-only SQL | figures |
| gateway | `gateway/app/chat.py`, `db.py`, `conversations.py`, `llm.py`, `main.py` | tables `conversations`, `messages`; spawned persist tasks | create, list, read, delete, send a message and stream the answer | what is stored is what was said, once, behind its question |
| web client | `web/src` | React state: selected id, shown thread, `streaming`, `abortRef` | open, create, send, stop, delete | the thread shown is the one selected; one answer at a time; the input is freed |
| schema, configuration, scripts, examples | `db/schema.sql`, `config.py`, `scripts/`, `examples/` | | | keys and cascades |

How they meet: capture and the explicit wrapper call `submit()`; the dispatcher
POSTs batches to the ingestion API, again when no answer came; the API publishes
each event to the stream; the worker writes rows. So an event may reach the
stream more than once, and `UNIQUE (request_id)` is what makes it one row. The
gateway is a host program of the SDK and streams answers to the web client,
which resyncs from the gateway's tables.

What is hard here: coroutines that interleave at every `await`; cancellation,
which passes `except Exception`; tasks that outlive, or die with, their loop;
generators that the host drops; module state that changes under a call; retries
of what was already done; crashes between a commit and its acknowledgement;
reclaiming from a worker that is only slow. `PROJECT.json` lists these hazards
at their lines, with the properties that catch them or the reason why none does.

## 2. The modules

### Dispatcher (`dispatcher.py`)

One action is what a coroutine does between two awaits that really suspend.
`task` is `self._task` and the place where the flusher is suspended: `ready`
(created), `get` (waiting in `_collect_batch`), `send` (inside `sink.send`),
`backoff` (asleep between attempts), `done`, `cancelled`. `closer[c]` says the
same of each `aclose()` call. Timers are steps that may come at any moment: no
property depends on a duration. The n-th `submit()` carries event n.

| code | actions |
|---|---|
| `start`, `submit` (168-196) | `Start`, `SubmitQueued`, `SubmitFull`, `SubmitClosed` |
| `_run`, `_collect_batch` (228-249) | `Collect`, with `LoopHead`, `TakeBatch`, `Idle` |
| `_send_with_retry` (251-285) | `SendOk`, `SendRetry`, `SendGiveUp`, `BackoffOver` |
| `aclose` (206-218) | `CloseAgain`, `BeginClose`, `DrainTimeout`, `DrainOver`, `DrainRaises`, `SinkIsClosed` |
| the ingestion server | `ServerTakes` (also after the SDK gave up on the request) |
| `asyncio.run` of the host | `EndLoop`, `StartLoop` |

Abstracted: the partial wait for a fuller batch (`_collect_batch` may take any
moment to return what is there), what tells a permanent error from a transient
one (both are retried up to `max_retries`), `on_drop`. The sampler adds to
`dropped` without a `submit()` (`auto.py:449-452`); the model's `dropped` is
that of the dispatcher's own code.

### StreamWorker (`worker.py`, `stream.py`, `upsert_log`)

Each call to Redis or Postgres is one step at the server; a call that fails may
have been applied or not. `entry[m]` is what the consumer group knows of a
stream entry: `absent` (not published, or acked), `new`, `pending`, and `stale`
once it has been idle past `claim_idle_ms`. `pc[w]` is the call that worker w
awaits, `cur` and `batch` are the variables of the loop in `_handle`. A slot is
published again once it is acked and no worker remembers it, so that traffic
goes on for ever in a finite model; rows stay.

| code | actions |
|---|---|
| `run` up to the loop (58-88) | `Start`, `Boot` |
| the loop of `run` (90-104) | `ReadNew`, `ReadEmpty`, `Sweep`, `Stop` |
| `_handle` (33-55) | `Upsert`, `UpsertRefused`, `AckOk`, `Park`, `ParkAck`, with `Advance` |
| failures | `UpsertFails`, `AckFails` (both caught, both park), `CallKillsWorker`, `Crash` |
| API, time | `Publish`, `GoesStale` |

The order within one batch is left open. `Malformed` and `Poison` stand for the
two ways in which an event cannot be stored. MCStreamWorker gives the instances.

### Capture (`auto.py`, `__init__.py`, `runtime.py`)

A call passes two layers that may log it: the patched `send`, and
`inferlog.transport()`. Each decides by the state it finds when it is reached:
`StartPatched` by the active runtime, `Transport` also by `_state["installed"]`.
`rtOf[c][l]` is the runtime layer l logs call c to, and `emitted[c][l]` the
status of its event. Init, shutdown and ashutdown may come between any two steps
of a call; what `ashutdown` does before its await, and after it, are two actions,
and up to `MaxShutdowns` of them overlap. Kinds of call: async or sync (which
has no transport), of a streaming request or not, and `held` or not: sent with
`stream=True`, so that httpx leaves the body to the host.

A stream is read through `aiter_bytes` (`reader = "bytes"`) or past the patch
(`"raw"`), and is exhausted, fails, is cancelled, or is dropped (`Break`), in
which case each wrapper is finalized at its own time. A held body that the patch reads
itself, or does not read (a synchronous stream), ends at the host `returned` or
`cutShort`: the patch swallows a failing `aread()` (201-208) and has logged a
success when the host finds out. `PatchTruthful` says that it logs a success for
a failed call nowhere else. The transport decides on the headers alone.

`disturbed` holds the calls that the configuration changed under before they
reached the wire: for those the code promises nothing about who logs them, and
the properties that exempt them say so.

Abstracted: requests that no handler recognises, parse failures (both take the
fast path or leave fields empty), threads, what `_emit_safe` does with an event
(StreamLog has it), and a host that reads raw (`aiter_raw`) a body which the patch
has already read (`aread`, 189 and 204), which raises `StreamConsumed`.

### ExplicitScope (`client.py`)

`flag[t]` is `_inside_explicit` in the context of task t, `old[w]` what the token
of call w restores. An async generator has no context of its own: what it sets
stays set in its task while it is suspended at a `yield`. Streams may be closed
in any order; a dropped one is closed by the loop's finalizer in a task of its
own, where the token is refused, after `_emit`. `EndComplete` is the end of
`complete()`, `EndStream` that of `stream()`. `loose` are the tasks that did
not nest their scopes, dropped one, or were spawned inside one.

### ChatTurn (`gateway/app/chat.py`, `db.py`)

Each await on the database is a step. `rows` is the set of rows of the table
`messages`, each with the time it was inserted at (`at`, its `created_at`), and
`clock` the last such time; `RecentMessages` are the rows with fewer than
`Window` newer ones. `convs` are the rows of `conversations`; a DELETE
cascades. The generator is
cancelled at any of its awaits inside the `try`, those of
`_persist_assistant_turn` and the `yield` of "done" included; a cancelled or
failed INSERT may have been applied. `bg[t]` is the task of `_spawn_persist`.
An answer is its number of tokens.

### LogStore and Pipeline (`dispatcher.py`, `api.py`, `worker.py`, `stream.py`, `db.py`)

LogStore is what the whole promises, in five variables: the events taken, their
rows, the parked ones, and those that the SDK counts as delivered or as dropped.
An event is confirmed only after it was taken, stored only once, never counted
twice, and once taken it is settled in the end. It may well be counted as
dropped and stored all the same.

Pipeline is Dispatcher and StreamWorker, each instantiated whole, with the
ingestion API between them in place of the server that Dispatcher assumes. An
entry of the stream is `<<e, k>>`: event e, published for the k-th request that
carried it.

| code | actions |
|---|---|
| the SDK (`dispatcher.py`) | the actions of Dispatcher (`SDK`), but for `SendOk`: `Answered` needs the API's 202 |
| `HttpSink.send` (80-96) | `Wire` puts a request among `posts` |
| `ingest` (`api.py:99-109`) | `Publish`, one event at a time; `Accepted` when the loop is through |
| validation by FastAPI (`events.py:46-93`) | `Valid`: one bad event and the request takes no step |
| `worker.py`, `stream.py` | the actions of StreamWorker (`Ingestion`) |

A request that is lost, that the API stops half-way through, or that is answered
too late is one that takes no further step while the SDK goes on; a dead worker
is StreamWorker's. The refinement maps `taken` to what was published, `parked`
to the DLQ, and adds two history variables for what the counters count.

### EventShape and StreamLog (`parsers.py`, `auto.py`, `events.py`, `processing.py`, `enrich.py`)

StreamLog follows one captured call from its request to its row. A body is a
sequence of lines, a line its kind and three bytes, the last of them the newline:
chunks may end inside a line, and the connection before the last newline. `Calls`
is any set of calls of the type that `CallType` states; MCStreamLog lists those
that TLC explores.

| code | definitions |
|---|---|
| `matches`, `parse_request`, `HANDLERS` | `MatchesOpenAI` ... `Identify`, `OpenAIStreams` ... |
| `feed` of the three parsers | `Feed` with `Loop` (the shared loop, a function of the bytes it has seen) and `Take` (one turn of it), `ParseOpenAI`, `ParseAnthropic`, `ParseOllama` |
| `parse_response` | `OpenAIResponse`, `AnthropicResponse`, `OllamaResponse` |
| `_capture_async`, `_capture_sync` | `PassThrough` (also when `parse_request` fails), `Fails`, `Buffered`, `HeadersOnly`, `Attach`, `Unseen` |
| `wrapped_aiter_bytes`, `_AsyncStreamState` | `Chunk`, `Exhausted`, `Leave`, `Breaks` |
| `_emit_safe`, samplers, redactor | `Emit`, `Swallow`, `Unstrippable`, `RedactorRaises`, `Preview`, `Keeps` |
| `to_payload`, `IngestEvent` | `Payload`, `IngestEvent` (EventShape) |
| `process_event`, `enrich` | `ProcessEvent`, `TotalTokens`, `HasCost` |
| the gateway's providers (`llm.py`) | `GatewayOpenAI`, `GatewayAnthropic`, over the lines in `GatewayLoop` |

A line is `odd` when it is JSON of a shape that makes `feed` raise: it is already
out of the buffer then, and what follows it waits there for the next chunk.
A line of OpenAI's protocol may carry a delta of the first choice (`text`), of
another (`other`) or of both (`both`): the parser of streams joins them all,
`parse_response` and the gateway read the first one. A piece of text may be
white space (`blank`), which the preview strips; a preview has room for
`PreviewPieces` pieces, which stands for `_PREVIEW_CHARS`.

What the host or the provider may do to an event is in the call's `shape`: the
content of an answer is not a string, the redactor or the sampler raises (the
event is swallowed, `auto.py:461-462`), the redactor lengthens a text, a count is
negative or no integer (the service refuses the event, `events.py:57-63`).

EventShape has the size limits on both sides of the wire with their real values;
a text is its length, a dict the lengths of its items.

Abstracted: the fields of the JSON (a line's kind says which of them it has), the
wording of texts, that a redacted text is what the regular expressions make of it
(only how long it can grow), a decoded chunk of another encoding, latencies but
the order of the first token, prices and throughput (whether there is a cost at
all), the second redaction pass of the service, which is off by default.

### ChatView (`web/src/components/ChatView.tsx`, `api.ts`)

Each handler runs from one `await` to the next without interruption, with the
state of the render it was made in; requests are answered in any order.

| code | actions |
|---|---|
| `openConversation` (62-69) | `Open`, `Opened` |
| `startNew` (71-82) | `StartNew`, `Started` |
| `removeConversation` (84-95) | `Remove`, `Removed` |
| `send` (101-163) | `Send`, `Created`, `Returns`, `WakeUp`, `Resynced` |
| `stop` (97-99) | `Stop` |
| the gateway | `Ask`, `Answer`, `AnswerUnstored`, `ModelFails`, `PersistPart`, `Delete`, `Get` |

The gateway's thread of a conversation is the set of its messages; that an answer
is stored before "done", and a partial one by a task of its own, is what ChatTurn
shows of `chat.py`. An INSERT that fails is only logged (`chat.py:77-78`) and
"done" is sent all the same (`AnswerUnstored`); a partial answer may be empty, or
not stored either. `crossed` is history: a result changed the view after a later
operation had begun. No guard of the page prevents that, and the invariants say
what holds without it. Left out: the lists of models and conversations, the
banner, the live text (only whether the thread that replaces it has the answer).

### What is not modelled

- The dashboards' SQL, `/healthz` and the gauges, `logging_stats`: read-only.
- Regular expressions (redaction) and JSON field access (parsers): data.
- Configuration, authentication of the API, the construction of provider clients,
  the catalogue of models, `scripts/` and `examples/`: no state that a model
  would add to. `init` and `ashutdown` of the gateway's lifespan are Capture's.
- The mock provider: a test double; ExplicitScope stands for any provider.
- `context()`: tags are set and reset like the flag of ExplicitScope; StreamLog
  has their sizes and `conversation_id`.
- Batches of more than 500 events, which the API refuses: the SDK's `batch_size`
  is far below it by default, and nothing checks the one against the other.
- Rendering, and the dashboard page, of the web client.

## 3. The runs

All states within the bounds are explored; times are with two workers.

| run | instance | checks |
|---|---|---|
| Dispatcher | 4 submits, queue of 2, batches of 2, 2 attempts, 2 `aclose()` calls | type, accounting, order, drain, finality, progress, end of close |
| DispatcherExit | the same | **violated**: closing without a live flusher discards the queue |
| StreamWorker | 2 workers, an event sent twice and a poison one, batches of 2, 2 faults, 1 SIGTERM | nothing lost, one row, no orphan and no false DLQ entry without a fault |
| StreamWorkerLive | 2 messages, one malformed, batches of 1, 2 faults, 1 SIGTERM, traffic that pauses | every entry is settled |
| StreamWorkerBusy | the same, traffic that need not pause | **violated**: an orphan is never reclaimed |
| Capture | 1 call of each kind, 3 `init()`, 2 overlapping `ashutdown()`, `shutdown()` | one logger, one event, truthful status, `init` sticks, dropped streams logged |
| ExplicitScope | 3 streams and a `complete()` in 2 tasks | one event, also of a dropped stream; capture off inside a scope, on outside |
| ChatTurn | 2 requests on 1 conversation, window 2, 2 tokens, 1 fault | honest rows, question before answer, stored once, "done" is true, context, partial answers stored |
| ChatTurnTwice | the same | **violated**: one answer stored as complete and as cancelled |
| Pipeline | 2 submits, queue and batch of 2, 2 attempts, 1 worker that reads one entry at a time, 1 fault; the first event is refused by Postgres, the second may be invalid | the composition implements LogStore; the API is Dispatcher's server; nothing is ever in one memory only |
| StreamLog (MCStreamLog) | 4 kinds of provider, up to 3 lines besides the provider's own, whole or broken off, cut anywhere; events of extreme size | independence of chunks, same figures however read, honest status and first token, which calls get no row |
| ChatView | 3 conversations, 3 operations of which up to 2 sends, 2 requests that fail | shown is selected, one answer, a stored answer stays, the input is freed |

Why these bounds are enough for the interesting cases:

- *Dispatcher*: with four submits the queue fills while a batch is retried, a
  second batch follows a failed first, and submits fall before, into and after a
  close. Two closers overlap in every way; a third adds no new kind of overlap.
- *StreamWorker*: two faults allow a crash during the recovery from a crash;
  three messages against batches of two leave one in the stream. In the liveness
  runs a batch of one makes a worker leave a second stale entry behind.
- *Capture*: calls share nothing but the configuration, which no call changes, so
  one call of every kind sees all there is to see. Three runtimes let an `init()`
  overtake an `ashutdown()` and be overtaken.
- *ExplicitScope*: three streams are the least for which a token restores a value
  that a second token left wrong.
- *ChatTurn*: a window of two is exactly filled by another request's question and
  answer.
- *Pipeline*: with two events in one batch a request can stop between them, be
  sent again, and put the first on the stream twice, while a worker has the
  first copy in its hands and then dies. Each part has its larger instance in
  its own run.
- *StreamLog*: three lines are text before, at and after one that raises or is
  cut; three bytes a line give a chunk that ends inside a line, before and after
  its newline. The sizes are those of the code, with inputs on either side of
  every limit that a text or a dict can reach. A preview of two pieces is exceeded
  by an answer of three.
- *ChatView*: two operations cross in every way when three can be begun, and the
  third finds what they left.

`CHECK_DEADLOCK FALSE` stands where the program may come to rest: all calls
over, all turns answered, a call logged, a page at rest. The workers and the
dispatcher's host never run out of steps they could take within their own bounds,
or of the loop's end and restart.

Each violated property states a sentence of the repository; `PROJECT.json`
quotes it. Other disagreements met on the way, without a run of their own:

- `dispatcher.py:142` "Safe to call aclose() multiple times": of two overlapping
  calls the one whose timeout fires first cancels the flusher, and the other's
  `wait_for` raises `CancelledError` (line 213), which nothing catches.
- `auto.py:18-19` "the host's call MUST still work": a coroutine of the patched
  `send` that first runs after `uninstall()` raises `KeyError` (line 152).
  `BrokenOnlyByUninstall` says that no other interleaving of `init()` and
  `shutdown()` with a call does that. Another way, outside the model: the patch
  reads a body (189, 204) that the host then wants raw.
- `README.md:187` "Every wrapper is in try/except": where the body of a held
  response breaks off, that hides the failure from the log, which says success
  (`auto.py:201-208`). `PatchTruthful` exempts these calls.
- `auto.py:20-22` the contextvar prevents double logging: a task that closes two
  streams in the order it opened them has capture on inside the second, and off
  for good after it (`client.py:202`). `CaptureFollowsScopes` speaks of the tasks
  that nest their scopes.
- `ingestion/app/events.py:9` "The SDK caps the same fields on its side": it does
  not cap `service` and `model`, nor ask for a UUID as `conversation_id`. One such
  event makes its whole batch a 422, which the SDK retries and then drops.
  Nor does it check the counts that a provider sends, or the length of what the
  host's redactor returns. `LoggedUnless` names these fields (`Unfit`): of those
  the module has, no other gets an event refused. It speaks of one call up to the
  service; what is lost on the way is the subject of Dispatcher and Pipeline.
- `parsers.py:176-180` joins the deltas of all choices of a stream,
  `parse_response` (143-146) and the gateway (`llm.py:121-122`) read the first:
  the preview of a streamed call with `n > 1` is a mixture. `SameFigures` compares
  texts for one choice only.
- `chat.py:59-60` "a DB hiccup here must not be visible to the user, who already
  has their answer": the page reads the thread right after "done"
  (`ChatView.tsx:154`), and an answer that was not stored vanishes from the screen.
  `AnswerStays` exempts it (`AnswerUnstored`).
- `ChatView.tsx:63` "don't switch mid-stream": a `startNew()` begun before the send
  switches when its answer comes, and a delete is not locked while streaming.
- A POST to `api.anthropic.com/.../chat/completions` matches no handler
  (`parsers.py:194-199`, `356-357`) and is not captured.
- `dispatcher.py:138` "Drops are visible": a batch in flight when the flusher is
  cancelled is in no counter and no callback. `Accounted` bounds the loss.
- `dispatcher.py:136` "starts on first submit from an async context": a task that
  ended with its loop is never replaced.
- `stream.py:91` the DLQ is for "a message we cannot process": a failed XACK parks
  a message whose row is stored.
- `docs/architecture.md:106` "Logging is emitted in a `finally`": a buffered call
  cancelled in flight emits nothing (`auto.py:176`).
- `db/schema.sql:28` "request_id is the join key": the gateway's request_id is its
  own and is not the SDK's (`chat.py:109`).
- `transport()` logs a success for a body that broke off (`auto.py:581-593`).

## 4. Fairness

- *Dispatcher*: weak fairness of the flusher and of each suspended `aclose()`. A
  running event loop runs what is due, httpx gives each request a timeout, and
  `wait_for` has one of its own. The host owes nothing: it may stop calling, and
  end its loop at any time, which is why the progress properties allow for a
  cancelled flusher.
- *StreamWorker*: time passes, and a live worker works. Nothing restarts a dead
  container (`docker-compose.yml` sets no restart policy); only when no worker is
  left is one assumed to be started. `GapSpec` adds that the traffic pauses: a
  worker that reads again and again finds nothing new again and again. Without
  that, StreamWorkerBusy shows, nothing is ever reclaimed.
- *Capture*, *ExplicitScope*: a generator that was dropped is collected and its
  `finally` runs; nothing else is owed. In ExplicitScope, too, a provider ends.
- *ChatTurn*: a spawned task runs. A crash is a fault, and the property allows
  for it.
- *Pipeline*: StreamWorker's fairness and nothing else. Neither the SDK nor the
  API owes a step: what is settled in the end is what was taken.
- *ChatView*: one weak fairness on what a send waits for, the gateway's answers
  and the timer: a browser ends a request that hangs, which the model has as the
  answer or the failure. The user owes nothing, other requests may hang.
- *StreamLog* has safety properties only, and no fairness.

## 5. The proofs

Assumptions are the named `ASSUME`s on the constants: bounds are naturals,
sizes positive, `None` is not a value (in StreamLog, not a number), a call of
StreamLog has a request, a body and lengths. TLC evaluates them in every run.
Nothing else is assumed: each
theorem holds for every number of events, workers, requests, conversations and
faults.

**Dispatcher_proofs.** `TypeCorrect` comes first; its hard part is that slicing
the queue keeps types and lengths (`SplitSeq`). Then four inductive invariants:

- `AccountedInv` = `Accounted` and the shape of the batch: it is empty unless the
  flusher sends or sleeps. Without that, a cancelled flusher might lose more than
  one batch, or a batch be counted twice.
- `OrderInv`: the queue is strictly increasing, everything in the batch is older
  than everything in the queue, what was sent is not newer than either, and the
  number of requests that carried a batch is its attempt number. Gives
  `WireOrder`, and with the state of the sink `SinkNotPulled`.
- `CloseInv`: a call past its timeout has cancelled the flusher, one that closes
  the sink has closed it, and a closed dispatcher with a live flusher has a closed
  sink. Gives `SilentOnceClosed`.
- `DrainInv`: a flusher that is done found `closing` set and an empty queue, so
  what is there now was submitted later. Gives `DrainComplete`.

**StreamWorker_proofs.** `TypesAlways`, then

- `StoredInv`: a worker about to ack has a row, one about to ack a parked message
  has its DLQ entry, and rows are never more than one. Gives `NothingLost` and
  `OneRow`, for any number of workers, messages and faults.
- `CalmInv`: without a fault every pending entry is in the hands of a worker, and
  only what cannot be stored is on its way to the DLQ. Gives
  `NoOrphanWithoutFault` and `OnlyPoisonParked`.

**Capture_proofs.** `TypesAlways` carries two relations that the rest needs:
httpx's methods are ours exactly while `_state` holds the originals, and a call
that has not begun is captured by nobody. Then

- `DecidedInv`, of every call that the configuration did not change under: what
  its `send()` found installed still is, `wanted` says whether capture is on as
  long as the call is in flight, and the layer that is reached later sees what
  the earlier one saw. A change of the configuration puts every undecided call
  among the `disturbed`; that is the whole argument for `CapturedOnce` and
  `BrokenOnlyByUninstall`.
- `EventInv`: no event before a call is over, then one per capturing layer. With
  `DecidedInv` it gives `LoggedOnce`, on its own `PatchTruthful`.
- `StayInv`: no `ashutdown()` waits under an `init()` that did not overtake one.
  Gives `InitSticks`.

**ExplicitScope_proofs.** `LoggedOnExit` is inductive as it stands. `NestInv`
speaks of the tasks that nest their scopes: the flag is on exactly while a scope
is open; the open scopes are totally ordered by `under`; the token of each
restores TRUE exactly if another scope lies below it. So the innermost scope,
the only one such a task can close, hands back the right value, which gives
`CaptureFollowsScopes`.

**ChatTurn_proofs.** `TypesAlways` also says that a request still at work has
spawned no task, except to store a partial answer whose error it is about to
announce. Then

- `OutcomeInv` and `AnswerInv`: a complete answer is inserted by the request
  alone, a partial one by the spawned task alone, and neither generates again.
  So a stored row stays true, and no two rows of a turn share a status. Gives
  `Honest` and `StoredOnce`.
- `TableInv`: no two rows share a time. `QuestionInv`: a request that got past its
  question has it in the table as long as its conversation stands, and a spawned
  task counts as such. Gives `AnswerHasQuestion`: the foreign key refuses what
  comes after a DELETE, and a DELETE takes question and answer together.
- `DoneInv`, `ReplayInv`: what holds from the await that makes it true to the one
  that ends its use. Give `DoneMeansStored` and `QuestionReplayed`. That a window
  without the question is full of newer rows is an argument on cardinalities: the
  question has `Window` newer rows or would be among the recent ones.

**Pipeline_proofs.** The theorems about Dispatcher and StreamWorker are proved as
lemmas on one step (`Init => Inv`, `Inv /\ [Next]_vars => Inv'`), and Pipeline
instantiates both proof modules: what is left is that a step of the whole is a
step of each part or leaves it alone (`SdkSteps`, `WorkerSteps`). That needs what
the parts assume of each other, which `PipelineInv` adds:

- `PostsInv`: a request carries events that are on the wire, each once; two
  requests with the same number of attempts have no event in common; what the
  loop of `ingest()` went past is taken. So a 202 means that the whole
  batch was taken (`KeepsDispatcher`), and what is published is a new entry.
- `SourceInv`: every entry the stream has had comes from a request, and every
  event taken has had one. With `NothingLost` it gives `AlwaysSomewhere`.
- `CountedInv`: what is counted as delivered or dropped is neither in the queue
  nor in the batch any more, so nothing is counted twice.

`LogStoreSteps` is the refinement without its liveness: every step of the SDK, of
the API and of a worker is a step of LogStore or a stutter. The hard step is a
worker's: an upsert whose row is there already and an ack map to a stutter, which is where
the idempotence of `upsert_log` enters; a second park of an event maps to a park
again.

**ChatView_proofs.** `Types` come with `Known`: what the page has selected, shows,
waits for or streams is a conversation that was created. Then

- `LockInv`: until a result crosses another operation, the send that was begun
  last finds the input unlocked when its conversation has been created. Gives
  `OneAnswer`.
- `ShownInv`: the operation begun last, if it has still to come back, is about the
  selected conversation, and what is shown is what is selected unless such a
  load is under way. Gives `ShownIsSelected`.
- `StoredInv`: nobody answers a send that has stopped listening; once an answer is
  stored, question and answer are in the thread, and in what the resync of that
  send has read. `ReadInv`: a thread that was read and
  is still to be shown has the answers that had been on the screen before. Both
  rest on `Moves`, an abstraction of the steps (what may change in a send, a
  thread and a read, and in which order), which every action is shown to obey
  once. Gives `AnswerStays`.

**StreamLog_proofs.** First, which calls get a row. `CapDictFits`: whatever a
dict holds, what `_cap_dict` lets out takes no more than `_MAX_DICT_BYTES`;
`PreviewFits`: a preview cut and then redacted is within the service's bound. So
(`PayloadFits`) a payload is accepted exactly if no field is unfit that only the
service bounds (`Unfit`), and an event is swallowed only where the host's redactor
or sampler or the answer's content can raise (`MayRaise`). That gives
`LoggedUnless` for all lengths, tags, hosts and bodies. That the longest fitting
prefix exists is the well-foundedness of the
naturals; how long the JSON of a dict is, a fold, is not used but for the empty
dict.

Then, what the row says. The loop of `feed()`, the text of n lines and the
gateway's loop are recursive functions of a number of bytes or lines. The library's
theorems on such definitions take an operator as a parameter, which the provers
cannot instantiate, so the argument is made from sets instead: `Induction` (a set of numbers
that has 0 and with each number the next has them all, from `WFMin`) shows that
each function exists and obeys its equation (`LoopAt`, `JoinedAt`, `GatewayAt`),
and then what it computes:

- `HasRead(p, n)` says all that a parser holds that has consumed n lines: text,
  counts, total, end marker. `ParseReads`: each of the three parsers goes from one
  line to the next; a line that raises changes nothing (`OddReads`).
- `LoopInv` is the invariant of the loop: it stands right behind a whole line,
  has read what is before, and has not passed a newline unless the last line
  raised. `FeedKeeps` has it for buffers of every length.
- `BufferInv`: what is in the buffer follows on the lines consumed, and is less
  than a line unless one raised. With `HasRead` it gives `ChunksDoNotMatter`, for
  bodies of every length and every way to cut them.
- `TimeInv`: `_ttft_ms` is not before the first line of text, and is its time
  unless a line raised. `EventInv`: what an event says of the end of a stream. Give
  `HonestStream`.
- `Right(f)`: the counts of an event are those of the answer, its total theirs or
  none, and of one choice its text too. A whole body has been read to its last line when it is at its end or its
  end marker was seen (`WholeRead`), an unstreamed response is right
  (`ResponseIsRight`), the service makes the response's row of what is right
  (`RightRow`), and so does the gateway (`GatewayRight`). Give `SameFigures`.

The type invariants of StreamWorker, Capture, ExplicitScope and ChatView are
proved (`TypesAlways`) and need no run of their own.

Only model-checked is everything with fairness (`EventResolved`, `CloseEnds`,
`Settles`, `LeftIsLogged`, `DroppedIsLogged`, `PartialStored`, `Unlocks`, and the
last conjunct of `ImplementsLogStore`), which the prover does not reach.

## 6. Plan

Done, in this order: the models of Dispatcher, StreamWorker, Capture and
ExplicitScope, each with its proofs; ChatTurn; Pipeline with LogStore; EventShape
and StreamLog; ChatView; then the proofs about ChatTurn, Pipeline, ChatView and
StreamLog. Every safety property of the passing runs is now a theorem. To come:

1. *ChatTurn*: what a turn loses when a database call fails after its commit, as a
   bound and not only as "stored once".
2. *ExplicitScope*, *Capture*: the safety parts of their liveness properties (which
   step a dropped generator still owes), as action properties with proofs.
3. Keeping the modules in step with the code.
