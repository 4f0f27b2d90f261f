# LLM AIO Gateway: TLA+ models, checks and proofs

The gateway (`app/`) accepts OpenAI Chat, Completions, Anthropic Messages and
OpenAI Responses requests, converts them to one internal form, picks a target by
routing rules, calls the upstream, and renders the answer in the client's
dialect. It is one process with one event loop; worker threads run synchronous
upstream generators, database calls and password hashing. What is hard in it is
not the conversion but what happens *around* an answer: threads handing chunks
to the loop, retries and fallbacks that must never mix two answers, accounting
that runs while the client is leaving, clients and images shared between
requests. The models here are of that part.

## 1. Inventory

| Component | State it keeps | Operations | Talks to | Hard behaviour |
|---|---|---|---|---|
| Stream bridge, `adapters/streaming.py` | bounded queue, `armed`, `data_ready`, `producer_done`, `cancel`, `error` | `_run`, `_offer`, `_notify`, the drain loop, the `finally` of both sides | an upstream generator (thread); the event adapters (loop) | two threads and a loop; a latch that elides wake-ups; full queue; cancellation; stall |
| Streaming fallback, `proxy._stream_events_with_fallbacks`, `core/streaming.iter_output_idle_timeout` | target list and index, retry counters, withheld events, two clocks | attempt, withhold, flush, retry in place, degenerate retry, next target, give up | bridge/adapters below, accounting above, policy | clocks against late answers; nothing may follow visible output of another attempt; client leaves at any await |
| Stream accounting, `core/streaming.stream_internal_output`, `record_streaming_events`, `core/outcome.py` | what was streamed, the tool-only count, four ledgers | render, finalize, success/closed/cancel/failure accounting, close | database, TTL caches, fallback generator | interruption at each await or yield; refused awaits in a cancelled scope; database errors |
| HTTP client pool, `services/http_pool.py` | entries with client, reference count, last use | acquire, evict, release, shutdown | every adapter that uses HTTP | eviction during use; cancellation between count and use |
| Image invocation cache, `core/image_batch.py`, `proxy._generate_and_store_cached` | entries with a shared future | claim, resolve, reject, invalidate, expiry, eviction | image backends, stored files | duplicate callers; owners abandoned or displaced; cancellation through a shared future |
| Non-stream fallback, `proxy._call_nonstream_with_fallbacks` | attempts, retry counters | as the streaming one, for whole answers | adapters, policy | attempt timeout racing an answer |
| Native Responses path, `proxy`, `services/responses_capability.py` | capability row per provider and model, three expiries | attempt, downgrade, probe | upstream, database | verdicts written in any order; staleness |
| Image orchestration, `core/image_orchestration.py`, `image_bridge.py`, `image_results.py`, adapters | bridge rounds, budget reservation, stored files | generate, refund, roll back, prune | invocation cache, budget, fallback | partial failure of a batch; clean-up |
| Conversation caches, `core/state.py` | six TTL dictionaries | get, set, increment, reset, reserve, refund, configure | accounting, policy, orchestration | expiry and eviction between two calls; read-modify-write |
| Throttle and sessions, `security.py`, `router/auth.py` | attempts, lock-outs, sessions | login, failure, clear, prune, revoke, rehash | database | awaits between check and record |
| Configuration, `config.py`, `core/runtime_config.py` | file, memory copy, hooks | load, patch, reload, apply | every reader of a default | reload against patch; failing write |
| Database, `database.py`, `db/` | one connection per thread, nesting depth | get_db, CRUD, maintenance | everybody | shared transaction; batches |
| Policy and routing, `core/policy.py`, `services/routing_targets.py` | none (rows of rules) | rule choice, chains, candidates, history repair | fallback paths | order, duplicates, empty chains |
| Users and keys, `database.py`, `router/admin.py` | two tables | edit, import, authenticate | policy, usage | an import that fails midway while keys authenticate |
| Providers and models, `database.py`, `router/admin.py`, `services/discovery.py` | two tables | form, toggles, import, refresh, native evidence | upstream, routing | an upstream is awaited between reading a row and writing it |
| Protocol conversion, `protocols/`, renderers | per-stream renderer state | ingress, IR, egress, argument sanitizer | endpoints | block order in a stream; split chunks |
| Upstream adapters, `adapters/` | tool slots, think buffer | chunks to events | bridge, pool | truncated streams, index guessing |
| Image preprocessing, `services/preprocessing.py` | description cache | describe, replace | upstream, database | concurrent descriptions out of order, limits |
| Request logs, `router/proxy.py`, `db/request_logs.py` | log in memory, rows, counters | append, count, store, trim, delete, reset | every endpoint, dashboard | trimming and deletion while image requests replace their rows |
| Database upgrade and start, `database.py`, `main.py` | schema version, columns, counters | migrations, lifespan | all | death between statements of different durability |
| Endpoints, `router/proxy.py` | none of their own | five handlers | all | who enters what in the ledgers, and how often |
| Web, tools, shell, registry | caches | handlers | all | none beyond the above |

What makes each correct, in a sentence:

* **Bridge**: every chunk exactly once and in order, the end always noticed, the
  upstream closed by the thread that opened it.
* **Fallback**: one answer, of one attempt, complete; finitely many attempts; a
  silent upstream cannot hold a request.
* **Accounting**: the four ledgers tell one story, once, and the story is what
  the client saw.
* **Pool**: a client in use is never closed; a reference taken is given back.
* **Image cache**: a waiter waits for somebody who works for it; the cache keeps
  to its limit; nobody is cancelled by somebody else.
* **Non-stream fallback, native path**: as the streaming one; a cached verdict
  has evidence; what only one protocol or one provider can carry stays there.
* **Conversation caches**: no count or budget of one window reaches the next.
* **Throttle, sessions**: lock-out after the limit; a changed password ends the
  sessions of the old one; one administrator from any number of first requests.
* **Configuration**: file and memory are what was written plus the defaults of the
  installed release; what is pushed into running objects follows.
* **Upgrade**: run any number of times, from any state a crash leaves, it moves
  each thing once.
* **Request logs**: each request once, as it ended, the newest kept.
* **Tables**: no model without its provider, no key without its user, no switch
  lost to a refresh, no key erased by a form that did not mean it.
* **Policy**: the last reading of the rules decides; a key gets only what its list or a
  rule allows; the history sent is paired, whole and the conversation's own.
* **Adapters and renderers**: the stream says what the whole answer says, however it
  is cut, and a cut-off stream does not look like an answer.
* **Endpoints**: one entry per request in each ledger; the tool-only breaker counts
  turns over all endpoints that heed it.

`PROJECT.json` lists the components with their status, and the hazards of the
code with their lines and the properties that cover them.

## 2. What is modelled

### StreamBridge
Two threads of control (`ppc`, `cpc`) and the loop. Every operation on a shared
object is one action: `PPut` is `handoff.put` with its `Full` outcome, `PLatched`,
`PArm` and `PCall` are the three statements of `_notify`, `CDisarm`, `CRecheck`,
`CIsDone` are the three tests before the coroutine sleeps. `LoopTick` runs a
`data_ready.set` queued by `call_soon_threadsafe`, and only while the coroutine
is suspended, because callbacks and coroutine share the loop thread. `CAbandon`
is the caller's `aclose` or cancellation at one of the coroutine's suspension
points. Chunks are numbers; the sentinel is 0.

### StreamFallback, SingleSourceStream
One request. An attempt goes `prepare`, `start`, `reading`, `yielding`,
`handling`; the upstream is any sequence of at most `MaxEvents` events of six
kinds, an end, or an error. `Receive` is the whole body of the event loop
(withholding, flushing, the two clocks); `Yield` hands one event to the caller,
so that the client can leave between two. The `except` branch is split by its
conditions, in the order of the code: `GiveUpPartial`, `RetryDegenerate`,
`RetryTransient`, then `FallBack`, `NoPolicy` or `NextTarget`. `CloseAttempt` is
part of each of them. `SingleSourceStream` says what the client is promised, and
`SpeaksWithOneVoice` is the refinement: `said <- client`, and the partial ending
is a failure. `Subsequences` is the part of a sequence that lies in a set, by which
what was received and what was said are compared.

### StreamAccounting, Endpoints
`StreamAccounting` is the outermost generator: the events of one turn, then the
accounting. `pc` names the await or statement the generator is at; each ledger is
a sequence of the statuses written to it. The module distinguishes the
interruptions by what the awaits after them can still do (its header lists them):
that is what decides whether an accounting branch completes. `Settle` is the block
of statements without an await: counters, usage, tool-only finalisation.

`Endpoints` extends it by the five handlers around it. A turn is a request at any
endpoint; `stage` is where its handler is, `todo` the ledgers it still has to write
before the counters. Each handler has one action per way it answers (`ChatEnters`,
`ChatAnswers`, `ChatRaises`, `ResponsesBridge`, ...): answered in full, streamed,
passed through to the native path, bridged to images, refused before or after it
is read, failed. `Streaming` hands the turn to `StreamAccounting`'s steps.
`CountSuccess` is the step inside the `try`, so a failure of it goes on into the
`except` of the endpoint as the code does; `Cancelled` may strike at every await.
`since` and `streak` are history: turns since the last one with words, and turns
in a row that ended well with tools alone. They say what the breaker should do.

### HttpPool
Any number of uses of `shared_client`. A body under the asyncio lock has no await
and is one action; the closes of the victims are actions of their own, and so is
a cancellation between them. Ages are a strict order `older` on the entries in place of clock
values: only the order is ever used, and expiry by age is any prefix of it.

### ImageInvocation
Callers of `_generate_and_store_cached` over `ImageInvocationCache`. A claim with
expiry, abandonment, eviction and limit is one action, because there is no await
in it; `WaiterWakes` is the wake-up together with the invalidate and the second
claim it may lead to. Futures are numbered in the order they were claimed.
`FilesPruned` is the retention clean-up of `image_results.py`.

### NativeResponses, MCNativeResponses
`POST /responses` from the choice of the protocol on, for several requests at
once. A request's record holds the locals of its coroutine; `pc` names the await
it is at: the probe, a native attempt, a stream handed over or being relayed, the
request policy, a Chat call. `GateSays` is `native_capability_for_request`,
`Eligible` is `native_response_target_supported` with the dialect check of the
fallbacks; `TryNative` is the loop of `_native_response_with_fallbacks` up to its
next await, so `NativeFails` writes the row, consults the policy and asks the
next target in one step, as the code does. `verdict`, `marked` and `noTools` are
the columns of a capability row that decide; `Expire`, `ExpireTools` and `Reset`
are the passing of its two deadlines and an administrator's reset. `Noted` is
what a frame does to the accounting of a native stream, `Settled` its `finally`.
The Chat part is `_call_nonstream_with_fallbacks`; a downgraded *stream* is
`StreamFallback`'s and ends here as `delegated`. `proven` and `refused` are
history: what the upstreams have really shown. `MCNativeResponses` chooses the
shapes of requests and the kinds of providers: each shape differs from a plain
request in what the code branches on.

### TTLDict, ImageBridge
`TTLDict` is the class of `core/state.py` as operators from dictionary to
dictionary, each of them one method under its lock. Of the timestamps only the order
matters (`older`), and of time only which entries have expired (`dead`, always the oldest
ones): `Lapse` adds one, `Configure` sets them anew with the capacity.
`ImageBridge` is `run_image_bridge` for concurrent requests: `Plan` and `Continued`
are what follows a model call up to the next await (caps, charge, decision),
`Executed` what follows a batch (refund, decision), `Answered` the end, `Aborted`
whatever leaves the loop by an exception. `granted` and `late` are history. A
*window* of a conversation is the life of its entry: charges of a window that has
ended no longer count, and a refund that arrives in a later one is `late`.
An invocation may also end without an outcome, when another request cancels the
future it shares.

### ProviderStore
Both tables with every writer of them. A database call is one transaction on the
loop and one step; a request in flight (`job[r]`, `refreshing`) keeps what it
read before its await: whether the row had a key, or which provider's list it
asked for. The row of a model is its switches, its capability with the mark of
who wrote it, and its native verdict. `FinishRefresh` is the merge of a list that
may arrive after the provider was deleted, or deleted and created anew.

### AdminAccess
Accounts, sessions and throttle. A password hash is the password it was made from
and whether its parameters are current; `chosen` and `late`, `kept` of a session are
history. Clock values appear only as what they decide: a lock-out is running or
over, and which entry is older is a choice. `Pruned` is
`_prune_login_throttle_locked` as the set of its possible results.

### Accounts, RoutingTables, Conversations, ImagePreprocessing, RequestPolicy
Four modules of tables and algorithms and one that composes them.
`Accounts` has the users and keys; an import goes key by key (`importing`), because
the look-up of a key runs in a thread and sees it half-way. `RoutingTables` has the
rules and policies in their order with all edits, and the search: `Scoped`,
`Applies` and `Route` for a rule, `Suits`, `General` and `Chain` for a policy,
`Candidates` and `Identity` for the list of targets. A pattern is the set of names
it matches. `Conversations` is `sanitize_tool_history`, the merging of neighbours and
the return of reasoning from the caches; messages are sequences of parts.
`ImagePreprocessing` has concurrent viewers over one description cache, with the
order of their descriptions open. `RequestPolicy` takes a request from its key to
its target: `Authenticate` (with the model and the `provider_id` the client names, the
latter `wanted`), `RouteOnce`, `RouteNative`, `RouteAgain` (the second pass of
/responses), with tables changing between; `looks` is history, the rules as each look
found them. `focus`, chosen at the start, says which
of these the behaviour is about; the others rest, because what they share with it
is only the outcome.

### ThinkTags, ToolArgs, OutputEvents, OpenAIAdapter, AnthropicAdapter, Egress, StreamRendering
The path of an answer, as operators from state to state with the events or frames
they emit: `OutputEvents` is the vocabulary between, the adapters are
`openai_streaming.py` and `anthropic_streaming.py`, `Egress` the renderers of the four
endpoints. Text is a sequence of symbols, with a tag of two symbols so that it can
be cut. `StreamRendering` lets an upstream send (`SendText`, `SendArguments`,
`SendCall`, Anthropic blocks, truncation, an error and a second attempt) and compares
what the client can put together with the non-streamed rendering of the same
answer (`WholeFor`). A loop of the code is a step (`ScannedStep`, `SplitStep`) and the
function from the number of rounds to what the loop holds after them, so that what
it keeps can be proved by induction over the rounds.

### ConfigStore, SchemaUpgrade, RequestLog, Lifecycle
`ConfigStore`: the file, its copy in memory, and the one value that is pushed into a
running object; every handler is one step, the editor of the administrator
another. `wanted` is history: what he asked for. `SchemaUpgrade`: `init_db` statement by
statement, with `disk` what is durable and `work` what the connection sees; `open`
says whether the driver has a transaction open, which decides whether a schema
change survives. `RequestLog`: the log in memory, the rows with their numbers, the
counters and the trimming thread. `Lifecycle` composes the three: `Start`, the
migrations, `Serve`, the work of requests and administrators, `Die` at any step, and
`Install` of the next release.

## 3. Checks

Bounds are the CONSTANTs of the cfg files; each is named in its module. A type
invariant is checked with the conjunction of its module where it has no proof.

| Run | Bounds | What it shows |
|---|---|---|
| `bridge` | 4 chunks, queue 2, batch 2 | `InOrder`, `NoLostWakeup`; with fairness `EndReachesConsumer`, `AbandonedIsReleased`. Four chunks fill the queue, empty it and fill it again, with a full batch in between; the sentinel meets a full and an empty queue. |
| `fallback_stream` | primary and 1 fallback, 1 in-place retry, 3 events | `NothingOfSubstanceLost`, `AttemptsInTurn`, the refinement `SpeaksWithOneVoice`, and `AlwaysConcludes`. Three events are the shortest sequences in which something is withheld, something withheld follows it, and both are released. |
| `accounting` | 3 turns, tool-only limit 2 | `LedgersAgree`, `ChargedForFinished`, `BreakerFollowsTurns` for every mix of endpoints, endings and interruptions. Two turns reach the limit and the third meets the breaker. Only the first turn of a conversation is answered by a fallback target, and a conversation nobody is billed for has one turn: both change what one turn enters, not what the next one sees. |
| `http_pool` | 3 keys, 4 uses, capacity 1, 3 clients | `InUseNeverClosed`, `CountsAreExact`. Capacity one with three keys makes eviction and overflow happen at each acquire. |
| `image_invocation` | 2 keys, 4 callers, 1 entry, 3 futures | `CacheSound`, `OnlyWaitersDisplace`. An owner, its waiters, and a displacing owner fit, with a second key to be evicted. |
| `native_responses` | 2 requests, primary and 1 fallback, 1 retry, 1 expiry or reset | `VerdictsAreEarned`, `StaysNative`, `AnswersAccounted`, `AnswerStarts`. The second request is a stream with tools: it writes both kinds of verdict under the first one's feet. Chains only repeat a step, so one fallback shows it. |
| `image_bridge` | 2 requests, 2 conversations, limit 2, cap 2, 2 rounds, dictionary of 1 or 2 | `BudgetHolds`. Two requests on one conversation spend its limit together, two conversations evict each other; a second round is the first whose cap and last-round tests both matter. |
| `provider_store` | 2 providers, 1 model name, 1 key, 1 switch, 1 admin request in flight | `NoOrphans`, `AdminConfigSurvives`, `KeyLostOnlyToStaleUpdate`. Beside the request in flight every other writer acts at once, so two parties meet; the theorems are for any number. |
| `admin_access` | 2 users, 2 passwords, 3 clients, 2 tokens, 2 requests, limit 2, 2 identities | `OneAccount`, `OldSessionsGone`, `ThrottleHolds`. Three clients overflow a map of two; two requests are what a race takes. |
| `rendering` | 5 pieces of text or arguments, 3 chunks with calls, 8 Anthropic events, 1 retry, think buffer of 4 | `AnswerComplete` (with the items of a Responses stream against their deltas), `BlocksFollow`, `ChunksDoNotMatter`, `TruncationShows`. Five pieces hold a whole tag pair cut at each place and the overflow of the buffer; eight events hold two blocks. |
| `lifecycle` | 2 releases, 2 starts, 3 steps of work, 2 requests and 1 old row, batches of 1 | `ConfigAsWanted`, `UpgradeKeepsData`, `LogsAreTrue`, `NewestKept`. The first start may die anywhere and the second meets what it left. |
| `routing` | 2 providers of 2 models, 2 rows per table, 3 administrator steps, histories of 4 messages of 15 kinds, 2 conversations with 2 answers, 3 pictures, 2 viewers | `ServedAsAllowed`, `RoutedAsRuled`, `EachUpstreamOnce`, `HistorySound`, `ImagesKeepTheirWords`, `KeysStayPut`. Four messages are a call, its answer, another answer and what stands between; one model name under two providers makes every ambiguity of names. A request names one of three models, with any provider beside it or none, and three administrator steps put a rule there before its first look, another between its two looks, or switch a model off. While requests are looked at, each key belongs to one user. |

Deadlock is checked except in `lifecycle`, whose bounded work runs out, and in
`routing`, whose parts come to an end by themselves. Elsewhere a finished system
stutters by an action of its own (`Finished`, `Over`, `Quiet`, `Settled`), so a state
in which the system is stuck without being finished is reported.

Each property has a mutant: a definition of its module (marked *Slip* there) that
puts a plausible mistake into the code's definition, and with which the run fails.

### Fairness
* Bridge: both threads are scheduled (`ProducerStep`, `ConsumerStep`) and the loop
  runs its callbacks (`LoopTick`). The poll timeout gets none: the wake-ups alone
  must do. The upstream gets none either: it may stall for ever. Only
  `AbandonedIsReleased` assumes that it answers (`UpstreamAnswers`), because a
  thread blocked in a read cannot look at `cancel`; the HTTP client's read
  timeout is what provides it.
* Fallback: the coroutine runs (`GatewayStep`) and its timers fire
  (`FirstOutputTimeout`, `IdleTimeout`), as asyncio guarantees. The upstream owes
  nothing. `AlwaysConcludes` is stated for requests with a matching policy and
  the idle clock on; without either clock the code has no bound of its own.
* Native path: the gateway's steps and the end of an attempt (`GatewayStep`,
  `UpstreamStep`), for each request: the HTTP clients have read timeouts. A stream
  already handed over owes nothing, nor does its client. Keep-alive frames could
  hold the first-output wait beyond a read timeout; that is outside this fairness.
* The other runs have safety properties only.

### Known deviations
Where the code does less than one might expect, the models do what the code does,
and the properties are stated so that they hold. A reader should know of these.

*Streams.* The coroutine of the bridge reads "queue empty" and "producer done" in
two steps; if the last chunk and the end fall between them the tail is lost
(`streaming.py:178`; `tests/test_streaming.py:666` expects it drained). The idle
wrapper renames every `TimeoutError`, also that of the spent first-output budget,
which then counts as retryable in place (`core/streaming.py:80`). The idle clock
is armed by a placeholder that is then withheld (`proxy.py:2038`). An acquire of
the pool cancelled while it closes a victim keeps its reference (`http_pool.py:96`).

*Accounting.* The counters run inside the `try` of the rendering: an error there
enters the answer again as failed and sends an error frame behind the terminal
frame (`core/streaming.py:363`; the note at 600 says it must not). Around an answer
that is not streamed the same error reaches the endpoint's `except`: two entries,
and for a native answer a second request by the translated path (`proxy.py:4129`).
A failed non-streamed image bridge leaves its "running" row beside the failure;
explicit image requests account outside any `try`. Requests refused before they
are read are entered for nobody. Bridged answers and whole native answers neither
count for the tool-only breaker nor reset it; /messages and /completions do not heed
it; a client that closes each stream right after its tool call resets it. A task
cancelled while a record is written may be entered a second time as cancelled.

*Native path.* A completed native stream keeps an old error text, so the gate
answers Chat for the whole TTL (`responses_capability.py:184`). A client that
leaves before the body iterator starts is not accounted (`proxy.py:989`).

*Images.* `asyncio.wrap_future` hands the cancellation of one waiter to the shared
future (`proxy.py:413`). A late refund lowers the count of a newer window
(`state.py:260`). An image given as a data URI is replaced where its text occurs, images
of an assistant count for the numbering and are not described, and a full
description cache evicts its oldest entry even for an image it already holds. A
`max_images` of 0 is read as the default (`database.py:1253`); a negative one, which
would slice off the last images, is not modelled (`ImagesAssumption`).

*Administration.* A login that verified the old password before a change may be
granted its session after it, and that session lives (`late` in `OldSessionsGone`).
The rehash after a login can put back a password changed meanwhile (`auth.py:129`).
An import that meets a key of another user ends with
what it wrote so far. A preprocessor imported as new and enabled disables the
present one. First start writes every default into the file (`config.py:115`); a file
that is valid JSON and no object fails a reload after memory was replaced
(`config.py:113`); a negative `request_log_max` written by hand is reported by a reload
and stops the next start (`proxy.py:158`). Rows of image requests that were
cancelled, or trimmed while running, stay "running" or lose their end.

*Policy.* A request has its provider from a rule, or from `provider_id` of its body
(`ingress.py:519`, 556, 595, 659), or from the name of its model. Where the model, as
asked for or as a rule made it, names one provider and another stands beside it, the
allow list is held against the one in the name (`proxy.py:2788`, called at 2937, 3396,
3527 and 3724), while the request goes to the other (`routing_targets.py:23`). So the
allow list does not bind the provider: a key that lists only `p/m` is served `m` by
the provider `q` when its client asks for the model `p/m` with the `provider_id` `q`,
with no rule involved, and likewise when a rule names both. `ServedAsAllowed` holds
only with this case left open, which is its disjunct `Beside`.
The second pass of /responses does not look at the allow list again, so a rule written
between the passes sends the request where its key may not go: the disjunct
`Overruled`. TLC violates `ServedAsAllowed` without either. Two rules may each give half
of such a request's target, the model from the first pass and the provider from the
second (`RoutedAsRuled`).
A comment (`policy.py:668`) says that a request for `providerA/modelX` keeps
`provider_id` providerA when a rule replaces only the model. It keeps the `provider_id`
of its body; the one in the name of the model was never put there, is lost with the
name, and the request goes to the first provider that serves the new model.
`RoutedAsRuled` states what the code does. Targets of a
fallback chain are the administrator's and are not held against it. A policy that
matches with an empty chain ends the search. `sanitize_tool_history` is to
"Remove malformed tool-call/result pairs that strict Chat upstreams reject"
(`policy.py:158`), but takes the results of a call from messages of any role
(`policy.py:194`): one in a message of the assistant, which the Anthropic format can carry,
has its call kept, while the projection to Chat writes results only of user and tool
messages (`ir.py:620`), so the call goes out without its result. `HistorySound` therefore asks for
pairs only of histories without such results (`Proper`); without that condition TLC
violates it in three messages.

*Rendering.* `strip` at the end of a block of thinking may join two words, so
`ChunksDoNotMatter` leaves white space aside. A continuation without index and id,
among calls with indices, goes to the highest slot. 64 KiB of leading white space
turn a text into thinking.

## 4. Proofs

Eight modules prove, for every value of the constants that satisfies the named
assumptions of the modules, what the runs check on small instances. In each, a
conjunction (`IInv`) is shown to hold at the start and to be kept by every action, and
the properties follow from it.

**StreamProofs**, first part. `Conserved` and `InOrder` of `StreamBridge` need to know where the
producer is (what it holds, and whether the last queue entry may be the sentinel);
`NoLostWakeup` needs the state of the latch at each step of both sides: between
`PPut` and the end of the notify the latch is irrelevant, and a latch left set means
a callback or a set event, unless the coroutine is about to clear it and look again.
`ReleasedAtExit` needs that the upstream is open only inside the producer's loop.

**StreamProofs**, second part. `LedgersAgree` speaks of requests that are over. What is
inductive says for each `stage` of a handler and each `pc` of a stream which ledgers have
their entry (`Entered`), that nothing is counted before the last step (`Once`), what a user
may have been charged by then (`Charged`), and which `stage`, `pc` and `path` go together
(`Places`). The actions come down to eight moves of a handler (`Reads`, `AnswersHeard`, ...),
the steps of its accounting, and the steps of a stream, of which the five ways to be
interrupted are one (`Interrupts`); each has one lemma. `BreakerFollowsTurns` rests on
`streak <= toolOnly <= since` between turns (`Before`); within a turn that has been counted the
counter is already where the next turn will put the other two (`Ahead`), and on the way
there it matters whether the stream has ended and which endpoints count (`Breaker`).

**StreamFallbackProofs.** Three facts carry the rest. A retry happens only before
anything was said, so what the client has heard is the current attempt's alone
(`OneSpeaker`). What an attempt received is withheld or passed on (`Withholding`), and
what was passed on is with the client or in the outbox, in order and with nothing of
substance missing (`PassedOn`). And the attempts begun are accounted for by the two
retry counters and the index of the target (`Counted`), whence the bound of
`AttemptsInTurn`. `OneVoice` is the refinement of `SingleSourceStream`: each step is a
step of it or a stutter. What `Only` keeps of a sequence is computed by recursion, and
that it is preserved by `Append` is an induction; since the induction theorems of the
library cannot be instantiated here, `LEMMA Least` derives a least element of any set
of numbers from the well-founded order of finite sets, and `Induction` uses it.

**ImageProofs.** `CacheSound` is a state's property and not inductive: that a
completed entry has its outcome needs that only the owner of a future completes it
(`Owners`), that no two keys hold one future (`Apart`), and that the future numbered next
was never completed (`Outcomes`). `Clocked` ties the order of completions, by which
entries are evicted, to their number. `OnlyWaitersDisplace` is a property of steps and
follows from the same conjunction, one action at a time. The second half is the image
budget (`BInv`). A reservation stays within the limit only if writing an entry makes the
dictionary no larger than it may be, and that is a fact about the order of its entries:
among those kept one is the oldest, and all others are younger than it (`OneIsOldest`,
`ShrinkFits`), so `DictOK` says that the order is total and that the expired entries are the
oldest. On top of it `Windows` is `GrantsWithinBudget`, and `Standing` says of each request
that its open charges are those of its batch, whence `ChargesSettled` and `ImagesCapped`.

**NativeResponsesProofs.** Requests share the capability rows alone, and a row decides
only where a request goes next, never what it may do there. So the invariant is a
statement of one request (`Stands`: what it may hold at each `pc`), of every row
(`VerdictsAreEarned`, inductive as it is), and of nothing between requests; one lemma
per operation says where it leaves its request. `StaysNative` needs that a turn only a
native target can carry is never past the native attempts, `AnswersAccounted` that an
open request has not been entered, and that its body failed only if it is marked so.

**ProcessProofs**, first part. `InUseNeverClosed` and `OverflowOnlyInUse` are not inductive: that a
victim is unused follows from its count being zero, so counts must be exact
(`CountsAreExact`); that a close does not hit another entry's client needs clients to be
distinct (`Distinct`) and never pooled while some task still has them to close
(`PoolOpen`); that a release finds its own entry needs held entries to stay under
their key with their client (`Held`), and lost references to pin theirs
(`LostStays`). `IInv` is the conjunction; `Inductive` has one lemma per action.
`LEMMA IdleUnheld` (an idle entry has no holder) is the step from counting to
holding, and carries the facts about cardinalities.

**ProcessProofs**, second part. Three invariants of `Lifecycle`, each with its own lemma per action.
`CInv`: the file is what was wanted in every phase, and memory agrees with it (`Live`) not only
while serving but from the load on; `UpdatedIs` and `FilledIs` say what a patch and the
filling up do to one key. `UInv`: `UpgradedOnce` and `CountersAgree` speak of a gateway that
serves and are far from inductive; what holds at every statement, of the durable database and
of the one the connection sees, is that the *rest* of the upgrade would end with
the administrator's settings (`Due`) and with what was counted (`Seeded`). A death may come
anywhere because of `SplitTwice` and `SeededTwice`: what was split or seeded comes out of a
second pass as it went in. `RecentInv` and `RowsInv`: the log in memory begins the sequence
of arrivals, and `RowsOK` says of each request alone which rows may be its own: with an id
only the row of that id, without one none until it is logged. Trimming, deleting, and
other requests' writes only take rows away from it (`RowsStay`, `RowsOfOthers`).
`TrimmingSafe` is about steps: that a batch which is not full was the last is found by
looking at the newest row it should have left (`LastBatch`), and that few enough remain
by looking at the oldest that does (`NewestAre`).

**AdministrationProofs**, first part. `NoOrphans` is inductive with the types of rows and of
requests in flight. `ModelsOK` says of every row at once that its mark agrees with
its capability (`SoundRows`), so each operator that makes rows has a lemma that it
makes sound ones (`NewModelSound`, `ListedSound`, `DiscoveredSound`), and each action
one that it keeps the tables. `MarksAgree` falls out of the same invariant. Two
properties of steps use it: `SwitchesSurvive` follows each operator on rows (`Safe`), and
needs `NoOrphans` where a provider is created under rows; `KeysSurvive` needs the types,
which say that a request in flight read either a key or none. (`StoreInv` is `IInv` here.)

**AdministrationProofs**, second part. `SetupMakesOne` and `ChangesRevoke` rest on each session
(`SessionsOK`) and each request behind its first check (`RequestsOK`) being on behalf of
an account that exists: so no login, upgrade or change can add one (`Single`), and setup
finds no session of the user whose password it writes. The throttle has an invariant of
its own (`TInv`). While a lock-out runs, the guesses let through *and the logins that
passed the check before it began and are still verifying* stay within
the bound (`Tracked`); the guesses alone would not be inductive, because each of those logins may
yet become one. The map's limit needs what `Pruned` may return (`Fits`).

**RequestPolicyProofs.** The tables of accounts come first and by themselves
(`AccountsSpec`, `AccountsOK`): that a key keeps its owner is a property of steps,
proved by `NothingMoves`; it needs the types and that the user of each key, and of the
import under way, exists (`KeysHaveOwners`), so that what an import writes next belongs
to somebody. `IInv` adds the types of the routing tables and, of every request, that
it is where the rules *it has seen* (`looks`) lead what its client named (`AsRuled`) and
was admitted by the list its key *had* (`Admitted`), or is `Overruled`: a request holds
all it is judged by, so that nothing done to the tables meanwhile can disturb it.
`LooksLead` has the step that matters: a second look either finds a rule that the first
did not, or leaves the request where it was, so that the admission of the first look
still stands. `EachUpstreamOnce` is no property of
behaviours but of every table at once: `CandidatesAre` says by induction what the list of
candidates is for a chain of any length, `IdentityIsUpstream` that two spellings of a
serving target have one identity. `ServedAsAllowed` is `AdmittedGoes`; no assumption is made about the `provider_id` of a client. Images have an
invariant of their own, `ViewsOK`: what a request has been told of an image is of that
image, which no order of answers can change; so `ImagesKeepTheirWords` is a statement of
the step that replaces, and there an image that was not described was preceded by
as many others as the limit (`ShownIsEarlier`, a fact about cardinalities).

Histories have an invariant, too: `ChatsOK`. What goes round a sequence is in
`Conversations` a function from the number of rounds (`Joining`, `Merging`), so that
each loop of the code has a lemma by `Induction`: `NormalizedIs` says that merging keeps the
words, which are added up like weights (`Weight`) and so do not care how messages are cut,
and `SanitizedIs` gives the order-preserving map from what is kept to where it was
(`Drawn`). `HistoryPaired` is then a statement of that one pass, for a history of any length
(`PairedIs`): each accepted id has one first call (`CallKeptOnce`) and one first result
(`ResultKeptOnce`), the results of a caller stand before the assistant's next turn
(`CallersTurn`), so the kept calls, the accepted ids and the kept results are equally many
(`SameSize`). `ReasoningIsOwn` is not about one pass: which thought is found for a call id
depends on all answers before. What is inductive: each cache holds under a key and an id only
thoughts of that key about that id (`CachesOwn`); reasoning in a history is of its own turn
(`AllBelong`), and histories of such conversations are well-formed, so that no call is removed
from under its reasoning (`WellFormed`, `WellFormedCalls`). The conversation's last thought is given
to a turn whose calls are not known, and stays its last only until the next answer;
as that answer also takes back what was sent, the disjunct "or the last" may stand, and
it is needed only after a cache has lost an entry (`forgot`, `AllRemembered`).
Assumed are messages made of the parts the model knows, without thoughts of the gateway's
and never with calls and results in one (`ConversationsAssumption`), that the
conversations about reasoning begin with a text of the user, `Ask`, and that an upstream's
answer holds at least one call, `Answered` (`PolicyAssumption`).

**RenderingProofs.** The modules have no assumptions, and the proofs none: the buffer may
have any limit, and an upstream may send any chunks. Most of the length is the types
(`RenderingTypes`): each loop keeps its own, by `Induction` over the rounds, and each handler
of the adapters and the renderers is one lemma. `TruncationShows` speaks of a stream that
ended. What is inductive (`SoFar`) says of one still under way that the renderer is not
over and has shown nothing of an end, that the adapter has heard the reason to end
that was sent and no other, that it counts as answered only when a call was sent or text
is *shown*, and that an Anthropic message gives its reason to end only with no block open.
`BlocksFollow` needs no more of the adapters than that they call the renderer with well-formed
events until they end it (`Rendered`: what a step of the system does to the renderer).
The rest is the renderer's: n blocks have begun in the frames and the first m of them are over
(`InBlocks`); either all are, or the last is open and is the one that the renderer
takes for its open text or its open thinking, never both (`Row`, `InRow`). One lemma says
how one more frame moves n and m (`BlocksGoOn`, `OneMore`), and one per handler that its
frames move them back into a row, for whatever event comes next; the blocks of calls
are written at the end by a loop that leaves none open (`Rests`). That the numbers of the
blocks are those below their count is a fact about cardinalities.

Only model-checked:

* liveness, because the provers here know neither fairness nor ENABLED:
  `EndReachesConsumer`, `AbandonedIsReleased`, `AlwaysConcludes`, `AnswerStarts`;
* `AnswerComplete`, `ChunksDoNotMatter`: they compare what two loops over an answer compute,
  one over its chunks and one over the whole of it, through adapter, renderer and the
  client's reading of the frames; that two such loops agree on every answer is an
  induction over data with a different invariant for each pair of loops.

## 5. Not modelled

* Prices, token counts, wording of errors, logging.
* `ingress.py`, `ir.py`, request building, message types: field-by-field mapping
  between JSON dialects without state. The models start behind it.
* `tool_leak.py` and the guessing of capabilities from names: patterns over text.
* The connection handling of `database.py`: it belongs to SQLite; a transaction is one
  step that may fail.
* The model registry's remote catalogue, the files of image results, the HTTP
  middlewares, the browser interface, the launcher and the tools.
* In modelled parts: the lists of models, the dashboard's time buckets, exports and
  previews, the image backends' form, the response-chain cache.

External to the repository and modelled from use: the semantics of asyncio
(callbacks only while the coroutine is suspended, one `CancelledError` per
`cancel`), of anyio's cancel scopes (a cancelled scope refuses every later
await), of `queue.Queue` and `threading.Event`, of SQLite writes (they succeed or
raise).

## 6. Plan

All modules of the plan exist. What is worth adding, in this order:

1. The expiry clocks of the tool-only counter and the reasoning caches, with
   `TTLDict`, in `Endpoints` and `Conversations`.
2. The ownership of image result files: retention against references.
