# kiro2api in TLA+

kiro2api is a gateway in Rust (Tokio, Axum). It takes requests of the Anthropic API, translates
them for the Kiro API, sends each on one of several accounts ("credentials") and translates the
event stream that comes back. An admin API and a web UI manage the accounts at run time.

This directory holds TLA+ modules that model its concurrent core, TLC configurations that check
them on small instances, and TLAPS proofs. Paths below are relative to `src/src/`.

## 1. The system

| Component | State | Operations | Talks to |
|---|---|---|---|
| Credential pool, `kiro/token_manager.rs` (`MultiTokenManager`) | `entries` (mutex), `current_id` (mutex), `load_balancing_mode`, one semaphore per entry | `acquire_context`, `select_next_credential`, `report_*`, `switch_to_next`, `set_disabled`, `set_priority`, `reset_and_enable`, `set_load_balancing_mode` | retry loop, admin |
| Token refresh, same file | `refresh_lock` (async mutex), tokens inside the entries | `try_ensure_token`, `force_refresh_token_for`, `get_usage_limits_for`, `refresh_social_token`, `refresh_idc_token` | authorization server, file |
| Credentials file, same file and `kiro/model/credentials.rs` | a JSON file | `persist_credentials`, `CredentialsConfig::load`, `MultiTokenManager::new` | every change of an entry |
| Retry loop, `kiro/provider.rs` | locals of one request | `call_api_with_retry`, `call_mcp_with_retry` | pool, upstream |
| Admin service, `admin/` | balance cache and its file | one method per request | pool |
| Streamed response, `anthropic/stream.rs` | `SseStateManager`, `thinking_buffer`, block indices | `process_kiro_event`, `generate_final_events`, `BufferedStreamContext` | handlers |
| Handlers, `anthropic/handlers.rs` | one stream, the events logged so far | `create_sse_stream`, `create_cacheable_sse_stream`, buffered and whole answers, pings | decoder, stream, caches, log |
| Event stream decoder, `kiro/parser/` | buffer, state, error count | `feed`, `decode`, `try_recover`, `decode_iter` | handlers |
| True cache, input cache, `anthropic/true_cache.rs`, `input_cache.rs` | one file per response or prompt segment | `get_response`, `put_response`; `segment_is_fresh`, `store_segment` | handlers |
| Converter, `anthropic/converter.rs` | none | `convert_request`, `validate_tool_pairing`, `build_history` | handlers |
| Web search, `anthropic/websearch.rs` | none | `handle_websearch_request`, `generate_websearch_events` | MCP calls |
| Proxy pool, mode, `config.json`, same file and `model/config.rs` | a vector and a field in memory, a file | add, delete, disable, assign; read, change, write, undo | admin, pool |
| Statistics, same file | `success_count`, dirty flag, time of the last save, a file | count, debounced save, load | pool |
| Call log, `call_log.rs` | one file of lines, a mutex | `append`, `compact_locked`, `read_records` | handlers, admin |

What is hard in it:

* **Concurrency.** Requests and admin calls run as Tokio tasks on several threads. The pool is
  guarded by several mutexes, taken and released one after the other, so each function is a
  sequence of atomic steps with anything in between: select, then adopt as current, then take a
  permit, then look at the token; choose an id, then use it; snapshot, then write.
* **Failure.** Seven kinds of upstream outcome lead to different mixtures of report, forced
  refresh, failover and back-off. A refresh token is rotated by the server, so one that is lost
  or presented twice locks the account out. The file is written in place.
* **Files.** There are nine kinds of file. Most are written in place, some without a lock, and ids
  that name their records are given out again.
* **Order and chunking.** Text arrives in chunks that end anywhere, also inside a tag, with tool
  calls and the end of the stream anywhere in between; the events produced must obey a protocol.

What makes each part correct: permits are conserved, refreshes are single-flight and of stale
tokens only, every request ends after a bounded number of retries and credits the account that
answered, failover leaves an account that failed (pool, retry loop); the latest refresh token is
dropped in known cases only, and none that was replaced is presented while the program has the latest;
the file catches up, ids are unique, edits are not undone (tokens and file); the events obey the protocol, no text is lost, and the
chunking cannot be seen (stream); frames come out once, in order and sound, and damage costs no
more than it must (decoder); what is replayed is a whole, fresh answer to the same request (true
cache), and the key tells requests apart (true cache, converter); every conversation a session can
reach becomes one the upstream accepts, with all that was said (converter); memory and files
agree, records belong to who has the id, the pool is handed out evenly (stores); savings are
earned, what the client is told agrees with the log, and records survive (input cache, call log).

## 2. Modules

| Module | What it is |
|---|---|
| `CredentialPool` | pool and retry loop: the calls, the admin requests on an entry, expiring tokens |
| `CredentialPoolProofs` | the theorems about it |
| `MCCredentialPool` | small pools for TLC |
| `TokenLifecycle` | refreshes, rotation, the credentials file, add, delete, edits, crashes, restarts |
| `TokenLifecycleProofs` | the theorems about it |
| `MCTokenLifecycle` | small instances |
| `SseProtocol` | abstract: what a client may be sent |
| `SseStream` | `StreamContext` and `BufferedStreamContext`; implements `SseProtocol` |
| `SseStreamProofs` | the theorems about it: it implements `SseProtocol`, no text is lost, and chunks cannot be seen |
| `MCSseStream` | the texts of the runs |
| `EventDecoder` | buffer, recovery and loop of the event stream decoder, over frames that may be damaged |
| `EventDecoderProofs` | the theorems about it |
| `MCEventDecoder` | which damages a run allows |
| `ResponseCache` | the true cache's files under the handlers that look up, ask upstream, store and log |
| `MCResponseCache` | the requests and answers of the run |
| `RequestConversion` | `convert_request` and the key of the true cache, over the conversations a session can reach |
| `MCRequestConversion` | two tools and three settings |
| `RequestProofs` | the theorems about `RequestConversion` and `ResponseCache`: what becomes of a request |
| `AdminStores` | proxy pool, mode, proxies of credentials, balance cache, statistics, and their files |
| `AdminStoresProofs` | the theorems about it |
| `MCAdminStores` | two threads, two proxies, two credentials; which kinds of request are explored together |
| `RequestRecords` | input cache, the usage a client is told, the call log |
| `RequestRecordsProofs` | the theorems about it |
| `MCRequestRecords` | a conversation, a system prompt, what the upstream reports |
| `Filter` | what a sequence has of a set: the text of a stream without its markup, the lines of a log that count |
| `Induction` | lemmas: least and greatest numbers, induction and recursion over them, as facts about sets; what `Filter` keeps |

### CredentialPool

A *call* is one run of `call_api_with_retry` or `call_mcp_with_retry` (the two loops have the same
branches). `pc[p]` says where it is:
`loop` (top of `acquire_context`), `hit`, `next`, `adopt`, `permit`, `blocked` (selection),
`token`, `refresh`, `tokfail`, `tokinvalid` (`try_ensure_token` and its error arm), `send`,
`reply`, `backoff`, `force`, `forcing`, `forcefail` (the provider's loop), `body` (the response
is being read), `served`, `failed`. There is one action for each stretch of code between two points
at which a mutex is released or an `.await` may suspend. `free` is `available_permits()`,
`refresher` the holder of `refresh_lock`, `token` says whether the access token outlives the next
ten minutes, `seen` what the call's clone of the credentials says of it. The admin requests that
take several steps (`set_disabled` with its snapshot of `current_id`, `set_priority` followed by
`select_highest_priority`, the mode with its rollback) keep their place in `admin`.

Left out: what is sent and received, the MCP payload, wall-clock times, `last_used_at`, and the
order of the entries, which decides only between equal priorities (any of them is taken).
Additions and deletions are in `TokenLifecycle`.

### TokenLifecycle

Every worker runs one request at a time (`task[w]`): a normal, forced or usage refresh, an edit, a
disable, an addition or a deletion. `server[a]` is the generation of a's refresh token that the
authorization server accepts; a refresh may rotate it, and the reply may be lost after that. The access
token of a reply need not be fresh: the lifetime in it may be short, and without one the old expiry
stays. `try_ensure_token` alone looks at that before it stores the reply, and drops it whole
(`ReplyRefused`); the other refreshes store it as it is (`Refreshed`). Access tokens stop being fresh, by
`Expire` or by such a reply, only while requests may still begin (`MaxJobs`). Saving
is `Snapshot` (under the mutex), `Truncate` and `Write` (outside it); two saves may overlap, and
the file may then be torn. `Crash` loses everything but the file, `Boot` loads, sorts and
checks it, or refuses to start. Four histories say when a promise does not apply: `given` (the latest
token of the account was taken by a lost reply, a refused reply, a deletion, a refresh that ended when the id of
its entry belonged to another account, or a crash before it was surely saved, `Unsaved`), `deleted` (its entry
was), `saveFailed`, `overlapped`.

### SseProtocol and SseStream

`SseProtocol` is a client that reads events: one `message_start`, blocks numbered without a gap,
each started, given deltas of its type, stopped; `message_delta` once, when all blocks have stopped;
`message_stop` last. `SseStream` is the code: `ctx` is the `StreamContext`, `ctx.out` what it has
produced and not sent; `Assistant` takes the next chunk, of any length, `Tool` a tool event (with or
without input, last or not, an id seen before or not), `Limit` an event that sets the stop reason,
`End` the end or the failure of the body, `Send` one event to the client. `buffered` holds
everything back to the end. Each tag is two characters, so that a chunk can end within one,
and what is kept back in the buffer is measured in tags as in the code. `Search` is the answer to a web search request, which
`generate_websearch_events` builds whole and sends with nothing of the `StreamContext`: it is a second
producer of the same protocol, with its own block numbers and its own division of the text.
The property
`KeepsProtocol` is `SseProtocol`'s specification under the mapping `client <- client`: every step
sends an event the client accepts, or none.

### EventDecoder

The upstream body is a sequence of frames of one size, each sound or damaged in one of the places
`parse_frame` checks: its length, the rest of its prelude, its message checksum, its headers, the
type of a header. `buffer` holds the positions of the bytes rather than their values, which is enough to
say where the decoder thinks a frame starts and whether the bytes there are a whole frame: after a
byte has been skipped, or a chunk refused, they are not. A length read from such bytes may be
anything (`Misread`). `Feed` is the arrival of a chunk, with the overflow that the handlers log and
ignore; `DecodeNone`, `DecodeFrame` and `DecodeError` are one call of `decode` each, with
`try_recover` inside the last; `IterStops` is the way out of `decode_iter` in the states
`Recovering` and `Stopped`. That a checksum agrees by chance with other bytes is left out.

### ResponseCache

A client sends one request, through the whole, the streamed or the buffered handler (the last two use
the cache in the same way and are one here). `files` is the directory of `TrueCache`: a file is absent, whole, or
torn, that is truncated or partly written; `get_response` and `put_response` are split at their
calls to the file system, since nothing locks it: a file that was found expired is removed by its
name later, and `fs::write` opens and truncates first and writes after. `linked` says that the file a
handler has open still has its name. `answer` is what upstream said: its stop reason, whether it
shows anything (text or a tool call), and whether it fits the size limit. `logged` is
what the handler has put into the call log. A client may leave while its handler waits
for upstream; a crash ends every handler and leaves the files.

Left out: the content of events, usage figures, the keys (they are in `RequestConversion`), files that are too large
because the limit was lowered, and the JSON of a file written by the other kind of handler (its
key has another prefix).

### RequestConversion

`convert_request` keeps no state, so the state is the session's: `messages` is the conversation as
the client has it, `tools` what it declares, `sent` the request that is with upstream. The user speaks,
gives results early, late, twice or never (`UserSpeaks`), the upstream answers with text and with
calls of the tools in its request (`Answer`), or does not (`AnswerLost`); the client sends again, drops
the beginning of the conversation (`Truncate`) or changes its tools, and may end with an answer of
its own choosing (a prefill). Only conversations reached in this way are converted. Names are a word,
a case and whether they are shortened: enough for the hash, the map back and the comparison without
case. `convert_request` is a function of the code's steps in their order: cut behind the last user
message, build the history with its merges, pair the tools, remove orphans, define placeholders.
`response_key` is what the true cache makes of the result, with ids replaced by their number in
the order in which the canonical JSON has them.

Left out: images and documents, the contents of a tool's schema and input, the text of the
instructions, the limits on descriptions, the agent fields that are constant.

### AdminStores

Each thread runs one request (`task[w]`), split where a mutex is released or a file is opened,
written or closed. `config.json` has its own read, change and write without a lock, and an undo
to the clone taken before; the credentials file is written in one step (its two steps are in
`TokenLifecycle`). `assign_proxy_pool` is `AskAssign`, which looks at the pool, and `Assign`, which binds
the credentials in one critical section. `delete_credential` goes on through `persist`, the
statistics and, in the service, the balance cache. `Restart` loads the four files. Four histories
say when a promise does not apply: `raced` (changes of the configuration overlapped), `missed` (a save and a
call overlapped), `tangled` (the id's records may be of its last owner), and `served` is the
truth the counters are compared with.

### RequestRecords

A request counts its tokens and asks the input cache: `Look` for each segment, then `StoreSegment` for
each that is stored, all without a lock and with the time that was read once at the beginning (`since`). `Answer`, `Replay` and `Fail` compute the usage as
`adjusted_input_cache_usage` and `compute_input_cache_accounting` do, with integer division, and hand
it to the log. The log is a sequence of lines, a line a sequence of pieces of records, so that an
interrupted record, the one that is joined to its line and a line that is cut within a character
can be told apart. `spoiled` has the records that were begun on the line of an interrupted one, or behind a cut
line, where `read_records` does not come. `BeginRecord`, `WriteRest`, `EndLine`, `MakeRoom` are `append` and `compact_locked`.
Token estimates are numbers given with the messages.

## 3. Runs

Every bound is a CONSTANT and is named with its meaning in the module.

| Run | Expect | What it asks |
|---|---|---|
| `pool_calls` | pass | two calls, two accounts, one permit each, one stale token: `TypeOK`, `PermitsConserved`, `RefreshSingleFlight`, `RefreshOnlyStale`, `RetriesBounded`, `LeavesLimited`, and, under `FairSpec`, `CallEnds` |
| `pool_admin` | pass | one call, two admin requests of any kind, an expiry, both modes: `SuccessesTruthful` |
| `pool_pingpong` | violation | `GiveUpOnlyWithoutValid` with three accounts |
| `tokens_store` | pass | two workers, three requests of any kind, one entry and one that may be added, one rotation per account, one fault: `TypeOK`, `PresentsLatest`, `TokenNeverLost`, `DiskCatchesUp` |
| `tokens_edit`, `tokens_ids` | violation | `EditsStick`, `UniqueIds` |
| `sse_stream` | pass | 53 texts, all chunkings, two tool events, a limit, an end anywhere, and web searches with four summaries: `TypeOK`, `NothingSwallowed`, `SplitInvisible`, `WholeMessage`, `KeepsProtocol` |
| `decoder_stream` | pass | four frames, each sound or damaged in one of five ways, all divisions into chunks of 10, 16 and 44 bytes: `TypeOK`, `LosesOnlyDamaged`, `DecodedInOrder`, `BacklogOnlyAfterError`, `StoppedTakesChunks` |
| `cache_requests` | pass | three clients, four kinds of request, four kinds of answer, a clock, a crash: `TypeOK`, `ReplayedAnswers`, `TornOnlyByFault`, `LoggedOnce` |
| `conv_session` | pass | sessions of five messages, two calls, up to two results in a message, one truncation, change of tools or message in another role: `Paired`, `WellFormed`, `NamesKnown`, `TextsKept`, `KeyTellsApart`, `OneConversation` |
| `admin_stores` | pass | two threads, three requests, one failing write, one restart: `TypeOK`, `ConfigAgrees`, `OwnRecords`, `StatsCaughtUp`, `AssignFair` |
| `request_records` | pass | two concurrent requests over three moments, or five in a row with three faults and a kill: `HitsEarned`, `UsageAgrees`, `LogIntact` |

Why the bounds are enough. The hazards of the pool are between two actors: two calls, or a call and
an admin request; a third call adds a competitor for the same lock and permit but no new step.
One permit per account makes every account run out of them. `RetriesPerCred` is 1 in `pool_calls`,
which gives two attempts with two accounts, so that the loop continues and ends; the proofs
cover all values. The ping-pong of `current_id` needs three accounts, and `pool_pingpong` has
three. Three requests are a refresh in flight, an admin request that crosses it, and a third
that finds the result; the two-step faults of the file need two savers. The texts of the stream
have something, white space or a quote before the tags, empty and non-empty thinking with and
without a leading newline, and two, one or no newline after; more text only repeats these. The
decoder's frames have 20 bytes, so that chunks of 10, 16 and 44 bytes cut a prelude, a frame or
two frames in every way that matters; the buffer holds 64 bytes, so that a large chunk may be refused
while a length that was misread is waited for; five errors are the code's own limit. Three
clients are one whose file expires, one that finds it so, and one that writes in between; the
life time is one tick and the clock shows up to 2, so that a file is fresh, expires, and is replaced.

Five messages are a user's question, a call, a result, an answer and the next question, so that calls
lie in the history, are answered in it or in the current message, in one message or apart; two calls
can be answered in either order, twice or once; one truncation separates a result from its call,
and one change of tools makes a placeholder. One of the two tools has a long name, and one is
declared in either case. In `admin_stores` the kinds of request that share state are explored
together (`MCMixes`): mode and pool; assignments, proxies and additions; balances, additions and deletions;
calls, disabling, additions and deletions. Three requests are a deletion, an addition that takes the
id again, and the request that meets the old records; two overlap at most, and the threads are
symmetric. In `request_records` a conversation is sent at its second and at its third message, so that
one request's whole is another's beginning; two ticks are past the short life time and at the long one.
The log has room for one record, so that each append but the first makes room. Three faults are a
compaction that fails, a cut line and another compaction that fails, after which a compaction that succeeds
drops the cut line and what is behind it; a kill may come at any step of the five.

Deadlock is checked in all runs but those of the decoder and the true cache; the states in which
everything is over have a stuttering action of their own (`AllOver`, `Stay`, `Rest`). A decoder whose body
has ended and a handler whose client has its answer have nothing more to do, so the runs of
`EventDecoder` and `ResponseCache` do not check it.

**Fairness.** Only `CallEnds` needs any: `FairSpec` is weak fairness of each call's steps. The code
justifies it: Tokio runs every ready task, all HTTP clients have timeouts, back-off and polling
are sleeps, and Tokio's mutex is handed over in order of arrival. Nothing is assumed of the
admin, of expiries or of the upstream, which may answer with an error every time. Weak
fairness is enough although polling for a permit is a loop, because each call is made once and the
holder of the permit ends; with an endless supply of new calls a poller could starve, as in the
code, whose poll has no queue.

Each property of a passing run has a mutant: an operator such as `ReleasePermit_Leak`, next to the
definition it replaces, that is the same operation with one plausible mistake, and with which
TLC finds the property violated.

## 4. Proofs

`CredentialPoolProofs` proves, for all finite sets of calls and accounts, any numbers of
permits, retries and failures, any admin activity and any initial priorities, disabled entries and
tokens, from the assumptions named in `CredentialPool`:

* `TypeCorrect`: `TypeOK`.
* `PermitsAlwaysConserved`: `PermitsConserved`.
* `SingleFlight`, `OnlyStaleRefreshed`: `RefreshSingleFlight`, `RefreshOnlyStale`.
* `RetriesAlwaysBounded`: `RetriesBounded`.
* `SuccessesAlwaysTruthful`: `SuccessesTruthful`.
* `LimitedAlwaysLeft`: `LeavesLimited`, of priority mode before the first admin request.

The argument. `TypeOK` bounds every semaphore by `Cap`, and is not inductive: a release could go
past `Cap` if a call could release what it does not hold. The proof therefore starts with
`Typed`, which is `TypeOK` with `free` a natural number, and with the fact that a call between
selection and release has a credential (`Chosen`). With it `PermitsConserved` is inductive: each
action of a call either leaves `Holding` and `free` alone (`KeepsPermits`), or enters it and takes a
permit (`TakesPermits`), or leaves it and gives one back (`GivesPermits`); the actions of admin and
time touch neither. `Typed` and `PermitsConserved` together give `free[c] <= Cap`. `LockInv` says
that `refresher` is exactly the call that is refreshing, and that the token of a call that
refreshes without force is stale, which no other step can change while the lock is held;
the two lock properties follow. `SendsInv` counts: a call past `n` iterations has sent at most `n`
requests, and one more if this iteration has sent its own; with `attempt < MaxRetries` that
gives the bound. For `SuccessesTruthful` the set of answered calls of an account grows by one
element exactly when its count does. For `LeavesLimited`, `LeftInv` follows a call from its report to
its next request: `current` is an enabled account the call has not left, and what it selects is
`current`; a step of another call either leaves `current` where it is or ends the obligation
(`Leaves`). That last clause is not a convenience: with two calls the property is false without it
(section 5).

`EventDecoderProofs` proves, for bodies of any length, frames and chunks of any size, any limits and
any damage, from the assumptions named in `EventDecoder`:

* `DecoderTypes`: `TypeOK`, with the limit on the buffer.
* `StoppingTakesChunks`: `StoppedTakesChunks`.
* `FramesInOrder`: `DecodedInOrder`.

The argument. `ErrorsPaid` is inductive with `TypeOK`: the count of errors is at most the count of
chunks fed, and less than it while the decoder is ready and has bytes, because an error leaves the
decoder recovering and only a chunk makes it ready again; before it stops the count is below the
limit, which bounds it. `OrderInv` says that the positions in the buffer increase and lie before
what has arrived, and that every frame handed on is before the frames of all the bytes that are in
the buffer or still to come. Skipping bytes keeps it, since what is left of the buffer is a part of
it. A frame handed on consists of `FrameSize` successive bytes, so the byte after it is at least a
frame's length further on and belongs to a later frame (`FramesApart`); and it is not damaged,
because `parse_frame` answers a frame in no other case (`FrameComplete`).

As long as only data is damaged and no chunk is refused, the bytes in the buffer also follow each
other and start where a frame starts (`AlignedInv`), so that an error consumes exactly the damaged
frame and each frame before the buffer has been handed on or is damaged: `OnlyDamagedLost` for
`LosesOnlyDamaged`. `BacklogExplained`, for `BacklogOnlyAfterError`, needs that the loop of
`decode_iter` ends while the decoder is ready only when `parse_frame` wants more bytes.

`RequestProofs` proves two groups of theorems. About `ResponseCache`, for any clients, requests, keys,
answers and life time:

* `CacheTypes`: `TypeOK`.
* `OnlyCompleteAnswersReplayed`: `ReplayedAnswers`.
* `TornFilesExplained`: `TornOnlyByFault`.
* `EveryEndLogged`: `LoggedOnce`.

The argument. `CacheInv` follows an answer from its handler to the disk and from there to another
client: a handler that stores has an answer of its own that may be stored (`WritersStore`), a whole
file is such an answer under the key of its request and not younger than the clock (`FilesStored`,
`ClockAhead`), and a hit is a file that was whole and fresh when it was read (`HitsStored`). Since keys
are equal only for equal bodies and the same kind of handler, `ReplayedAnswers` follows. For torn
files the case to exclude is the removal of an expired file by name while another handler
writes the new one: the writer's file then has no name (`linked`), and what is at the name is not torn.

About `RequestConversion`, for any tools and settings, any bounds on messages, calls and results, and
conversations of any length, from the assumptions named there:

* `SessionTyped`: `SessionTypes`.
* `ToolUsesPaired`: `Paired`.
* `RequestsWellFormed`: `WellFormed`.
* `AllTextsKept`: `TextsKept`.
* `OnlyDeclaredNames`: `NamesKnown`.
* `KeysTellApart`: `KeyTellsApart`.
* `ConversationKept`: `OneConversation`, an action property.

The argument. Only `Send` makes a request, of the
conversation as it is then (`OnlySends`); so the three about what is sent need only be shown of `convert_request` applied to
any typed conversation (`RequestPairs`, `RequestTells`, `RequestWellFormed`). `build_history` collects the messages of one role and
flushes them when the role changes. `CollectedInduction` is the induction along that loop; the invariants it carries
are, for the texts, that what is flushed and what is still collected are together what was said
(`CollectGathers`), and, for the shape, that the history alternates if the user speaks first, and ends with the assistant whenever
the assistant's messages have been flushed (`CollectShape`). The merges, maps and flattenings are recursive functions whose equations come from
`RecursionUpTo`, and each has its lemma on `Append`. For `Paired`, `ValidatedIs` says what the
loop over the results of the current message leaves: the first result of every use that is open, and nothing else; `OrphansRemoved`
that the uses that stay in the history are those that have a result. The last two need a history.
`NamesInv`: every name in the conversation is one of the client's, and the map that goes with the request under way leads each name of a tool in
it back to one, so that what the upstream calls comes back as the client's own even if the tools have changed. `ThreadInv`: the last
request's id is that of the session, or is made of the first user message as it is now, until the client changes something.

`KeysTellApart` is an equivalence. If two requests differ in ids alone, their ids in the order of the JSON correspond, so that a
first occurrence is one in both, and the numbers agree (`NumberKept`, `KeyKept`). If the keys are equal, the
requests agree in all but ids, and each id of the one goes to the id of the same number in the other; numbers tell
ids apart (`NumbersDiffer`), so this is a one-to-one correspondence between two finite sets, and
`Completed` extends it to a permutation of all ids, which is the renaming that the property asks for (`KeyTells`).

`AdminStoresProofs` proves, for any numbers of threads, proxies, accounts and requests, any faults
and kills:

* `StoresTypes`: `TypeOK`.
* `ConfigFollows`: `ConfigAgrees`.
* `RecordsAreOwn`: `OwnRecords`.
* `SavedStatsAreLatest`: `StatsCaughtUp`.
* `AssignmentsFair`: `AssignFair`.

The argument. `StoresInv` is `Typed` with one invariant for each pair of memory and file. `ConfigInv` says
at each step of a change what the file and the clone taken before it have in common with memory, for the one
change that is under way if none has overlapped. `CallsInv` says that a call under way was started on an entry its
id still names or is `tangled`, `BalancesInv` the same of balance queries and of what the two
balance files hold; a deletion that has removed its entry and not yet its records keeps the id out by
`Deleting`. `SavingInv` says for each step of `save_stats` that counters which differ from the snapshot under way
are marked dirty, or that a call has overlapped (`missed`). That an id given out again is larger
than all in use makes it new (`GreatestOf` in `Induction`), and the recursive function by which
`assign_proxy_pool` hands out proxies changes nothing but proxies (`RecursionUpTo`). `AssignmentsFair` needs of a state only that
an assignment under way offers distinct proxies, which it has from a pool without repetitions; the rest is
the invariant `Dealt` of the loop over the credentials. After the turn of each id a proxy's load is the
number of credentials bound to it that count (`Bearers`: one whose binding is to be replaced counts when
its turn has passed), and a proxy that has been handed out is within the limit and
at most one ahead of any other (`Level`), for the least loaded is chosen.

`TokenLifecycleProofs` proves, for any numbers of workers, accounts, requests, faults and rotations:

* `TokenTypes`: `TypeOK`.
* `RefreshesPresentLatest`: `PresentsLatest`.
* `LatestTokenHeld`: `TokenNeverLost`.
* `FileCatchesUp`: `DiskCatchesUp`.

The argument. `TokenInv` consists of `Typed`, `StoppedEmpty` (a process that is down has no entries and
no requests), `RefreshInv`, `HeldInv` and `SaveInv`. In `RefreshInv`, `RefreshLocked` says that one worker at most
is past the lock, and `EntryStays` that, while it waits for the reply, the entry it read
still has the refresh token it presents, since no other step writes that token: edits keep it, a
deletion is recorded in `deleted`, and a crash ends the wait. The account is in one place (not `Shared`), so that if the program
has its latest token at all, that entry has it, and what is presented is the latest. `HeldInv`, which is `TokenNeverLost`
with the file and the snapshots, says when the program has it. A crash takes only tokens that were not
saved (`Unsaved`): by `SaveInv`, when nothing is left to save the file has the token that each entry has
(`SavedLatest`), with the same account.
`HeldInv` made the model more precise: it is not inductive unless a refresh that ends on an
entry whose id has passed to another account is among the exceptions, so `Store` records it in
`given`. `SaveInv` says that between `Snapshot` and `Write` the snapshot differs from memory only if
some other worker is about to save, or saves overlap; the two lists are compared entry by entry through the
recursive function `Kept`, whose value is characterised with `RecursionUpTo`.

`SseStreamProofs` proves, for any texts, chunks, tools and summaries, from the assumptions named in
`SseStream` (texts are sequences of characters):

* `StreamTypes`: `TypeOK`.
* `ProtocolKept`: `KeepsProtocol`, that `SseStream` implements `SseProtocol`.
* `MessagesWhole`: `WholeMessage`.
* `TextsKept`: `NothingSwallowed`.
* `SplitsUnseen`: `SplitInvisible`.

The argument. What the client accepts depends on events that are sent long after they were produced, so
the invariant looks ahead: `Leads(k, o, t)` says that a client `k` that reads the events `o` accepts
each of them and becomes `t`. As long as the stream goes on, the unsent events lead the client to
the blocks of the context exactly as they are (`Writes`, in `Fit`); when the final events have been generated
they lead it to the end of a whole message (`EndsWhole`). Sending an event takes it from the front
(`LeadsTail`), and a handler appends events to the end (`LeadsAppend`, `LeadsConcat`), so that its events need
only be right for a client that has the context's blocks. For this `Indexed` says which block each index of the
context names, that no text block is open but the one of `textAt`, and that a thinking block has its index;
`Still` says that the thinking block is open while the context is inside it, which is needed because
`create_thinking_delta_event` does not ask the state manager. One lemma for each function of the
code shows that it keeps `Fit` and `Still` (`TextFits`, `ContentFits`, `ToolUseFits`, `FinalEnds`, ...). The
code closes the last blocks in the order of a `HashMap`; `LeadsStops` shows that a client accepts the
stops of distinct open blocks in whatever order `SetToSeq` has them. The answer to a
search does not go through the context, so `SearchLeads` follows its four blocks one by one, for any number
of chunks.

`NothingSwallowed` speaks of the end of the stream, and needs an invariant of every moment of it:
what was sent, what the unsent events tell (`Told`, the text of the deltas among them) and what the buffer still
holds are together what has arrived, but for the markup (`TextInv`). A handler may
move text from the buffer into events and may drop markup, and nothing else: `Kept`, what the context tells and holds, is
the same after it (`Keeps`), or has grown by the chunk (`ContentSays`). There is one lemma for each function (`StartKeeps`,
`InsideKeeps`, `FlushedKeeps`, `FinalKeeps`, ...), and they rest on what the search for a tag promises:
that only characters of the tag and white space lie between the two pieces into which the buffer is cut (`StartTagIs`, `EndTagIs`,
`EndTagAtEndIs`, `CutMarkup`). A text delta on a block that is closed would be lost, which is why `Fit` is
needed here too. The buffer is empty in the end, since the final events flush it (`FinalKeeps`). For a search the
chunks of the summary join to the summary, by induction over their number (`ChunksTell`).

`SplitInvisible` compares the stream, which decides about a tag when it comes by, with
`extract_thinking_from_complete_text`, which sees the whole text. `SplitInv` says where the stream is in what has arrived, `z`, with positions in
`z`: `Before` (no opening tag seen), `Inside` (behind the opening tag at P) or `Behind` (behind the closing
tag at Q); in each case the buffer is a part of `z` up to its end (`Holds`), and what the
client has been sent and the unsent events tell, by the type of the delta, is up to white space the part of `z` that lies before the
buffer, without the tags (`NotYet`, `Within`, `Past`). Positions carry over between a buffer and the whole text because
no tag is quoted: a quote is a matter of the characters beside the tag, and in a `Bare` text, hence in any part of
one, every occurrence of a tag counts (`BareTags`). So `FirstOpen`, no opening tag before P, `FirstEnd` and
`LastClose`, the first closing tag with its two newlines or else the last with only white space behind it, determine P and Q (`OneFirst`), and `CompleteAt`
says that the function that sees the whole text finds the same two. The step that needs `KeptBack` is to show that
the stream does not send a character too early: `Clear` says that of a tag that begins in what was sent of the thinking the two newlines that decide about it were there to be
looked at when it was sent. It has one lemma for each branch of `process_content_with_thinking`
(`ContentBefore`, `ContentInside`, `ContentBehind`), and `FinalStage` for the flush at the end, where a closing tag counts with only white space
behind it. `ShowsMore` and `SendHeard` move an event from the unsent to the sent. When the stream is over the two
descriptions coincide (`InvHidesSplits`).

`RequestRecordsProofs` proves, for any conversation, requests, life times, counts and numbers of workers, any
faults and kills, and any `MaxRecords`:

* `RecordTypes`: the types of tasks, files and lines.
* `HitsAreEarned`: `HitsEarned`.
* `UsageAlwaysAgrees`: `UsageAgrees`.
* `LogStaysIntact`: `LogIntact`.

The argument. `RecordsInv` is `Typed` with one invariant for each property. `HitsKept` says that requests are told
apart by their numbers, that each whole file was written by a store that succeeded, and that a request
that still looks up has stored nothing; so a hit is what another request has stored. `UsageKept` follows the
numbers of one answer: the saving is at most nine tenths of the count, so that what the upstream reports, lowered
by it and told to the client, adds up again when the log computes with it. `LogKept` is about the log without its
open line (`Settled`): its records ascend, the open line's number is above all of them, every
acknowledged record that is not spoiled is listed or has `MaxRecords` listed ones above it (`Keeps`), and the record under way is alone
on the last line unless it is spoiled (`Alone`). `Keeps` survives a compaction, since the last
`MaxRecords` are what it keeps (`KeptOf`), and a failed write, since it only touches the open line.
`LogKept` made the model more precise: `LogIntact` used to be asked only of a log without a cut line, and was not inductive,
because a compaction can drop that line again (see section 5); now the records begun behind it are `spoiled`.

Induction over data. The library's induction theorems take an operator as a parameter, which
these provers cannot instantiate. `Induction` states what is used of it about sets: a set of
numbers that has 0 and the successor of each of its elements up to n has all numbers up to n
(`InductionUpTo`), and a recursive function on 0..n exists, so that its equation holds
(`RecursionUpTo`). That is enough for the recursive functions here, the text of a stream without its markup
among them (`Only` of `Filter`, with `OnlyAppend` and `OnlyConcat`), and for the loops of the
conversion (`SeqInduction`, `FlattenSeq` and `CollectedInduction` in `RequestProofs`). Therefore the modules
write their loops as recursive functions and not with the folds of the library, whose arguments are
operators.

What TLC alone shows: `CallEnds`, since liveness under fairness and ENABLED are beyond this prover. Every other property that a
passing run checks is the subject of a theorem. `GiveUpOnlyWithoutValid`, `EditsStick` and `UniqueIds`
are false and have counterexamples instead.

## 5. What the models found

The violation runs:

* `pool_pingpong`: `report_refresh_failure` moves `current_id` to the best other enabled entry. If the
  two preferred accounts both fail to refresh they alternate until `acquire_context` gives up, and
  the third account is never tried.
* `tokens_edit`: a refresh writes its old clone of the whole credentials back.
* `tokens_ids`: two additions at once get one id, and the next start refuses the file.

Observations without a run of their own:

Pool and tokens:

* In priority mode the current entry is used without looking at the model, so an opus request may be
  sent on an account without opus (`acquire_context`; `select_next_credential` does look).
* A rate-limited account is not paused: `report_rate_limited` only counts and moves `current_id`.
* In priority mode a call waits for a permit of the current account while another one is free.
* The report of one call may move `current_id` back to the account that another call has just reported
  and left, and that other call then sends its next request there again: p1 leaves c1 for c2, p2 cannot
  refresh c2 and moves to c1, p1 selects c1. `LeavesLimited` therefore ends when another call moves
  `current_id`.
* In balanced mode the account that has just failed is often the least used and is taken again.
* A reply that is lost after the server has rotated the token leaves the program with the replaced one for
  good; the direct attempt that follows a failed proxy presents it at once (`token_manager.rs:158`).
* An account whose token was added twice at once, past the duplicate check, presents a replaced
  token; `PresentsLatest` names and excludes it.
* `try_ensure_token` refuses a reply whose access token is over or within five minutes of it
  (`token_manager.rs:1180`), which is also what it sees when the reply has no `expires_in` and the old expiry stays. It
  does so before the entry and the file get the new credentials, so a refresh token that the server has rotated is
  dropped, and the next refresh presents the replaced one (`ReplyRefused`, an exception of `TokenNeverLost`).
  Forced and usage refreshes and additions store such a reply unchecked.
* After the deletion of the highest id the next addition has that id again, and a refresh or usage
  query still under way for the old entry writes into the new one.
* Two overlapping saves may leave the older snapshot, or a torn file; a crash between truncation
  and write leaves an empty one.
* The permit goes when the response headers are there (`provider.rs:411`), although the comment at
  `token_manager.rs:719` says it is held to the end of the call: an account may stream more answers
  than its limit.
* In balanced mode an account whose quota is used up is not disabled and may be selected again; this
  is why `LeavesLimited` speaks of priority mode.

Stream and decoder:

* A tool call that arrives before the thinking has ended starts its block inside the thinking block.
* Frames behind a damaged one wait for the next chunk. If there is none they are lost; an answer
  that is not streamed is fed in one chunk, so it loses everything behind its first damaged frame,
  ends with `end_turn` all the same, and is stored in the cache.
* A length that is misread and larger than the room in the buffer is waited for although the chunks
  that would complete it are refused: the decoder gets nothing more out of the body.
* Thinking that never ends, and a quoted tag whose quote comes with another chunk, are treated
  differently by the stream and by `extract_thinking_from_complete_text`. A tag next to another tag
  counts as quoted, because `<` and `>` are in `QUOTE_CHARS`, unless a chunk ends between the two or the
  neighbour has been sent already; the comment in the code speaks only of a tag that is cut.
  `SplitInvisible` used to leave out only texts with a quote character of another kind beside a tag, and was false for tags side by side; now it
  speaks of texts in which no tag stands beside any quote character (`Bare`).
* After an error in a prelude one byte is skipped and the loop ends, so the next byte is skipped when
  the next chunk comes; the fifth error in a row stops the decoder long before the start of the
  next frame. The comment's "try to find the next frame boundary" does not come true: one damaged
  prelude ends the response.
* A web search request that does not ask for a stream gets one all the same; the query is always
  the first message's; `is_error` of the MCP result is not looked at, and a failed MCP call is
  presented as "No results found".

True cache:

* An answer that is too large for the cache is logged as `miss-stored` (`put_response` returns `Ok`).
* Removing an expired file by its name may remove a fresh one, whose answer is then asked for again.
  A file torn by a crash stays a miss until the next answer is stored under its key.
* The comment above `create_cacheable_sse_stream` says that the events are replayed at the end;
  the code sends them as they come.

Conversion:

* A conversation that begins with the assistant gets, with a system prompt, two assistant messages in a
  row; `WellFormed` excludes it.
* A system prompt that is there but empty drops the request to think as well.
* Messages of a role that is neither user nor assistant are dropped with their texts.
* A first user message without text gives each request a random conversation id.
* Two spellings of a tool that is in the history and not declared give two placeholders.
* A tool result without its call stays in the history (only those of the current message are
  validated, `converter.rs:555`), and a user message before it puts "OK" between a call and its result.
* An assistant message without text and without calls has empty content; the space that stands
  for the text beside calls stays when the calls are removed as orphans.
* A long name of several bytes per character may exceed 63 bytes after it has been shortened.
* The key of the true cache also renumbers a field of a tool's input that happens to be
  called `toolUseId` or `tool_use_id`, and does not know what the conversion drops (`max_tokens`, the
  alias of a model): such requests share an answer.

Stores:

* An assignment that overwrites and names no credentials counts the bindings it is about to remove
  (`token_manager.rs:2017`, against the comment at 1982): two credentials at the first of two proxies
  both move to the second. One that finds no room keeps its old binding uncounted, so that the
  limit can be exceeded. `AssignFair` excludes both.
* The mode and the pool each read, change and write `config.json` without a common lock
  (`token_manager.rs:2493`), so one change can undo the other in the file; the rollback to a clone undoes
  an acknowledged change in memory. `raced` marks both.
* A torn `config.json` keeps the process from starting; nothing repairs it.
* A deletion whose save fails returns early and leaves the balance and the statistics for
  whoever gets the id next. A balance query under way writes its answer after the deletion.
* `save_stats` removes the mark after it has written an older snapshot, so a success counted in
  between is only saved with the next one. The save in `Drop` never runs, since `main.rs` ends without
  dropping the manager.

Records:

* Tool results are counted twice in the saving, within the beginning of the conversation and on
  their own, while the local token count leaves them out; only the cap of nine tenths hides it.
* If the disk is full in the middle of a character, `read_records` stops at that line for good: later
  records are written and never listed, and the log is not compacted any more, although
  `model/config.rs` calls `call_log_max_records` the most that is kept.
* If compactions failed before, so that the file holds more than `max_records` records in front of such a cut
  line, the next compaction that succeeds drops the line and every record behind it, acknowledged ones too.
* A record without its end of line is listed, and lost when the next one is joined to it.
* Where nothing was saved the client is told the upstream's count, and the log has the local one if
  it is larger; a replayed answer costs the client nothing while the log may estimate more.
* Segments are stored although the upstream then fails. A client that leaves in a stream, and a web
  search, leave no record.

## 6. Not modelled, and the plan

Not modelled: JSON, HTTP and TLS, OAuth's wire format, cryptographic details, machine ids, the
estimation of tokens from characters, routing, authentication, debug output, logging texts, the web
UI, the validation of admin input and the formatting of its answers, images, the normalisation of JSON
schemas, endpoints and other constants of the configuration, and the removal of cached answers
beyond a size limit that was lowered. They are I/O, formatting or arithmetic without a state that the
properties could tell apart.

Eight listed hazards have no property, because the code does what they say and nothing in it prevents it; section 5
describes each: the permit that goes before the answer is streamed (`provider.rs:411`), the file
written in place (`token_manager.rs:1278`), the reply lost after a rotation (`token_manager.rs:158`), the quote beside a
tag that comes with another chunk (`stream.rs:159`), the one bad byte that ends a response (`decoder.rs:239`), the answer
without its end that is cached (`handlers.rs:1511`), the balance written after a deletion (`service.rs:301`)
and `config.json` without a lock (`token_manager.rs:2493`). The properties leave these cases out by name.
One composition is left: the decoder with the stream, into a
response whose end may be missing. `EventDecoder` and `SseStream` meet only in the sequence of frames,
which the first shows sound and in order and of which the second accepts any.

Order of the work, most important first:

1. `CredentialPool`, with its runs and proofs: done.
2. `TokenLifecycle`, with its runs and proofs: done.
3. `SseProtocol` and `SseStream`, a refinement, with the web search, with its run and proofs: done.
4. `EventDecoder`, with its runs and proofs: done.
5. `ResponseCache`, with its runs and proofs: done.
6. `RequestConversion`, with its run and proofs: done.
7. `AdminStores` and `RequestRecords`, with their runs and proofs: done.

Theorems still worth stating: `UniqueIds` when additions are not concurrent.
