# A verification project for the Qwen3 engine daemon

The repository holds a C inference engine for Qwen3 on Apple Metal and a daemon
that serves it over a Unix socket. This directory holds TLA+ models of the
daemon, of the engine's generate and forward passes, of its tokenizer and of its
KV-cache providers, the TLC runs that check them on small instances, and proofs
checked by TLAPS for every instance. Everything is translated from the C sources;
the documents are used only to say what the program is supposed to do.

    cd tla
    tlc -workers 2 -config sessions.cfg MCSessionTable.tla     # a run
    tlapm SessionTableProofs.tla                               # a proof

## 1. Inventory

| component | source | state | operations | hard because |
|---|---|---|---|---|
| threads and work queue | `tools/qwen3-engine-daemon.c` 1769-1946, 2066-2228 | `g_stop`, `ds.shutdown`, linked list `work_head/work_tail/work_count`, `work_mutex`, `work_cond` | start threads, accept, `enqueue_work`, `worker_thread`, shutdown | condition variable, limit tested in one critical section and used in another, shutdown outside the mutex |
| session table and handlers | same, 571-722, 1037-1147, 1277-1706, 1893-1916 | `sessions[]`, one mutex per session, `sessions_mutex`, `engine_mutex`, `engine`, `n_ctx` | create, generate, append, replace, reset, close, load_model, health, stats; the reaper | three levels of mutexes, sessions freed while others look for them, a model switch that runs in stages |
| connections | same, 1719-1835 | line buffer, idle deadline | `read_line`, `send_response`, `handle_connection` | requests in pieces, cut or too large; a client that gives up or stops reading |
| JSON, chat prompt, tool calls | same, 1-565, 722-1036, 1153-1227 | none | `parse_request`, `params_get_*`, `parse_message_array`, `build_chat_prompt`, `strip_think_blocks`, `extract_tool_calls_json`, `json_escape_to_buf` | hand-written parsing of text the model and the client choose |
| KV provider: local | `src/ds3_kv_cache.c` 205-395 | 16 slots, no lock | create, close, reset, lookup, read, write | called by several threads; buffer layout depends on the length it was written with |
| KV provider: service client | `src/ds3_kv_cache.c` 398-1635 | socket, arenas, 64 session entries, heartbeat thread, `wake_mutex`, `mmap_mutex` | RPC with one retry, reconnect, `GetConfig`, lookup/read/write, heartbeat, close | retries of what may have been done, reconnect between two steps of one call, a service that evicts and restarts |
| engine: generate | `src/ds3_engine.c` 3124-3398 | GPU KV cache, `seq_len`, deadline, host buffer | `ds3_engine_generate_ex` | deadline, cached prefix, errors half way |
| engine: forward passes | `src/ds3_engine.c` 181-1523 | scratch buffers, router output | `forward_token` (three schedules), `forward_chunk` | what is encoded, what has run, and what the host reads in between |
| Metal | `src/ds3_metal.m`, `metal/` | batch command buffer | begin/end batch, kernels | an error inside a batch |
| tokenizer | `src/ds3_tokenizer.c` | vocabulary, hash tables | encode, decode, chat format | a regular expression written out by hand over bytes |
| reference | `src/ds3_reference.c` | none | a CPU forward pass | what the engine is compared with |
| GGUF, weights, CLI, vendored nanopb, tests | `src/ds3_gguf.c`, `ds3_weights.c`, `tools/qwen3-cli.c`, `src/kvcache/`, `tests/` | file tables | load | not the program's own concurrent core |

How they interact. `main` accepts connections and appends them to the work
list; a worker takes one, reads requests from it and calls a handler. A handler
takes `engine_mutex` (generate, load_model), then `sessions_mutex` (to find a
session or change the table), then the session's own mutex, in this order, and
releases `sessions_mutex` once it has the session. `generate` turns the session's
history into a prompt and the prompt into tokens, and keeps `engine_mutex` while
the engine runs: the engine calls the KV provider for the session's cached prefix
before, runs forward passes on the GPU, and stores the new prefix after. What the
model said is cut into reasoning, text and tool calls, sent, and remembered.
Removing a session tells the provider. The reaper removes sessions that have been
idle for too long and skips those in use. The service provider has a heartbeat
thread of its own, which shares its socket with all of them.

What makes each part correct:

- work queue: the list is the queue; the limit holds; each descriptor has one
  owner and is closed once; no worker sleeps through queued work; shutdown ends.
- session table: no handler works on a freed session; an id names one session;
  a turn is atomic although it is answered before it is appended; the engine is
  not closed under a generate; the provider holds nothing the table does not;
  the limit and LRU; the reaper's loop misses nothing; every request is answered.
- connections and text: every call is answered, with its id, in one line of JSON
  that holds what the model said; the next prompt goes on from what the client saw.
- KV providers: the KV read back for a prefix is the KV stored for it; answers
  reach the caller that asked; slots and entries are given back; calls return.
- engine: what is stored was computed; a timeout stores nothing; never beyond
  `n_ctx`; all ways of running a layer compute what the reference does.
- tokenizer: the pieces of the regular expression, the ids of merging by rank,
  and decoding gives the text back.

## 2. Modules

| module | models |
|---|---|
| `SessionTable` | every handler and the reaper, one action per stretch of code between two lock operations; state: the table, the heap of sessions with their mutexes, `sessions_mutex`, `engine_mutex`, the engine, the KV provider's sessions, each thread's program counter and locals |
| `SessionService` | what a client is promised: atomic requests on conversations, no threads |
| `WorkQueue` | `main`, the pool, the linked list field by field, the condition variable, signals, start-up failures and shutdown |
| `ConnectionQueue` | a bounded first-come-first-served queue whose elements are served once |
| `ChatText` | the text functions of the daemon: JSON reading and escaping, the chat template, reasoning and tool calls |
| `Connection` | one connection: socket, `read_line`, every handler with the text it reads and answers, the client |
| `KvLocal` | the local KV provider: slots, the stages of a create that takes no lock, lookup, read, write |
| `KvService` | the client of the KV-cache service: RPC, retry, reconnect, arenas, entries, lookup, read, write, heartbeat, close; the service as its client knows it |
| `EngineGenerate` | `ds3_engine_generate_ex` from the prefix lookup to the write-back, composed with `KvLocal` and with other sessions being created, closed and reset |
| `Device` | the forward passes down to their kernels and command buffers, and the reference they are compared with |
| `Tokenizer` | tables, pre-tokenizer, merging, added tokens, chat format, decoding, and a reference without tables |
| `MCSessionTable`, `MCWorkQueue`, `MCConnection`, `MCEngineGenerate`, `MCKvService`, `MCDevice`, `MCTokenizer` | instances for TLC |
| `SessionTableProofs` | types and who holds which mutex; the inductive invariant and the theorems; what the scans of `session_create` and of the reaper have seen, and so what they leave |
| `SessionTableRefinement` | that `SessionTable` implements `SessionService` |
| `WorkQueueProofs` | the inductive invariant of `WorkQueue`, its theorems and the refinement |
| `EngineGenerateProofs` | sequences and buffer layout, the inductive invariants of `EngineGenerate` and of the slots of `KvLocal`, the theorems |
| `KvServiceProofs` | who owns the socket and the entries of `KvService`, what is in its answers, its arena and its index, and the theorems |
| `DeviceProofs` | that the programs of `Device` open and close batches in turn, its inductive invariant and the theorems |
| `DevicePasses` | what those programs compute, for any number of layers, if kernels run as soon as they are dispatched |
| `DeviceExactness` | that batches make no difference to it: what is sampled and stored is the reference's |

### SessionTable and the code

A thread is a worker or the reaper; `pc` says before which lock operation it
stands. Prefixes name the handler: `c_` `session_create` and
`handle_create_session`, `f_` `session_find_and_lock`, `g_` `handle_generate`
and `generate_for_session`, `l_` `handle_load_model`, `h_` health and stats,
`r_` the reaper. `Objs` are addresses `calloc` may return; freeing an object
takes it out of `live`, and it may be allocated again at once, so a stale
pointer meets a new session. A waiting `pthread_mutex_lock` is an action that is
not enabled. `session_find_and_lock` is one action because it holds
`sessions_mutex` until it has the session, which is exactly what makes it safe
and what makes others wait. Histories are sequences of messages that carry the
request they came from. `calloc` and the provider's `create_session` may fail at
any time. The result of the provider's close is not looked at: for ids of 64
characters or more (`LongIds`) the local provider has cut the name and does not
find it again, so that such a session stays with it, and `NoOrphanInProvider`
speaks of the other ids.

Abstracted: JSON, the text of prompts and answers, streaming (a failing write to
the client is the failure of a generate), sampling, requests with missing or
malformed fields: see `Connection`. Not in the model: the daemon without a KV
provider, which does less.

### WorkQueue and the code

A critical section nobody can observe half done is one action. Two things are
split because main does not take `work_mutex` for them: a worker that found
nothing to do (`Doze`, with the mutex kept) and its going to sleep (`Sleep`,
which releases it). `enqueue_work` is three actions: test (`Admit`, `Drop`),
`malloc`, append (`Enqueue`). `order` and `served` are history variables:
connections as they were queued and as they were taken; no action reads them.
A connection's life inside a worker is a number of requests and an end, which
may come at any time between requests (client gone, idle deadline, `g_stop`);
`Connection` has the inside of it.

### Connection, ChatText and the code

A text is a sequence of units: a character that one of the functions looks at, a
whole tag or key, or other text that none of them tells apart. The readers of
`ChatText` return whether they succeeded, what they read and where they stopped,
as the C functions do with their pointer. What a handler reads out of its
parameters is read once, when it is called (`Dispatch`): they do not change.

A request is sent in one piece or two, and `read` takes at most `ReadSize` units
of what has arrived, so that a newline may be at any place of a piece. The client
asks one thing at a time, may end its side of the socket in the middle of a call
(`SendsNoMore`), close it (`HangsUp`), or stop reading so that a send times out
half way (`Stalls`). `gen` is what the model says, piece by piece; the engine may
fail at any piece. `log` is a history variable. The client's reading of JSON
(`Json`, `Member`) is written independently of the daemon's. It is the client of
`src/run_e2e_chat.py`, which writes without blanks (see below for one that does
not) and waits for each answer; but it may also stream, send an empty line, an
empty method or no parameters, cut its requests, and give up.

`NullParams` is a request without `params` for a method that reads them: the code
follows a NULL pointer (457), which ends the daemon, and the model with it.

Left out: `load_model` and `stats`, whose parameters are numbers and a path (their
locking is in `SessionTable`); several sessions (there is one id, "s"); reading
and writing signals that interrupt nothing.

### EngineGenerate, KvLocal and the code

The forward pass is arithmetic, so a unit of KV (one plane, K or V of a layer, at
one position) is modelled by the tokens it was computed from: `Unit(l, s)`. A pass
over new tokens computes right units if all units it attends to are right, and
`Junk` otherwise (`Device` shows why that is so). A failing pass or upload has
written some planes and not the others. Buffers keep their layout, plane after
plane for the length they were made for, because that is what goes wrong in
`local_read`.

`generate_ex` is split where others can act or where it can fail: `Lookup`,
`Read` (search and length test) and `Copy` (the `memcpy` and the upload), `Plan`,
one action per forward pass, `StoreFind` and `Write`. `cached` goes on as
`prompt_pos`. `DeadlinePasses` may come at any time, `Expire` is the test.
`DS3_NO_CHUNK_PREFILL` is a choice in `Plan`. In the provider `CreateFind`,
`CreateFill` and `CreatePublish` are the find, the `strncpy` and `calloc`s, and
`valid = 1`: `local_create_session` runs under the mutex of the session it
creates only, so two may interleave.

History variables and fields, which no action's guard reads: `spoiled` (what was
read is not the KV that the lookup found), `clean` of a slot (the generate that
wrote it could vouch for every unit), `contested` (slots that two creates had
picked at once).

Abstracted: values, sampling (any token), statistics, the callback. Left out: a
generate without a session or a provider, which looks nothing up and stores
nothing; `DS3_CHUNK_DEBUG`; a `memcpy` into buffers that a racing create failed to
allocate, which crashes the program and is modelled as a write nobody reads whole.

### KvService and the code

Three kinds of threads share one socket: the one that generates (`Engine`, it
holds `engine_mutex`), those that create, close and reset sessions (`Clients`),
and the heartbeat (`Beat`). `wake_mutex` is `wake`; a call holds it from `Lock` to
its end. `pc` values `lock`, `recv` and `got` are a call before its mutex, waiting
for its answer, and back in its caller; the caller goes on without the mutex and
takes it again for the table of entries, which is why those are steps of their
own. `ReceiveFails` is `service_disconnect` and the second attempt, which resets
`own_arena_idx`. A protobuf message is a record; one that does not decode is
`ReceiveGarbled`. `xxh64` is taken for injective.

The service is a separate Rust program that is not in the repository. It is
modelled by what the client expects: it executes a request and answers it, and it
may stop (with or without its index), restart, refuse, evict, and return blocks of
tokens that only share the prompt's beginning, of any size. `CopyAstray` is the
write through `arenas[-1]`, where the model ends. `mmap_mutex` is left out because
only the generating thread takes it.

Between the answer to a lookup and the look at the headers of its blocks the
service may evict. `SizeOf` then is the code's guess (1385-1391): a full block or
what is left of the prefix, which may be too much, and the blocks after it are
taken to be at other positions. History says what comes of it: `spoiled` marks a
generate that reads a block which is not in the index any more or is not clean, a
`Store` and the entries it makes are `clean` if the generate was not spoiled.
`ReadIsExact` and `IndexIsExact` speak of the others.

### Device and the code

A forward pass is a program: the list of commands the host gives, as
`forward_layer_pre`, `forward_layer_post` and the others put them together. In a
batch a kernel is only encoded and runs when the batch is ended; what the host
reads and writes happens at once. The value of a row is the term of the kernels
that led to it, so that two rows are equal only if they were computed from the
same tokens in the same way. `Logits` and `KvRows` are those terms in the order of
`ds3_reference.c`. `Fails` is a failing call at any place and the `CHECK` macro.
A generate's prompt may be cut into chunks and single tokens in any way; it is not
empty and not longer than the context, since `ds3_engine_generate_ex` refuses such
ones (3134-3141). `Ran` is what a command buffer does: its kernels, one after the
other. `HostWaitsForBatch` is
what the host relies on: where it begins a batch, reads the router's choice or
samples, no batch is open and nothing is encoded that has not run.

Left out: the arithmetic and the shapes inside a kernel, `DS3_CHUNK_DEBUG` and the
captures, the GPU's own failures (`ds3_metal_end_batch` does not look at the status
of its command buffer).

### Tokenizer and the code

Bytes are numbers and offsets count from 0. Tables are open-addressed arrays with
the code's probing, the pre-tokenizer's seven branches are operators tried in
order, and merging and decoding are a step each. What counts as a letter or a digit is a
parameter; the run has the ranges its texts come near. The reference reads the text as
characters, uses the regular expression that the file quotes as sets of possible
ends, applies merge rules one after the other, and has no tables.

## 3. Runs

| run | what it asks | bounds |
|---|---|---|
| `sessions` | every operation by three threads: double ids, atomic turns, engine kept, provider without orphans, refusal only when all are in use, and `Inv`, with use after free and mutex owners | 3 workers, 2 ids, one of them long, 2 addresses, limit 2, 4 requests |
| `limits` | `--max-sessions` and the reaper: the limit, LRU, no session in use freed, none expired missed | limit 2, 3 ids, 3 addresses, 4 requests, time 0..2, timeout 1 |
| `service` | `SessionTable` implements `SessionService`; every request is answered (liveness) | 2 workers, reaper, 1 id, limit 1, 3 requests, time 0..2, timeout 1 |
| `queue` | list, owners, lost wakeups, drain at exit, every connection ends, refinement of `ConnectionQueue` and so the limit | 2 workers, 3 connections, room for 2, 1 request each |
| `connection` | each line answers its call, prompts go on from what was seen, every call is answered | 3 calls of 16, the first in two pieces cut anywhere, reads of 30, lines up to 90, 6 things the model says |
| `generate` | all of generate with failures and deadlines: attention and stored KV are exact, the context fits | 2 ids, one of them cut, 1 slot, 2 planes, 2 tokens, context 3, chunks of 2, 2 generates |
| `slots` | creates, closes and resets around a generate: slots accounted for, generate returns | 2 ids, 2 slots, 1 token, context 2 |
| `kv_service` | answers reach their callers, what is read and stored is exact, entries are given back, every call and the close return | 1 id, 1 client, 2 entries, 3 blocks of 2 tokens, 2 generates, 2 session calls, 1 heartbeat, 1 fault |
| `device` | logits and KV are the reference's under every schedule, the host reads only what has run, no batch is left open | 2 layers (one fused), chunks of 2, context 3, 2 prompts, 2 generates, 1 failure |
| `tokenizer` | pieces follow the regular expression, ids are the reference's, decoding gives the text back | texts of up to 3 of 13 units and 4 of 5, 6 merges, 3 added tokens, limits and buffers of 2, 3 and 100 |
| `shutdown_claim` | violated: a signal ends the daemon | 1 worker |
| `layout_claim` | violated: the KV read for a prefix is the KV of that prefix | 1 id, 1 slot |

Why the bounds are enough. A race in the table needs a holder, a remover and a
creator that reuses the address: three workers, two addresses and two ids. Four
requests let one session be created, used, removed and created again. The limit
needs one more id than it allows. A refusal needs both sessions in use while a
third create scans, and so a third worker: it happens in `sessions`, whose limit is
two (the third create may be for one of the two ids: the limit is looked at before
the id). The list needs two items at once (head and tail differ), a third connection
to be refused, and a worker awake while another sleeps. A wrong unit
needs a stored sequence, a prompt that shares part of it, and
a token more: two tokens, prompts up to the context of three, and two generates,
the second of which finds what the first stored. Two planes tell plane order from
token order. A context of three is filled, and chunks of two leave a rest of one.
One slot makes two sessions collide; two slots let one have two.

A connection needs a turn that changes the history, one that may fail, and one
that must go on from what was seen: three calls. The calls hold every method, a
missing, an empty and an unknown one, missing parameters, quotes, backslashes,
control characters and a surrogate pair; the answers hold reasoning, closed and
open, tool calls with quoted brackets, lists of them, broken ones, ones that are
no JSON, and nothing. Lines are shorter and longer than a read and
than the limit.

With one fault, `kv_service` has a request executed and its answer lost, its retry
answered by a restarted service, an eviction between lookup and read. Three blocks
of two tokens hold two stored prompts, of which the second may share a partial
block. `device` needs two layers because the router's choice of one layer must not
reach the next, and two generates because buffers keep what the first left.
Texts of three units meet every pair of branches of the pre-tokenizer and a third
unit to look ahead to. Symmetry is used for safety runs only.

Fairness. Threads that can run do: weak fairness per thread. In `service`
(`SessionTable!FairSpec`) that is all, with the clock going on: since requests and
passes of the reaper are finitely many, nobody is overtaken at a mutex for ever.
`WorkQueue` and `KvService` need more: a mutex or a condition that is there again
and again is obtained in the end (strong fairness of `Take`, `Doze`, `Exit` and of
main, and of each thread of `KvService`). Clients, signals, failures and spurious
wakeups have none. A generate is assumed to end, which `--generate-timeout` enforces; `GenerateReturns` shows
it for the control of `generate_ex` under weak fairness of its steps, since
nothing in them waits. `Connection` has weak fairness of the daemon's steps,
`WF_vars(Works)`, with ENABLED and the step written out because TLC is faster that
way. `KvService` has strong fairness per thread and weak fairness of the service's
answers: `ds3_kv_cache.c` sets no `SO_RCVTIMEO` or `SO_SNDTIMEO`, so it is assumed
that the service answers or the connection breaks; a service that does neither is
the one thing that would hang a call.

### What disagrees with the documents

Two runs end in a violation, by something a document says of the program:

- `shutdown_claim`: `main` sets `ds.shutdown` and broadcasts without
  `work_mutex` (lines 2201-2202). A worker between its test and
  `pthread_cond_wait` misses both and is joined forever. A spurious wakeup
  would save it, but POSIX does not promise one.
- `layout_claim`: `local_read` copies the front of a buffer that was laid out for
  the stored length (line 364). For a shorter prefix the engine takes the first
  plane's KV of later tokens for the second plane's, and decodes from it. A turn
  that continues the stored one exactly is not affected, which is the usual case;
  an edited history is. `service_read` copies plane by plane.

Met while reading and modelled as the code does it, but not a run of their own.

Sessions (`tools/qwen3-engine-daemon.c`):

- `load_model` empties the table, releases `sessions_mutex`, and only then opens
  the new engine and stores `n_ctx` (1289-1313). A `create_session` in between
  makes a session with the old `n_ctx` that survives the switch, which the design
  document says clears all sessions.
- A handler waits for a busy session while it holds `sessions_mutex` (607), so one
  request for the session a generate is using stalls requests for all others.
- `session_create` evicts a session before it looks whether the id already exists
  (645-674), so re-creating a session at the limit costs another one.
- `handle_load_model` reads `ds->engine` for `vocab_size` without a mutex (1315);
  a second `load_model` may have closed it.

Threads (same file):

- `accept` failing once, for want of descriptors say, ends the loop of `main`
  (2191), but the workers look at `g_stop` only: clients that stay connected keep the
  daemon from exiting until they are idle for too long. `EveryConnectionEnds` assumes
  that each connection ends some time, and does not see it.

Connections and text (same file):

- A blank between a colon and a string is skipped in most places (`json_string`
  does it), but not before `id` (427), which then is taken for a number, nor before
  a parameter (`params_get_string`, 472). A client that writes `{"id": "req-1", ...}`, as
  the example in the design document (93) does, gets an error.
- A send that times out half way leaves a part of a line in the socket, and the next
  reply is glued to it. `AnswersMatch` does not speak of a connection that stalled.
- What follows the first newline in the bytes of one `read` is dropped: requests
  must not be pipelined. A blank line before a request that arrives in pieces makes
  the request an invalid one.
- `extract_tool_calls_json` counts a tool call `[]` and copies nothing for it, so
  that `[,{...}]` comes out, and copies a body that is no JSON if its brackets match
  (905-938). Its comment (876-879) promises a JSON array or NULL. A body that is
  written on several lines is copied with its newlines, and the answer is several
  lines, none of them JSON, where the design document (90) has one object per line.
  `AnswersMatch` leaves open whether the last line of such a generate is JSON and
  which tool calls it has (`Garbled`).
- Of a text with a `<think>` that is not closed, what stands before the tag is
  dropped and the reasoning is the answer (867). The comment there (866) and
  `docs/qwen3-engine-daemon-backlog.md` (104) say the opposite. `AnswersMatch` leaves
  the text of such an answer open (`Unclosed`).
- White space before an answer is trimmed in one order only, newlines and then
  blanks: a text that starts with a tab and a newline keeps the newline.
- Ids that are numbers come back as strings.
- A request without `params` ends the daemon (`NullParams`), unless its method is
  `health`, `stats` or unknown: `params_get_string` does not test for NULL (457).

Engine and KV (`ds3_engine.c`, `ds3_kv_cache.c`):

- A `forward_token` that fails while decoding (3256) breaks out after its token was
  counted, so the last stored unit is whatever the GPU buffer held. A later prompt
  with this prefix attends to it. `clean` marks such slots, and `StoredIsExact`
  speaks of the others.
- Ids of 64 characters or more are cut by `local_create_session`, and close and
  reset never find their slots again: `SlotsAreAccountedFor` excepts them.
- A service that restarts between `service_write`'s reconnect and its copy leaves
  `own_arena_idx` at -1, an index the write goes on to use (1539): `CopyAstray`.
- After a lookup whose second `ensure` failed, the next `Store` still claims the
  cached length of the lookup (1307, 1615).
- A block that is evicted between the answer to `Lookup` and the reading of its
  header gets a guessed size (1385-1391). If it was a partial one, the blocks after
  it are read at shifted positions. The engine goes on from that KV and stores what
  it computes, under the right tokens. Whether the `Store` is accepted depends on
  the service: the cached length sent with it must end some chain. Four generates
  on five blocks of two tokens, with prompts of 1, 3, 4 and 5 equal tokens and one
  eviction, reach it (3.1 million states): an entry of the index whose block holds
  junk, which is why `IndexIsExact` speaks of clean entries. The comment at the
  guess assumes full blocks; treating such an answer as a miss would be safe.
- The heartbeat lists only sessions that have an entry, its comment (821) says all.
- No socket timeout is set: a service that neither answers nor closes hangs a call.
- The shared expert runs in two of the four schedules whenever the model has one,
  and in the others only with `DS3_USE_SHARED_EXPERT`; `ds3_engine.c` 42-46 says it
  is off unless asked for. No supported model has its tensors.
- `CHECK` returns of `forward_chunk` do not free `indices` and `scores`.

Tokenizer (`ds3_tokenizer.c`):

- Decoding no tokens is an error (937), so that an empty text does not come back.
- The branch for one digit advances one byte, and cuts digits outside ASCII in
  pieces, as far as the letter ranges do not hold them already. `\f`, `\v` and
  Unicode blanks are no white space to it.
- `chat_format` gives other ids than encoding the filled template when a part
  starts with white space that holds a newline, or holds the text of an added token.

## 4. Proofs

All theorems are about `Spec` for any values of the constants, under the named
assumptions of the modules (`None` is not a thread or connection; limits are
natural numbers; the daemon has a worker, line 2030, and a finite number of them).

`SessionTable`. `OneSessionPerId` or use after free alone are not inductive.
`Inv` adds who holds which mutex, read off the program counters: `TableOwner`
and `EngineOwner` (a thread is at a line that needs `sessions_mutex` or
`engine_mutex` exactly if it holds it), `SessionOwner` (a thread whose `ref` is a
session holds that session's mutex), `TableIsLive` (entries are allocated and
distinct), `ScanIndex` (loop variables stay in range while the table shrinks),
`IdStaysFree` (between its search and its append a create keeps the id free) and
`EngineStays`. Then:

- `TypeCorrect`, `Invariant`
- `NoHandlerUsesFreed`: whoever frees a session holds its mutex, and so nobody
  else works on it; whoever waits for it holds `sessions_mutex`, which a remover
  would need.
- `IdsAreUnique`, `TurnsAreAtomic`
- `EngineIsKept`: an action property, from `EngineOwner`.
- `LimitIsKept`: `Room` adds that a create past its test (`c_find`, `c_new`) has a
  place left, which `sessions_mutex`, kept from the test over the eviction and the
  replacement to the append, leaves to nobody else.
- `ProviderFollowsTable`: the provider is told of a creation under the new
  session's mutex and of a removal by whoever holds both mutexes. `RefIsNamed` adds
  that a worker's session has the id of its request.
- `Implements`: `Spec => ImplementsService`, for any number of clients.

The refinement maps a conversation to its session's history and the turn that is
answered but not appended yet. The mapping has two choices (of the entry with an
id, of the worker that owes a turn); `Mapped` states what they come to, since ids
are unique and a session's mutex has one owner, and the steps are then proved from
`Mapped` before and after. A request takes effect at one step: `create_session` at
the append to the table, `generate` when the engine is done, the edits when they
store, `close_session` when it removes or finds nothing, and everything that fails
or is not found at its answer. Evictions, replacements, the reaper's removals and
those of a model switch are `Drop`; all else stutters. `HistoriesAssumption` says
that the value for "no conversation" is not a history.

- `EvictionIsLeastRecent`, `RefusalMeansBusy`: `EvictionScan` says what the loop of
  `session_create` has seen so far. Of the sessions that were idle when it began
  none has been taken or freed, except the candidate, which the loop itself holds,
  and none it has passed was inactive for longer than the candidate. Others cannot
  take an idle one meanwhile because they would need `sessions_mutex`
  (`WorkerBystands`).
- `ReaperMissesNone`: `ReaperScan` says that no idle session at an index behind the
  reaper is expired. `session_remove_at` moves the last entry to the index that the
  reaper looks at next, never behind it.

`SessionTableProofs` proves the types action by action and the owners of the two
global mutexes, then what `session_remove_at` preserves (a swap with the last
entry), then the rest and at last the scans; `SessionTableRefinement` proves the
refinement.

`WorkQueue`. `Inv` relates the pointers to the history (`ListIsQueue`), says
where a connection is held (`HeldByMain`, `HeldByWorker`), that a connection is
queued once (`OrderIsFresh`), that room found is still there (`RoomStays`: only
main appends) and that a worker leaves only when nothing waits or will come
(`ExitIsFinal`). From it:

- `TypeCorrect`, `ListIsTheQueue`, `LimitHolds`, `EveryFdHasOneOwner`
- `ExitLeavesNothingOpen`
- `NoWakeupIsLost`: a worker between its test and `pthread_cond_wait` keeps
  `work_mutex`, so nothing is queued until it sleeps (`DozersAreAlone`); an append
  then wakes one sleeper, and as long as somebody is awake or on its way the queue
  will be looked at. It needs `Workers` to be finite only for the sequence of the
  awake to have an end.
- `Implements`: `Spec => ImplementsQueue`. `Enqueue` is `Admit`, `Drop` is
  `Refuse`, `Take` is `Start`, `Close` is `Finish`; all else stutters. The limit is
  a part of `ConnectionQueue`.

`EngineGenerate`, for any vocabulary, context, chunk size, number of planes,
slots and sessions. `AttentionIsExact` and `StoredIsExact` lean on each other (a
read brings stored units into the GPU cache, a write the other way), and both on
the control: `Progress` (where the generate is in the prompt and the context at
every `pc`), `PromptFits`, `FoundStays` (the slot that lookup found still has the
prefix or has lost everything), `KvLaidOut` (a slot has as many units as its
tokens need) and `LastIsExact` (the last token of a cached prompt, run again).
`Inv` is their conjunction. From it:

- `TypeCorrect`, `GenerateFitsContext`
- `AttendsExactly`: a forward pass over the next piece of a sequence continues an
  exact prefix (`ForwardIsExact`); a read of a whole clean slot is one
  (`CopyIsExact`).
- `StoresExactly`: a download of an exact prefix is laid out as `At` says
  (`DownloadIsLaidOut`, from `DivMod`).

`SlotsHaveOwners` has an invariant of its own, `SlotsApart`, about slots that no two
creates picked at once: a create has its slot for itself until it publishes it
(`PicksApart`), a slot in use is of an open session for which no create goes on
(`UsedAreOpen`), and no slot before it bears the same id, not even a free one
(`FirstOfItsId`), so that `local_find_session`, which takes the first, finds the one
that a close must release.

That a set of numbers has a least and a greatest element, which `First` and
`CachedPrefix` choose, is proved from the well-foundedness of `<`.

`KvService`, for any number of clients, ids, entries and blocks, and with every
fault of the service and its socket. `AnswersMatch` is not inductive: it needs to be known
that nobody else has been on the socket since the request was sent. `Inv` says
so in `Wire`: the request and the answer in the socket belong to the call that
holds `wake_mutex` (`SocketOwner`, `AnswerIsOurs`), and whoever is past its
`Lock` holds it (`WakeHasOwner`). For the table of entries, `SessionIsHeld` and
`ClosesAlone` say that the caller's mutexes keep the other calls for a session
out, and `EntriesAreAccountedFor` which entry may exist at which `pc`. From it
`Invariant`, `AnswersReachTheirCallers` and `EntriesAreGivenBack`.

What is read and stored needs `Data`, an invariant on top of `Inv`
(`DataInvariant`). It follows the data round: blocks of the index, reserved blocks
and free ones are apart (`BlocksAreApart`); an answer to `Lookup`, in the socket or
received, may have been overtaken by evictions, but those of its blocks that are
still in the index follow one another and hold the tokens it vouches for
(`LookupFits`), and an answer to `Allocate` names unused blocks, as many as were
asked for (`AnswersFit`); the entry that was filled is still this session's when it
is read (`EntryIsOurs`); what will be read from it is the prompt's KV
(`ReadIsReady`); what was read is (`HostIsExact`); the blocks are filled before they
are stored, chunk by chunk from the cached length (`WriteIsReady`, `StoreIsReady`).
The lemmas about the loops carry it: `SizedIs` and `FittingIs` for where blocks begin
and how many fit, `CellIsExact` for a read over several blocks, `LookupAnswerFits`,
`AllocatedAreFresh` and `StoreKeepsIndex` for the service, `CopyIsReady` for the
chunks. A request that is executed twice is harmless because `StoreFits` holds as
long as the call lasts, whether it was executed or not, and because a second
`Allocate` reserves other blocks. From it:

- `TypeCorrect`
- `ReadsAreExact`, `IndexStaysExact`: an earlier `IndexIsExact`, without `clean`, held
  on the run's instance; that it is false on larger ones showed when its proof
  failed at `FittingIs` (section 3, "Met while reading").

`Device`, for any number of layers, chunk size, context, vocabulary, prompts and
settings of the environment, and with any set of fused layers. What has to be known
is a fact about programs: `Leads(s, a, b)` says that the commands `s` take a batch
that is open (or not: `a`) to one that is (`b`), where no `begin` meets an open
batch and no `end`, `read`, `choose` or `sample` the wrong state (`Moves`). It
holds for kernels (`DispatchesLead`), for a piece after a piece (`LeadsOn`) and for
any number of layers that each close what they open (`LeadsThrough`, from the least
layer for which it fails). `MoeFfnLeads` is the piece that is easy to get wrong:
`ds3_metal_moe_ffn` closes the batch of its caller and opens another.
`GpuOnlyLeads`, `OverlapLeads`, `FallbackLeads` and `ChunkPostLeads` are the
schedules, `ProgramsPass` all forward passes: they also end with `sample`, and
nowhere else. `Inv` then follows a pass: it is one of those (`Typed`, `PassFits`:
the rows of the pass fit the scratch buffers and the context), `batch` is what the
pass says of its place (`BatchFollows`), a closed batch has no kernels
(`NothingLeft`), and between passes none is open (`ClosedWhenIdle`). `Dispatch`
encodes all the kernels that come next, and `AheadIs` says that another command
follows them. From it:

- `BatchesAreClosed`
- `HostAlwaysWaits`

That the passes are exact needs what a program computes, for any number of layers.
`DevicePasses` runs it without batches: a state has the buffers, the host's copy of
the choices, and whether a kernel of the batch may have to do with the lists of the
gathered experts (`used`), which the host writes in the middle of a batch. What
leads from a state to another (`Takes`) is put together as the programs are: each
kernel writes the rows it names and nothing else (`KernelTakes`, `AttendTakes`,
`RouterTakes`, `TopKTakes`), and between the pieces of a layer the rows hold terms
of the reference (`Entered`: what enters layer l, with the KV rows of the layers
before it; `Half`: the attention branch is done; `Ready`: the host has the choice).
`AttentionBranchTakes`, `RoutedTakes`, `TopKReadBackTakes`, the four kinds of
experts (`ChosenExpertsTake`, `FusedExpertsTake`, `ListedExpertsTake`, `MoeFfnTakes`)
and `SummedTakes` carry one into the next; `LayersTake` goes through the layers by
induction over a set of numbers (`ByInduction`, which needs no operator as a
parameter). `EarlierTokens` says that what enters a layer at a position depends on
the tokens up to it only, so that KV rows stay right as the text grows. `LayerIn` is
a recursive function: `LayerInIs` proves the equation that defines it from its
`CHOOSE`. The result is a theorem of its own:

- `ProgramsExact`

`DeviceExactness` puts the batches back. `Exact` says that the buffers, once the
encoded kernels have run (`Ran`), are those of the same program without batches at
the same command (`Now`). `begin`, `read`, `choose` and `sample` meet no encoded
kernel (`HostWaits`), so what the host reads there is what it should. `gather` does
write while kernels are encoded; they have nothing to do with its buffer, and so the
write may as well come after them (`RanApart`). A failure runs what was encoded and
leaves the pass somewhere in its program, where the KV rows of the text are still
there (`SafeKept`): a pass only writes at positions after them. From it:

- `ForwardsAreExact`: `ForwardIsExact` for every number of layers, chunk size,
  context, vocabulary, set of prompts, of fused layers and of schedules. Its
  hypothesis is `HasShared => UseShared`: without it two schedules leave the shared
  expert out and two do not (section 3, "Met while reading"). No supported model has
  a shared expert, and then the hypothesis holds.

Only model-checked:

- liveness (`EveryRequestAnswered` in the refinement of `service`,
  `EveryConnectionEnds`, `GenerateReturns`, the calls of `KvService` and
  `Connection`), which needs fairness and ENABLED;
- all of `Tokenizer`: its properties are about what recursive definitions compute for
  every text, which is induction over data;
- `AnswersMatch` and `PromptGoesOn` of `Connection`, whose text functions
  (`ChatText`) are RECURSIVE operators.

## 5. Plan and what is not modelled

Done: `SessionTable`, `SessionService`, `WorkQueue`, `ConnectionQueue`, `KvLocal`,
`EngineGenerate`, `KvService`, `ChatText`, `Connection`, `Device`, `Tokenizer`, their
runs, and the theorems above.

Left: the part of `Connection` that is no induction over data (that a prompt goes on
from what was seen), which needs its text functions written without RECURSIVE; a
composition of `Connection` with `SessionTable` for more than one session.

Not modelled, and why:

- the GGUF loader and the weights: one pass over a file at start, whose hazards are
  sizes and offsets of a file that is not there to enumerate;
- `ds3_engine_open` and `close`, and the debug comparison: allocation and release
  in sequence, and printing;
- the kernels' arithmetic: floating point;
- option parsing, the command line client, the vendored nanopb, the tests.
