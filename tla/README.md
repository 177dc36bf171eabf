# Verification of monosecret

Monosecret resolves declared secrets from about forty stores. Two things make it more
than a sequential program. Its IPC: a client starts an endpoint process (the resolver,
or an external provider) and both sides send requests, cancellations, callbacks and
responses over one byte stream, with deadlines, bounded queues and files that live
exactly as long as the client needs them. And its stores: several commands, threads and
other programs read and change the same secrets, caches and logs, most of them with
nothing but the order of a few calls to keep them consistent, and any call may fail or
the process end between two of them. These modules model both parts. In what follows
`server.rs`, `client.rs`, `lifecycle.rs`, `deadline.rs`, `blocking.rs` and the like are
under `crates/monosecret_rpc/src/`, everything else under `crates/monosecret/src/`.

## Inventory

| Component | State | Operations | Talks to | Hard behaviour | What makes it correct |
|---|---|---|---|---|---|
| RPC server session, `server.rs` | last seen ID, in-flight map, semaphore, join set, writer queue, `disconnected` | read a frame, discover, initialize, start/cancel a call, drain, tear down | application handler, peer, writer task | deadline, cancellation, result and teardown race for one response; a peer that stops reading | one response per call, a commit report only for written bytes, bounded handlers, cleanup last, `serve()` ends |
| Endpoint callbacks, `Peer` in `server.rs` | next ID, order lock, pending and abandoned callbacks | call, deliver, abandon | the client's reader task | neither side sees the other's tables, and the client closes the session over a disagreement | both sides agree on parents, order and number of callbacks |
| RPC client, `client.rs` | pending, abandoned, inbound callbacks, writer queue, session state | request, cancel, wait, drop, serve a callback, shut down | endpoint, callback handler | a late response after the caller gave up; a session that ends while callers enter it | each caller gets its own response or an error, nothing is sent twice |
| Deadlines, `deadline.rs` | none | conversions between wire milliseconds and instants | server, client, `Peer` | two clocks, rounding, a wall clock that is set | no deadline past the horizon, no callback that outlives its parent |
| Resolver session, `serve.rs` | lease table, pending leases, supporting files, session directory | get, set, delete, release, request_finished, shutdown, sweep | server session, `Secrets`, file system | a task may be aborted at every lock; a crash leaves files | a delivered path exists until released, nothing else is left |
| External providers, `provider/external.rs`, with `lifecycle.rs` | session in use, generation of the inputs, metadata, launch lock; child process, state, who reaps it | ensure a session, call, reconnect, change an input, drop; spawn, monitor, close, reap | client, operating system | a session that ends, is replaced or outdated while others use it | the right endpoint answers, nothing is replayed blindly, every child is reaped |
| Secret resolution, `secrets.rs` | provider cache, authentication cells, results of a pass | build, preflight, batch fetch, fall back, generate, store | providers, cache, audit | threads that share a failing build or probe; partial failure of a batch | the declared precedence decides, an outage is not absence |
| Retry and preflight, `provider/retry.rs`, `provider/preflight.rs` | attempts, cells | run, retry, forget | providers | shared results that fail | bounded attempts, one probe at a time |
| Cache, `cache.rs` and its users in `secrets.rs` | one entry per secret in a store shared by processes | look up, refresh, drop, clear | resolution | concurrent commands, failed steps, edits of the manifest, clocks | no superseded or expired value served, no neighbour's entry touched |
| Import and move, `secrets.rs` | a plan over source and destination entries | prepare, validate, copy, verify, delete | providers, cache | entries that coincide; failures and crashes between calls | no value is lost, a move can be repeated |
| Providers of documents: dotenv, age, kdbx, sops, DigitalOcean, Pulumi | one document with many secrets | set, delete | files, services | read-modify-write by several writers | neighbours survive, retries end |
| Providers of items: 28 more | items found by name | set, delete | services, command line tools | listing and creating are two calls; names that are not unique | one item per name, reads find the last value |
| Audit log, `audit.rs` | chained lines of a file | record, restart at the cap, verify | resolution, CLI | a cut line; threads; another program's edit | accidents do not look like tampering, tampering shows |
| Blocking client, `blocking.rs`; C client, `monosecret_ipc_resolver/src/session.c` | the client's tables | the client's operations with threads | endpoint | watchdogs, condition variables, the deadline inside a frame | as the client |
| Frame codec, wire types | bytes of a partial frame | read, write, parse | transport | cancellation inside a frame | round trips (tested) |
| Configuration, plan, `config.rs`, `plan.rs` | none | parse, inherit, merge, compile | resolution | cycles in inheritance | the nearest declaration wins |
| Read-only providers, CLI, derive, bindings, native interface | external | adapters | services, terminals, build | that of the services | out of scope |

The calls go downwards: a client starts an endpoint (`lifecycle.rs`), whose `serve()`
reads frames and gives each accepted request to a `run_call` task; that task runs the
application handler (`serve.rs` or a provider), hands its response to the writer task
and tells the application with `request_finished(id, committed)` whether the peer has
it. In the other direction a handler asks the client through `Peer::call`, and
`serve_callback` answers. Commands of the CLI and handlers of the resolver alike go
through `Secrets`, which builds providers (an external one starts an endpoint), asks
them in the order of the fallback chain, and keeps the cache and the audit log.

## Modules

| Module | Models | Depends on |
|---|---|---|
| `RpcServer` | `serve()`, `run_call`, `commit`, `commit_application_before`, the writer task | |
| `CallContract` | what a session promises its application: the abstract specification | |
| `RpcServerContract` | the refinement mapping from `RpcServer` to `CallContract` | both |
| `ResolverLeases` | `serve.rs`, an application on top of `CallContract` | `CallContract` |
| `RpcCallbacks` | `Peer` of `server.rs` and `serve_callback` of `client.rs`, with FIFO channels in between | |
| `Deadline` | `deadline.rs` along the path of a request and its callback | |
| `ExternalSessions` | `ExternalProvider`, `ChildSession` and the session state of `client.rs`, composed | |
| `ResolutionPass` | `ResolutionExecution` with `RetryingOnceMap`, `AuthCheckCache` and the retries, composed | |
| `SecretCache` | the cache envelope, and reads, writes and deletes on a cached route | |
| `ImportMove` | `ImportPlan` | |
| `StoreCommands` | what the two models of providers share: clients, calls, mishaps | |
| `DocumentStores` | six providers that replace a whole document | `StoreCommands` |
| `ItemStores` | 28 providers that find an item by name | `StoreCommands` |
| `AuditLog` | `AuditLogger`, `JsonlSink`, `verify_chain` | |
| `RpcServerProofs` | theorems about `RpcServer` and the refinement | `RpcServerContract` |
| `RpcCallbacksProofs` | theorems about callbacks, their deadlines, and what the calls around them leave behind | `RpcCallbacks`, `Deadline`, `ResolverLeases` |
| `ItemStoresProofs` | theorems about both kinds of providers | `ItemStores`, `DocumentStores` |
| `ExternalSessionsProofs`, `ResolutionPassProofs`, `SecretCacheProofs`, `ImportMoveProofs`, `AuditLogProofs` | theorems about the module named | that module |
| `MC*` | instances for TLC | |

### RpcServer

A step is what one task does between two accesses to shared state. `loop` is the
program counter of `serve()`: `select`, `reading`, `initializing`, `sending` and
`awaiting` (a response the loop commits itself), then `teardown`, `aborting`,
`releasing`, `closing`, `done`. `task[id]` is that of `run_call`: `running`, then
`respond`/`send`/`committing` for a handler that returned, or `terminal` and `late`
for one that was interrupted and goes on running after its request was answered.
`slots` are the semaphore's permits, which a queued `WriterCommand` may carry;
`acks` and `replyAck` are the oneshot channels on which the writer reports. The peer
is the environment: each frame it may send is a choice of `ReadFrame`, and the writer
may fail at any frame. Deadlines are instants that pass: `Expire(id)` at any time.
Payloads are reduced to kinds (`app`, `replaced` for an outcome that could not be
encoded or did not fit, `cancelled`, `deadline`, `oob`, `shutdown`).

### CallContract and its refinement

The application knows of a call only that its handler is entered, that its token is
cancelled, and what `request_finished` says. The contract states when each may
happen: a report `committed` follows the delivery of the last byte, and a response
may reach the peer after the session took it back only if the transport is given up
as well. `RpcServerContract` maps the states of `run_call` to the contract's phases;
every step of `RpcServer` is a step of the contract or a stutter, which TLC checks on an
instance and `RpcServerProofs` proves for all of them.

### ResolverLeases

Each handler step is conjoined with the contract's step that it is part of, so the
resolver is checked against every session that keeps the contract. Every `await` on a
mutex separates two steps; a call may be aborted there (`CallLost`). A lease has the
name of the call that created it, because tokens are random and are not reused.
`Crash` ends the process and keeps the directory; `Sweep` is a later resolver.
Resolution itself is a choice between failing, a value and a file, with up to
`PerSecret` supporting files. `set` and `delete` do not touch this state.

### RpcCallbacks

Both halves with the tables each side really has. The endpoint's writer queue and the
stream behind it are one bounded channel, because their order is the same. `habits`,
chosen once, says what the application code around the session does: whether handlers make
callbacks on tasks of their own (if not, a callback shares the task of `run_call`, nothing
runs between its cancellation check and its send, and none is open when the handler
returns), whether the client's callers drop calls or let deadlines pass, whether its
callback handler may panic, and whether a clock moves while a callback's deadline is
derived from its parent's (`drifts`: then the derived one may be late, and the client
refuses the callback and closes the session, `client.rs:746-748`). A passed deadline and a
cancelled token are one event (`Expires`): `Peer::call` treats them alike. The session is
initialized; `failed` records why a side closed it.

### Deadline

Ticks are finer than milliseconds, so that rounding shows. The two clocks advance
together, the wall clock may be set, and each conversion is two steps because it reads
one clock after the other. `Tick` and `Adjust` are the environment.

### ExternalSessions

`pc[c]` is where a thread of the host is in `call`, `ensure_session`, `live_session` or
`launch_session`; `ext` is `ExternalState`, `launch` the lock under which endpoints are
started, and `ses[n]` joins what `lifecycle.rs` and `client.rs` know of one endpoint: its
child, whether its reader still runs, the atomic session state and who cleans it up. A
setter bumps the generation (`invalidate`); a startup that was overtaken is thrown away.
A record is reused once the child is reaped, so `MaxEndpoints` bounds the endpoints that
exist at one time and not those ever started. `Detached` covers both runtimes of
`run_to_completion_or_detach`. What an endpoint says of itself is a member of `Metas`.

### ResolutionPass

A thread is the fetch of a primary group, the walk of one secret along its fallback
chain (`Width` at a time) or the writer of a generated value. A slot of
`RetryingOnceMap` and a cell of `AuthCheckCache` live on after their removal from the
map, for the threads that hold them; that is where the races are. A provider call
passes through its slot, its cell and the retry loop; builds, probes and calls fail,
retryably or not, up to `MaxFaults` times. `holds` says who has which secret.

### SecretCache

One secret, its authoritative stores in order and the one address of its cache entry.
Every provider call is one step, so two commands interleave between any two. The
envelope has its version, owner, expiry, `max_age` and fingerprint; values are numbers,
one per write. `taint` is history: it names each way in which the code, by its own
comments, lets an entry be superseded (a warning, a crash before the drop, an outage, a
race with a refresh), so that everything else is an error. `Outside`, `Neighbour` and
`Reconfigure` are other programs, other projects and edits of the manifest.

### ImportMove

A cell is one physical entry; a layout says which cells are sources and destinations,
coinciding ones included. Preparation, validation, copies, cache synchronisation,
verification and deletion are the points of the plan; every provider call may fail with
or without effect or leave a damaged value. Commands follow one another, with and
without `--delete-source`.

### DocumentStores and ItemStores

`kind` is chosen once and selects the provider. A document is read, edited and replaced;
`Rivals` are the clients a provider's lock excludes, `Current` the revision condition of
the remote ones, `left` the attempts of their retry loop. Of an item provider the model
has the order of its calls and what each call decides: which item a name stands for when
there are several, whether the service keeps names unique, whether an item is saved as a
whole, whether a delete looks first. `possible` is history: the values a read may find.
Answers get lost, commands fail, processes die, other programs write in between. `vault`
stands for OpenBao too; both are `vault_common.rs`.

### AuditLog

A line is written in two calls, text and newline, under the lock of `last_hash`. The
digest of an event is the sequence of events it commits to, which makes digests of
different chains different. A process ends at any point and a later one continues from
the last line of the file; the file is restarted at its cap. One process at a time
writes (`concepts/audit.md`), threads of it share the logger.

## Runs

`rpc_server` is `tlc -config MCRpcServer.cfg RpcServerContract`; `deadline` and
`audit_log` likewise take the component's own module, the others their `MC` module.
Times are for two workers with `-coverage 60`.

| Run | Checks | Instance | States, time |
|---|---|---|---|
| `rpc_server` | `TypeOK`, `HandlersBounded`, `OneTerminal`, `CommittedWasWritten`, `DrainPreservesWork`, `ImplementsContract`, `SessionEnds`, `AnsweredOrEnded` | 3 IDs, 1 permit, 2 queue slots, every frame a peer can send | 0.4 M, 135 s |
| `rpc_callbacks` | `OnlyParentsDisagree`, `ActiveOwnPermits`, `PatientSessionsLast`, `MarkersAwaitAnswers` | 2 requests, limit 2, 2 callbacks (3 of detached tasks), patient and unrestrained applications, with clocks that move and that do not | 2.5 M, 210 s |
| `resolver_leases` | `GivenPathsExist`, `SettledCalls`, `ReleasedMeansEmpty` | 3 calls, 2 at a time, room for 1 lease and 1 file | 0.6 M, 60 s |
| `deadline` | `HorizonHolds` | 3 ticks per ms, horizon 2 ms, 12 ticks | 1.0 M, 20 s |
| `external_sessions` | `RightEndpoint`, `NotReplayed`, `NoOrphans`, `HealthySessionsStay` | 2 threads, 2 endpoints at a time, 1 change of inputs | 2.0 M, 170 s |
| `external_sessions_eof` | `EofEndsSession` | the same | violated |
| `resolution_pass` | `ProbesShared`, `RequestsBounded`, `ChainDecides`, `PassEnds` | 3 secrets, 3 providers, 2 of one account, 3 failures | 0.2 M, 90 s |
| `secret_cache` | `CacheServesCurrent`, `ServedBeforeExpiry`, `ServedWithinMaxAge`, `NeighboursKept`, `GeneratesOnlyMissing` | 2 commands, 2 stores, 3 manifests, `max_age` of 1 and 2 s, 2 writes, 1 mishap | 4.3 M, 230 s |
| `import_move` | `NoValueLost`, `SuccessMeansMoved`, `CacheFollowsDestination`, `RepeatedMovesSettle` | 2 secrets, 8 layouts of 4 cells, 2 mishaps | 0.8 M, 90 s |
| `documents` | `OwnWritesVisible`, `NeighboursSurvive`, `CallsEnd` | 2 clients in 2 processes (kdbx also in 1), 2 keys, 3 calls, 1 mishap | 0.4 M, 55 s |
| `items` | `NoDuplicates`, `ReadsAreCurrent` | 28 kinds, 2 clients, 2 fields, 4 calls, 2 mishaps | 1.8 M, 110 s |
| `audit_log` | `AccidentsCostTwo`, `TamperingShows` | 2 threads, cap of 4 lines, 7 events, 4 mishaps | 0.7 M, 30 s |

What holds, and what it shows:

* `rpc_server`: whatever the peer sends and wherever the handler is, a call is answered
  once, `committed` means written, `serve()` returns though handlers hang and the peer
  reads nothing, and only a peer that does not read can put an answer off beyond its
  deadline. A drain that ends in time has delivered every response before its own.
* `rpc_callbacks`: the client's bookkeeping and the endpoint's agree on order, number
  and answers in every interleaving. A session is lost in two ways (`OnlyParentsDisagree`):
  over a callback whose parent has ended, which needs a handler that makes callbacks on
  tasks of its own or a caller that gives up, and over a callback whose derived deadline
  came out later than its parent's, which needs nothing but a clock that moves at the
  wrong moment and so can happen to every application (`PatientSessionsLast`).
  With more callbacks than permits the endpoint never exceeds the client's limit, also
  when callbacks are abandoned and handlers panic.
* `resolver_leases`: no path is taken from a client that holds it; cancelled, expired
  and aborted calls leave nothing.
* `external_sessions`: reconnecting never mixes up endpoints or generations, never
  repeats a request whose fate is unknown and never forgets a child.
* `resolution_pass`: failures of builds and probes reach those who wait and nobody
  after them; an outage is never taken for a missing secret; no thread waits forever.
* `secret_cache`: beside the exceptions the code names, no read is served from an entry
  that a write, delete or edit of the manifest has made wrong, expiry is exact to the
  last millisecond of a second, foreign entries stay.
  Nothing is served outside the `max_age` seconds after it was encoded, though that time
  is not in the envelope, a provider's expiry may have brought its end forward, and the
  manifest's `max_age` may have changed in between.
* `import_move`: no order of failures, crashes and coinciding entries loses a value.
* `documents`: for each provider, a set or a delete spoils a neighbour only in a race
  that its locks or revisions do not exclude.
* `items`: only calls that overlap leave a name with several items, and a `get` or
  `get_many` finds the last value stored, or is refused. The exception is a batch read of
  `bws` or 1Password after such a race (`BatchMisses`).
* `audit_log`: an unfinished line costs at most two reported breaks; an edit shows.

### The violated run

`external_sessions_eof`: `connect_with_callbacks` ends with an unconditional
`state.store(READY)` (`client.rs:355`). When the endpoint's output ends after its answer
to `initialize` and before that store, the reader's `CLOSED` is overwritten and the
session stays in use without a reader, against `ipc-architecture.mdx:187-188`.

### Bounds

* `RpcServer`: three IDs are an initialize request, a call and a shutdown, or two calls
  of which the second finds no permit, in each order and with each refusal. The writer
  queue has two slots where the code has `max_in_flight + 2`, so that it is full in many
  states; the theorems cover every number of IDs, permits and slots.
* `ResolverLeases`: a table for one lease, two calls at a time and a third after them
  make the table full while another get is between two locks.
* `RpcCallbacks`: two parents and two callers with a limit of two reach the limit with one
  callback abandoned; that the limit is not exceeded needs a third caller, which detached
  tasks with a patient client have (`MCCallbacks`). `MaxAbandoned` (four times
  `MAX_IN_FLIGHT` in the code) is larger than the limit and never reached: permits bound
  the markers. Habits are permissions, so the application with all of them does what any
  other does; those with fewer are there for what the properties say of them. Symmetry is
  used with invariants only.
* `Deadline`: three ticks to a millisecond tell rounding down, up and exact apart.
* `ExternalSessions`: two threads make a second one meet a closed session, a launch in
  progress and a replaced session; one permit makes it wait for the semaphore.
* `ResolutionPass`: two providers of one account share a cell; chains of three have a
  fallback of a fallback; three failures exhaust a retry and fail once more.
* `SecretCache`: two commands, because a race needs two; one mishap on top of it. The
  clock passes the smaller `max_age` of a refreshed entry and both of an old one, and an
  edit of the manifest lowers the `max_age` of an entry made under the larger.
* `ImportMove`: two secrets give every way in which entries can coincide; two mishaps
  interrupt a move and its repetition. Values are interchangeable, so the first source
  starts empty or with `v1`; to keep the run short so does the last destination.
* `DocumentStores`, `ItemStores`: two clients and one outside writer; three or four calls
  reach a call after a race. The clients are of one user, for the file that sops locks is
  in the user's cache directory (`sops/mod.rs:485-492`): another user's client is one of
  the outside writers. Only the lock of kdbx tells threads of a process from those of
  another, so only its run has two threads of one. `MaxWriteAttempts` is 2 (3 in the code)
  so that the last attempt is reached.
* `AuditLog`: four lines under the cap and seven events restart the file with mishaps
  before and after.

### Fairness

`Fairness` of `RpcServer`: each wait of `serve()` is bounded by `COMMIT_TIMEOUT`,
`startup_timeout` or a deadline, and the executor polls every ready task, so the serve
task is weakly fair, and so are the steps and deadlines of the calls together (a call
takes finitely many steps, so no call can starve another); the writer task is
aborted after its timeout when `serve()` closes. Nothing is assumed of a handler or of
the peer, not even that a write ends. `AnsweredOrEnded` allows for a peer that does not
read: the read loop gives up on a response after `COMMIT_TIMEOUT` but leaves it in the
queue, such responses can fill the queue of a peer that sends and does not read, and
`send_terminal` then waits without a deadline.

`ResolutionPass`: every thread of the pass keeps running, as operating system threads
do. `ImportMove`: the command keeps running; `RepeatedMovesSettle` has as its premise
that moves are started again and again. `DocumentStores`: a call that can take a step
takes one (calls are finitely many); outside writers and mishaps are bounded and need
not happen. The other runs check safety only.

## Known disagreements

Found while modelling, and described here because the properties above are stated so
that they hold of the code as it is.

* Shutdown deadline (`server.rs:679-698`): when it passes, the remaining call tasks are
  aborted without an answer and the shutdown response is still written;
  `ipc-wire.mdx:433-435` promises a terminal response to every accepted request unless
  the transport disconnects. `DrainPreservesWork` excludes the passed deadline.
* Detached callback (`server.rs:212-223`, `1181-1184`): a callback on a task of its own
  can pass its cancellation check, lose the race to its parent's response and be queued
  behind it; the client then closes the session.
* Derived deadline (`deadline.rs:12`, `67`): remaining time and wall clock are read one
  after the other; a millisecond boundary in between makes a callback's deadline later
  than its parent's, and the client closes the session over it (`client.rs:746-748`);
  the comment at `deadline.rs:62-64` says that it is never later.
  `PromptlyDerivedIsNotLater`, which is proved, excludes the time in between, and
  `RpcCallbacks` has what follows from it (`drifts`).
* Sweep (`serve.rs:312`, `334`, `681`): a lease file is in the directory before the
  table is checked for room, so a crash can leave one file more than the sweep accepts.
* Supporting files (`serve.rs:453-461`, `572-578`): `request_finished` moves files
  between two tables under two locks; in between a concurrent `get` counts them nowhere.
* Fingerprint of an inline cached alias (`plan.rs:839-853`): it is empty, so a change of
  the inline URI keeps serving the old entry; `caching.md:128-129` says otherwise. The
  configurations of `secret_cache` are named aliases with fallback entries.
* Expiry of version-2 entries: served at an age equal to `max_age`
  (`resolver-protocol.mdx:369-371`); later versions are not.
* A move into `bws` verifies the copies against the listing made before them
  (`provider/bws.rs`, `ensure_secrets`): the layout that `lists` is checked as the code
  is: the move reports failure instead of deleting, and running it again succeeds.
* Two items of one name: `set` and `get` of `bws` and 1Password use the first, `get_many`
  collects into a map and returns the last (`provider/bws.rs:416-420`), so after a race a
  batch read does not see what a later, acknowledged `set` stored until one item is gone.
  `ReadsAreCurrent` excludes these reads by `BatchMisses`. A read stands for an instance
  that lists anew: `bws` keeps its listing.
* Pulumi's `set_async` skips its check of `attempts_left` in the round that creates the
  environment: created in the last round, the next one computes 0 - 1. The model wraps
  as a release build does (`Spend`); calls end nevertheless (`CallsEnd`).
* `RetryingOnceMap::get_or_try_init` (`secrets.rs:1402-1404`): a slot removed after a
  failure can still be initialised by a thread that holds it while another builds the
  same key in a new slot. Both are used; nothing is lost but the sharing.
* Audit (`audit.rs`): a comment says the log never contains a partially written entry;
  text and newline are separate writes and either may fail. `AccidentsCostTwo` counts
  what that costs.
* A delete's claim of the cache entry races a refresh in flight; entries that an import
  finds already equal are not read again before the source is deleted; of two secrets
  with one source the second reports its source missing.
* External providers: the slot for a credential error is shared by concurrent
  operations; a writer that fails with `EPIPE` can discard an answer already buffered;
  `with_base_dir` does not bump the generation.

## Proofs

Each theorem module defines an inductive invariant, proves that it holds initially and
is kept by every action, and derives the properties from it; the last step of each
theorem is propositional temporal logic. All constants are arbitrary, up to the named
`ASSUME`s of the modules, which say that bounds are natural numbers (positive where the
code's are), that sets are finite or not empty where the code has finitely many or at
least one, and that special values are not among the ordinary ones.

| Module | Theorems | Assumption |
|---|---|---|
| `RpcServerProofs` | `TypeCorrect`, `Invariance`, `HandlersAreBounded`, `TerminalsAreUnique`, `CommitsAreWritten`, `ReleaseIsLast`, `DrainInvariance`, `DrainKeepsWork`; `RefInvariance`, `Refinement` | `BoundsAssumption` |
| `RpcCallbacksProofs` | `TypeCorrect`, `Invariance`, `SidesAgree`, `PatientSessions`, `SlotsOwnPermits`, `MarkersAreTemporary` | `CallbackAssumption` |
| `RpcCallbacksProofs`, of `Deadline` | `ClockTypeCorrect`, `ClockInvariance`, `HorizonIsKept`, `PromptDerivation` | `DeadlineAssumption` |
| `RpcCallbacksProofs`, of `ResolverLeases` | `LeaseTypeCorrect`, `LeaseInvariance`, `GivenPathsStay`, `CallsSettle`, `ReleaseEmpties` | `ResolverAssumption` |
| `ExternalSessionsProofs` | `TypeCorrect`, `Invariance`, `RequestsReachTheRightEndpoint`, `NoReplay`, `EndpointsAreOwned`, `OnlySettersDetach` | `SizesAssumption` |
| `ResolutionPassProofs` | `TypeCorrect`, `Invariance`, `ProbesAreShared`, `RequestsAreBounded`, `ChainsDecide` | `PassAssumption` |
| `SecretCacheProofs` | `TypeCorrect`, `Invariance`, `ServesCurrent`, `ServesBeforeExpiry`, `ServesWithinMaxAge`, `KeepsNeighbours`, `GeneratesMissing` | `CacheAssumption` |
| `ImportMoveProofs` | `TypeCorrect`, `Invariance`, `MovesLoseNothing`, `SuccessIsReal`, `CachesFollow` | `ImportAssumption` |
| `ItemStoresProofs` | `TypeCorrect`, `Invariance`, `NamesStayUnambiguous`, `ReadsStayCurrent` | `ItemAssumption`, `CommandAssumption` |
| `ItemStoresProofs`, of `DocumentStores` | `DocumentTypeCorrect`, `DocumentInvariance`, `OwnWritesStayVisible`, `NeighboursAreSpared` | `DocumentAssumption`, `CommandAssumption` |
| `AuditLogProofs` | `Invariance`, `AccidentsAreCheap`, `TamperingIsReported` | `AuditAssumption` |

Three of the modules have specifications under names of their own (`DeadlineSpec`,
`LeasesSpec`, `DocumentSpec`), so that a module of proofs can extend them beside another
one. Every theorem is about one of the specifications; none assumes two of them together.

None of the properties is inductive. What each lacks:

**RpcServer.** `Inv` conjoins

* `SeenInv`: an accepted ID is at most `lastSeen`, so no ID is accepted twice. Without
  it a second acceptance would reset a call's counters.
* `SlotInv`: a call whose handler runs owns a permit, permits are at most
  `MaxInFlight`, and a permit that travels with a frame belongs to a call that has
  returned, so that writing the frame frees no running handler's permit.
* `TerminalInv`: a call in `Unanswered` has handed over nothing.
* `CommitInv`: a frame a call waits for carries that call's own response, a positive
  acknowledgement means the frame is in `written`, hence a commit report does.
* `ReleaseInv`: after the join nothing is live, and the one response committed after it
  is that to `rpc.shutdown`, which leads to `closing` and back to nothing.

`handler.shutdown()` runs only when no handler does (`ReleaseIsLast`). For
`DrainPreservesWork`, `DrainInv` adds that the response to `rpc.shutdown` is the last
frame of the queue and that, as long as the writer runs, the response of every call that
handed one over is in the queue, with the writer or written. The proof splits `Next` into steps
that leave the invariant's variables alone, the moves of one call and the few steps of
the loop and the writer, and treats each conjunct in a lemma of its own.

**The refinement.** `Refinement` states `Spec => ImplementsContract`. Under the mapping
most actions of the session are stutters; the others are one contract step each. Three
facts are needed beyond `Inv`: the in-flight map is the set of unfinished calls and a
report is made in the step that ends a call (`TableInv`); a response has one
acknowledgement and one frame (`AckInv`); a response still to be written belongs to a
call that waits for it or to one that was given up together with the session
(`DeliveryInv`). The last one is the reason a call reported uncommitted is not delivered
afterwards on a session that lives on.

**Deadline.** `HorizonInv` and `PromptInv` follow a deadline through its two
conversions. The two roundings can lose or gain one millisecond in all; the invariant
says who still has it to spend, and after a prompt derivation nobody does.

**ResolverLeases.** `CallInv` relates the place of a call, its lease in one of the two
tables and its file: an inserted lease has a file, a pending one has a call that is still
to be reported, a given one is in the table until it is released. `ReleasedInv` and
`CrashedInv` say what is left after the end of the session and of the process.

**RpcCallbacks.** Each side's tables are determined by what travels: callbacks are in the
channel in the order of their IDs and behind the last one the client saw (`OrderInv`), an
answer is on its way or in the table of answers at most once (`AnswerInv`), and the
endpoint expects an answer exactly for the callbacks under way (`ExpectInv`). From this a
disagreement can only be about a parent, or about a deadline that was derived while a
clock moved (`LateInv`). `PermitInv` and `ActiveInv` count the permits;
`PatientInv` is the stronger order of a session whose application has no bad habits: no
callback is behind the response of its parent.

**ExternalSessions.** From its second look at the session to the publication of a
new one a thread holds the launch lock (`LaunchInv`), so that nobody else publishes
(`EmptyInv`); an endpoint being started belongs to that thread alone (`StartInv`). The
session in use was initialized with the inputs in force (`UseInv`), and the one a thread
sends to with those in force when its operation began, or later ones (`EndpointInv`).
`PendingInv` and `LostInv` separate a request that never left from one whose
fate is unknown; only the first is repeated. `HealthySessionsStay` is an action property:
only a change of inputs or the drop of the provider takes a session from use that has
not ended.

**ImportMove.** The plan remembers what was true when it was made (`PlanInv`): for each
entry where the source's value is, what the destination holds, which copies were made and
which sources are gone. Two lemmas carry the argument: a copy meets an empty cell
(`CopyMeetsNothing`), and a source that is deleted is no entry's destination and its value
is in its own destination (`DeleteSpares`).

**ResolutionPass.** `CellInv` says that an authentication scope has one cell in the map
and that a cell leaves it only with a failure, before the first caller returns that
failure; a prober is alone with its cell (`ProbeInv`). `RequestInv` counts: one request
per attempt, and no further probe once the scope is known to be healthy, which is what
bounds the requests of a call whose probe was retried. For `ChainDecides` the phases are
joined one after the other (`PhaseInv`), what is known of a primary is what it held or
that it failed (`GroupInv`), and a walk passes over a fallback that has the value only if
that one failed, and remembers so (`WalkInv`); `OutcomeInv` ties the decision to it.
`SlotInv` is what the map of builds needs.

**SecretCache.** `Sound` is what a command in flight may rely on. `Knows`: unless a change
has made it `old`, what it read of the sources so far is what they hold, and the value it
carries is what the route answers. `Carries`: no store holds that version with another
expiry. `Asked`: before it overwrites or removes, it saw an address that was not refused,
or none that it could read, and time makes nobody's entry somebody else's. `Route` is the
order of the steps, in particular that a command which changed a store is not done before
it has dealt with the entry. `Current` then says of an entry of ours: it is of the sources
in its fingerprint and has their answer, or `taint` or a command in flight says why not; a
change of a store makes every other command that has read of it old and leaves the one
that made it in flight or a reason behind. `Dated` has the expiry of the entry's value and
that the entry goes before it; `Timed` that it ends at most `max_age` after it was
encoded, by which the reconstructed time cannot be later than the true one. The five
properties are action properties and follow from the state before the step (`EntryChanges`
for `NeighboursKept`: only a refresh or a removal changes the entry).

**ItemStores.** `LookInv`: what a call saw is what there is, unless another call overlapped
it, and `OverlapInv` that overlaps are remembered by both. `CurrentInv` is the property
with every call still open: an item that a read may pick holds only `possible` values,
`Shown` being the first item, the last (Proton Pass) or any; `get` and `get_many` both
answer from a shown item, except where `BatchMisses` says not. Proton Pass replaces the item
it found by a new one, so its case needs `FreshInv`: ids are not used twice, hence the item
a call found stays the first as long as it is there. `KindInv` separates the providers.

**DocumentStores.** `ClientInv` says of a client between its read and its write: if its
revision is the newest, the document is the one it read; if no rival wrote meanwhile,
its copy is the document; two rivals never hold the lock together. Steps are classified
by what they do to the document (nothing, replace it, change it from outside), so that
each of the six providers contributes one case.

**AuditLog.** Between its number and its newline an event has the lock (`LockInv`). In a
log that nobody edited digests commit to different events and lines of older releases come
first (`ChainInv`), so a later line cannot be taken for the predecessor of another.
`AccidentsCostTwo` becomes inductive with a debt: `Owed` counts the breaks that the lines
left unfinished can still cause, and breaks and debt together are at most two per
unfinished line (`DebtInv`). `verify_chain` is stated by the last entry before a line; that
there is one is the least-number principle, so no induction over the file is needed.
`ShowsInv`: a change that the chain commits to has left a break, which no later line mends.

Only model-checked: liveness, `SessionEnds`, `AnsweredOrEnded`, `PassEnds`,
`RepeatedMovesSettle` and `CallsEnd`. Fairness and `ENABLED` are out of the prover's reach.

## Not modelled

* Contents: frames, secrets, parsing and validation of the wire types, the configuration
  and its inheritance, the compilation of a plan, composed and typed values, generators.
  They are sequential functions without state; they make up most of the lines of
  `config.rs`, `plan.rs`, `typed.rs` and of each provider (command lines, HTTP requests,
  parsing of answers, URIs), which is why the map covers a small share of the sources.
* The prompt channel between the blocking worker and the handler (`serve.rs:706-790`),
  the replacement of the callback semaphore at initialize (`server.rs:551-560`), a
  future of `Peer::call` dropped while its frame is queued (`server.rs:233`), the bound
  on abandoned requests of the client.
* `blocking.rs` (one call at a time over blocking pipes, a watchdog thread that kills
  the child at the deadline) and the C client (threads, mutexes and condition variables).
* Vault's login tokens: their uses and leases, and the pool a batch read shares.
* Providers that only read, the command line, derive macro, bindings and the native
  interface. Memory erasure (`Zeroizing`) is a property of memory.

## Plan

Done: all modules above, and a proof of every safety property that a run checks. What
would come next:

1. `KvSession` (`provider/vault_common.rs`): the token pool with uses and leases.
2. `session.c` and `blocking.rs` as further implementations of a client's call.
3. Inheritance and plan as functions against a reference definition.
