# Verification of the services MarrowScript generates

MarrowScript is a compiler: `src/compiler/src` reads `.marrow` files and emits a
TypeScript service (Express, `pg` or SQLite, WebSockets, model providers). What is
hard to get right, and hard to test, is mostly the *emitted* program: transactions
on pooled connections, a transactional outbox with background workers, a migration
ledger, flows that wait for people, sagas that compensate, batches, prompts with
retries and budgets, channels over several instances. The templates in the
`emit_*.ts` files are that program's source, and most modules here are translated
from them; one follows the compiler itself over a program that its author edits.
Line numbers below refer to `src/compiler/src/`.

Contents: 1 the system · 2 the modules · 3 what is checked · 4 bounds · 5 fairness
· 6 what is proved · 7 disagreements between code and docs · 8 not modelled ·
9 the plan · 10 how to run it.

## 1. The system

### Components, state, operations

| component | source | state | operations |
| --- | --- | --- | --- |
| durable event bus | `emit_events.ts` | tables `event_outbox`, `event_processed`; in-memory subscribers; an interval timer | `publish(event)`, `publish(event, client)`, `subscribe`, `flush()` |
| migration runner | `emit_runtime.ts` 860-1020, `emitter.ts`, `emit_full.ts`, `cli.ts` `runDiff` | the database schema, `schema_migrations`; the source and the files of `migrations/_manual` | `migrate()`, `marrowc compile`, `marrowc diff --write` |
| capability routes | `emit_runtime.ts` 107-127, 520-632, 770-783, `emit_capability.ts` | the `pg` pool (20 clients), the entity tables, the outbox | `POST /<entity>s/<capability>`: fetch, preconditions, effects, event, response, retry, timeout |
| flow checkpoints | `emit_checkpoint.ts` | tables `flow_runs`, `flow_run_checkpoints`; the map `__pending` of awaiters with their timers | `startFlowRun`, `pauseFlowRun`, `awaitDecision`, `submitDecision`, `markRun*`, `POST /flow_runs/:id/checkpoint/:name` |
| saga flows | `emit_extras.ts` 150-235 | nothing persisted: `completed`, `compensated` of one call | `executeFlow()` |
| batch executor | `emit_batch.ts` | a queue per capability and the promises of its items, in memory; an interval; one transaction per flush | `enqueueBatch`, `flushBatch` |
| prompt callers | `emit_cognition.ts`, `emit_provider.ts`, `emit_repair.ts` | of one invocation: attempt, tier and model, tool calls | route, look up, call, retry, escalate, repair, fall back, bounded tool loop |
| cost budgets | `emit_budget.ts`, `emit_budget_runtime.ts` | a tracker per trace; counters per window | `assertCanSpend`, `charge`; `assertWithinBudget`, `chargeBudget` |
| caches | `emit_cache.ts`, `emit_semantic_cache.ts` | entries with an expiry | get, put, purge |
| loops and pipelines | `emit_loops.ts`, `emit_composition.ts` | iteration state, best candidate | bounded iteration, sequential and parallel steps |
| CRUD and state machine routes | `emit_runtime.ts` 371-420, 639-670 | the rows of an entity, a state column | POST, `PUT` with a transition check, DELETE |
| SQLite target | `emit_sqlite.ts` | one connection for all requests, and its transaction | `query`, the client of `connect()`, `migrate` |
| WebSocket channels | `emit_websocket.ts` | connections and histories of a process, its two connections to Redis | connect, publish, broadcast, relay, leave |
| `marrowc compile` | `parser.ts`, `module_loader.ts`, `typechecker.ts`, `lowering.ts`, `optimizer.ts`, `verifier.ts`, `emit_full.ts`, `emit_extensions.ts`, `cli.ts` | `output/migrations`, the author's code in `src/extensions.ts` | load with recovery, check, lower, optimize, verify, emit |

`PROJECT.json` lists every component, modelled or not, with the reason.

### How they interact

- A capability route runs its effects and the outbox INSERT against the same
  database. `publish(event, client)` puts the INSERT in the route's transaction, so
  the bus sees an event only if that transaction commits (`PublishInTransaction`,
  `CallerEnds`). The route's own effects go through `query()`, that is through
  *another* client of the pool, which is what most of `CapabilityRoute` is about.
- `flush()` of the bus calls subscriber callbacks inside its own transaction. The
  callbacks act outside of it, so their effects survive its rollback.
- A saga calls capability routes of a service by HTTP and knows of their outcome
  only the response.
- The decision route and the flow runner share a database row, a map in memory and
  a timer, and no lock.
- `migrate()` processes meet only in the database; the compiler and
  `marrowc diff` decide what a block is.
- Batched routes wait for promises that the callbacks of an interval settle;
  callbacks overlap and share the pool with everybody else.
- Invocations of prompts share the cache, and a tracker if their caller passes one.
- On the SQLite target all requests and batch flushes share one transaction, whoever began it.
- Instances of a channel meet in Redis only; each has a history of its own.
- Compiles meet in the files that the previous one left behind.

### What is hard

1. Connections and transactions are separate things: `release()` does not end a
   transaction and `query()` does not join one.
2. Work is done before the commit that records it (handlers before COMMIT,
   responses before COMMIT, effects before the event).
3. Overlapping workers without leader election (interval ticks, replicas, two
   deployments that migrate).
4. Races between a timer, a request and a runner that waits.
5. Calls whose outcome the caller cannot know.
6. Retries of work that has partly been done.
7. Checks that reserve nothing (budgets, preconditions), used after an `await`.
8. Two paths for one message (local broadcast and Redis).
9. Stages that go on after an earlier one has reported errors.

`PROJECT.json` "hazards" lists each at its line, with the property that covers it.

### What makes each component correct

- Bus: delivered means handled; an event that was never committed is never handled;
  every committed event is settled; handlers run again only for a reason that can be
  counted, which flushes that overlap are not.
- Migrations: a block takes effect exactly once, together with its ledger row;
  what the ledger says is true of the schema; success means the declared schema
  is there; what a dead run leaves behind does not block a rerun.
- Routes: no client of the pool is lost and no transaction is left open on an
  idle one; a refused request changes nothing; an event is published once and only
  for effects that happened; every request ends with an answer.
- Checkpoints: one decision per row, never changed; the runner acts on the
  decision its own row records; a wait with a timeout ends.
- Sagas: compensations in reverse order, of all completed steps that have one,
  whatever happens to the others; all steps or none unless a fault made that
  impossible to tell.
- Batches: what a flush writes is kept as a whole or not at all; an item is in one place
  until it is answered; every item is answered.
- Prompts: no answer reaches a caller unvalidated, by whichever way it came; a
  ceiling is passed only by what the checks could not see; the work of an
  invocation is bounded and it ends.
- SQLite: a request's effects stay together; what a client was told is done stays
  done unless a transaction that shares the connection is rolled back, also by an attempt
  that the retry loop starts after a successful one; what was not told ok is not kept.
- Channels: the messages of an instance arrive in order; copies can be accounted for;
  who stays hears everything.
- Compiler: what the checker accepts can be lowered and refers to nothing that is
  missing; the migrations can be run; the author's code survives.

## 2. The modules

| module | role |
| --- | --- |
| `OutboxContract` | what the bus promises, without workers, attempts or transactions |
| `EventOutbox` | the tables, publishers and `flush()`; implements `OutboxContract` |
| `EventOutboxProofs` | its inductive invariant, seven safety theorems, the refinement |
| `MigrationRunner` | compiler output, edits and diff files, `migrate()` processes |
| `CompileMigrateProofs` | the two ends of a release: of `MigrationRunner`, applied once, built on what is recorded, truthful ledger, success means schema; of `Compiler`, accepted programs compile, migrations install, the author's code is kept |
| `CapabilityRoute` | the POST route and the pool it shares with other requests |
| `CapabilityRouteProofs` | no client is lost; refused means clean; only refusals leak; one event; success means effects |
| `FlowCheckpoint` | runner, decision route, registry, timers and restarts |
| `FlowCheckpointProofs` | registry and runner agree; one decision per row; the runner acts on its row |
| `SagaContract` | what a flow execution promises its caller |
| `SagaFlow` | `executeFlow()` against a faulty service; implements `SagaContract` |
| `BatchExecutor` | the queues, overlapping callbacks and their transactions |
| `BatchExecutorProofs` | flushes are atomic; unsettled items are in one place |
| `PromptCaller` | an emitted prompt function with router, cache, tracker, tools, repair, fallback |
| `PromptCallerProofs` | answers are validated; overspending is accounted for; work is bounded |
| `SqliteService` | the routes and the batch executor of the SQLite target on their one connection |
| `EffectProofs` | the two components in which a failure half way must leave nothing behind: of `SagaFlow`, the order of compensation and the refinement; of `SqliteService`, effects stay together; only rollbacks lose; only success stays; only refusals leave a transaction |
| `RealtimeChannel` | a channel on several instances with Redis between them |
| `RealtimeChannelProofs` | the number of copies and the order of first copies |
| `CompilerStages` | the stages of the compiler, as functions of a program |
| `Compiler` | `marrowc compile` run again and again over a program that is edited |
| `MC*` | the instances: members of the constant sets and structured values |

Operators named as mutants ("Mutant of X: ...") are variants of a definition with a
plausible bug; no action uses them. Substituting one for its original makes TLC
report the property that it is paired with in `PROJECT.json`.

### `EventOutbox`

A worker stands for one `flush()` in flight. Interval ticks that overlap in one
process and replicas behave alike, as they meet only in the row locks.

| action | code (`emit_events.ts`) |
| --- | --- |
| `Publish`, `PublishInTransaction`, `CallerEnds` | `publish()` without and with a client; COMMIT or ROLLBACK of the caller |
| `Select` | BEGIN and `SELECT ... FOR UPDATE SKIP LOCKED LIMIT 50` |
| `TakeRow` | head of the row loop with the `exactly_once` lookup |
| `RunHandler`, `HandlerThrows`, `MarkDelivered` | the handler loop, its catch, the UPDATE and the deduplication INSERT |
| `Commit`, `Abort` | COMMIT with everything the transaction wrote; or any failure of it |
| `BackoffElapses` | `scheduled_at` is reached |

What a flush writes is kept in `wrote[w]` and reaches the tables in `Commit`; what
its handlers did (`runs`) is never undone. `ORDER BY` is abstracted to "any batch
of that size", which allows more than the code. `runs`, `lost` and `aborts` are
history variables. The `in_process` bus (a plain `EventEmitter`) is not modelled.

### `MigrationRunner`

A block is an id and its SQL; a checksum is the SQL itself, which carries the
number of edits as the hash of the source. `SchemaFile`, `OwnFile`, `AllBlocks` are
the compiler's (`emit_full.ts` 200-225 looks the file of a model up by substring). `OwnFile` lists
`Firsts`, the models that found a file no earlier one took, by counting those `Before` each.
`AddColumn`, `RenameColumn`, `AddEntity` and `EditElsewhere` are a release, with or
without `marrowc diff --write`. `Start`, `StartFails`, `Skip`, `Refuse`, `Apply`, `Fail`, `Finish`
are `migrate()` block by block; a block's SQL and ledger row commit in one
transaction, so `Apply` is one step and `Crash` undoes it as a whole. `StartFails` is the CREATE TABLE IF NOT
EXISTS of the ledger that meets another first run's. Removals of
entities and columns, and changes of types or enums, are not modelled. `References`
keeps the order of foreign keys. A column a recorded rename took away is exempt in
`LedgerTruthful` and `SuccessMeansSchema`, because manual files are replayed in
order on a schema that is already newer.

### `CapabilityRoute`

A request is any of the declared `Capabilities` (transactional or not, with or without
preconditions, attempts of its retry clause). `pc` is where its handler is; `client`
the connection of its transaction; `stmt` the connection of a statement in flight.
`tx`, `pending` and `durable` are the transaction of a connection, what it has
written and what is committed, counted per request and row.

| action | code |
| --- | --- |
| `StartAttempt`, `Begin` | `emit_runtime.ts` 535-551: `pool.connect()`, BEGIN |
| `Check`, `CheckFails`, `Refuse` | `emit_capability.ts` 364-390, 152-160: fetch, preconditions, `return res.status(...)` |
| `Issue`, `EffectRuns`, `StatementFails` | `compileEffect` and `query()` (`emit_runtime.ts` 122-127) |
| `Publish` | `eventBus.publish()` and, in the same turn, `res.json()` |
| `Commit`, `CommitFails`, `Catch`, `EndAttempt` | COMMIT, ROLLBACK, the 400, `finally { release() }`, the retry loop |
| `TimeOut` | the timeout middleware, 770-783 |
| `CloseIdle`, `RowLocked`, `AbortTx` | `pg` and Postgres as the route sees them (external) |

All requests work on the same entities: effect *k* updates row *k*, and the first
effect makes the precondition false. That is the case with the most contention;
requests on other rows share only the pool. A database that is down when a client
connects, and a COMMIT whose outcome is unknown, are not modelled.

What the model shows beyond its properties: a precondition is read on another
client and not checked again, so two requests can both pass it; effects commit
one by one and are applied again by each retry; a return out of the `try` block
leaves a transaction open on a pooled client, the next request works inside it and
loses its writes when the client is closed. A retry may even wait for a row lock
that its own client holds in such a joined transaction. `EveryRequestEnds` and
`SuccessMeansEffects` are therefore stated for behaviours in which no transactional
request has been refused, and `OnlyRefusalsLeak` says that nothing else leaks.

### `FlowCheckpoint`

The compiler emits the functions but no caller of `startFlowRun` and
`awaitDecision`; the runner follows the state machine in the emitted module's
header. `PauseFlowRun`, `InsertCheckpoint` and `AwaitDecision` are separate steps as
they are separate statements, with an `await` between them; so are `PersistDecision`
and `WakeAwaiter` in `submitDecision`. `Post` checks the allow list of the flow the
*request* names, as the route does. One process; `Restart` loses its registry,
timers, runners and requests in flight. A timeout leaves the row undecided, so a
decision on a cancelled run is still accepted. `Finish` is also possible where `pauseFlowRun` runs a statement: when
one fails, the runner marks its run failed and goes no further. A `submitDecision` whose UPDATE fails changes nothing and answers with
an error; the request is then as good as not posted.

### `SagaFlow`

`StepSucceeds`, `StepFails`, `Complete`, and backward `UndoSucceeds`, `UndoRefused`,
`UndoThrows`, `GiveUp`. A step that fails may have taken effect (a lost response, or
an error with effects left behind). `StepTimesOut` and `UndoTimesOut` are calls that the timeout middleware of the
service answers with 503, or whose connection is lost, while their handler goes on (`late`); `TakesEffectLate` is its end,
in the middle of the flow's compensations or after all of them. The status of a compensation is not checked by
the code, so a refused one counts as compensated. Where a capability is mounted and
what URL the flow uses are in `StepRouters`, `UndoRouters` and `Base`. The loop over
`[...completed].reverse()` is the counter `left`, the number of completed steps it has still to look at: `Due` are those
among them that declare a compensation, `NextDue` the last of these. `Effects` and `Outcomes` are what a client of the service
could see of it, and what `SagaContract` speaks of.

### `BatchExecutor`

| action | code (`emit_batch.ts`) |
| --- | --- |
| `Enqueue` | `enqueueBatch()`, awaited by the route |
| `Drain` | the callback of `setInterval`: the next queue that is not empty is taken as a whole |
| `Connect`, `ConnectFails`, `Begin` | `pool.connect()` in front of the `try` block, BEGIN |
| `Item` | the handler of one item, and `resolve()` or `reject()` of its promise |
| `Commit`, `CommitFails`, `Rollback`, `RollbackFails` | COMMIT; the catch block, which rejects what is left |
| `Restart` | queues and promises are in memory only |

A handler may write and return, write and throw, throw without having written, or fail in a
statement, after which every statement of the transaction fails. COMMIT of such a
transaction rolls it back and reports no error. The model shows what the source does not say: an item
is resolved *before* COMMIT, so its caller may be told of a success that
is rolled back; one item's failing statement loses the writes of items already resolved; a
handler that writes and then throws has its writes committed. `FlushIsAtomic` says what is left of
"process items in a single DB transaction": the writes of a flush stay together. A `connect()` or a ROLLBACK that
fails leaves promises that nobody settles (`stranded`), which `PendingIsTracked` and
`EveryRequestSettles` exempt and nothing else does.

### `PromptCaller`

| action | code (`emit_cognition.ts`, with `emit_cache.ts`, `emit_budget.ts`, `emit_repair.ts`) |
| --- | --- |
| `Invoke`, `Lookup`, `Expire`, `Put` | routing, the cache key, `cache.get()`, the TTL, `cache.put()` |
| `Attempt` | the head of the attempt loop with `assertCanSpend()` |
| `ProviderFails`, `ToolTurn`, `FinalAnswer` | `chat()`, a turn of the tool loop, parse - threshold - validate - charge |
| `Repair`, `RepairFails` | the repair prompt |
| `Fallback`, `FallbackAnswer`, `FallbackFails` | the one attempt on the router's fallback model |

`Recover` is the catch block of an attempt: what it does depends on `on_invalid` and on whether the
error carries validation issues. An answer is the shape of its text (valid, valid inside
prose, invalid, not JSON), whether its confidence is low, and its usage. The estimate and the cache key
are made for the first model and not again after an escalation; the cost class is the current
one's; repairs are charged without having been checked; the fallback's answer is neither cached nor held
against the threshold; a budget refusal ends the invocation with no retry. `slack` sums up
what the checks of a tracker could not foresee: charges made by others between a check
and its charge, usage beyond the estimate, and repairs.

### `SqliteService`

`better-sqlite3` is synchronous, so an action is all a handler does until it gives way. It does so in
`eventBus.publish()`, which awaits the subscribers, and at the promise of a batch item; a flush
does where the handler of an item waits.

| action | code |
| --- | --- |
| `Body` | BEGIN, preconditions and effects up to the event, and the rest if no subscriber waits (`emit_runtime.ts` 541-580, `emit_capability.ts` 392-437) |
| `Finish` | the response and COMMIT; a second response throws into the catch clause, which rolls back |
| `BeginFails` | BEGIN within somebody else's transaction, which the catch clause then rolls back |
| `Refuse`, `RefuseAgain` | `return res.status(...)` out of the `try` block, which leaves BEGIN behind; in a later attempt it throws |
| `EffectFails`, `Throws`, `UpdateFails` | an effect fails; in the PUT route nobody handles that, and the process ends |
| `EndAttempt` (helper) | the retry loop 536-545, 617-630, which nothing leaves but its end: after success too the body runs again |
| `TimeOut` | the timeout middleware |
| `Enqueue`, `Drain`, `DrainFails`, `Item`, `ItemFails`, `ItemEnds`, `FlushEnds` | `enqueueBatch` and `flushBatch` with a BEGIN, COMMIT and ROLLBACK of its own on the connection (`emit_batch.ts` 54-103) |
| `Restart` | the process dies and the journal undoes the open transaction |

So a COMMIT may commit another request's open transaction or come after another's
ROLLBACK, with its error logged after the response. `Next` gives the processor to one handler or flush until it gives way
(`HandlersTurn`, `ExecutorsTurn`): an attempt that follows another one, or the next item of a flush, runs at once.
Unlike on Postgres an effect list is never interrupted: that is `AllOrNothing`. `LostOnlyToRollback` lists who may
lose what a client was told is done: another request that opens transactions, or a batched one, which failed or timed out; a
transactional one that was run again, although its client was told ok and nothing failed; a restart. `OnlySuccessStays`
is the converse: what a transactional request was not told ok for is in the file only through
somebody else's COMMIT, and nothing of an attempt after a successful one is. The routes are those of capabilities and of create, update and
delete; capabilities whose body is a pipeline or an algorithm are left out. A pipeline gives way at every prompt, inside its
transaction. The event bus is the one in memory: the SQLite target has no durable one (`emit_sqlite.ts` 757-764).

### `RealtimeChannel`

| action | code (`emit_websocket.ts`) |
| --- | --- |
| `Connect`, `Close` | the `connection` handler with the history it sends, the `close` handler |
| `Publish` | the `message` handler: `persistMessage`, the local broadcast, `redisPub.publish()` |
| `PubConnects`, `SubConnects` | `connect()` of `redisPub` and `redisSub` resolves |
| `PubFails`, `SubFails` | it rejects: both variables become null, so nothing is published any more (`Publishes`), while the other client stays connected |
| `Relay` | Redis hands a PUBLISH to whoever is subscribed at that time (external) |
| `Deliver` | the callback of `redisSub.subscribe()` |
| `Restart` | the process dies, as it does on losing Redis: its clients have no `error` listener |

A message reaches the sockets of its own instance twice, and its sender, whom the broadcast
leaves out, once through Redis. The declared ordering is
written into the server and never read, and topics select nobody.

### `CompilerStages` and `Compiler`

A declaration is its kind, name, references, and the mistake it contains, if any.
`CompilerStages` has one operator per stage: `Recovered` and `Load` (the recovering parser and
the import closure), `Complaints` (the type checker), `Lower`, `Optimize`, `Migrations` and `Verify`.
What a stage keeps of a sequence it states by places: `Only(s, I)` is what `s` has at the places `I`, in
their order (`Nth`), `OfKind` the declarations of a kind as a sequence and `AllOf` as a set. Imports are the one
recursion; `FilesAssumption` says that the library files do not import each other in a circle (a file that imports the
entry file adds nothing, as in the code). The fixpoint of `DeadModuleElimination` is the least closed set of stores,
and `CircularDependencies` a set of modules that each depend on one of it. `Compiler` runs the stages as `Parse`, `Check`,
`LowerProgram` or `LoweringThrows`, `OptimizeIR`, `Emit`, in between edits of its author (`Break`,
`Repair`, `Delete`, `Implement`). What the stages do with errors is part of the model:
- parse, type and verifier errors are printed and the compile goes on with what is left;
- a syntax error within the braces of a declaration makes the parser take the next closing
  brace for the end of the system, so the rest of the file is lost, extension points included (unless a keyword comes before that
  brace, which the model leaves out; so does it a syntax error in the system's own header, on which `cli.ts` exits);
- the checker's table holds the last of two capabilities of one name (`CapabilityNamed`);
- evaluations have no case in the recovering parser;
- a model's schema file is found by `path.includes(name)` (`emit_full.ts:213`, `LongerName`), and the store of an entity by
  its full name in the same way (`lowering.ts:452`, `StoreNames`);
- a prompt without a template passes the checker and throws in lowering;
- a store that no entity uses is eliminated, and its table with it, also when an entity belongs to it:
  its foreign key then refers to a table that no migration creates. `Orderly`, the precondition of
  `SchemaInstalls`, therefore has belongs_to name an entity that is declared before.

The three properties say exactly which of these a result depends on. Expressions, field types and what
is emitted beyond the schema and the extensions are abstracted away.

### Abstract specifications

`OutboxContract`: unpublished → pending → settled once, handlers only while pending,
delivered only with all of them done. `EventOutbox` implements it with the mapping
`VisibleState` (an uncommitted row is unpublished) and `HandlersDone`.

`SagaContract`: an execution commits with all steps in effect or aborts with no
compensable step in effect, *unless* it met trouble that the runner cannot see or
repair. After such trouble a call that was given up may still take effect when the execution has aborted. A crash leaves
the execution open for ever: nothing is persisted.

## 3. What is checked

| run | states | question |
| --- | --- | --- |
| `outbox` | 64 k | meaning of delivered, no phantom delivery, exact accounting of duplicates, settlement, refinement |
| `migrate` | 174 k | applied once, truthful ledger, no building on unrecorded blocks, success means schema, an unedited release gets installed |
| `capability` | 398 k | no lost clients, only refusals leak, refused means clean, at most one event, success means effects, every request ends |
| `checkpoint` | 631 k | registry and runner agree, one decision per row, the runner acts on its row, waits end |
| `saga` | 12 k | order and completeness of compensation, every flow ends, refinement |
| `batch` | 102 k | a flush is kept as a whole or not at all, unsettled items are in one place, every request is answered |
| `prompt` | 182 k | answers are validated on every path, overspending is accounted for, work is bounded, every invocation ends |
| `sqlite` | 464 k | effects stay together, acknowledged effects are lost only to another's rollback, only what was acknowledged stays, who leaves a transaction open |
| `realtime` | 535 k | order of first copies, number of copies, everyone connected hears |
| `compile` | 276 k | accepted programs compile without dangling references, migrations install, extension code is kept |
| `migrate_diff`, `capability_atomic` | - | two disagreements of section 7, each as a counterexample |

Deadlock is checked by `compile` and by `prompt` (whose `AllOver` lets a system in which all
invocations are over stutter). Elsewhere it is not: requests and restarts are bounded, and a
service without open requests may stop.

## 4. Bounds, and why they are enough

- `outbox`: two flushes and two events, one `exactly_once` and one `at_least_once`; a
  batch can hold both, so they can share and contend. Attempt limits 3 and 2 instead of 10
  and 3: the code compares `attempts + 1` with the limit, and both limits are passed on the way.
  One flush that aborts. Two handlers, so that one can have run and the other
  not.
- `migrate`: two processes, which is what a race takes; two tables (one from an edit,
  with a foreign key to the first), two columns (a rename needs both), two edits
  (so that a release can be skipped and a stale run can meet two newer ones), one crash.
- `capability`: two requests, three clients, two effects (one before and one after a
  failure), two attempts, one failing statement or COMMIT, timeouts on. There is one more client than
  requests: with as many transactional requests as clients each holds one and waits for another,
  and all wait. This is a property of the code (hazard at `emit_runtime.ts:548`);
  with one spare client the waits end.
- `checkpoint`: one run (runs share nothing), two checkpoints, three rows (so that one step can be
  regenerated), three requests (two that race and one that comes late), one restart,
  two flows with different allow lists.
- `saga`: two executions, three steps, one of them without compensation, routes that
  miss for a step of one flow and a compensation of both, up to three faults of any kind.
- `batch`: three requests, two of which share a queue (so that a batch has a first and a last item) and one
  whose capability has no handler; two callbacks and one client, so that they overlap and
  contend; one restart.
- `prompt`: two invocations, which may share tracker and cache; four prompts, one per way of
  handling a bad answer; two tiers and a fallback; two attempts, two tool calls; a token
  ceiling of two answers of the small model and a price that the large one passes on its own.
- `sqlite`: three requests (one that opens a transaction, one that writes into it or ends it, and one that
  meets what is left), each for any of eight routes, which differ in kind, preconditions, waiting and attempts; two flushes that
  can overlap. One failing effect, one restart.
- `realtime`: two instances and two clients (sender and receiver, together or apart), two messages
  (order takes two), a history of one, one restart. Three clients with two messages, and
  two clients with three, have also been run for the invariants.
- `compile`: every sequence of three out of fifteen declarations, which covers each pair of kinds that refer to
  each other in both orders with a third in between, and programs of two to four declarations with imports,
  extension points and a chain of four references; one syntax error at a time.

All bounds are constants (`Max...`) in guards; none is in the code except
the attempt limits, the batch limit and the pool size.

## 5. Fairness

- `EventOutbox`: weak fairness of each flush step (the interval timer starts flushes and
  a handler returns or throws) and of the backoff. No fairness on publishers,
  callers' commits or aborts.
- `MigrationRunner`: weak fairness of a run's steps including `Start`: the operator or the restart
  policy runs `migrate()` again. Edits are not fair, and `EventuallyInstalled` is stated for a release
  that is not edited: an edited one may be refused for ever.
- `CapabilityRoute`: weak fairness of each handler and of the idle timer of a client.
  Queues of `pg` are first-in first-out and Postgres grants locks in order;
  weak fairness suffices as each waiter needs only a free client, and there is a spare one.
- `FlowCheckpoint`: weak fairness of runner, timer and requests that were posted. Nobody has to decide.
- `SagaFlow`: every call is answered or fails. Nobody has to start a flow.
- `BatchExecutor`: weak fairness of each callback's work (the interval fires for ever, handlers
  return), strong fairness of `Connect`: callbacks compete for the clients, and `pg` serves those who wait in
  order. No fairness on failures.
- `PromptCaller`: weak fairness of each invocation. Every `await` is on a promise that settles:
  `chat()` is aborted by the timer of its attempt.
- `RealtimeChannel`: weak fairness of `Relay` and `Deliver` only: Redis and the event loops go on. Connecting
  is not fair; `EveryoneHears` is about a message that waits on a connection that is up, and instances that are subscribed.
- `Compiler` and `SqliteService`: safety only.

## 6. What is proved

The theorems hold for every value of the constants that satisfies the module's
`ASSUME`; those assumptions are evaluated by TLC in each run.

**`EventOutboxProofs`** (any events, flushes, delivery modes, handlers, limits). The
properties are not inductive by themselves: that a delivered row was handled needs to
know what an open transaction is going to write. `IInv` adds `LoopShape` (a row the loop has
left carries the statement that settles it; the handlers before `nextHandler` have
run), `UnpublishedFresh` (nothing happened to an uncommitted row) and `RunsAccounted`
(`DuplicatesAccounted` per handler, for the current row). Each conjunct has its own step
lemma, `Inductive` puts them together, and the theorems read off
`RowsExclusive`, `AttemptLimit`, `DeliveredWasHandled`, `DedupAgrees`, `NoPhantomDelivery`,
`DuplicatesAccounted` and `SettledIsFinal`. `ImplementsContract` is the refinement:
`Select`, `TakeRow`, throws, aborts and backoff stutter, a handler that completes is
`Handle` and a commit is `Settle` of the rows that it delivers and gives up.
`RowsExclusive`, `AttemptLimit`, `DedupAgrees` and `SettledIsFinal` are proved and not listed in a run: the first is what
`DuplicatesAccounted` rests on. `LookupNeverHits` is the lemma behind the finding on `exactly_once`: the
deduplication lookup can never find a row.

**`CompileMigrateProofs`, first half** (`MigrationRunner`, any tables, releases, runs, crashes). `IInv`: what a run loaded is
still recorded, the log holds each recorded id exactly once, and every block a run has
passed is recorded. From it `AppliedOnce` and `PassedIsRecorded`. These two do
not depend on what a release contains, only on how `migrate()` treats it. The other two do.
`Truth` is `LedgerTruthful` with what it needs to survive a step: manual files and loaded blocks are
`Sensible` (they name declared tables, and only renames take columns away), so that a block which is
applied makes its own entry true and no other one false, except by a recorded rename. `AllBlocksType` and
`OwnFileLists` are the lemmas about the compiler: what a release lists is well-formed, and every file of
`Firsts` is in it. The last needs a count: an injection of `1..n` into a set of *n*
elements misses none. `SuccessInstalls` states `SuccessMeansSchema` under the hypothesis `PathsApart`, that the
path of a model's file contains no other model's name. It cannot be dropped: where one name is a substring of
another, both models may find the same file, one of them gets no block, and a run succeeds
without its table. The instance of the run satisfies it.

**`CapabilityRouteProofs`** (any requests, capabilities, pool size, effects, failures).
`Pool` says who uses which client and when (`Place`); four lemmas cover the ways in which a step
can move clients (keep, take, return, end of attempt) and one lemma per action cites them.
`ClientsNeverLeak` follows. `RInv` is `TypeOK` with `Turn`, one predicate per request: until it
has an answer or reaches its effects a request is clean, because an attempt that wrote
something ends with an answer, after which no retry can be refused. From it
`RouteTypeOK` and `RefusedIsClean`. `SInv` is for what crosses connections: `Owned` (a
transaction belongs to a request with that client, unless a refusal leaked one), and per request `Within` (it is
inside its transaction until it ends or fails), `Event` (its event is pending on its own client
and nowhere else, and durable only after an answer) and `Built` (effects are
durable in order, and all of them before anything is told). From it `OnlyRefusalsLeaveOpen`, `OneEventEach`
and `SuccessIsComplete`. `Event` is needed without a proviso on leaks: a request that joins a leaked
transaction still publishes at most once. `Untouched` is the frame: what a step of one request
leaves alone of another's, so that each action is proved once for its own request.

**`FlowCheckpointProofs`** (any flows, rows, requests, restarts). Per run, `Progress` ties the place of the
runner to the rows it has, `Acted` what it did to what the rows record (only a last
wait can have timed out), `Decided` says that all rows but the last have a decision, and
`Registered` that the map has an awaiter of the run exactly while it waits, and for that checkpoint. Per request,
`Request` says that an accepted decision is in its row *and* that the run has not gone on to another row while
the awaiter has still to be woken: without the second half `WakeAwaiter` could hand an
old decision to the wait for a new row, and `ActsOnItsRow` is not inductive.

**`BatchExecutorProofs`** (any requests, capabilities, callbacks, clients). `Located` says that each live request is in
a queue or in hand of a callback; `QueuesSound` and `HeldSound` that it is in one place and there once.
`Wrote` and `Kept` are for atomicity: a running flush has written only for items that are settled, nothing of it is
durable, no other flush has written for them, and a flush that is over is durable as a whole or not at all. `Pool`
counts the clients: `Connect` takes one that is there.

**`PromptCallerProofs`** (any prompts, routers, models, inputs, answers, limits). `Sound`: a result that is about
to be cached or returned has been validated, and so has every entry of the cache. `Worked` bounds the work so
far by the attempts that are over, each at its most, and what the present one has done. `InFlight` is what makes
`OverspendAccounted` inductive: a call that is in flight was within both ceilings when it was
checked, and its tracker has not gone down since, so that whatever exceeds the ceiling when it is charged is
in `slack`.

**`CompileMigrateProofs`, second half** (`Compiler`, any library files, entry files, edits, extension points). `CompileInv` says
what each stage has made of the entry file, up to the exit status: `ast` is `Load(main)`, `complaints` are those of `ast`,
`ir` is the lowered and then the optimized `ast`, the migrations are those of `ir`. It is inductive because an edit resets
what it invalidates. The weight is in the lemmas about the stages, which need no induction theorem with an operator parameter: `Induct` is
induction as a fact about sets of numbers.
- `NthFacts`, `OnlyFacts`, `OnlyAll`: places are listed in ascending order, each once (an injection of a finite set onto `1..n`).
- `SomeGathers`, `SomeLoads`, `LoadType`: the recursive functions of the loader exist, by induction over the
  imports of a file and over the depth of a file, and yield declarations. `LoadsWhatIsWritten`: without parse errors what is
  loaded is what was written.
- `NoComplaints`, `RefsResolve`, `MethodsStay`: what the checker looked up is declared, hence lowered, hence kept by the optimizer,
  which eliminates stores only and drops nothing of a module but dependencies.
- `NoDanglingDependency` (what a kept module depends on is in every closed set), `NoCircularDependency` (the gateway depends on entities and
  channels, an entity on a store, and they on nothing) and `NoDuplicateId` (one module per declaration) are the three checks of
  the verifier.
- `FilesFacts`: the schema files are those of the kept stores and entities, in the order of their
  declaration; `MigrationsAreFiles`: where no name contains a later one the first match by `path.includes(name)` is a model's own file.
- `ImplementationFacts`, `CodeIsMerged`: the code of the only section of a name is found and goes into the first section generated for it.

From these `AcceptedIsCompiled`, `SchemaAlwaysInstalls` and `CodeIsNeverDropped`, with the preconditions of the properties and no
others. The attempt to prove `SchemaInstalls` without the proviso on belongs_to failed for the reason given in section 2.

**`EffectProofs`, first half** (`SagaFlow`, any flows, steps, compensations, routes, faults). Per flow, `Path` says that the completed steps are the first ones
in their order, and `InTurn` that the *n*-th compensation is that of the step after which *n* - 1 others completed. `Ahead` and `Behind` relate
the runner to the service: while nothing has failed what is in effect is what was completed (`Lingering`: calls that were given up are of executions in trouble, and have not
taken effect yet); in the reverse loop every step that the loop has
passed (`Seen`) is undone, unless there was trouble, and no other one is. `NextDueFacts` is the step of the loop: what
it calls next comes just before all it has seen. `UndoneOnlyInReverse` is read off, and `FlowImplementsContract`
is the refinement of `SagaContract`: a step that takes effect is `Perform`, a compensation that runs is `Undo`, both also when they come late, a compensation that does not
and a crash are trouble, `Complete` is the contract's commit and `GiveUp` its abort, for which `Behind` is needed.

**`EffectProofs`, second half** (`SqliteService`, any requests, routes, attempts, flushes, failures, restarts). `Together`: the
effects of an attempt of a transactional request are all in the open transaction, all in the file, or nowhere. `Told` says who can
have which answer in which attempt, as the code answers before COMMIT and goes on after it, and `Flushed` the same of the
items of a flush. `Kept`: the writes of a handler that has run its effects are there, or something took a transaction back (`Undone`).
`Earned` is `OnlySuccessStays` for every attempt number. `FailuresLeaveNothing` is read off `Earned`. `Advance`
is the frame: answers, attempts, restarts and the file only grow, so that what undid a write once excuses its loss for ever.

**`RealtimeChannelProofs`** (any instances, clients, histories, messages). The difficulty is that a copy can wait in
Redis (`out`), in an instance that has to handle it (`in`), in a history, or be in an inbox. `Log`, `History`, `Incoming` and `Behind` say that each of
these lists is in order of publication without repetition, and that what Redis has sent on is older than what it
holds. Per client, `Counted` bounds the copies in the inbox by the paths a message still has (`Direct`, `Ahead`),
and `Past`, `Present` and `Sorted` give the order of first copies.

Type invariants are not invariants of a run; each is a theorem of its own (`TypeCorrect`, `RunnerTypeOK`,
`RouteTypeOK`, `CheckpointTypeOK`, `SagaTypesOK`, `BatchTypeOK`, `PromptTypeOK`, `SqliteTypeOK`, `ChannelTypeOK`,
`CompileTypesOK`). The inductive invariants have been checked by TLC as invariants of the instances of section 3 before
they were proved. `EffectProofs` and `CompileMigrateProofs` hold the proofs about two components each, whose names do not
overlap; neither part uses the other's invariants.

So every invariant that a passing run checks is stated by a theorem, `SuccessMeansSchema` with the hypothesis `PathsApart`.
Only model-checked:
- all liveness (fairness and ENABLED are out of the prover's reach);
- the two disagreements that runs show as counterexamples, which are not theorems;
- that the mutants violate what they are paired with.

## 7. Where code and documentation disagree

Documents are named by their path in the repository. Shown by a run:

1. `migrate_diff`: the error of `migrate()` asks for `marrowc diff --write`
   (`emit_runtime.ts:989`). Every schema file contains the hash of the whole source
   (`emitter.ts:72`), so after any edit every generated block is refused, diff file or not.
2. `capability_atomic`: "`sync: transactional` wraps the operation in a database
   transaction" (`README.md:223`). Effects run on another client and commit by themselves.

Visible in the models, without a run of their own:

3. "exactly_once - deduplicated via event_id table" (`emit_events.ts:10`). Handlers run before COMMIT
   and the deduplication row is written in the transaction that marks the row delivered, so a lost commit runs
   them again (`DuplicatesAccounted`, and the lemma `LookupNeverHits`).
4. The waiting promise "resolves as soon as the HTTP handler calls `submitDecision()`"
   (`emit_checkpoint.ts:115`). A decision between the INSERT and the registration wakes nobody, and the
   wait ends by its timeout.
5. Flows post to `SERVICE_BASE_URL/<capability>`, while capabilities are mounted
   under their entity; by default the first step is a 404.
6. "reject ill-typed programs before compilation" (`spec/04_TYPE_SYSTEM.md:9`). `cli.ts` prints type
   errors and goes on; only an exception in lowering stops it.
7. Code in `extensions.ts` is "preserved across recompiles" (`README.md:400`). A syntax error before the
   declaration of an extension point, in any body, removes the point and its code
   (`ExtensionCodeIsKept` exempts compiles with parse errors).
8. "Delivery respects declared ordering." (`spec/05_SEMANTIC_MODEL.md:185`). No code reads the ordering of
   a channel: a local message overtakes an older one of another instance, and the exemptions of
   `FirstCopiesInOrder` are cases on one instance.
9. The sender is excluded from the broadcast of its message (`emit_websocket.ts`) and gets it back through Redis
   (`CopiesAccounted`).

## 8. Not modelled, and why

- Loops and pipelines (`emit_loops.ts`, `emit_composition.ts`): a bound and a best candidate on top of prompt calls.
  The steps of a parallel pipeline run on after one has failed, and `on_error: rollback` undoes nothing.
- Windowed budgets (`emit_budget_runtime.ts`): no emitted code calls them. The semantic cache: no
  emitted caller uses it. The three stores of the prompt cache are one.
- The `in_process` event bus (a plain `EventEmitter`), the retention of settled rows, the flow runner (not
  emitted: the module is written for one) and the trail of a decision's edits.
- The transition check of `PUT`: it reads a row, checks, and updates without a lock, like the preconditions of
  `CapabilityRoute`.
- The realtime broadcast of capability routes: `typeof broadcastToChannel` is tested and never imported
  (`emit_runtime.ts:597`), so nothing is sent.
- Traces, evaluation, memory, ingestion, maintenance, reflection, tuning: file-system walks and offline jobs with
  little state. Model providers, embeddings and scores are inputs of the models.
- Lexer, expressions, field types, solver, index optimization, state machine checks, formatter: text or trees
  in, trees or text out, with no references between declarations.
- Removal of entities and columns and type changes in migrations; workspaces; the other emitters
  (OpenAPI, SDKs, clients, manifests); the language server; auth, audit, notification and cron
  helpers (single statements, or fire and forget).
- Routes of the SQLite target whose body is a pipeline or an algorithm, and its SQL translation. Its migration runner is the loop of `MigrationRunner` with one
  runner.

## 9. The plan

Done: the modules of section 2, and the proofs of every safety property that a passing run checks.

What is left:

1. Loops and pipelines on top of `PromptCaller`.
2. The clone cache of ingestion and the capped import walk of the memory retriever.
3. The transition check of `PUT` as a writer among others, on the rows of `CapabilityRoute`.

## 10. Running it

    tlc -config EventOutbox.cfg MCEventOutbox
    tlapm EventOutboxProofs.tla

and likewise for the other runs and proof modules; `PROJECT.json` names the module and
configuration of each run, the definitions that model code with their source lines,
the mutants, hazards and findings.
