# A TLA+ model of the AgentCompany agent runtime

AgentCompany runs AI agents as members of an organisation. The agent runtime
(`services/agent-runtime`, FastAPI on asyncio) keeps the agents in PostgreSQL, wakes them through a
Redis stream, and runs each in an LLM decision loop under a token budget. This project models the
parts of the runtime where steps of several actors interleave, where a failure can hit between two
steps, or where two stores have to agree. TLC checks the models on small instances; TLAPS proves the
main safety properties for every value of the constants.

Paths below are relative to `services/agent-runtime/app/` unless they say otherwise.

## 1. Inventory

| Component | State it keeps | Operations | Interacts with | What is hard |
|---|---|---|---|---|
| Trigger pipeline: `engine/heartbeat.py`, `engine/trigger_consumer.py` | Redis stream `triggers:all`, its group `agent_triggers` (last-delivered id, pending list), the batch in a consumer's memory | enqueue (tick, manual, routed event); start, stop; read, handle, acknowledge, back off | engine service (dispatch), Redis, scheduler | several consumers, death between two awaits, lost replies, eviction of the key |
| Agent lifecycle: `engine/agent_manager.py`, `engine/state_machine.py` | `agents.status`, `agent_transitions`, scheduler jobs | create, configure, activate, pause, resume, mark_running, mark_complete, mark_error, terminate | heartbeat, event bus, PostgreSQL | check outside the transaction, side effects at other awaits, restarts |
| Decision loop: `engine/agent_loop.py`, `engine/context_manager.py`, `engine/tool_registry.py` | state machine in memory, context, step count | run; budget check, compaction, LLM call, recording, tools, reflection | cost tracker, LLM adapter, memory, tools | runs that share a state machine, every call can fail, cancellation |
| Token budget: `engine/cost_tracker.py` | Redis counters per day and month, `metrics.token_usage` | check, record_usage | decision loop | check and charge are seconds apart, two stores, midnight |
| Agents API: `api/agents.py`, `engine/engine_service.py`, `dependencies.py` | the agent row, the request's transaction, the audit table | create, update, delete, start, stop, trigger, trigger_by_event | engine service, Redis, PostgreSQL | overlapping requests, swallowed errors, effects before the commit |
| Process lifespan: `main.py`, `config.py` | application singletons | startup, shutdown | all of the above | order of startup and shutdown |
| Adapter registry: `adapters/registry.py`, `adapters/base.py` | map of live adapters, a lock | register, get, deregister, health_check_all, shutdown_all | tool adapters | initialisation outside the lock, reads without it |
| Tool adapters: `adapters/{plane,outline,mattermost,meilisearch_adapter}.py` | HTTP client, configuration | the operations behind the tools: issues, documents, messages, search; webhook parsing | registry, tool definitions, external services | answers that are late, lost or errors; a client closed under a request; a reply is two requests |
| Event bus, SSE, event log: `core/events.py`, `api/events.py` | Redis channels, event table | publish, subscribe, list, stream | web UI, webhooks, engine | at-most-once delivery, four publishers with their own fields and channels, page boundaries while rows are committed |
| Webhooks: `api/webhooks.py` | none | three receivers | event bus | I/O only |
| Approvals and tasks: `api/approvals.py`, `api/tasks.py` | rows | approve, deny; create, update, assign | get_db | two decisions on one row |
| Companies, roles, search, metrics APIs | rows | create, update, delete, queries | get_db | as agents, less |
| Security: `core/security.py` | JWKS cache | validate_token | Keycloak | a cache filled across an await |
| LLM adapters: `engine/llm/` | none | complete, stream, count_tokens | providers | message conversion after compaction has cut anywhere |
| Tool definitions: `engine/tool_definitions.py` | per run, the adapters that the handlers close over | build, 14 handlers | adapter registry, decision loop | handlers outlive the adapter they hold |
| Memory: `engine/memory.py`; prompts | vector store | store, search | decision loop | best effort |
| Web UI: `services/web-ui` | tokens in localStorage, React state | refresh, polling, SSE reconnect | API | logout while a refresh is in flight, late answers |
| Schema and deployment: `alembic/`, `docker-compose.yml` | | | | tables and columns that the code names and no migration creates, `allkeys-lru` |

Two of the components are complete and not wired up yet: nothing in `main.py` makes an
`AgentManager` or an `AgentDecisionLoop`. They are modelled as their docstrings say they are used.
The event log has readers and no writer.

The only migration, `alembic/versions/001_initial.py`, lags behind the code. It creates no
`agent_transitions`; `metrics.token_usage` has no column `run_id` and an `org_id` that must not be
null, where the code writes the first and leaves the second null; `approvals` has neither the
`decided_*` columns nor `org_id`. Where an error of this kind is swallowed, the models let the
statement fail at every request or not (`AgentApi`, `DecisionLoop`), so that they cover the schema as
shipped and the one that the code is written for. The approvals API fails against the shipped table
before it changes anything; `Approvals` is about the table of the model class.

What makes the components correct:

- *Trigger pipeline*: a trigger is dispatched at most once over all consumers; it leaves the pending
  list only when it is settled; only an interruption loses triggers, and at most a batch each time;
  a bad entry does not stall the others.
- *Lifecycle*: the audit log explains the status, records only legal transitions, forms a path;
  TERMINATED is final; timers follow the status; a RUNNING agent has a run.
- *Decision loop and budget*: runs on one state machine exclude each other; the machine is RUNNING
  exactly while a run is in its loop; the overrun is bounded; every token is accounted for; the
  latest messages survive compaction; every run ends.
- *Agents API*: the audit trail explains the committed status; a deleted agent is never activated;
  what was published is committed; every request is answered.
- *Adapter registry*: no open HTTP client is forgotten, whatever overlaps; the map names a closed
  adapter only while its replacement waits; what is removed gets closed; every call returns.
- *Approvals and tasks*: an approval shows one decision, not a mixture of two; without overlap it is
  decided once; a task's timestamps back its status, its version counts updates, its assignee and
  the type of it come from one request.
- *Tool calls*: no operation is carried out twice; what a result tells of a call is what became of
  it; replies keep threads flat; every call comes to an end.
- *Conversation*: roles alternate in each request to a provider, and the results of the last turn's
  tool calls are its end, in order.
- *Event log and stream*: a walk through the pages shows every event once, but for ties; an event
  reaches the clients that listen to its company.

## 2. Modules

| Module | Kind | What it is |
|---|---|---|
| `TriggerDelivery` | abstract specification | what the pipeline promises of each trigger: at most one dispatch, possibly lost |
| `TriggerStream` | component | producers, Redis stream and group, consumers; implements `TriggerDelivery` |
| `TriggerStreamProofs` | proofs | type, at-most-once, acknowledge-after-settling, bounded loss, the refinement of `TriggerDelivery` |
| `AgentLifecycle` | component | `AgentManager` with its table, transactions, scheduler job and restarts |
| `MCAgentLifecycle` | TLC | symmetry over the calls |
| `AgentLifecycleProofs` | proofs | type, the audit log, finality of TERMINATED, timers, runs |
| `CostTracker` | component | counters, check and clock, shared by all runs of the agent |
| `DecisionLoop` | composition | runs of the loop on state machines, over `CostTracker` |
| `DecisionLoopProofs` | proofs | type, exclusion, compaction, overrun, accounts |
| `AgentApi` | component | handlers, engine service and `get_db`'s transaction on one row |
| `AgentApiProofs` | proofs | type, audit trail, deleted agents, published effects |
| `AdapterRegistry` | component | the map of adapters, its lock, and the HTTP clients |
| `AdapterRegistryProofs` | proofs | type, no lost client, no closed adapter registered |
| `RowTransaction` | component | `get_db`'s transaction around a read and an UPDATE of one row |
| `Approvals` | composition | approve and deny, over `RowTransaction` |
| `Tasks`, `MCTasks` | composition, TLC | update_task and assign_task, over `RowTransaction` |
| `RowTransactionProofs` | proofs | approvals: type, whole and single decisions; tasks: type, timestamps, versions, whole assignments |
| `RemoteCall` | abstract specification | what a caller may be told of a call that has an effect elsewhere |
| `ToolCalls` | component | tools, executor, the requests of the four adapters, the services behind them; implements `RemoteCall` |
| `ToolCallsProofs` | proofs | calls: type, at most one effect, flat threads, the refinement of `RemoteCall`; conversations: type, alternating roles, fresh results |
| `Conversation` | component | a run's messages, compaction, and the messages on the wire |
| `EventPages` | component | the event log under a client that pages through it |
| `EventPagesProofs` | proofs | type, disjoint pages, what can be skipped |
| `EventStream` | component | publishers, channels and SSE clients |

An operator written beside an action and introduced as *mutant* is a plausible bug of that action
(a dropped guard, a lost update): `PROJECT.json` names the property that rejects it. The
specifications never use these operators.

### Granularity

Everything runs on asyncio, so a coroutine is interrupted only at an `await`. An action is the code
between two awaits, and `pc` is the await at which a coroutine is suspended. A call to Redis or
PostgreSQL that takes effect at one point is one action; `xreadgroup` is two (`Deliver` at the
server, `Receive` at the client), because its reply can be lost after it took effect.

Failure, cancellation and process death are modelled in the form that each module needs:

- `TriggerStream`: `Crash` and `Stop`; failed calls and lost replies at `Deliver`, `Handle` and `Ack`.
- `AgentLifecycle`: `CutShort` ends a call at any of its awaits, before or after the transaction took
  effect, and `Restart` ends them all.
- `DecisionLoop`: `Cancel` at every await, and errors where a call can raise.
- `AgentApi`, `Approvals`, `Tasks`: a request ends with its transaction committed or rolled back. What
  its client is told is left out, because no state depends on it: the reply to a COMMIT that took
  effect can be lost, and the request then counts as one that took effect, though answered with a 500
  or not at all. `requirements.txt` has no upper bound on FastAPI, which from 0.118 on answers before
  `get_db` commits; the properties hold for either order.
- `ToolCalls`: `TimedOut`, `Disconnected`, `RawError`, `Cancel`, and responses that get lost.
- `AdapterRegistry`: failing health checks and shutdowns; calls that are cancelled are not modelled.

### TriggerStream

An entry is its position in the stream, so a consumer's batch is an interval `first..last`.
`stream`, `floor` (evicted prefix), `group`, `lastDelivered` and `pending` are what Redis keeps;
`pc`, `first`, `last` are a consumer's memory; `delivered`, `settled` and `dispatches` are history.
The kinds of entries are the three outcomes the consumer distinguishes: dispatched, dispatched with
an exception, and unparsable. `Enqueue` stands for every producer; which agents an event matches
decides only how many entries there are. `Stop` and `Crash` do the same to the batch, because
`stop()` cancels the task. A restart is `Start`; the restarted consumer has a new name in the group,
which is why nobody reads what is still pending for the old one.

### AgentLifecycle

One agent, `Calls` coroutines inside `AgentManager`. A call is `Begin`, `Load` (the read and the
validation), `Write` (the transaction) and `Finish` (publication, then the scheduler's job).
`CutShort` ends a call at any of these awaits: an error, a cancellation, or a COMMIT whose reply is
lost, which leaves row and log changed and all that follows undone. `skipped` remembers that a call
was cut short between its transaction and its side effect: only then can the timer lag behind the
status without overlap. `agent_transitions`, into which the transaction inserts, is taken to exist;
without it every transition fails and no call gets beyond `CutShort`.
`mark_error(fatal=True)` is the operation `mark_fatal`. The caller discipline is what the docstrings
ask of the dispatcher: `mark_running` is followed by a run, and only a run in progress is marked
complete or in error, once. `overlapped` remembers that two calls were in progress together:
properties called `Serial...` hold until then, and the others always.

### CostTracker and DecisionLoop

Several runs of one agent, each on an `AgentStateMachine` that it may share with others
(`machineOf`), all on one budget. The budget check is two reads with an await between them. USD
counters are left out because `check` does not decide by them. A message is its role; whether a
context exceeds 80 % of the window is a free choice at each step, which covers every tokenizer.
`LoopTransitions` is the part of the transition table between the three states a loop uses.
`record_usage` has two awaits: `Record` is the pipeline that adds to the counters of the date at that
moment, `Persist` the INSERT into the ledger, whose failure is swallowed. `unwritten` is what a run
has charged and not yet tried to write, `unrecorded` what failed INSERTs cost; in the schema as
shipped every INSERT is of that kind and the ledger stays empty.

### AgentApi

Requests on one row at READ COMMITTED. `seen` is the row as the handler read it, `draft` the row as
the transaction that holds the row lock sees it, `row` the committed one. The ORM writes the
attributes a handler assigned and no other (`Written`), with the version computed from `seen`. A
failed statement aborts the transaction (`aborted`); `get_db` then still commits, which PostgreSQL
turns into a rollback without an error. The INSERT into `agent_transitions` may fail at any request,
which costs no fault of the bound: with the schema as shipped it fails at every one. `unaudited`
counts these requests. The heartbeat service is present, as it is after startup.
Where an exception is not an `EngineError` the client gets a 500 instead of a 502; both roll back.

### AdapterRegistry

`register` makes one adapter, so an adapter is named after the call that makes it, and `client[c]`
is the HTTP client of the adapter of call `c`. A step is the code between two awaits: `Begin` makes
the adapter and opens its client, `HealthCheck` is the answer of the tool, `Register` what happens
once the lock is granted, `Install` the rest after the existing adapter has shut down. `deregister`
and `shutdown_all` empty the map under the lock and shut down outside it; the tasks of the `gather`
are `ShutOne`, in any order. A client counts as closed from the start of its shutdown, because
httpx marks it before the first await. `get`, `get_optional` and `health_check_all` only read; what
they can see is what `ClosedOnlyWhileReplaced` says of the map.

### RowTransaction, Approvals and Tasks

A request is `Begin`, `Read` (the SELECT and the refusal), `Flush` (the UPDATE, which waits for the
row lock) and `Commit`, or `Fail` at any of them; it ends `committed`, `refused` or `undone`, which
says what became of its transaction and not what its client was told. Each request is made at most
once, so the requests are its bound. What distinguishes the two users of the module is the row and what the UPDATE writes:
the ORM omits a column whose assigned value is the loaded one, so the columns of one decision or
assignment can come from two requests. Both users keep their definitions apart by name
(`ApprovalInit`, `TaskInit`, ...), so that one module can prove about both. For approvals that concerns `decision_note` alone, which is
NULL while the approval is pending. For tasks, `Column` decides it for status, assignee and type from
`seen`; timestamps of a transition always differ. Nothing validates that a type fits an assignee:
bodies carry any pair, `create_task` too, so what can be asked is that the two columns come from one
request. `assignment` is the pair of the assigning request that took effect last, and `crossed`
remembers that two assigning requests were in progress together.
Columns that are only copied are left out.

### RemoteCall and ToolCalls

A tool is its name; what distinguishes the fourteen is the service, the arguments its schema requires
and its handler checks, and the requests its operation sends, each of which reads or writes.
`ToolsAssumption` compares schemas and handlers: arguments that satisfy the one satisfy the other.
`held` is what a run's handlers close over: `Build` copies the adapters of the moment, and
`ShutDown` and `Register` replace them underneath. A call goes from `Call` (resolution, checks, first
request) through `Continue`, `ErrorStatus`, `TimedOut`, `Disconnected` or `Cancel`. The service is
`Process`: it takes a request from `wire` at any time, also long after its caller gave up, acts or
not, and its response may be lost. Requests are sent once; `wire` is therefore a set.

The status of a call is what the text of its result tells (`Results`): success, an error from before
anything was sent, an error with the status of the response, an error that names the request which
failed, a read or a write, or a raw exception that names neither (`RawError`: the body is no JSON, a
post has no channel, Retry-After is no number). What follows from a text is `Conclusion`. Nothing was
done after an error that precedes sending, after a status below 500, and after the failure of a read;
it is open after a write that failed and after a raw exception, which is the same text for the first
request of a reply as for the second. That a service which answers with a status from 300 to 499 has
done nothing is an assumption about the services, not about this code. `RemoteCall` is the contract of
these conclusions over calls that write: a call's effect comes at most once, an "ok" implies it, a
"refused" excludes it for good.

### Conversation

A message is its role and, for a tool result, the number of its call; texts are not told apart.
`LoopHead` compacts or not by free choice, so every threshold, tokenizer and message length is
covered. `Compacted` keeps four messages and replaces the others by one. `AnthropicWire` and
`OpenAIWire` are the adapters' conversions as pure operators on the messages, the first a fold.
A new result has to be at the end of the request, where a provider looks for it. That is a statement
about its place only. The assistant message before it lacks its tool calls (section 6), and a
provider that matches results with calls refuses such a request: the loop then ends in error, which
`DecisionLoop` covers by `Raise`.

### EventPages and EventStream

`EventPages`: an event is its position in the order of commits, its timestamp the start of the
inserting transaction (`server_default=now()`), so it may be older than one committed before it.
`Newest` is ORDER BY and LIMIT: among equal timestamps PostgreSQL may choose. `there` remembers what
was committed when the walk began.

`EventStream`: the publishers differ in channel and in whether the event has a `company_id`; a client
picks its channel by its query parameter and forwards only what carries that company. A webhook's
channel is the payload's company, workspace or channel, or "system". Redis keeps
nothing for a client that is not connected.

## 3. Runs

| Run | States | Question |
|---|---|---|
| `trigger_stream` | 339 k | Is the pipeline at-most-once with bounded, visible loss, does nothing get stuck, and does it implement `TriggerDelivery`? |
| `lifecycle` | 4.6 M | What does the audit log guarantee under overlapping calls, and what do serial calls add? |
| `decision_loop` | 1.5 M | Exclusion, budget overrun with evicted counters, accounting, compaction, termination |
| `agent_api` | 241 k | Audit trail, deletion, published effects, and an answer to every request |
| `adapter_registry` | 88 k | Does any overlap of registrations and removals lose a client, register a closed one or block? |
| `approvals` | 29 k | Is a decision whole under overlap and final without it? |
| `tasks` | 2.4 M | Do timestamps, versions and assignments survive overlapping updates? |
| `tool_calls` | 107 k | Is anything done twice, does a result tell what became of its call, do replies keep threads flat, does every call end? |
| `conversation` | 11 k | Do roles alternate and do new results end the request, wherever compaction cuts? |
| `event_pages` | 9 k | Does a walk through the event log show everything once? |
| `crash_redelivery` | violated | Is a batch redelivered after a crash or a stop? |
| `silent_stream` | violated | Does an event reach the clients that listen to its company? |

The violated runs check what a docstring or comment says and the code does not do; see section 6.
All type invariants are proved; the runs of `DecisionLoop` and `Conversation` check theirs too, since
those say what holds at which await and in which order calls are executed.

### Bounds

- `trigger_stream`: two consumers with batches of two and three entries: a batch can be cut in half,
  another can follow, and two consumers hold batches at once. Two faults allow a crash followed by a
  failed call of the restarted consumer; one eviction hits with and without batches in flight.
- `lifecycle`: two calls are the fewest that overlap. Five committed transitions reach every state
  and come back (configure, activate, mark_running, pause, resume). One call cut short and one
  restart fall at every place.
- `decision_loop`: two runs on one machine or two; a daily budget that lets a second response pass,
  a month of two days so that either limit can refuse; two steps; three tool calls in one response
  make a conversation longer than four messages, so that compaction has a tail to keep. One eviction
  of the day's or the month's counter, at any time.
- `agent_api`: five requests, two at a time: create and start, then three that overlap; one fault.
- `adapter_registry`: four calls on two keys: two registrations of a key, a removal of it and a
  shutdown can overlap, or a second key can be in the same shutdown.
- `approvals`, `tasks`: three requests: two that overlap and one before, between or after, with every
  verdict and note, and every status and pair of assignee and type, for each.

- `tool_calls`: two runs and two calls are the fewest that overlap, or follow each other in one run;
  the tools cover a read, a write and the two-request reply. A second adapter allows a replacement
  under a call. Three posts allow a reply to a reply.
- `conversation`: four steps of up to five calls: a turn with more results than compaction keeps, and
  compactions in a row.
- `event_pages`: five events on pages of two need three pages; three timestamps allow ties within a
  page, across its end, and late commits. Larger pages are covered by the proof.
- `silent_stream`: one client and two events suffice for a counterexample.

In every run the counter that a bound limits sits in a guard (`Len(log) < MaxLog`, `Fault`,
`served < MaxRequests`, `Len(calls) < MaxCalls`), so a bound cuts behaviours short and changes no step.

### Fairness

- `TriggerStream`: weak fairness of starting a consumer (the container restarts), of its progress
  through read, handle and acknowledge, and of the retry after a back-off. No producer or fault is
  fair. `EveryWaitingEntryDelivered` asks only for entries whose group exists from some time on:
  after an eviction a live consumer gets NOGROUP for good, since only `start` creates the group.
- `DecisionLoop`: weak fairness of each run's own steps: the event loop serves every coroutine and
  providers answer. Failures, cancellation, triggers, midnight and resumption are not fair.
- `AgentApi`: weak fairness of each request's steps and strong fairness of `Flush`, because
  PostgreSQL queues the waiters for a row lock: between two releases none is passed over forever.
- `AdapterRegistry`: weak fairness of each call's own steps. A health check has a timeout, and the
  calls are finitely many, so the lock is free for good once the others have passed.
- `ToolCalls`: weak fairness of `TimedOut`, `Continue` and `ErrorStatus` of each run: httpx has
  timeouts, and asyncio resumes a coroutine whose response is there. Services are not fair: they may
  never answer.
- `EventStream`: weak fairness of forwarding an event that is in the client's buffer.
- `AgentLifecycle`, `Approvals`, `Tasks`, `Conversation` and `EventPages` have safety properties only.

`CHECK_DEADLOCK FALSE` is set where the system may come to rest: all runs ended, no call in
progress, no request left. A consumer polls forever and a client can always start over, so
`trigger_stream` and `event_pages` keep the deadlock check.

## 4. Proofs

Every safety property that a run checks, state invariant or action property, and both refinements are
proved. The proofs hold for arbitrary sets of consumers, calls and workers and arbitrary bounds, under
the named assumptions `BoundsAssumption`, `LifecycleBounds`, `ApiAssumption`, `RegistryAssumption`,
`RequestAssumption`, `ToolsAssumption`, `PagesAssumption`, `LoopAssumption` and
`ConversationAssumption`, which only say that bounds are natural numbers, that a batch and a page are
not empty, that `NoWorker`, `None` and `NoRequest` are not members of the sets they complete, that the
tools are among the fourteen of the source, whose schemas require what their handlers check, that runs
and machines are finitely many, and that responses have a largest size, which
is `max_tokens`.

Each proof module defines inductive invariants (`IInv`, extended for some theorems), proves that `Init` establishes it and that
each action preserves it (one lemma per action), and concludes by PTL. Why the properties alone are
not inductive:

- `TriggerStreamProofs`. `DispatchedAtMostOnce` follows once nobody holds an entry that was
  dispatched. That needs `BatchInv` (a held batch lies in what was delivered, and none of it is
  settled), `DisjointInv` (two consumers' batches do not meet), `CursorInv` (everything delivered is
  at or below the group's cursor, which never goes back) and `HistoryInv` (what was dispatched is
  settled, was parsable, and is in the stream). Theorems: `TypeCorrect`, `AtMostOnce`,
  `AckAfterDispatch`. `OneBatchPerFault`: what is in hand, settled and lost makes up what was
  delivered, and a batch has at most `BatchMax` entries (`SizeInv`), so each fault adds at most that
  many to what is lost. `PipelineDelivers` is the refinement of `TriggerDelivery`: `FateTable` reads
  the fate of an entry off the sets it is in, each of which is moved as a whole by an action
  (`Enqueue` is Accept, `Deliver` Claim, `Handle` Settle, an interruption or an eviction Lose), and
  the steps that move none are stutters.
- `AgentLifecycleProofs`. A call about to write has validated its transition on what it read
  (`ValidatedInv`); without overlap it is alone and what it read is still the status (`SerialInv`).
  The first gives `AuditTrailIsLegal` under any interleaving, the second `SerialAuditTrailIsPath`
  and the action property `TerminatedIsFinal`. `AuditTrailIsCurrent` needs neither: the row and the
  log change in one transaction. `TimerFollowsStatus` and `RunningHasRun` are not inductive, because
  status, timer and run change at different awaits: `TimerInv` and `HasRunInv` name, for each moment
  in between, the suspended call that still has to make its part of the change, until a call is cut
  short in the middle (`skipped`), after which the timer may be that of an earlier status.
- `AgentApiProofs`. Who is past its flush holds the row lock (`LockInv`); hence the committed row
  does not move under a draft, and `DraftInv` ties a draft to its operation, `EntryInv` the audit
  entry to the transaction. From these `AuditTrailIsCurrent`, and `DeletedStaysDown`: the engine's
  second look at the row happens under the lock, so a start cannot commit on a deleted agent.
  `DeletedWasIdle`: without overlap what a request checked on the row it read still holds of the row
  (`SerialInv`). `EffectsAreBacked` counts: an effect without a commit is that of the one request at
  its commit, of a fault, or of a request whose INSERT into the audit table failed. Such a transaction
  is aborted and will report all the same: it is `Wasting`, and counted in `unaudited` already
  (`EffectInv`). In the schema as shipped the last term grows with every start and stop, and the
  theorem then bounds the effects by the requests and says no more.
- `AdapterRegistryProofs`. `LockInv` says who holds the lock across an await and for what, `MapInv`
  that a registered adapter was handed over by its register, is under its own key only and is in
  nobody's batch, `DoomedInv` that a batch holds only such adapters, `CallInv` that an adapter in the
  making has its client. Hence `ClientsAccountedFor` and `ClosedOnlyUnderLock`: `Install` replaces
  exactly the adapter it closed, because the lock kept the map still.
- `DecisionLoopProofs`. `MachineIsALock` and `MachineShowsRun` are inductive together with the type
  and `RunInv`, what a run holds at each await. `LastFourKept` is about `Compacted` alone. The budget
  needs sums over dates and runs: `Total` and `ChargedIn` are folds, and the proofs use only that
  changing one summand changes the sum by as much. `SpendInv` strengthens the accounts by the
  responses that are received and not yet charged and the charges that are not yet in the ledger. `DayInv` and `MonthInv` bound the counters of the
  present date: below the limit a run may get a response, a machine has one at most at a time, so the
  room beyond the limit is one response for each machine that has none outstanding; counters of past
  dates are at most at the ceiling this gives, and an evicted counter took no more than that with it.
- `RowTransactionProofs`. For approvals, `DraftInv` ties a draft to the request that holds the lock,
  and the commit carries it over: `WholeDecision`. For tasks, `StatusIsBacked` needs history:
  timestamps are never unset, so the row always `Keeps` what any request saw, and an UPDATE that
  leaves the status out lands on a row that is `Backed` itself, one that writes it brings its
  timestamp unless the row it saw had it. `AloneInv` says what "without overlap" means at each await:
  one request is in progress at most. With it, what a request read is still the row when it writes,
  hence `DecidedOnce`. `VersionIsBounded` compares versions with the number of requests that took
  effect, counting the one that created the task: none that was read or committed exceeds it, a draft
  does by one at most (`CountInv`). `AssignmentStaysWhole`: until two assigning requests are in
  progress together, no assignment commits between the read and the UPDATE of another, so that what it
  leaves out of the UPDATE is what the row has.
- `ToolCallsProofs`. That a write takes effect once needs to know where its one request is:
  `OneWrite` (at most one on the wire for a call) and `WireInv` (while it is there, the call has had
  no effect, and a run that waits for the call waits for this request). `CallInv` and `RunInv` carry
  what result and response say of the effect: an "ok" that arrived means it is there, a "refused"
  that it is not, and a run that still reads has written nothing; `Conclusions` sorts the results. Hence `NothingDoneTwice` and
  `ResultsAreTrue`, the refinement: a step of `ToolCalls` changes the status or the effect of at most
  one writing call, and `RemoteCall` has an action for each way; everything else is a stutter.
  `FlatThreads` needs that the root a request carries was a root when it was sent, and that posts
  never change.
- `EventPagesProofs`. `CursorIsOldest`: everything read is at least as young as the cursor.
  `UnreadIsOlder`: what was there and is unread is older than the cursor, or tied with the end of a
  page. The first gives `PagesAreDisjoint`, since the next page is strictly older; the second
  `NothingElseSkipped`, since a walk that ends has no older event left.
- `ToolCallsProofs`, on `Conversation`. `CInv`: the messages are well formed (the first is a text of
  the user, no other is, and no assistant message follows another), they end with the results of the
  last step that compaction has left, and calls are executed in order. `Compacted` and `Append` keep
  this. `WireShape` then says what the Anthropic request of well-formed messages is, by following
  `Join` through them: roles in turn, and a last message that ends with the results at the end of the
  messages.

Two modules reason about folds, `Total` over finite sets and `AnthropicWire` over messages. A fold is
a function chosen to satisfy its recursion, and that one exists has to be proved. The library's
theorems on inductive definitions take operators as parameters and cannot be used here; the proofs
take the least element of a set of counterexamples instead (`LeastNat`, `SubsetInduction`, from the
well-foundedness of < on numbers and of strict inclusion on the subsets of a finite set), which is a
statement about sets: `FoldRecursion` and `SumRecursion` say that the recursion has a solution.

Only model-checked: the liveness properties (`EveryWaitingEntryDelivered`,
`EveryDeliveredEntrySettledOrLost`, `EveryRunEnds`, `EveryRequestEnds`, `EveryCallReturns`,
`EveryCallAnswered`), since the prover has neither fairness nor ENABLED, and the counterexamples of
the two violated runs.

## 5. What the checks show

- Redis's cursor alone makes the pipeline at-most-once. Nothing re-reads the pending list, so the
  pipeline is never at-least-once: each interruption loses up to a batch, which stays in the pending
  list (`LeftPendingOnlySettled`) until an operator claims it or the key is evicted.
- The audit log of `AgentManager` is always current and legal, but under overlapping calls it is no
  path, a terminated agent can come back, and a timer can outlive a pause, because the transaction
  does not compare the status it overwrites with the one it validated. A timer can outlive a pause
  without overlap too: when the call is cancelled during the publication, or its COMMIT takes effect
  and raises, nothing removes the job.
- The in-memory state machine excludes runs that share it. The budget is overrun by at most one
  response per machine, on any day and in any month, and each evicted counter allows it to be spent
  once more. Summaries of compaction are spent unrecorded; the ledger misses nothing else but what a
  failure between the two stores cost and what a run is just about to write. Failed INSERTs are
  swallowed, and against the schema as shipped all of them fail: the ledger is empty there.
- A cancelled run leaves its machine RUNNING: nothing catches `CancelledError`.
- The agents API's audit trail is right under any overlap thanks to the row lock; the check of
  `delete` is right only for requests that do not overlap. Without the audit table, that is in the
  schema as shipped, starts, drains and stops publish their effect and are answered 202, and none of
  them changes the row.
- The registry's lock does its work: no overlap loses a client, and a closed adapter is visible only
  while its replacement waits. What the lock does not cover is a failed initialisation, whose client
  stays open, and whoever kept an adapter from before a reload.
- Overlapping decisions both take effect and the later commit wins, as a whole but for the note.
  Overlapping assignments can leave an assignee with the type of the other one; without overlap the
  two are what one request gave, which nothing compares. Timestamps back the status under any
  overlap.
- Tool calls are safe because nothing retries: a call is done at most once, and an error after a write
  leaves it open whether it was done, as does a raw exception after a read, since it looks the same. A reload of an adapter fails the calls of the runs that hold the
  old one, and nothing else. A hung service costs a timeout.
- Wherever compaction cuts, Anthropic gets alternating roles, because a result without its call
  becomes or joins a user message. Of a turn with more than four results only the last four survive
  a compaction that follows it. Results are where a provider looks for them; that it accepts them is
  not shown, because their calls are not in the conversation.
- The cursor of the event log shows nothing twice and skips only ties with the end of a page, even
  with transactions that commit out of order.
- No event reaches a client that subscribes to a company.

## 6. Disagreements between code and documentation

| What is said | What happens | Run |
|---|---|---|
| `trigger_consumer.py:165` a crash before the acknowledgement results in redelivery; `:106` stop waits for the current batch | the rest of the batch is never read again | `crash_redelivery` |
| `core/events.py:4` subscribers receive events in real time | no event on a company's channel carries the `company_id` its stream filters for | `silent_stream` |
| `agent_manager.py:161` triggers do not execute until the agent is resumed | the run that was in progress completes, and the agent is ACTIVE | |
| `agent_loop.py:12` the budget is checked before every LLM call | compaction makes a call of its own | |
| `engine_service.py:491` a missing audit table never rolls back the status | the table is missing; the failed INSERT aborts the transaction, the client gets a 202 | |
| `cost_tracker.py:166` a durable DB write follows | the INSERT names a column that no migration creates, and its failure is swallowed | |
| `adapters/registry.py:124` get returns the live adapter | during a replacement it returns a closed one | |
| `adapters/registry.py:5` the registry owns shutdown | a failed initialisation leaves its client open | |
| `adapters/registry.py:83` replacing allows live reloads | tools built before work with the closed adapter | |
| `adapters/base.py:169`, `plane.py:426` retry logic handles transient errors | nothing sends a request again | |
| `adapters/types.py:169` no raw exception escapes an adapter | a closed adapter raises AssertionError, a body that is no JSON its own error | |
| `llm/base.py:42` results are routed back to their tool call | the calls themselves are not in the conversation | |
| `context_manager.py:10` the oldest half is summarized | all but four messages are | |
| `context_manager.py:131` nothing is truly lost | a failed archive is logged, and the archive is cut at 4000 characters | |
| `api/approvals.py:77` a second decision gets a 409 | overlapping decisions both take effect | |
| `models/approval.py:46` a note the reviewer attaches | it may be the note of the overwritten decision | |
| `models/approval.py:46` the columns of a decision | the migration creates none of them | |
| `models/task.py:33` assignee and its type | they may come from different requests | |
| `agents.py:278` a draining agent will stop soon | it stays `stopping` | |
| `engine_service.py:275` dispatch validates that the agent is active | it does not | |
| `engine_service.py:106` start registers the heartbeat | it does not | |
| `docs/architecture/data-model.md:16` updates compare the version | none does | |
| `core/events.py:8` event rows are written before publishing | nothing inserts any | |
| `core/events.py:73` keepalives keep the connection open | `get_message` returns at once, so none is sent | |
| `api/companies.py:3` mutating operations publish an event | none does | |
| `api/events.py:87` the client receives events | `useSSE.ts:65` listens to unnamed events, the server names them | |
| `core/security.py:47` keys are fetched once per TTL | every request that finds them expired fetches them | |

## 7. Not modelled

Left out for good: prompt texts, configuration, metrics, monitoring, middleware, rendering;
read-only endpoints. Operations of the tool adapters that nothing in the service calls, and the
parsing of webhooks by the adapters, which nothing calls either. Companies and roles repeat the row
handlers of the agents API. The agent memory is a store that the loop survives without. Token
validation decodes; requests that refresh the key cache together store the same keys. The web client
is a browser program with two small pieces of state, the tokens and the delay before it reconnects;
a logout while a refresh is in flight is listed among the hazards and not modelled.

In the modelled parts: USD counters of the budget, key expiry (a counter expires after its date),
LLM streaming (the loop does not use it), and filters of the event log and stream.

## 8. Running

`tlc -config TriggerStream.cfg TriggerStream`, and likewise for the module and configuration of each
run in `PROJECT.json`; `tlapm TriggerStreamProofs.tla` and likewise for the other proof modules.
