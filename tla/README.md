# AgentOBS: formal model, model checking and proofs

AgentOBS (`src/agentobs/`) is a Python SDK that records what agents and LLM
applications do. Application code opens *spans*, agent *steps* and agent *runs*
as context managers; each exit builds an event, which one synchronous path
samples, redacts, signs into an HMAC chain, exports and remembers. Around this
core stand stateful helpers (trace store, ULID generator, budget monitor,
circuit breaker, semantic cache, hooks), network exporters, and patches for
provider libraries.

This directory holds TLA+ modules of that system, the TLC configurations that
check them on small instances, and TLAPS proofs. `PROJECT.json` maps every
definition to the lines it models and lists components, runs, hazards, findings
and theorems.

    tlc -workers 2 -config EmitPipeline_safety.cfg EmitPipelineMC.tla
    tlc -workers 2 -config Runtime.cfg RuntimeMC.tla
    tlc -workers 2 -config Data.cfg DataMC.tla
    tlapm EmitPipelineProofs.tla
    tlapm RuntimeProofs.tla

## 1. Inventory

| Component | State | Operations | Interacts with | What is hard, and what must hold | Module |
|---|---|---|---|---|---|
| Emit pipeline `_stream.py`, `exporters/` | `_cached_exporter`, `_prev_signed_event`, `_export_error_count`, open files | `_dispatch`, `_active_exporter`, `_reset_exporter`, `_handle_export_error`, `close` | called by every span exit; reads the configuration; feeds the store | three locks taken one after another, unlocked reads between them; retries. One linear chain, no silent loss, no duplicate, no leaked file | `EmitPipeline` |
| Configuration `config.py` | one mutable singleton | `configure` | resets exporter, chain and store | field-by-field assignment seen by readers that take no lock; failure half-way | `EmitPipeline` |
| Span, step, run contexts `_span.py`, `_tracer.py` | two context variables, per-run counter and step list | enter and exit of three managers, `next_step_index`, `copy_context` | tasks and threads inherit the context | exit order, tasks that outlive their parent, tokens of another context. Each task sees its own nesting | `SpanContext` |
| Trace `_trace.py` | collected spans, `_ended` | `start_trace`, `end`, `_record_span` | told by `emit_span` | exceptions between dispatch and collection | `SpanContext` |
| Span timer `_span.py` | timers, status, error fields | `set_timeout_deadline`, timer callback, `record_error`, `end` | a timer thread | check-then-write against the span's thread: one account of how it ended | `SpanTimeout` |
| Trace store `_store.py` | recency-ordered traces, last run, the global store | `record`, `clear`, queries, `trace_store` | written by the pipeline, replaced by `configure` | eviction against the remembered last run; a dispatch that holds a store already replaced | `TraceStore` |
| Signing `signing.py` | `AuditStream` events, keys | `sign`, `verify_chain`, `append`, `rotate_key` | pipeline, command line | unlocked read-sign-append; rotation in three steps. Verifies if and only if unchanged | `AuditStream`, `AuditChain` |
| ULID `ulid.py` | last millisecond and random part | `generate` | every event id | clock that stalls or goes back, overflow. Strictly increasing | `Ulid` |
| Cost `cost.py` | records, total, monitors | `record`, `reset`, `budget_alert`, `check` | span exit; callbacks that call back | alert fired once per period although checked outside the lock | `CostTracking` |
| Retry `retry.py` | breaker state, failure count | `retry`, `FallbackChain`, `CircuitBreaker` | user functions | calls that overlap a state change | `Resilience` |
| Cache `cache.py` | entries with time to live, LRU order, tag index | `get`, `set`, `cached`, invalidations | user functions, Redis | deletion by key of an entry that was replaced; deletions one by one | `SemanticCache` |
| Webhook, OTLP, Datadog, Loki `export/` | none | `export`, `export_batch` | external receivers | retries after a lost answer, a batch that fails half-way, a post that arrives late | `BatchDelivery` |
| Event stream `stream.py` | an immutable list | `from_file`, `from_queue`, `from_kafka` | queues, Kafka, files | sentinels, limits, malformed neighbours, background commits | `EventIngest` |
| Hooks, inspector `_hooks.py`, `inspect.py` | callback lists, recorded spans | register, fire, attach, detach, reset | span enter and exit | snapshot then call; repeated attach; live session against replay | `SpanHooks` |
| Patching `auto.py`, `integrations/` | flags, wrapped methods | `patch`, `unpatch`, `setup`, `teardown` | provider classes, current span | flag tested first and set last; a patch that fails half-way | `ProviderPatching` |
| Prices `_pricing.py`, `integrations/` | tables | `get_pricing`, `_compute_cost`, `normalize_response` | wrappers | names that begin with other names; cached and reasoning tokens | `Pricing` |
| Callback handlers `crewai.py`, `llamaindex.py`, `langchain.py` | open managers by key, start times | callbacks | span managers | callbacks repeated or out of order | `CallbackHandlers` |
| Tool registry `toolsmith.py` | tools by name | `tool`, `register`, `call`, exports | a model that answers later | the registry changes between the description and the call | `ToolRegistry` |
| Registries `governance.py`, `consumer.py` | the global policy, consumer records | `check_event`, `check_compatible` | emitters | the policy is consulted outside its lock | `Registries` |
| Envelope `event.py`, `validate.py`, `models.py` | immutable events | build, validate, `to_json`, `from_json`, `sign` | everything | four checks and two formats that must agree | `Envelope` |
| Payload classes `namespaces/` | immutable values | constructor, `to_dict`, `from_dict` | events | zero, empty and absent values on the way out and back | `Payloads` |
| Redaction `redact.py` | none | `apply`, `assert_redacted` | pipeline, signing | policies in turn; containers that are only searched | `Redaction` |
| `testing.py`, `deprecations.py`, `actor.py`, `metrics.py`, `migrate.py`, `normalizer.py`, `_cli.py`, `debug.py`, `lint/`, OTel bridges, async JSONL exporter | none that outlives a call, or one dictionary | helpers and batch commands | | see section 8 | none |

## 2. How the project is built

The modules, in the order in which they matter:

1. `AuditChain` (abstract) and `EmitPipeline`, which implements it: what every
   event goes through. Section 3.
2. `SpanContext`: who may see and emit what. Section 4.
3. The stateful helpers around the two, composed for checking in `RuntimeMC`.
   Section 5.
4. The library's data and its registries, composed in `DataMC`. Section 6.

`Callers` gives the threads that call a component and the step of one thread's
program counter (`Moves`), `Optionals` the value `None` and how the fields of two
records are put together (`Each`, `++`). Each module declares its own constants with the weakest assumption the code justifies
and has one action per operation or, where a lock is released in between, per
critical section. What recurses in the code is a recursive function or a fold
here, so that it can be proved about. What is proved about which module:

| Proofs | About |
|---|---|
| `AuditChainProofs`, `EmitPipelineProofs` | `AuditChain`, `EmitPipeline` |
| `SpanContextProofs` | `SpanContext` |
| `LimitProofs` | limits of time and of money: `Ulid`, `SpanTimeout`, `Resilience`, `CostTracking` |
| `IntegrationProofs` | `ProviderPatching`, `SpanHooks` |
| `RuntimeProofs` | `AuditStream`, `EventIngest`, `BatchDelivery`, `CallbackHandlers`, `SemanticCache`, `TraceStore`, and the types of all in `RuntimeMC` |
| `DataProofs` | `Registries`, `Redaction`, `ToolRegistry`, `Payloads`, `Envelope`, `Pricing` |
| `Induction` | recursive functions in general: induction over sets of numbers, since no prover here takes an operator as a parameter |

The runs of the pipeline and of the spans are separate because they differ in
what they ask (one thread or several, with blocks or handles, fairness). The
helpers share no state with each other: where one calls another, the model of
the first has the call's outcome as a choice of its environment (a cost record
arrives, a dispatch takes the store, a provider fails). `RuntimeMC` and `DataMC`
therefore draw one component in the initial state and let only that one take
steps, so that a run's states are the sum of the components' states and not
their product. What crosses components is named in each model: a store that was
replaced while a dispatch held it (`TraceStore`), a session fed by the span
hooks (`SpanHooks`), a cost computed by layers of patched wrappers
(`ProviderPatching`, `Pricing`), a signature carried through JSON (`Envelope`).

## 3. The emit pipeline

`EmitPipeline` has one action per step at which a thread touches shared state.
A section under `_sign_lock`, the exporter's file lock or `_export_error_lock`
is one step, since nothing outside sees it half done. `_config_lock` and
`_exporter_lock` are variables, since `configure` holds them while readers
without a lock look at what it changes.

| Code | Actions |
|---|---|
| `_dispatch` stages 0 to 2 | `Begin`, `CheckKey`, `SignRejected`, `Sign` |
| `_active_exporter` | `Resolve`, `ResolveLocked`, `Build`, `Load` |
| `exporter.export`, retry loop | `ExportRefused`, `PassClosedCheck`, `WriteLine`, `WriteFails`, `Deliver`, `DeliverFails` |
| stage 4 | `FetchStore`, `SkipStore`, `RecordInStore`, `RecordFails` |
| `_handle_export_error`, again in each handler around it under "raise" | `CountError`, `Reraise`, `EndError` |
| `configure`, `_reset_exporter`, `_reset_store` | `Configure`, `AssignField`, `RejectField`, `CloseExporter`, `CloseFails`, `CountCloseError`, `ForgiveClose`, `ReraiseClose`, `DiscardExporter`, `ResetChain`, `ResetStore` |

The pipeline keeps no payloads: an event is a model value. The variables
`signed`, `made`, `failures`, `torn` and `lines` are histories or the outside
world (files). `configure` accepts any set of assignments in `Updates`, in any
order, one of which may be the unknown keyword that raises `ValueError`.

`Outcomes` names what may fail: a file write (`OSError`), an injected exporter
(`ExportError`, which alone is retried; built-in synchronous exporters never
raise it), the redaction policy, the trace store (`record` raises before or
after it stored the event, or the new store cannot be built, which is
swallowed), and the `close()` of an injected exporter. A failed `mkdir` or `open`
leaves nothing behind; a failed `write` or `flush` may have delivered some older
lines and may leave the line of this event in the file object's buffer (`held`),
from where the next `flush` or the `close()` delivers it, although it was
counted as lost. Under "raise" a failing `close()` leaves `configure` before the
exporter, the chain or the store is reset (`ReraiseClose`).

Assumed of the sinks: the console takes what it gets, and an injected exporter
that raises has taken nothing. Not modelled: a line torn in its middle, what the
interpreter flushes when a file object is collected or the process ends, the
path "-" of the JSONL exporter, and that `configure` swallows an
`AttributeError` or `ImportError` from `close()` and skips the same resets
without counting them.

`AuditChain` is the abstract specification: a log of signatures and the head
the next one links to. `ImplementsAuditChain` maps `signed` to the log and
`prevSigned` to the head.

| Run | Checks | Shows |
|---|---|---|
| `emit_safety` | `TypeOK`, `DispatchInv`, `ChainIsLinear`, `ImplementsAuditChain`, `LossesAreTold`, `DeliveredAtMostOnce`, `CachedExporterIsCurrent`, `StoredWasExported` | two threads, three events (one sampled out), one `configure` of four shapes, policy "warn"; files, sinks, store and `close()` fail |
| `emit_serial` | `DiscardedExporterIsShut`, `KeyChangeStartsNewChain`, `FileSegmentsVerify` | one thread, two `configure` calls, the store and the redaction may fail: what single-threaded programs may rely on |
| `emit_live` | `EveryCallReturns` | two threads, an injected sink that fails and cannot be closed, a store that fails, policy "raise", a `configure` that succeeds or fails |
| `emit_late_write` (violation) | `DiscardedExporterIsShut` | a writer past the closed check reopens a discarded file |
| `emit_key_change` (violation) | `KeyChangeStartsNewChain` | a new key signs on the old chain |
| `emit_file_order` (violation) | `FileVerifies` | signing order is not file order |

`LossesAreTold` says that `get_export_error_count()` counts every event that
reached no sink (`NoSilentLoss`) and every failure once at most
(`ErrorsCountedOnce`). A failure is a dispatch that ended without delivering, an
event that the trace store refused after it was delivered, or an exporter that
could not be closed; an event whose line a failed `flush` left behind counts as a
failure and may reach its file all the same. The second half is checked under
"warn" and does not hold under "raise": `_handle_export_error` counts and
re-raises, and each handler around it, up to the `__exit__` that catches the
exception, counts it again (`_stream.py:428-431`, `_span.py:452-454`).

Bounds. Two threads reach every pairwise race, and no step looks at more than
one other thread's effect. Two or three events give a chain with a middle. One
`configure` with two threads, or two with one thread, exercise the reset against
an event at every stage. `MaxRetries = 1` has both outcomes of the loop. Two
endpoints (a JSONL file and the console) and two keys are all the code tells
apart. `MaxConfigures` and `MaxRetries` are the only numeric bounds.

Fairness. `FairSpec` asks weak fairness of each thread's next step: the
operating system runs every runnable thread. Calls are finite in number, so a
lock cannot be taken away for ever and strong fairness is not needed.

Proved (`EmitPipelineProofs`, `AuditChainProofs`), from the assumptions on the
constants in `PipelineAssumption`, for any number of threads, events, sinks,
keys and `configure` calls. The inductive invariant is `DispatchInv`, which the
run `emit_safety` checks as well; it grows from proof to proof:

* `TypeCorrect` and `PipelineInvariant` (`PipelineInv`): the type alone is not
  inductive. A thread in the signing stages must own an event that is in nobody's
  hands and not yet signed (`UnsignedIsUnshared`), and a thread in `_dispatch` must
  work on an event it took (`DispatchOwnsEvent`).
* `PipelineImplementsChain`: each action is a `SignEvent`, a `Restart` or a
  stutter of `AuditChain`; the ownership facts give the guard of `SignEvent`.
  `ChainLinear` holds for the abstract chain (strengthened by `HeadIsLast`) and,
  through the refinement, as `PipelineChainLinear` for the pipeline.
* `NoDuplicates` and `StoreIsExported`, from `EventsHaveOneOwner` (an event is in
  one thread's hands until its dispatch ends), `LinesFollowStages` (no sink and no
  buffer has it before the write, a sink has it from stage 4 on) and `LinesApart`
  (no line is twice in files and buffers, whichever a failed flush left there).
  The steps are sorted by what they do to an event: take it, move it past stages
  that write nothing, write it, let it go.
* `EveryLossIsCounted` under every policy, and `LossesAreCounted` where no policy
  is "raise" (for which the second half is false, see above). `failures` collects
  each exception in the step in which it meets a handler (`FailuresFollowStages`:
  a lost event has one), and `ErrorsFollowCounted` compares the counter with those
  that have been counted (`Counted`): all but the ones a thread is about to count.
* `CacheIsFresh`, from who holds the two locks (`LocksAreHeld`) and from
  `CacheFollowsConfig`: the cache is right again as soon as `configure` has
  discarded the old exporter, before it returns.
* `DispatchInvariant`: all of these together.
* With one thread (`OneThread`), which is what `configure` asks of a program:
  `NoFileLeaksSerially`; with no `configure` that names a key and an unknown keyword
  at once (`KeyNeverTorn`) and no `close()` that raises under "raise"
  (`ClosesCleanly`), `KeysHaveTheirChain`: either would assign the key and fail before
  the chain is restarted (section 7 has the second); and with sinks that take what they are given as well (`SinksWork`: a signed event whose
  write fails is missing in the file), `FilesVerifySerially`. The run `emit_serial`
  satisfies all four hypotheses; without the first the violation runs refute each of
  the three properties. The last rests on the fact that the last line of a file is the head of the chain as
  long as the exporter is the cached one (`LinesLink`, and the lemmas around it).

## 4. Spans, steps, runs and traces

`SpanContext` has a set of tasks, each a `contextvars` context, and a table of
every span, step and run opened. An object remembers the context in which it was
entered, which is what its reset token restores. `nest` lists a task's open
`with` blocks and is what the properties compare the context variables with.

| Code | Actions |
|---|---|
| `SpanContextManager.__enter__`, `__exit__` with `emit_span` | `EnterSpan`, `ExitSpan` |
| `agent_run`, `start_trace`, their exit, `Trace.end` | `EnterRun`, `ExitRun` |
| `agent_step`: `next_step_index`, rest of enter, exit with `record_step` | `ReadIndex`, `LoadCount`, `EnterStep`, `ExitStep` |
| `ContextVar.reset` refusing another context's token | `ExitElsewhere` |
| `copy_context`, `asyncio.create_task` | `Spawn` |

Parameters select the program: `Blocks` (with blocks, or handles exited in any
order by any task as the CrewAI handler and `Trace.end` allow), `Preemptive`
(asyncio tasks switch between calls, threads also inside `next_step_index`),
`Raising` (policy "raise" lets a dispatch raise). Every run is given a
collector; that a plain `agent_run` has none only drops entries from
`collected`. The emit path is one step here: an exit's event is dispatched or
its dispatch raises; `EmitPipeline` shows what that step does.

| Run | Checks | Shows |
|---|---|---|
| `span_tasks` | `TypeOK`, `ContextFollowsBlocks`, `CollectedByItsRun`, `StepRecordedInItsRun`, `StepIndexesDense`, `EndedWasEmitted`, `TraceHoldsItsSpans`, `NothingLeftBehind` | two asyncio tasks, five objects, with blocks |
| `span_handles` | `HandlesKeepApart` (`CannotBleed`, `StepIndexesDense`) | handles exited in any order by any task, raising dispatches, four objects |
| `span_threads` (violation) | `StepIndexesDense` | two threads number two steps alike |
| `span_elsewhere` (violation) | `EndedTraceWasEmitted` | `Trace.end` in another task than `start_trace` loses the completion event of the run |

`TraceHoldsItsSpans` is checked with `Raising = FALSE`: with policy "raise" a
dispatch that raises skips the collector (`_stream.py:248`), so the Trace misses
that span. Another consequence the model shows but no run states: a span takes
its `trace_id` from the enclosing span before the run (`_span.py:381`), so the
spans of a trace opened inside a span carry the outer span's identifier.

Bounds. `MaxObjects` is the only one: five objects nest a run in a run with a
span and a step on either side of a task switch, and give a step index of
two; the two-task set has a parent and a child that may outlive its blocks.
`span_threads` assumes an interpreter that may switch threads between the two
statements of `next_step_index` (Python 3.9, which `pyproject.toml` supports,
or a free-threaded build).

Proved (`SpanContextProofs`), for any number of tasks and objects. Each theorem
names what it needs of the program: with blocks or handles (`Blocks`), asyncio or
threads (`Preemptive`), a policy that raises or not (`Raising`).

* With blocks, in every other respect any program: `SpanTypes`,
  `BlocksKeepContext`, `RegisteredWhereEntered`, `StepsStayInTheirRun`. The
  inductive invariant `SpanInv` adds that a block is exited by the task that
  entered it, that a task not yet started has no block, that an object's run is
  the top of the run stack it was entered with (`BlocksOwned`), and that a task
  inside `next_step_index` is inside a run (`InsideARun`). `ContextFollowsBlocks`
  must chain every block to the one around it, not only describe the innermost:
  the exit of a block reveals the next one.
* With blocks: `NothingIsLeftBehind` and `EndedIsEmitted`, from `BlocksAreOpen` (a
  task's blocks are open and each is newer than the one around it); if dispatches
  do not raise, `TraceIsComplete`.
* With blocks or handles: `TypesWithHandles` and `TasksNeverBleed`. `BleedInv` says
  of what a manager's token will restore what `CannotBleed` says of the context:
  own or inherited. Whoever exits a handle then puts back nothing foreign.
* With blocks or handles, where tasks switch between calls only: `StepsAreDense`,
  and with it `HandlesAreApart`. In `CountInv` the counter of a run is the number of
  its steps, and the one task inside `next_step_index` has read that number. For
  threads the violation run shows that this is false.

## 5. The helpers around them: `RuntimeMC`

| Module | Code | Actions |
|---|---|---|
| `SpanTimeout` | `set_timeout_deadline`, `record_error` in its two halves, `end`, `__exit__`, `to_span_payload`; the timer's callback | `SetTimeoutDeadline`, `RecordError`, `FinishRecording`, `End`, `CancelAtEnd`, `ExitBlock`, `ToSpanPayload`; `TimerFires` (`TimerTests`, `SetStatus`, `SetError`, `SetCategory`) |
| `CostTracking` | `record` (append, then `_check_monitors` outside the lock), `check` in three steps, `on_exceeded` that may call back, `budget_alert`, `reset` | `Record`, `SnapshotMonitors`, `TestFired`, `TestTotal`, `Fire`, `CallbackReturns`, `RecordReturns`, `AddMonitor`, `Reset` |
| `Resilience` | `@retry`, `FallbackChain`, `CircuitBreaker` | `Invoke`, `Admit`, `Refuse`, `Succeed`, `Fail`, `Abandon`, `GiveUp`, `Retry`, `ResetBreaker`, `Tick` |
| `SemanticCache` | `get` (exact match, eviction, scan), `set`, `@cached`, the invalidations, over three back-ends | `Call`, `Lookup`, `EvictExact`, `Scan`, `FetchOne`, `SweepOne`, `FinishGet`, `Store`, `AddToTag`, `ListTagged`, `RemoveOne`, `InvalidateAll`, `ListAll`, `DeleteAll`, `ServerExpires` |
| `TraceStore` | `get_store` and `record` of a dispatch, `clear`, `_reset_store`, `trace_store` | `TakeStore`, `RecordEvent`, `Clear`, `ResetStore`, `EnterStoreBlock`, `InstallStore`, `ExitStoreBlock` |
| `AuditStream` | `append`, `rotate_key`, `verify` and `verify_chain` | `ReadPrev`, `SignNow`, `AppendSigned`, `MapKey`, `SwitchKey`, `CopyKeys`, `ListEvents`; the operator `Valid` |
| `Ulid` | `generate` with `_spin_until_next_ms`; `_encode_ulid` | `Generate` (`NewMillisecond`, `SameOrBackwards`, `Overflow`), `EndSpin`, `AdjustClock`; the operator `Encode` |
| `BatchDelivery` | `export` and `export_batch` of five exporters, posts from an executor | `Post`, `Succeeded`, `Failed`, `Refused`, `BackOffOver`, `Cancel`, `Arrive`, `Lose` |
| `EventIngest` | `from_file`, `from_queue`, `from_async_queue`, `from_kafka` | `Produce`, `StartRead`, `TakeOne`, `EndOfInput`, `AutoCommit`, `CrashWhileReading` |
| `SpanHooks` | the registry's firing, `InspectorSession`, `inspect_trace` | `RegisterHook`, `ClearHooks`, `Attach`, `Detach`, `ResetSession`, `OpenHookedSpan`, `CallHook`, `AskSession`, `RecordSpan`, `CloseHookedSpan`, `EmitHookedSpan` |
| `ProviderPatching` | `patch`, `unpatch`, `setup`, `teardown`, the wrappers and `_auto_populate_span` | `CallPatching`, `TestFlag`, `ReadOriginal`, `WrapMethod`, `SetFlag`, `RestoreMethod`, `ClearFlag`, `CallClient`, `PopulateSpan` |
| `CallbackHandlers` | the callbacks of CrewAI, LlamaIndex and LangChain | `OnAgentAction`, `OnToolStart`, `OnToolEnd`, `OnTaskStart`, `OnTaskEnd`, `OnEventStart`, `OnEventEnd`, `OnLangChain`, `ClearEvents` |

A section under a component's own lock is one step. A timer's callback has no lock
and is four steps, its test and its three writes, between which the others may
run: CPython 3.9, which `pyproject.toml` supports, switches threads there, later
versions, which switch at calls and at jumps back, do not. `crossed` is the
history of that: the owner recorded an error, or built the payload, while a
callback was between its test and its last write. A call to a user function, a callback, a network or a Redis server is
always a step of its own. Time is a counter: the clock of `Ulid` moves both
ways, the others forward. Variables marked *history* in a module are not in the
code.

What the run `runtime` checks:

| Property | Says |
|---|---|
| `DeadlineIsSafe` | one timer at most is armed; unless `crossed`, the emitted payload tells one story (a timeout's, an error's or a success's fields, never a mixture) and stays what the span says |
| `BudgetIsWatched` (`OneAlertPerThread`, `BreachIsAlerted`) | a monitor alerts once per thread and period however callbacks record again, and no breach goes unnoticed; once per period is what the documentation says, and two threads break it (section 7) |
| `CircuitFollowsFailures` | a circuit is closed exactly while fewer failures than the threshold are on record, and half-open only after a quiet window, whatever late outcomes come in |
| `CacheIsCurrent` | a hit was live when its `get` began and is similar enough, a tag's entries are gone when its invalidation returns, the LRU order lists what is held |
| `RingIsRecent` | every store keeps the most recently active traces, gapless at their ends, and finds the latest agent run |
| `StreamTellsChanges` | a stream of calls that did not overlap verifies at every moment, a `verify()` beside it says so too unless a rotation recorded its key between its two reads, a fork is reported, and of all sequences of its events, altered, repeated, reordered or cut, those accepted are its beginnings, up to the fields no signature covers |
| `IdsIncrease`, `StringsIncrease` | identifiers increase as pairs and as strings, whatever the clock does |
| `NoEventVanishes` | success means delivered, a failed batch leaves no hole, a source's event is returned once, in order, or its loss was raised |
| `SessionsAreFaithful` | a hook hears both ends of a span, and a session holds the spans of its trace, each at most once per attachment |
| `ReplayAgrees` | the replay of the file finds the tool calls that the session finds among its spans that reached the file, with the same verdicts |
| `PatchingIsExact` | patching that does not overlap leaves each method wrapped once or not at all, as flag and registry say, and a span's cost is of the response its usage is of |
| `CallbacksAreMatchedOnce` | no CrewAI span is exited twice or while it can still be found, no entry is closed over a later one that the end's name matches, and a LlamaIndex duration runs from a start of its own |
| `RuntimeTypeOK` | the component that runs is well typed |

Bounds (`Runtime.cfg`). Two threads reach every pairwise race; `RuntimeSymmetry`
permutes them, which is sound since no module tells threads apart. Beyond that,
per component, the smallest that let the interesting case happen:

* `SpanTimeout`: three calls of `set_timeout_deadline` (one armed, one replaced,
  one after the end).
* `CostTracking`: thresholds 2 and 3, three records of one or two, so that one
  record passes both, and a callback two frames deep; one reset.
* `Resilience`: two providers, thresholds of two, three calls and failures: a
  circuit opens, is probed, and a call admitted earlier fails late.
* `SemanticCache`: two prompts that answer for each other, a cache of one entry
  and a time to live of one, so that any two calls evict or expire each other;
  three calls.
* `TraceStore`: three traces in a ring of two, four events (three traces and one
  that returns), two stores. Trace numbers follow their first appearance, which
  is what a symmetry set would do.
* `AuditStream`: three events and two secrets: a rotation with an event on each
  side of it, and a `verify()` of the other thread across it.
* `Ulid`: digits 0 and 1, two characters each for time and random part, a clock
  of three values, four identifiers: the random part overflows.
* `BatchDelivery`: batches of up to three in requests of two, two retries.
* `EventIngest`: four messages, two reads; a Kafka read stops after two events.
* `SpanHooks`, `ProviderPatching`: two spans and two registry calls; two patch
  calls and one response, with any methods missing from the client.
* `CallbackHandlers`: four callbacks; three tool names, of which "search" is part
  of "web_search" and "1" part of a clock reading (`InKey` says which name is a
  substring of which key); an agent and a tool, and two clock readings, so that
  keys can be equal.

Deadlock is not checked: every instance stops at its bounds.

Proved, each for every value of its constants, from an inductive invariant that
the property alone is not:

* `LimitProofs`, four modules. `DeadlineHolds` puts `EmittedStaysFinal`,
  `OneStoryIsTold` and `OneDeadlineArmed` together. As long as nothing `crossed`, a
  callback past its test finds the fields as the test saw them or as callbacks have
  left them (`CallbacksUndisturbed`); with no callback there the fields of a span tell one story
  except while `record_error` is between its writes (`FieldsAgree`). A payload
  exists only after the end, after which no test succeeds (`PayloadFollowsEnd`). `CircuitHolds`: closedness follows the count, and a half-open
  circuit's last failure lies a window back; each needs the other when a late
  failure arrives in half-open. `UlidsIncrease`, `UlidTypes`: the generator's own
  pair is the greatest it has handed out (`StateIsGreatest`). `StringsKeepTheOrder`
  carries this to the encoded strings: of two numbers, the digits that repeated
  division gives first differ at a place where the smaller has the smaller one
  (by induction over the width), for every radix, as long as the time fits its
  digits. `AlertedOncePerThread`: who was alerted finds the flag set
  (`FlagFollows`), the outer frames of a thread wait in their callbacks and the
  innermost frame past its test has not alerted (`FrameInv`). `NoBreachUnnoticed`:
  a breach is a debt (`BreachIsOwed`). It arises with a record, whose thread then
  still has every attached monitor before it; a thread that finds the flag set
  passes it to the one that set it (`FiredIsTold`); it is settled by the alert.
  `MonitorsWatchTheBudget` is both.
* `IntegrationProofs` (`PatchingLeavesOneLayer`, `PatchingTypes`): while calls do not
  overlap, the one that runs has wrapped the methods before its place and no other
  (`InStep`), and at rest the flag tells which (`AtRest`). If all go through `auto`,
  its registry moves with the flag (`RegistryInv`).
  `HooksAreFaithful`, `HooksTypes`: the span of each thread is its own and not yet
  finished (`OwnSpans`); what a hook has heard and the callbacks still to call add up
  to what the span's start owes (`Hears`), and so do a session's copies of the span
  and the registrations (`Records`). While nobody detaches, resets, clears or attaches
  again, there is one registration, and a span past its callback is recorded exactly
  if the filter wants it (`Attached`). How often a value occurs in a sequence is
  counted by the lemmas on `Copies`. `ReplaysAgree`: while one span
  at a time is open and the session was attached before the first, it holds the
  spans of its trace that were handed on, in the order of the file, and the one
  whose end hooks have run and which is still to be handed on (`ReplayInv`). What the
  emission samples out, refuses or loses is in the session and not in the file, so
  the two are compared on the spans that reached the file (`inFile`); `Selected`, the function that filters, is followed along
  prefixes, one event at a time.
* `RuntimeProofs`, six components:
  * `StreamsTellChanges`: between two calls each event carries the key in force at
    its place and links to the one before (`Keyed`, `Linked`), in the middle of a
    rotation the call's own record says which step is next (`RunInv`). A `verify()`
    copies the key map and lists the events later: an event appended in between
    verifies under the old map as long as no rotation has recorded a key (`rotated`).
    Each event says whether its payload is the one that was signed (`intact`) and
    whether the fields no signature covers are (`rest`); that
    `verify_chain` accepts beginnings only, up to `rest`, is shown by a least counterexample, the
    first place at which an accepted sequence departs from the stream; the
    lemmas on `SecretAt` say that the key in force depends on the events before.
  * `EventsAreAccountedFor`: what a call holds comes after all that was returned
    (`OrderInv`), what was consumed is returned, held or discarded with an
    exception (`AccountInv`). For the exporters that send one request at a time, a
    post under way is of a request up to the current one, and those before it have
    been taken (`SerialDelivery`). Requests hold sets of events: the order within
    one, that of the batch or of Loki's streams, is not part of what is promised.
  * `CallbacksMatchOnce`, an invariant and an action property: a handler's entries
    hold open spans, each once, under different keys (`CrewInv`); a start under a key
    that is in use overwrites the entry in its place and leaves the others as they
    were (`KeptKeepsTheRest`), so that the span it held is never exited; a start time still to be taken
    has timed nothing, and no two keys have the same (`TimingInv`).
  * `CacheServesWhatIsCurrent`, `CacheTypes`: an entry is told apart by the call that
    wrote it, and no entry has the number of a call that is still to write
    (`PendingInv`), so that none of those doomed by an invalidation can come back.
    Each doomed entry that is still there is on the invalidating call's list
    (`DoomOf`); the Redis index of a tag lists what carries it (`TagInv`); the
    LRU order is the set of what is held, without repetition (`LruInv`).
  * `RuntimeTypes`: whichever component was drawn, all keep their types. For most
    this is part of the invariants above; the rest is carried beside them.
  * `RingHoldsTheRecent`: said without cardinalities and maxima (`RingOK`), the ring is
    in the order of last activity, behind every trace it has dropped; an event
    that is gone was dropped when the ring was full of traces active since
    (`ManySince`). One lemma (`RingStep`) covers the known trace that moves to the
    end, the new one, and the one that evicts. Cardinalities enter at the end,
    through injections.

## 6. Data and registries: `DataMC`

| Module | Code | Model |
|---|---|---|
| `Payloads` | the classes of `namespaces/` | a class is a function from fields to rules (values passed, values taken, when written, what absence reads as); `Construct`, `ToDict`, `FromDict`, `Rewrite`, `ConfigureRaw` |
| `Pricing` | the price tables and the five integrations | the tables as they stand, names as sequences of their parts; `GetPricing`, `TokenUsageOf`, `ComputeCost`, `PriceSpan` |
| `ToolRegistry` | `toolsmith.py` | an annotation, and the schema made from it, is the set of JSON values it lets through (`LegalAt`, `SchemaAt`, by depth); `RegisterTool`, `ExportTools`, `ChooseTool` (the model), `LookUpTool`, `CheckAndRun` |
| `Envelope` | `event.py`, `validate.py`, `models.py`, `compliance/_compat.py` | a field is the class of value its checks tell apart; `MakeEvent`, `SignEvent`, `ToJson`, `FromJson`, `ThroughModel`, and the checks side by side: `ByEvent`, `BySchema` (`validate_event` without jsonschema), `BySchemaFile` (with it), `ByModel`, `ByCompatibility` |
| `Redaction` | `redact.py` | values in containers; `ApplyPolicy`, `AssertRedacted`, `WriteJson` |
| `Registries` | `governance.py`, `consumer.py` | a check in its steps against `SetGlobalPolicy` and `AddTo`; `RegisterConsumer`, `ClearConsumers`, `Incompatible` |

| Property | Says |
|---|---|
| `DataSurvivesTravel` | what a constructor takes comes back from its dict, events from JSON and from the model; a signature made before holds after; the checks differ only in the cases `ChecksAgree` names; raw tool data leaves only while allowed |
| `EachTokenAtItsRate` | every input and output token is billed once at the rate that the row found has for its kind, and nothing if no row is found; a dated release costs what its model costs |
| `DescriptionsAreKept` | arguments that fit a description run the tool unless it was changed, a function that runs is fully bound, no legal value without a null in it is described as illegal, and the null of an `Optional[T]` of a simple type T always is |
| `RedactionHolds` | what a policy covers is masked where policies reach, later policies do not undo it, and what was judged clean can be written |
| `GovernanceHolds` | an event blocked by every global policy during its check is refused, and one major version at most is compatible |

OpenAI counts cached tokens as part of the input, Anthropic beside it
(`CachedInput`): what Anthropic read from its cache is billed to nobody, which
`EveryTokenBilledOnce` says as it is. Strings that end in a newline, which the `$`
of some patterns lets through, are not among the classes of `Envelope`.

Bounds (`Data.cfg`). All values of all fields are tried two fields at a time
(`MaxFieldChanges`, `MaxUnusual`), since no rule relates more than the parts of a
sum. Tokens 0, 1 and 3 are in thousands, so that every rounding and every
difference of rates shows. The tool functions cover an optional parameter, a
union, a method and a positional-only parameter; two registrations let a tool
change once under a call. `Nesting` is deeper than any annotation of the instance:
`ToolAssumption`, which TLC evaluates, says that one level more changes nothing. Two values under two policies, which may be nested in
every container; three changes of governance, the check being one thread's and
the changes anybody's.

Proved (`DataProofs`), one theorem or more per part:

* `BlockedIsRefused`, `OneMajor` and `GovernanceIsKept`, from `HeldIsBlocked` (a
  policy's sets only grow, so what was held throughout is in the policy that was
  read) and `PastTest`.
* `PoliciesHold`, from `CoveredIsMasked` and the facts that a judgement or a text is
  given up with the next policy and no policy takes a mask off (`JudgedAsIs`,
  `TextAsIs`).
* `ToolsAreAsDescribed`, for every set of functions, annotations and values. A
  request of the model fits the description it was chosen from, until the call is
  refused or runs, and the one function found is refused only when its own test
  fails (`ToolInv`). That a legal value in which there is no null is never described
  as illegal goes by induction over the depth (`DescribedMeansLegal`): `Optional`
  is described as what it wraps, so the two sets differ by null only. That they do
  differ there, whatever the depth, is `OptionalLosesNull`.
* `DataTravels`. For payloads, `PayInv`: what a constructor has accepted, each field
  taken as its rule says, has every field written or read back from its absence;
  this is a fact about one rule, which `GoodRule` states and is shown class by
  class. For events, `EnvInv`: an event
  that is read back has the fields it was written with, except a payload that JSON
  itself changes, and the signature made before is over the payload it has; the
  checks are compared on every class of
  value a field can have (`GivenChecksAgree`). All values of all fields at once, not
  two as in the run.
* `TokensAreBilled`, for every number of tokens. A name has one row in its table
  (`OneRow`), every row of the tables has sane rates (`Rates`), the row of a dated
  name is that of its model (`DatedRows`), and the sum that `ComputeCost` adds up
  is the one by kind of token (`CostIsBilled`).

The theorems rest on what the constants stand for: `None` is no number
(`NoneAssumption`), an absent field is neither (`PayloadsAssumption`), tokens are
counted in natural numbers and `None` is no usage (`TokensAssumption`), `None` is
in no class of an envelope's field (`EnvelopeAssumption`), and
annotations and values come with their parts (`ToolAssumption`).

## 7. What the code does that its text does not say

The violation runs of sections 3 and 4 are the findings of `PROJECT.json`, where
each quotes the line it contradicts. The code does not keep these claims of the
text either. The first seven are definitions of the modules that no run lists; as
an INVARIANT of `Runtime.cfg` or `Data.cfg` TLC refutes each. What does hold is
what the properties named last say.

| Claim | Definition | What the code does | What holds |
|---|---|---|---|
| "a span that has already errored or finished is never overwritten" (`_span.py:265-266`) | `EmittedIsFinal`, `PayloadTellsOneStory` | a callback past its test writes after `end()` and the payload, or beside `record_error` (`_span.py:267-270`) | `DeadlineIsSafe`: unless `crossed` |
| "The callback is invoked at most once per budget period" (`cost.py:328`, also `:361`) | `OneAlertPerPeriod` | two threads test `_fired` before either sets it (`cost.py:370-373`) | `OneAlertPerThread` |
| "you cannot alter history without breaking the chain" (the package's `README.md:244`) | `NoAlterationPasses` | the signature covers `event_id`, payload checksum and `prev_id` (`signing.py:157`): type, source, timestamp, tags and other ids can be altered | `AcceptsOnlyBeginnings`, up to `rest` |
| "The was_result_used heuristic is applied against all other span events in the same file" (`inspect.py:343-344`) | `JudgedByTheFile` | with a `trace_id`, the spans of other traces are dropped first (`inspect.py:376-378`) | `ReplayAgrees`, trace by trace |
| "`from_event` succeeds for any event that passes `validate`" (`models.py:126-128`) | `ModelTakesValidEvents` | a source with capitals or a suffix, or an identifier of blanks, is refused (`models.py:273`, `308`) | `ChecksAgree`, which names every difference |
| "claude-3-5-sonnet" matches "claude-3-5-sonnet-20241022" (`anthropic.py:321-323`; `_pricing.py:186-188` of "gpt-4o-mini") | `AliasIsPriced` | names are shortened, never extended: the alias finds no row and is free | `EveryTokenBilledOnce`: nothing without a row |
| `get_pricing` "falls back to stripping trailing date suffixes" (`_pricing.py:186`) | `OnlyDatesAreStripped` | it strips any suffix (`_pricing.py:201-205`): "o1-pro" costs what "o1" costs | `DatedReleaseCostsItsModel` |
| `Optional[T]` "→ nullable schema" (`toolsmith.py:91`) | the converse of `NullOfOptionalIsLeftOut` | the schema is that of T (`toolsmith.py:116-123`) | `DescriptionsAreKept` |
| "Find the most recent open span for this tool name" (`crewai.py:117`) | none | the name is looked for in the whole key id/name/time (`crewai.py:119`): the end of "search" closes a newer "web_search" | `CallbacksAreMatchedOnce` |

And the models follow the code where it departs from what one would expect:

* One thread, policy "raise": an injected exporter whose `close()` raises makes
  `configure()` leave with the new key assigned, the exporter still cached and the
  chain not restarted (`_stream.py:124-128`), against "Invalidate the cached
  exporter and reset the HMAC signing chain" (`_stream.py:116`). With `CloseError`
  added to `Outcomes` in `EmitPipeline_serial.cfg`, TLC refutes
  `KeyChangeStartsNewChain`.
* A failing `flush` counts an event as lost whose line the next `flush` delivers;
  a store that fails counts an error for an event that was delivered.
* A `verify()` during a rotation may report an untouched stream as broken: it
  copies the key map and lists the events at two moments (`signing.py:596`, `398`).
* `apply` replaces "all Redactable fields in the payload" (`redact.py:389`), but it
  does not look into a `Mapping` that is no `dict`, in which `assert_redacted` then
  finds them.
* CrewAI opens two spans for one tool use, at `on_agent_action` and at
  `on_tool_start`, of which one end closes one. A start whose key (the clock's tick
  included) is in use overwrites the entry, and the older span is never exited.
* Together's look-up by short name matches no row. A streamed
  response without a usage marks zero tokens, and more cached than input tokens
  leave the span without a cost.
* Numeric keys of a payload are sorted as numbers before it is written and as
  texts after it is read: its signature then fails. A payload with a date can be
  written by `to_json` and not signed (`signing.py:136`).
* `validate_event` takes only upper-case ULIDs and impossible dates,
  `Event.validate` does not look at tags, checksum or signature; `from_json` refuses documents
  (depth over 10, over 50 tags, over 1 MiB) that `to_json` writes.
* `GenericNormalizer.normalize_response` always raises: it builds the system
  "_custom" without the name that class requires (`normalizer.py:177`,
  `namespaces/trace.py:212`).
* A tool that is a method, or has a positional-only parameter without a default,
  can be described and not called.
* `HALF_OPEN` lets every caller through, not one probe (`SingleProbe` in
  `Resilience` states the comment, and does not hold). Two threads in `patch` at
  once wrap a method twice. CrewAI's `on_agent_finish` finds no entry to close,
  against the comment at `crewai.py:43-44`.
* Overlapping `trace_store()` or `installed()` blocks restore each other's
  objects, and a `configure` inside a block is undone at its end.
* `verify_chain_integrity` of the compliance suite takes one secret and no key
  map, so that a genuine stream with a rotation fails it. `from_kafka` that
  raises discards events whose offsets are committed at its close. Redis keeps
  the keys of deleted entries in their tag's set.

## 8. Only model-checked, and not modelled

Liveness (`EveryCallReturns`) is checked with TLC only: the prover has no
ENABLED. It is stated for the pipeline, whose callers wait for locks; the other
components wait for nothing but their own environment, of which the code assumes
no fairness, and are checked for safety.

Every safety and action property that a passing run checks is also a theorem. The
prover knows neither powers nor `SelectSeq` nor induction over a predicate, so
that the models say these with recursive functions (`Power`, `Selected`,
`LegalAt`), which `Induction` shows to be defined and to have what each step
preserves. The runs remain what they were: they evaluate the assumptions, reach
every action, and show that the properties can fail, by the mutants. Theorems
about the spans keep a hypothesis where the code keeps one: `Blocks` says that
spans are used as context managers, as section 4 explains.

Left out on purpose: the bytes of events and signatures (a signature is a record
of key and predecessor), payload aggregation, sampling arithmetic (any event may
be sampled out), file contents beyond the order of lines, header and record
formats of exporters, label texts, log messages.

Without a module:

* the async JSONL exporter: an open, write and close under one asyncio lock is
  the file endpoint of `EmitPipeline` without the unlocked test;
* `MockExporter.installed()`: the same swap and restore as `trace_store()`;
* `CostAwareRouter`: sorts providers by price and keeps no state;
* the OTel bridges: translate an event into calls of an external SDK;
* `deprecations.py`: one dictionary access per operation;
* `metrics.py`, `migrate.py`, `normalizer.py`: functions of one finished event,
  response or list, without state or order;
* `trace.py` (the decorator), `actor.py`, `exceptions.py`: plain values, or a call
  of a manager that `SpanContext` models;
* `_cli.py`, `debug.py`, `lint/`: batch commands, layout, a static checker of
  other code.
