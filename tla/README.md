# Agent OS: models, checks and proofs

This directory holds TLA+ models of Agent OS (the TypeScript monorepo beside
it), the TLC runs that check them on small instances, and TLAPS proofs of the
properties that matter most for every instance.  Every definition is translated
from the source; `PROJECT.json` maps it to the lines it stands for.

    tlc -config loop.cfg MCExecutionLoop            # one run; see PROJECT.json
    tlapm ExecutionLoopProofs.tla                   # one set of proofs

Contents: [the system](#the-system), [modules](#modules-and-the-code),
[runs](#runs-bounds-and-what-they-show), [what does not hold](#what-does-not-hold),
[fairness](#fairness), [proofs](#proofs), [not modelled](#what-is-not-modelled),
[plan](#plan).

## The system

Agent OS is one Node.js process (the API server) and libraries around it.  All
of it is single-threaded JavaScript: what runs between two `await`s is atomic,
and everything that can go wrong by interleaving happens at an `await` or in a
handler that is called synchronously and calls back.

| component | state | operations | talks to |
| --- | --- | --- | --- |
| Execution loop `hermes/src/execution` | status, step states, plan and index, results, retries, history, checkpoints | `execute` (also again, on the same context), `pause`, `resume`, `cancel`, the caller's abort signal | awaits the step executor and the replan callback; calls event handlers synchronously |
| Execution engine | the stage of each execution | `execute`, the abort signal | awaits memory and planner, runs the loop with a default executor |
| Execution records (serializer, history, checkpoints) | checkpoints, history entries | save, read back, validate | nothing; nothing in the repository resumes from one yet |
| Hermes kernel `Hermes.ts`, `HermesLifecycle.ts`, `HermesModuleRegistry.ts` | lifecycle phase and queued transitions, module records | `start`, `stop` (drains the modules), `registerModule`, `unregisterModule` | awaits modules' shutdown handles; tells transition handlers |
| Hermes plugin loader | skipped entries | discover, load, unload | registers through the facade, past the kernel's phase check |
| Hermes health monitor | last answer of each module | `health`, `moduleHealth` | awaits every module's probe at once |
| Hermes event dispatcher | its subscription | `dispose` | hears the lifecycle's transitions, publishes on the event bus without waiting |
| Startup manager `runtime` | steps, status | `addStep`, `removeStep`, `start` | awaits each step, races a timer |
| Shutdown manager `runtime` | steps, status, one flag | `addStep`, `removeStep`, `shutdown` | awaits each step, races a timer |
| Health manager `runtime` | checks, last answer | `register`, `unregister`, `readiness` | awaits the checks one by one |
| Plugin discovery `plugins` | nothing between calls | `discover`, the validators | awaits the file system, entry by entry |
| Plugin platform `plugins` | registry of plugins with a phase each | `loadAll`, `startAll`, `stopAll`, `disposeAll`, `unregister` | imports modules, awaits each plugin |
| Tool executor and registry `llm/tools` | tools, event handlers | `execute`, `register`, `unregister` | awaits handlers against a timer |
| Planning engine `llm/planning` | event handlers | `plan`, `replan` | nothing: planner and validator are pure |
| LLM and memory registries | providers, default | `register`, `unregister`, `setDefault`, `clear` | nothing |
| LLM providers, streaming | a mock's script, what a stream has yielded | `chat`, `embeddings`, `stream`, accumulate | third-party HTTP, through a log and a span |
| Memory `memory` | provider's records, index and its queue, policies, query cache | `initialize`, `store`, `delete`, `query`, `setPolicy`, `close` | awaits the provider |
| Graph `graphiti` | nodes, edges, two adjacency lists | add, update, remove, search | written by the Graphiti event writer on the loop's events |
| Graph routes `apps/api/src/routes/graph.ts` | a log of changes | list, page, snapshot, subscribe | read the graph and listen to it |
| Adapters (telegram, discord, webhook, email, whatsapp, mcp, cli) | bot or client, started flag, last error, gauge | `initialize`, `start`, `stop`, `health`, dispatch of a request | a service outside; the kernel, under its permissions |
| Terminal session `adapters-cli` | what the input line holds, lines read so far, exit code | parse, dispatch, exit | the CLI adapter |
| API server `apps/api`, `auth` | requests under way, gauge, stage of the process | listen, the routes, the signals | the kernel; an authentication backend |
| Dashboard: fetching | graph or data on a page, the time selected | fetch, merge, poll, play | the API |
| Dashboard: knowledge graph | layout, filters, selection and its history, canvas, camera | lay out, filter, search, select, back, forward, draw, click | the graph fetched |
| Configuration `config` | registry of configurations | load sources, validate, register | nothing |
| Observability | counters, histograms, spans, a log | count, observe, log, trace | sinks that may throw |
| Scripts of the workspace | manifests on disk | check cycles and layers; sync, bump, validate; validate packages | the file system, from separate processes |
| SDK, stubs | none | | |

What makes each of them correct, and what is hard about it:

* *Execution loop.*  No call of `execute()` repeats a step it saw succeed, none is tried
  more often than the retry policy says (and once for every further call), the recorded
  outcome is the outcome, and a checkpoint describes what happened.  Hard: callers act at
  every await and in every event handler; a pause or cancel lands between a check and its
  use; `execute()` is accepted again while the context is paused or replanning, and two
  loops then share one state.
* *Execution engine, planner.*  What is planned can be run, and the result says
  what ran.  Hard: memory, planner and steps are three parties that may each
  refuse or be aborted; two validators look at different things.
* *Kernel.*  Phases follow the documented edges; a drain shuts dependents down
  before what they depend on; `STOPPED` means that all drained.  Hard: the drain
  awaits one module at a time while registrations, removals, failures and a
  second `stop()` go on; transition handlers ask for transitions.
* *Health manager and monitor.*  A report covers what was there and says what the
  probes said.  Hard: the map of checks is live under the walk; polls overlap.
* *Startup and shutdown managers.*  Steps in dependency order, undone in reverse,
  and the call returns.  Hard: the timer ends the call, not the run behind it.
* *Discovery, loader.*  Every plugin that is there and whole is found, and the rest is
  said to be skipped.  Hard: the disk changes at every await; what a plugin registered
  is told from a module count that others change.
* *Plugin platform.*  A plugin is asked to start, stop and dispose at most once
  and in order, and the phase on record is what happened to it.  Hard: every walk
  over the registry uses a snapshot across awaits, and a load swaps placeholders
  for plugins under it.
* *Tool executor.*  A call ends once, and the last event tells how.  Hard: handler
  and timer race, event handlers throw into the code that emits.
* *Memory.*  What is stored is indexed from end to end, and an answer is what was
  asked for.  Hard: index and cache are updated beside the provider, and a cache
  key stands for a query.
* *Graph, event writer.*  Edges and listings agree; nodes tell what became of the
  executions.  Hard: ids are reused, executions share nodes.
* *Records.*  What is read back of a saved execution is what was saved.  Hard: JSON loses
  and changes data, and checkpoints share the live list of results.
* *Graph routes.*  Pages follow each other, a snapshot is the graph, the log tells the
  changes.  Hard: limits, listeners that leave while they are being told.
* *Providers, streaming.*  What was asked is sent, the answer is what was sent, and an
  error keeps its reason.  Hard: several vocabularies of roles, errors and ends; pieces of
  several tool calls, streams that end or break in the middle.
* *Adapters, API server.*  Every path out of a dispatch counts and answers for
  what was done, `started` is the connection, the process exits when the kernel
  has stopped.  Hard: a dozen paths, lifecycle calls at every await, timers.
* *Configuration.*  Later sources win, path by path.  Hard: scalars over objects,
  coerced environment variables, defaults.
* *Dashboard.*  A page shows the last answer, and what is drawn and clicked is the graph
  shown.  Hard: fetches overlap and end after the page was left; drawing lags behind the
  state; layouts must place every node of any graph, cyclic or not closed.
* *Scripts, validators.*  A graph of dependencies is refused exactly when no order would
  do; what passes is consistent.  Hard: depth-first searches that pass over what they do
  not know, runs killed halfway, edits in between.
* *Observability.*  Nothing is counted twice, percentiles are ranks.  Hard: labelled
  children, boundaries of buckets and ranks, sinks that throw.

The hazards, each at its line and with the properties that would catch it, are
in `PROJECT.json`; the one that no property covers says why.

## Modules and the code

| module | models |
| --- | --- |
| `ExecutionLoop` | `ExecutionLoop.ts` over the context, state machine, retry manager, checkpoints and history; its properties and the refinement mapping |
| `ExecutionContract` | abstract: what an execution promises |
| `MCExecutionLoop`, `ExecutionLoopProofs` | TLC instances; proofs |
| `SequenceFilters` | `Array.filter()` and `Array.sort()`, for the two above, `StartupManager`, `PluginPlatform`, `Memory` and `GraphOperations`, with their lemmas |
| `HermesKernel` | `Hermes.ts`, `HermesLifecycle.ts`, `HermesModuleRegistry.ts`, the loader's facade; its properties |
| `MCHermesKernel`, `HermesKernelProofs` | TLC instances; proofs |
| `HermesPluginLoader` | `HermesPluginLoader.ts`, composed with `HermesKernel` |
| `HermesEventDispatcher` | `HermesEventDispatcher.ts`, composed with `HermesKernel` |
| `StartupManager` | `StartupManager.ts` |
| `ShutdownManager` | `ShutdownManager.ts` |
| `PluginDiscovery` | `PluginDiscovery.ts`, `PluginMetadataValidator.ts`, `PluginDependencyValidator.ts` |
| `PluginPlatform`, `PluginPlatformProofs` | `PluginPlatform.ts`, `PluginRegistry.ts`, `PluginLifecycleManager.ts`, `PluginConfig.ts`; proofs |
| `DependencyChecks` | `validateStepOrdering()` of `ExecutionValidator.ts`, `scripts/check-cycles.ts` |
| `WorkspaceScripts` | `scripts/version-manager.ts`, `scripts/validate-packages.ts` |
| `Observability` | `metrics.ts`, `adapter-metrics.ts`, `tracer.ts`, `logger.ts`, `context.ts` |
| `HealthManager`; `HealthMonitor` | `HealthManager.ts` of the runtime; `HermesHealthMonitor.ts` |
| `Configuration` | `ConfigLoader.ts`, `ConfigProvider.ts`, `ConfigValidator.ts`, `ConfigRegistry.ts` |
| `Adapters` | the seven adapters, over `kernel-permissions.ts` |
| `HostProofs` | proofs about `StartupManager`, `ShutdownManager`, `Adapters` and `ApiServer` |
| `InboundRequests` | routing, parsing and signatures of the webhook adapter, `parseCommand.ts` of the mail adapter |
| `CliSession` | `ArgvParser.ts`, the dispatch, session and exit codes of `CliAdapter.ts`, `PluginsCommand.ts` |
| `ApiServer` | `server.ts`, `app.ts`, `authPlugin.ts`, `routes/hermes.ts`, composed with `HermesKernel` |
| `GraphApi` | `routes/graph.ts` and the queries and listeners of `InMemoryGraphiti.ts` |
| `Dashboard`; `Polling` | `useGraphData.ts`, `TimelineControl.tsx`; `usePolling.ts`, `api/client.ts` |
| `KnowledgeGraph` | `layouts.ts`; `knowledge/page.tsx`, `GraphifyCanvas.tsx`, `GraphifyToolbar.tsx`, `useGraphSelection.ts` |
| `ToolExecutor` | `ToolExecutor.ts`, `ToolRegistry.ts`, `ToolValidation.ts` |
| `AgentProofs` | proofs about `ToolExecutor` and `GraphitiEventWriter` |
| `Plans`, `PlanningEngine` | the pure part and the calls of `PlanningEngine.ts`, its validator and strategies, `ExecutionValidator.ts` |
| `ExecutionEngine` | `ExecutionEngine.ts`, composed with `Plans` |
| `ExecutionRecords` | `ExecutionSerializer.ts`, `PlanSerializer.ts`, `ExecutionCheckpoint.ts`, `ExecutionHistory.ts` |
| `Memory`, `MemoryProofs` | `MemoryManager.ts`, `MemoryIndexer.ts`, `MemoryRetriever.ts`, `MemoryProvider.ts`, ranking, filters and policies; proofs |
| `ProviderRegistries` | `LLMRegistry.ts`, `MemoryRegistry.ts`; proof in `MemoryProofs` |
| `ProviderCalls` | `OpenAIProvider.ts`, `mapping.ts`, `errors.ts`, `observability.ts`, `MockProvider.ts`, `LlmProviderFactory.ts`, `ToolTranslator.ts` |
| `GraphOperations`, `InMemoryGraphiti`, `GraphitiEventWriter` | the graph as operators; its use by anyone, with the proof; its use by the event writer on `ExecutionLoop`'s events |
| `LLMStreaming` | the stream of `OpenAIProvider.ts` and `MockProvider.ts`, and `streaming.ts` |
| `MCHost`, `MCAgent` | compositions for TLC: what runs around the kernel, what an agent works with |

`MCHost` and `MCAgent` run many parts in one TLC run.  These parts share no state
in the code: each is an object of its own, and what they say to each other is in
their models as inputs.  So a behaviour of the composition is a behaviour of one
part, chosen in the initial state; the slots `s1`, `s2`, ... are the variables of
that part.  The parts with theorems keep their own variables and names, so that what is
proved is what is checked: the plugin platform, the startup, shutdown and health managers,
the adapters and the API server in `MCHost`, the tools, the memory, the graph and its writer in
`MCAgent`.  Interleaving two parts with each other would only multiply states.
Where parts do share state the composition is in the module itself: `ApiServer`
runs on a whole `HermesKernel`, and so do `HermesPluginLoader` and
`HermesEventDispatcher`; `ExecutionEngine` runs on `Plans`, `GraphitiEventWriter` and
`GraphApi` on `GraphOperations`.

A definition whose comment begins with `mutant:` is no part of a model.  It is a
plausible bug, named as the mutant of some property in `PROJECT.json`: put in the
place of the definition it varies, it must make that property fail.

**ExecutionLoop.**  There is one context and several calls of `execute()` over it
(`Calls`): `ExecutionLoop.ts:106` accepts a call whenever the status may become `running`,
which it may from `paused`, `replanning`, `waiting` and `retrying` too.  `pc[c]` names the
point call `c` has reached; an action is the stretch up to the next await or the next event
handlers.  A handler may call `execute()` itself, so the calls that are between two awaits
form a stack, the latest on top: `Runs` lets only the top one go on, `Continues` lets a
call come back from an await only when the stack is empty, and `OthersRun` keeps callers
out where no handler runs.  `executeStep()` is cut where its handlers are: `BeginStep` ends at
`emit(StepStarted)` (point `announced`) and `HandOver` gives the step to the executor
afterwards, whatever those handlers did.  `StepSettles` keeps result and checkpoint;
`MarkCompleted`, `MoveOn`, `MarkFailed`, `AfterFailure` and `BackOff` are what follows, with
the handlers in between.  A plan is a sequence of step ids; ids may repeat, since nothing
validates a plan.  Of each result it is kept which call recorded it (`by`), which only
properties read.  Event payloads, times and the results' data are left out; of the history
only the entries about the execution as a whole are kept.  `TypeOK` says nothing of
`checkpoints`, which only `CheckpointsTellTheRun` reads.

**HermesKernel.**  Calls are single steps, except for `stop()`: `StopDrains`
moves to `STOPPING`, takes the snapshot and invokes the first handle, and
`ShutdownSettles` is one handle's end (settled, failed or past its deadline) and
what the drain does up to the next.  `life.trail` is what handlers have been
told.  A handler may ask for one transition of its own per transition it hears
of (`Reactions`), which is queued as `HermesLifecycle.transition` queues it.
`OwnerTransition` stands for whoever supplied `options.lifecycle`:
`createHermes()` itself never moves on from `STARTING`.  The owner and the
handlers may take any transition except to `STOPPED`, which is the drain's
(`OnlyDrainsStop`).

**StartupManager.**  A call of `start()` is a race between a run (`pc`, `order`,
`started`, `undo`) and a timer (`race`).  `StartTimesOut` ends the call and not
the run.  `up` is not in the code: it is the set of steps that are up, which the
properties compare the status with.  `TopologicalSort` keeps what the recursive `visit()`
has still to do as a list: the names to visit, and the steps to place once their
dependencies were visited (`Turn`).  A turn visits a name for the first time or places its
step, so twice as many turns as there are steps are enough (`Iterated`).

**ShutdownManager.**  As above, with `shuttingDown` keeping out further calls,
which are answered at once.  Steps are added and removed before the run takes
them; afterwards they no longer matter.

**PluginPlatform.**  A lifecycle call holds the snapshot it has still to walk
(`todo`); `GoOn` passes over those whose phase *in the registry* is no longer
the expected one, exactly as `executeTransition()` looks the plugin up again,
and calls the plugin of the *snapshot*.  A load registers placeholders, then
imports one entry after the other and swaps.  `asked` is not in the code: what
each plugin was asked to do since its registration.  Configuration is a value
per source, `unset`, `valid` or `invalid`, merged as `createPluginConfig()` does.
`Valid` is the set of places of the entries a load may register, `New` those it
does, in order; what it imports are the entries of the *ids* it registered.
`PlatformAssumption` says what discovery hands over and which operations there are: the
same source is the same id, and an id may be found in two directories.
`UnregisterPlugin` is a caller that lets a plugin come to rest first; a careless
one makes the code update the record of another plugin under the same id.

**The other modules.**  In all of them an action is the stretch between two awaits,
and a record per call (`calls`, `requests`, `polls`, `asked`, `execs`) holds how far
the call has come and what it read before the await.

* `ToolExecutor`: `calls[c].running` is the handler, `pc` the caller; `TimerFires` ends
  the one and not the other.  `faulty` are the events a handler throws on: a throw on
  `ToolCompleted` goes to the `catch` block as in the code, so a call can have both
  events, and the last one is the result.  Arguments are types.
* `Plans`: a plan is a sequence of steps with id, tool, whether it is described, and
  dependencies.  `Planned` is `generatePlan()` and both validations.
* `Memory`: contents are lengths, and chunks are intervals; importances are tenths and
  scores three-thousandths.  The provider changes at the call and the index one microtask
  later: `queue` holds those continuations, in order.  A query reads the provider in
  `Ask`, and filters, ranks and hands over in `Answer`.  The ranking is an `Ordering` by
  score, and by place where scores are equal, since the sort is stable.  `lost` is not in
  the code: the ids `close()` took from the provider, whose chunks the index keeps.
  `MemoryAssumption` gives the fields of inputs and queries their types and says that
  chunks overlap by less than their size.
* `Adapters`: one module for seven adapters, since they have the same operations;
  where they differ a set of kinds says so (`Telegram`, `HostFed`, `Remote`).
  `connection` is the service outside.
* `Configuration`: a configuration is a function from paths to scalars, and a source
  that has a scalar where another has an object removes what is below it.
* `ApiServer`: `kind` and `credential` of a request stand for its method, path and
  headers.  `Kernel!Stop` is the real stop, with its drain.
* `Dashboard`: fetches read the page's state when they end, not when they begin.
* `HermesPluginLoader`: `loads[l]` holds the module count read before an import and the
  entries put off to the single retry; `files` is what is on disk and how it behaves.
* `PluginDiscovery`: one action per `stat`, `readdir` and `readFile` that settles, and the
  disk may be another one at each.
* `DependencyChecks`, the layouts of `KnowledgeGraph`: depth-first searches as recursive functions, beside
  a reference definition over the relation of the edges.
* `CliSession`: the interactive session's readline is one of a terminal, and `rl.write(prompt)`
  (`CliAdapter.ts:323`, `:340`) types the prompt into its input line.  `prompted` says that it
  stands there: the next line read is the prompt and what was typed (`WithPrompt`), which is no
  command, no `exit` and no `help`, and when the stream ends it is a line by itself.  What was
  typed ahead (`read`) has no prompt before it.  A line is typed at once: a prompt that comes
  into the middle of one is left out.  readline is that of Node 20 to 22; a later one throws
  when written to after it was closed.
* `InboundRequests`, `CliSession`: words, headers and bodies are tokens; what the parsers do
  with prefixes, case and quoting is what is told apart.
* `Observability`: a histogram is a sequence of values; spans are opened and ended by
  requests that overlap.  A log line is a level and a request.
* `GraphApi`: a log of changes with stamps, of which `since` and `limit` select some.
* `ExecutionRecords`: a field that JSON drops, changes or cannot hold is the value
  `"none"`, `"date"` or `"bigint"`; a checkpoint refers to the live results.
* `ProviderCalls`: an error is what the SDK's classes and fields are looked at for.
* `WorkspaceScripts`: a run writes one manifest per step; it may be killed between and
  within writes, and developers edit what it has not written.
* `KnowledgeGraph`: the state of React beside what is on the canvas: `canvas` holds the
  positions clicks are tested against, `screen` what was drawn last.  Coordinates are levels
  and places on them; the force-directed layout is any placement.

## Runs, bounds and what they show

| run | instance | shows |
| --- | --- | --- |
| `loop` | 2 steps, a plan that repeats a step, replans to no, fewer or more steps, 2 attempts, one pause, two calls of `execute()` over one context | the properties of the loop, that it implements `ExecutionContract`, and that it settles |
| `kernel` | 3 modules in layers (the lowest required), 2 callers of `stop()`, an owner that runs or fails the kernel, handlers that ask for `RUNNING`, `STOPPING` or `FAILED` | registry, trail, drain order, and that drains end |
| `host` | twenty parts, below | statuses, reports, replies and pages tell what happened; orders are kept; timers answer |
| `agent` | eleven parts, below | events, results, index, graph and answers agree with what was done |
| `loop_replan`, `loop_pause`, `loop_overlap`, `kernel_api`, `startup_timeout`, `engine_planner`, `llm_stream`, `api_gauge` | smaller instances, or one part | [what does not hold](#what-does-not-hold) |

Which part of `host` and `agent` a property is about is in its definition.  Several parts
share a property when they promise the same thing: `BlockedMeansUnorderable` is
asked of the startup sort, of both searches for cycles, of plugin dependencies and of
manifests; `ReportsTellTheProbes` of health, telemetry, discovery, the
kernel's plugin loader and the events the bus is given; `AnswersMatchTheKernel` is about
the API server; `InputsAreReadRight` of
configuration, terminal and inbound requests; `ReportsCoverTheChecks` is of readiness; `AdaptersTellWhatIs` joins gauge, replies and flag of an
adapter; `PagesShowTheLastAnswer` of the pages and the
canvas; `PlansRunAsTold` of planner, engine and records; `AnswersTellWhatIs` of streams,
calls of providers and the graph's routes.  Of the memory there are
three: `IndexFollowsTheRecords`, `AnswersFitTheQuery` and, for the functions that hosts
evict and merge with, `HousekeepingKeepsTheBest`.  `CallsTellTheirResults` is about tools,
`GraphStaysWhole` about the in-memory graph, `GraphTellsTheExecutions` about its writer.

Bounds and why they are enough:

* *Loop.*  `MaxPauses` bounds how often `pause()` takes effect and `MaxExecutes`
  how often `execute()` is called; nothing in the loop counts either.  Two calls are the
  least that share a context, in a stack or one beside the other, and one pause is what
  lets the second in (a replan is another way).  Two steps are one before and one after
  the index, and a replan may be to three; two attempts give one retry and its exhaustion.
  The proofs have no bound on any of these.
* *Kernel.*  Three modules are the least for a dependent of a dependent, two
  callers the least for one `stop()` in another.  Unregistration and
  re-registration of a name are unbounded.  Every module can have any outcome.
  A handler's reaction is one transition per transition heard.
* *Startup.*  Two calls are the least that overlap; three steps, two of one name, make
  a chain with something to skip when undoing, a cycle with something outside it, and
  a name that hides another.  `RunningMeansUp` and `FailedStartIsUndone` are stated for
  runs that no other overlaps: nothing in the code keeps two apart, and overlapping
  runs break both.
* *Shutdown.*  Three steps and three callers: one that drains, one meanwhile, one after.
* *Plugins.*  Two plugins that start (with one, a stale snapshot does no harm), one that is
  configured wrongly, an incompatible one; two loads, two starts, two stops and
  a dispose at once.  No call of `initializeAll()` is made in the checked instance: next to
  a load in progress it breaks `AskedInOrder`, `PhaseTellsWhatWasAsked` and
  `LoadsHandleEverything` (a load of its own plugins initializes them itself).
  `unregister()` of a plugin some call has before it is left out too (`UnregisterPlugin`).
  One id is found in two directories: the second entry is reported as failed, but
  `PluginPlatform.ts:184` asks for its id only, so it is imported all the same and takes the
  first one's place.  `AskedInOrder` and `PhaseTellsWhatWasAsked` are stated of the entries
  whose id is found once (`Alone`), which the others must not disturb, and
  `LoadsHandleEverything` of all.  Of the entries of one id the two do not hold: the one put
  in second is asked to shut down without ever having started.
* *Health.*  Three checks under one poll (the least for something before, at and
  after the one awaited; stamps are bounded by `MaxStamp` registrations), two modules
  under two polls.
* *Configuration.*  A schema with a default, a required enum and a closed object; two
  attempts; three orders of sources, one with late defaults; for each source values that override, that
  change the kind, that are invalid, that an `undefined` or `null` string makes so.
* *Adapters, API server.*  Two lifecycle calls and two requests at once, an action only
  admins have and one all have; two requests and a signal over a kernel of one module.
* *Loader, dispatcher.*  Two entries of which the first needs the second, and a module of
  the owner's, whose names may also be taken by hand; one load with its retry.  One
  required module under a `stop()` that overlaps the start.
* *Discovery.*  Two directories, each with any of five contents, that may change at every
  await; versions around the one of Agent OS, ranges with and without a prefix.
* *Dependencies.*  Every graph of three nodes and an unknown name, in two layers: the least
  with a cycle outside of which a node stands, and with a diamond.
* *Workspace.*  Three manifests, a version with a suffix among three, one edit and two runs,
  each of which may be killed at every write.
* *Observability.*  Four operations of two values on two adapters (too few values for the
  pairs of `ComesOutAbove`, where the rank is computed one too high in floating point; they
  are listed for up to sixty values), two requests that log
  once and nest their spans, a sink that works and one that may not.
* *Terminal, inbound.*  Sessions of two of thirteen lines, for two roles, of which the second
  may be typed before or after the prompt; four tables of
  routes, three paths, seven bodies, five headers; subjects of up to four words.
* *Dashboard.*  Three fetches, two versions of a graph, two histories; three fetches and
  every shape of an envelope.  Knowledge graph: `MaxEvents` 5 events of a user or of the
  network, `MaxHistory` 3 selections (the code has no bound), two graphs that list their
  nodes in other orders, two layouts.  Layouts: every graph of up to three edges over three nodes
  and one that is not listed, in two orders.
* *Tools.*  Three calls, one that fits every version of the tool, one some, one none;
  four versions, any of which may be registered at any time.
* *Planner, engine.*  Up to three tools, disabled or without a description, bounds of
  none, 0, 1, 3 and 4 steps around the 2 and 3 that plans have; three executions, with
  this planner, with any other and with none.
* *Memory.*  Two records at a time of no, one and three chunks (chunk size 10, overlap
  3), two queries of different users of which one filters by nearly everything, one asker
  with a cache.  That a cached answer may go to a query of other thresholds is left to the
  proofs, which have no bound.
* *Records.*  Three plans of up to two steps, three results and two checkpoints; four
  outcomes of which one is changed by JSON and one refused by it.
* *Routes.*  Two nodes, an edge and three changes; pages and snapshots of one node.
* *Providers.*  Four configurations, two conversations, three replies, ten failures
  that say the same in several ways; two callers.
* *Graph, writer.*  Three nodes, two edges and loops, paths up to two edges; two
  executions of two steps that share one, one retry; the writer's theorem has no bound.
* *Streams.*  Two tool calls of up to two pieces side by side, usage in any chunk, one chunk
  after the finish reason, and mocks that break.

Deadlock is not checked: each of these systems may come to rest.

## What does not hold

Each of these is a sentence of the repository, stated as a property, with a run
in which TLC shows the code do otherwise.

* `CompletedMeansPlanDone` (run `loop_replan`).  `docs/architecture/execution-loop.md`
  lines 91 and 101: an execution is completed when all steps are.  A replan keeps
  the step index (`ExecutionLoop.ts:206`), so the head of the new plan is skipped.
* `AllStepsDoneCompletes` (`loop_pause`).  Same lines.  A pause during the last step
  makes the transition to `completed` throw, then the one to `failed`, and
  `execute()` rejects with the status still `paused`.
* `StopDrainsEverything` (`kernel_api`).  `hermes.md:352`, and `:341` that `start()` does
  not leave the kernel in `STARTING`.  It does, and `stop()` from there, which is what
  `apps/api/src/server.ts` does on `SIGTERM`, fails the kernel and drains nothing.
* `TimeoutRollsBack` (`startup_timeout`).  `docs/operations/startup.md:66`.  A timeout
  rolls nothing back; the run goes on and may still end as `running`.
* `StepsRunOneAtATime` (`loop_overlap`).  `ExecutionLoop.ts:6`: the loop executes one step at
  a time.  `execute()` on a paused or replanning context is accepted and runs a second loop
  over it; both give a step to the executor, which may be the same one.
* `GoalWithToolsIsPlanned` (`engine_planner`).  `ExecutionEngine.ts:69` and
  `docs/architecture/execution-loop.md:56`.  The engine describes every tool by the empty
  string (`:148`), and the planner's validator refuses a step without a description
  (`PlanningValidator.ts:154`): with tools, the two parts cannot be used together.
* `ToolCallsKeepTheirIndex` (`llm_stream`).  `docs/architecture/llm.md:180`.  The index is
  the position in the delta (`OpenAIProvider.ts:343`), not the vendor's.
* `GaugeIsTheActiveRequests` (`api_gauge`).  `adapter-metrics.ts:11`.  Preflights are taken off
  a gauge they were never put on (`app.ts:105`).

Elsewhere a document or a comment says one thing and the code does another, and there is no
run of its own: the properties below are stated of what the code does, and hold where the
sentence does not.

* *Checkpoints.*  `validateCheckpoint()` (`ExecutionValidator.ts:156`, and
  `ExecutionCheckpoint.ts:78`) refuses a checkpoint whose current step is a completed one.
  Every checkpoint taken after a success is like that, so the repository's own validator
  would take none of them for a resumption.  `CheckpointsTellTheRun` says what they do tell, and
  that this is the only reason to refuse one while `execute()` is called once.
* *Kernel.*  `hermes.md` 5.2, step 4, and 7.5: `STOPPED` is reached when at least one drain
  succeeded, and modules past their deadline do not matter.  One module that fails or is late
  makes it `FAILED` (`Hermes.ts:234`).  `StoppedMeansDrained` is therefore stricter.
* *Shutdown.*  `operations/shutdown.md:64`: past the timeout the remaining steps are
  abandoned.  They are not; the run goes on telling them, and its end replaces
  `timed-out` by `stopped`.  `:33` has the steps in the order they were added, the code
  (and `ShutdownIsOrderly`) in the reverse order.
* *Plugin configuration.*  `PluginConfig.ts:28`: a lower number is a higher priority, and `:92`
  gives the environment the highest, 0.  The sources are merged in ascending order, the
  later over the earlier, so the environment loses to the global configuration.
* *Plugins.*  `PluginPlatform.ts:97` reports an id found twice as failed; `:184` imports it.
* *Registries.*  `docs/architecture/llm.md:137`: `unregister()` clears the default.
  `LLMRegistry.ts:34` makes the first of the others the default, which is what
  `DefaultIsRegistered` asks for.
* *Planner.*  `planning-engine.md:69` and `:148`: more than `maxSteps` steps are a
  `MaxStepsExceededError`.  The planner cuts instead, and never below its two steps of
  reasoning: with `maxSteps` 1 a plan has two (the exception in `PlansAreExecutable`).
* *Memory.*  `MemoryTypes.ts:252` and `memory-framework.md:53`: memories of a pinned policy
  survive eviction.  `isPinned()` (`MemoryPolicies.ts:110`) looks at the record's `readOnly` only,
  and eviction with it (`HousekeepingKeepsTheBest`).
* *Language models.*  `llm.md:59`: every public method emits a log.  A mock that has no
  streaming or no embeddings throws before, a stream is logged when it opens, and what
  happens to it then is not (`LinesTellTheCalls`).  `llm.md:97`: status, then code.  Each kind of error
  is tried by both before the next, so that a 429 with `insufficient_quota` is
  `AUTHENTICATION_FAILED` (`ErrorsKeepTheirReason`).  `llm/src/observability.ts:31`: a span ends
  after the asynchronous body; it ends at the body's first await (`SpansTellTheFirstPart`).
* *Streams.*  A chunk with a choice and the usage has a finish reason though the vendor
  gave none (`OpenAIProvider.ts:355`): "stop" replaces an earlier "tool_calls", and a chunk
  without either makes it "unknown" (`AnswerIsWhatWasSent`).
* *Terminal.*  The help offers "help, exit, quit" (`CliAdapter.ts:390`).  Once the prompt has been
  written none of them is recognised, nor any command: the line read is the prompt and the
  word, which is an unknown command and exit code 2, at the end of the input as well
  (`SessionTellsWhatRan`).

Further observations made while modelling, which no sentence of the repository
denies, and around which the properties are stated:

* A second `stop()` during a drain fails the kernel (`Hermes.ts:304`), and the drain that
  goes on cannot reach `STOPPED`.  `StopReturnsAtTheEnd` allows for it.
* The query cache's key leaves out `includeReadOnly`, `minImportance` and `minScore`
  (`MemoryRetriever.ts:142`), so that a cached answer may be one to another query;
  `AnswersFitTheQuery` asks of a cached answer what the key holds.
* `close()` empties the provider and not the index: `lost`.
* Polling that breaks leaves `started` set, and `health()` healthy
  (`TelegramAdapter.ts:187`); a failed `initialize()` leaves the bot: `disturbed`.
* The mail adapter's table has `modules`, `KNOWN_COMMANDS` has `plugins`: neither can be
  asked for.  A webhook's `lastError` is never cleared.
* A defaults source after others drops the keys it does not name and fills only sections
  nobody spoke of (`ConfigLoader.ts:99`, `LateDefaultsOnlyFill`), and `LOG=null` before
  `LOG_LEVEL=...` throws.
* Executions with a step id in common share its node, and `ExecutionCancelled` is not
  handled by the event writer: `GraphTellsTheExecutions` says what is left.
* A throw from a `ToolCompleted` handler makes a finished call a failed one.
* `requireAction()` of `auth` is used by no route.

Plugins and kernel:

* `loadPlugins()` tries what was skipped once more: of a chain a, b, c in path order, each
  needing the next, `a` stays out.  A plugin that registers and then throws is reported as
  skipped though it is in, and a file that vanished makes the whole call reject.
* The dispatcher does not await `bus.publish()`: what an asynchronous bus rejects with is
  nobody's to catch.  "hermes.initializing" is declared and never published, as
  nothing makes that transition.
* `validatePluginManifest()` refuses the "^" and "~" that the dependency validator
  understands; a manifest without a description is passed over in silence.

Executions:

* A checkpoint holds the context's live list of results.
* An `execute()` that is refused has restarted the context's clock and history by then.
* `cancel()` stops no step, and after `abort()` a step may start on the way out of a pause.
* `serializeCheckpoint()` loses the goal and the completed and remaining ids, and throws
  on a bigint; `deserializeExecution()` takes a text without an `executionId` that
  `validateSerialized()` refuses.
* `ExecutionLoop.emit` ends in the comment "Also forward to context event emitter" and does
  not.

Memory and graph:

* `rankMemories()`'s default `now` is when the module was loaded, so that scores may exceed
  the 0..1 of its comment.  `q.embedding`, `MemoryPolicy.pinned` and `enforcePolicy()` have
  no effect; `filterExpired()` drops read-only records too.
* `/history?limit=0` returns everything, and a `limit` that is no number gives no nodes.  A
  snapshot is cut at 1000 nodes, and may hold edges to nodes it does not list.
* A listener of the graph that unsubscribes while being told makes the next one miss the
  change (`skipped` in `GraphApi`); `clear()` tells nobody.
* `/v1/agents` and `/v1/modules` take `count` from `status()` and the items from `health()`.

Language models:

* A 409 is retryable and a `PROVIDER_ERROR`; errors in the middle of a stream are not
  mapped at all, and come after the stream was logged as succeeded.
* `embeddings()` does not fall back on the default model; no tools are sent as `tools: []`;
  `error` of a mock's answer does nothing without `errorAfterChunks`.  The translators
  build `required` from a parameter's flag, the validation from the list it stands in.

Ways in:

* A refusal inside the `plugins` command is `INTERNAL` (exit code 1) and not `PERMISSION`
  (3); "exit" sets the exit code back to 0; `--json --help` is plain text.
* A body the webhook cannot read is answered by 500.  The signature's header is looked up
  as configured among lower-cased ones (`types.ts:80` says case-insensitively), and
  `verifyHmacSha256()` always reads `x-webhook-signature`.
* Prefixes of a mail's subject are taken off once and in a fixed order.

Observability, scripts:

* The children of `labels()` are copies that no exporter sees; a sink that throws makes the
  logging call throw.  Rounding puts the 7th percentile of 100 values at the 8th.
* Bumping the patch of a version with a suffix writes "x.y.NaN" everywhere; a torn
  manifest is passed over; `validate-packages` looks for the key of a plain export instead
  of its file.

Dashboard:

* `drawGraph` does not depend on nodes and edges (`GraphifyCanvas.tsx:298`): new data, filters
  and layouts are drawn at the next selection, hover or move of the camera, while clicks
  already use the new positions.  Every poll computes the layout again, and the force layout
  starts from random places.
* Layers of the dag layout are in-degrees and not path lengths, and targets of edges from
  nodes not listed stay at the origin; the roots of a radial layout share a point.
* The canvas never calls `onEdgeClick`; a double click selects twice and centres with the
  old zoom; "Fit" does nothing; a selected node that vanished stays selected.
* Selecting a time stops the polling and nothing else, and answers still come in after it;
  Play without entries stays "playing".

## Fairness

Only what the event loop and the timers guarantee is assumed:

* `ExecutionLoop`: of every call `c`, `WF(Run(c))`, the code between awaits and the timers of
  a delay or a poll.  `WF(ExecutorSettles(c))` and `WF(ReplanSettles(c))` are an assumption on executors and
  planners, since `execute()` sets them no deadline.  Callers owe nothing: nobody
  has to resume, so a call left paused may wait for ever, and
  `SettlesUnlessLeftPaused` says that this is the only way.
* `HermesKernel`: `WF(Settles(c))`, since each handle is raced against its deadline.
* `StartupManager`, `ShutdownManager`: `WF` of the timer and of the return.  Steps may
  hang for ever.  The timers are `unref`'d: a process with nothing else to do exits,
  which ends the call in another way.
* `ToolExecutor`: `WF` of each call's timer.  `Adapters`: `WF` of the webhook's timer and of
  the end of a body (Node's HTTP server gives bodies a deadline).  `ApiServer`: `WF` of the
  exit timer.  Handlers, drains and services may hang.
* `ExecutionEngine`: `WF(GoesOn(e))`, an assumption on memory, planner and steps: the
  engine sets them no deadline.
* The others: none.  Nothing bounds a plugin's calls or a fetch, and no liveness is
  claimed.

## Proofs

All proofs are checked by TLAPS for all values of the constants.  They assume
`LoopAssumption` (plans are sequences of step ids, the bounds are naturals),
`KernelAssumption` (`Owner` and `Reactions` are phases, `required` is Boolean),
`OnlyDrainsStop`, `PlatformAssumption` (discovery finds records of entries, one source has one
id, no plugin is the placeholder), `MemoryAssumption` (above), and of the
registries that `None` is no id.  What a theorem assumes
beyond that is in its statement.

*Execution loop.*

| theorem | says |
| --- | --- |
| `TypeCorrect` | `Spec => []TypeOK` |
| `StepsSucceedOnce` | `Spec => []NoStepSucceedsTwice` |
| `HistoryClosedOnce` | `Spec => []HistoryAgreesWithStatus` |
| `BudgetKept` | `Spec => []RetryBudget` |
| `LoopImplementsContract` | `Spec => ImplementsContract` |
| `HaltsAreKept` | `Spec => NoStepStartsWhenHalted` |
| `CompletionIsEarned` | `Spec => []CompletedMeansEveryStepSucceeded` |
| `CompletedMeansDone` | `Spec => []PlanDoneUnlessReplanned` |
| `CheckpointsTell` | `Spec => []CheckpointsTellTheRun` |

They hold for any plans, any number of calls of `execute()` and of pauses.  Most of them
speak of what a step does through `StepEffects`: whatever the action, the step states, the
results, the attempts and the index change in one of a few ways (`Effect`: a step is
announced, refused, settled, marked, paid for, ...), and each invariant is kept once for each
way, not once for each action.

*Which call saw what.*  `StepInv` says of a call `c` and a step it saw succeed (`Won`) that
the step is marked `completed`, or `c` is about to mark it, or `c` is over or about to end with an
error.  `completed` has no transition to `running`, so `c` cannot take the step again,
while another call that had it before may well come back with a second result, which is why the
property is of one call.

*Marks and index.*  A call that marks a step stands at `progress` until it moves the index:
`IndexCountsCompletions` is inductive as it stands, and holds for any number of calls because
`MarkCompleted` and `MoveOn` pair up in each.  With it, `PlanInv` (while there is no replan
in the history only steps of the plan are marked) gives `PlanDoneUnlessReplanned`: an index
past the plan means as many marks as the plan has places, so all of it.  Two loops may run one step twice, but
only one of them marks it; the other ends with an error.

*The budget.*  The results of a step are of two kinds (`PaidInv`): those that were paid for
with an attempt, of which there are at most as many as attempts and at most `Budget - 1`, and those whose call
cannot come back to the step without paying, because it is about to mark it, is over, or the
step is dead (`Stuck`): one at most for each call.  `WindowInv` says what the step's state is
while a call decides about its retry.  That is the bound: the budget, and one for each
further call.

*The history* is closed together with the status (`HistoryInv`, `StatusInv`).  *Checkpoints*:
what a list of results holds is a filter, a recursion over its sequence, which
`SequenceFilters` defines as a recursive function with its lemmas: induction over naturals is
there, since a set of counterexamples has a least one (`WFMin`), and only the library's own
induction theorems are not.  `CheckpointInv` says of every checkpoint on record that its completed steps are
the beginning of what has succeeded by now, which only grows.  `SuccessInv`, needed for
the statistics, says that no step is counted twice as long as `execute()` was called once.

*The contract.*  The refinement maps the outcome to the status where terminal, `done` to the
successes on record, `tries` to their counts and `calls` to the accepted calls.  `StepSettles`
is a try, `Execute` a call, `Exit`, `Catch` and `Cancel` close, everything else stutters.  The
contract grants one more try for every further call and makes its first two
promises for any number of them; the other two only while there is one.

`HaltsAreKept` is an action property: steps are announced in `LoopHead` and `WaitOver` only.

*Kernel.*

| theorem | says |
| --- | --- |
| `TypeCorrect` | `Spec => []TypeOK` |
| `TrailHolds` | `Spec => []TrailIsAWalk` |
| `RegistryStaysClosed` | `Spec => []RegistryClosed` |
| `DrainOrder` | `Spec => []DependentsDrainFirst` |
| `StoppedOnlyByDrain` | `Spec => []StoppedMeansDrained` |
| `StopSettlesThePhase` | `Spec => []StopReturnsAtTheEnd` |

`IInv` is `TypeOK`, `GoodLife(life)`, `Registry(modules)` and `DrainInv`.  `GoodLife` and
`Registry` are stated of any lifecycle and any list of records, because a drain
holds a snapshot that the registry has moved away from: the snapshot's rest
satisfies `Registry` by itself, and that, not the registry's present state, is
what orders the calls.  `DrainInv` says that at most one caller is awaiting, that
nobody was told to shut down before the phase left `RUNNING`, and how what has been
told and what is left to tell make up the snapshot.  The lemmas follow the
operators: `AppliedIsGood`, `MovedIsGood` and `FailedIsGood` for the lifecycle,
`AddKeepsRegistry` and `RemoveKeepsRegistry` for the registry, `TellKeepsOrder` and
`GoOnKeepsIInv` for the drain; `StepIInv` has one step per action.

*Plugin platform* (`PluginPlatformProofs`), for any entries, any calls and any configuration.

| theorem | says | assumes |
| --- | --- | --- |
| `TypeCorrect` | `Spec => []TypeOK` | |
| `LoadsAreHandled` | `Spec => []LoadsHandleEverything` | `PlatformMethodsOnly` |
| `AskedOnceInOrder` | `Spec => []AskedInOrder` | `PlatformMethodsOnly` |
| `PhasesAreTrue` | `Spec => []PhaseTellsWhatWasAsked` | `PlatformMethodsOnly` |

`PlatformMethodsOnly` says that nobody calls `initializeAll()`, as no method of the platform
does; without it TLC finds the properties violated (above, *Plugins*).  Nothing is assumed of how
often an id is found: the last two speak of the entries that stand alone (`Alone`), and
`LoadsAreHandled` of all.  `TypeOK` holds the fact that no id is registered twice.
`LoadInv` says that every placeholder either failed
or is still before some load, and that whatever a walk has before it is a plugin.
`AskInv` carries the order.  It says of every record that its plugin was asked exactly what
its phase tells; of a load, that what it has before it is registered as it left it, and
before no other load; and of a walk, that the one it awaits is in the phase between, that
no other walk awaits it, and that its snapshot's plugins are still those registered.  That is
why a stale snapshot does no harm: only a plugin at rest is taken up, a plugin at rest is
before no load, and the phase between keeps everybody else away.  The lemmas turn each
operation of the registry into an operation on its set of records (`UpdatePhaseIs`,
`UnregisterIs`, `RegisterIs`, `ReplacedIs`, `PlaceholdersJoin`); `CallsKeep` then says which
changes no call notices, and there is one lemma for each action.

*Runtime and adapters* (`HostProofs`), for any steps, requests and number of calls.

| theorem | says |
| --- | --- |
| `ShutdownTypeCorrect` | `ShutdownSpec => []ShutdownTypeOK` |
| `ShutdownOrderly` | `ShutdownSpec => ShutdownIsOrderly` |
| `StatusTellsWhatIsUpAlways` | `StartupSpec => [](StatusTellsWhatIsUp /\ StartupTypeOK)` |
| `AdaptersTellWhatIsAlways` | `AdapterSpec => [](AdaptersTellWhatIs /\ AdapterTypeOK)` |
| `AnswersMatchTheKernelAlways` | `ApiSpec => []AnswersMatchTheKernel` |
| `ReportsCoverTheChecksAlways` | `HealthSpec => [](HealthTypeOK /\ ReportsCoverTheChecks)` |

The shutdown manager's invariant is the type, what *stopped* stands for and
`NothingBefore`: until the first call nobody was told, answered or is at it.  That is what
makes the first call's list the whole of what is ever told.

The startup manager's status speaks of runs that do not overlap.  `RunOK` is of one run,
overlapped or not: what it started is the beginning of its order, it awaits a step only
while there is one left, and it is done only when it started its whole order.  `Alone` is
claimed as long as no run began during another: at most one run is going, and the phase is
then that of a start or of its failure, so that the phases the property speaks of are
an ended run's; what an awaiting run has started is up, and what of it a run that
undoes can take down is down or yet to undo.  A second run over the same steps would break
that, since it starts what the first takes down.  A run's lists come from the sort: `TurnIs`
types one turn of it, `IteratedKeeps` of `SequenceFilters` any number of them.

The adapters' invariant has two halves, as their state has.  `RequestInv` is of one request
by itself: what each stage of it may hold (`StageOK`), so that a handler that ran is told
of by the reply and one that was refused never ran (`ReplyOK`).  Every step
moves one request, and the gauge with it by one exactly if that request begins or ceases to
be counted (`Becomes`); `GaugeFollows` turns this into the size of the set of those counted,
and is the only place where sizes of sets come in.  `ConnectionInv` is of the service
outside: while nobody disturbed a polling bot, at most one call connects or disconnects, the
flag tells which of the two it is, and with none at it flag and connection agree
(`OneAtATime`).  The property alone is not inductive, since it is silent while a call
is under way.  A tool server sets both in one step, so its half needs no calls.

The API server's proof is of the whole process: its own steps, the requests and the kernel
below them.  `KernelGoesOn` is all it needs of a step of the kernel, whoever made it: a
terminal phase stays, a call of `stop()` that has returned stays as it did, only a terminal
phase makes one return well, and nobody begins a call but who makes it.  `StopGoesOn`,
`SettlesGoesOn` and `MoveGoesOn` show it of every operation, with the lifecycle's table.  `Fits`
ties a request to the call in its name: only an admitted stop may have one, and an answer
of 200 to a stop is one that returned well.  So a 200 means a terminal phase because the call
has returned, not because of what the phase was when it was answered.  What it takes
for a clean exit is kept because nothing is admitted or answered any more after it.
It assumes that the signal is none of the requests (`ApiAssumption`).

The health manager's polls walk a map that changes under them.  `PollOK` says of a check
that stood all through a poll where the poll is with it: it stands behind the poll's
place and is not in the results, it is the one awaited, or it stands at or before the place
and is in the results once.  `PollGoesOnKeeps` is the step of the iteration: the next
check is the first behind the place (`FollowingIs`), so none is passed over.  A
registration only ever adds a check behind every other, and a check that was removed is no
longer one that stood all through, wherever it comes back.  At the end nothing is
behind the place, so each is in the results.  It assumes that `NoCheck` names no
check and that `MaxStamp` is a number (`HealthAssumption`).

*Tool executor* (`AgentProofs`): `TypeCorrect`, `ResultsAreTold` (`ToolSpec =>
[]EventsTellTheResult`), `AnswersAreFinal` (`ToolSpec => [][AnswersStand]_toolVars`), and
both as `CallsAreTold` (`ToolSpec => CallsTellTheirResults`, which the run checks), for any
calls, definitions and throwing handlers.  The invariant is of one call at a time
(`CallInv`), since calls meet only in the registry, which a call reads before its first
await: an idle call is as it began, an open one has asked first, a running one has
`ToolStarted` as its last event, and a returned one tells its result.

*Event writer* (`AgentProofs`): `GraphTellsTheExecutionsAlways` (`WriterSpec =>
[]GraphTellsTheExecutions`), for any executions and plans, ids that stand twice included, and any
number of retries.  The writer overwrites nodes and never takes an edge back, so what each
event does is said once for all of them: `Grows` names the arcs that come in and the nodes that may
change, and `Wired` keeps an edge's ends equal to its id, so that the arcs a search walks
are the ids (`ArcsAreTheIds`).  `RunTold` is what the graph says of one execution; the event of
another one touches only that one's own nodes and steps, and of those only the steps with a
shared id are ours (`OthersAreTold`), of which nothing is claimed but their arc.  The same holds of
a step that stands twice in one plan (`AnotherPlace`).  `PlansLead` says that plans lead to
executions only, without which a step might be nearer to its plan than its execution is.
The lengths of paths are then those of the first three waves of the search (`OneStep`, `TwoSteps`).

*Memory* (`MemoryProofs`), for any records, policies, queries, askers and sizes of chunks.

| theorem | says |
| --- | --- |
| `TypeCorrect` | `Spec => []TypeOK` |
| `IndexIsKept` | `Spec => []IndexFollowsTheRecords` |
| `AnswersAreFit` | `Spec => []AnswersFitTheQuery` |
| `BestIsKept` | `Spec => []HousekeepingKeepsTheBest` |

`IndexFollowsTheRecords` speaks of the moments when no continuation waits; the invariant
(`IndexInv`) has to speak of all others.  `Agree` says of every id that it is *to be
indexed*, which the last continuation that waits for it decides, or the index if none does,
exactly if the provider has it or `close()` took it.  A store or a delete adds a last
continuation (`AddContinuation`), and running the first one changes nothing that is to be
(`RunContinuation`).  `SameRecords` ties what waits to the records, for the lengths that
`ChunksCover` turns into chunks that cover a content.
`AskInv` follows a query: what it found in the provider matches it, since that was so
when it was read, and an answer is the best of that in order (`RankFits`).  The ranking is
sound because scores with places are a total order (`BetterOrders`), and a total order
sorts (`OrderingSorts` of `SequenceFilters`, by inserting one number after the other).
`CacheInv` says of a cached answer that it fits *every* query of its key, which is what lets
it be given to another one (`SameKeyFits`); the thresholds and the read-only switch are not
in the key and not in what is claimed of a cached answer.
`BestIsKept` needs of the state only that records have different ids (`StoreInv`); the
rest is about the functions.  The seven filters one after the other keep what one filter by
all conditions does (`KeepInTwice`, `FiltersMatch`).  The records to evict are the first so
many of those that may go, sorted (`EvictionIs`), and counting them tells how many
stay (`DifferentCount`).  In two scorings of the same records a record's scores are as far
apart as there are records (`TwiceScored`), which is where it is met first.

*Registries* (`ProviderRegistries`, proof in `MemoryProofs`): `DefaultAlwaysRegistered`
(`RegistriesSpec => []DefaultIsRegistered`).  `WellKept` is stated of any registry and
default, and is inductive once removal from a sequence is understood (`RemoveAtIs`).

*Graph* (`InMemoryGraphiti`, where the proof stands with the model): `GraphIsKeptWhole`
(`GraphSpec => GraphStaysWhole`), for any nodes, edges, bounds and depth of the search.  The
invariant (`GraphInv`) is `GraphKept` of the graph: every edge is listed under its end on either
side, and, while no id was added twice, a list has no repetition and nothing but edges of its
node.  `exact` tells the two cases apart, because the code does: a replaced edge stays
listed where it was, so after that a listing may hold other nodes' edges, and ids twice.
What an operation does is shown of one listing and one side (`RemovedEdge`, `RemovedList`,
`AddedEdge`) and used for both.  `removeNode()` removes the edges one after the other, a
recursive function: `RemoveEdgesKeep` goes along it by induction, and the edges of the node
are among those because they are listed.  A path is then a shortest one because the arcs
the search walks are the edges (`ArcsAreEdges`); the wave by wave search itself
is in both definitions, and what is checked of it is that it walks the right arcs.

*Model-checked only.*  Liveness (`SettlesUnlessLeftPaused`, `DrainsEnd`,
`CallersAreAnswered`), which is out of the prover's reach, and the parts of `MCHost` and
`MCAgent` but for those named above.
That a blocked start could not have been ordered (`BlockedMeansUnorderable`) speaks of what
a depth-first search computes, and is left to TLC over every graph of the instance.

## What is not modelled

`PROJECT.json` lists every part with its reason.  In short:

* formatting and wording: tables, messages, the text formats of exporters;
* third-party code: SDKs, HTTP, the file system's own behaviour, `import()`.  What they may
  answer is an input of the models;
* rendering of pages and inspectors, and the arithmetic of the force-directed layout;
* wiring and constants (container, builder), types and templates (plugin SDK), stubs
  (agents, event bus, workflow, ui, shared), diagnostics, benchmarks;
* within modelled parts: similarity of embeddings and text matches of the memory; patterns
  and array items of schemas; transition handlers of plugins that throw, and the calls
  for a single plugin, which run the same `executeTransition()`; `initializeAll()` next to a
  load, and `unregister()` of a plugin that a call has before it; `setHealth()` of the kernel;
* no store of the system survives a restart: executions, memory, graph and registries are
  kept in maps, so there is no recovery to model.  A checkpoint can be saved and read
  back, which `ExecutionRecords` does, but nothing resumes from one.

## Plan

What is left, in the order of what it would add:

1. *Proofs.*  That the sorts of startup and of plugin dependencies find an order where
   there is one.
2. *Plugins.*  Instances with `initializeAll()` next to a load, stating what is left of
   the order then; transition handlers that throw.
3. *Memory.*  An abstract store (a set of records and who may see them) that `Memory`
   without its cache implements.
4. *Resuming.*  Once the repository resumes from a checkpoint: the loop from a state
   `ExecutionRecords` restored, against the same contract.
