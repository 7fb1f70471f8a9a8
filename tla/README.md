# DStudio: a TLA+ model of its core

DStudio (`src/src/dstudio.c` and the files it includes) is a local AI studio:
one C program that serves a web interface, installs, patches and supervises an
inference engine, talks to agents behind pipes, and runs *task graphs*, durable
DAGs of Agent turns, host tools, gates and approvals. The Design agent
(`src/extension/design/ds4_design.c`) is a second large program that it builds
and starts. This directory holds a TLA+ model of the parts that decide what is
done, in which order, and what survives a crash. TLC checks the model on small
instances; TLAPS proves the central theorems for every instance.

Paths such as `dstudio.c:5704` without a directory are below `src/src/`; lines of
`ds4_design.c` are below `src/extension/design/`.

## 1. Inventory

The host is one translation unit and one thread. The main loop
(`dstudio.c:11866-11912`) calls `reap_child`, `drain_child`,
`launch_preparation_tick`, `dtg_scheduler_tick`, then polls and serves one
request at a time. Concurrency is of five kinds: the order of ticks, requests
and child output; the child processes themselves (launch worker, engine,
inference process, model worker, Agent, Design agent, detached generators); the
death of any of them between two durable writes; a second DStudio process on
the same directories; and the user, who edits the same files.

| part | source | state | operations | interacts with | what must hold | model |
|---|---|---|---|---|---|---|
| graph states, validation | `dstudio_task_graph.c` | definition, node and graph states | transition authority, parse, validate, serialize | everything below | illegal transitions are refused, definitions are acyclic and gated | `TaskGraphStates`, `GraphPolicy` |
| policy | `dstudio_task_policy.c` | none | validate, digest | create | only registered, bounded actions | `GraphPolicy` |
| store | `dstudio_task_store.c` | `events.jsonl`, `state.json`, lock file, registry | create, append, snapshot, load, replay, forget | scheduler and API write through it | accepted transitions survive, a load gives the last one, one writer | `TaskStore`, `DurableGraph` |
| scheduler | `dstudio_task_scheduler.c` | none of its own: reads the registry | tick, start, pause, resume, cancel, approve, retry, skip | store, executors | dependencies, budgets, leases, pause, cancel | `TaskScheduler` |
| executors | `dstudio_task_executor.c` | runtime fields of a node, the Agent owner pointer, immutable attempt files | begin, poll, cancel, finish, watchdog, checkpoint, undo | Agent (pipe), test processes | a verdict is durable before the state, no replay of effects, an undo restores what the action wrote | `TaskScheduler`, `AgentEvidence`, `NodeFiles` |
| Task Graph API, goals | `dstudio_task_api.c`, `dstudio_goal.c` | none | HTTP mutations, compare-and-swap, prompt routing, event feed | scheduler, store | what the host builds itself is accepted and gated; a reader gets no writer | `TaskApi` |
| Agent turn bookkeeping | `dstudio.c` 4130-4490, 8501-8658 | `g_ready`, `g_agent_working`, `g_interrupt_pending`, `g_active_turn_task`, ring buffer | submit, WAITING, TURN_ERROR, reap, interrupt, stream | executors (owner) | a boundary is credited to the turn it belongs to | `TaskScheduler`, `AgentEvidence`, `ModelRpc` |
| steering | `dstudio_steering.c` and its client | inputs of the current turn | submit, pull, acknowledge, finish | Agent process (HTTP) | each input applied once and in order, or reported unconfirmed | `Steering`, `TurnInput` |
| launch, engine, dense-Qwen owner | `dstudio_launch.c`, `dstudio_q36.c`, `dstudio.c` | one pending job, one child, one inference process | admit, prepare, revalidate, commit, cancel, stop, reap, drain, attach, quit | worker, engine, other servers | nothing stale is published, one resident model, a launch is decided | `EngineHost`, `LaunchPlan` |
| model RPC | `dstudio_model_rpc.c`, `dstudio_model_stream.c` | current and next request, epoch | admit, deliver, cancel, reap | worker, pipe of the runtime | bytes reach only the turn they were made for; half a call never runs | `ModelRpc`, `ModelStream` |
| media | `dstudio_media_memory.c`, `dstudio_image.c`, `dstudio_video.c`, pipeline scripts | job directory, memory lease, heavy-model lock | generate, status, cancel, exit | ds4-server, scripts | one heavy model, a server signals only its own jobs, a stop ends a job | `MediaJobs` |
| Design agent | `ds4_design.c` | project record, session, transcript, turn counters | tools, gates, turn loops, save, switch, new, compaction | engine or remote model, shell jobs | a registered artifact was earned, a turn ends, a session file holds its conversation | `DesignProject`, `DesignRun`, `DesignSession`, `DesignText`, `DesignContext`, `ToolStream` |
| setup, updates, patching, builds | `dstudio_setup.c`, `dstudio_engine_install.c`, `dstudio_updates.c`, `dstudio_patch.c`, `dstudio_unified_patch.c`, `dstudio.c` 5500-5760 | the engine checkout, stamps, build lock | install, repair, update, patch, build | launch workers, the user's edits | a binary called fresh is current, nothing of the user's is lost, the lock is returned | `Checkout`, `UnifiedPatch` |
| the rest | see `PROJECT.json` | | task log, chat store, PDF, search, embeddings, remote relay, skills, window, web client | | | none, see 6 |

What is hard here: a crash between two writes of one logical step (attempt
result and event, receipt and event, journal and snapshot, restore and pull);
writes that fail half-way; the same events in every order (pause, cancel,
retry against WAITING, exit, timeout, death; stop against publication;
interrupt against an answer under way); decisions made on something that has
changed since (files captured by a launch, a critique of a page, a binary's
time stamp); files that outlive the process that wrote them (`worker.pid`, owner
tokens, locks); two parties that want the one Agent, the one workspace, the one
GPU. `PROJECT.json` lists 40 such hazards at their lines.

## 2. Modules

Read them in this order. Each state module names the functions an action stands
for in the comment before it, and `PROJECT.json` "map" gives the lines.

### The Task Graph

`TaskGraphStates` holds the tables of `dtg_node_transition_allowed` and
`dtg_graph_transition_allowed`.

`GraphPolicy` is the way from a JSON proposal to an accepted definition: parse
with its defaults and refusals, topological order, the gate behind a writer,
capabilities, mutation classes and budgets of each action, and the form that is
stored. `TaskApi` adds the graphs the host writes itself (a goal, the work of a
prompt), the routing that decides between them, the precondition of a change
and the paging of events. Both are pure: `MCGraphPolicy` evaluates them on
bounded proposals.

**TaskStore.** One variable for the journal (`events`, plus `partial` for an
unterminated tail), one for `state.json`, one for the lock, and per process the
graph in memory and where it is in a call. A call of `dtg_store_graph_event` or
`dtg_store_node_event` is three steps: `Request` (the transition check and the
non-blocking lock), one of the `Append*` actions, `Commit` (memory, snapshot,
unlock). A cold load is `BeginLoad`, one `ReplayLine` per record, and `EndLoad`,
`RejectLine` or `AbortLoad`. `Crash` may come between any two of these.
`Apply` and `MayApply` are shared by the writer and the reader as they share
the transition tables in the code. Time stamps, messages, operation ids and
attempt ids are left out; a record carries what replay uses to rebuild states.
`history` is a ghost that remembers what was committed. `Faults` switches on two
behaviours of the file system that the code sees as a failed append: `"torn"`
(part of the bytes are in the file) and `"unacked"` (all of them are). `Line`
models O_APPEND: bytes written after a fragment share its line. `DurableGraph`
is what a caller relies on: a committed state that only a transition changes,
shown exactly or not at all; `ImplementsDurableGraph` is the refinement.

`NodeFiles` is the checkpoint, the exact write and the undo of one target by
several nodes, as a function of a history of attempts, undos and edits.

**TaskScheduler.** The durable writes are single steps here; `TaskStore` is the
argument for that. The program is one thread, so a tick or a request runs to
its end before anything else happens *except* that the host can die, or a write
can fail, between any two of its writes. The variable `pc` says which write is
next: `init` (`node.pending`), `poll`/`result`/`ended`/`followup`
(`dtg_scheduler_finish_node`), `ready` (`dtg_scheduler_recompute_ready`),
`dispatch`/`begin`/`request`/`started`/`waiting`/`graph_waits`/`defer`
(`dtg_scheduler_dispatch`), `finalize`, `settle`/`pause_graph` (a pausing
graph), `cancel`, and the labels of the requests. `pc.tick` tells a tick, which
goes on with the next graph, from a request, which returns. Durable: `gst`,
`approved`, `nst`, `attempts`, `files` (policy, result and approval receipts,
which are immutable: writing one that exists is an error of the code and is
modelled as one), `approvals`. Volatile: the registry, the runtime fields of
nodes, the owner pointer and the Agent. `ran` is a ghost: the attempts of a
non-idempotent node in which something had an effect. `left` is what dead hosts
have left running: a test process is in a group of its own
(`dstudio_task_executor.c:341-355`) and nobody signals it (`dtg_store_shutdown`
does not either), and an Agent reads the end of its input after its turn. `Crash`
moves both to `left`; there they go on (`LeftCalls`, a tool of the turn is called)
until they end by themselves (`LeftEnds`), unseen by the next host. The Agent (`agent`) is
what the host knows of it; the environment may call a tool, trip the watchdog,
report an error or WAITING, die, be loaded again; the user may send a turn of
his own when no graph owns the lease. A timeout may fire in any poll of a node
that has one. Abstracted: `ready_ms` (any of the best equals may be chosen), the
contents of transcripts (`Verdicts` offers every verdict the completion contract
can give), file actions (they succeed or fail in `Launch`), the dispatch budget
of 32 a tick (larger than any instance), the synthetic executor.

`AgentEvidence` is the other half of that abstraction: the ring buffer with its
trimming and offsets, the stream that browsers read, and the completion
contract that judges the bytes between two offsets.

### The running engine and its turns

**Steering.** Three parties share the state. The host keeps `g_steer` (`steer`)
and the bookkeeping of the turn; the Agent process (`agent`) is the loop of
`ds4ui_remote_run_structured` and `ds4ui_remote_run_turn` with the client
`dstudio_steer_begin` and `dstudio_steer_drain`; between them are the pipe with
prompts (`stdin`), the markers the host has not read (`stderr`), the pulls it
has not served (`wire`) and the answer the Agent waits for (`reply`). `GiveUp`
is the two seconds of `SO_RCVTIMEO`: the pull stays on the wire and the host may
serve it when nobody listens any more. `Interrupt`, `RequestStop`, `Die` and
`Restart` may come anywhere. `TurnInput` states the promise over five histories
per turn: what was admitted, appended to the transcript, given to the model and
reported as applied, and which turns are sealed. Texts are abstracted: ids are
numbered in the order of first use.

**EngineHost.** The one pending launch (`dstudio_launch.c`) with its worker, the
one child, and the one dense-Qwen inference process (`dstudio_q36.c`), each a
process that dies when it likes, beside servers of others that may hold the port
or the lock. A handler of the loop is an action; a deadline may pass whenever
its clock runs. The tick is split by what it finds: cancelled, worker lost,
result to revalidate, waiting for the old engine to go, commit. `LaunchPlan` is
what `api_start` admits before: normalisation of a request, capability and
memory preflight, the confirmation.

**ModelRpc.** The host (relay, epoch fence, turn bookkeeping), the worker that
talks to a model, and the runtime behind three pipes. Answers may be written in
two pieces; a refused request, a cancelled one still being torn down, and an
answer that nobody waits for are all states of their own. `ModelStream` is the
assembly of a streamed completion from its lines.

**MediaJobs.** Everything the parties know of each other is in the directory of
a job, so a step is one access to it, to ds4-server, or one signal. Two servers
share the directories: a running one and its successor. The generator, the
script and the child that loads the model are three processes per request. The
worker of an image has a fourth, ComfyUI with the weights, in a session of its own
and without heavy-model.lock (`ideogram4-run.py:464-467`); it is part of the child,
and the child is `"left"` when its worker is gone and ComfyUI is not (`Terminated`):
the worker waits 45 s for it (403-411), the script that signals the worker kills it
after 8 (`image-pipeline-run.py:34-41`). `engine` is ds4-server between two starts:
its pressure depth, the requests that outlived their client or got lost
(`media_memory_end` clears a lease either way), and `early`, the releases of leases
that were given before it started (`RestartEngine` makes those `"void"`). The other
image pipelines have no such server; `Terminated` lets every image have one.

### The Design agent

`DesignProject` is the record the runtime keeps of a project and the tools that
change it: a page's text is a content, what a check or a grader finds is free.
`call` is the call that just succeeded. Two ghosts are kept by the tools and never
read by a gate: `owed`, the pages with a finding nobody has measured, and
`reviewed`, the pages that passed their last critique and were not written since,
and the pages of which a grader has seen a render that shows what is there now. A
page has one name here; the code compares the name of a cached verdict as it was
typed and that of a critique as a path, so a second spelling costs a render. A tool
is one step: that a shell job writes a page between its render and the reading of
its digest (6891-6908) is left out. A verdict with grades missing is kept by the
code and never used again (6652); here it is none.
`DesignSession` has the live transcript and the files of conversations.
`DesignRun` composes both with the two turn loops (local engine, remote model),
their counters of continuations, retries and errors, and the SIGINT latch.
`DesignText` (anchored edits, windows of read and more, required wording),
`ToolStream` (the parser of tool calls in what is streamed) and `DesignContext`
(when to compact, what is kept) are pure.

### The checkout

`Checkout` writes a job (setup, repair, latest, verify, the builds of a launch)
as the sequence of steps its function goes through. Every step may fail, which
ends the job the way the function does; every process may die between two; a
program it started may outlive it. Several processes and the user's edits
interleave. `UnifiedPatch` is what applying a patch does to a text.

The `MC...` modules hold instances for TLC and the bounded inputs for the pure
modules; the eight `..._proofs` modules hold the proofs.

## 3. Runs

| run | instance and bounds | shows |
|---|---|---|
| `store` | one node, one process, 5 records, crash anywhere, failing append, lock and snapshot | `NeverRejected`, `ServesCommitted`, `ImplementsDurableGraph` |
| `store_faults` | two processes, torn and unacknowledged writes, 3 records | `OneWriterAtATime`, `LoadsAllOrNothing` |
| `scheduler` | approval, timed turn behind it, then a goal, then an optional gate; all requests, no crash, fair | `NoReplay`, `TurnIsOwned`, `ApprovedByUser`, `HeldGraphLeasesNothing`, `CancelSettles`, `PauseSettles`, `RunSettles` |
| `scheduler_faults` | a goal beside a test that writes, in one graph with the gate of both; one crash, which leaves what runs, and one failed write anywhere | `OneLlmOneWriter`, `AttemptBudget`, `DependenciesFirst`, `ResultBeforeState` |
| `steering` | two turns, two Agent processes, 2 pending and 3 inputs a turn, fair | `SealIsLast`, `ImplementsTurnInput`, `AdmittedIsHeard` |
| `engine_host` | four kinds of launch (both models, server or piped), two of them in a behaviour, two edits or foreign servers, fair | `OneModelResident`, `FrontendHasModel`, `PublishesWhatItPrepared`, `LaunchEnds` |
| `model_rpc` | two prompts, two requests, one interrupt, streams of up to 4 lines, both transports, fair | `PendingWaitsForCanceled`, `ToolsAreWhole`, `InterruptSilences`, `TurnEnds` |
| `media_jobs` | an image on one server; a video on it, or an image again on its successor; memory may be short for the first (`Yields`), one memory request is late or lost (`MaxStray`), ds4-server restarts at any time, fair | `OneModelLoaded`, `OwnerStops`, `CancelEnds` |
| `design_project` | two interchangeable pages, two contents, a shell job beside the tools | `RegisteredIsEarned`, `MeasuredBeforeChanged`, `VerdictIsCurrent` |
| `design_run` | both loops, one page, two conversations, one signal, every counter at 1 or 2, fair | `OneConversationPerFile`, `TurnEnds`, `InterruptStops` |
| `checkout` | host and one launch worker, two patches, two jobs, two edits by the user, two revisions, fair | `AgentFreshIsCurrent`, `PullsOverNothing`, `UserFilesStay`, `LockIsReleased` |
| `design_copy` | the instance of `design_run`, without fairness | **violation** of `CopyIsKept` |

The bounds. A numeric bound that the code itself has (pending inputs, attempts,
continuations, errors, patches) is set to a value at which its limit is
reached and passed. The others bound what an environment may do: five records
are enough for a load to meet a graph with a predecessor state, a node event and
a commit after a recovered one; one crash is enough for each window between two
writes, since two crashes only combine windows of the same step; two turns, two
prompts, two launches, two media requests and two conversations are enough for
something of the first to reach the second; two processes for one to overtake
the other; two pages for a verdict on one to be used for the other.
One of the two media requests takes a lease: a lease that is released for another
one needs only a late or lost request or a restart of ds4-server besides it, which
the instance has, and `LeaseCounts` is proved for any number. Deadlock is
checked where the system never rests. Where the environment is bounded
(`steering`, `engine_host`, `model_rpc`, `media_jobs`, `design_*`, `checkout`) the
system comes to rest after the last event, and it is not.

Each passing property has a mutant in `PROJECT.json`: a variant of a mapped
definition (marked "Faulty variant" in the modules) with which it fails.

Runs also evaluate the assumptions of their modules, which check the pure
modules against reference definitions over all bounded inputs:

- `store` (`MCGraphPolicy`, `MCTaskStore`): `ShapesAreJudged` (exactly the
  executable, gated graphs pass), `ActionsAreSafe`, `EdgesAreDependencies`,
  `DefinitionsAreFaithful` (what is stored parses to what was accepted),
  `BuiltGraphsRun`, `ReadersGetNoWriter`, `PlainWordsFit`, `FeedIsComplete`,
  `UndoReplacesTheWriteOnly`, `ReverseOrderRestores`;
- `scheduler` (`MCTaskScheduler`): `PromptCompletesNothing`,
  `ReceiptFollowsWork`, `FramesDoNotMatter`, `TruncationIsSafe`,
  `BufferKeepsTheEnd`;
- `engine_host`: `LaunchesAreSupported`, `RequestsAreKept`, `AdviceIsSound`;
- `design_project`: `EditsAreUnambiguous`, `WindowsCoverTheFile`, `WordingIsKept`;
- `design_run`: `ProseIsShown`, `BatchesAreRead`, `CutBatchesAreErrors`,
  `MarkupIsGreedy`, `CompactionKeepsTheTail`, `CompactionHelps`;
- `checkout`: `OnlyHunksChange`, `ReversalRestores`, `AlternativesAgree`.

The modules define further invariants that are not listed with a run because a
listed one says more; they hold with the same configurations: every `TypeOK`,
`ReplayRebuilds`, `SnapshotIsAPast` and `LoadRefreshesSnapshot` (TaskStore),
`PausedIsFrozen` and `SucceededMeansAll` (TaskScheduler), `BoundaryInputIsHeard`
(Steering).

### Fairness

- `TaskScheduler`: the main loop comes round (`WF` of a tick or the next step of
  what was begun: a single thread without blocking calls in this path); a turn
  ends or an Agent that is loading gets ready, a test process exits, and an
  unloaded graph is asked for again (`SF`, because the host looks at these
  between ticks, so they are enabled again and again but not continuously).
  `SF(AgentIdleTick)` says that the user does not send a turn of his own in the
  very loop iteration of every WAITING: with such a user a graph can starve,
  which the code permits.
- `Steering`: the Agent takes its next step (the model answers; an exchange ends
  within its timeout at the latest) and the main loop serves the pulls it has
  accepted and reads the markers of the Agent.
- `EngineHost`: the handlers of the loop run, clocks run (loading deadline,
  grace of a cancelled worker, escalation from SIGTERM to SIGKILL), and a
  process that was killed dies. Nothing makes a worker or a model succeed.
- `ModelRpc`: the host drains, ticks and reaps; a killed process dies; the
  runtime reads what is in its pipe, and its own idle limit passes.
- `MediaJobs`: each generator, script and loader goes on; an inference ends by
  itself. Servers may hang, die or never come back.
- `DesignRun`: the turn takes its next step (the engine samples, a tool
  returns).
- `Checkout`: each program a job runs ends, with success or not.

Nothing is assumed about users: they need not approve, resume, ask again or
stop cancelling.

## 4. Where the code and its words disagree

`design_copy` is a run. `ds4_design.c:1449-1454` says of the exact wording a user
required: "Requirements accumulate across revision turns and are reset when the
user starts or switches session". `design_session_save_now` (10600) resets them
after every save, and every local turn ends with a save: the next turn may
register a page without the wording.

More disagreements have a configuration that is not among the runs, or a
property in a module that can be put into a configuration; TLC finds each one
violated:

| property | how to see it | what happens |
|---|---|---|
| `NeverRejected` | `TaskStoreTorn.cfg` | a fragment left by a failed write is glued to the next accepted record (`dstudio_task_store.c:293`); the code tolerates a partial line only at the end of the file |
| `NeverRejected` | `TaskStoreTwoHosts.cfg` | the lock excludes two writers, but the sequence number comes from memory that the other writer has made stale (268) |
| `NoReplay` | `TaskSchedulerReplay.cfg` | the proof that a turn called no tool is a counter in memory, zero after a restart (`dstudio_task_scheduler.c:151`) |
| `OrphansEnd` | `TaskSchedulerOrphan.cfg` | a result file written before a crash cannot be written again, so the attempt never ends (138) |
| `AttemptEnds` | `TaskSchedulerLease.cfg` | a graph that fails while a turn of it runs is not polled again; the turn keeps the Agent's lease and later prompts get 409 (193) |
| `OneWriterAtAll` | `TaskSchedulerFaults.cfg` | "One LLM node and one workspace writer run globally at a time" (`extension/task-graph/README.md:91`); a test of a dead host writes beside the writers of the next one, and also without a crash a cancelled turn winds down beside the writer that follows it (`dstudio_task_executor.c:824-827`) |
| `ReceiptAfterAppend` | `SteeringBudget.cfg` | the callback that appends an input has no result, so an input that does not fit is acknowledged and reported as applied |
| `ExitStopsJobs` | `MediaJobs.cfg` | "a generation already in flight must be stopped when the desktop server exits" (`dstudio_video.c:149-150`); one that has not written `worker.pid` yet goes on |
| `ComfyStops` | `MediaJobs.cfg` | "Comfy has its own session and must not outlive a cancelled worker or keep GPU weights resident" (`ideogram4-run.py:132-133`); the worker is killed while it waits for it, or is signalled before the `try` that stops it, and the weights stay with the lock free |
| `ExternalIsNotOwned` | `EngineHost.cfg` | `g_external_server` means "reused, never owned/stopped by DStudio" (`dstudio.c:495`); the launch of a piped child leaves it set, so a child of DStudio's own runs under the flag |
| `InterruptEndsItsTurn` | `ModelRpc.cfg` | "SIGINT interrupts one Design turn" (`ds4_design.c:269`); one that arrives after the turn ended interrupts the next |
| `PromptsAreTheUsers` | `ModelRpc.cfg` | the consumer of a cut frame gets "an explicit failure" (`dstudio_model_rpc.c:168-170`); a runtime that has given up reads the rest as a prompt |
| `QuestionEnds` | `DesignRun.cfg` | the local loop ends a turn with a question (2832); the remote one (13166-13398) goes on |

Smaller observations made on the way, each reachable in the models or read in
the code while they were written:

- `drain_child` (`dstudio.c:6572-6577`) sets `g_ready` without the guard on a
  requested stop; a launch that waits in `CommitWaits` leaves its task "working"
  when the wait ends without a commit (8311-8408, 8440-8450).
- The receipt gate reads the ring buffer again at offsets that a reset has made
  meaningless; it then refuses, it never accepts.
- An undo restores only the finding of the last attempt, and its immutable
  receipt keeps the first answer (`dstudio_task_executor.c:943-1054`).
- The bound of a prompt is on its escaped length, the status differs (413, 422).
- Events beyond 1024 of a graph are stored and never shown by the web client.
- A refused start of a model request answers with the id of the old one, so the
  runtime waits for its cap of 30 minutes.
- A memory request whose client gives up is counted later and not released
  (`dstudio_media_memory.c:44-74`), a release that gets lost is not repeated
  (99-106), and one of a lease from before a restart of ds4-server takes the memory
  from a job that runs (`LeaseCounts` counts the three); a failed write of a prompt leaves a job
  "queued" (`dstudio_image.c:356-361`); a stop after the last look overwrites
  "complete" with "cancelled" (520-560).
- A `/new` that fails half-way may overwrite the file of the old session
  (`ds4_design.c:10751-10763`, 11499-11574); `OneConversationPerFile` exempts it by
  name (`botched`).
- A critique and a visual verdict survive changes of linked CSS and by a shell
  job (6630-6769); the properties are about the page's own tools.
- The local loop has no bound on tool rounds that end in errors.
- The core sources are not compared again after a build (`dstudio.c:5704`); an
  edit in the same second passes `>=`; a failure after the restore of an update
  leaves the checkout unpatched (`dstudio_updates.c:352-362`); the make of the
  server takes no lock.
- A dependency with an unknown condition means "succeeded"; a cold load does not
  validate the definition again.
- `diag_sse_flush` (`dstudio.c:1458-1490`) can skip an earlier update of a newer
  task.

`RunSettles` shows one more that no document contradicts: a graph with a blocked
optional node shows RUNNING until the user skips the node.

## 5. Proofs

All of this is for any values of the constants, under the assumptions the
modules name; where a theorem needs more, its statement says so and section 4
has the counterexample without it. Every safety property of a passing run is
proved. Few are inductive alone: the paragraphs say what had to be added and
why.

**TaskStore_proofs**, for any set of nodes and any bounds:

- under every fault and with any number of processes: `TypeCorrect`,
  `MutualExclusion` (from `Guarded`: a process past `Request` holds the lock)
  and `WholeJournal` (a process that replays has numbered its lines so far from
  1, from the checks of `MayApply`);
- also under every fault and with any number of processes: `ServesLegalAlways`,
  whatever a process holds and `state.json` shows is a graph that legal records
  lead to, as many as it counts; and `AlwaysLoadsTheReplay`, a load that succeeds
  serves what the lines of the file make of an empty graph. So a torn line or a
  second host may cost a graph (section 4), and never corrupts one. The invariant
  is `Lawful`: a record that waits for its append or commit is legal after what
  memory holds, and a process that replays holds the replay of the lines so far;
- under `SoleReliableHost` (one process, no file fault): `JournalIsAuthoritative`,
  `AlwaysLoads`, `NothingAcceptedIsLost`, `SnapshotIsConsistent`,
  `LoadAlwaysRefreshes` and the refinement `StoreImplementsDurableGraph`.

`Recoverable` relates the journal to the ghost history record by record, says
that a process at `append` has a record that applies to the last committed
graph, that a process at `commit` has just appended exactly that record, that a
replaying process has rebuilt the history up to its position, and that the
snapshot is a member of the history. The step that needs all of it is `Commit`
after `AppendEvent`: memory moves to a state that is already the last of the
history. The refinement maps the register to the last of the history and what
is shown to memory while the process is idle; an append is the abstract commit,
a load or a commit to memory the abstract exposure, and everything else stutters
or goes offline. It needs `MovesOneThing` beside `Recoverable`: a record changes
the graph or one node of it in the way the abstract step allows.
`SoleReliableHost` is an assumption of those theorems and not of the module.

The next part is about `GraphPolicy`: every node of an accepted native graph, of
any size, is what `TaskScheduler` assumes of its table (`AcceptedIsSafe`), its ids
are distinct and its dependencies inside (`AcceptedIsClosed`), and some order
executes it (`AcceptedIsExecutable`). The argument goes by the action of a node:
the clause of the policy that lets it pass fixes its kind, class and retries.

The last part is about `NodeFiles`, for any contents, writers and attempts.
`UndoRestores` is the step of every argument about nested writes: an undo gives
back what its attempt found if the file is again what the attempt left, whatever
the attempt did and whatever was done and undone in between; two nodes undone in
the opposite order are the corollary `ReverseOrderAlwaysRestores`.
`RecordsAreNeverReplaced` says that a checkpoint or receipt that is there stays as
it is. A second attempt of the same node ends the premise of `UndoRestores`: only
the finding of the last attempt is restored (section 4).

**TaskScheduler_proofs**, for any graphs and definitions that the policy accepts
and any number of crashes and failed writes: `TypeOK`, `AttemptBudget`,
`DependenciesFirst`, `ResultBeforeState`, `ApprovedByUser`,
`HeldGraphLeasesNothing`, `OneLlmOneWriter`, `TurnIsOwned`, and `NoReplay` as long
as the host lives. The first half looks at every action once:

- `Control` ties `pc` to the node that is served. Between the lease and
  `attempt.started` that node is LEASED; this is what makes the deferral to
  READY legal and lets `attempts` grow only from LEASED.
- `GraphControl` ties `pc` to the state of the graph that is served (`Expected`):
  at `dispatch` it is RUNNING or NEEDS_INPUT, because every way back to the loop
  looks at it again.
- `NodeMove`, `AttemptMove`, `GraphMove`, `FilesMove`, `OwnerMove` and `RanMove` bound
  what a step does to one part of the state, whichever action it was.

The second half then needs the tables of transitions and few actions.
`AttemptBudget` is inductive because its second half (what may be leased has an
attempt left) carries the first. `DependenciesFirst` needs `NeverInterrupted`: the
table lets INTERRUPTED go to READY, and nothing in the scheduler records it.
`ResultBeforeState` needs `Receipts`: at `ended` the file agrees with the
executor, and no attempt of any number has two verdicts. `ApprovedByUser` needs
`Consent`: what reaches `ended` is never an approval. `TypeOK` needs `Provenance`:
every file belongs to an attempt within the budget, and so does the turn of the
owner, which bounds the attempts in which something had an effect.
`OneLlmOneWriter` and `TurnIsOwned` need `LeaseInv`: a live executor is that of a
node of a loaded graph that still holds its lease or was cancelled without it,
the node that is being leased has none yet, and two nodes that claim anything
exclude each other; the lease step keeps it because it looked at every node of
every loaded graph. `OneLlmOneWriter` is about what one host has started and says
what it does not exclude: a cancelled turn or process that goes on, and what dead
hosts have left, of which at most one turn for each death (`Leftovers`: no two
nodes have a turn when the host dies). `NoReplay` needs `ReplayInv`: what may be launched has had no
effect, and of a prompt that had one the host has counted a tool call, which only
a launch or a crash forgets. The theorem is stated for `MaxCrashes = 0`.

The last part is about the buffer of `AgentEvidence`, for any capacity. `Holds`
relates the buffer to all that was said since it was reset: it is the end of it,
each byte at its offset, within the capacity. `OffsetsNameBytes` has the two
facts of an induction over the appends: an empty buffer holds nothing, and
every append, with or without memory, keeps `Holds` and takes a text as a whole
or not at all. `OffsetsAreStable` gives what gates and readers rely on: a range
or a rest that begins at a held offset is the same part of what was said. That
the doubling of the allocation ends needs 2^n >= n, which comes from the
cardinality of the set of subsets, since induction is out of reach.

**Steering_proofs**, for any turns, Agent processes, inputs and lost exchanges.
`SealInv` says which turn each party is in (`Control`: the one the Agent serves is
the last one the host gave out), that the pull the Agent waits for is the only
one of its turn on the wire (`Link`), what a pull that was given up on may still
ask (`Wire`), and that a closed turn is not opened again and its Agent is out of
it or holds the answer that closed it (`Sealing`). It gives `SealIsLast`. The
other theorems assume a transcript with room (`TranscriptFills = FALSE`):
`StInv` adds `Contents`, which counts the inputs of the open turn on both sides
(`Marks`: applied, handed out, waiting; `Acks`: the Agent acknowledges the receipts
or one more, which was handed out; `Appends`: what it appended is what it
acknowledges). It gives `ReceiptAfterAppend`, `BoundaryInputIsHeard` and the
refinement `SteeringImplementsTurnInput`, step by step: admission, append, the
request to the model, receipt and seal are the five steps of `TurnInput`, every
other step is a stutter.

**EngineHost_proofs**, for any requests and any number of launches, deaths and
changed files. `OwnerInv`: the owner knows of the inference process as long as it
exists, beside it runs no child but its frontend, a launch that started the model
is alone and started what it captured, and a ready process runs on the files it
was started for. It gives `OneModelResident`, `FrontendHasModel` and
`PublishesWhatItPrepared`. `ClientInv` gives `AnsweredOnce`; `CancelInv` adds which
launch a loading model belongs to, and gives `CanceledLoadsNothing`.

**ModelRpc_proofs**, for any prompts, requests, interrupts, streams and any order
in which the pipes are drained. `RpcInv` is about numbers: requests come in
order through pipe, relay and reader (`Ordered`), a receipt in the pipe is the
last word on its request (`Delivered`: nothing that may still answer has its
number), the runtime made every request there is (`Asked`), and a receipt that
says tools is of a whole batch wherever it is (`Batched`); an interrupted turn has
only cancelled relays (`Silent`). It gives `PendingWaitsForCanceled`,
`ToolsAreWhole` and `InterruptSilences`.

**MediaJobs_proofs**, for any requests and jobs. `MediaInv` has three parts, each
of which needs the one before: `Owners` (a directory is claimed by one generator,
its token is that generator's server, and a stop request is served by that
server), `Scripts` (worker.pid names the script of the generator that claimed)
and `Locks` (who holds heavy-model.lock, from when to when). It gives
`OwnerStops`, and with `StrayInv` (a script that a server waits for was signalled,
and ComfyUI is left only by a worker that was) `OneModelLoaded`: of two models in
memory one belongs to a video whose script is gone, or is the ComfyUI of an image
that was stopped. `LeaseInv` adds who holds a memory lease and gives
`LeaseCounts`: the depth of the memory pressure is the number of leases held,
more by the requests that were late or lost since ds4-server was started, and less
by the leases from before its start that were released since. TLC checks it with
the instance of the run; it is no property of it.

**Checkout_proofs**, for any processes, patches, adapters and revisions. A job is
a sequence of steps and what is left of it is a suffix, so the order of the steps
is an invariant of suffixes: `Running` says of every job what must come right
before a step (a `diff` before a `pull`, the comparison before the first
publication), what must still come after one (the stamp after a publication, the
release of the lock after the stamp) and what must lie between two. It is proved
once for the sequences, piece by piece (`JobsOrdered`), and kept by every step
that goes on or skips. On it rest `Pulls` (right before a pull nothing is left of
the edits the job began with), `Builds` (what is copied over the pair is current
or marked as old), `Builders` (a job that still gives the lock back has it),
`Stamps` (no stamp while the holder of the lock publishes) and, with `Numbered`,
`Designs` (the number of a job stands for one source). They give
`PullsOverNothing`, `AgentFreshIsCurrent`, the exclusion of the build lock,
`StampMeansPair` and `DesignFreshIsCurrent`; `UserFilesStay` follows from the
guards of the steps that touch the path. The last two invariants of the module
are checked by TLC with the instance of the run but are not properties of it.

**Design_proofs**:

- For every context and transcript, compaction keeps at most its share behind the
  system prompt (`TailAlwaysBounded`), the kept tail begins with the first message
  of the user within the share (`TailAlwaysBeginsWithUser`), and the result is
  bounded by prompt, summary, share and report of jobs (`CompactedAlwaysBounded`).
- For any pages and contents, any order of tools, shell jobs and restarts,
  `ProjectInv` is inductive and gives `RegisteredIsEarned`, `MeasuredBeforeChanged`
  and `VerdictIsCurrent`. What the properties lack is in `PlanIsOfThisRun`,
  `ReviewsHold` (the critique on record, when it passed, and the verdict that is
  kept are of pages that `reviewed` still has: every tool that changes what they
  are about has dropped them from the record) and `OwedIsAsked` (the only page that
  can owe a measurement is the one the gate asks to measure).
- `OneConversationPerFile` for any number of conversations. `SessionInv` adds that
  a transcript's identity is its own unless a failed `/new` left it another's;
  every action of the loops is first shown to be one of the few session steps
  (`SessionStep`).

What stays with TLC: every liveness property (`CancelSettles`, `PauseSettles`,
`RunSettles`, `AdmittedIsHeard`, `LaunchEnds`, `TurnEnds`, `CancelEnds`,
`InterruptStops`, `LockIsReleased`), because the prover has neither fairness nor
ENABLED; the assumptions of the `MC` modules about what recursive operators
compute (the parsers, `UnifiedPatch`, `LaunchPlan`, the judgement of transcripts in
`AgentEvidence`, the pages of `TaskApi`), because it has no induction over data;
and the configurations of section 4. For the same reason the theorems about
`NodeFiles` and the buffer are about one operation and not about histories of
them; the induction that is left is the plain one over the operations.

## 6. Not modelled

`PROJECT.json` gives the reason for each part. In the Task Graph: the JSON
tokenizer and serializer, path checks, the synthetic executor, the watchdog's
counters, the registry's 32 entries and eviction, the limit of 32 MiB of a load.
In the engine: argument vectors, environment, log files. In the Design agent:
rendering, the geometry of the layout probe, web and asset search, what the
model is told in words; a content is atomic, and the contents that show the
required wording are given. In the checkout: downloads, the model folder, the
Laguna archive, the update of DStudio itself. In media: catalogue endpoints and
arguments of the generators. Not at all: the task log, the chat store, PDF,
search and embeddings, the remote relay, user skills, the desktop window, the web
client, and the agent extensions other than Design: they are input and output,
numerical ranking or single files whose last writer wins.

## 7. What is left

1. The registry with eviction and the journal's limit, as actions of `TaskStore`.
2. The task log and its stream, where a late update of one task can hide an
   earlier one of another.
3. Theorems about `TaskApi`, whose questions the runs answer over bounded inputs
   only.
