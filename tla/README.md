# Orxhestra in TLA+

Specifications of orxhestra: the agents' loops and the tools that run agents, the
Runner with its session, compaction, signatures and terminal, the A2A server and
client, and the services underneath - sessions, artifacts, memory, MCP, the
attestation log, the filesystem tools, the signing identity and the Composer.
Paths are below `src/orxhestra/`. `PROJECT.json` maps every definition to the lines
it stands for, and lists the hazards at theirs.

Orxhestra runs on one asyncio event loop. A step of a module goes from one
suspension point (`await` that really suspends, or `yield`) of one party to its
next, and the parties interleave at those points only. Where the code leaves the
loop - worker threads, renderer threads, several processes on one directory - a
step is one access to what is shared.

## 1. Inventory

| Part | Source | State | What is hard, and what makes it correct |
|---|---|---|---|
| Tool-call concurrency | `concurrency.py`, `agents/tool_executor.py` | tasks, event queue, the pending `get()` | several things done in one wake-up, cancelling a `get()` that holds an item. Nothing lost or reordered, results last |
| LlmAgent, planner, todo list | `agents/llm_agent.py`, `planner_adapter.py`, `tools/todo_tool.py` | messages, iteration, attempts; `_last_llm_error` and the todo list, shared | three counters, a shared agent object. Calls are answered, errors are the invocation's own, the loop ends |
| ReActAgent | `agents/react_agent.py` | dialogue, iteration | streamed thoughts, unknown tools |
| Composite agents | `agents/parallel_agent.py`, `loop_agent.py`, `sequential_agent.py`, `invocation_context.py` | merge queue, tasks, iteration | escalation out of nested streams, a child that raises, streams left behind |
| AgentTool, transfer | `tools/agent_tool.py`, `transfer_tool.py`, `exit_loop.py` | the injected context | kept on an object that invocations share |
| Background tasks | `tools/task_tools.py` | status and output of each task | three writers of one status |
| Runner, middleware stack | `runner.py`, `middleware/stack.py` | session, active agent, transfer target | early close, failing hooks, concurrent calls. Handoffs are followed, hooks paired |
| Compaction, message building | `sessions/compaction.py`, `events/filters.py`, `agents/message_builder.py` | the event list | others append while the summary is awaited. The history stays well-formed and complete |
| Signed events | `agents/base_agent.py`, `middleware/trust.py`, `trust/policy.py` | chain heads on both sides | both sides advance under different conditions |
| CLI | `cli/ink_app.py`, `stream.py`, `approval.py`, `writer.py`, `commands.py` | queue, worker, prompts, live region, runner and session | threads that share a queue, a prompt and a screen; commands beside a running turn |
| A2A server, task store, push | `a2a/server.py`, `store.py`, `notifications.py` | tasks shared by reference, an LRU dict, webhooks | cancel against completion, disconnects, eviction of a running task, cursors into a changing order, retries |
| A2A client agent | `agents/a2a_agent.py` | frames read so far | lost connections; a cut stream must not pass for a whole one |
| Sessions | `sessions/*_session_service.py` | objects, stored rows, shared event lists | copies, memory ahead of the database |
| Artifacts, memory | `artifacts/*`, `memory/*` | versions, files, an index | threads, several processes, deaths between two writes |
| Attestation | `trust/attestation/local.py` | hash-chained log, claims, revocations | torn lines |
| MCP client | `integrations/mcp/client.py` | shared connection and its depth | entries during a handshake, nested exits |
| Filesystem tools | `filesystem/*`, `tools/filesystem.py` | a directory, or a dictionary standing in for it | the two must agree |
| Signing identity | `security/crypto.py`, `did.py`, `cli/identity.py` | the key file, the published document | torn and concurrent writes replace the identity |
| Composer | `composer/*` | cache and stack of the recursive build | references, cycles, transfers to agents already built |
| Other middleware, models, skills, prompts, SSRF guard, canonical JSON, scripts | | none that evolves | not modelled |

They interact by calls and by events. The Runner pulls an agent's stream, which
pulls its sub-agents' streams, and passes every event through the middleware
into the session; the CLI and the A2A server each pull a Runner's or an agent's
stream from a worker of their own; tools push events into the merge of
`concurrency.py`; compaction and the message builder read the session's event
list.

## 2. How the project is laid out

One module per part, and four modules that put parts together for TLC, with the
modules that hold their proofs:

| Sum module | Parts | Proofs |
|---|---|---|
| `MCAgents` | `LlmAgent`, `ReActAgent`, `CompositeAgents`, `AgentTool`, `BackgroundTasks` | `Agents_proofs` |
| `MCConversation` | `Runner`, `MessageBuilder` over `Compaction`, `Trust`, `Repl`, `LiveText`, `Commands` | `Runner_proofs`, `Conversation_proofs` |
| `MCA2A` | `A2AServer` over `TaskStoreOps`, `TaskStore`, `PushNotifications`, `A2AClient` | `A2A_proofs` |
| `MCServices` | `Sessions` over `SessionLog`, `Artifacts`, `FileMemory`, `McpClient`, `Attestation`, `Identity` | `Services_proofs` |
| | `Composer`, `FileSystem` | `Workspace_proofs` |
| - | `EventGather` over `OrderedStream` | `EventGather_proofs` |
| - | `Selections`: the members of a sequence or of a set of numbers, in their order | `Selections_proofs` |

Each sum module EXTENDS one component - `LlmAgent`, `Runner`, `A2AServer`,
`McpClient` - and INSTANCEs the others, and each theorem is about the very definition
that its run checks. It is not a product: its variable `part`, chosen in the initial state,
says which component moves, and the others stay in one initial state. So a run
explores each component completely within its bounds and no interleaving between
components; each property speaks of one component. `EventGather` is a run of its own,
since it has a refinement and a real terminal state. What composes components for
real: `A2AServer` runs over `TaskStoreOps`, the same operators `TaskStore` checks;
`MessageBuilder` builds the model's history from the session that `Compaction`
changes; the modules of concurrent parties (`Runner`, `Repl`, `Commands`, ...)
each hold all parties that share the state they are about.

The order in which the modules were planned: the merge of tool events; A2A; Runner
and compaction; then agents, storage, signatures, terminal, Composer.
All of it is written; what is not modelled is in section 7.

## 3. Modules

### OrderedStream and EventGather

`OrderedStream` is what `gather_with_event_queue` promises: items in push order,
as they come, then one result per coroutine. `EventGather` is the code. Its
variables are the local ones: `pending` is the dict `tasks`, `done` the set
`asyncio.wait` returned, `getter` and `held` the state of `queue_task`, `pc` the
suspension point; `pushed` and `delivered` are history. `WakeForItem` is a
wake-up that finds `queue_task` done (lines 64-70), `WakeForTasks` one that does
not; `Resume` is what follows the yield, harvesting the snapshot taken before it.
`Harvest` pops tasks in the arbitrary order of a set until one re-raises, hence
the `\E popped`. The coroutines of ToolExecutor turn exceptions into error
results, so for that caller `Raise` is a cancellation. The model relies on two
facts about asyncio: a `Queue.get()` wrapped in a task takes its item in the
step in which the task runs (`GetterTakes`), and a task that is done ignores
`cancel()`.

### LlmAgent

Each invocation's locals are a record `inv[i]`; `board` is the todo list, `lastError`
the attribute `_last_llm_error`, both shared. `pc` is the suspension point: the
`before_model` hook, the model call, the backoff between attempts, the recovery
callback, the tools, the yields of responses. `ModelFails` counts attempts, `Iterate`
starts the next round and ends with the error at `MaxIterations`. `Enriched` rewrites
`messages[0]` from the board before every model call if that is a system message, which
an agent without instructions does not have (its model is shown no board); reminders are
appended when the planner says to go on. `Others` is whatever any number of further
invocations do to the two shared variables, so one invocation in full is enough for the
invariants about them. `EndFromOutside` sets `end_invocation` on this invocation's own
context; a tool's context is a copy and does not.

### ReActAgent, CompositeAgents, AgentTool, BackgroundTasks

`ReActAgent` has the steps of `astream`, the streamed thought of `_invoke_step`,
unknown tools and the error at the bound.

`CompositeAgents` is one invocation of a tree. A leaf yields events that may be
final or escalate; an event goes to the consumer or to the queue of the nearest
ParallelAgent above. `After` is what the generators do when they are resumed past
their `yield event`, outermost first: the outermost loop returns on an escalation,
a sequence keeps a final answer as its next input. What such a return leaves behind is
`dropped`: finalised some time later, while the tasks of a ParallelAgent run on until then.
`PutEnd` is the `None` sentinel, which a child that raised never puts. The instance has
five trees: loop over fork, pipeline with a fork, fork over a loop, loop in loop,
loop over a pipeline; the module assumes of a tree only that it is one (`IsTree`),
as the constructors' parent links make it.

`AgentTool` is one tool object with `injected` its `_ctx`; each call injects
and later reads it. `BackgroundTasks` has the asyncio task and the record of each
background task: `Create`, `Start`, `Finish`, `Cancelled`, `Update`, `Stop`.

### Runner

`Runner.astream`, several calls on one in-memory session, with the active-agent
key, a middleware stack and compaction configured. `pc` is the suspension point:
`begun` (before the hooks), `streaming` (in the agent), `yielded` (at the yield
of an event), `unwinding` (the `after_invoke` hooks), `compacting`/`notice`. `Close`
is the consumer's `aclose()`: `except GeneratorExit` does not re-raise, so the call
goes on to the compaction stage (`closing`). An agent is an arbitrary sequence of
whole or partial events with or without a transfer, to an agent of the tree or to a
name `find_agent` does not resolve; a middleware may drop an event, and any hook may
raise. `asked` is history: the transfers the consumer was shown. Whether
compaction has something to do is a free choice here; module `Compaction` says when.

### Compaction and MessageBuilder

The session's event list with its summaries, and what each invocation holds in
`compact_session`'s locals while it awaits the summarising model. `Split` is
`_split_by_retention_chars`: the index at which the kept characters reach the
retention, then the largest smaller index that separates no call from its
answer (the code walks back one event at a time and recomputes the calls at
every step, which is this maximum). Loops of the code that filter a list are
`Select` and `InOrder` of `Selections`, here and in `Trust`, `LiveText`, `Commands`,
`A2AClient` and `Composer`: defined by positions and not by a fold, so that one can
prove about them. `Hidden` is `apply_compaction`. `covers` and
`since` are history. Timestamps are assumed to increase strictly along the list.
`MessageBuilder`'s `History` is `events_to_messages` over such a session.

### Trust

The agents' side links every whole signed event of a branch to the last one
(`heads`); the middleware's side checks the link (`trustHeads`). Events travel
through `arriving`: the answers of tools that run at once may be made in one order and
arrive in another. A policy is strict with chains or permissive; resolving a DID
may fail.

### Repl, LiveText, Commands

`Repl` is the terminal's message queue: `Enter` is `on_key`, workers take messages until
the queue is empty, prompts of a worker and of a slash command share one selector and
one answer slot. `disturbed` are the askers whose prompt met another one - requested
while it was open, or shown from before, as leaving a free text shows the list of
another prompt again - or was left by Esc. `LiveText` is streamed text between the
worker, one renderer thread per live region and Ctrl-C, with the lock's extent as the
code has it: `region` is what a renderer has spilled and drawn, `history` the
scrollback. `Commands` has the slash commands that replace or edit the session or the
runner beside a running turn; session objects are numbered, `current` is what
`state.runner` and `state.session_id` point to.

### TaskStoreOps, TaskStore

`TaskStoreOps` has the effect of each method on the ordered dict, as a sequence
of task ids from least to most recently used. `TaskStore` adds the clients:
`Create` and `Update` (puts of the server's handlers, the second also for an
evicted task whose handler still holds the object), `Lookup`, `Remove`, and a
client that pages with the cursors it is given; `pager.steady` is what a
complete listing must contain.

### A2AServer, PushNotifications, A2AClient

`A2AServer` has one variable per field of a task, since the task object is shared
by reference and survives eviction; `run` is the handler or generator that runs the
agent. `Accept` .. `Finish` are `_handle_send_message`/`_run_agent_for_task` or
`_handle_send_streaming_message`/`_stream_task`, cut at `create_session`, at the
agent's events and at the SSE yields. `Fail` is an exception of the agent or a
client that disconnects: no handler sets FAILED, the task stays as it is.
`GetTask`, `CancelTask` and `SubscribeToTask` are the other methods; the generator of
the last runs after its handler returned.

`PushNotifications` has the webhooks of one stored task: `Emit` is `dispatch` as
called by `_stream_task` (SendMessage never dispatches), `Answered`, `Failed` and
`Retry` are the loop of `_post`. The receiver is external: it may see a request
whose answer is lost.

`A2AClient` is one call of `A2AAgent.astream`, blocking or streaming, with what
the server makes of the remote run on the wire. The connection may be lost or time
out anywhere. A refused call is an HTTP 400, which `raise_for_status` raises; so does a
streamed tool call (`ReadToolCall`), for the code names an event type that does not
exist (section 6), and nothing is read after it.

### Sessions, Artifacts, FileMemory, Attestation

`Sessions` has both services behind the same calls: session objects in a heap, the event
lists they may share, the stored object of the in-memory service and the rows of the
database, whose two steps (`DatabaseAppend`, then `DatabaseCommit` or `DatabaseFail`)
others interleave with. `SessionLog` is what `BaseSessionService` promises: a set of
events per session, an append that adds a new event to one of them, the events whose
`append_event` has returned. `MCServices` instantiates it with `log` = what
`get_session` would return (`LoadedEvents`) and `past` = the events numbered so far;
`KeepsSessionLogs` says that either service implements it. `Artifacts` has both services
too; a save of the file service is a worker thread's sequence of file accesses.
`FileMemory` writes a memory file and then the whole index from a scan. `Attestation`
appends to two logs of lines, where a crash leaves a torn last line that the next append
continues. In each, another process or thread may act, or the process die, between any
two accesses.

### McpClient, Identity, FileSystem, Composer

`McpClient` has callers that enter, nest, call and leave; `conn` are the FastMCP clients
ever made. `Identity` is the key file with the programs that load, create, replace,
encrypt and publish it; `disturbed` says that some program met a file it could not read.
`FileSystem` makes each call of the tools on the disk and on the dictionary at once.
They are known to differ in a few named cases: writing onto a directory, the root
included, or below a file; `mkdir` with missing or file parents, of an implied directory
or of the root, which the dictionary then lists in itself; deleting an implied directory
or its last file; deleting the root of a workspace that has something in it, a no-op on
the dictionary; `ls` or `grep` of a file; `glob` and `grep` below a root that is given
as `.`, where the dictionary finds nothing; paths that leave the workspace. The first
such call sets `apart`, after which no more is asked. Paths are relative; that
`local.py:70` compares prefixes of strings, so that a sibling directory whose name
begins like the workspace's passes, is left out. `Composer` builds every file of a set
depth first, one action per visit, with the cache and the cycle check, then registers
transfer targets and stamps identities. `Reached`, what can be reached along references,
is the least set closed under them, and `Names` are the names files may refer to,
defined in the file or not. In `FileSystem`, `Normal` and `Escapes` say of each segment
of a path whether `..` takes it away, by counting what follows it: what the loop of
`_normalize` leaves on its stack. `MCServices` gets the paths and the YAML files as
constants (`SmallPaths` and `SmallFiles` in the run), since the theorems hold for any.

## 4. Runs

| Run | Bounds, and why they are enough | Shows |
|---|---|---|
| `event_gather` | 3 coroutines, 3 items: two can finish in the snapshot while the third pushes before, between and after | `NoEventLost`, `ResultsComeLast`, `Completes`, and `KeepsPromise`, the refinement |
| `agents` | one invocation beside `Others`, 2 iterations of 2 attempts, 2 calls in an answer; five trees with 2 passes; 2 invocations with an AgentTool each; 2 background tasks: each counter meets its bound while another is in the middle, escalation crosses a loop, a fork and both | the loops end, calls are answered, nothing follows an escalation, a merge that is over is complete, stops stop |
| `conversation` | 2 calls, 2 agents and an unknown name, 2 middleware, 5 log entries (two handoffs beside another turn); 2 invocations, 5 events of at most 2 characters, threshold 3, retention 2 (overlapping summaries, unanswered calls); 3 events on 2 branches with 2 tools at once; 3 typed messages, 4 pieces of work; 2 texts of 3 lines with a spill after 1; 3 turns and 3 commands | the eleven properties of Runner, history, signatures and terminal |
| `a2a` | 2 tasks over a store of 1, so that each can evict the other while it runs, 1 subscriber; 4 tasks over a store of 2 and a page size of 0 (clamped to 1); 2 webhooks, one with a rejected URL, 2 retries (the default); 3 remote events | truth of COMPLETED, every accepted task settles, paging, the remote run is told |
| `services` | 2 users of each service; 2 sessions, 2 events and 2 session objects (a second session, or a copy that `update_session` made and a holder of the old one); 1 crash or failed write where files are kept; 4 saves; 4 memory operations over an index of one line and three names of which two collide; 3 MCP callers and 3 connections; 4 audited events; all YAML files of 3 agents with at most 2 references; 6 spellings of paths; 3 keys, 2 passwords | the services' properties, and `KeepsSessionLogs`, the refinement |
| `a2a_cancel`, `push_disconnect`, `compaction_retention`, `runner_close`, `denied`, `agent_tool_context`, `kill_switch` | the smallest that shows it | one documented property each that the code does not keep (section 6) |

Parameters of the code: `N`, `MaxTasks`, `Limit`, `MaxRetries`, `Threshold`, `Retention`,
`MaxIterations`, `IndexCap`, `TailLines`. All other `Max...` constants bound the
model: they are in guards and are named at their declaration. Symmetry (of
interchangeable invocations or users) is used in `conversation` and `services`, which
check safety only. Deadlock is checked in `event_gather`, where the end of everything
is the explicit action `Terminated`; the other systems may stop where their bounds or
their clients stop (`CHECK_DEADLOCK FALSE`).

Fairness is always that of the event loop: what is ready runs.

- `EventGather`: `GetterTakes` and the generator; coroutines owe nothing.
- `LlmAgent` (`LoopsEnd`): the invocation itself, whatever its model and tools
  answer; that they answer is the fairness of `Run`, as the code awaits them without
  a bound of its own.
- `CompositeAgents` (`StreamEnds`): `Progress`, what the generators and tasks do, and a
  consumer that asks for the next event or closes. The property excepts
  a parallel agent one of whose children raised, which hangs.
- `BackgroundTasks` (`StopsWhenAsked`): the start of a scheduled task and the
  delivery of a cancellation; a subtask that is not asked to stop owes nothing.
- `A2AServer` (`AcceptedIsSettled`): the run of a task, as agents are bounded;
  clients are not fair, and a run they or the agent break off is excepted. It says that
  the state is terminal from some time on, not which one: a cancelled task may be
  overwritten on the way, which is the finding `TerminalIsFinal`.
- `PushNotifications` (`ToldTheEnd`): the stream.

Each property of a passing run has a mutant of a mapped definition that violates it,
named for the mistake (`WakeForTasksFirst`, `SplitAnywhere`, `ExitEager`, ...) and
placed before the definition it mutates. Most properties carry history variables
(`asked`, `covers`, `signed`, `acked`, `kept`, ...) that record what was promised
without looking at how it is kept.

## 5. Proofs

Every invariant that a run checks is proved for all values of the constants, and so are
the two refinements; what is left to TLC is liveness.

| Theorem | Property | Module |
|---|---|---|
| `EventsAreKept`, `ResultsAreLast` | `NoEventLost`, `ResultsComeLast` | `EventGather_proofs` |
| `TypeCorrect` | `TypeOK`, a conjunct of the invariant; no run lists it | `EventGather_proofs` |
| `Implements` | `KeepsPromise`: `EventGather` implements `OrderedStream` | `EventGather_proofs` |
| `CallsHaveAnswers`, `RemindersAreTrue`, `ErrorsAreOwn` | `CallsAreAnswered`, `ReminderMatchesBoard`, `ErrorIsOwn` | `Agents_proofs` |
| `NothingEscapes`, `MergesAreComplete` | `NothingAfterEscalation`, `MergeIsComplete` | `Agents_proofs` |
| `HandoffsAreFollowed`, `HooksPair` | `HandoffIsFollowed`, `HooksArePaired` | `Runner_proofs` |
| `SummariesHideWhatTheyCover`, `HistoryIsAccepted` | `SummariesReplaceExactly`, `HistoryIsWellFormed` | `Conversation_proofs` |
| `VerifiedAreChained`, `HonestAreVerified` | `VerifiedIsPrefix`, `HonestIsVerified` | `Conversation_proofs` |
| `QueueIsServed`, `LinesStandInOrder`, `AskersGetTheirAnswer` | `QueueHasAWorker`, `LinesFollowTheirMessage`, `PromptsGetTheirAnswer` | `Conversation_proofs` |
| `TextsAreShownOnce`, `RestIsKept` | `TextIsShownOnce`, `CommandsKeepTheRest` | `Conversation_proofs` |
| `ToldTheTruth`, `PagesMissNothing`, `TheRemoteRunIsTold` | `CompletionIsTrue`, `UnusedTaskIsListed`, `TellsTheRemoteRun` | `A2A_proofs` |
| `SessionLogsAreKept` | `KeepsSessionLogs`: `Sessions` implements `SessionLog` | `Services_proofs` |
| `AcknowledgedEventsAreLoaded`, `SessionsAreApart` | `AcknowledgedIsLoaded`, `SessionLog!Isolated`, which no run checks by themselves | `Services_proofs` |
| `IsolatedSavesAreKept`, `TheIndexHeals` | `IsolatedSaveIsKept`, `IndexHeals` | `Services_proofs` |
| `TheLogIsChained`, `ClaimsDoNotVanish` | `ReadableIsChained`, `NoClaimVanishes` | `Services_proofs` |
| `SessionIsKept`, `SharedIdentity` | `InsideKeepsItsSession`, `IdentityIsShared` | `Services_proofs` |
| `BuildsAreExact`, `BackendsStayAlike` | `BuildIsExact`, `BackendsAgree` | `Workspace_proofs` |
| `AgentTypes`, `ConversationTypes`, `A2ATypes`, `ServicesTypes` | `MCTypeOK` of each sum module | |

**Assumptions.** Each component names its own (`RunnerAssumption`, `ComposerAssumption`,
...): that bounds are numbers, that names standing for "nothing" are not members, that
a tree is a tree, that what a path or a file can be is a sequence or a record of the
right shape. A sum module ASSUMEs them of its instances, and TLC evaluates that in every
run. `EventGather` assumes only that there is a coroutine.

**From component to sum.** An argument is about the `Init` and `Next` of one component.
A step of the sum is a step of it or leaves its variables alone, so every behaviour of
the sum is one of the component (`SessionsLift`, `McpLift`, ...: `MCSpec => X!Spec`);
`Agents_proofs` does without the fairness, which the sum gives to the part that moves
only.

**Invariants.** Except for types none is inductive as it stands. Each component has an
invariant with a lemma for the initial states, one per action or group of actions, and
`Spec => []Inv` from them.

- **EventGather** (`IInv`). A wake-up for a finished coroutine cancels `queue_task`
  with whatever it holds, so one needs to know that it holds nothing then:
  `GetterPlace` says where `queue_task` stands at each suspension point.
  `HarvestPlace` says that the coroutines no longer in `pending` have returned unless
  one raised, and that `pending` is empty from the drain on; `OutputPlace` that no
  result is out while events are queued. `StepSimulation` maps each step to a step of
  `OrderedStream` or a stutter, under `live` = the running tasks and `status` from `pc`.
- **LlmAgent** (`LoopInv`). `CallsAreAnswered` speaks of the moments when the model is
  called; in between the last message's calls are open. `Good` says which: all messages
  are settled outside the tool round, and within it all but the last, which made exactly
  the calls that run. `Reminded` is about every point from the prompt to the model
  call, since the board changes under it while the copy in the prompt does not. An
  error belongs to the invocation until it has awaited a callback (`waited`).
- **CompositeAgents** (`TreeInv`). `CalmAfter` says of each escalating event shown that
  the outermost loop above it is over with everything below it the consumer hears
  (`Quiet`), or will be when the consumer asks for the next. That takes `Rooted` (who runs
  has its ancestors started), `StartedOnce` (outside loops and forks a step starts
  an agent once), and `Queued`, `Held` for what is on its way. What runs on
  behind a fork is heard by its queue only.
  `MergeIsComplete` has an argument of its own (`MergeInv`). While a fork merges, the
  `None`s it took and those in its queue are as many as its children that joined, and
  once all have joined nothing is queued behind the last (`Counted`), so the last one it
  takes leaves the queue empty; while it does not merge, nothing of it runs and nothing is
  queued (`AtRest`), unless it was left behind. Who runs is run by those
  above (`Calm`), a sequence or a loop runs only its current child (`OneAtATime`), and what
  was left behind cannot be started again (`Barred`). The property excepts a fork in a loop
  that is itself below a fork (`Sole`): the model has one record and one queue for each
  agent, while in the code each run has its own, so a run that was left behind there and the
  loop's next one would share them.
- **Runner**. `Follows` ties the last transfer shown (`asked`) to the two places
  where the code keeps it: `offered`, at the yield, and `target`, once resumed; and
  says that a call that is about to end has nothing to follow. `Paired` says that the
  middleware entered are always the outermost ones, all of them while the agent
  streams, none once unwound unless a hook raised.
- **Compaction, MessageBuilder** (`HistoryInv`). Summaries, and the decisions of
  compactors that still await the model, hide exactly what they cover (`Exact`) and
  cover calls with all their answers or not at all (`Closed`). That stays so while
  others append: a call waits for answers in one invocation only (`Owing`, `OwedOnce`), and
  answers come after their call.
- **Trust** (`TrustInv`). What was signed on a branch ends with the head of the agents'
  side (`SignedInOrder`), each event on its way names its predecessor (`UnderWay`), and
  what passed ends with the head of the middleware's side (`PassedInOrder`).
  `Undisturbed` is the induction for the honest branches: each event on its way
  will find the head it names.
- **Repl** (`QueueInv`, `LinesInv`, `PromptInv`). The lock's effect: `Alone` (without
  Ctrl-C the live workers are exactly one while `running`, none otherwise), `Queue`, and
  `Unborn` for workers of messages not typed yet. `Place` orders the lines shown, the
  message being run, those taken and those queued. `OnlyOne`: a prompt no other prompt
  came in between of is the only one open, and selector, key and waiter are its own, with
  the keyboard at its list or its free text until it is answered.
- **LiveText** (`LiveInv`). A text's pieces in the scrollback are its beginning up to
  what the renderer has spilled (`Telling`), and up to the end from the flush on
  (`Told`). `Joined` says when a renderer is over, `Drawn` who will still clear what is drawn.
- **Commands** (`CommandsInv`). A list is a summary and what follows it, turn by turn
  without a gap (`Story`), shows the turns the user kept (`Expected`), and so does the
  copy a command works on while it awaits the model.
- **A2AServer, PushNotifications** (`ServerInv`, `PushInv`). `CompletedIsDone`: a status
  is COMPLETED only once its run is over, so no handler is left that could overwrite it;
  cancel refuses terminal tasks. A post under way has not used up its retries.
- **TaskStore** (`PagerInv`). `StillToCome`: what was there all along and was not
  shown stands beyond the cursor, as a task that is used moves to the end and one that is
  evicted or stops matching sets `shrunk`.
- **A2AClient** (`AgentInv`). `NothingIsLost`: what was told and what is on the wire make
  the remote run. `CallsAreUnread`: a client that reads on has met no streamed tool call;
  those of the run so far are still on the wire, so it will.
- **Sessions** (`SessionInv`). `AckedIsStored` follows acknowledged events through
  both services; `ListIsShared` is why an append to a copy reaches the stored object;
  `Ordered` keeps transactions of different events apart. The refinement takes more
  (`LogInv`): `ListsApart`, no object but those of a session has the list of the stored
  one, so that an append shows in one session; `NumbersApart`, open transactions are of
  different events; `Unheard`, a session without a row has nothing acknowledged.
  `MemoryKeepsLogs` and `DatabaseKeepsLogs` show every step as `Append`, `Clear`, `Lose`
  or a stutter: the memory service's `append_event` appends at once; the database's shows
  at the commit, its deletion and its creation clear; a failed or late append and an
  update are `Lose` or a stutter. That sessions have no event in common follows
  (`LogsStayApart`): what is loaded is past, and an append is not.
- **Artifacts, FileMemory** (`ArtifactInv`, `MemoryInv`). A save that is alone has a
  version above all others until it is done (`AloneIsFirst`); an operation that is
  alone wrote the index of what is still there (`AloneSeesAll`).
- **Attestation** (`AttestationInv`). `Linked`: without overlap a line under way has the
  hash of the last line that can be read. `Accounted` counts: the claims gone without
  a record, and a log that waits to spoil the next record, have a torn write each.
- **McpClient** (`McpInv`). `depth` is a number, the property is about who is inside:
  `DepthCountsBlocks` says that it is the cardinality of the set of entered blocks
  (caller, nesting level), so it reaches 0 only when nobody is inside. `OwnIsOwn`
  separates the connections of single calls from the shared one, `JoinedIsInside`
  links the history variable to the nesting.
- **Identity** (`IdentityInv`). `OneKey`: as long as nobody met an unreadable file there
  is at most one program between reading and writing, the file it will replace is
  absent, and every running program and the document have the file's key.
- **Composer** (`ComposerInv`). `StackRight`: who is being built is reached from all
  that stand before it, so that meeting a name on the stack is a cycle of the file, and
  the references before its next one are built. `BuiltRight`: what is built has all it
  refers to, is needed and on no cycle, of references or of `sub_agents`.
  `SignedRight`: an agent of the tree has the identity, or is below one still to visit.
  A cycle is ruled out with `Reached` as the least closed set and no induction on
  its length.
- **FileSystem** (`FilesInv`). `BackendsAgree` compares what is on the disk with what
  the dictionary implies. `Alike` says how the one follows from the other: a directory
  of the disk is noted in the dictionary or above one of its files; `Grown` that all
  above an entry is a directory.

**Only model-checked.** The five liveness properties, `Completes`, `LoopsEnd`,
`StreamEnds`, `StopsWhenAsked` and `AcceptedIsSettled`: liveness under fairness and
ENABLED are out of the prover's reach. The seven violations of section 6 are
counterexamples, not theorems. Where a proof would have needed an induction over data -
folds over sequences, walks through a tree - the model says the same by positions and
least sets; `Selections_proofs` has the lemmas about these, which rest on the
cardinality theorems and on the well-foundedness of the numbers.

## 6. Where code and documentation differ

Each is a run that finds the counterexample:

- `TerminalIsFinal` (`a2a_cancel`): `a2a/types.py:271` calls CANCELED terminal;
  CancelTask does not stop the run, which overwrites it.
- `ToldTheEnd` (`push_disconnect`): webhooks are offered to clients that cannot hold
  an SSE connection, but are dispatched from the SSE generator, which ends with it.
- `RetentionIsKept` (`compaction_retention`): the event that makes the kept
  characters reach `retention_chars` is itself summarised, so fewer are kept.
- `CompactionFollowsStream` (`runner_close`): a stream closed early falls through to
  the compaction stage, mid-stream, and breaks off if it yields its notice there.
- `DeniedIsNotRun` (`denied`): a tool call the user denies is run all the same;
  `wrap_tools_with_approval` is never called.
- `OwnContext` (`agent_tool_context`): two invocations that share an AgentTool may
  run its sub-agent in each other's context.
- `EndIsObeyed` (`kill_switch`): a tool's `end_invocation` is set on a copy of the
  context that no loop looks at.

Met while modelling, and part of the models without a property of their own:

- Overlapping compactions may summarise an event twice
  (`docs/concepts/runner-sessions.mdx:108` says never).
- A ParallelAgent one of whose children raises waits for ever (`StreamEnds` excepts it).
- `/retry` never re-runs the message (`docs/cli/commands.mdx:17`); Ctrl-C does not stop
  the worker; Esc in a free-text prompt leaves its asker waiting.
- With `require_chain` in strict mode, two parallel tool answers out of order make
  every later event of the branch rejected; `HonestIsVerified` excepts such branches.
- A torn line of `revocations.log` makes the next record unreadable too, and
  `verify_claim` does not consult revocations.
- A wrong password, a torn key file or a concurrent writer silently replaces the
  identity; a published did:web document then goes stale.
- A database append that fails has already changed the session object in memory.
- An agent wrapped as a tool gets no signing identity
  (`docs/composer/overview.mdx:342` says every agent does); mutual transfers are
  rejected as circular; a served agent gets neither identity nor middleware.
- A tool call that the remote agent streams makes the A2A client raise AttributeError:
  `a2a_agent.py:461-466` uses `EventType.TOOL_CALL`, which `events/event.py` does not
  define, though its docstring (:137-141) promises such events. Of an event with several
  tool calls the server streams the first only.
- An LlmAgent without a system message is reminded of a todo list it is never shown.
- Answering a free-text question shows the list of an earlier prompt again if another one
  had taken its place; what is chosen there answers whoever asks meanwhile.
- The in-memory filesystem treats the root as any other name (section 3).

## 7. Not modelled

- Components without evolving state: callback and logging middleware, models, skills,
  prompts, the SSRF guard, canonical JSON, scripts.
- Inside the modelled parts: tracing spans, JSON-RPC envelopes, agent cards, texts of
  summaries, prompts and messages, cryptography, regular expressions and output
  limits of the filesystem tools, rendering, themes and argument parsing of the CLI,
  MCP prompts and schema conversion, the A2A client's task and webhook helpers,
  `list_sessions`, and what an agent's own builder makes of its YAML fields.
- Equal timestamps in a session, and concurrent state deltas of database sessions, about
  which the code promises nothing (`PROJECT.json` has the notes).
- Interleavings of different parts of one sum module. They share state through
  interfaces that each part models as its environment (an agent is any sequence of
  events, a session any list), so nothing of one part is assumed of another beyond that.
