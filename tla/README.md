# A verification development for Archon

Archon (`src/archon`) is a Python asyncio daemon: Telegram updates come in, a
pipeline of Claude sessions answers them, background agents work on their own,
scheduled jobs fire, and everything that was said is written to Markdown history
and compacted at night. One process, one event loop, no threads that share state
except short file operations. What is hard about it is therefore not data races but
*await* points: state read before an `await` and used after it, a task cancelled at
whichever `await` it happens to be suspended at, locks released in a `finally` that
may run late, and singletons shared by tasks that nobody expected to overlap.

All modules take that view. A process is an asyncio task, its program counter is the
`await` it is suspended at, and one action is what it does from one `await` to the
next, atomically. An uncontended `asyncio.Lock.acquire()` does not suspend, and a
cancellation (`Task.cancel()`) is delivered when the task is next resumed, at the
`await` where it is.

## 1. Inventory

| Component | State it keeps | Operations | Talks to |
|---|---|---|---|
| Background agent manager (`ai/background_agent_manager.py`) | `_runs`, `_active_names`; per run status, `done`, beacon, Claude session | `spawn`, `cancel`, `stop_all`, `_run_agent`, pruning | session manager (context), agent logger, Telegram, plan executor, toolkit |
| Agent logger (`ai/agent_logger.py`) | the stack `_active` of open log writers | `record_event` | background agents, pipeline |
| Plan executor (`ai/plan_executor.py`, `ai/agent_plan.py`) | sets of failed, skipped, succeeded agents of one plan | topological sort, waves, wave timeout, summary | background agent manager, Telegram |
| Session manager (`ai/session_manager.py`) | sessions, per-user locks, eviction timers, evicted flags | `get_or_create`, `stop`, eviction, auto-compaction, `stop_all` | handler, commands, pipeline, compactor |
| Message handler (`chat/handler.py`), commands (`chat/commands.py`) | local: the session reference, beacon task | a Telegram message, `/clear`, `/stop`, `/models`, cancel buttons, job toggles | session manager, background agents, scheduler |
| Pipeline (`ai/pipeline.py`) | `_lock`; the stream in progress; tool counter and timeout | `send`, promotion, recovery after a timeout | classifier, decomposer, background agents |
| Decomposer (`ai/decomposer.py`) | router, summary and task sessions; pending-turn buffer; router call count | `route_task`, summary refresh, router reset, recovery | pipeline |
| Claude session (`ai/claude_session.py`) | `_send_lock`, `_processing`, pending context and skills, connection | `start`, `send`, `stop`, `force_kill_for_recovery`, injection | Claude CLI (external) |
| Reminder (`ai/reminder.py`) | message and token counters | `should_inject`, `build_reminder_message`, record | Claude session |
| Job scheduler (`ai/job_scheduler.py`) | job status table, file snapshot, running tasks | tick loop, reload, `_run_job`, disabling invalid jobs, `stop` | toolkit tools, prompts, Telegram |
| History compactor (`ai/history_compactor.py`) | one cached summariser client; summary files | pending days, today, cleanup of partials | gateway, session manager |
| History manager (`ai/history_manager.py`) | last source per day file | record user, assistant and system lines | handler, agents |
| Media group collector (`chat/media_group_collector.py`) | pending groups, a future and a timer per group | `add`, resolve, `close` | file handler |
| Restart coordinator (`ai/restart_coordinator.py`), restart watcher (`gateway/gateway.py`) | countdown task, fired event, timestamp file | `schedule`, `wait`, `cancel`, rate limit | toolkit, commands, gateway |
| Gateway (`gateway/gateway.py`) | background tasks, shutdown flag | start-up, shutdown order, nightly compaction, attachment cleanup | everything |
| Start-up guard, notification monitor (`gateway/`) | stamp file; set of notified problems | crash-loop delay; notify once per failure | gateway |
| Attachment store, file handler (`ai/attachment_store.py`, `chat/file_handler.py`) | files and their collisions; cleanup | save, resolve name, cleanup | handler |
| Toolkit and MCP servers (`ai/archon_toolkit.py`, `ai/*_mcp_server.py`) | none of their own beyond registrations | tools that call the components above | Claude CLI |
| Configuration (`config/loader.py`, `config/config_rw.py`) | the config file | read, read-modify-write | everything |
| Search (`ai/search_client.py`, `ai/search_context_provider.py`) | HTTP sessions | queries | pipeline, toolkit |
| Rendering (`chat/telegram_formatter.py`, `ai/event_renderer.py`, `ai/event_mapper.py`), voice, CLI, platform | little or none | formatting, I/O | -- |
| Installer (`install.py`) | `app`, `app.candidate`, `app.previous`, `config.toml`, the registered service | install, update, roll back, uninstall | git, uv, systemd or launchd |

`PROJECT.json` lists every component with the modules that model it, or the reason why
none does; section 8 repeats the reasons.

### What makes each component correct

* **Background agents**: never more than `max_parallel` running agents per user; names
  of live agents are distinct and always given back; `done` is set exactly when the run
  is settled; a completed run is not turned into a failed one by its notifications; no
  beacon after the final message; cancelled agents end.
* **Plan executor**: an agent starts only after all it depends on have ended well; every
  agent of a finished plan is accounted for once; a stuck agent cannot hold a plan for
  ever.
* **Session manager**: one live session per user; a session in use is not torn down by
  a timer; nobody sends on a stopped session; no session is orphaned.
* **Claude session**: one stream at a time; injected context reaches exactly one prompt.
* **Scheduler**: a slot fires at most once; a job never overlaps itself; a disabled job
  stays disabled.
* **Compactor**: the conversation that produced a summary is the one it is filed under.
* **Media groups and files**: each file is in one prompt at most and settles; a stored file
  stays what it was stored as until it is old.
* **Routing**: a message is routed by its own answer, in bounded time; every turn reaches a
  summary or is pushed out of a full buffer; a queued context is sent once.
* **Lifecycle**: restarts asked for by agents are spaced, across processes; a shutdown ends
  and is not undone by a restart; a crash loop does not greet the users each time.
* **Configuration**: no locked update loses another; what the daemon saved is what it would
  load.
* **Search client**: a key that is right in the file is never turned away for good.
* **Installer**: at every step, whatever fails once, a release that could run exists; a
  failure leaves the old one, a success runs the new one.

## 2. Plan

The modules in order of importance. All of them are in this directory; what is left is at
the end of the section.

| Module(s) | Composes | Abstract specification, theorems |
|---|---|---|
| `BackgroundAgents` | tasks, beacons, `stop_all()` | `AgentSlots`; refinement, slots, names, `done`, final status, last word, types |
| `SessionManager` | handlers, commands, timers, auto-compaction on one user's session | one session, waiters served; that no reply is torn down is refuted (section 7); types |
| `TaskSession` | pipeline lock, send lock, recovery, promotion, retry | one process, a live session used, one reader |
| `AgentPlan`, `PlanExecutor` | the sort and the executor over abstract agents | the sort is right for every plan; upstreams settled, report exact |
| `Routing` over `TurnSummary` | pipeline, classifier, router session, search context, context queue, agents' results, summary task | `TurnSummary`: Routing implements it; turns accounted for, contexts once, fresh routes |
| `JobScheduler` | ticks, reloads, tasks, writers of the files, restart | no overlap, once per slot, entries, nothing after a stop, types |
| `Control` over `ConfigFile` | tools, chat commands, a thread, CLI processes, editor, search service | no lost update, authorised requests, saved settings |
| `Lifecycle` | gateway, restart coordinator, watcher, `/restart`, crash-loop guard | restarts and broadcasts spaced, shutdown final, types |
| `Attachments` | collector, file handler, store, cleanup thread | parts once, files their own |
| `Installer` | candidate, activation, rollback, uninstall; kills and reruns | a release survives, failure harmless, success real, reruns converge |

What remains to be done, in this order: the history compactor (a summary is filed under
the day it was made from; reading it already showed that it is not so, section 7); the
plan executor over `AgentSlots` instead of its own abstract runs; the stack of log
writers; the reminder's counters.

## 3. The modules

### `BackgroundAgents` and `AgentSlots`

The whole life of a background agent. `pc[r]` is the `await` at which the task of run
`r` is suspended: `created` (task made, not begun), `starting` (`session.start()`),
`setup` (`set_context`, log header, beacon), `streaming`, `stopping` (the inner
`finally`), `logging`, `recording` (history), `beaconWait` (the cancelled beacon is
awaited), `notifying` (final Telegram message), `settling` (injection into the main
session), `failing` (the failure notice). `Cancel(r)` only puts the run in `cancelReq`;
every step of the task has a resuming and a cancelled form (`Resumes`, `Cancelled`), so
that the delivery happens at each `await` in turn, including the nested `finally`, the
`except` clauses and the step before the first statement (`DieUnstarted`), where a
coroutine has no `finally` yet. `Spawn` prunes, counts and chooses a name in one step, as
`spawn()` does before its first `await`; `NotifySpawn` is the message that `spawn()`
itself awaits, which the task may overtake. `Age(r)` makes a run older than the TTL, so
pruning may forget it while its task lives.

`AgentSlots` states what the manager promises and nothing of how: a run acquires a slot
and a name if its owner has fewer than `MaxParallel` slots and nobody holds that name,
may give the slot back, and then the name. The manager implements it with
`slot <- runs whose status is "running"` and `held <- names of runs not done`.

### `SessionManager`

One user; two handlers, a command that stops the session, the inactivity timer with its
evicting task, and shutdown. A handler goes `arrived` -> `get_or_create` (waits for the
per-user lock, creates) -> `got` -> `queued`/`streaming` on the pipeline lock ->
auto-compaction (user lock again, `recycleStop`, `recycleStart`). `stop()` takes no lock
and pops the dictionary's lock object, so the lock is modelled by identity (`Locks`,
`lockRef`), not by name. asyncio's rule that a woken task runs before one made ready
after it is the operator `Turn`: a handler that is next in a queue may be overtaken by a
task that was ready earlier, not by one that is not. When the handler itself raises while
it reads the stream, the pipeline's generator is closed later, by a task of its own, and
its lock is held until then (`HandlerRaises`, `Unwound`). Only the context of the session
the user has now is ever looked at, hence one Boolean `full`. The flag `_evicted_users`
and the notice that a message is queued are left out: they only choose what is said.

### `AgentPlan` and `PlanExecutor`

`AgentPlan` translates `topological_sort()` (Kahn's algorithm with the wave bookkeeping)
and `validate_dependency_graph()` as recursive functions over rounds; what is kept of a
queue is the set of its agents, since its order only decides in which order the agents of a
wave are spawned, which `Spawn` leaves open. A degree counts dependencies as often as they
are listed. The reference is the usual definition of an acyclic closed graph (`Executable`,
`Sorts`). `PlanExecutor` starts where the pipeline
yields the plan: waves, skipping, refused spawns (`others` are the user's agents outside
the plan), the one-hour wave timeout with its cancellations, the report. The runs
themselves are abstract: `BackgroundAgents` justifies that a begun run that is cancelled
ends.

### `TaskSession`

The Claude session under a pipeline that times out: `send()` as a generator that holds
the send lock, may be abandoned and run its `finally` late (`LateFinally`), promotion of
a slow answer to the background, `force_kill_for_recovery()` against `stop()`/`start()`,
a recovery that times out in each of its halves, a second timeout in the retry, and
`stop()` by the user at any time. A message has two generators of `send()`, one for each
attempt (`Gens`). A deadline that has passed when the consumer asks for the next event
(`TimesOutAtYield`) closes `answer()` and with it only drops the generator of `send()`: the
lock stays held until `LateFinally`. The consumer may fail at each yield, the one that
reports the timeout included. Clients (processes) have identities, which is what
"no process out of reach" is about.

### `Routing` and `TurnSummary`

`TurnSummary` is the bounded buffer of turns and the one background task that has them
summarised and then removes as many turns as it had read. The buffer only grows on the
right and shrinks on the left, so it is the interval `first .. turns`. `evicted` are the
turns a full buffer pushed out, `folded` those in the summary; a turn left of the buffer
that is in neither is `Lost`. `Routing` is the
way of a message through `Pipeline.send()` and `Decomposer.route_task()` up to the end of
its answer: classification, search context, the wait for a pending summary, the reset of
the router session after a number of calls, its start, its call with a timeout, what
becomes of each kind of answer, the search for context that follows it, the context queue
that `send()` walks through with a `yield` per entry, and agents that settle meanwhile.
Clearing the queue and sending the query are two steps, since the events of the skills are
yielded in between: a consumer that fails there loses what was taken (`dropped`), one that
fails before the clearing leaves all in the queue. `ClearQueue` is possible only when the
loop has come to the end of the queue as it then is; that the loop looks at the queue
itself and not at a copy is what `ContextOnce` needs. The router session is a process that
answers its instructions in order: a call that was given up leaves its turn unread in
`stream`. `Routing` EXTENDS `TurnSummary`; it only calls `RecordTurn`, and that it does
nothing else to it is the theorem `RoutingImplementsSummary`. What a model says is a
record of the cases the parsers tell apart (a shape, and fields that are there, missing
or of another type), so that the fallbacks are those of the code.

### `JobScheduler`

`now` is a clock in units of half a minute (`Minute = 2`). `Tick` is one pass of
`_loop()`: watch the files, reload when they changed, fire what is due; it may come
`MaxLag` late, because the loop sleeps a full minute after each pass. `disk` and `mtime`
are the files; the editor, the toggle button (which truncates and then writes) and three
tools change them. `reload_jobs()` is one step (`ReloadJobs`): it reads the files without
an `await`. A write brings a removed file back, as `atomic_write()` does while the
directory is there. Tasks are records with the `await` they are at and the job *object* they hold
(`current`: the scheduler still has the same object), since `_disable_invalid_job()`
changes the object it was given and not the table. Restart loses everything except the
files.

### `Control` and `ConfigFile`

`ConfigFile` is `config.toml` as a function from keys to values: what `load_config()`
accepts, table by table, the old names of keys, and the three locked updates
(`set_config`, the notification settings, the removal of a collection). `Control` has the
callers: one operation of the event loop at a time, one in a thread, search tools as
concurrent tasks with one client and its cached key, and CLI commands as processes that
may be killed. A locked update is `Lock`, `Read`, `Write` or `WriteFails`, `Unlock`, one
step each, because other processes run in between; loading, the backup and its
restoration, which take no lock, are steps too; so is an editor's save. The key of the
search service is changed by the standalone tool in two steps, the file first. A process
looks its key up in the environment and then in the file, on the first use and again after
a 401; what the thread that reads the file brings is cached in a later step (`Resolve`,
`ReadKey`, `Cache`). `Setups` says where the key is at first, a restarted daemon and a new
command may have any key there has been in their environment, or none. Left out:
a system without `fcntl`, which writes without a lock (`loader.py:852`); a backup that
cannot be copied or is copied in part (`:443`); the branch of a save that removes
`agents.mode` (`:904`, nothing in the daemon sets it to `None`); of what `load_config()`
refuses, a working directory that does not exist, a job without `cron`, a missing
`tiktoken` and integers of another type.

### `Lifecycle`

Processes, one after the other, from `loading` to `draining`: the start, the greeting
with its stamp, the restart tool with its countdown and the watcher that awaits it, the
`/restart` command that stops one service after the other before `execv()`, and the
shutdown with one timeout for all services. A crash, and a failing `execv()`, may happen
wherever they can. What outlives a process is the timestamp of the last restart, the
stamp of the last start and the environment.

### `Attachments`

Every message with a file has a handler; the parts of an album join a group whose timer
hands them to the handler of the first one. Downloading, resolving the name, saving,
resizing and describing follow the code; `save()` blocks the loop (`loop`) but not the
cleanup thread, which looks at a file and removes it in two steps, and likewise the empty
directory. A file name is the sequence of parts between underscores, so that the copy of
a picture can meet a file that was sent under the name of such a copy. A failed write
leaves nothing here (the code may leave part of a file, which nobody is told of), and
`close()` of the collector, at shutdown, is left out. A handler that a resize has killed
takes its album with it: those files are `lost`, which `EveryFileSettles` counts as an end
-- it is about handlers that never come to one.

### `Installer`

The three directories with the state of the release in each (`partial`, `cloned`,
`whole`), the registered service, the running process and the configuration file. Each
step of a run is an action; a step may fail for good, a removal may leave something
behind, and a kill may come between any two steps: each is a fault. A run starts from
whatever earlier runs left; `before` is the release whose process it found running. The
last step may restart the daemon or, with a warning at most, leave it alone
(`install.py:505`), and the restart itself may leave it stopped (`RestartFails`).

## 4. What the runs show

| Run | Shows | Bounds, and why they are enough |
|---|---|---|
| `agents_safety` | names, `done`, final status and beacon discipline; the refinement of `AgentSlots` | 2 runs, 1 slot, 1 name: every conflict is between two runs; the theorems lift the bound |
| `agents_liveness` | `stop_all()` returns whatever its runs are doing | 1 run: runs do not wait for each other |
| `session` | one session as long as no lock in use was dropped; waiters and queued messages get their turn | 2 handlers, 1 command, 1 timer, 3 session and 3 lock objects: enough for a creation, a recycling and a replacement of each |
| `session_stream` | a violation: a compaction that waited tears down a reply (section 7) | 3 handlers (symmetric: who compacts, who creates meanwhile, who streams), 1 command, no timer, 4 session and 3 lock objects |
| `plan_execution` | the sort is right for every plan; dependents wait; the report is exact; a plan ends | all plans over 3 agents (with unknown ids, cycles and duplicates), 2 slots, 1 foreign agent |
| `task_session` | one reader per stream, no lost process, who prepares or streams an answer has the live process, messages end | 3 messages, 6 processes: a promotion, a recovery and a retry; some client is unused in every state |
| `routing` | turns are accounted for, contexts neither lost nor sent twice, a message routed by its own answer, turns end | 2 messages (the second meets what the first left in the stream), 1 agent, a buffer of 2 (full after the second turn), resets within reach |
| `scheduler` | no overlap, once per slot | 1 job (the properties are per job, and only a tick treats several: in no order that matters), slots in 2 of 3 minutes, lag 1, 3 changes of the file after the first (enough to remove, re-create and disable it), 1 restart |
| `control` | no lost update, saved settings survive, authorised requests, operations end | 3 operations among a loop, a thread, 2 tasks and 1 command, 1 edit, 2 keys, the first in the file or in the environment; two contents, one with the old keys and one that is refused |
| `lifecycle` | restarts spaced, no restart out of a shutdown, broadcasts spaced, a shutdown ends | 3 processes, a clock of 4, both limits 2; the theorems lift the bounds |
| `attachments` | a part in one prompt, files kept, every file settles | 2 albums of which one may be pending, 4 messages with one name and the name of a copy, 2 days |
| `installer` | a release survives, failures keep the old one, success leaves no process but the new one unless nothing stopped the old, reruns converge | 2 releases of which one never answers, 4 runs, 3 faults: a fault in each of the runs that a property relates |

`CHECK_DEADLOCK FALSE` is set wherever the bounded system stops: all runs are over, the
clock is at its horizon, the fresh objects are spent.

A property that only holds while something else did not happen says so in its formula:
`OneSession` excludes a dropped lock, `ExclusiveStream` a lock released by a stranger,
`OneProcess` a session stopped by its user, `NoLostUpdate` an editor or a restored backup,
`RouteFresh` an earlier call to the same router session that was given up,
`SuccessRunsRelease` a process that nothing in the run stops, `Authorised` a key that was
not right all the time, `LiveSessionUsed` a session stopped by its user, `OncePerSlot` is
about one process whose clock is not set back, `SomeRelease` about one fault. Section 7 says what happens then.

## 5. Fairness

Fairness is what the event loop gives: a task that can go on is resumed, a timer expires.

* `BackgroundAgents`: weak fairness of each run's own steps, except that `start()` and
  the stream have no timeout and may hang unless cancelled.
* `SessionManager`: weak fairness of each handler and each stopper; a stream ends because
  the pipeline gives it a wall-clock limit, and starting or stopping a process returns. A
  message need not arrive and a timer need not expire.
* `PlanExecutor`: weak fairness of the executor (it need not crash) and of cancelled runs;
  a run that is not cancelled may go on for ever.
* `TaskSession`: nothing is assumed of Claude in `FairSpec`; `LiveSpec` adds that each
  `connect()` ends, which is needed: `stop()` may swallow the recovery's timeout
  (section 7).
* `Routing`: the timeouts of the classifier, the summary, the router, the search and the
  answer fire, and the code between them goes on; no model need ever answer.
* `JobScheduler`: none; its properties are safety. That `stop()` returns cannot be claimed:
  a prompt's `session.start()` and `session.stop()` and the wait for a killed tool are
  under no timeout (section 7).
* `Control`: one weak fairness for all callers together -- somebody who can go on does; the
  lock is handed on, requests have a timeout (`Unanswered`). The delegated
  `subprocess.run()` (`search_cmd.py:69`) has none and is assumed to end.
* `Lifecycle`: the gateway's own steps, its timeout, and the end of cancelled tasks; no
  service need ever stop. `_search_client.close()` (`gateway.py:791`), which is outside the
  timeout, is assumed to return.
* `Attachments`: the collector's timer and the download's timeout fire, and `save()`
  returns; Telegram need not answer.
* `Installer`, `session_stream`: none; their properties are safety.

## 6. What is proved

tlapm checks every theorem of the eight proof modules. Every invariant and every action
property of the passing runs is a theorem there; what the runs add is liveness and the
counterexample of `session_stream`. The constants are
arbitrary (any number of users, runs, names, messages, files, sessions, locks, jobs, slots,
callers, releases, plans of any size; any buffer, limit, delay or length of a minute), under
the named assumptions of the modules: `None` is not one of the objects, limits are natural
numbers, the sets a cardinality is taken of are finite, a plan is a list of agents with
lists of dependencies (`PlansAssumption`: which ids they have is open), a file name is a
list of parts (`NamesAssumption`) and only finitely many messages bring a file
(`FilesAssumption`).

* `BackgroundAgents_proofs`: `TypeCorrect`, `MaxParallelTheorem`, `NamesTheorem`,
  `DoneTheorem`, `StatusTheorem`, `LastWordTheorem`, `Refinement`. The properties are not
  inductive: that a name is free when a run is born needs that the active names are exactly
  those of the runs not done; that a slot count holds after pruning needs that a run
  forgotten by pruning is one whose status is terminal. `IInv` relates, for each program
  counter, status, name, `done`, registry and beacon; every action keeps it. The last word
  is the beacon's: after the final message no beacon lives (`BeaconOver`). The refinement is
  that one action acquires (`Spawn`), the settling steps release, and all others stutter.
* `SessionManager_proofs`: `OneSessionTheorem`, `SessionTypeCorrect`.
  The invariant says that who is inside the `async with` holds its lock and while he is
  there the user has no session, that only the lock in the dictionary is in use, that the
  one live session is the user's and one that starts is being started inside. `OneLock` is
  what `stop()` breaks when it pops a lock that is held or waited for, and why the theorem
  excludes that.
* `PlanExecutor_proofs`: `SortCorrectTheorem`, `WavesCorrectTheorem`,
  `UpstreamsSettledTheorem`, `ReportExactTheorem`. The first one is about the two functions
  of `agent_plan.py` alone, for every plan: what Kahn's algorithm has left is a function of
  the set of agents it has processed -- the degree of an agent counts its dependencies
  outside that set, and the queue has those whose degree is 0 (`Processed`) -- and to process
  any part of the queue keeps that (`Processing`, for both algorithms). An empty queue means
  that all agents are processed or the others contain a cycle (`NobodyReady`); an agent's
  wave is the one after the last of its dependencies', for it was not ready earlier. The
  rounds are followed by induction over the natural numbers (`UpTo`), which rests on their
  being well founded, and that the recursive functions exist is proved the same way
  (`Recursion`). The executor's invariant `PlanInv` says of the waves that are over that
  each agent was skipped, failed or has settled, of the present one what is left to spawn
  and to wait for, and that a skipped agent has a failed ancestor (`SkipInv`); the counts of
  the report are the sizes of four disjoint sets (`FourParts`).
* `TaskSession_proofs`: `OneProcessTheorem`, `LiveSessionTheorem`, `TypeCorrect`,
  `ExclusiveTheorem`. `PhaseInv` relates the await of a message to the pipeline lock, the
  generators to the send lock; `ClosingInv` and `ProcessInv` say which client a recovery
  is disconnecting and that nothing else is alive; with them who prepares or streams has the
  live process, since the message before ended with a session that is connected or left one
  that `send()` refuses. The last two theorems assume
  `EndlessClients`: finitely many messages and no end of client identities. A new client is
  then one that nothing refers to (`SomeClientIsFresh`), as a new object is; the run has six
  identities of which one is unused in every state.
* `Routing_proofs`, of the summary: `SummaryTypeCorrect`, `BufferBounded`,
  `TurnsAccountedTheorem`. The invariant adds that what the task has read was the left end
  of the buffer, which since has only moved to the right, that no turn from there on is in
  the summary, and that what has left the buffer since was pushed out: so each new turn the
  task removes stands for one that was both read and pushed out. Of the routing: `RoutingImplementsSummary` (`Spec => SummarySpec`: each
  step of routing records one turn, is a step of the summary task, or leaves it alone) and
  `RoutingAccountsTurns`, which follows from it and the theorem before; `ContextsOnce`: the queue, what was taken
  from it, what was delivered and what was dropped are a partition of the contexts there have
  been, the queue without repetition (`QueueInv`); while `send()` goes through the queue, what
  it has taken is the queue's beginning (`PrefixInv`); and the search of a message that has
  not left the router has put nothing into the queue (`SearchInv`); `RoutesFresh`: a router session whose calls all came to their
  end has nothing unread but the instruction it is working on (`StreamInv`).
* `Routing_proofs`, of the files: `PartsOnce`, `FilesStayTheirOwn`. `PartsInv` says that a
  part is in one place at most (the group of its album, the job of one handler, what that
  has saved), `StageInv` which handlers have parts, `StoreInv` what the cleanup thread may be
  about to remove: a file it has seen, which nobody has replaced since. That `save()` always
  finds a free name is a pigeonhole argument: it tries more numbers than there are files
  (`CountInv`, `FirstFreeIsFree`).
* `JobScheduler_proofs`: `TypeCorrect`, `JobsNeverOverlap`, `NoMissingEntry`,
  `StoppedForGood`, `SlotsFireOnce`. `IInv` says that the entry of a running job is there
  and says so (`ConfigOK`: this is what the guard in `_run_job` and the entries kept by a
  reload are for), that a disabling task has read a file that can be written back, that
  `stop()` first kills the loop (`StopOrder`), and that every slot fired lies more than a
  minute before the next tick (`SlotsBehind`). The last one is the whole argument for
  `SlotsFireOnce`: a slot is due for less than a minute and ticks are at least a minute
  apart, so no slot is seen by two ticks -- `last_fire_at` is not used in the proof, and
  losing it with an entry is harmless as long as the sleep is not shortened.
* `Lifecycle_proofs`: `RestartsAreSpaced`, `ShutdownIsFinalThm`, `BroadcastsAreSpaced`,
  `LifecycleTypeCorrect`. What has been scheduled was allowed when it was scheduled and time
  only passes (`ScheduledInv`); nobody but the wiring makes a watcher, and no process is
  wired once it ends (`EndingInv`).
* `Lifecycle_proofs`, of the installer: `InstallerInvariant`, `ReleaseKept`,
  `FailureIsHarmless`, `SuccessIsReal`, `RerunConverges`. The invariant says, for each step
  of a run and each count of faults so far, in which of the three directories the release
  is that the run found, what is in the others, and what the run will do about it; the
  properties with one fault are the cases in which the count is at most one. `ProcessInv` says
  whose process may run at each step: a stopped service has none, a started one has the
  release in `app` or, under systemd, the process found.
* `Control_proofs`: `NoLostUpdateTheorem`, `OneUpdate`, `AuthorisedTheorem`,
  `SettingsSurviveTheorem`. Whoever is between `read` and `unlock` holds the lock
  (`HeldInv`), so that a write is made by the only one who has read; whatever replaces the
  file without the lock marks those it overtakes. Of an operation whose configured key has
  been the service's so far (`SteadyInv`) the second attempt, which reads the file only if
  the environment has no key (`FileInv`) and never takes the cached one (`FirstInv`),
  carries that key, and there is one (`SentInv`, `KeyInv`). An update that
  is not overtaken replaces what it read: a save writes all the daemon's settings
  (`MemoryInv`), any other leaves them, under the keys that are read, alone.

Out of the prover's reach and only model-checked is liveness, which rests on fairness and
ENABLED: `StopAllCompletes`, `WaiterServed`, `QueueMoves`, `PlanEnds`, `MessageEnds` (of
`TaskSession` and of `Routing`), `ShutdownEnds`, `EveryFileSettles` and
`OperationsEnd`.

## 7. What the code does otherwise than it says, or than one would expect

Met while modelling. The models contain these steps, so the properties above hold in
their presence or exclude them by name.

Background agents and plans
* An agent cancelled before its first step never sets `done` and keeps its slot
  (`background_agent_manager.py:354`, whose comment says that the outer `finally` ensures
  it).
* A cancellation in the set-up `await`s before the inner `try` leaves a Claude process
  (`:355`; compare `tests/ai/test_background_agent_manager.py:2693`); one that lands in
  `session.stop()` is swallowed (`:430`; compare `Documentation/Completed/
  011-background-agent-execution-plan.md:465`).
* The spawn message may arrive after the final one (`:264`).
* Agents refused a slot are counted as failed by the plan's report.
* A plan with an unknown dependency is not aborted with a notice: the sort raises
  `KeyError` (`pipeline.py:629`; compare `100_system_architecture_overview.md:365`).

Sessions
* `stop()` during a creation pops the lock that is held; a second creation runs beside it
  and one of the processes is orphaned (`session_manager.py:310`; "one persistent session
  per user", `:182`). `stop_all()` may clear the tables while a creation is in `start()`.
* A message told that it is queued may be rejected after an auto-compaction, since
  `is_processing` is false between the release of the pipeline lock and the wake-up of the
  queued message (`:263`; compare `140_error_handling_strategy.md:176`).
* An auto-compaction that had to wait for the user lock looks again whether the session is
  still the user's and its context still full, but not whether it is processing: it tears
  down the next message's reply (`session_manager.py:272`; the docstring at `:252` says that
  a compaction is skipped when streaming, and the guard "prevents tearing down a session
  while another message is mid-stream",
  `Documentation/Completed/014-auto-compact-context-pressure-plan.md:158`). This is what the
  run `session_stream` shows.
* The recovery's timeout may be spent in `stop()`, which swallows it; `start()` is then
  unguarded (`claude_session.py:502`; compare `112-session-stuck-recovery-bug.md:103`).
* A generator whose `finally` runs late, after a promotion, releases the send lock of
  another message (`:462`, against the comment at `:475`).
* `stop()` during a recovery leaks the process the recovery is starting; "Session has
  been recovered" is also said when the second recovery failed (`pipeline.py:600`). No
  property claims otherwise: `LiveSessionUsed` says that the next message then gets an error
  and not an answer of a dead process.

Routing
* The router session is kept after a call that timed out; its unread turn may be taken for
  the answer to the next message (`decomposer.py:409`; compare `claude_session.py:313`). A
  router session whose process is gone is kept until the next reset, and `stop()` while
  one starts leaves its process.
* Turns that push a turn out of the full buffer that is being summarised make the task
  remove as many new, never summarised ones (`decomposer.py:572`; the comment there and
  `tests/ai/test_decomposer.py:822` hold only while the buffer has room). `TurnsAccounted`
  allows exactly that many and no other loss.
* What `send()` has taken from the context queue is lost when its consumer fails, or the
  answer times out, between the clearing of the queue and the query.
* `depends_on: null` raises though the docstring promises a fallback
  (`decomposer.py:438`), and so does a confidence that is not a number
  (`classification.py:82`).
* A large plan or a promotion flushes the queued results of agents. A summary session that
  cannot be started raises in the message that waits for it (`decomposer.py:585`).

Scheduler
* An invalid job is disabled once by the docstring of `_broadcast_validation_error` and
  `schedule_guide.md:208`; a reload or a file that cannot be parsed leaves it enabled, and
  its users are told again every minute (`job_scheduler.py:670`).
* Disabling reads and later writes the file: an edit in between is lost (`:689`). The toggle
  button's `write_text()` truncates first: a tick in between aborts, and a crash leaves a
  file with which the daemon does not start (`chat/commands.py:902`); one bad file makes the
  whole load raise (`job_scheduler.py:402`).
* An edit between the start-up load and the first tick, or between a reload's load and its
  snapshot, goes unseen (`:398`, compare `schedule_guide.md:226`).
* `stop()` may never return: it gathers runs whose `session.start()`, `session.stop()` or
  `communicate()` after a kill are under no timeout (`:641`, `:662`, `:618`). Only the
  gateway's own timeout ends the shutdown.
* The drift of the ticks steps over a slot now and then; a restart within the minute fires
  it twice, since `last_fire_at` is not persisted (`:467`). A cancelled tool step leaves its
  subprocess running (`:616`).

Configuration and search
* The backup is made of a file that `load_config()` may then refuse, though the comment
  says "created during the last successful load"; an empty file parses and replaces it.
  Backup and restoration take no lock: an update that has read before is overtaken.
* `set_config` writes values that `load_config()` rejects. `/notify` changes the daemon's
  settings before a save that may fail; a later save writes them over a mode set by the CLI.
* A collection is named by the last component of its path. A removal whose answer is lost
  leaves the configuration's entry, and a repetition never succeeds without `--force`.
* A stale `ARCHON_SEARCH_API_KEY` in the environment hides the right key in the file for
  good: the reload after a 401 looks in the environment first and sends the same key again
  (`search_client.py:95`; that it comes first is tested, `tests/ai/test_search_client.py:1522`).
  `Authorised` is therefore about the key that is configured.
* `send_notification` and `send_file` stamp their rate limit after the `await`
  (`archon_toolkit.py:1121`).

Start, restart, shutdown
* The watcher's restart stops no service, though its docstring says that it follows
  `/restart` (`gateway.py:431`). A `/restart` during a shutdown still replaces the process.
  When the file cannot be written or `execv()` fails the watcher dies, and later restarts
  count down for nobody; the acknowledgement stays in the environment.
* The search client is closed before the common timeout begins.

Files
* A picture so narrow that its smaller edge rounds to nothing, or a full disk while it is
  resized, ends the handler without a reply, with the whole album.
* A part that comes after the timer opens a second group; above `max_pending` each part is a
  message of its own. The length of a name is limited before the collision's suffix.

Installer
* `systemctl start` leaves the old process running after an update or a scripted
  reinstallation, and a bad one after a rollback; launchd restarts it. The old process
  answers the health check and `main()` prints that the new version is running, and
  `510_release_and_environment_strategy.md:99` says that the update restarts the service.
  `SuccessRunsRelease` names these runs (`MayStay`); in all others an old process is gone.
* The last step of an installation may skip the restart or fail in it with a warning only
  (`install.py:505`), and the run still ends in success.
* A kill between the two renames and another failure in the next run lose every release: the
  rerun clears `app.previous`. A removal of `app.previous` that leaves something makes the
  rollback delete the working release (`SomeRelease` allows one fault).
* The three attempts to clone fail alike once the first has left a directory.
  `config.toml` is written in place. An interactive reinstallation stops the service before
  it has staged anything.

History compactor (read, not modelled)
* The start-up, the nightly and today's compaction share one cached client
  (`history_compactor.py:111`, `:135`; `gateway.py:543` starts both): the one that ends
  first disconnects the client the other reads from, or sets it to `None` under it.
* Sessions are filed by UTC date and compacted by the local date (`:195`).

## 8. Not modelled

* **History compactor, history manager, agent logger**: appends to files and one shared
  client; the interleavings the compactor allows are described above, and no invariant of it
  would hold.
* **Context reminder**: its counters; that a reminder is due is a choice in `Routing`.
* **Event mapping, rendering, truncation, Telegram formatting**: pure functions of text.
* **Voice**: transcription and synthesis of one message in a thread; only the updates of its
  configuration are in `Control`.
* **Bot, middleware, loaders, platform, diagnostics, scripts, data**: registration, start-up
  reading, operating-system calls.
* **Command line**: only the commands that change the configuration or the search service.
* **Toolkit**: the tools that only answer queries, and the HTTP plumbing of the servers.

In the modelled components text, time zones, logging and the content of messages are
abstracted; the Claude CLI, Telegram, the editor, git, the service managers, the search
service and the operating system are external and appear as choices. Counters are bounded by
named constants (`MaxMessages`, `MaxTime`, `MaxProcesses`, `MaxOps`, `MaxEdits`, `MaxKeys`,
`MaxRuns`, `MaxFaults`, `MaxWrites`, `MaxBoots`, `MaxLag`, `Horizon`).
