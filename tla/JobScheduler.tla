---------------------------- MODULE JobScheduler ----------------------------
(***************************************************************************)
(* The cron scheduler (archon/ai/job_scheduler.py): the tick loop, the     *)
(* reload of the job files, the tasks that run jobs or disable invalid     *)
(* ones, and stop().  Around it the writers of those files: the user's     *)
(* editor, the toggle button of /scheduled, the toolkit's tools.           *)
(*                                                                         *)
(* A step of the event loop is atomic; what other threads and processes do *)
(* (the editor, the executor's reads and writes) falls between steps.      *)
(* A job's file is abstracted to its kind:                                 *)
(*   "ok"      it loads and its pipeline is valid                          *)
(*   "bad"     it loads with a validation error                            *)
(*   "broken"  it cannot be parsed: it loads as an enabled job that is due *)
(*             every minute, with a validation error                       *)
(*   "nocron"  no cron field (an empty file too): the whole load raises    *)
(* Bundles only: a flat file and a bundle of one name are left out.        *)
(***************************************************************************)
EXTENDS Integers, FiniteSets

CONSTANTS
    Names,      \* names of job files
    Cron,       \* Cron[j]: the instants of j's cron slots
    Minute,     \* one minute, in the unit of time
    Horizon,    \* bound: the last instant
    MaxLag,     \* bound: how late a tick may come
    MaxWrites,  \* bound: changes of the job files
    MaxBoots,   \* bound: restarts of the process
    None

ASSUME CronIsTimes == \A j \in Names : Cron[j] \subseteq 1 .. Horizon
ASSUME BoundsAreNumbers == /\ Minute \in Nat \ {0} /\ Horizon \in Nat
                           /\ MaxLag \in Nat /\ MaxWrites \in Nat \ {0} /\ MaxBoots \in Nat

VARIABLES
    now,        \* the wall clock
    disk,       \* the job files
    mtime,      \* their modification times; 0 for a file that does not exist
    writes,     \* changes made to the files so far, the source of mtimes
    jobs,       \* self._config.jobs, as of the last load
    status,     \* self._statuses: known (has an entry), lastFire, running
    snap,       \* self._last_snapshot
    primed,     \* self._snapshot_primed
    loop,       \* the tick loop: "off", "alive" or "dead"
    wake,       \* the earliest instant of its next tick
    tasks,      \* self._tasks
    stopping,   \* stop(): "no", "cancel", "gather" or "done"
    toggle,     \* the toggle callback in progress
    fired,      \* history: the last slot fired in this process, per job
    boots       \* restarts so far

files   == <<disk, mtime, writes>>
config  == <<jobs, status>>
watch   == <<snap, primed>>
vars    == <<now, disk, mtime, writes, jobs, status, snap, primed, loop, wake,
             tasks, stopping, toggle, fired, boots>>

Kinds   == {"ok", "bad", "broken", "nocron"}
File    == {f \in [kind : Kinds, enabled : BOOLEAN] :
               f.kind \in {"broken", "nocron"} => f.enabled}
ASSUME NoneIsNoFile == None \notin [kind : Kinds, enabled : BOOLEAN]

Job     == [kind : Kinds \ {"nocron"}, enabled : BOOLEAN]
NoCron  == [kind |-> "nocron", enabled |-> TRUE]
Never   == -1
Times   == 0 .. Horizon
EveryMinute == {t \in 1 .. Horizon : t % Minute = 0}

Entry   == [known : BOOLEAN, lastFire : Times \cup {Never}, running : BOOLEAN]
NoEntry == [known |-> FALSE, lastFire |-> Never, running |-> FALSE]
Blank   == [NoEntry EXCEPT !.known = TRUE]

\* A task of _run_job: the job object it was given (its name, its kind, and
\* whether the scheduler still holds that object), when it was fired, the
\* await it is at, whether cancel() was called on it, what it has read.
TaskPC == {"created", "reading", "writing", "notifying", "running", "finalizing"}
Task   == [job : Names, kind : Kinds, current : BOOLEAN, at : Times,
           pc : TaskPC, cancelled : BOOLEAN, read : File \cup {None}]
Toggle == [job : Names, pc : {"truncated", "written"}, doc : File]

TypeOK ==
    /\ now \in Times /\ wake \in 0 .. Horizon + Minute
    /\ disk \in [Names -> File \cup {None}]
    /\ writes \in 0 .. MaxWrites /\ mtime \in [Names -> 0 .. MaxWrites]
    /\ \A j \in Names : (disk[j] = None) = (mtime[j] = 0)
    /\ jobs \in [Names -> Job \cup {None}]
    /\ status \in [Names -> Entry]
    /\ snap \in [Names -> 0 .. MaxWrites] /\ primed \in BOOLEAN
    /\ loop \in {"off", "alive", "dead"}
    /\ tasks \subseteq Task
    /\ stopping \in {"no", "cancel", "gather", "done"}
    /\ toggle \in Toggle \cup {None}
    /\ fired \in [Names -> Times] /\ boots \in 0 .. MaxBoots

-----------------------------------------------------------------------------
(* Loading and reloading.                                                  *)

\* load_scheduled_jobs() raises ConfigError when a file has no cron field.
Loadable(d) == \A j \in Names : d[j] # None => d[j].kind # "nocron"

\* mutant: the entry of a job that is gone is dropped even while it runs
SyncedDropsRunning(d) ==
    [j \in Names |-> IF d[j] = None THEN NoEntry
                     ELSE IF status[j].known THEN status[j] ELSE Blank]

\* The entries after a reload: blank ones for new jobs; those of the jobs that
\* are gone are dropped, unless the job is running.
Synced(d) ==
    [j \in Names |->
        IF d[j] # None
        THEN IF status[j].known THEN status[j] ELSE Blank
        ELSE IF status[j].running THEN status[j] ELSE NoEntry]

\* After a reload the tasks hold job objects of the past.
Outdated(ts) == {[t EXCEPT !.current = FALSE] : t \in ts}

\* reload_jobs() in a handler that leaves the files as d, modified at m: it
\* does everything, or nothing when the load raises.
ReloadJobs(d, m) ==
    \/ /\ Loadable(d)
       /\ jobs' = d /\ status' = Synced(d) /\ snap' = m /\ tasks' = Outdated(tasks)
    \/ /\ ~ Loadable(d)
       /\ UNCHANGED <<jobs, status, snap, tasks>>

-----------------------------------------------------------------------------
(* The tick loop.                                                          *)

Slots(j, kind) == IF kind = "broken" THEN EveryMinute ELSE Cron[j]

\* croniter.get_prev(): the last slot strictly before t, if there is one.
Prev(j, kind, t) ==
    {s \in Slots(j, kind) : s < t /\ \A u \in Slots(j, kind) : u < t => u <= s}

\* mutant: a slot is due however long ago it was
ShouldFireWhenever(j, job, entry) ==
    \E prev \in Prev(j, job.kind, now) : entry.lastFire < prev

\* _should_fire(): the last slot is less than a minute old and was not fired.
ShouldFire(j, job, entry) ==
    \E prev \in Prev(j, job.kind, now) : now - prev < Minute /\ entry.lastFire < prev

Fresh(j, job) == [job |-> j, kind |-> job.kind, current |-> TRUE, at |-> now,
                  pc |-> "created", cancelled |-> FALSE, read |-> None]

\* One pass over the jobs js: the due ones are recorded as fired and get a task.
Fire(js, entries, ts) ==
    LET due == {j \in Names : js[j] # None /\ js[j].enabled /\ ShouldFire(j, js[j], entries[j])}
    IN  /\ status' = [j \in Names |-> IF j \in due
                                      THEN [entries[j] EXCEPT !.lastFire = now]
                                      ELSE entries[j]]
        /\ tasks' = ts \cup {Fresh(j, js[j]) : j \in due}
        /\ fired' = [j \in Names |-> IF j \in due
                                     THEN CHOOSE prev \in Prev(j, js[j].kind, now) : TRUE
                                     ELSE fired[j]]

\* _auto_reload_if_changed(): the first call only takes the snapshot, unless
\* no job was loaded and there are files.
Changed == IF primed THEN mtime # snap
           ELSE (\A j \in Names : jobs[j] = None) /\ \E j \in Names : disk[j] # None

\* A tick: reload what changed, then fire. The snapshot is recorded before the
\* reload; a reload that raises ends the tick, and the loop sleeps on.
\* The tasks of the tick before have started: they were ready first.
Tick ==
    /\ loop = "alive" /\ now >= wake
    /\ \A t \in tasks : t.pc # "created"
    /\ wake' = now + Minute
    /\ primed' = TRUE /\ snap' = mtime
    /\ \/ Changed /\ Loadable(disk) /\ jobs' = disk /\ Fire(disk, Synced(disk), Outdated(tasks))
       \/ Changed /\ ~ Loadable(disk) /\ UNCHANGED <<jobs, status, tasks, fired>>
       \/ ~ Changed /\ UNCHANGED jobs /\ Fire(jobs, status, tasks)
    /\ UNCHANGED <<now, disk, mtime, writes, loop, stopping, toggle, boots>>

\* start()
Start ==
    /\ loop = "off" /\ stopping = "no"
    /\ loop' = "alive" /\ wake' = now
    /\ UNCHANGED <<now, disk, mtime, writes, jobs, status, snap, primed, tasks,
                   stopping, toggle, fired, boots>>

\* Time passes; a tick that is due is late by MaxLag at most.
Pass ==
    /\ now < Horizon
    /\ loop = "alive" => now < wake + MaxLag
    /\ now' = now + 1
    /\ UNCHANGED <<disk, mtime, writes, jobs, status, snap, primed, loop, wake,
                   tasks, stopping, toggle, fired, boots>>

-----------------------------------------------------------------------------
(* The tasks: _run_job() and _disable_invalid_job().                       *)

Becomes(t, pc) == tasks' = (tasks \ {t}) \cup {[t EXCEPT !.pc = pc]}
Ends(t)        == tasks' = tasks \ {t}
Running(j, b)  == status' = [status EXCEPT ![j].running = b]
NotATask       == <<now, wake, loop, snap, primed, stopping, toggle, fired, boots>>

\* The first step skips a job without an entry (KeyError), or that is running;
\* disables an invalid one in memory, where the scheduler still holds the same
\* object; or runs the job.
TaskStarts(t) ==
    /\ t.pc = "created" /\ ~ t.cancelled
    /\ LET j == t.job IN
       \/ /\ ~ status[j].known \/ status[j].running
          /\ Ends(t) /\ UNCHANGED <<jobs, status>>
       \/ /\ status[j].known /\ ~ status[j].running /\ t.kind # "ok"
          /\ jobs' = IF t.current THEN [jobs EXCEPT ![j].enabled = FALSE] ELSE jobs
          /\ Becomes(t, "reading") /\ UNCHANGED status
       \/ /\ status[j].known /\ ~ status[j].running /\ t.kind = "ok"
          /\ Running(j, TRUE) /\ Becomes(t, "running") /\ UNCHANGED jobs
    /\ UNCHANGED <<disk, mtime, writes>> /\ UNCHANGED NotATask

\* The executor reads the file; no file, or one that cannot be parsed, and the
\* job stays enabled on disk.
Reads(t) ==
    /\ t.pc = "reading" /\ ~ t.cancelled
    /\ LET file == disk[t.job] IN
       IF file = None \/ file = [kind |-> "broken", enabled |-> TRUE]
       THEN Becomes(t, "notifying")
       ELSE tasks' = (tasks \ {t}) \cup {[t EXCEPT !.pc = "writing", !.read = file]}
    /\ UNCHANGED <<jobs, status, disk, mtime, writes>> /\ UNCHANGED NotATask

WriteFile(j, f) ==
    /\ writes < MaxWrites
    /\ writes' = writes + 1
    /\ disk'  = [disk EXCEPT ![j] = f]
    /\ mtime' = [mtime EXCEPT ![j] = IF f = None THEN 0 ELSE writes + 1]

\* A file whose enabled field is off. One without a cron field keeps its kind.
Disabled(f) == IF f.kind = "nocron" THEN f ELSE [f EXCEPT !.enabled = FALSE]

\* The executor writes what was read, disabled, which brings a removed file
\* back if its directory was left; or it fails, as it does if that is gone too.
Writes(t) ==
    /\ t.pc = "writing" /\ ~ t.cancelled
    /\ \/ WriteFile(t.job, Disabled(t.read))
       \/ UNCHANGED files
    /\ tasks' = (tasks \ {t}) \cup {[t EXCEPT !.pc = "notifying", !.read = None]}
    /\ UNCHANGED config /\ UNCHANGED NotATask

\* The users have been told about the invalid job.
Notified(t) ==
    /\ t.pc = "notifying" /\ ~ t.cancelled
    /\ Ends(t)
    /\ UNCHANGED <<jobs, status, disk, mtime, writes>> /\ UNCHANGED NotATask

\* The pipeline and the broadcast are over, well or with an error or a timeout.
\* It need not happen: the start and the stop of a prompt's session, and the
\* wait for a killed tool, are under no timeout.
RunEnds(t) ==
    /\ t.pc = "running" /\ ~ t.cancelled
    /\ Running(t.job, FALSE)
    /\ Becomes(t, "finalizing") \/ Ends(t)
    /\ UNCHANGED <<jobs, disk, mtime, writes>> /\ UNCHANGED NotATask

\* The log's footer is written.
Finalized(t) ==
    /\ t.pc = "finalizing" /\ ~ t.cancelled
    /\ Ends(t)
    /\ UNCHANGED <<jobs, status, disk, mtime, writes>> /\ UNCHANGED NotATask

\* A cancellation is delivered. A task that has not started never runs; one
\* that is writing leaves its thread to finish or not; a running one goes
\* through its finally block, unless the cancellation lands in the stop() of a
\* prompt's session, which swallows it.
Cancelled(t) ==
    /\ t.cancelled
    /\ \/ /\ t.pc \in {"created", "reading", "notifying", "finalizing"}
          /\ Ends(t) /\ UNCHANGED <<disk, mtime, writes, status>>
       \/ /\ t.pc = "writing"
          /\ Ends(t) /\ UNCHANGED status
          /\ \/ WriteFile(t.job, Disabled(t.read))
             \/ UNCHANGED files
       \/ /\ t.pc = "running"
          /\ Running(t.job, FALSE)
          /\ tasks' = (tasks \ {t}) \cup {[t EXCEPT !.pc = "finalizing", !.cancelled = FALSE]}
          /\ UNCHANGED files
       \/ /\ t.pc = "running"
          /\ tasks' = (tasks \ {t}) \cup {[t EXCEPT !.cancelled = FALSE]}
          /\ UNCHANGED <<disk, mtime, writes, status>>
    /\ UNCHANGED jobs /\ UNCHANGED NotATask

-----------------------------------------------------------------------------
(* stop(), a crash, the next process.                                      *)

NotStopping == <<now, disk, mtime, writes, jobs, status, snap, primed, wake,
                 toggle, fired, boots>>

\* The loop is cancelled and awaited; it is never inside a tick.
StopBegins ==
    /\ stopping = "no"
    /\ stopping' = "cancel" /\ loop' = "dead"
    /\ UNCHANGED tasks /\ UNCHANGED NotStopping

\* Every task is cancelled.
StopCancels ==
    /\ stopping = "cancel"
    /\ tasks' = {[t EXCEPT !.cancelled = TRUE] : t \in tasks}
    /\ stopping' = "gather"
    /\ UNCHANGED loop /\ UNCHANGED NotStopping

\* gather() returns when all tasks have ended.
StopEnds ==
    /\ stopping = "gather" /\ tasks = {}
    /\ stopping' = "done"
    /\ UNCHANGED <<loop, tasks>> /\ UNCHANGED NotStopping

\* The process ends, stopped or killed, and the next one loads the files; it
\* does not come up when the load raises.
Restart ==
    /\ boots < MaxBoots /\ Loadable(disk)
    /\ boots' = boots + 1
    /\ jobs' = disk
    /\ status' = [j \in Names |-> IF disk[j] = None THEN NoEntry ELSE Blank]
    /\ snap' = [j \in Names |-> 0] /\ primed' = FALSE
    /\ loop' = "off" /\ wake' = 0 /\ tasks' = {} /\ stopping' = "no" /\ toggle' = None
    /\ fired' = [j \in Names |-> 0]
    /\ UNCHANGED <<now, disk, mtime, writes>>

-----------------------------------------------------------------------------
(* Those who write and reload the files.                                   *)

NotAFile == <<now, loop, wake, primed, stopping, fired, boots>>

\* The user's editor: any file, half-written ones included, may appear.
Edit(j, f) ==
    /\ f # disk[j] /\ WriteFile(j, f)
    /\ UNCHANGED <<jobs, status, snap, tasks, toggle>> /\ UNCHANGED NotAFile

\* /scheduled
ScheduledCommand ==
    /\ ReloadJobs(disk, mtime)
    /\ UNCHANGED <<disk, mtime, writes, toggle>> /\ UNCHANGED NotAFile

\* The toggle button: the executor reads the file, and write_text() truncates
\* it before it writes the new text.
ToggleTruncates(j) ==
    /\ toggle = None /\ disk[j] # None /\ disk[j].kind # "broken"
    /\ toggle' = [job |-> j, pc |-> "truncated",
                  doc |-> IF disk[j].kind = "nocron" THEN NoCron
                          ELSE [disk[j] EXCEPT !.enabled = ~ @]]
    /\ WriteFile(j, NoCron)
    /\ UNCHANGED <<jobs, status, snap, tasks>> /\ UNCHANGED NotAFile

ToggleWrites ==
    /\ toggle # None /\ toggle.pc = "truncated"
    /\ WriteFile(toggle.job, toggle.doc)
    /\ toggle' = [toggle EXCEPT !.pc = "written"]
    /\ UNCHANGED <<jobs, status, snap, tasks>> /\ UNCHANGED NotAFile

ToggleReloads ==
    /\ toggle # None /\ toggle.pc = "written"
    /\ toggle' = None
    /\ ReloadJobs(disk, mtime)
    /\ UNCHANGED files /\ UNCHANGED NotAFile

\* A tool that replaces j's file by f and reloads, in one step of the loop.
Tool(j, f) ==
    /\ WriteFile(j, f) /\ ReloadJobs(disk', mtime')
    /\ UNCHANGED toggle /\ UNCHANGED NotAFile

AddScheduledTask(j) ==
    /\ disk[j] = None
    /\ Tool(j, [kind |-> "ok", enabled |-> FALSE])

\* A file that cannot be parsed raises before anything is written. A new cron
\* repairs a file that has none.
UpdateScheduledTask(j, enabled) ==
    /\ disk[j] # None /\ disk[j].kind # "broken"
    /\ \E kind \in {disk[j].kind} \cup (IF disk[j].kind = "nocron" THEN {"ok", "bad"} ELSE {}) :
          LET f == [kind |-> kind, enabled |-> enabled \/ kind = "nocron"] IN
          f # disk[j] /\ Tool(j, f)

RemoveScheduledTask(j) ==
    /\ disk[j] # None /\ ~ status[j].running
    /\ Tool(j, None)

-----------------------------------------------------------------------------
Init ==
    /\ now = 0 /\ writes = 1
    /\ disk \in [Names -> {None, [kind |-> "ok", enabled |-> TRUE],
                           [kind |-> "bad", enabled |-> TRUE]}]
    /\ mtime = [j \in Names |-> IF disk[j] = None THEN 0 ELSE 1]
    /\ jobs = disk
    /\ status = [j \in Names |-> IF disk[j] = None THEN NoEntry ELSE Blank]
    /\ snap = [j \in Names |-> 0] /\ primed = FALSE
    /\ loop = "off" /\ wake = 0 /\ tasks = {} /\ stopping = "no" /\ toggle = None
    /\ fired = [j \in Names |-> 0] /\ boots = 0

TaskSteps(t) == \/ TaskStarts(t) \/ Reads(t) \/ Writes(t) \/ Notified(t)
                \/ RunEnds(t) \/ Finalized(t) \/ Cancelled(t)

StopSteps == StopBegins \/ StopCancels \/ StopEnds

Writers == \E j \in Names :
    \/ \E f \in File \cup {None} : Edit(j, f)
    \/ ToggleTruncates(j) \/ AddScheduledTask(j) \/ RemoveScheduledTask(j)
    \/ \E enabled \in BOOLEAN : UpdateScheduledTask(j, enabled)

Next ==
    \/ Tick \/ Start \/ Pass
    \/ \E t \in tasks : TaskSteps(t)
    \/ StopSteps \/ Restart
    \/ Writers \/ ScheduledCommand \/ ToggleWrites \/ ToggleReloads

Spec == Init /\ [][Next]_vars

-----------------------------------------------------------------------------
\* A job never overlaps itself, whatever happens to its file, its entry and
\* its configuration while it runs (the guard on is_running in _run_job and the
\* entries reload_jobs keeps).
NoOverlap ==
    \A t, u \in tasks : t.pc = "running" /\ u.pc = "running" /\ t.job = u.job => t = u

\* Every job that may be fired has an entry in _statuses: without one,
\* _should_fire() raises KeyError and the tick ends for all the jobs after it.
EntryForEveryJob == \A j \in Names : jobs[j] # None => status[j].known

\* One process fires a slot of a job at most once, even when the entry that
\* remembers it was lost because the file was away at a reload.
OncePerSlot ==
    [][\A t \in tasks' :
          (\A u \in tasks : <<u.job, u.at>> # <<t.job, t.at>>) => fired'[t.job] > fired[t.job]]_vars

\* After stop() has returned nothing of the scheduler is left that could run
\* or fire a job.
StopIsFinal ==
    stopping = "done" => tasks = {} /\ loop # "alive"
=============================================================================
