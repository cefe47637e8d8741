------------------------- MODULE JobScheduler_proofs -------------------------
(***************************************************************************)
(* Proofs about JobScheduler, for every set of jobs, every cron table,     *)
(* every length of a minute and every bound.                               *)
(*                                                                         *)
(* The inductive invariant IInv ties the running tasks to the entries of   *)
(* the jobs (which is what the guard on is_running and the entries kept by *)
(* a reload are for), and the slots fired to the time of the next tick: a  *)
(* slot is fired less than a minute after it, the next tick is a minute    *)
(* later, so no slot is seen by two ticks, with or without last_fire_at.   *)
(***************************************************************************)
EXTENDS JobScheduler, TLAPS

\* What relates the loaded jobs js, their entries es and the tasks ts.
ConfigOK(js, es, ts) ==
    /\ js \in [Names -> Job \cup {None}]
    /\ es \in [Names -> Entry]
    /\ ts \subseteq Task
    /\ \A j \in Names : es[j].running => es[j].known
    /\ \A j \in Names : js[j] # None => es[j].known
    /\ \A t \in ts : t.pc = "running" => es[t.job].running
    /\ \A t \in ts : t.current => js[t.job] # None
    /\ \A t \in ts : t.pc = "writing" => t.read \in File /\ t.read.kind # "broken"
    /\ \A t, u \in ts : t.pc = "running" /\ u.pc = "running" /\ t.job = u.job => t = u

\* stop() first kills the loop and returns when no task is left.
StopOrder ==
    /\ stopping # "no" => loop = "dead"
    /\ stopping = "done" => tasks = {}

\* The next tick is more than a minute after every slot that was fired.
SlotsBehind ==
    /\ \A j \in Names : fired[j] = 0 \/ fired[j] + Minute < wake
    /\ loop = "off" => \A j \in Names : fired[j] = 0

\* A step after which every task was there before it.
NoNewTask == \A t \in tasks' : \E u \in tasks : t.job = u.job /\ t.at = u.at

IInv == TypeOK /\ ConfigOK(jobs, status, tasks) /\ StopOrder /\ SlotsBehind
-----------------------------------------------------------------------------
\* The last slot before t, if there is one, is an instant before t.
LEMMA PrevIsBefore ==
    ASSUME NEW j \in Names, NEW kind \in Kinds, NEW t \in Times,
           NEW prev \in Prev(j, kind, t)
    PROVE  prev \in Times /\ 0 < prev /\ prev < t
<1>1. Slots(j, kind) \subseteq 1 .. Horizon
  BY CronIsTimes DEF Slots, EveryMinute
<1> QED
  BY <1>1, BoundsAreNumbers DEF Prev, Times

\* There is one last slot at most.
LEMMA PrevIsUnique ==
    ASSUME NEW j \in Names, NEW kind \in Kinds, NEW t \in Times,
           NEW p \in Prev(j, kind, t), NEW q \in Prev(j, kind, t)
    PROVE  p = q
<1>1. p \in Times /\ q \in Times
  BY PrevIsBefore
<1>2. p <= q /\ q <= p
  BY DEF Prev
<1> QED
  BY <1>1, <1>2, BoundsAreNumbers DEF Times

\* The files that load are jobs.
LEMMA LoadedAreJobs ==
    ASSUME NEW d \in [Names -> File \cup {None}], Loadable(d)
    PROVE  d \in [Names -> Job \cup {None}]
  BY DEF Loadable, File, Job, Kinds

\* A reload keeps the configuration sound.
LEMMA ReloadOK ==
    ASSUME ConfigOK(jobs, status, tasks),
           NEW d \in [Names -> File \cup {None}], Loadable(d)
    PROVE  ConfigOK(d, Synced(d), Outdated(tasks))
<1>1. d \in [Names -> Job \cup {None}]
  BY LoadedAreJobs
<1>2. \A j \in Names : /\ Synced(d)[j] \in Entry
                       /\ Synced(d)[j].running = status[j].running
                       /\ Synced(d)[j].running => Synced(d)[j].known
                       /\ d[j] # None => Synced(d)[j].known
  BY DEF ConfigOK, Synced, Entry, NoEntry, Blank, Never
<1>3. Synced(d) \in [Names -> Entry]
  BY <1>2 DEF Synced
<1>4. \A t \in Outdated(tasks) :
         /\ t \in Task /\ ~ t.current
         /\ \E u \in tasks : t = [u EXCEPT !.current = FALSE] /\ t.pc = u.pc /\ t.job = u.job /\ t.read = u.read
  <2> TAKE t \in Outdated(tasks)
  <2>1. PICK u \in tasks : t = [u EXCEPT !.current = FALSE]
    BY DEF Outdated
  <2>2. u \in Task
    BY DEF ConfigOK
  <2>3. t \in Task /\ ~ t.current /\ t.pc = u.pc /\ t.job = u.job /\ t.read = u.read
    BY <2>1, <2>2 DEF Task
  <2> QED
    BY <2>1, <2>3
<1>5. \A t \in Outdated(tasks) :
         /\ t.pc = "running" => Synced(d)[t.job].running
         /\ t.pc = "writing" => t.read \in File /\ t.read.kind # "broken"
  <2> TAKE t \in Outdated(tasks)
  <2>1. PICK u \in tasks : t.pc = u.pc /\ t.job = u.job /\ t.read = u.read
    BY <1>4
  <2>2. u.job \in Names
    BY DEF ConfigOK, Task
  <2> QED
    BY <2>1, <2>2, <1>2 DEF ConfigOK
<1>6. \A t, v \in Outdated(tasks) :
         t.pc = "running" /\ v.pc = "running" /\ t.job = v.job => t = v
  <2> TAKE t, v \in Outdated(tasks)
  <2>1. PICK a \in tasks : t = [a EXCEPT !.current = FALSE] /\ t.pc = a.pc /\ t.job = a.job
    BY <1>4
  <2>2. PICK b \in tasks : v = [b EXCEPT !.current = FALSE] /\ v.pc = b.pc /\ v.job = b.job
    BY <1>4
  <2> QED
    BY <2>1, <2>2 DEF ConfigOK
<1> QED
  BY <1>1, <1>2, <1>3, <1>4, <1>5, <1>6 DEF ConfigOK

\* A pass over the jobs keeps the configuration sound; what it fires is less
\* than a minute old.
LEMMA FireOK ==
    ASSUME now \in Times, fired \in [Names -> Times],
           NEW js, NEW es, NEW ts, ConfigOK(js, es, ts), Fire(js, es, ts)
    PROVE  /\ ConfigOK(js, status', tasks')
           /\ fired' \in [Names -> Times]
           /\ \A j \in Names : \/ fired'[j] = fired[j]
                               \/ now - Minute < fired'[j] /\ fired'[j] < now
           /\ \A t \in tasks' : t \in ts \/ (now - Minute < fired'[t.job] /\ 0 < fired'[t.job])
<1> DEFINE due == {j \in Names : js[j] # None /\ js[j].enabled /\ ShouldFire(j, js[j], es[j])}
<1> DEFINE slot(j) == CHOOSE prev \in Prev(j, js[j].kind, now) : TRUE
<1>1. /\ status' = [j \in Names |-> IF j \in due THEN [es[j] EXCEPT !.lastFire = now] ELSE es[j]]
      /\ tasks' = ts \cup {Fresh(j, js[j]) : j \in due}
      /\ fired' = [j \in Names |-> IF j \in due THEN slot(j) ELSE fired[j]]
  BY DEF Fire
<1>2. \A j \in due : js[j] \in Job /\ j \in Names
  BY DEF ConfigOK
<1>3. \A j \in due : /\ slot(j) \in Times /\ 0 < slot(j)
                     /\ slot(j) < now /\ now - Minute < slot(j)
  <2> TAKE j \in due
  <2>1. js[j].kind \in Kinds /\ j \in Names
    BY <1>2 DEF Job, Kinds
  <2>2. PICK prev \in Prev(j, js[j].kind, now) : now - prev < Minute
    BY DEF ShouldFire
  <2>3. slot(j) \in Prev(j, js[j].kind, now)
    BY <2>2
  <2> HIDE DEF slot
  <2>4. slot(j) = prev
    BY <2>1, <2>2, <2>3, PrevIsUnique
  <2>5. prev \in Times /\ 0 < prev /\ prev < now
    BY <2>1, <2>2, PrevIsBefore
  <2> QED
    BY <2>2, <2>4, <2>5, BoundsAreNumbers DEF Times
<1> HIDE DEF slot
<1>4. \A j \in due : /\ Fresh(j, js[j]) \in Task
                     /\ Fresh(j, js[j]).job = j
                     /\ Fresh(j, js[j]).pc = "created"
  BY <1>2 DEF Fresh, Task, TaskPC, Job, Kinds
<1> HIDE DEF due
<1>5. ConfigOK(js, status', tasks')
  <2>1. js \in [Names -> Job \cup {None}]
    BY DEF ConfigOK
  <2>2. \A j \in Names : /\ status'[j] \in Entry
                         /\ status'[j].known = es[j].known
                         /\ status'[j].running = es[j].running
    BY <1>1 DEF ConfigOK, Entry
  <2>3. status' \in [Names -> Entry]
    BY <1>1, <2>2
  <2>4. tasks' \subseteq Task
    BY <1>1, <1>4 DEF ConfigOK
  <2>5. \A t \in tasks' : t.current => js[t.job] # None
    BY <1>1, <1>4, <1>2 DEF ConfigOK, due
  <2>6. \A t \in tasks' : t.pc # "created" => t \in ts
    BY <1>1, <1>4
  <2>7. \A t \in ts : t.job \in Names
    BY DEF ConfigOK, Task
  <2> QED
    BY <2>1, <2>2, <2>3, <2>4, <2>5, <2>6, <2>7 DEF ConfigOK
<1>6. fired' \in [Names -> Times]
  BY <1>1, <1>3
<1>7. \A j \in Names : \/ fired'[j] = fired[j]
                       \/ now - Minute < fired'[j] /\ fired'[j] < now
  BY <1>1, <1>3
<1>8. \A t \in tasks' : t \in ts \/ (now - Minute < fired'[t.job] /\ 0 < fired'[t.job])
  BY <1>1, <1>2, <1>3, <1>4
<1> QED
  BY <1>5, <1>6, <1>7, <1>8

-----------------------------------------------------------------------------
\* The initial states are sound.
LEMMA InitOK == Init => IInv
<1> SUFFICES ASSUME Init PROVE IInv
  OBVIOUS
<1>0. \A k \in {"ok", "bad"} : /\ [kind |-> k, enabled |-> TRUE] \in Job
                               /\ [kind |-> k, enabled |-> TRUE] \in File
  BY DEF Job, File, Kinds
<1>1. disk \in [Names -> Job \cup {None}] /\ disk \in [Names -> File \cup {None}]
  BY <1>0 DEF Init
<1>2. status \in [Names -> Entry] /\ \A j \in Names : ~ status[j].running
  BY DEF Init, NoEntry, Blank, Entry, Never
<1>3. ConfigOK(jobs, status, tasks)
  BY <1>1, <1>2 DEF Init, ConfigOK, NoEntry, Blank
<1>4. mtime \in [Names -> 0 .. MaxWrites] /\ \A j \in Names : (disk[j] = None) = (mtime[j] = 0)
  BY BoundsAreNumbers DEF Init
<1>5. snap \in [Names -> 0 .. MaxWrites] /\ fired \in [Names -> Times]
  BY BoundsAreNumbers DEF Init, Times
<1>6. now \in Times /\ wake \in 0 .. Horizon + Minute /\ writes \in 0 .. MaxWrites /\ boots \in 0 .. MaxBoots
  BY BoundsAreNumbers DEF Init, Times
<1>7. TypeOK
  BY <1>1, <1>2, <1>4, <1>5, <1>6 DEF Init, TypeOK
<1> QED
  BY <1>3, <1>7 DEF Init, IInv, StopOrder, SlotsBehind

\* A write to a job file keeps the files well-formed.
LEMMA WriteOK ==
    ASSUME TypeOK, NEW j \in Names, NEW f \in File \cup {None}, WriteFile(j, f)
    PROVE  /\ disk' \in [Names -> File \cup {None}]
           /\ writes' \in 0 .. MaxWrites /\ mtime' \in [Names -> 0 .. MaxWrites]
           /\ \A k \in Names : (disk'[k] = None) = (mtime'[k] = 0)
<1>1. writes + 1 \in 0 .. MaxWrites /\ writes + 1 # 0
  BY BoundsAreNumbers DEF TypeOK, WriteFile
<1>2. mtime' \in [Names -> 0 .. MaxWrites] /\ disk' \in [Names -> File \cup {None}]
  <2>1. mtime \in [Names -> 0 .. MaxWrites] /\ disk \in [Names -> File \cup {None}]
    BY DEF TypeOK
  <2>2. mtime' = [mtime EXCEPT ![j] = IF f = None THEN 0 ELSE writes + 1] /\ disk' = [disk EXCEPT ![j] = f]
    BY DEF WriteFile
  <2>3. (IF f = None THEN 0 ELSE writes + 1) \in 0 .. MaxWrites
    BY <1>1, BoundsAreNumbers
  <2> QED
    BY <2>1, <2>2, <2>3
<1>3. \A k \in Names : (disk'[k] = None) = (mtime'[k] = 0)
  BY <1>1 DEF TypeOK, WriteFile
<1> QED
  BY <1>1, <1>2, <1>3 DEF WriteFile

\* A reload by a handler that leaves the files as d, modified at m.
LEMMA ReloadJobsOK ==
    ASSUME IInv, NEW d \in [Names -> File \cup {None}],
           NEW m \in [Names -> 0 .. MaxWrites], ReloadJobs(d, m)
    PROVE  /\ ConfigOK(jobs', status', tasks')
           /\ snap' \in [Names -> 0 .. MaxWrites]
           /\ tasks = {} => tasks' = {}
           /\ NoNewTask
<1>1. CASE Loadable(d)
  <2>1. /\ jobs' = d /\ status' = Synced(d) /\ snap' = m /\ tasks' = Outdated(tasks)
    BY <1>1 DEF ReloadJobs
  <2>2. ConfigOK(d, Synced(d), Outdated(tasks))
    BY <1>1, ReloadOK DEF IInv
  <2>3. tasks \subseteq Task
    BY DEF IInv, TypeOK
  <2>4. NoNewTask
    BY <2>1, <2>3 DEF Outdated, Task, NoNewTask
  <2> QED
    BY <2>1, <2>2, <2>4 DEF Outdated
<1>2. CASE ~ Loadable(d)
  BY <1>2 DEF ReloadJobs, IInv, TypeOK, NoNewTask
<1> QED
  BY <1>1, <1>2

\* What the steps of a task leave alone stays sound.
LEMMA TaskFrameOK ==
    ASSUME IInv, UNCHANGED NotATask, NoNewTask, ConfigOK(jobs', status', tasks'),
           disk' \in [Names -> File \cup {None}],
           writes' \in 0 .. MaxWrites, mtime' \in [Names -> 0 .. MaxWrites],
           \A k \in Names : (disk'[k] = None) = (mtime'[k] = 0)
    PROVE  IInv'
<1>1. TypeOK'
  BY DEF IInv, TypeOK, NotATask, ConfigOK
<1>2. StopOrder'
  BY DEF IInv, StopOrder, NotATask, NoNewTask
<1>3. SlotsBehind'
  BY DEF IInv, SlotsBehind, NotATask
<1> QED
  BY <1>1, <1>2, <1>3 DEF IInv

\* Marking a job as running, or not, changes nothing else of its entry.
LEMMA RunningOK ==
    ASSUME status \in [Names -> Entry], NEW j \in Names, NEW b \in BOOLEAN, Running(j, b)
    PROVE  /\ status' \in [Names -> Entry]
           /\ \A k \in Names : /\ status'[k].known = status[k].known
                               /\ status'[k].running = (IF k = j THEN b ELSE status[k].running)
<1>1. status[j] \in Entry
  OBVIOUS
<1>2. /\ [status[j] EXCEPT !.running = b] \in Entry
      /\ [status[j] EXCEPT !.running = b].known = status[j].known
      /\ [status[j] EXCEPT !.running = b].running = b
  BY <1>1 DEF Entry
<1>3. status' = [k \in Names |-> IF k = j THEN [status[j] EXCEPT !.running = b] ELSE status[k]]
  BY DEF Running
<1> QED
  BY <1>2, <1>3

\* A task that ends.
LEMMA EndsOK ==
    ASSUME IInv, NEW t \in tasks, Ends(t), UNCHANGED jobs,
           \/ UNCHANGED status
           \/ Running(t.job, FALSE) /\ t.pc = "running"
    PROVE  ConfigOK(jobs', status', tasks') /\ NoNewTask
<1>1. t.job \in Names /\ tasks' \subseteq tasks
  BY DEF IInv, TypeOK, Task, Ends
<1>2. /\ status' \in [Names -> Entry]
      /\ \A j \in Names : status'[j].known = status[j].known /\ (status'[j].running => status[j].running)
  BY <1>1, RunningOK DEF IInv, TypeOK
<1>4. \A u \in tasks' : u.pc = "running" => status'[u.job].running
  BY <1>1 DEF IInv, TypeOK, ConfigOK, Running, Ends, Task, Entry
<1> QED
  BY <1>1, <1>2, <1>4 DEF IInv, ConfigOK, NoNewTask

\* A task that goes on as u, without starting the job.
LEMMA GoesOnOK ==
    ASSUME IInv, NEW t \in tasks, NEW u \in Task,
           tasks' = (tasks \ {t}) \cup {u},
           u.job = t.job, u.at = t.at, u.current = t.current,
           u.pc = "running" => t.pc = "running",
           u.pc = "writing" => u.read \in File /\ u.read.kind # "broken",
           UNCHANGED jobs,
           \/ UNCHANGED status
           \/ Running(t.job, FALSE) /\ t.pc = "running" /\ u.pc # "running"
    PROVE  ConfigOK(jobs', status', tasks') /\ NoNewTask
<1>1. t.job \in Names /\ tasks' \subseteq Task
  BY DEF IInv, TypeOK, Task
<1>2. /\ status' \in [Names -> Entry]
      /\ \A j \in Names : status'[j].known = status[j].known /\ (status'[j].running => status[j].running)
  BY <1>1, RunningOK DEF IInv, TypeOK
<1>4. \A v \in tasks' : v.pc = "running" => status'[v.job].running
  BY <1>1 DEF IInv, TypeOK, ConfigOK, Running, Task, Entry
<1>5. \A v, w \in tasks' : v.pc = "running" /\ w.pc = "running" /\ v.job = w.job => v = w
  BY DEF IInv, ConfigOK
<1>6. NoNewTask
  BY DEF NoNewTask
<1> QED
  BY <1>1, <1>2, <1>4, <1>5, <1>6 DEF IInv, ConfigOK


\* A step of a task keeps the invariant and adds no task.
LEMMA TaskStartsOK ==
    ASSUME IInv, NEW t \in tasks, TaskStarts(t)
    PROVE  IInv' /\ NoNewTask
<1> DEFINE j == t.job
<1>0. t \in Task /\ j \in Names /\ t.pc = "created"
  BY DEF IInv, TypeOK, Task, TaskStarts
<1>1. ConfigOK(jobs', status', tasks') /\ NoNewTask
  <2>1. CASE Ends(t) /\ UNCHANGED <<jobs, status>>
    BY <2>1, EndsOK
  <2>2. CASE /\ jobs' = IF t.current THEN [jobs EXCEPT ![j].enabled = FALSE] ELSE jobs
             /\ Becomes(t, "reading") /\ UNCHANGED status
    <3>1. [t EXCEPT !.pc = "reading"] \in Task
      BY <1>0 DEF Task, TaskPC
    <3>2. jobs \in [Names -> Job \cup {None}] /\ (t.current => jobs[j] # None)
      BY DEF IInv, ConfigOK
    <3>3. t.current => [jobs[j] EXCEPT !.enabled = FALSE] \in Job
      BY <3>2, <1>0 DEF Job
    <3>4. jobs' \in [Names -> Job \cup {None}] /\ \A k \in Names : jobs'[k] # None <=> jobs[k] # None
      <4>1. CASE ~ t.current
        BY <4>1, <2>2, <3>2
      <4>2. CASE t.current
        <5>1. jobs' = [k \in Names |-> IF k = j THEN [jobs[j] EXCEPT !.enabled = FALSE] ELSE jobs[k]]
          BY <4>2, <2>2, <3>2
        <5>2. [jobs[j] EXCEPT !.enabled = FALSE] # None
          BY <4>2, <3>3, NoneIsNoFile DEF Job
        <5> QED
          BY <5>1, <5>2, <3>2, <3>3, <4>2
      <4> QED
        BY <4>1, <4>2
    <3>5. tasks' = (tasks \ {t}) \cup {[t EXCEPT !.pc = "reading"]} /\ tasks' \subseteq Task
      BY <2>2, <3>1 DEF Becomes, IInv, TypeOK
    <3>6. \A v \in tasks' : \/ v \in tasks
                            \/ v.pc = "reading" /\ v.job = j /\ v.at = t.at /\ v.current = t.current
      BY <3>5, <1>0 DEF Task
    <3>7. NoNewTask
      BY <3>6 DEF NoNewTask
    <3>8. \A v \in tasks' : v.current => jobs'[v.job] # None
      BY <3>4, <3>5, <3>6 DEF IInv, ConfigOK, Task
    <3> QED
      BY <3>4, <3>5, <3>6, <3>7, <3>8, <2>2 DEF IInv, ConfigOK
  <2>3. CASE /\ status[j].known /\ ~ status[j].running
             /\ Running(j, TRUE) /\ Becomes(t, "running") /\ UNCHANGED jobs
    <3>1. [t EXCEPT !.pc = "running"] \in Task
      BY <1>0 DEF Task, TaskPC
    <3>2. tasks' = (tasks \ {t}) \cup {[t EXCEPT !.pc = "running"]} /\ tasks' \subseteq Task
      BY <2>3, <3>1 DEF Becomes, IInv, TypeOK
    <3>3. \A v \in tasks' : \/ v \in tasks
                            \/ /\ v = [t EXCEPT !.pc = "running"] /\ v.pc = "running"
                               /\ v.job = j /\ v.at = t.at /\ v.current = t.current
      BY <3>2, <1>0 DEF Task
    <3>4. /\ status' \in [Names -> Entry]
          /\ \A k \in Names : /\ status'[k].known = status[k].known
                              /\ status'[k].running = (IF k = j THEN TRUE ELSE status[k].running)
      BY <2>3, <1>0, RunningOK DEF IInv, TypeOK
    <3>5. \A v \in tasks : v.pc = "running" => v.job # j
      BY <2>3 DEF IInv, ConfigOK
    <3>6. \A v \in tasks' : v.pc = "running" => status'[v.job].running
      BY <3>3, <3>4, <1>0 DEF IInv, ConfigOK, TypeOK, Task
    <3>7. \A v, w \in tasks' : v.pc = "running" /\ w.pc = "running" /\ v.job = w.job => v = w
      BY <3>3, <3>5 DEF IInv, ConfigOK
    <3>8. NoNewTask
      BY <3>3 DEF NoNewTask
    <3>9. \A v \in tasks' : /\ v.current => jobs'[v.job] # None
                            /\ v.pc = "writing" => v.read \in File /\ v.read.kind # "broken"
      BY <3>3, <2>3 DEF IInv, ConfigOK
    <3> QED
      BY <3>2, <3>4, <3>6, <3>7, <3>8, <3>9, <2>3 DEF IInv, ConfigOK
  <2> QED
    BY <2>1, <2>2, <2>3 DEF TaskStarts
<1>2. UNCHANGED <<disk, mtime, writes>> /\ UNCHANGED NotATask
  BY DEF TaskStarts
<1> QED
  BY <1>1, <1>2, TaskFrameOK DEF IInv, TypeOK

LEMMA ReadsOK ==
    ASSUME IInv, NEW t \in tasks, Reads(t)
    PROVE  IInv' /\ NoNewTask
<1> DEFINE file == disk[t.job]
           broken == [kind |-> "broken", enabled |-> TRUE]
<1>0. t \in Task /\ t.pc = "reading"
  BY DEF IInv, TypeOK, Reads
<1>1. ConfigOK(jobs', status', tasks') /\ NoNewTask
  <2>1. CASE file = None \/ file = broken
    <3>1. [t EXCEPT !.pc = "notifying"] \in Task
      BY <1>0 DEF Task, TaskPC
    <3>2. tasks' = (tasks \ {t}) \cup {[t EXCEPT !.pc = "notifying"]}
      BY <2>1 DEF Reads, Becomes
    <3> QED
      BY <1>0, <3>1, <3>2, GoesOnOK DEF Reads, Task
  <2>2. CASE file # None /\ file # broken
    <3>1. file \in File
      BY <1>0, <2>2 DEF IInv, TypeOK, Task
    <3>2. file.kind # "broken"
      BY <3>1, <2>2 DEF File
    <3>3. [t EXCEPT !.pc = "writing", !.read = file] \in Task
      BY <1>0, <3>1 DEF Task, TaskPC
    <3>4. tasks' = (tasks \ {t}) \cup {[t EXCEPT !.pc = "writing", !.read = file]}
      BY <2>2 DEF Reads
    <3> HIDE DEF file, broken
    <3> QED
      BY <1>0, <3>1, <3>2, <3>3, <3>4, GoesOnOK DEF Reads, Task
  <2> QED
    BY <2>1, <2>2
<1>2. UNCHANGED <<disk, mtime, writes>> /\ UNCHANGED NotATask
  BY DEF Reads
<1> QED
  BY <1>1, <1>2, TaskFrameOK DEF IInv, TypeOK

\* What a disabling task writes is a job file.
LEMMA WritesOK ==
    ASSUME IInv, NEW t \in tasks, t.pc = "writing",
           \/ WriteFile(t.job, Disabled(t.read))
           \/ UNCHANGED files
    PROVE  /\ disk' \in [Names -> File \cup {None}]
           /\ writes' \in 0 .. MaxWrites /\ mtime' \in [Names -> 0 .. MaxWrites]
           /\ \A k \in Names : (disk'[k] = None) = (mtime'[k] = 0)
<1>1. t.job \in Names /\ t.read \in File /\ t.read.kind # "broken"
  BY DEF IInv, TypeOK, ConfigOK, Task
<1>2. Disabled(t.read) \in File
  BY <1>1 DEF Disabled, File
<1>3. CASE WriteFile(t.job, Disabled(t.read))
  BY <1>1, <1>2, <1>3, WriteOK DEF IInv
<1>4. CASE UNCHANGED files
  BY <1>4 DEF files, IInv, TypeOK
<1> QED
  BY <1>3, <1>4

LEMMA TaskStepsOK ==
    ASSUME IInv, NEW t \in tasks, TaskSteps(t)
    PROVE  IInv' /\ NoNewTask
<1>0. t \in Task
  BY DEF IInv, TypeOK
<1>1. CASE TaskStarts(t)
  BY <1>1, TaskStartsOK
<1>2. CASE Reads(t)
  BY <1>2, ReadsOK
<1>3. CASE Writes(t)
  <2>1. [t EXCEPT !.pc = "notifying", !.read = None] \in Task
    BY <1>0 DEF Task, TaskPC
  <2>2. ConfigOK(jobs', status', tasks') /\ NoNewTask
    BY <1>0, <1>3, <2>1, GoesOnOK DEF Writes, config, Task
  <2> QED
    BY <1>3, <2>2, WritesOK, TaskFrameOK DEF Writes
<1>4. CASE Notified(t) \/ Finalized(t)
  <2>1. ConfigOK(jobs', status', tasks') /\ NoNewTask
    BY <1>4, EndsOK DEF Notified, Finalized
  <2> QED
    BY <1>4, <2>1, TaskFrameOK DEF Notified, Finalized, IInv, TypeOK
<1>5. CASE RunEnds(t)
  <2>1. ConfigOK(jobs', status', tasks') /\ NoNewTask
    <3>1. [t EXCEPT !.pc = "finalizing"] \in Task
      BY <1>0 DEF Task, TaskPC
    <3>2. CASE Becomes(t, "finalizing")
      BY <1>0, <1>5, <3>1, <3>2, GoesOnOK DEF RunEnds, Becomes, Task
    <3>3. CASE Ends(t)
      BY <1>5, <3>3, EndsOK DEF RunEnds
    <3> QED
      BY <1>5, <3>2, <3>3 DEF RunEnds
  <2> QED
    BY <1>5, <2>1, TaskFrameOK DEF RunEnds, IInv, TypeOK
<1>6. CASE Cancelled(t)
  <2>1. ConfigOK(jobs', status', tasks') /\ NoNewTask
    <3>1. CASE Ends(t) /\ UNCHANGED status
      BY <1>6, <3>1, EndsOK DEF Cancelled
    <3>2. CASE /\ t.pc = "running" /\ Running(t.job, FALSE)
               /\ tasks' = (tasks \ {t}) \cup {[t EXCEPT !.pc = "finalizing", !.cancelled = FALSE]}
      <4>1. [t EXCEPT !.pc = "finalizing", !.cancelled = FALSE] \in Task
        BY <1>0 DEF Task, TaskPC
      <4> QED
        BY <1>0, <1>6, <3>2, <4>1, GoesOnOK DEF Cancelled, Task
    <3>3. CASE /\ t.pc = "running" /\ UNCHANGED status
               /\ tasks' = (tasks \ {t}) \cup {[t EXCEPT !.cancelled = FALSE]}
      <4>1. [t EXCEPT !.cancelled = FALSE] \in Task
        BY <1>0 DEF Task
      <4> QED
        BY <1>0, <1>6, <3>3, <4>1, GoesOnOK DEF Cancelled, Task
    <3> QED
      BY <1>6, <3>1, <3>2, <3>3 DEF Cancelled
  <2>2. /\ UNCHANGED <<disk, mtime, writes>> \/ t.pc = "writing"
        /\ t.pc = "writing" => \/ WriteFile(t.job, Disabled(t.read))
                               \/ UNCHANGED files
        /\ UNCHANGED NotATask
    BY <1>6 DEF Cancelled, files
  <2>3. /\ disk' \in [Names -> File \cup {None}]
        /\ writes' \in 0 .. MaxWrites /\ mtime' \in [Names -> 0 .. MaxWrites]
        /\ \A k \in Names : (disk'[k] = None) = (mtime'[k] = 0)
    BY <2>2, WritesOK DEF IInv, TypeOK
  <2> QED
    BY <2>1, <2>2, <2>3, TaskFrameOK
<1> QED
  BY <1>1, <1>2, <1>3, <1>4, <1>5, <1>6 DEF TaskSteps

-----------------------------------------------------------------------------
\* A tick reloads what changed and fires what is due, in slots that are later
\* than any fired before.
LEMMA TickOK ==
    ASSUME IInv, Tick
    PROVE  /\ IInv'
           /\ \A t \in tasks' : \/ \E u \in tasks : u.job = t.job /\ u.at = t.at
                                \/ fired'[t.job] > fired[t.job]
<1>0. /\ now \in Times /\ fired \in [Names -> Times] /\ wake \in 0 .. Horizon + Minute
      /\ disk \in [Names -> File \cup {None}] /\ tasks \subseteq Task
      /\ ConfigOK(jobs, status, tasks)
      /\ loop = "alive" /\ now >= wake /\ wake' = now + Minute
      /\ UNCHANGED <<now, loop, stopping>>
  BY DEF IInv, TypeOK, Tick
<1> DEFINE Old(ts)  == \A t \in ts : \E u \in tasks : u.job = t.job /\ u.at = t.at
           Good == /\ ConfigOK(jobs', status', tasks')
                   /\ fired' \in [Names -> Times]
                   /\ \A j \in Names : \/ fired'[j] = fired[j]
                                       \/ now - Minute < fired'[j] /\ fired'[j] < now
                   /\ \A t \in tasks' : \/ \E u \in tasks : u.job = t.job /\ u.at = t.at
                                        \/ now - Minute < fired'[t.job] /\ 0 < fired'[t.job]
<1>1. Good
  <2>1. ASSUME NEW js, NEW es, NEW ts, ConfigOK(js, es, ts), Old(ts), Fire(js, es, ts), jobs' = js
        PROVE  Good
    BY <2>1, <1>0, FireOK
  <2>2. CASE Changed /\ Loadable(disk) /\ jobs' = disk /\ Fire(disk, Synced(disk), Outdated(tasks))
    <3>1. ConfigOK(disk, Synced(disk), Outdated(tasks))
      BY <1>0, <2>2, ReloadOK
    <3>2. Old(Outdated(tasks))
      BY <1>0 DEF Outdated, Task
    <3> QED
      BY <2>1, <2>2, <3>1, <3>2
  <2>3. CASE Changed /\ ~ Loadable(disk) /\ UNCHANGED <<jobs, status, tasks, fired>>
    BY <2>3, <1>0
  <2>4. CASE ~ Changed /\ UNCHANGED jobs /\ Fire(jobs, status, tasks)
    <3>1. Old(tasks)
      OBVIOUS
    <3> QED
      BY <2>1, <2>4, <3>1, <1>0
  <2> QED
    BY <2>2, <2>3, <2>4 DEF Tick
<1>2. TypeOK'
  <2>1. wake' \in 0 .. Horizon + Minute
    BY <1>0, BoundsAreNumbers DEF Times
  <2> QED
    BY <1>0, <1>1, <2>1 DEF IInv, TypeOK, Tick, ConfigOK
<1>3. \A j \in Names : fired[j] = 0 \/ fired[j] + Minute < wake
  BY DEF IInv, SlotsBehind
<1>4. \A j \in Names : fired'[j] = 0 \/ fired'[j] + Minute < wake'
  BY <1>0, <1>1, <1>3, BoundsAreNumbers DEF Times
<1>5. SlotsBehind' /\ StopOrder'
  BY <1>0, <1>4 DEF SlotsBehind, StopOrder, IInv
<1>6. \A t \in tasks' : now - Minute < fired'[t.job] /\ 0 < fired'[t.job] => fired'[t.job] > fired[t.job]
  <2> TAKE t \in tasks'
  <2>1. t.job \in Names
    BY <1>1 DEF ConfigOK, Task
  <2>2. fired[t.job] \in Times /\ fired'[t.job] \in Times
    BY <2>1, <1>0, <1>1
  <2>3. fired[t.job] = 0 \/ fired[t.job] + Minute < wake
    BY <2>1, <1>3
  <2> QED
    BY <2>2, <2>3, <1>0, BoundsAreNumbers DEF Times
<1> QED
  BY <1>1, <1>2, <1>5, <1>6 DEF IInv

\* stop() cancels every task.
LEMMA StopCancelsOK == ASSUME IInv, StopCancels PROVE IInv' /\ NoNewTask
<1>0. /\ tasks \subseteq Task /\ ConfigOK(jobs, status, tasks)
      /\ tasks' = {[t EXCEPT !.cancelled = TRUE] : t \in tasks}
      /\ stopping' = "gather" /\ UNCHANGED loop /\ UNCHANGED NotStopping /\ stopping = "cancel"
  BY DEF IInv, TypeOK, StopCancels
<1>1. \A v \in tasks' : \E t \in tasks :
         /\ v = [t EXCEPT !.cancelled = TRUE] /\ v \in Task
         /\ v.job = t.job /\ v.at = t.at /\ v.pc = t.pc /\ v.current = t.current /\ v.read = t.read
  <2> TAKE v \in tasks'
  <2>1. PICK t \in tasks : v = [t EXCEPT !.cancelled = TRUE]
    BY <1>0
  <2>2. t \in Task
    BY <1>0
  <2> QED
    BY <2>1, <2>2 DEF Task
<1>2. \A v, w \in tasks' : v.pc = "running" /\ w.pc = "running" /\ v.job = w.job => v = w
  <2> TAKE v, w \in tasks'
  <2>1. PICK t \in tasks : v = [t EXCEPT !.cancelled = TRUE] /\ v.pc = t.pc /\ v.job = t.job
    BY <1>1
  <2>2. PICK u \in tasks : w = [u EXCEPT !.cancelled = TRUE] /\ w.pc = u.pc /\ w.job = u.job
    BY <1>1
  <2> QED
    BY <2>1, <2>2, <1>0 DEF ConfigOK
<1>3. tasks' \subseteq Task /\ NoNewTask
  BY <1>1 DEF NoNewTask
<1>4. \A v \in tasks' : /\ v.pc = "running" => status[v.job].running
                        /\ v.current => jobs[v.job] # None
                        /\ v.pc = "writing" => v.read \in File /\ v.read.kind # "broken"
  <2> TAKE v \in tasks'
  <2>1. PICK t \in tasks : v.job = t.job /\ v.pc = t.pc /\ v.current = t.current /\ v.read = t.read
    BY <1>1
  <2> QED
    BY <2>1, <1>0 DEF ConfigOK
<1>5. ConfigOK(jobs', status', tasks')
  BY <1>0, <1>2, <1>3, <1>4 DEF ConfigOK, NotStopping
<1> QED
  BY <1>0, <1>3, <1>5 DEF IInv, TypeOK, NotStopping, StopOrder, SlotsBehind

LEMMA StopStepsOK == ASSUME IInv, StopSteps PROVE IInv' /\ NoNewTask
<1>1. CASE StopBegins
  BY <1>1 DEF StopBegins, NotStopping, IInv, TypeOK, ConfigOK, StopOrder, SlotsBehind, NoNewTask
<1>2. CASE StopEnds
  BY <1>2 DEF StopEnds, NotStopping, IInv, TypeOK, ConfigOK, StopOrder, SlotsBehind, NoNewTask
<1> QED
  BY <1>1, <1>2, StopCancelsOK DEF StopSteps

\* The next process starts from the files.
LEMMA RestartOK == ASSUME IInv, Restart PROVE IInv' /\ NoNewTask
<1>1. disk \in [Names -> Job \cup {None}]
  BY LoadedAreJobs DEF IInv, TypeOK, Restart
<1>2. status' \in [Names -> Entry] /\ \A j \in Names : ~ status'[j].running
  BY DEF Restart, NoEntry, Blank, Entry, Never
<1>3. ConfigOK(jobs', status', tasks')
  BY <1>1, <1>2 DEF Restart, ConfigOK, NoEntry, Blank
<1>4. /\ snap' \in [Names -> 0 .. MaxWrites] /\ fired' \in [Names -> Times]
      /\ wake' \in 0 .. Horizon + Minute
  BY BoundsAreNumbers DEF Restart, Times
<1>5. boots' \in 0 .. MaxBoots
  BY BoundsAreNumbers DEF Restart, IInv, TypeOK
<1>6. TypeOK'
  BY <1>1, <1>2, <1>4, <1>5 DEF Restart, IInv, TypeOK
<1> QED
  BY <1>3, <1>6 DEF Restart, IInv, StopOrder, SlotsBehind, NoNewTask

\* What a change of the files leaves alone stays sound.
LEMMA WriterFrameOK ==
    ASSUME IInv, UNCHANGED NotAFile, toggle' \in Toggle \cup {None},
           disk' \in [Names -> File \cup {None}],
           writes' \in 0 .. MaxWrites, mtime' \in [Names -> 0 .. MaxWrites],
           \A k \in Names : (disk'[k] = None) = (mtime'[k] = 0),
           \/ UNCHANGED <<jobs, status, snap, tasks>>
           \/ ReloadJobs(disk', mtime')
    PROVE  IInv' /\ NoNewTask
<1>1. /\ ConfigOK(jobs', status', tasks')
      /\ snap' \in [Names -> 0 .. MaxWrites]
      /\ tasks = {} => tasks' = {}
      /\ NoNewTask
  <2>1. CASE UNCHANGED <<jobs, status, snap, tasks>>
    BY <2>1 DEF IInv, TypeOK, NoNewTask
  <2>2. CASE ReloadJobs(disk', mtime')
    BY <2>2, ReloadJobsOK
  <2> QED
    BY <2>1, <2>2
<1>2. TypeOK'
  BY <1>1 DEF IInv, TypeOK, NotAFile, ConfigOK
<1> QED
  BY <1>1, <1>2 DEF IInv, NotAFile, StopOrder, SlotsBehind

\* A file is replaced by f.
LEMMA FileChangeOK ==
    ASSUME IInv, NEW j \in Names, NEW f \in File \cup {None}, WriteFile(j, f),
           UNCHANGED NotAFile, toggle' \in Toggle \cup {None},
           \/ UNCHANGED <<jobs, status, snap, tasks>>
           \/ ReloadJobs(disk', mtime')
    PROVE  IInv' /\ NoNewTask
  BY WriteOK, WriterFrameOK DEF IInv

LEMMA WritersOK == ASSUME IInv, Writers PROVE IInv' /\ NoNewTask
<1>0. PICK j \in Names :
         \/ \E f \in File \cup {None} : Edit(j, f)
         \/ ToggleTruncates(j) \/ AddScheduledTask(j) \/ RemoveScheduledTask(j)
         \/ \E enabled \in BOOLEAN : UpdateScheduledTask(j, enabled)
  BY DEF Writers
<1>a. disk[j] \in File \cup {None} /\ toggle \in Toggle \cup {None}
  BY DEF IInv, TypeOK
<1>1. ASSUME NEW f \in File \cup {None}, Edit(j, f) PROVE IInv' /\ NoNewTask
  BY <1>1, <1>a, FileChangeOK DEF Edit
<1>2. CASE ToggleTruncates(j)
  <2>1. NoCron \in File /\ disk[j] \in File
    BY <1>2, <1>a DEF NoCron, File, Kinds, ToggleTruncates
  <2>2. disk[j].kind # "nocron" => [disk[j] EXCEPT !.enabled = ~ @] \in File
    BY <1>2, <2>1 DEF ToggleTruncates, File
  <2>3. toggle' \in Toggle
    BY <1>2, <2>1, <2>2 DEF ToggleTruncates, Toggle
  <2> QED
    BY <1>2, <2>1, <2>3, FileChangeOK DEF ToggleTruncates
<1>3. ASSUME NEW f \in File \cup {None}, Tool(j, f) PROVE IInv' /\ NoNewTask
  BY <1>3, <1>a, FileChangeOK DEF Tool
<1>4. CASE AddScheduledTask(j)
  <2>1. [kind |-> "ok", enabled |-> FALSE] \in File
    BY DEF File, Kinds
  <2> QED
    BY <1>3, <1>4, <2>1 DEF AddScheduledTask
<1>5. CASE RemoveScheduledTask(j)
  BY <1>3, <1>5 DEF RemoveScheduledTask
<1>6. ASSUME NEW enabled \in BOOLEAN, UpdateScheduledTask(j, enabled) PROVE IInv' /\ NoNewTask
  <2>1. PICK kind \in {disk[j].kind} \cup (IF disk[j].kind = "nocron" THEN {"ok", "bad"} ELSE {}) :
           Tool(j, [kind |-> kind, enabled |-> enabled \/ kind = "nocron"])
    BY <1>6 DEF UpdateScheduledTask
  <2>2. kind \in Kinds /\ kind # "broken"
    BY <1>6, <1>a, <2>1 DEF UpdateScheduledTask, File, Kinds
  <2>3. [kind |-> kind, enabled |-> enabled \/ kind = "nocron"] \in File
    BY <2>2 DEF File
  <2> QED
    BY <1>3, <2>1, <2>3
<1> QED
  BY <1>0, <1>1, <1>2, <1>4, <1>5, <1>6

LEMMA ReloadersOK ==
    ASSUME IInv, ScheduledCommand \/ ToggleWrites \/ ToggleReloads
    PROVE  IInv' /\ NoNewTask
<1>0. /\ disk \in [Names -> File \cup {None}] /\ writes \in 0 .. MaxWrites
      /\ mtime \in [Names -> 0 .. MaxWrites] /\ toggle \in Toggle \cup {None}
      /\ \A k \in Names : (disk[k] = None) = (mtime[k] = 0)
  BY DEF IInv, TypeOK
<1>1. ASSUME UNCHANGED files, UNCHANGED NotAFile, ReloadJobs(disk, mtime),
             toggle' \in Toggle \cup {None}
      PROVE  IInv' /\ NoNewTask
  <2>1. disk' = disk /\ mtime' = mtime /\ writes' = writes
    BY <1>1 DEF files
  <2>2. ReloadJobs(disk', mtime')
    BY <1>1, <2>1
  <2> QED
    BY <1>0, <1>1, <2>1, <2>2, WriterFrameOK
<1>2. CASE ScheduledCommand
  BY <1>0, <1>1, <1>2 DEF ScheduledCommand, files
<1>3. CASE ToggleReloads
  BY <1>1, <1>3 DEF ToggleReloads
<1>4. CASE ToggleWrites
  <2>1. toggle \in Toggle
    BY <1>0, <1>4 DEF ToggleWrites
  <2>2. toggle' \in Toggle /\ toggle.job \in Names /\ toggle.doc \in File
    BY <1>4, <2>1 DEF ToggleWrites, Toggle
  <2> QED
    BY <1>4, <2>2, FileChangeOK DEF ToggleWrites
<1> QED
  BY <1>2, <1>3, <1>4

LEMMA ClockOK == ASSUME IInv, Start \/ Pass \/ UNCHANGED vars PROVE IInv' /\ NoNewTask
<1>1. CASE Start
  <2>1. wake' \in 0 .. Horizon + Minute
    BY <1>1, BoundsAreNumbers DEF Start, IInv, TypeOK, Times
  <2>2. SlotsBehind'
    BY <1>1 DEF Start, IInv, SlotsBehind
  <2> QED
    BY <1>1, <2>1, <2>2 DEF Start, IInv, TypeOK, ConfigOK, StopOrder, NoNewTask
<1>2. CASE Pass
  <2>1. now' \in Times
    BY <1>2, BoundsAreNumbers DEF Pass, IInv, TypeOK, Times
  <2> QED
    BY <1>2, <2>1 DEF Pass, IInv, TypeOK, ConfigOK, StopOrder, SlotsBehind, NoNewTask
<1>3. CASE UNCHANGED vars
  BY <1>3 DEF vars, IInv, TypeOK, ConfigOK, StopOrder, SlotsBehind, NoNewTask
<1> QED
  BY <1>1, <1>2, <1>3

-----------------------------------------------------------------------------
\* Only a tick adds tasks.
LEMMA Step ==
    ASSUME IInv, [Next]_vars
    PROVE  IInv' /\ (Tick \/ NoNewTask)
<1>1. CASE Tick
  BY <1>1, TickOK
<1>2. ASSUME NEW t \in tasks, TaskSteps(t) PROVE IInv' /\ NoNewTask
  BY <1>2, TaskStepsOK
<1>3. CASE StopSteps
  BY <1>3, StopStepsOK
<1>4. CASE Restart
  BY <1>4, RestartOK
<1>5. CASE Writers
  BY <1>5, WritersOK
<1>6. CASE ScheduledCommand \/ ToggleWrites \/ ToggleReloads
  BY <1>6, ReloadersOK
<1>7. CASE Start \/ Pass \/ UNCHANGED vars
  BY <1>7, ClockOK
<1> QED
  BY <1>1, <1>2, <1>3, <1>4, <1>5, <1>6, <1>7 DEF Next

\* The invariant holds throughout, whatever the bounds and the cron tables.
THEOREM Invariance == Spec => []IInv
<1>1. IInv /\ [Next]_vars => IInv'
  BY Step
<1> QED
  BY InitOK, <1>1, PTL DEF Spec

\* Every variable keeps its type.
THEOREM TypeCorrect == Spec => []TypeOK
<1>1. IInv => TypeOK
  BY DEF IInv
<1> QED
  BY Invariance, <1>1, PTL

\* A job never runs twice at a time: _run_job's guard on is_running, with
\* entries that outlive the reload of a running job, is enough.
THEOREM JobsNeverOverlap == Spec => []NoOverlap
<1>1. IInv => NoOverlap
  BY DEF IInv, ConfigOK, NoOverlap
<1> QED
  BY Invariance, <1>1, PTL

\* Every job the tick loop looks at has an entry, whatever reload_jobs() met.
THEOREM NoMissingEntry == Spec => []EntryForEveryJob
<1>1. IInv => EntryForEveryJob
  BY DEF IInv, ConfigOK, EntryForEveryJob
<1> QED
  BY Invariance, <1>1, PTL

\* When stop() has returned, no task is left and the loop is dead.
THEOREM StoppedForGood == Spec => []StopIsFinal
<1>1. IInv => StopIsFinal
  BY DEF IInv, StopOrder, StopIsFinal
<1> QED
  BY Invariance, <1>1, PTL

\* A slot is fired once in a process, however late the ticks and whatever
\* happens to the entry that remembers it.
THEOREM SlotsFireOnce == Spec => OncePerSlot
<1>1. IInv /\ [Next]_vars =>
         [\A t \in tasks' : (\A u \in tasks : <<u.job, u.at>> # <<t.job, t.at>>)
                               => fired'[t.job] > fired[t.job]]_vars
  <2> SUFFICES ASSUME IInv, [Next]_vars, NEW t \in tasks',
                      \A u \in tasks : <<u.job, u.at>> # <<t.job, t.at>>
               PROVE  fired'[t.job] > fired[t.job]
    OBVIOUS
  <2>1. ~ \E u \in tasks : u.job = t.job /\ u.at = t.at
    OBVIOUS
  <2>2. CASE Tick
    BY <2>1, <2>2, TickOK
  <2>3. CASE NoNewTask
    BY <2>1, <2>3 DEF NoNewTask
  <2> QED
    BY <2>2, <2>3, Step
<1> QED
  BY <1>1, Invariance, PTL DEF Spec, OncePerSlot
=============================================================================
