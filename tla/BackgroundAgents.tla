-------------------------- MODULE BackgroundAgents --------------------------
(***************************************************************************)
(* The background agent manager (archon/ai/background_agent_manager.py).   *)
(*                                                                         *)
(* spawn() registers a run and starts a fire-and-forget asyncio task for   *)
(* it.  The task owns an isolated Claude session, an optional beacon task, *)
(* and a name of the shared pool.  Any task of the process may cancel a    *)
(* run at any await; the cancellation is delivered at that await, where    *)
(* the code may be inside its try, a nested finally, an except clause, or  *)
(* -- the hard case -- before its first statement.                         *)
(*                                                                         *)
(* pc[r] names the await at which the task of run r is suspended; a step   *)
(* of the task runs from one await to the next, atomically, as asyncio     *)
(* does.                                                                   *)
(***************************************************************************)
EXTENDS Naturals, FiniteSets

CONSTANTS
    Users,        \* Telegram users
    Runs,         \* run ids that may ever be generated (uuid4: never reused)
    Pool,         \* the names of _AGENT_NAMES
    MaxParallel,  \* max_parallel of the configuration
    BeaconOn,     \* beacon_interval_minutes > 0
    NoUser,       \* owner of a run id not yet generated
    NoName        \* name of a run id not yet generated

ASSUME MaxParallelAssumption == MaxParallel \in Nat
ASSUME RunsAssumption == IsFiniteSet(Runs)
ASSUME BeaconAssumption == BeaconOn \in BOOLEAN
ASSUME NamesAssumption == /\ NoName \notin Pool \cup (Pool \X Runs)
                          /\ Pool \cap (Pool \X Runs) = {}
ASSUME NoUserAssumption == NoUser \notin Users

VARIABLES
    pc,          \* [Runs -> Phases]: the await the task of the run is at
    user,        \* AgentRun.user_id
    name,        \* AgentRun.name
    status,      \* AgentRun.status
    done,        \* the runs whose AgentRun.done event is set
    registered,  \* the keys of _runs
    activeNames, \* _active_names
    cancelReq,   \* runs whose task has a cancellation not yet delivered
    outcome,     \* what the inner finally or an except clause is to continue with
    session,     \* the Claude session (a subprocess) of the run
    beacon,      \* the beacon task of the run
    chat,        \* last message about the run in the user's chat
    notice,      \* the send of the spawn notification, awaited by spawn()
    injected,    \* runs whose completion was injected in the main session
    old,         \* runs started more than _COMPLETED_RUN_TTL_HOURS ago
    shutdown,    \* stop_all(): "no", "waiting" or "over"
    gathered     \* the tasks stop_all() cancelled and waits for

vars == <<pc, user, name, status, done, registered, activeNames, cancelReq,
          outcome, session, beacon, chat, notice, injected, old, shutdown, gathered>>

Phases == {"unborn", "created", "starting", "setup", "streaming", "stopping",
           "logging", "recording", "beaconWait", "notifying", "settling",
           "failing", "ended"}
Statuses == {"running", "completed", "failed", "cancelled"}
Outcomes == {"completed", "failed", "cancelled"}

\* Fallback names carry a fresh uuid suffix: <<pool name, run>>.  The suffix is
\* cut to 24 bits in the code; two equal suffixes are not modelled.
Names == Pool \cup (Pool \X Runs)

Spawned == {r \in Runs : pc[r] # "unborn"}
Unfinished == {r \in Runs : pc[r] \notin {"unborn", "ended"}}
Terminal(r) == status[r] \in {"completed", "failed", "cancelled"}

list_running(u) == {r \in registered : user[r] = u /\ status[r] = "running"}
-----------------------------------------------------------------------------
Init ==
    /\ pc = [r \in Runs |-> "unborn"]
    /\ user = [r \in Runs |-> NoUser]
    /\ name = [r \in Runs |-> NoName]
    /\ status = [r \in Runs |-> "running"]
    /\ done = {}
    /\ registered = {}
    /\ activeNames = {}
    /\ cancelReq = {}
    /\ outcome = [r \in Runs |-> "completed"]
    /\ session = [r \in Runs |-> "none"]
    /\ beacon = [r \in Runs |-> "none"]
    /\ chat = [r \in Runs |-> "nothing"]
    /\ notice = [r \in Runs |-> "none"]
    /\ injected = {}
    /\ old = {}
    /\ shutdown = "no"
    /\ gathered = {}

\* The runs _prune_completed_runs() drops from _runs.
Prunable == {r \in registered : Terminal(r) /\ r \in old}

\* Mutant of NameChoices: no look at the active names.
NameChoicesBlind(r) == Pool

\* The names _assign_name() may return to run r.
NameChoices(r) ==
    IF Pool \subseteq activeNames THEN Pool \X {r} ELSE Pool \ activeNames

\* Mutant of Spawn: the limit is off by one.
SpawnOffByOne(u, r) ==
    /\ pc[r] = "unborn"
    /\ Cardinality(list_running(u)) <= MaxParallel
    /\ \E n \in NameChoices(r) :
         /\ name' = [name EXCEPT ![r] = n]
         /\ activeNames' = activeNames \cup {n}
    /\ pc' = [pc EXCEPT ![r] = "created"]
    /\ user' = [user EXCEPT ![r] = u]
    /\ registered' = (registered \ Prunable) \cup {r}
    /\ notice' = [notice EXCEPT ![r] = "pending"]
    /\ UNCHANGED <<status, done, cancelReq, outcome, session, beacon, chat,
                   injected, old, shutdown, gathered>>

(***************************************************************************)
(* spawn(): prune, check the limit, take a name, create the task, register *)
(* -- no await in between -- then await the spawn notification.            *)
(***************************************************************************)
Spawn(u, r) ==
    /\ pc[r] = "unborn"
    /\ Cardinality(list_running(u)) < MaxParallel
    /\ \E n \in NameChoices(r) :
         /\ name' = [name EXCEPT ![r] = n]
         /\ activeNames' = activeNames \cup {n}
    /\ pc' = [pc EXCEPT ![r] = "created"]
    /\ user' = [user EXCEPT ![r] = u]
    /\ registered' = (registered \ Prunable) \cup {r}
    /\ notice' = [notice EXCEPT ![r] = "pending"]
    /\ UNCHANGED <<status, done, cancelReq, outcome, session, beacon, chat,
                   injected, old, shutdown, gathered>>

\* spawn() prunes before it refuses.
SpawnRefused(u) ==
    /\ Cardinality(list_running(u)) >= MaxParallel
    /\ registered' = registered \ Prunable
    /\ UNCHANGED <<pc, user, name, status, done, activeNames, cancelReq, outcome,
                   session, beacon, chat, notice, injected, old, shutdown, gathered>>

\* _notify_spawn(): the message reaches the chat, or its error is swallowed.
NotifySpawn(r) ==
    /\ notice[r] = "pending"
    /\ notice' = [notice EXCEPT ![r] = "over"]
    /\ \/ chat' = [chat EXCEPT ![r] = "spawned"]
       \/ chat' = chat
    /\ UNCHANGED <<pc, user, name, status, done, registered, activeNames,
                   cancelReq, outcome, session, beacon, injected, old, shutdown, gathered>>

\* A day passes since the run started (running or not).
Age(r) ==
    /\ pc[r] # "unborn"
    /\ r \notin old
    /\ old' = old \cup {r}
    /\ UNCHANGED <<pc, user, name, status, done, registered, activeNames,
                   cancelReq, outcome, session, beacon, chat, notice, injected,
                   shutdown, gathered>>

\* cancel(): whatever the status, a task that has not ended is cancelled.
Cancel(r) ==
    /\ r \in registered
    /\ pc[r] # "ended"
    /\ cancelReq' = cancelReq \cup {r}
    /\ UNCHANGED <<pc, user, name, status, done, registered, activeNames,
                   outcome, session, beacon, chat, notice, injected, old, shutdown, gathered>>

\* The tasks stop_all() cancels and gathers.
StopAllTargets == {r \in registered : status[r] = "running" /\ pc[r] # "ended"}

StopAll ==
    /\ shutdown = "no"
    /\ cancelReq' = cancelReq \cup StopAllTargets
    /\ gathered' = StopAllTargets
    /\ shutdown' = "waiting"
    /\ UNCHANGED <<pc, user, name, status, done, registered, activeNames, outcome,
                   session, beacon, chat, notice, injected, old>>
-----------------------------------------------------------------------------
(* The task of one run: _run_agent().                                      *)

\* The outer finally: release the name, set done.  The task is over.
OuterFinally(r) ==
    /\ pc' = [pc EXCEPT ![r] = "ended"]
    /\ activeNames' = activeNames \ {name[r]}
    /\ done' = done \cup {r}

\* beacon_task is not None and not beacon_task.done()
BeaconPending(r) == beacon[r] \in {"alive", "cancelling"}

StayInside == UNCHANGED <<activeNames, done>>

\* Mutants of Handle: the beacon is left alive; the beacon is awaited without
\* having been cancelled.
HandleLeavesBeacon(r, st) ==
    /\ status' = [status EXCEPT ![r] = st]
    /\ outcome' = [outcome EXCEPT ![r] = st]
    /\ beacon' = beacon
    /\ IF st = "failed"
       THEN pc' = [pc EXCEPT ![r] = "failing"] /\ StayInside
       ELSE OuterFinally(r)
HandleAwaitsLiveBeacon(r, st) ==
    /\ status' = [status EXCEPT ![r] = st]
    /\ outcome' = [outcome EXCEPT ![r] = st]
    /\ beacon' = beacon
    /\ IF BeaconPending(r)
       THEN pc' = [pc EXCEPT ![r] = "settling"] /\ StayInside
       ELSE IF st = "failed"
            THEN pc' = [pc EXCEPT ![r] = "failing"] /\ StayInside
            ELSE OuterFinally(r)

\* except CancelledError / except Exception: set the status, then cancel the
\* beacon and await its end; with no beacon alive, go on at once (on to the
\* failure notification, or out).
Handle(r, st) ==
    /\ status' = [status EXCEPT ![r] = st]
    /\ outcome' = [outcome EXCEPT ![r] = st]
    /\ IF BeaconPending(r)
       THEN /\ beacon' = [beacon EXCEPT ![r] = "cancelling"]
            /\ pc' = [pc EXCEPT ![r] = "settling"]
            /\ StayInside
       ELSE /\ beacon' = beacon
            /\ IF st = "failed"
               THEN pc' = [pc EXCEPT ![r] = "failing"] /\ StayInside
               ELSE OuterFinally(r)

\* The suspended await returns, or raises an Exception: no cancellation pending.
Resumes(r) == r \notin cancelReq /\ cancelReq' = cancelReq

\* CancelledError is raised at the suspended await.
Cancelled(r) == r \in cancelReq /\ cancelReq' = cancelReq \ {r}

TaskFrame == UNCHANGED <<user, name, registered, notice, old, shutdown, gathered>>

\* A task cancelled before its first step never executes a statement of its
\* coroutine: no except clause, no finally.
DieUnstarted(r) ==
    /\ pc[r] = "created"
    /\ Cancelled(r)
    /\ pc' = [pc EXCEPT ![r] = "ended"]
    /\ UNCHANGED <<status, outcome, session, beacon, chat, injected>>
    /\ StayInside
    /\ TaskFrame

Begin(r) ==
    /\ pc[r] = "created"
    /\ Resumes(r)
    /\ pc' = [pc EXCEPT ![r] = "starting"]
    /\ UNCHANGED <<status, outcome, session, beacon, chat, injected>>
    /\ StayInside
    /\ TaskFrame

\* session.start() returns: the subprocess is up.  The awaits that follow load
\* agents.md, the reminder and open the agent's log.
SessionStarted(r) ==
    /\ pc[r] = "starting"
    /\ Resumes(r)
    /\ session' = [session EXCEPT ![r] = "open"]
    /\ pc' = [pc EXCEPT ![r] = "setup"]
    /\ UNCHANGED <<status, outcome, beacon, chat, injected>>
    /\ StayInside
    /\ TaskFrame

\* The beacon is created among the setup awaits, before the log is opened.
StartBeacon(r) ==
    /\ BeaconOn
    /\ pc[r] = "setup"
    /\ beacon[r] = "none"
    /\ Resumes(r)
    /\ beacon' = [beacon EXCEPT ![r] = "alive"]
    /\ UNCHANGED <<pc, status, outcome, session, chat, injected>>
    /\ StayInside
    /\ TaskFrame

SetupDone(r) ==
    /\ pc[r] = "setup"
    /\ BeaconOn => beacon[r] # "none"
    /\ Resumes(r)
    /\ pc' = [pc EXCEPT ![r] = "streaming"]
    /\ UNCHANGED <<status, outcome, session, beacon, chat, injected>>
    /\ StayInside
    /\ TaskFrame

\* An error or a cancellation in start() or in the setup awaits goes straight to
\* the outer handlers: these awaits lie before the inner try.
SetupBreaks(r) ==
    /\ pc[r] \in {"starting", "setup"}
    /\ \/ Cancelled(r) /\ Handle(r, "cancelled")
       \/ Resumes(r) /\ Handle(r, "failed")
    /\ UNCHANGED <<session, chat, injected>>
    /\ TaskFrame

\* The stream ends, breaks or is cancelled: the inner finally runs first.
StreamEnds(r) ==
    /\ pc[r] = "streaming"
    /\ \/ /\ Resumes(r)
          /\ \E o \in {"completed", "failed"} : outcome' = [outcome EXCEPT ![r] = o]
       \/ Cancelled(r) /\ outcome' = [outcome EXCEPT ![r] = "cancelled"]
    /\ pc' = [pc EXCEPT ![r] = "stopping"]
    /\ UNCHANGED <<status, session, beacon, chat, injected>>
    /\ StayInside
    /\ TaskFrame

\* session.stop() closes the subprocess; a CancelledError delivered to it is
\* caught inside ClaudeSession.stop() and goes no further.
SessionStops(r) ==
    /\ pc[r] = "stopping"
    /\ Resumes(r) \/ Cancelled(r)
    /\ session' = [session EXCEPT ![r] = "closed"]
    /\ pc' = [pc EXCEPT ![r] = "logging"]
    /\ UNCHANGED <<status, outcome, beacon, chat, injected>>
    /\ StayInside
    /\ TaskFrame

\* SubagentStopped is logged and the inner finally goes on with its outcome; a
\* cancellation during the log write replaces the outcome.
LeaveInnerFinally(r) ==
    /\ pc[r] = "logging"
    /\ \/ /\ Resumes(r)
          /\ IF outcome[r] = "completed"
             THEN /\ status' = [status EXCEPT ![r] = "completed"]
                  /\ pc' = [pc EXCEPT ![r] = "recording"]
                  /\ UNCHANGED <<outcome, beacon>>
                  /\ StayInside
             ELSE Handle(r, outcome[r])
       \/ Cancelled(r) /\ Handle(r, "cancelled")
    /\ UNCHANGED <<session, chat, injected>>
    /\ TaskFrame

\* Mutant of ResultRecorded: the beacon is left alive.
ResultRecordedLeavesBeacon(r) ==
    /\ pc[r] = "recording"
    /\ Resumes(r)
    /\ pc' = [pc EXCEPT ![r] = "notifying"]
    /\ UNCHANGED <<status, outcome, session, beacon, chat, injected>>
    /\ StayInside
    /\ TaskFrame

\* The result is in the history (errors swallowed): cancel the beacon first.
ResultRecorded(r) ==
    /\ pc[r] = "recording"
    /\ Resumes(r)
    /\ IF BeaconPending(r)
       THEN /\ beacon' = [beacon EXCEPT ![r] = "cancelling"]
            /\ pc' = [pc EXCEPT ![r] = "beaconWait"]
       ELSE beacon' = beacon /\ pc' = [pc EXCEPT ![r] = "notifying"]
    /\ UNCHANGED <<status, outcome, session, chat, injected>>
    /\ StayInside
    /\ TaskFrame

\* suppress(CancelledError): await beacon_task -- it also suppresses a
\* cancellation of the run itself.
BeaconAwaited(r) ==
    /\ pc[r] \in {"beaconWait", "settling"}
    /\ beacon[r] = "dead"
    /\ Resumes(r) \/ Cancelled(r)
    /\ IF pc[r] = "settling" /\ outcome[r] = "cancelled"
       THEN OuterFinally(r)
       ELSE /\ pc' = [pc EXCEPT ![r] =
                        IF pc[r] = "beaconWait" THEN "notifying" ELSE "failing"]
            /\ StayInside
    /\ UNCHANGED <<status, outcome, session, beacon, chat, injected>>
    /\ TaskFrame

\* The final message (or its first part) reaches the chat while the task still
\* awaits the call.
DeliverFinal(r) ==
    /\ pc[r] \in {"notifying", "failing"}
    /\ chat[r] # "finished"
    /\ chat' = [chat EXCEPT ![r] = "finished"]
    /\ UNCHANGED <<pc, status, outcome, session, beacon, injected, cancelReq>>
    /\ StayInside
    /\ TaskFrame

\* _notify_success() swallows its errors; the completion is injected in the main
\* session unless building the message or tracking it raised.
Notified(r) ==
    /\ pc[r] = "notifying"
    /\ Resumes(r)
    /\ \/ injected' = injected \cup {r}
       \/ injected' = injected
    /\ OuterFinally(r)
    /\ UNCHANGED <<status, outcome, session, beacon, chat>>
    /\ TaskFrame

\* Mutant of CompletionCancelled: a failing notification fails the run (F5).
CompletionOrNotificationBreaks(r) ==
    /\ pc[r] \in {"recording", "notifying"}
    /\ \/ Cancelled(r) /\ Handle(r, "cancelled")
       \/ Resumes(r) /\ Handle(r, "failed")
    /\ UNCHANGED <<session, chat, injected>>
    /\ TaskFrame

\* A cancellation after the status was set to "completed".
CompletionCancelled(r) ==
    /\ pc[r] \in {"recording", "notifying"}
    /\ Cancelled(r)
    /\ Handle(r, "cancelled")
    /\ UNCHANGED <<session, chat, injected>>
    /\ TaskFrame

\* The failure is notified and recorded; a cancellation here leaves through the
\* outer finally with the status as it is.
FailureNotified(r) ==
    /\ pc[r] = "failing"
    /\ Resumes(r) \/ Cancelled(r)
    /\ OuterFinally(r)
    /\ UNCHANGED <<status, outcome, session, beacon, chat, injected>>
    /\ TaskFrame

\* _agent_beacon_task(): a message after each interval, until cancelled.
BeaconFires(r) ==
    /\ beacon[r] = "alive"
    /\ chat' = [chat EXCEPT ![r] = "working"]
    /\ UNCHANGED <<pc, status, outcome, session, beacon, injected, cancelReq>>
    /\ StayInside
    /\ TaskFrame

BeaconDies(r) ==
    /\ beacon[r] = "cancelling"
    /\ beacon' = [beacon EXCEPT ![r] = "dead"]
    /\ UNCHANGED <<pc, status, outcome, session, chat, injected, cancelReq>>
    /\ StayInside
    /\ TaskFrame

\* gather() of stop_all() returns when the tasks it cancelled have ended; a run
\* whose status was not "running" at the call is not waited for.
StopAllReturns ==
    /\ shutdown = "waiting"
    /\ gathered \cap Unfinished = {}
    /\ shutdown' = "over"
    /\ UNCHANGED <<pc, user, name, status, done, registered, activeNames, cancelReq,
                   outcome, session, beacon, chat, notice, injected, old, gathered>>

TaskStep(r) ==
    \/ DieUnstarted(r) \/ Begin(r) \/ SessionStarted(r) \/ StartBeacon(r)
    \/ SetupDone(r) \/ SetupBreaks(r) \/ StreamEnds(r) \/ SessionStops(r)
    \/ LeaveInnerFinally(r) \/ ResultRecorded(r) \/ BeaconAwaited(r)
    \/ Notified(r) \/ CompletionCancelled(r) \/ FailureNotified(r)

Next ==
    \/ \E u \in Users, r \in Runs : Spawn(u, r)
    \/ \E u \in Users : SpawnRefused(u)
    \/ \E r \in Runs : \/ TaskStep(r) \/ DeliverFinal(r)
                       \/ BeaconFires(r) \/ BeaconDies(r)
                       \/ NotifySpawn(r) \/ Age(r) \/ Cancel(r)
    \/ StopAll
    \/ StopAllReturns

Spec == Init /\ [][Next]_vars

(***************************************************************************)
(* Fairness.  The event loop resumes every task that can run.  The Claude  *)
(* CLI may never answer: start() and the stream have no timeout here, so   *)
(* nothing makes them end unless the task is cancelled.                    *)
(***************************************************************************)
OwnStep(r) ==
    /\ pc[r] \in {"starting", "streaming"} => r \in cancelReq
    /\ TaskStep(r)

Fairness ==
    /\ \A r \in Runs : WF_vars(OwnStep(r)) /\ WF_vars(BeaconDies(r))
    /\ WF_vars(StopAllReturns)

FairSpec == Spec /\ Fairness
-----------------------------------------------------------------------------
(* Properties                                                              *)

\* Every variable stays within the values the code can give it.
TypeOK ==
    /\ pc \in [Runs -> Phases]
    /\ user \in [Runs -> Users \cup {NoUser}]
    /\ name \in [Runs -> Names \cup {NoName}]
    /\ status \in [Runs -> Statuses]
    /\ done \subseteq Runs
    /\ registered \subseteq Runs
    /\ activeNames \subseteq Names
    /\ cancelReq \subseteq Runs
    /\ outcome \in [Runs -> Outcomes]
    /\ session \in [Runs -> {"none", "open", "closed"}]
    /\ beacon \in [Runs -> {"none", "alive", "cancelling", "dead"}]
    /\ chat \in [Runs -> {"nothing", "spawned", "working", "finished"}]
    /\ notice \in [Runs -> {"none", "pending", "over"}]
    /\ injected \subseteq Runs
    /\ old \subseteq Runs
    /\ shutdown \in {"no", "waiting", "over"}
    /\ gathered \subseteq Runs

\* "Each user can have up to max_parallel concurrent background agents"
\* (module docstring): counted over the live tasks, not over _runs, so a run that
\* pruning forgot too early would break it.
MaxParallelRespected ==
    \A u \in Users :
        Cardinality({r \in Unfinished : user[r] = u /\ status[r] = "running"})
            <= MaxParallel

\* No two runs that still hold their name share it ("to avoid same-name
\* concurrent agents", class docstring), and the set of active names is exactly
\* the names of the runs whose outer finally has not run: none is released
\* early, none is kept by a run that is done.
NamesExact ==
    /\ activeNames = {name[r] : r \in Spawned \ done}
    /\ \A r, s \in Spawned \ done : name[r] = name[s] => r = s

\* Whoever waits for done (the plan executor) reads a settled run: its status is
\* terminal, its beacon cannot send any more and its task is over.
DoneMeansSettled ==
    \A r \in done : /\ Terminal(r)
                    /\ ~BeaconPending(r)
                    /\ pc[r] = "ended"

\* "failures here must NOT reset run.status to failed" (F5): a completed run is
\* never turned into a failed one, a failed or cancelled run keeps its status,
\* and nothing changes once done is set.
StatusFinal ==
    [][\A r \in Runs :
          /\ status[r] = "completed" => status'[r] \in {"completed", "cancelled"}
          /\ status[r] \in {"failed", "cancelled"} => status'[r] = status[r]
          /\ r \in done => status'[r] = status[r] /\ r \in done']_vars

\* "Cancel beacon before sending the completion notification so no stale working
\* message arrives after" it: once the final message was delivered, the last
\* word of the chat is never a beacon's.
NoBeaconAfterFinal ==
    [][\A r \in Runs : chat[r] = "finished" => chat'[r] # "working"]_vars

\* stop_all() returns, whatever the runs are doing when it is called.
StopAllCompletes == (shutdown = "waiting") ~> (shutdown = "over")
-----------------------------------------------------------------------------
(* The abstract view: a run occupies a slot as long as its status says     *)
(* "running" -- a run cancelled before its first step occupies it for good *)
(* -- and holds its name until its outer finally.                          *)
Slots == INSTANCE AgentSlots
         WITH owner <- user,
              slot  <- {r \in Spawned : status[r] = "running"},
              held  <- {<<r, name[r]>> : r \in Spawned \ done}

\* The manager implements the slot and name discipline of AgentSlots, through
\* every interleaving of cancellation, failure and completion.
ImplementsSlots == Slots!SlotsSpec

=============================================================================
