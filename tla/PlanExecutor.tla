---------------------------- MODULE PlanExecutor ----------------------------
(***************************************************************************)
(* The execution of a plan: archon/ai/plan_executor.py, from the pipeline  *)
(* that announces the plan (_yield_plan) to the final summary.  The runs   *)
(* are those of the background agent manager (BackgroundAgents), of which  *)
(* this module keeps what the executor sees: status, done, the limit on    *)
(* running agents, cancellation, and a run cancelled before its first step,*)
(* which is never done.                                                    *)
(***************************************************************************)
EXTENDS AgentPlan

CONSTANTS
    Plans,        \* the plans the router may produce
    MaxParallel,  \* max_parallel_agents
    MaxOthers     \* bound: running agents of the user outside the plan

ASSUME MaxParallelAssumption == MaxParallel \in Nat \ {0}
ASSUME PlansAssumption == \A p \in Plans : IsPlan(p)

VARIABLES
    plan,
    phase,      \* the await the pipeline, then the executor, is at
    waves,      \* the waves of topological_sort, once sorted: sets of agents
    wave,       \* the index of the wave being executed
    todo,       \* agents of the wave still to be spawned
    waveRuns,   \* agents of the wave that were spawned
    status,     \* agent -> the status of its run
    begun,      \* runs whose task has begun
    cancelReq,  \* runs with a cancellation not yet delivered
    done,       \* runs whose done event is set
    failed,     \* failed_ids
    skipped,    \* skipped_ids
    others,     \* running agents of the user outside the plan
    outcome     \* how it ended: what the user is told

execVars == <<phase, wave, todo, waveRuns, failed, skipped, outcome>>
runVars == <<status, begun, cancelReq, done>>
vars == <<plan, waves, phase, wave, todo, waveRuns, status, begun, cancelReq, done, failed,
          skipped, others, outcome>>

Spawned == {a \in Ids(plan) : status[a] # "none"}
Running == {a \in Ids(plan) : status[a] = "running"}

Init ==
    /\ plan \in Plans
    /\ waves = <<>>
    /\ phase = "routed"
    /\ wave = 1
    /\ todo = {}
    /\ waveRuns = {}
    /\ status = [a \in Ids(plan) |-> "none"]
    /\ begun = {} /\ cancelReq = {} /\ done = {}
    /\ failed = {} /\ skipped = {}
    /\ others = 0
    /\ outcome = [told |-> "nothing"]
-----------------------------------------------------------------------------
(* The pipeline and the executor.                                          *)

\* _yield_plan() sorts the plan only to count its waves: ValueError counts as no
\* wave, a KeyError leaves send() and the handler reports it.
YieldPlan ==
    /\ phase = "routed"
    /\ IF TopologicalSort(plan).result = "KeyError"
       THEN phase' = "ended" /\ outcome' = [told |-> "error"]
       ELSE phase' = "announcing" /\ UNCHANGED outcome
    /\ UNCHANGED <<plan, waves, wave, todo, waveRuns, failed, skipped, runVars, others>>

\* The plan is announced (an await), then sorted again.
StartPlan ==
    /\ phase = "announcing"
    /\ LET sort == TopologicalSort(plan) IN
         IF sort.result = "ok"
         THEN phase' = "wave" /\ waves' = sort.waves /\ UNCHANGED outcome
         ELSE phase' = "ended" /\ outcome' = [told |-> "aborted"] /\ UNCHANGED waves
    /\ UNCHANGED <<plan, wave, todo, waveRuns, failed, skipped, runVars, others>>

\* Mutant of ShouldSkip: an agent is skipped only after a failed dependency.
ShouldSkipFailed(a) == DependsOn(plan, a) \cap failed # {}

ShouldSkip(a) == DependsOn(plan, a) \cap (failed \cup skipped) # {}

BeginWave ==
    /\ phase = "wave"
    /\ wave \in DOMAIN waves
    /\ todo' = {a \in waves[wave] : ~ShouldSkip(a)}
    /\ skipped' = skipped \cup {a \in waves[wave] : ShouldSkip(a)}
    /\ phase' = "spawning"
    /\ UNCHANGED <<plan, waves, wave, waveRuns, failed, outcome, runVars, others>>

\* bam.spawn(), for one agent of the wave after the other (the queue's order is left
\* open): RuntimeError when the user has MaxParallel running agents.
Spawn ==
    /\ phase = "spawning"
    /\ \E a \in todo :
         /\ todo' = todo \ {a}
         /\ IF Cardinality(Running) + others >= MaxParallel
            THEN failed' = failed \cup {a} /\ UNCHANGED <<status, waveRuns>>
            ELSE /\ status' = [status EXCEPT ![a] = "running"]
                 /\ waveRuns' = waveRuns \cup {a}
                 /\ UNCHANGED failed
    /\ UNCHANGED <<plan, waves, phase, wave, skipped, outcome, begun, cancelReq, done, others>>

\* Mutant of WaveOver: one finished run is enough.
WaveOverAny == waveRuns = {} \/ waveRuns \cap done # {}

\* gather() of all the done events of the wave
WaveOver == waveRuns \subseteq done

EndWave ==
    /\ phase = "spawning"
    /\ todo = {}
    /\ WaveOver
    /\ failed' = failed \cup {a \in waveRuns : status[a] = "failed"}
    /\ wave' = wave + 1
    /\ waveRuns' = {}
    /\ phase' = "wave"
    /\ UNCHANGED <<plan, waves, todo, skipped, outcome, runVars, others>>

\* bam.cancel() of every run of the wave that is not done.
CancelUndone == cancelReq' = cancelReq \cup (waveRuns \ done)

\* Mutant of WaveTimesOut: the wave is cancelled and waited for.
WaveTimesOutWaits ==
    /\ phase = "spawning"
    /\ todo = {}
    /\ ~WaveOver
    /\ CancelUndone
    /\ UNCHANGED <<plan, waves, phase, wave, todo, waveRuns, failed, skipped, outcome, status, begun, done, others>>

\* MAX_WAVE_TIMEOUT: the wave is cancelled and the plan aborted.
WaveTimesOut ==
    /\ phase = "spawning"
    /\ todo = {}
    /\ ~WaveOver
    /\ CancelUndone
    /\ phase' = "ended"
    /\ outcome' = [told |-> "timeout"]
    /\ UNCHANGED <<plan, waves, wave, todo, waveRuns, failed, skipped, status, begun, done, others>>

\* The final summary.
Finish ==
    /\ phase = "wave"
    /\ wave \notin DOMAIN waves
    /\ phase' = "ended"
    /\ outcome' = [told      |-> "completed",
                   succeeded |-> Cardinality({a \in Spawned : status[a] = "completed"}),
                   cancelled |-> Cardinality({a \in Spawned : status[a] = "cancelled"}),
                   failed    |-> Cardinality(failed),
                   skipped   |-> Cardinality(skipped)]
    /\ UNCHANGED <<plan, waves, wave, todo, waveRuns, failed, skipped, runVars, others>>

\* Recording the start or the end of a wave in the history raises: execute()
\* tells the user and leaves.
Crash ==
    /\ phase = "wave"
    /\ waves # <<>>
    /\ phase' = "ended"
    /\ outcome' = [told |-> "crashed"]
    /\ UNCHANGED <<plan, waves, wave, todo, waveRuns, failed, skipped, runVars, others>>
-----------------------------------------------------------------------------
(* The runs, as BackgroundAgents has them.                                 *)

RunBegins(a) ==
    /\ a \in Running \ begun
    /\ a \notin cancelReq
    /\ begun' = begun \cup {a}
    /\ UNCHANGED <<plan, waves, execVars, status, cancelReq, done, others>>

\* /stop: a task cancelled before its first step never runs.
UserCancels(a) ==
    /\ a \in Spawned \ done
    /\ cancelReq' = cancelReq \cup {a}
    /\ UNCHANGED <<plan, waves, execVars, status, begun, done, others>>

RunEnds(a) ==
    /\ a \in Running \cap begun
    /\ \/ status' = [status EXCEPT ![a] = "completed"] /\ cancelReq' = cancelReq
       \/ status' = [status EXCEPT ![a] = "failed"] /\ cancelReq' = cancelReq
       \/ a \in cancelReq /\ cancelReq' = cancelReq \ {a}
          /\ status' = [status EXCEPT ![a] = "cancelled"]
    /\ UNCHANGED <<plan, waves, execVars, begun, done, others>>

\* The outer finally; a late cancellation turns a completed run into a cancelled one.
RunDone(a) ==
    /\ a \in (Spawned \cap begun) \ (Running \cup done)
    /\ done' = done \cup {a}
    /\ \/ status' = status
       \/ a \in cancelReq /\ status[a] = "completed"
          /\ status' = [status EXCEPT ![a] = "cancelled"]
    /\ UNCHANGED <<plan, waves, execVars, begun, cancelReq, others>>

\* The user's other agents: they matter to the plan only while it is executed.
OtherSpawns ==
    /\ others < MaxOthers
    /\ Cardinality(Running) + others < MaxParallel
    /\ phase \notin {"routed", "ended"}
    /\ others' = others + 1
    /\ UNCHANGED <<plan, waves, execVars, runVars>>

OtherEnds ==
    /\ others > 0
    /\ phase # "ended"
    /\ others' = others - 1
    /\ UNCHANGED <<plan, waves, execVars, runVars>>

Executor ==
    \/ YieldPlan \/ StartPlan \/ BeginWave \/ Spawn \/ EndWave \/ WaveTimesOut \/ Finish

Next ==
    \/ Executor
    \/ Crash
    \/ \E a \in Ids(plan) : RunBegins(a) \/ UserCancels(a) \/ RunEnds(a) \/ RunDone(a)
    \/ OtherSpawns
    \/ OtherEnds

Spec == Init /\ [][Next]_vars

(***************************************************************************)
(* Fairness: the executor is a task and its timeout a timer; it need not   *)
(* crash.  A run may go on for ever, but a begun run that is cancelled, or *)
(* whose status is terminal, ends (as in BackgroundAgents).                *)
(***************************************************************************)
Fairness ==
    /\ WF_vars(Executor)
    /\ \A a \in UNION {Ids(p) : p \in Plans} :
         /\ WF_vars(a \in Ids(plan) /\ a \in cancelReq /\ RunEnds(a))
         /\ WF_vars(a \in Ids(plan) /\ RunBegins(a))
         /\ WF_vars(a \in Ids(plan) /\ RunDone(a))

FairSpec == Spec /\ Fairness
-----------------------------------------------------------------------------
(* The waves have each agent of the plan once, after the waves of all its  *)
(* dependencies and directly after one of them: none waits longer than it  *)
(* must.                                                                   *)
Sorts(p, order) ==
    /\ \E n \in 0 .. Len(p) : DOMAIN order = 1 .. n
    /\ UNION {order[w] : w \in DOMAIN order} = Ids(p)
    /\ \A v, w \in DOMAIN order : order[v] \cap order[w] # {} => v = w
    /\ \A a \in Ids(p) :
         LET before == {WaveOf(order, b) : b \in DependsOn(p, a)}
             own == WaveOf(order, a)
         IN /\ \A w \in before : w < own
            /\ own > 1 => own - 1 \in before

SortCorrect(p) ==
    LET sort == TopologicalSort(p)
    IN /\ sort.result = "ok" <=> Executable(p)
       /\ ValidateDependencyGraph(p) <=> Executable(p)
       /\ sort.result = "ok" => Sorts(p, sort.waves)

(***************************************************************************)
(* topological_sort() is right: it answers with waves, and they sort the   *)
(* plan, exactly for the plans that can be executed, which are those       *)
(* validate_dependency_graph() accepts.                                    *)
(***************************************************************************)
WavesCorrect == phase = "routed" => SortCorrect(plan)

(***************************************************************************)
(* An agent is spawned only when each of its dependencies has a run that is*)
(* done and did not fail, so that its upstream logs are complete when it   *)
(* reads them.  The dependencies being spawned themselves, this holds of   *)
(* the remote ones too.                                                    *)
(***************************************************************************)
UpstreamsSettled ==
    \A a \in Spawned : \A b \in DependsOn(plan, a) :
        b \in done /\ status[b] \in {"completed", "cancelled"}

(***************************************************************************)
(* The final summary tells the truth: exactly the agents that depend,      *)
(* directly or not, on a failed one are skipped ("skip dependents          *)
(* transitively"), and its counts account for every agent of the plan once.*)
(***************************************************************************)
ReportExact ==
    outcome.told = "completed" =>
        /\ skipped = {a \in Ids(plan) : Ancestors(plan, a) \cap failed # {}}
        /\ outcome.succeeded + outcome.cancelled + outcome.failed + outcome.skipped
             = Len(plan)

(***************************************************************************)
(* The plan comes to its end whatever its runs do: a hung run, or one that *)
(* was cancelled before its first step and is never done, costs one wave   *)
(* timeout.                                                                *)
(***************************************************************************)
PlanEnds == (phase = "routed") ~> (phase = "ended")
=============================================================================
