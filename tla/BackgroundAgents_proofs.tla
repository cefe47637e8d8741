----------------------- MODULE BackgroundAgents_proofs -----------------------
(***************************************************************************)
(* Proofs about BackgroundAgents, for every number of users, runs, names   *)
(* and slots.  The inductive invariant IInv adds to the typing what each   *)
(* phase implies of the status, where names come from, and that a run with *)
(* status "running" is never pruned; StepShape then reduces the fourteen   *)
(* actions of a task to the few effects the theorems depend on.            *)
(***************************************************************************)
EXTENDS BackgroundAgents, FiniteSetTheorems, TLAPS

\* The domains of the variables the invariant constrains.
Typed ==
    /\ pc \in [Runs -> Phases]
    /\ user \in [Runs -> Users \cup {NoUser}]
    /\ name \in [Runs -> Names \cup {NoName}]
    /\ status \in [Runs -> Statuses]
    /\ outcome \in [Runs -> Outcomes]
    /\ done \subseteq Runs
    /\ registered \subseteq Spawned

\* What the phase of a run's task implies of its status.
PhaseStatus(r) ==
    /\ pc[r] \in {"unborn", "created", "starting", "setup", "streaming",
                  "stopping", "logging"} => status[r] = "running"
    /\ pc[r] \in {"recording", "beaconWait", "notifying"} => status[r] = "completed"
    /\ pc[r] = "settling" => status[r] = outcome[r] /\ outcome[r] # "completed"
    /\ pc[r] = "failing" => status[r] = "failed"
    /\ r \in done => pc[r] = "ended" /\ Terminal(r)
    /\ pc[r] = "ended" /\ Terminal(r) => r \in done

\* Where names and owners come from.
Ownership(r) ==
    /\ pc[r] = "unborn" => user[r] = NoUser
    /\ pc[r] # "unborn" => user[r] \in Users /\ name[r] \in Pool \cup (Pool \X {r})

\* A run that counts against the limit is in _runs, where the limit is checked.
RunningRegistered ==
    \A r \in Spawned : status[r] = "running" => r \in registered

SlotsOf(u) == {r \in Spawned : user[r] = u /\ status[r] = "running"}

SlotsBounded == \A u \in Users : Cardinality(SlotsOf(u)) <= MaxParallel

IInv ==
    /\ Typed
    /\ \A r \in Runs : PhaseStatus(r)
    /\ \A r \in Runs : Ownership(r)
    /\ RunningRegistered
    /\ NamesExact
    /\ SlotsBounded
-----------------------------------------------------------------------------
\* What one step of a task can do to the state the invariant speaks of.
Shape(r) ==
    /\ pc[r] \notin {"unborn", "ended"}
    /\ \E p \in Phases \ {"unborn"} : pc' = [pc EXCEPT ![r] = p]
    /\ \E s \in Statuses : /\ status' = [status EXCEPT ![r] = s]
                           /\ s = "running" => status[r] = "running"
    /\ outcome' \in [Runs -> Outcomes]
    /\ UNCHANGED <<user, name, registered>>
    /\ PhaseStatus(r)'
    /\ \/ done' = done /\ activeNames' = activeNames
       \/ /\ done' = done \cup {r}
          /\ activeNames' = activeNames \ {name[r]}
          /\ status'[r] # "running"
    /\ \A q \in Runs \ {r} : outcome'[q] = outcome[q]

\* Every action of a task has that shape.
LEMMA StepShape ==
    ASSUME NEW r \in Runs, IInv, TaskStep(r)
    PROVE  Shape(r)
<1> USE DEF IInv, Typed
<1>0. PhaseStatus(r)
  OBVIOUS
<1>1. CASE DieUnstarted(r)
  BY <1>0, <1>1 DEF DieUnstarted, Shape, PhaseStatus, Phases, Statuses, Outcomes,
     Terminal, TaskFrame, StayInside
<1>2. CASE Begin(r)
  BY <1>0, <1>2 DEF Begin, Shape, PhaseStatus, Phases, Statuses, Outcomes,
     Terminal, TaskFrame, StayInside
<1>3. CASE SessionStarted(r)
  BY <1>0, <1>3 DEF SessionStarted, Shape, PhaseStatus, Phases, Statuses, Outcomes,
     Terminal, TaskFrame, StayInside
<1>4. CASE StartBeacon(r)
  <2>1. pc' = [pc EXCEPT ![r] = "setup"] /\ status' = [status EXCEPT ![r] = "running"]
    BY <1>0, <1>4 DEF StartBeacon, PhaseStatus
  <2> QED
    BY <1>0, <1>4, <2>1 DEF StartBeacon, Shape, PhaseStatus, Phases, Statuses, Outcomes,
       Terminal, TaskFrame, StayInside
<1>5. CASE SetupDone(r)
  BY <1>0, <1>5 DEF SetupDone, Shape, PhaseStatus, Phases, Statuses, Outcomes,
     Terminal, TaskFrame, StayInside
<1>6. CASE StreamEnds(r)
  <2>1. \E o \in {"completed", "failed", "cancelled"} : outcome' = [outcome EXCEPT ![r] = o]
    BY <1>6 DEF StreamEnds
  <2>2. PICK o \in {"completed", "failed", "cancelled"} : outcome' = [outcome EXCEPT ![r] = o]
    BY <2>1
  <2>3. /\ pc[r] = "streaming" /\ pc' = [pc EXCEPT ![r] = "stopping"]
        /\ status' = [status EXCEPT ![r] = status[r]] /\ status[r] = "running"
    BY <1>0, <1>6 DEF StreamEnds, PhaseStatus
  <2>4. PhaseStatus(r)' /\ outcome' \in [Runs -> Outcomes]
    BY <1>0, <1>6, <2>2, <2>3 DEF StreamEnds, PhaseStatus, Phases, Outcomes, StayInside
  <2> QED
    BY <1>6, <2>2, <2>3, <2>4 DEF StreamEnds, Shape, Phases, Statuses, TaskFrame, StayInside
<1>7. CASE SessionStops(r)
  BY <1>0, <1>7 DEF SessionStops, Shape, PhaseStatus, Phases, Statuses, Outcomes,
     Terminal, TaskFrame, StayInside
<1>8. ASSUME NEW st \in {"failed", "cancelled"}, Handle(r, st), TaskFrame,
             pc[r] \notin {"unborn", "ended", "failing", "settling"}
      PROVE  Shape(r)
  <2>1. CASE BeaconPending(r)
    BY <1>0, <1>8, <2>1 DEF Handle, Shape, PhaseStatus, Phases, Statuses, Outcomes,
       Terminal, TaskFrame, StayInside
  <2>2. CASE ~BeaconPending(r) /\ st = "failed"
    BY <1>0, <1>8, <2>2 DEF Handle, Shape, PhaseStatus, Phases, Statuses, Outcomes,
       Terminal, TaskFrame, StayInside
  <2>3. CASE ~BeaconPending(r) /\ st = "cancelled"
    BY <1>0, <1>8, <2>3 DEF Handle, Shape, PhaseStatus, Phases, Statuses, Outcomes,
       Terminal, TaskFrame, OuterFinally
  <2> QED
    BY <1>8, <2>1, <2>2, <2>3
<1>9. CASE SetupBreaks(r)
  BY <1>8, <1>9 DEF SetupBreaks
<1>10. CASE LeaveInnerFinally(r)
  <2>1. CASE Resumes(r) /\ outcome[r] = "completed"
    BY <1>0, <1>10, <2>1 DEF LeaveInnerFinally, Resumes, Cancelled, Shape, PhaseStatus,
       Phases, Statuses, Outcomes, Terminal, TaskFrame, StayInside
  <2>2. CASE Resumes(r) /\ outcome[r] # "completed"
    <3>1. outcome[r] \in {"failed", "cancelled"}
      BY <2>2 DEF Outcomes
    <3>2. Handle(r, outcome[r]) /\ TaskFrame /\ pc[r] = "logging"
      BY <1>10, <2>2 DEF LeaveInnerFinally, Resumes, Cancelled
    <3> QED
      BY <1>8, <3>1, <3>2
  <2>3. CASE Cancelled(r)
    BY <1>8, <1>10, <2>3 DEF LeaveInnerFinally, Resumes, Cancelled
  <2> QED
    BY <1>10, <2>1, <2>2, <2>3 DEF LeaveInnerFinally
<1>11. CASE ResultRecorded(r)
  <2>1. \E p \in {"beaconWait", "notifying"} : pc' = [pc EXCEPT ![r] = p]
    BY <1>11 DEF ResultRecorded
  <2>2. status' = [status EXCEPT ![r] = "completed"]
    BY <1>0, <1>11 DEF ResultRecorded, PhaseStatus
  <2> QED
    BY <1>0, <1>11, <2>1, <2>2 DEF ResultRecorded, Shape, PhaseStatus, Phases, Statuses,
       Outcomes, Terminal, TaskFrame, StayInside
<1>12. CASE BeaconAwaited(r)
  <2>1. CASE pc[r] = "settling" /\ outcome[r] = "cancelled"
    BY <1>0, <1>12, <2>1 DEF BeaconAwaited, Shape, PhaseStatus, Phases, Statuses,
       Outcomes, Terminal, TaskFrame, OuterFinally
  <2>2. CASE pc[r] = "settling" /\ outcome[r] # "cancelled"
    BY <1>0, <1>12, <2>2 DEF BeaconAwaited, Shape, PhaseStatus, Phases, Statuses,
       Outcomes, Terminal, TaskFrame, StayInside
  <2>3. CASE pc[r] = "beaconWait"
    BY <1>0, <1>12, <2>3 DEF BeaconAwaited, Shape, PhaseStatus, Phases, Statuses,
       Outcomes, Terminal, TaskFrame, StayInside
  <2> QED
    BY <1>12, <2>1, <2>2, <2>3 DEF BeaconAwaited
<1>13. CASE Notified(r)
  BY <1>0, <1>13 DEF Notified, Shape, PhaseStatus, Phases, Statuses, Outcomes,
     Terminal, TaskFrame, OuterFinally
<1>14. CASE CompletionCancelled(r)
  BY <1>8, <1>14 DEF CompletionCancelled
<1>15. CASE FailureNotified(r)
  BY <1>0, <1>15 DEF FailureNotified, Shape, PhaseStatus, Phases, Statuses, Outcomes,
     Terminal, TaskFrame, OuterFinally
<1> QED
  BY <1>1, <1>2, <1>3, <1>4, <1>5, <1>6, <1>7, <1>9, <1>10, <1>11, <1>12, <1>13,
     <1>14, <1>15 DEF TaskStep
-----------------------------------------------------------------------------
LEMMA InitIInv == Init => IInv
<1> SUFFICES ASSUME Init PROVE IInv
  OBVIOUS
<1> USE DEF Init
<1>1. Spawned = {}
  BY DEF Spawned
<1>2. Typed
  BY <1>1 DEF Typed, Phases, Statuses, Outcomes
<1>3. \A r \in Runs : PhaseStatus(r)
  BY DEF PhaseStatus
<1>4. \A r \in Runs : Ownership(r)
  BY DEF Ownership
<1>5. RunningRegistered /\ NamesExact
  BY <1>1 DEF RunningRegistered, NamesExact
<1>6. SlotsBounded
  <2>1. \A u \in Users : SlotsOf(u) = {}
    BY <1>1 DEF SlotsOf
  <2> QED
    BY <2>1, FS_EmptySet, MaxParallelAssumption DEF SlotsBounded
<1> QED
  BY <1>2, <1>3, <1>4, <1>5, <1>6 DEF IInv

\* The slots of a user are a finite set.
LEMMA SlotsFinite ==
    ASSUME NEW u \in Users
    PROVE  IsFiniteSet(SlotsOf(u))
BY RunsAssumption, FS_Subset DEF SlotsOf, Spawned

\* What spawn() counts is what the limit is about.
LEMMA ListRunningIsSlots ==
    ASSUME IInv, NEW u \in Users
    PROVE  list_running(u) = SlotsOf(u)
BY DEF IInv, Typed, RunningRegistered, list_running, SlotsOf, Spawned

\* A name given to a new run is held by no other.
LEMMA FreshName ==
    ASSUME IInv, NEW r \in Runs, pc[r] = "unborn", NEW n \in NameChoices(r),
           NEW s \in Spawned \ done
    PROVE  name[s] # n
<1>1. name[s] \in activeNames
  BY DEF IInv, NamesExact
<1>2. CASE n \in Pool \ activeNames
  BY <1>1, <1>2
<1>3. CASE n \in Pool \X {r}
  <2>1. s # r /\ name[s] \in Pool \cup (Pool \X {s})
    BY DEF Spawned, IInv, Ownership
  <2>2. n \notin Pool
    BY <1>3, NamesAssumption
  <2>3. n \notin Pool \X {s}
    BY <1>3, <2>1
  <2> QED
    BY <2>1, <2>2, <2>3
<1> QED
  BY <1>2, <1>3 DEF NameChoices

\* spawn() preserves the invariant.
LEMMA SpawnStep ==
    ASSUME IInv, NEW u \in Users, NEW r \in Runs, Spawn(u, r)
    PROVE  IInv'
<1> USE DEF IInv
<1>1. PICK n \in NameChoices(r) : /\ name' = [name EXCEPT ![r] = n]
                                  /\ activeNames' = activeNames \cup {n}
  BY DEF Spawn
<1>2. n \in Names /\ n \in Pool \cup (Pool \X {r})
  BY DEF NameChoices, Names
<1>3. Spawned' = Spawned \cup {r} /\ r \notin Spawned
  BY DEF Spawn, Spawned, Typed
<1>4. Typed'
  BY <1>1, <1>2, <1>3 DEF Typed, Spawn, Phases, Prunable
<1>5. \A q \in Runs : PhaseStatus(q)'
  BY DEF Spawn, PhaseStatus, Typed, Terminal
<1>6. \A q \in Runs : Ownership(q)'
  BY <1>1, <1>2 DEF Spawn, Ownership, Typed
<1>7. RunningRegistered'
  BY <1>3 DEF Spawn, RunningRegistered, Prunable, Terminal
<1>8. NamesExact'
  <2>1. r \notin done
    BY DEF Spawn, PhaseStatus
  <2>2. (Spawned \ done)' = (Spawned \ done) \cup {r}
    BY <1>3, <2>1 DEF Spawn
  <2>3. name'[r] = n /\ \A s \in Spawned \ done : name'[s] = name[s] /\ s # r
    BY <1>1, <1>3 DEF Typed, Spawned
  <2>4. activeNames' = {name'[q] : q \in (Spawned \ done)'}
    BY <1>1, <2>2, <2>3 DEF NamesExact
  <2>5. \A s, q \in (Spawned \ done)' : name'[s] = name'[q] => s = q
    BY <2>2, <2>3, FreshName DEF NamesExact, Spawn
  <2> QED
    BY <2>4, <2>5 DEF NamesExact
<1>9. SlotsBounded'
  <2> SUFFICES ASSUME NEW v \in Users PROVE Cardinality(SlotsOf(v)') <= MaxParallel
    BY DEF SlotsBounded
  <2>1. CASE v = u
    <3>1. Cardinality(SlotsOf(u)) < MaxParallel
      BY ListRunningIsSlots DEF Spawn
    <3>2. SlotsOf(u)' = SlotsOf(u) \cup {r} /\ r \notin SlotsOf(u)
      BY <1>3 DEF SlotsOf, Spawn, Typed, PhaseStatus, Spawned
    <3>3. Cardinality(SlotsOf(u)') = Cardinality(SlotsOf(u)) + 1
      BY <3>2, SlotsFinite, FS_AddElement
    <3>4. Cardinality(SlotsOf(u)) \in Nat
      BY SlotsFinite, FS_CardinalityType
    <3> QED
      BY <2>1, <3>1, <3>3, <3>4, MaxParallelAssumption
  <2>2. CASE v # u
    <3>1. SlotsOf(v)' = SlotsOf(v)
      BY <1>3, <2>2 DEF SlotsOf, Spawn, Typed, Spawned
    <3> QED
      BY <3>1 DEF SlotsBounded
  <2> QED
    BY <2>1, <2>2
<1> QED
  BY <1>4, <1>5, <1>6, <1>7, <1>8, <1>9

\* Every step of a task preserves the invariant.
LEMMA TaskPreserves ==
    ASSUME IInv, NEW r \in Runs, TaskStep(r)
    PROVE  IInv'
<1>0. Shape(r)
  BY StepShape
<1> USE DEF IInv
<1>1. PICK p \in Phases \ {"unborn"}, s \in Statuses :
        /\ pc' = [pc EXCEPT ![r] = p]
        /\ status' = [status EXCEPT ![r] = s]
        /\ s = "running" => status[r] = "running"
  BY <1>0 DEF Shape
<1>2. Spawned' = Spawned /\ r \in Spawned
  BY <1>0, <1>1 DEF Shape, Typed, Spawned
<1>3. Typed'
  BY <1>0, <1>1, <1>2 DEF Shape, Typed, Phases
<1>4. \A q \in Runs : PhaseStatus(q)'
  <2> SUFFICES ASSUME NEW q \in Runs \ {r} PROVE PhaseStatus(q)'
    BY <1>0 DEF Shape
  <2>1. pc'[q] = pc[q] /\ status'[q] = status[q] /\ outcome'[q] = outcome[q]
    BY <1>0, <1>1 DEF Typed, Shape
  <2>2. (q \in done') = (q \in done)
    BY <1>0 DEF Shape
  <2> QED
    BY <2>1, <2>2 DEF PhaseStatus, Terminal
<1>5. \A q \in Runs : Ownership(q)'
  BY <1>0, <1>1 DEF Shape, Ownership, Typed
<1>6. RunningRegistered'
  BY <1>0, <1>1, <1>2 DEF Shape, RunningRegistered, Typed, Spawned
<1>7. NamesExact'
  <2>1. CASE done' = done /\ activeNames' = activeNames
    BY <1>0, <1>2, <2>1 DEF Shape, NamesExact
  <2>2. CASE done' = done \cup {r} /\ activeNames' = activeNames \ {name[r]}
    <3>1. r \in Spawned \ done
      BY <1>0, <1>2 DEF Shape, PhaseStatus
    <3>2. (Spawned \ done)' = (Spawned \ done) \ {r}
      BY <1>2, <2>2
    <3> QED
      BY <1>0, <2>2, <3>1, <3>2 DEF Shape, NamesExact
  <2> QED
    BY <1>0, <2>1, <2>2 DEF Shape
<1>8. SlotsBounded'
  <2> SUFFICES ASSUME NEW u \in Users PROVE Cardinality(SlotsOf(u)') <= MaxParallel
    BY DEF SlotsBounded
  <2>1. SlotsOf(u)' \subseteq SlotsOf(u)
    BY <1>0, <1>1, <1>2 DEF Shape, SlotsOf, Typed, Spawned
  <2>2. /\ Cardinality(SlotsOf(u)') <= Cardinality(SlotsOf(u))
        /\ Cardinality(SlotsOf(u)) \in Nat
        /\ Cardinality(SlotsOf(u)') \in Nat
    BY <2>1, SlotsFinite, FS_Subset, FS_CardinalityType
  <2> QED
    BY <2>2, MaxParallelAssumption DEF SlotsBounded
<1> QED
  BY <1>3, <1>4, <1>5, <1>6, <1>7, <1>8

\* The variables of IInv that the remaining actions leave alone.
IVars == <<pc, user, name, status, outcome, done, activeNames>>

\* A step that at most drops settled runs from _runs preserves the invariant.
LEMMA QuietPreserves ==
    ASSUME IInv, UNCHANGED IVars,
           registered' = registered \/ registered' = registered \ Prunable
    PROVE  IInv'
<1> USE DEF IInv, IVars
<1>1. Spawned' = Spawned
  BY DEF Spawned
<1>2. Typed'
  BY <1>1 DEF Typed
<1>3. \A q \in Runs : PhaseStatus(q)' /\ Ownership(q)'
  BY DEF PhaseStatus, Ownership, Terminal
<1>4. RunningRegistered'
  BY <1>1 DEF RunningRegistered, Prunable, Terminal
<1>5. NamesExact'
  BY <1>1 DEF NamesExact
<1>6. \A u \in Users : SlotsOf(u)' = SlotsOf(u)
  BY <1>1 DEF SlotsOf
<1>7. SlotsBounded'
  BY <1>6 DEF SlotsBounded
<1> QED
  BY <1>2, <1>3, <1>4, <1>5, <1>7

LEMMA NextIInv == IInv /\ [Next]_vars => IInv'
<1> SUFFICES ASSUME IInv, [Next]_vars PROVE IInv'
  OBVIOUS
<1>1. ASSUME NEW u \in Users, NEW r \in Runs, Spawn(u, r) PROVE IInv'
  BY <1>1, SpawnStep
<1>2. ASSUME NEW u \in Users, SpawnRefused(u) PROVE IInv'
  BY <1>2, QuietPreserves DEF SpawnRefused, IVars
<1>3. ASSUME NEW r \in Runs, TaskStep(r) PROVE IInv'
  BY <1>3, TaskPreserves
<1>4. ASSUME NEW r \in Runs,
             DeliverFinal(r) \/ BeaconFires(r) \/ BeaconDies(r)
      PROVE  IInv'
  BY <1>4, QuietPreserves
     DEF DeliverFinal, BeaconFires, BeaconDies, StayInside, TaskFrame, IVars
<1>5. ASSUME NEW r \in Runs, NotifySpawn(r) \/ Age(r) \/ Cancel(r) PROVE IInv'
  BY <1>5, QuietPreserves DEF NotifySpawn, Age, Cancel, IVars
<1>6. CASE StopAll \/ StopAllReturns
  BY <1>6, QuietPreserves DEF StopAll, StopAllReturns, IVars
<1>7. CASE UNCHANGED vars
  BY <1>7, QuietPreserves DEF vars, IVars
<1> QED
  BY <1>1, <1>2, <1>3, <1>4, <1>5, <1>6, <1>7 DEF Next

\* The strengthened invariant holds in every reachable state.
THEOREM Invariance == Spec => []IInv
BY InitIInv, NextIInv, PTL DEF Spec

\* For any number of users and runs, and through any order of cancellations and
\* failures, no user ever has more than max_parallel running agents.
THEOREM MaxParallelTheorem == Spec => []MaxParallelRespected
<1>1. IInv => MaxParallelRespected
  <2> SUFFICES ASSUME IInv, NEW u \in Users
               PROVE  Cardinality({r \in Unfinished : user[r] = u /\ status[r] = "running"})
                        <= MaxParallel
    BY DEF MaxParallelRespected
  <2> DEFINE Live == {r \in Unfinished : user[r] = u /\ status[r] = "running"}
  <2>1. Live \subseteq SlotsOf(u)
    BY DEF Unfinished, SlotsOf, Spawned
  <2>2. /\ Cardinality(Live) <= Cardinality(SlotsOf(u))
        /\ Cardinality(Live) \in Nat
        /\ Cardinality(SlotsOf(u)) \in Nat
    BY <2>1, SlotsFinite, FS_Subset, FS_CardinalityType
  <2> QED
    BY <2>2, MaxParallelAssumption DEF IInv, SlotsBounded
<1> QED
  BY <1>1, Invariance, PTL

\* The active names are exactly the names of the runs that are not done, and no
\* two of these share one, whatever the size of the pool.
THEOREM NamesTheorem == Spec => []NamesExact
<1>1. IInv => NamesExact
  BY DEF IInv
<1> QED
  BY <1>1, Invariance, PTL
-----------------------------------------------------------------------------
(* Typing, and what the done event guarantees to those who wait for it.    *)

\* The part of the typing that IInv does not cover.
Typed2 ==
    /\ activeNames \subseteq Names
    /\ cancelReq \subseteq Runs
    /\ session \in [Runs -> {"none", "open", "closed"}]
    /\ beacon \in [Runs -> {"none", "alive", "cancelling", "dead"}]
    /\ chat \in [Runs -> {"nothing", "spawned", "working", "finished"}]
    /\ notice \in [Runs -> {"none", "pending", "over"}]
    /\ injected \subseteq Runs
    /\ old \subseteq Runs
    /\ shutdown \in {"no", "waiting", "over"}
    /\ gathered \subseteq Runs

\* Before the setup and from the final notification on, no beacon is alive.
BeaconOver ==
    \A r \in Runs :
        pc[r] \in {"unborn", "created", "starting", "notifying", "failing", "ended"}
            => beacon[r] \in {"none", "dead"}

\* What Handle does to the beacon and to the phase.
LEMMA HandleTyped ==
    ASSUME IInv, Typed2, BeaconOver, NEW r \in Runs, NEW st \in Outcomes,
           Handle(r, st)
    PROVE  /\ activeNames' \subseteq Names
           /\ beacon' \in [Runs -> {"none", "alive", "cancelling", "dead"}]
           /\ BeaconOver'
BY DEF IInv, Typed, Typed2, BeaconOver, Handle, BeaconPending, OuterFinally, StayInside

LEMMA TaskTyped ==
    ASSUME IInv, Typed2, BeaconOver, NEW r \in Runs, TaskStep(r)
    PROVE  Typed2' /\ BeaconOver'
<1> USE DEF IInv, Typed, Typed2, BeaconOver, Resumes, Cancelled, TaskFrame
<1>1. CASE DieUnstarted(r)
  BY <1>1 DEF DieUnstarted, StayInside
<1>2. CASE Begin(r)
  BY <1>2 DEF Begin, StayInside
<1>3. CASE SessionStarted(r)
  BY <1>3 DEF SessionStarted, StayInside
<1>4. CASE StartBeacon(r)
  BY <1>4 DEF StartBeacon, StayInside
<1>5. CASE SetupDone(r)
  BY <1>5 DEF SetupDone, StayInside
<1>6. CASE SetupBreaks(r)
  BY <1>6, HandleTyped DEF SetupBreaks, StayInside, Outcomes
<1>7. CASE StreamEnds(r)
  BY <1>7 DEF StreamEnds, StayInside
<1>8. CASE SessionStops(r)
  BY <1>8 DEF SessionStops, StayInside
<1>9. CASE LeaveInnerFinally(r)
  BY <1>9, HandleTyped DEF LeaveInnerFinally, StayInside, Outcomes
<1>10. CASE ResultRecorded(r)
  <2>1. CASE BeaconPending(r)
    BY <1>10, <2>1 DEF ResultRecorded, StayInside
  <2>2. CASE ~BeaconPending(r)
    BY <1>10, <2>2 DEF ResultRecorded, StayInside, BeaconPending
  <2> QED
    BY <2>1, <2>2
<1>11. CASE BeaconAwaited(r)
  BY <1>11 DEF BeaconAwaited, StayInside, OuterFinally
<1>12. CASE Notified(r)
  BY <1>12 DEF Notified, StayInside, OuterFinally
<1>13. CASE CompletionCancelled(r)
  BY <1>13, HandleTyped DEF CompletionCancelled, StayInside, Outcomes
<1>14. CASE FailureNotified(r)
  BY <1>14 DEF FailureNotified, StayInside, OuterFinally
<1> QED
  BY <1>1, <1>2, <1>3, <1>4, <1>5, <1>6, <1>7, <1>8, <1>9, <1>10, <1>11, <1>12, <1>13, <1>14
     DEF TaskStep

LEMMA NextTyped == IInv /\ Typed2 /\ BeaconOver /\ [Next]_vars => Typed2' /\ BeaconOver'
<1> SUFFICES ASSUME IInv, Typed2, BeaconOver, [Next]_vars PROVE Typed2' /\ BeaconOver'
  OBVIOUS
<1> USE DEF IInv, Typed, Typed2, BeaconOver
<1>1. ASSUME NEW u \in Users, NEW r \in Runs, Spawn(u, r) PROVE Typed2' /\ BeaconOver'
  <2>1. PICK n \in NameChoices(r) : activeNames' = activeNames \cup {n}
    BY <1>1 DEF Spawn
  <2>2. n \in Names
    BY DEF NameChoices, Names
  <2> QED
    BY <1>1, <2>1, <2>2 DEF Spawn
<1>2. ASSUME NEW u \in Users, SpawnRefused(u) PROVE Typed2' /\ BeaconOver'
  BY <1>2 DEF SpawnRefused
<1>3. ASSUME NEW r \in Runs, TaskStep(r) PROVE Typed2' /\ BeaconOver'
  BY <1>3, TaskTyped
<1>4. ASSUME NEW r \in Runs,
             DeliverFinal(r) \/ BeaconFires(r) \/ BeaconDies(r)
      PROVE  Typed2' /\ BeaconOver'
  BY <1>4 DEF DeliverFinal, BeaconFires, BeaconDies, StayInside, TaskFrame
<1>5. ASSUME NEW r \in Runs, NotifySpawn(r) \/ Age(r) \/ Cancel(r)
      PROVE  Typed2' /\ BeaconOver'
  BY <1>5 DEF NotifySpawn, Age, Cancel
<1>6. CASE StopAll \/ StopAllReturns
  BY <1>6 DEF StopAll, StopAllReturns, StopAllTargets, Spawned
<1>7. CASE UNCHANGED vars
  BY <1>7 DEF vars
<1> QED
  BY <1>1, <1>2, <1>3, <1>4, <1>5, <1>6, <1>7 DEF Next

LEMMA InitTyped == Init => Typed2 /\ BeaconOver
BY DEF Init, Typed2, BeaconOver

THEOREM TypingInvariance == Spec => [](IInv /\ Typed2 /\ BeaconOver)
BY InitIInv, NextIInv, InitTyped, NextTyped, PTL DEF Spec

\* Every variable keeps its type, for every value of the constants.
THEOREM TypeCorrect == Spec => []TypeOK
<1>1. IInv /\ Typed2 => TypeOK
  BY DEF IInv, Typed, Typed2, TypeOK, Spawned
<1> QED
  BY <1>1, TypingInvariance, PTL

\* A run whose done event is set is settled: terminal status, no live beacon,
\* task over -- on every path through the handlers and their cancellations.
THEOREM DoneTheorem == Spec => []DoneMeansSettled
<1>1. IInv /\ BeaconOver => DoneMeansSettled
  BY DEF IInv, Typed, BeaconOver, BeaconPending, DoneMeansSettled, PhaseStatus
<1> QED
  BY <1>1, TypingInvariance, PTL
-----------------------------------------------------------------------------
(* What no step may do to a status, or to the last word of the chat.       *)

\* Handle is reached with the status running or, by a late cancellation,
\* completed; no task step follows done.
LEMMA StatusStep ==
    ASSUME IInv, NEW r \in Runs, TaskStep(r)
    PROVE  /\ r \notin done
           /\ \E st \in Statuses :
                /\ status' = [status EXCEPT ![r] = st]
                /\ status[r] = "completed" => st \in {"completed", "cancelled"}
                /\ status[r] \in {"failed", "cancelled"} => st = status[r]
<1> USE DEF IInv, Typed
<1>0. PhaseStatus(r) /\ status[r] \in Statuses /\ status = [status EXCEPT ![r] = status[r]]
  OBVIOUS
<1>1. pc[r] # "ended"
  BY DEF TaskStep, DieUnstarted, Begin, SessionStarted, StartBeacon, SetupDone, SetupBreaks,
     StreamEnds, SessionStops, LeaveInnerFinally, ResultRecorded, BeaconAwaited, Notified,
     CompletionCancelled, FailureNotified
<1>2. r \notin done
  BY <1>0, <1>1 DEF PhaseStatus
<1>3. CASE SetupBreaks(r)
  BY <1>0, <1>2, <1>3 DEF SetupBreaks, Handle, PhaseStatus, Statuses
<1>4. CASE LeaveInnerFinally(r)
  BY <1>0, <1>2, <1>4 DEF LeaveInnerFinally, Handle, PhaseStatus, Statuses, Outcomes
<1>5. CASE CompletionCancelled(r)
  BY <1>0, <1>2, <1>5 DEF CompletionCancelled, Handle, PhaseStatus, Statuses
<1>6. CASE status' = status
  BY <1>0, <1>2, <1>6
<1>7. ~SetupBreaks(r) /\ ~LeaveInnerFinally(r) /\ ~CompletionCancelled(r) => status' = status
  BY DEF TaskStep, DieUnstarted, Begin, SessionStarted, StartBeacon, SetupDone,
     StreamEnds, SessionStops, ResultRecorded, BeaconAwaited, Notified, FailureNotified
<1> QED
  BY <1>3, <1>4, <1>5, <1>6, <1>7

\* A completed run is never turned into a failed one, a failed or cancelled run
\* keeps its status, and nothing changes once done is set -- whenever a
\* cancellation, an error or the end of a notification falls.
THEOREM StatusTheorem == Spec => StatusFinal
<1>1. IInv /\ [Next]_vars =>
        \A r \in Runs :
          /\ status[r] = "completed" => status'[r] \in {"completed", "cancelled"}
          /\ status[r] \in {"failed", "cancelled"} => status'[r] = status[r]
          /\ r \in done => status'[r] = status[r] /\ r \in done'
  <2> SUFFICES ASSUME IInv, [Next]_vars, NEW r \in Runs
               PROVE  /\ status[r] = "completed" => status'[r] \in {"completed", "cancelled"}
                      /\ status[r] \in {"failed", "cancelled"} => status'[r] = status[r]
                      /\ r \in done => status'[r] = status[r] /\ r \in done'
    OBVIOUS
  <2>1. ASSUME NEW q \in Runs, TaskStep(q)
        PROVE  /\ status[r] = "completed" => status'[r] \in {"completed", "cancelled"}
               /\ status[r] \in {"failed", "cancelled"} => status'[r] = status[r]
               /\ r \in done => status'[r] = status[r] /\ r \in done'
    <3>1. done \subseteq done'
      BY <2>1, StepShape DEF Shape
    <3> QED
      BY <2>1, <3>1, StatusStep DEF IInv, Typed
  <2>2. \/ \E q \in Runs : TaskStep(q)
        \/ status' = status /\ done' = done
    BY DEF Next, Spawn, SpawnRefused, DeliverFinal, BeaconFires, BeaconDies, NotifySpawn, Age,
       Cancel, StopAll, StopAllReturns, StayInside, TaskFrame, vars
  <2> QED
    BY <2>1, <2>2
<1> QED
  BY <1>1, Invariance, PTL DEF Spec, StatusFinal

\* Once the final message was delivered the run is past its setup, and its
\* beacon is not alive.
FinalInv ==
    \A r \in Runs :
        chat[r] = "finished" => /\ beacon[r] # "alive"
                                /\ pc[r] \in {"notifying", "failing", "settling", "ended"}

LEMMA FinalStep == IInv /\ Typed2 /\ BeaconOver /\ FinalInv /\ [Next]_vars => FinalInv'
<1> SUFFICES ASSUME IInv, Typed2, BeaconOver, FinalInv, [Next]_vars PROVE FinalInv'
  OBVIOUS
<1> USE DEF IInv, Typed, Typed2, FinalInv
<1>1. ASSUME NEW u \in Users, NEW r \in Runs, Spawn(u, r) PROVE FinalInv'
  BY <1>1 DEF Spawn
<1>2. ASSUME NEW r \in Runs, TaskStep(r) PROVE FinalInv'
  <2>1. chat' = chat
    BY <1>2 DEF TaskStep, DieUnstarted, Begin, SessionStarted, StartBeacon, SetupDone,
       SetupBreaks, StreamEnds, SessionStops, LeaveInnerFinally, ResultRecorded,
       BeaconAwaited, Notified, CompletionCancelled, FailureNotified
  <2>2. CASE chat[r] # "finished"
    <3>1. \A q \in Runs \ {r} : pc'[q] = pc[q] /\ beacon'[q] = beacon[q]
      BY <1>2 DEF TaskStep, DieUnstarted, Begin, SessionStarted, StartBeacon, SetupDone,
         SetupBreaks, StreamEnds, SessionStops, LeaveInnerFinally, ResultRecorded,
         BeaconAwaited, Notified, CompletionCancelled, FailureNotified, Handle, OuterFinally
    <3> QED
      BY <2>1, <2>2, <3>1
  <2>3. CASE chat[r] = "finished"
    <3>1. CASE BeaconAwaited(r) \/ Notified(r) \/ FailureNotified(r)
      BY <2>1, <2>3, <3>1 DEF BeaconAwaited, Notified, FailureNotified, OuterFinally
    <3>2. CASE CompletionCancelled(r)
      BY <2>1, <2>3, <3>2 DEF CompletionCancelled, Handle, BeaconPending, OuterFinally
    <3>3. BeaconAwaited(r) \/ Notified(r) \/ FailureNotified(r) \/ CompletionCancelled(r)
      BY <1>2, <2>3 DEF TaskStep, DieUnstarted, Begin, SessionStarted, StartBeacon, SetupDone,
         SetupBreaks, StreamEnds, SessionStops, LeaveInnerFinally, ResultRecorded
    <3> QED
      BY <3>1, <3>2, <3>3
  <2> QED
    BY <2>2, <2>3
<1>3. ASSUME NEW r \in Runs, DeliverFinal(r) PROVE FinalInv'
  BY <1>3 DEF DeliverFinal, BeaconOver
<1>4. ASSUME NEW r \in Runs, BeaconFires(r) \/ BeaconDies(r) \/ NotifySpawn(r) PROVE FinalInv'
  BY <1>4 DEF BeaconFires, BeaconDies, NotifySpawn
<1>5. ASSUME UNCHANGED <<chat, beacon, pc>> PROVE FinalInv'
  BY <1>5
<1>6. \/ \E u \in Users, r \in Runs : Spawn(u, r)
      \/ \E r \in Runs : \/ TaskStep(r) \/ DeliverFinal(r)
                          \/ BeaconFires(r) \/ BeaconDies(r) \/ NotifySpawn(r)
      \/ UNCHANGED <<chat, beacon, pc>>
  BY DEF Next, SpawnRefused, Age, Cancel, StopAll, StopAllReturns, vars
<1> QED
  BY <1>1, <1>2, <1>3, <1>4, <1>5, <1>6

\* Once the final message of a run was delivered, the last word of the chat is
\* never a beacon's.
THEOREM LastWordTheorem == Spec => NoBeaconAfterFinal
<1>1. Init => FinalInv
  BY DEF Init, FinalInv
<1>2. Typed2 /\ FinalInv /\ [Next]_vars =>
        \A r \in Runs : chat[r] = "finished" => chat'[r] # "working"
  <2> SUFFICES ASSUME Typed2, FinalInv, [Next]_vars, NEW r \in Runs, chat[r] = "finished"
               PROVE  chat'[r] # "working"
    OBVIOUS
  <2>1. ASSUME NEW q \in Runs, BeaconFires(q) PROVE chat'[r] # "working"
    BY <2>1 DEF BeaconFires, FinalInv, Typed2
  <2>2. ASSUME NEW q \in Runs, DeliverFinal(q) \/ NotifySpawn(q) PROVE chat'[r] # "working"
    BY <2>2 DEF DeliverFinal, NotifySpawn, Typed2
  <2>3. \/ \E q \in Runs : BeaconFires(q) \/ DeliverFinal(q) \/ NotifySpawn(q)
        \/ chat' = chat
    BY DEF Next, TaskStep, DieUnstarted, Begin, SessionStarted, StartBeacon, SetupDone,
       SetupBreaks, StreamEnds, SessionStops, LeaveInnerFinally, ResultRecorded,
       BeaconAwaited, Notified, CompletionCancelled, FailureNotified, Spawn, SpawnRefused,
       BeaconDies, Age, Cancel, StopAll, StopAllReturns, vars
  <2> QED
    BY <2>1, <2>2, <2>3
<1> QED
  BY <1>1, <1>2, FinalStep, TypingInvariance, PTL DEF Spec, NoBeaconAfterFinal
-----------------------------------------------------------------------------
(* The refinement of AgentSlots.                                           *)

SlotMap == {r \in Spawned : status[r] = "running"}
HeldMap == {<<r, name[r]>> : r \in Spawned \ done}

\* A step that leaves user, slots and names alone is a stutter of AgentSlots.
LEMMA Stutter ==
    ASSUME UNCHANGED IVars
    PROVE  UNCHANGED <<user, SlotMap, HeldMap>>
BY DEF IVars, SlotMap, HeldMap, Spawned

\* The instance counts sets as this module does.
LEMMA SameCardinality ==
    ASSUME NEW S
    PROVE  Slots!Cardinality(S) = Cardinality(S)
BY ZenonT(20) DEF Slots!Cardinality, Cardinality

LEMMA SpawnAcquires ==
    ASSUME IInv, NEW u \in Users, NEW r \in Runs, Spawn(u, r)
    PROVE  \E n \in Names : Slots!Acquire(u, r, n)
<1> USE DEF IInv
<1>1. PICK n \in NameChoices(r) : name' = [name EXCEPT ![r] = n]
  BY DEF Spawn
<1>2. n \in Names
  BY DEF NameChoices, Names
<1>3. Spawned' = Spawned \cup {r} /\ r \notin Spawned /\ r \notin done
  BY DEF Spawn, Spawned, Typed, PhaseStatus
<1>4. user[r] = NoUser
  BY DEF Spawn, Ownership
<1>5. Cardinality({s \in SlotMap : user[s] = u}) < MaxParallel
  <2>1. {s \in SlotMap : user[s] = u} = SlotsOf(u)
    BY DEF SlotMap, SlotsOf
  <2> QED
    BY <2>1, ListRunningIsSlots DEF Spawn
<1>6. \A s \in Runs : <<s, n>> \notin HeldMap
  BY FreshName DEF HeldMap, Spawn
<1>7. user' = [user EXCEPT ![r] = u]
  BY DEF Spawn
<1>8. SlotMap' = SlotMap \cup {r}
  BY <1>3 DEF SlotMap, Spawn, PhaseStatus
<1>9. HeldMap' = HeldMap \cup {<<r, n>>}
  <2>1. (Spawned \ done)' = (Spawned \ done) \cup {r}
    BY <1>3 DEF Spawn
  <2>2. name'[r] = n /\ \A s \in Spawned \ done : name'[s] = name[s]
    BY <1>1, <1>3 DEF Typed, Spawned
  <2> QED
    BY <2>1, <2>2 DEF HeldMap
<1> QED
  BY <1>2, <1>4, <1>5, <1>6, <1>7, <1>8, <1>9, SameCardinality
     DEF Slots!Acquire, SlotMap, HeldMap

LEMMA TaskReleases ==
    ASSUME IInv, NEW r \in Runs, TaskStep(r)
    PROVE  \/ Slots!Vacate(r) \/ Slots!Release(r)
           \/ UNCHANGED <<user, SlotMap, HeldMap>>
<1>0. Shape(r)
  BY StepShape
<1> USE DEF IInv
<1>1. PICK p \in Phases \ {"unborn"}, s \in Statuses :
        /\ pc' = [pc EXCEPT ![r] = p]
        /\ status' = [status EXCEPT ![r] = s]
        /\ s = "running" => status[r] = "running"
  BY <1>0 DEF Shape
<1>2. Spawned' = Spawned /\ r \in Spawned /\ r \notin done
  BY <1>0, <1>1 DEF Shape, Typed, Spawned, PhaseStatus
<1>3. user' = user /\ name' = name
  BY <1>0 DEF Shape
<1>4. SlotMap' = IF s = "running" THEN SlotMap ELSE SlotMap \ {r}
  BY <1>1, <1>2 DEF SlotMap, Typed, Spawned
<1>5. \/ done' = done /\ HeldMap' = HeldMap
      \/ s # "running" /\ HeldMap' = HeldMap \ {q \in HeldMap : q[1] = r}
  <2>1. CASE done' = done
    BY <1>2, <1>3, <2>1 DEF HeldMap
  <2>2. CASE done' = done \cup {r} /\ status'[r] # "running"
    <3>1. (Spawned \ done)' = (Spawned \ done) \ {r}
      BY <1>2, <2>2
    <3>2. HeldMap' = {<<q, name[q]>> : q \in (Spawned \ done) \ {r}}
      BY <1>3, <3>1 DEF HeldMap
    <3>3. s # "running"
      BY <1>1, <2>2 DEF Typed
    <3> QED
      BY <3>2, <3>3 DEF HeldMap
  <2> QED
    BY <1>0, <2>1, <2>2 DEF Shape
<1>6. CASE r \in SlotMap /\ s # "running"
  <2>1. HeldMap' \in {HeldMap, HeldMap \ {q \in HeldMap : q[1] = r}}
    BY <1>5
  <2> QED
    BY <1>3, <1>4, <1>6, <2>1 DEF Slots!Vacate, Slots!NamesOf, SlotMap, HeldMap
<1>7. CASE r \notin SlotMap \/ s = "running"
  <2>1. SlotMap' = SlotMap
    BY <1>4, <1>7
  <2>2. CASE HeldMap' = HeldMap
    BY <1>3, <2>1, <2>2
  <2>3. CASE s # "running" /\ HeldMap' = HeldMap \ {q \in HeldMap : q[1] = r}
    BY <1>3, <1>7, <2>1, <2>3 DEF Slots!Release, Slots!NamesOf, SlotMap, HeldMap
  <2> QED
    BY <1>5, <2>2, <2>3
<1> QED
  BY <1>6, <1>7

\* The manager implements AgentSlots: every initial state maps to an initial
\* state and every step to an acquisition, a release or a stutter.
THEOREM Refinement == Spec => ImplementsSlots
<1>1. Init => Slots!SlotsInit
  BY DEF Init, Slots!SlotsInit, Spawned
<1>2. IInv /\ [Next]_vars => [Slots!SlotsNext]_(Slots!slotVars)
  <2> SUFFICES ASSUME IInv, [Next]_vars
               PROVE  Slots!SlotsNext \/ UNCHANGED <<user, SlotMap, HeldMap>>
    BY DEF Slots!slotVars, SlotMap, HeldMap
  <2>1. ASSUME NEW u \in Users, NEW r \in Runs, Spawn(u, r) PROVE Slots!SlotsNext
    BY <2>1, SpawnAcquires DEF Slots!SlotsNext
  <2>2. ASSUME NEW r \in Runs, TaskStep(r)
        PROVE  Slots!SlotsNext \/ UNCHANGED <<user, SlotMap, HeldMap>>
    BY <2>2, TaskReleases DEF Slots!SlotsNext
  <2>3. ASSUME NEW u \in Users, SpawnRefused(u) PROVE UNCHANGED IVars
    BY <2>3 DEF SpawnRefused, IVars
  <2>4. ASSUME NEW r \in Runs,
               \/ DeliverFinal(r) \/ BeaconFires(r) \/ BeaconDies(r)
               \/ NotifySpawn(r) \/ Age(r) \/ Cancel(r)
        PROVE  UNCHANGED IVars
    BY <2>4 DEF DeliverFinal, BeaconFires, BeaconDies, NotifySpawn, Age, Cancel,
       StayInside, TaskFrame, IVars
  <2>5. CASE StopAll \/ StopAllReturns \/ UNCHANGED vars
    BY <2>5, Stutter DEF StopAll, StopAllReturns, vars, IVars
  <2> QED
    BY <2>1, <2>2, <2>3, <2>4, <2>5, Stutter DEF Next
<1> QED
  BY <1>1, <1>2, Invariance, PTL DEF Spec, ImplementsSlots, Slots!SlotsSpec
=============================================================================
