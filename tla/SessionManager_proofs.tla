----------------------- MODULE SessionManager_proofs -----------------------
(***************************************************************************)
(* Proofs about SessionManager, for any number of messages, commands,      *)
(* timers, sessions and locks.                                             *)
(***************************************************************************)
EXTENDS SessionManager, FiniteSetTheorems, TLAPS

USE NoneAssumption

Typed ==
    /\ lockRef \in Locks \cup {None}
    /\ sess \in [Sessions -> SessionStates]
    /\ owner \in [Locks -> Handlers \cup {None}]
    /\ waiters = [l \in Locks |-> waiters[l]]
    /\ phase \in [Handlers -> Phases]
    /\ ref \in [Handlers -> Sessions \cup {None}]
    /\ hlock \in [Handlers -> Locks \cup {None}]
    /\ current \in Sessions \cup {None}
    /\ dropped \in BOOLEAN
    /\ closing \in {"no", "waiting", "over"}

(* Inside `async with` the user lock, at an await.                         *)
Inside(h) == phase[h] \in {"creating", "recycleStop", "recycleStart"}

Normal == closing = "no" /\ ~dropped

(* Who is inside holds its lock, and who waits has one to wait for.        *)
HeldInv ==
    \A h \in Handlers :
        /\ Inside(h) => /\ hlock[h] \in Locks /\ owner[hlock[h]] = h
                        /\ ref[h] \in Sessions
        /\ phase[h] \in {"waiting", "compactWait"} => hlock[h] \in Locks

(* Only the lock in the dictionary is in use.                              *)
OneLock == Normal => \A l \in Locks : l # lockRef => owner[l] = None /\ waiters[l] = <<>>

(* While somebody is inside, the user has no session; a live session is the*)
(* user's, and one that starts is being started inside.                    *)
SessionInv ==
    Normal =>
        /\ \A h \in Handlers : Inside(h) => current = None
        /\ \A s \in Sessions :
             /\ sess[s] = "live" => s = current
             /\ sess[s] = "starting" =>
                  \E h \in Handlers : phase[h] \in {"creating", "recycleStart"} /\ ref[h] = s

IInv == Typed /\ HeldInv /\ OneLock /\ SessionInv

LEMMA InitIInv == Init => IInv
  <1> SUFFICES ASSUME Init PROVE IInv
    OBVIOUS
  <1>1. Typed
    BY DEF Init, Typed, Phases, SessionStates
  <1>2. HeldInv
    BY DEF Init, HeldInv, Inside
  <1>3. OneLock
    BY DEF Init, OneLock
  <1>4. SessionInv
    BY DEF Init, SessionInv, Inside
  <1>5. QED
    BY <1>1, <1>2, <1>3, <1>4 DEF IInv

(* No two handlers are inside.                                             *)
LEMMA OneInside ==
  ASSUME IInv, Normal, NEW g \in Handlers, NEW h \in Handlers, Inside(g), Inside(h)
  PROVE  g = h
  BY DEF IInv, HeldInv, OneLock, Typed

LEMMA NewObjects ==
  /\ FreshSessions # {} => NewSession \in Sessions /\ FreshSession(NewSession)
  /\ FreshLocks # {} => NewLock \in Locks /\ FreshLock(NewLock)
  BY DEF FreshSessions, NewSession, FreshLocks, NewLock

(***************************************************************************)
(* A handler gets its lock, l, and is inside or leaves at once.            *)
(***************************************************************************)
LEMMA EnterLock ==
  ASSUME IInv, NEW h \in Handlers, NEW l \in Locks, owner[l] = None, ~Inside(h),
         InsideGet(h, l) \/ InsideCompact(h, l),
         lockRef' \in Locks \cup {None}, waiters' = [k \in Locks |-> waiters'[k]],
         UNCHANGED <<dropped, closing>>,
         Normal => /\ l = lockRef'
                   /\ \A k \in Locks : k # l => owner[k] = None /\ waiters'[k] = <<>>
  PROVE  IInv'
  <1> USE DEF IInv, Normal
  <1>1. /\ owner' \in {[owner EXCEPT ![l] = None], [owner EXCEPT ![l] = h]}
        /\ hlock' \in {[hlock EXCEPT ![h] = None], [hlock EXCEPT ![h] = l]}
        /\ Inside(h)' => owner'[l] = h /\ hlock'[h] = l /\ ref'[h] \in Sessions /\ current' = None
        /\ \A g \in Handlers \ {h} : phase'[g] = phase[g] /\ ref'[g] = ref[g]
        /\ phase'[h] \notin {"waiting", "compactWait"}
        /\ current' \in {current, None}
    BY NewObjects DEF InsideGet, InsideCompact, BeginCreate, Return, Inside, HeldInv, Typed
  <1>2. Typed'
    BY NewObjects DEF InsideGet, InsideCompact, BeginCreate, Return, Typed, Phases, SessionStates
  <1>3. HeldInv'
    BY <1>1 DEF HeldInv, Inside, Typed
  <1>4. OneLock'
    BY <1>1 DEF OneLock, Typed
  <1>5. ASSUME Normal PROVE SessionInv'
    <2>1. CASE InsideGet(h, l) /\ current # None
      BY <1>5, <2>1 DEF InsideGet, Return, SessionInv, Inside, Typed
    <2>2. CASE InsideGet(h, l) /\ current = None
      BY <1>5, <2>2, NewObjects DEF InsideGet, BeginCreate, SessionInv, Inside, Typed, FreshSession
    <2>3. CASE InsideCompact(h, l)
      BY <1>5, <2>3 DEF InsideCompact, SessionInv, Inside, Typed
    <2>4. QED
      BY <2>1, <2>2, <2>3
  <1>6. QED
    BY <1>2, <1>3, <1>4, <1>5 DEF SessionInv

(* A step that touches neither locks nor sessions, and moves a handler     *)
(* between awaits outside the lock.                                        *)
LEMMA QuietStep ==
  ASSUME IInv, NEW h \in Handlers, NEW q \in Phases, phase' = [phase EXCEPT ![h] = q],
         ~Inside(h), q \notin {"creating", "recycleStop", "recycleStart", "waiting", "compactWait"},
         ref' \in [Handlers -> Sessions \cup {None}],
         \A g \in Handlers \ {h} : ref'[g] = ref[g],
         UNCHANGED <<current, lockRef, sess, owner, waiters, hlock, dropped, closing>>
  PROVE  IInv'
  <1>1. Typed'
    BY DEF IInv, Typed
  <1>2. HeldInv' /\ OneLock'
    BY DEF IInv, Typed, HeldInv, OneLock, Inside, Normal
  <1>3. SessionInv'
    BY DEF IInv, Typed, SessionInv, Inside, Normal
  <1>4. QED
    BY <1>1, <1>2, <1>3 DEF IInv

LEMMA SendingSteps ==
  ASSUME IInv, NEW h \in Handlers,
         \/ Arrive(h) \/ Send(h) \/ SendAfterWait(h) \/ Leave(h)
         \/ StreamRaises(h) \/ HandlerRaises(h) \/ Unwound(h)
  PROVE  IInv'
  <1> USE DEF mgrVars, lockVars, plVars, LeaveStream
  <1>1. /\ phase[h] \in {"idle", "got", "queued", "streaming", "rejected", "unwinding"}
        /\ ref' \in {ref, [ref EXCEPT ![h] = None]}
        /\ UNCHANGED <<current, lockRef, sess, owner, waiters, hlock, dropped, closing>>
    BY DEF Arrive, Send, SendAfterWait, Leave, StreamRaises, HandlerRaises, Unwound
  <1>2. \E q \in {"idle", "arrived", "queued", "streaming", "rejected", "unwinding"} :
           phase' = [phase EXCEPT ![h] = q]
    BY DEF Arrive, Send, SendAfterWait, Leave, StreamRaises, HandlerRaises, Unwound, TakeStream
  <1>3. ~Inside(h)
    BY <1>1 DEF Inside
  <1>4. ref' \in [Handlers -> Sessions \cup {None}] /\ \A g \in Handlers \ {h} : ref'[g] = ref[g]
    BY <1>1 DEF IInv, Typed
  <1>5. QED
    BY <1>1, <1>2, <1>3, <1>4, QuietStep DEF Phases

(* A handler joins the queue of the lock in the dictionary.                *)
LEMMA JoinQueue ==
  ASSUME IInv, NEW h \in Handlers, NEW l \in Locks, NEW q \in {"waiting", "compactWait"},
         ~Inside(h), TheLock(l), lockRef' = l,
         waiters' = [waiters EXCEPT ![l] = Append(@, h)],
         hlock' = [hlock EXCEPT ![h] = l], phase' = [phase EXCEPT ![h] = q],
         ref' \in [Handlers -> Sessions \cup {None}],
         \A g \in Handlers \ {h} : ref'[g] = ref[g],
         UNCHANGED <<current, sess, owner, dropped, closing>>
  PROVE  IInv'
  <1>1. Typed'
    BY DEF IInv, Typed, Phases
  <1>2. HeldInv'
    BY DEF IInv, Typed, HeldInv, Inside
  <1>3. OneLock'
    <2>1. CASE lockRef = None
      BY <2>1 DEF IInv, Typed, OneLock, Normal
    <2>2. CASE lockRef # None
      BY <2>2 DEF IInv, Typed, OneLock, Normal, TheLock
    <2>3. QED
      BY <2>1, <2>2
  <1>4. SessionInv'
    BY DEF IInv, Typed, SessionInv, Inside, Normal
  <1>5. QED
    BY <1>1, <1>2, <1>3, <1>4 DEF IInv

(* The lock a handler finds is the only one in use from then on.           *)
LEMMA FoundLock ==
  ASSUME IInv, NEW l \in Locks, TheLock(l), lockRef' = l
  PROVE  Normal => \A k \in Locks : k # l => owner[k] = None /\ waiters[k] = <<>>
  BY DEF TheLock, IInv, OneLock, Typed

LEMMA GetStep == ASSUME IInv, NEW h \in Handlers, GetOrCreate(h) PROVE IInv'
  <1> USE DEF plVars
  <1>1. PICK l \in Locks :
          /\ TheLock(l)
          /\ lockRef' = l
          /\ IF LockFree(l)
             THEN InsideGet(h, l) /\ waiters' = waiters
             ELSE /\ waiters' = [waiters EXCEPT ![l] = Append(@, h)]
                  /\ hlock' = [hlock EXCEPT ![h] = l]
                  /\ phase' = [phase EXCEPT ![h] = "waiting"]
                  /\ UNCHANGED <<current, timer, sess, full, owner, ref>>
    BY DEF GetOrCreate
  <1>2. /\ ~Inside(h) /\ UNCHANGED <<dropped, closing>>
    BY DEF GetOrCreate, Inside
  <1>3. CASE LockFree(l)
    <2>1. waiters' = [k \in Locks |-> waiters'[k]] /\ owner[l] = None
      BY <1>1, <1>3 DEF IInv, Typed, LockFree
    <2>2. Normal => /\ l = lockRef'
                    /\ \A k \in Locks : k # l => owner[k] = None /\ waiters'[k] = <<>>
      BY <1>1, <1>3, FoundLock
    <2>3. QED
      BY <1>1, <1>2, <1>3, <2>1, <2>2, EnterLock
  <1>4. CASE ~LockFree(l)
    <2>1. ref' \in [Handlers -> Sessions \cup {None}] /\ \A g \in Handlers \ {h} : ref'[g] = ref[g]
      BY <1>1, <1>4 DEF IInv, Typed
    <2>2. QED
      BY <1>1, <1>2, <1>4, <2>1, JoinQueue
  <1>5. QED
    BY <1>3, <1>4

(* The waiter that is woken gets the lock it waited for.                   *)
LEMMA WakeStep ==
  ASSUME IInv, NEW h \in Handlers, GetAfterWait(h) \/ CompactAfterWait(h)
  PROVE  IInv'
  <1> DEFINE l == hlock[h]
  <1> USE DEF plVars
  <1>1. /\ phase[h] \in {"waiting", "compactWait"}
        /\ IsNextFor(h, l)
        /\ waiters' = [waiters EXCEPT ![l] = Tail(@)]
        /\ InsideGet(h, l) \/ InsideCompact(h, l)
        /\ UNCHANGED <<dropped, lockRef, closing>>
    BY DEF GetAfterWait, CompactAfterWait
  <1>2. l \in Locks /\ owner[l] = None /\ waiters[l] # <<>> /\ ~Inside(h)
    BY <1>1 DEF IInv, HeldInv, IsNextFor, Inside
  <1>3. waiters' = [k \in Locks |-> waiters'[k]] /\ \A k \in Locks : k # l => waiters'[k] = waiters[k]
    BY <1>1, <1>2 DEF IInv, Typed
  <1>4. Normal => /\ l = lockRef'
                  /\ \A k \in Locks : k # l => owner[k] = None /\ waiters'[k] = <<>>
    BY <1>1, <1>2, <1>3 DEF IInv, OneLock
  <1>5. lockRef' \in Locks \cup {None}
    BY <1>1 DEF IInv, Typed
  <1> HIDE DEF l
  <1>6. QED
    BY <1>1, <1>2, <1>3, <1>4, <1>5, EnterLock

(* A message whose stream has ended compacts: it tears the session down at *)
(* once, or waits for the user lock.                                       *)
Tears(h, l) ==
    /\ waiters' = waiters
    /\ owner' = [owner EXCEPT ![l] = h]
    /\ hlock' = [hlock EXCEPT ![h] = l]
    /\ ref' = [ref EXCEPT ![h] = current]
    /\ sess' = [sess EXCEPT ![current] = "stopping"]
    /\ current' = None
    /\ full' = FALSE
    /\ timer' = FALSE
    /\ phase' = [phase EXCEPT ![h] = "recycleStop"]

Queues(h, l, f) ==
    /\ waiters' = [waiters EXCEPT ![l] = Append(@, h)]
    /\ hlock' = [hlock EXCEPT ![h] = l]
    /\ ref' = [ref EXCEPT ![h] = None]
    /\ phase' = [phase EXCEPT ![h] = "compactWait"]
    /\ full' = f
    /\ UNCHANGED <<current, timer, sess, owner>>

(* The end of a stream, with the check for compaction.                     *)
LEMMA StreamEndStep == ASSUME IInv, NEW h \in Handlers, StreamEnds(h) PROVE IInv'
  <1>0. PICK f \in FullAfter(ref[h]) :
          IF MustCompact(f, ref[h])
          THEN \E l \in Locks : TheLock(l) /\ lockRef' = l
                                /\ IF LockFree(l) THEN Tears(h, l) ELSE Queues(h, l, f)
          ELSE /\ phase' = [phase EXCEPT ![h] = "idle"]
               /\ ref' = [ref EXCEPT ![h] = None]
               /\ UNCHANGED <<current, lockRef, timer, sess, lockVars, hlock>>
    BY DEF StreamEnds, Tears, Queues
  <1> DEFINE compacts == MustCompact(f, ref[h])
  <1>1. /\ phase[h] = "streaming" /\ ~Inside(h)
        /\ UNCHANGED <<dropped, closing>>
    BY DEF StreamEnds, Inside
  <1>2. CASE ~compacts
    <2>1. /\ phase' = [phase EXCEPT ![h] = "idle"] /\ ref' = [ref EXCEPT ![h] = None]
          /\ UNCHANGED <<current, lockRef, timer, sess, lockVars, hlock>>
      BY <1>0, <1>2
    <2>2. ref' \in [Handlers -> Sessions \cup {None}] /\ \A g \in Handlers \ {h} : ref'[g] = ref[g]
      BY <2>1 DEF IInv, Typed
    <2>3. QED
      BY <1>1, <2>1, <2>2, QuietStep DEF Phases, lockVars
  <1>3. CASE compacts
    <2>1. current # None
      BY <1>3 DEF MustCompact
    <2>2. PICK l \in Locks : TheLock(l) /\ lockRef' = l
                            /\ IF LockFree(l) THEN Tears(h, l) ELSE Queues(h, l, f)
      BY <1>0, <1>3
    <2>3. CASE LockFree(l)
      <3>1. /\ waiters' = waiters
            /\ owner' = [owner EXCEPT ![l] = h]
            /\ hlock' = [hlock EXCEPT ![h] = l]
            /\ ref' = [ref EXCEPT ![h] = current]
            /\ sess' = [sess EXCEPT ![current] = "stopping"]
            /\ current' = None
            /\ phase' = [phase EXCEPT ![h] = "recycleStop"]
        BY <2>2, <2>3 DEF Tears
      <3>2. Normal => \A k \in Locks : k # l => owner[k] = None /\ waiters[k] = <<>>
        BY <2>2, FoundLock
      <3>3. Typed'
        BY <1>1, <2>1, <2>2, <3>1 DEF IInv, Typed, Phases, SessionStates
      <3>4. HeldInv'
        BY <1>1, <2>1, <2>3, <3>1 DEF IInv, Typed, HeldInv, Inside, LockFree
      <3>5. OneLock'
        BY <1>1, <2>2, <3>1, <3>2 DEF IInv, Typed, OneLock, Normal
      <3>6. SessionInv'
        BY <1>1, <2>1, <3>1 DEF IInv, Typed, SessionInv, Inside, Normal
      <3>7. QED
        BY <3>3, <3>4, <3>5, <3>6 DEF IInv
    <2>4. CASE ~LockFree(l)
      <3>1. ref' \in [Handlers -> Sessions \cup {None}]
            /\ \A g \in Handlers \ {h} : ref'[g] = ref[g]
        BY <2>2, <2>4 DEF IInv, Typed, Queues
      <3>2. QED
        BY <1>1, <2>2, <2>4, <3>1, JoinQueue DEF Queues
    <2>5. QED
      BY <2>3, <2>4
  <1>4. QED
    BY <1>2, <1>3

(* Who is inside ends its creation or recycling, and releases the lock.    *)
LEMMA LeaveLock ==
  ASSUME IInv, NEW h \in Handlers, phase[h] \in {"creating", "recycleStart"}, Release(h),
         \/ current' = ref[h] /\ sess' = [sess EXCEPT ![ref[h]] = "live"]
         \/ current' = current /\ sess' = [sess EXCEPT ![ref[h]] = "stopped"],
         NEW q \in {"got", "idle"}, phase' = [phase EXCEPT ![h] = q],
         ref' \in {ref, [ref EXCEPT ![h] = None]},
         UNCHANGED <<lockRef, waiters, dropped, closing>>
  PROVE  IInv'
  <1>0. Inside(h) /\ hlock[h] \in Locks /\ owner[hlock[h]] = h /\ ref[h] \in Sessions
    BY DEF IInv, HeldInv, Inside
  <1>1. Typed'
    BY <1>0 DEF IInv, Typed, Release, Phases, SessionStates
  <1>2. HeldInv'
    BY <1>0 DEF IInv, Typed, HeldInv, Release, Inside
  <1>3. OneLock'
    BY <1>0 DEF IInv, Typed, OneLock, Release, Normal
  <1>4. ASSUME Normal PROVE SessionInv'
    <2>1. \A g \in Handlers : Inside(g) => g = h
      BY <1>0, <1>4, OneInside
    <2>2. current = None
      BY <1>0, <1>4 DEF IInv, SessionInv
    <2>3. \A g \in Handlers : ~Inside(g)'
      BY <2>1 DEF IInv, Typed, Inside
    <2>4. \A s \in Sessions : sess[s] # "live" /\ (sess[s] = "starting" => s = ref[h])
      BY <1>4, <2>1, <2>2 DEF IInv, SessionInv, Inside
    <2>5. \A s \in Sessions : sess'[s] # "starting" /\ (sess'[s] = "live" => s = current')
      BY <1>0, <2>4 DEF IInv, Typed
    <2>6. QED
      BY <2>3, <2>5 DEF SessionInv
  <1>5. QED
    BY <1>1, <1>2, <1>3, <1>4 DEF IInv, SessionInv, Normal

LEMMA CreationSteps ==
  ASSUME IInv, NEW h \in Handlers, Created(h) \/ CreateFails(h) \/ Recycled(h)
  PROVE  IInv'
  <1> USE DEF mgrVars, plVars
  <1>1. /\ phase[h] \in {"creating", "recycleStart"} /\ Release(h)
        /\ \/ current' = ref[h] /\ sess' = [sess EXCEPT ![ref[h]] = "live"]
           \/ current' = current /\ sess' = [sess EXCEPT ![ref[h]] = "stopped"]
        /\ ref' \in {ref, [ref EXCEPT ![h] = None]}
        /\ UNCHANGED <<lockRef, waiters, dropped, closing>>
    BY DEF Created, CreateFails, Recycled, FinishCreate
  <1>2. \E q \in {"got", "idle"} : phase' = [phase EXCEPT ![h] = q]
    BY DEF Created, CreateFails, Recycled
  <1>3. QED
    BY <1>1, <1>2, LeaveLock

(* The old session has stopped, the replacement starts.                    *)
LEMMA RecycleStep == ASSUME IInv, NEW h \in Handlers, RecycleStopped(h) PROVE IInv'
  <1>1. /\ phase[h] = "recycleStop" /\ Inside(h)
        /\ NewSession \in Sessions /\ \A g \in Handlers : ref[g] # NewSession
        /\ sess' = [sess EXCEPT ![ref[h]] = "stopped", ![NewSession] = "starting"]
        /\ ref' = [ref EXCEPT ![h] = NewSession]
        /\ phase' = [phase EXCEPT ![h] = "recycleStart"]
        /\ UNCHANGED <<dropped, current, lockRef, owner, waiters, hlock, closing>>
    BY NewObjects DEF RecycleStopped, FreshSession, Inside, lockVars, mgrVars
  <1>2. Typed'
    BY <1>1 DEF IInv, Typed, Phases, SessionStates
  <1>3. HeldInv' /\ OneLock'
    BY <1>1 DEF IInv, Typed, HeldInv, OneLock, Inside, Normal
  <1>4. SessionInv'
    BY <1>1 DEF IInv, Typed, SessionInv, Inside, Normal
  <1>5. QED
    BY <1>2, <1>3, <1>4 DEF IInv
-----------------------------------------------------------------------------
(* stop() drops a lock nobody holds or waits for, or it is not Normal any  *)
(* more.                                                                   *)
LEMMA StopSteps ==
  ASSUME IInv, \/ \E p \in Commands : StopCommand(p)
               \/ \E p \in Evictors : Evict(p)
               \/ \E p \in Stoppers : Stopped(p)
  PROVE  IInv'
  <1> USE DEF lockVars, plVars, taskVars
  <1>1. /\ UNCHANGED <<owner, waiters, phase, ref, hlock, closing>>
        /\ PopLock \/ UNCHANGED <<lockRef, dropped>>
    BY DEF StopCommand, Evict, Stopped, BeginStop
  <1>2. /\ current' \in {current, None}
        /\ \/ \E s : sess' = [sess EXCEPT ![s] = "stopped"] /\ current' = current
           \/ sess' = sess /\ current = None /\ current' = None
           \/ sess' = [sess EXCEPT ![current] = "stopping"] /\ current' = None /\ current # None
    BY DEF StopCommand, Evict, Stopped, BeginStop
  <1>3. Typed'
    <2>1. lockRef' \in Locks \cup {None} /\ dropped' \in BOOLEAN
      BY <1>1 DEF PopLock, IInv, Typed
    <2>2. current' \in Sessions \cup {None} /\ sess' \in [Sessions -> SessionStates]
      BY <1>2 DEF IInv, Typed, SessionStates
    <2>3. QED
      BY <1>1, <2>1, <2>2 DEF IInv, Typed
  <1>4. HeldInv'
    BY <1>1 DEF IInv, HeldInv, Inside
  <1>5. OneLock'
    BY <1>1 DEF IInv, Typed, OneLock, Normal, PopLock, LockFree
  <1>6. SessionInv'
    <2>1. Normal' => Normal
      BY <1>1 DEF Normal, PopLock, IInv, Typed
    <2>2. ASSUME Normal PROVE \A s \in Sessions : sess'[s] = "live" => s = current'
      BY <1>2, <2>2 DEF IInv, Typed, SessionInv
    <2>3. \A s \in Sessions : sess'[s] = "starting" => sess[s] = "starting"
      BY <1>2 DEF IInv, Typed
    <2>4. QED
      BY <1>1, <1>2, <2>1, <2>2, <2>3 DEF IInv, SessionInv, Inside
  <1>7. QED
    BY <1>3, <1>4, <1>5, <1>6 DEF IInv

LEMMA ClosingSteps == ASSUME IInv, StopAll \/ StopAllDone PROVE IInv'
  <1>1. closing' \in {"waiting", "over"}
    BY DEF StopAll, StopAllDone
  <1>2. Typed'
    BY DEF IInv, Typed, StopAll, StopAllDone, taskVars, lockVars, SessionStates
  <1>3. HeldInv'
    BY DEF IInv, HeldInv, Inside, StopAll, StopAllDone, taskVars, lockVars
  <1>4. QED
    BY <1>1, <1>2, <1>3 DEF IInv, OneLock, SessionInv, Normal

LEMMA IInvStep == IInv /\ [Next]_vars => IInv'
  <1> SUFFICES ASSUME IInv, [Next]_vars PROVE IInv'
    OBVIOUS
  <1>1. CASE \E h \in Handlers : Arrive(h) \/ Step(h)
    BY <1>1, SendingSteps, GetStep, WakeStep, StreamEndStep, CreationSteps, RecycleStep DEF Step
  <1>2. CASE UNCHANGED vars
    BY <1>2 DEF vars, IInv, Typed, HeldInv, OneLock, SessionInv, Normal, Inside
  <1>3. QED
    BY <1>1, <1>2, StopSteps, ClosingSteps DEF Next

THEOREM Invariance == Spec => []IInv
  BY InitIInv, IInvStep, PTL DEF Spec

(* The user owns at most one Claude session, starting or live, through     *)
(* creations, failed creations and recyclings, for any number of messages, *)
(* commands and timers -- unless stop() dropped a lock somebody held or    *)
(* waited for.                                                             *)
THEOREM OneSessionTheorem == Spec => []OneSession
  <1> DEFINE owned == {s \in Sessions : sess[s] \in {"starting", "live"}}
  <1>1. IInv /\ Normal => Cardinality(owned) <= 1
    <2> SUFFICES ASSUME IInv, Normal PROVE Cardinality(owned) <= 1
      OBVIOUS
    <2>1. \A s, t \in owned : s = t
      <3> SUFFICES ASSUME NEW s \in owned, NEW t \in owned PROVE s = t
        OBVIOUS
      <3>1. CASE sess[s] = "live" /\ sess[t] = "live"
        BY <3>1 DEF IInv, SessionInv
      <3>2. CASE sess[s] = "starting" /\ sess[t] = "starting"
        BY <3>2, OneInside DEF IInv, SessionInv, Inside
      <3>3. CASE sess[s] # sess[t]
        BY <3>3 DEF IInv, Typed, SessionInv, Inside
      <3>4. QED
        BY <3>1, <3>2, <3>3
    <2>2. CASE owned = {}
      BY <2>2, FS_EmptySet
    <2>3. CASE owned # {}
      <3>1. PICK s \in owned : owned = {s}
        BY <2>1, <2>3
      <3>2. Cardinality({s}) = 1
        BY FS_Singleton
      <3> HIDE DEF owned
      <3>3. QED
        BY <3>1, <3>2
    <2>4. QED
      BY <2>2, <2>3
  <1>2. IInv => OneSession
    BY <1>1 DEF Normal, OneSession
  <1>3. QED
    BY <1>2, Invariance, PTL
-----------------------------------------------------------------------------
(***************************************************************************)
(* The type invariant.  It is inductive: what a handler refers to is a     *)
(* matter of its own steps only.                                           *)
(***************************************************************************)
RefsOK ==
    \A h \in Handlers :
        /\ ref[h] = None <=> phase[h] \in {"idle", "arrived", "waiting", "compactWait"}
        /\ hlock[h] # None <=> phase[h] \in {"waiting", "creating", "compactWait",
                                            "recycleStop", "recycleStart"}

TasksOK ==
    /\ phase \in [Handlers -> Phases]
    /\ ref \in [Handlers -> Sessions \cup {None}]
    /\ hlock \in [Handlers -> Locks \cup {None}]
    /\ RefsOK

ObjectsOK ==
    /\ current \in Sessions \cup {None}
    /\ lockRef \in Locks \cup {None}
    /\ sess \in [Sessions -> SessionStates]
    /\ full \in BOOLEAN
    /\ owner \in [Locks -> Handlers \cup {None}]
    /\ waiters \in [Locks -> Seq(Handlers)]
    /\ plOwner \in [Sessions -> Handlers \cup {None}]
    /\ plWaiters \in [Sessions -> Seq(Handlers)]
    /\ stopping \in [Stoppers -> Sessions \cup {None}]
    /\ closing \in {"no", "waiting", "over"}

FlagsOK ==
    /\ timer \in BOOLEAN /\ dropped \in BOOLEAN
    /\ spent \subseteq Handlers \cup Stoppers \cup {None}

LEMMA TypeParts == TypeOK <=> TasksOK /\ ObjectsOK /\ FlagsOK
  BY DEF TypeOK, TasksOK, RefsOK, ObjectsOK, FlagsOK

LEMMA TypePartsNext == (TypeOK)' <=> TasksOK' /\ ObjectsOK' /\ FlagsOK'
  BY DEF TypeOK, TasksOK, RefsOK, ObjectsOK, FlagsOK

(* One handler moves on, to an await that fits what it refers to.          *)
MovesTo(h, p, r, l) ==
    /\ p \in Phases /\ r \in Sessions \cup {None} /\ l \in Locks \cup {None}
    /\ r = None <=> p \in {"idle", "arrived", "waiting", "compactWait"}
    /\ l # None <=> p \in {"waiting", "creating", "compactWait", "recycleStop",
                           "recycleStart"}
    /\ phase' = [phase EXCEPT ![h] = p]
    /\ ref' = [ref EXCEPT ![h] = r] \/ (ref' = ref /\ r = ref[h])
    /\ hlock' = [hlock EXCEPT ![h] = l] \/ (hlock' = hlock /\ l = hlock[h])

LEMMA TaskMoves ==
  ASSUME TasksOK, NEW h \in Handlers, NEW p, NEW r, NEW l, MovesTo(h, p, r, l)
  PROVE  TasksOK'
  <1> USE DEF MovesTo
  <1>1. /\ phase' \in [Handlers -> Phases] /\ phase'[h] = p
        /\ ref' \in [Handlers -> Sessions \cup {None}] /\ ref'[h] = r
        /\ hlock' \in [Handlers -> Locks \cup {None}] /\ hlock'[h] = l
        /\ \A g \in Handlers \ {h} :
             phase'[g] = phase[g] /\ ref'[g] = ref[g] /\ hlock'[g] = hlock[g]
    BY DEF TasksOK
  <1>2. RefsOK'
    BY <1>1 DEF TasksOK, RefsOK
  <1>3. QED
    BY <1>1, <1>2 DEF TasksOK

LEMMA TurnType ==
  ASSUME TypeOK, NEW t \in Handlers \cup Stoppers \cup {None}, Turn(t)
  PROVE  spent' \subseteq Handlers \cup Stoppers \cup {None}
  BY DEF TypeOK, Turn

LEMMA ArriveType == ASSUME TypeOK, NEW h \in Handlers, Arrive(h) PROVE TypeOK'
  BY TurnType DEF TypeOK, Arrive, mgrVars, lockVars, plVars, Phases

(* Inside get_or_create(), with the queue of the lock typed.               *)
LEMMA InsideGetType ==
  ASSUME TypeOK, NEW h \in Handlers, NEW l \in Locks, InsideGet(h, l),
         lockRef' \in Locks \cup {None}, waiters' \in [Locks -> Seq(Handlers)],
         UNCHANGED <<dropped, plVars, stopping, closing>>, Turn(h)
  PROVE  TypeOK'
  <1> USE TypeParts DEF plVars
  <1>1. CASE current # None
    <2>1. TasksOK'
      <3>1. MovesTo(h, "got", current, None)
        BY <1>1 DEF MovesTo, InsideGet, Return, Phases, ObjectsOK
      <3>2. QED
        BY <3>1, TaskMoves
    <2>2. ObjectsOK'
      BY <1>1 DEF InsideGet, ObjectsOK
    <2>3. FlagsOK'
      BY <1>1, TurnType DEF InsideGet, Return, FlagsOK
    <2>4. QED
      BY <2>1, <2>2, <2>3, TypePartsNext
  <1>2. CASE current = None
    <2>1. NewSession \in Sessions
      BY <1>2, NewObjects DEF InsideGet, BeginCreate
    <2>2. TasksOK'
      <3>1. MovesTo(h, "creating", NewSession, l)
        BY <1>2, <2>1 DEF MovesTo, InsideGet, BeginCreate, Phases
      <3>2. QED
        BY <3>1, TaskMoves
    <2>3. ObjectsOK'
      <3>1. /\ current' = None /\ owner' = [owner EXCEPT ![l] = h]
            /\ sess' = [sess EXCEPT ![NewSession] = "starting"]
            /\ full' = full
        BY <1>2 DEF InsideGet, BeginCreate
      <3>2. QED
        BY <2>1, <3>1 DEF ObjectsOK, SessionStates
    <2>4. FlagsOK'
      BY <1>2, TurnType DEF InsideGet, BeginCreate, FlagsOK
    <2>5. QED
      BY <2>2, <2>3, <2>4, TypePartsNext
  <1>3. QED
    BY <1>1, <1>2

LEMMA GetType == ASSUME TypeOK, NEW h \in Handlers, GetOrCreate(h) PROVE TypeOK'
  <1>1. PICK l \in Locks :
          /\ lockRef' = l
          /\ IF LockFree(l)
             THEN InsideGet(h, l) /\ waiters' = waiters
             ELSE /\ waiters' = [waiters EXCEPT ![l] = Append(@, h)]
                  /\ hlock' = [hlock EXCEPT ![h] = l]
                  /\ phase' = [phase EXCEPT ![h] = "waiting"]
                  /\ UNCHANGED <<current, timer, sess, full, owner, ref>>
    BY DEF GetOrCreate
  <1>2. phase[h] = "arrived" /\ UNCHANGED <<dropped, plVars, stopping, closing>> /\ Turn(h)
    BY DEF GetOrCreate
  <1>3. CASE LockFree(l)
    BY <1>1, <1>2, <1>3, InsideGetType DEF TypeOK
  <1>4. CASE ~LockFree(l)
    <2> USE TypeParts
    <2>1. ref[h] = None
      BY <1>2 DEF TypeOK
    <2>2. TasksOK'
      <3>1. MovesTo(h, "waiting", None, l)
        BY <1>1, <1>4, <2>1 DEF MovesTo, Phases
      <3>2. QED
        BY <3>1, TaskMoves
    <2>3. ObjectsOK'
      <3>1. waiters' \in [Locks -> Seq(Handlers)]
        BY <1>1, <1>4, Append(waiters[l], h) \in Seq(Handlers) DEF ObjectsOK
      <3>2. QED
        BY <1>1, <1>2, <1>4, <3>1 DEF ObjectsOK, plVars
    <2>4. FlagsOK'
      BY <1>1, <1>2, <1>4, TurnType DEF FlagsOK
    <2>5. QED
      BY <2>2, <2>3, <2>4, TypePartsNext
  <1>5. QED
    BY <1>3, <1>4

LEMMA WakeType == ASSUME TypeOK, NEW h \in Handlers, GetAfterWait(h) PROVE TypeOK'
  <1> DEFINE l == hlock[h]
  <1>1. /\ l \in Locks /\ waiters[l] # <<>> /\ InsideGet(h, l)
        /\ waiters' = [waiters EXCEPT ![l] = Tail(@)]
        /\ UNCHANGED <<dropped, lockRef, plVars, stopping, closing>> /\ Turn(h)
    BY DEF GetAfterWait, IsNextFor, TypeOK
  <1>2. waiters' \in [Locks -> Seq(Handlers)] /\ lockRef' \in Locks \cup {None}
    BY <1>1 DEF TypeOK
  <1> HIDE DEF l
  <1>3. QED
    BY <1>1, <1>2, InsideGetType

LEMMA CreationType ==
  ASSUME TypeOK, NEW h \in Handlers, Created(h) \/ CreateFails(h) \/ Recycled(h)
  PROVE  TypeOK'
  <1>1. ref[h] \in Sessions /\ hlock[h] \in Locks
    BY DEF TypeOK, Created, CreateFails, Recycled
  <1> USE DEF TypeOK, FinishCreate, Release, mgrVars, plVars, lockVars, Phases, SessionStates
  <1>2. CASE Created(h)
    BY <1>1, <1>2, TurnType DEF Created
  <1>3. CASE CreateFails(h)
    BY <1>1, <1>3, TurnType DEF CreateFails
  <1>4. CASE Recycled(h)
    BY <1>1, <1>4, TurnType DEF Recycled
  <1>5. QED
    BY <1>2, <1>3, <1>4

LEMMA SendingType ==
  ASSUME TypeOK, NEW h \in Handlers,
         \/ Send(h) \/ SendAfterWait(h) \/ Leave(h)
         \/ StreamRaises(h) \/ HandlerRaises(h) \/ Unwound(h)
  PROVE  TypeOK'
  <1>1. /\ ref[h] \in Sessions
        /\ phase[h] \in {"got", "queued"} => hlock[h] = None
    BY DEF TypeOK, Send, SendAfterWait, Leave, StreamRaises, HandlerRaises, Unwound
  <1>0. ASSUME Send(h) \/ SendAfterWait(h) PROVE TypeOK'
    <2> USE TypeParts
    <2>1. /\ phase[h] \in {"got", "queued"}
          /\ UNCHANGED <<dropped, mgrVars, sess, full, lockVars, ref, hlock, stopping,
                         closing>>
          /\ \E p \in {"streaming", "rejected", "queued"} : phase' = [phase EXCEPT ![h] = p]
      BY <1>0 DEF Send, SendAfterWait, TakeStream
    <2>2. TasksOK'
      <3>1. PICK p \in {"streaming", "rejected", "queued"} : phase' = [phase EXCEPT ![h] = p]
        BY <2>1
      <3>2. MovesTo(h, p, ref[h], None)
        BY <1>1, <2>1, <3>1 DEF MovesTo, Phases
      <3>3. QED
        BY <3>2, TaskMoves
    <2>3. plOwner' \in [Sessions -> Handlers \cup {None}]
      BY <1>0, <1>1 DEF Send, SendAfterWait, TakeStream, ObjectsOK
    <2>4. plWaiters' \in [Sessions -> Seq(Handlers)]
      <3>1. \/ plWaiters' = plWaiters
            \/ plWaiters' = [plWaiters EXCEPT ![ref[h]] = Append(@, h)]
            \/ /\ plWaiters[ref[h]] # <<>>
               /\ plWaiters' = [plWaiters EXCEPT ![ref[h]] = Tail(@)]
        BY <1>0 DEF Send, SendAfterWait
      <3>2. QED
        <4>1. plWaiters[ref[h]] \in Seq(Handlers)
          BY <1>1 DEF ObjectsOK
        <4>2. /\ Append(plWaiters[ref[h]], h) \in Seq(Handlers)
              /\ plWaiters[ref[h]] # <<>> => Tail(plWaiters[ref[h]]) \in Seq(Handlers)
          BY <4>1
        <4>3. QED
          BY <1>1, <3>1, <4>2 DEF ObjectsOK
    <2>5. ObjectsOK'
      BY <2>1, <2>3, <2>4 DEF ObjectsOK, mgrVars, lockVars
    <2>6. FlagsOK'
      BY <1>0, <2>1, TurnType DEF FlagsOK, mgrVars, Send, SendAfterWait
    <2>7. QED
      BY <2>2, <2>5, <2>6, TypePartsNext
  <1> USE DEF TypeOK, mgrVars, plVars, lockVars, Phases
  <1>4. CASE Leave(h)
    BY <1>1, <1>4, TurnType DEF Leave
  <1>5. CASE StreamRaises(h) \/ Unwound(h)
    <2>1. LeaveStream(h) /\ full' \in BOOLEAN
      BY <1>5 DEF StreamRaises, Unwound, LeaveStream, FullAfter
    <2>2. QED
      BY <1>1, <1>5, <2>1, TurnType DEF StreamRaises, Unwound, LeaveStream
  <1>6. CASE HandlerRaises(h)
    BY <1>1, <1>6, TurnType DEF HandlerRaises
  <1>7. QED
    BY <1>0, <1>4, <1>5, <1>6
-----------------------------------------------------------------------------
LEMMA StreamEndsType == ASSUME TypeOK, NEW h \in Handlers, StreamEnds(h) PROVE TypeOK'
  <1>1. /\ phase[h] = "streaming" /\ ref[h] \in Sessions
        /\ UNCHANGED <<dropped, plWaiters, stopping, closing>> /\ Turn(h)
        /\ plOwner' = [plOwner EXCEPT ![ref[h]] = None]
    BY DEF StreamEnds, TypeOK
  <1>0. hlock[h] = None
    BY <1>1 DEF TypeOK
  <1> USE TypeParts DEF lockVars
  <1>f. ASSUME timer' \in BOOLEAN PROVE FlagsOK'
    BY <1>1, <1>f, TurnType DEF FlagsOK
  <1>p. PICK f \in FullAfter(ref[h]) :
          IF MustCompact(f, ref[h])
          THEN \E l \in Locks : lockRef' = l
                                /\ IF LockFree(l) THEN Tears(h, l) ELSE Queues(h, l, f)
          ELSE /\ phase' = [phase EXCEPT ![h] = "idle"]
               /\ ref' = [ref EXCEPT ![h] = None]
               /\ full' = f
               /\ UNCHANGED <<current, lockRef, timer, sess, lockVars, hlock>>
    BY DEF StreamEnds, Tears, Queues
  <1>b. f \in BOOLEAN
    BY DEF FullAfter, ObjectsOK
  <1>2. CASE MustCompact(f, ref[h])
    <2>1. PICK l \in Locks : lockRef' = l
                            /\ IF LockFree(l) THEN Tears(h, l) ELSE Queues(h, l, f)
      BY <1>2, <1>p
    <2>2. current \in Sessions
      BY <1>2 DEF MustCompact, ObjectsOK
    <2>3. CASE LockFree(l)
      <3>1. TasksOK'
        <4>1. MovesTo(h, "recycleStop", current, l)
          BY <2>1, <2>2, <2>3 DEF MovesTo, Phases, Tears
        <4>2. QED
          BY <4>1, TaskMoves
      <3>2. ObjectsOK'
        <4>1. sess' \in [Sessions -> SessionStates] /\ owner' \in [Locks -> Handlers \cup {None}]
          <5>1. sess' = [sess EXCEPT ![current] = "stopping"] /\ owner' = [owner EXCEPT ![l] = h]
            BY <2>1, <2>3 DEF Tears
          <5>2. QED
            BY <2>2, <5>1 DEF ObjectsOK, SessionStates
        <4>2. plOwner' \in [Sessions -> Handlers \cup {None}]
          BY <1>1 DEF ObjectsOK
        <4>3. QED
          BY <1>1, <2>1, <2>3, <4>1, <4>2 DEF ObjectsOK, Tears
      <3>3. QED
        BY <2>1, <2>3, <3>1, <3>2, <1>f, TypePartsNext DEF Tears
    <2>4. CASE ~LockFree(l)
      <3>1. TasksOK'
        <4>1. MovesTo(h, "compactWait", None, l)
          BY <2>1, <2>4 DEF MovesTo, Phases, Queues
        <4>2. QED
          BY <4>1, TaskMoves
      <3>2. ObjectsOK'
        <4>1. waiters' \in [Locks -> Seq(Handlers)]
          BY <2>1, <2>4, Append(waiters[l], h) \in Seq(Handlers) DEF ObjectsOK, Queues
        <4>2. plOwner' \in [Sessions -> Handlers \cup {None}]
          BY <1>1 DEF ObjectsOK
        <4>3. QED
          BY <1>1, <1>b, <2>1, <2>4, <4>1, <4>2 DEF ObjectsOK, Queues
      <3>3. QED
        BY <2>1, <2>4, <3>1, <3>2, <1>f, TypePartsNext DEF FlagsOK, Queues
    <2>5. QED
      BY <2>3, <2>4
  <1>3. CASE ~MustCompact(f, ref[h])
    <2>1. /\ phase' = [phase EXCEPT ![h] = "idle"]
          /\ ref' = [ref EXCEPT ![h] = None]
          /\ full' = f
          /\ UNCHANGED <<current, lockRef, timer, sess, lockVars, hlock>>
      BY <1>3, <1>p
    <2>2. TasksOK'
      <3>1. MovesTo(h, "idle", None, None)
        BY <1>0, <2>1 DEF MovesTo, Phases
      <3>2. QED
        BY <3>1, TaskMoves
    <2>3. ObjectsOK'
      BY <1>1, <1>b, <2>1 DEF ObjectsOK
    <2>4. QED
      BY <2>1, <2>2, <2>3, <1>f, TypePartsNext DEF FlagsOK
  <1>4. QED
    BY <1>2, <1>3

LEMMA CompactType ==
  ASSUME TypeOK, NEW h \in Handlers, CompactAfterWait(h) \/ RecycleStopped(h)
  PROVE  TypeOK'
  <1> USE DEF Phases, SessionStates, lockVars, plVars
  <1>1. CASE CompactAfterWait(h)
    <2>1. /\ hlock[h] \in Locks
          /\ waiters' \in [Locks -> Seq(Handlers)]
      BY <1>1 DEF CompactAfterWait, IsNextFor, TypeOK
    <2>2. CASE current # None /\ full
      <3>1. TasksOK'
        <4>1. MovesTo(h, "recycleStop", current, hlock[h])
          BY <1>1, <2>1, <2>2, TypeParts DEF MovesTo, CompactAfterWait, InsideCompact, ObjectsOK
        <4>2. QED
          BY <4>1, TypeParts, TaskMoves
      <3>2. ObjectsOK'
        <4>1. /\ sess' = [sess EXCEPT ![current] = "stopping"] /\ current' = None
              /\ owner' = [owner EXCEPT ![hlock[h]] = h]
              /\ full' = FALSE
              /\ UNCHANGED <<lockRef, plOwner, plWaiters, stopping, closing>>
          BY <1>1, <2>2 DEF CompactAfterWait, InsideCompact
        <4>2. QED
          BY <2>1, <2>2, <4>1, TypeParts DEF ObjectsOK
      <3>3. FlagsOK'
        BY <1>1, <2>2, TypeParts, TurnType DEF CompactAfterWait, InsideCompact, FlagsOK
      <3>4. QED
        BY <3>1, <3>2, <3>3, TypePartsNext
    <2>3. CASE ~(current # None /\ full)
      <3>1. TasksOK'
        <4>1. MovesTo(h, "idle", None, None)
          BY <1>1, <2>1, <2>3 DEF MovesTo, CompactAfterWait, InsideCompact
        <4>2. QED
          BY <4>1, TypeParts, TaskMoves
      <3>2. ObjectsOK'
        BY <1>1, <2>1, <2>3, TypeParts DEF CompactAfterWait, InsideCompact, ObjectsOK
      <3>3. FlagsOK'
        BY <1>1, <2>3, TypeParts, TurnType DEF CompactAfterWait, InsideCompact, FlagsOK
      <3>4. QED
        BY <3>1, <3>2, <3>3, TypePartsNext
    <2>4. QED
      BY <2>2, <2>3
  <1>2. CASE RecycleStopped(h)
    BY <1>2, TurnType, NewObjects DEF RecycleStopped, TypeOK, mgrVars
  <1>3. QED
    BY <1>1, <1>2

LEMMA StoppingType ==
  ASSUME TypeOK,
         \/ \E p \in Commands : StopCommand(p)
         \/ \E p \in Evictors : Evict(p)
         \/ \E p \in Stoppers : Stopped(p)
         \/ StopAll \/ StopAllDone
  PROVE  TypeOK'
  <1> USE DEF TypeOK, SessionStates, lockVars, plVars, taskVars, PopLock, Stoppers
  <1>1. ASSUME NEW p \in Stoppers, StopCommand(p) \/ Evict(p) PROVE TypeOK'
    <2>1. /\ UNCHANGED <<lockVars, plVars, taskVars, closing>> /\ Turn(p)
          /\ current' = None /\ timer' = FALSE /\ full' = FALSE
      BY <1>1 DEF StopCommand, Evict, BeginStop
    <2>2. lockRef' \in Locks \cup {None} /\ dropped' \in BOOLEAN
      BY <1>1 DEF StopCommand, Evict, BeginStop
    <2>3. /\ sess' \in [Sessions -> SessionStates]
          /\ stopping' \in [Stoppers -> Sessions \cup {None}]
      <3>1. \/ UNCHANGED <<sess, stopping>>
            \/ /\ current # None
               /\ sess' = [sess EXCEPT ![current] = "stopping"]
               /\ stopping' = [stopping EXCEPT ![p] = current]
        BY <1>1 DEF StopCommand, Evict, BeginStop
      <3>2. /\ current \in Sessions \cup {None} /\ sess \in [Sessions -> SessionStates]
            /\ stopping \in [Stoppers -> Sessions \cup {None}]
        OBVIOUS
      <3> HIDE DEF TypeOK, Stoppers
      <3>3. QED
        BY <3>1, <3>2
    <2>4. QED
      BY <2>1, <2>2, <2>3, TurnType
  <1>2. ASSUME NEW p \in Stoppers, Stopped(p) PROVE TypeOK'
    BY <1>2, TurnType DEF Stopped
  <1>3. CASE StopAll
    BY <1>3, TurnType DEF StopAll
  <1>4. CASE StopAllDone
    BY <1>4, TurnType DEF StopAllDone
  <1>5. QED
    BY <1>1, <1>2, <1>3, <1>4

(* The type invariant, and with it: a handler refers to a session, and     *)
(* holds or awaits a user lock, exactly at the awaits where the code has   *)
(* the variable or is inside the `async with`.                             *)
THEOREM SessionTypeCorrect == Spec => []TypeOK
<1>1. Init => TypeOK
  <2> SUFFICES ASSUME Init PROVE TasksOK /\ ObjectsOK /\ FlagsOK
    BY TypeParts
  <2>1. TasksOK
    BY DEF Init, TasksOK, RefsOK, Phases
  <2>2. ObjectsOK
    <3>1. /\ waiters \in [Locks -> Seq(Handlers)]
          /\ plWaiters \in [Sessions -> Seq(Handlers)]
      BY DEF Init
    <3>2. full \in BOOLEAN
      BY DEF Init
    <3>3. QED
      BY <3>1, <3>2 DEF Init, ObjectsOK, SessionStates
  <2>3. FlagsOK
    BY DEF Init, FlagsOK
  <2>4. QED
    BY <2>1, <2>2, <2>3
<1>2. TypeOK /\ [Next]_vars => TypeOK'
  <2> SUFFICES ASSUME TypeOK, [Next]_vars PROVE TypeOK'
    OBVIOUS
  <2>1. CASE \E h \in Handlers : Arrive(h) \/ Step(h)
    BY <2>1, ArriveType, GetType, WakeType, CreationType, SendingType, StreamEndsType,
       CompactType DEF Step
  <2>2. CASE UNCHANGED vars
    BY <2>2 DEF vars, TypeOK
  <2>3. QED
    BY <2>1, <2>2, StoppingType DEF Next
<1>3. QED
  BY <1>1, <1>2, PTL DEF Spec
=============================================================================
