---------------------------- MODULE SessionManager ----------------------------
(***************************************************************************)
(* The sessions of one user: archon/ai/session_manager.py, driven by the   *)
(* message handler (archon/chat/handler.py), the commands that stop a      *)
(* session (archon/chat/commands.py) and the inactivity timer.  The state  *)
(* of another user is disjoint.                                            *)
(*                                                                         *)
(* A handler is the task of one Telegram message: it obtains the session,  *)
(* acknowledges, sends its prompt -- queueing on the pipeline's own lock   *)
(* if another message is streaming -- and finally checks whether the       *)
(* session must be recycled.  The per-user lock is an asyncio.Lock kept in *)
(* a dictionary; stop() removes it from there, so several lock objects may *)
(* be alive at once.  Session and lock objects nobody refers to any more   *)
(* are reused by the model (always the same of them: they do not differ).  *)
(*                                                                         *)
(* The event loop is not an arbitrary interleaving: the waiter woken by a  *)
(* release is resumed before any task can be resumed twice, see Turn.      *)
(***************************************************************************)
EXTENDS Naturals, Sequences, FiniteSets

CONSTANTS
    Handlers,      \* tasks that may be handling a message at the same time
    Commands,      \* tasks that may be running /clear, /stop or a model change
    Evictors,      \* expired inactivity timers that may be evicting at once
    Sessions,      \* session objects alive at the same time
    Locks,         \* lock objects alive at the same time
    CompactionOn,  \* auto_compact_threshold # 0
    None

ASSUME NoneAssumption == None \notin Handlers \cup Sessions \cup Locks
ASSUME CompactionAssumption == CompactionOn \in BOOLEAN

Stoppers == Commands \cup Evictors

VARIABLES
    current,    \* _sessions[user], or None
    lockRef,    \* _locks[user], or None
    timer,      \* _timers[user] holds a sleeping _evict_after task
    sess,       \* the state of each session object; one never used is "stopped"
    full,       \* the context of the user's session is above the compaction threshold
    owner,      \* who holds each user lock
    waiters,    \* its queue
    plOwner,    \* who holds each session's pipeline lock: the message streaming
    plWaiters,  \* its queue
    phase,      \* the await each handler is at
    ref,        \* the session each handler holds a reference to
    hlock,      \* the user lock each handler holds or waits for
    stopping,   \* the session each stopper is stopping, or None
    closing,    \* stop_all(): "no", "waiting" or "over"
    dropped,    \* history: stop() dropped a lock that was held or waited for
    spent       \* tasks resumed since a lock was released to a waiter

mgrVars == <<current, lockRef, timer>>
lockVars == <<owner, waiters>>
plVars == <<plOwner, plWaiters>>
taskVars == <<phase, ref, hlock>>
vars == <<current, lockRef, timer, sess, full, owner, waiters, plOwner, plWaiters,
          phase, ref, hlock, stopping, closing, dropped, spent>>

Phases == {"idle", "arrived", "waiting", "creating", "got", "queued", "streaming",
           "rejected", "unwinding", "compactWait", "recycleStop", "recycleStart"}
SessionStates == {"starting", "live", "stopping", "stopped"}

Init ==
    /\ current = None
    /\ lockRef = None
    /\ timer = FALSE
    /\ sess = [s \in Sessions |-> "stopped"]
    /\ full = FALSE
    /\ owner = [l \in Locks |-> None]
    /\ waiters = [l \in Locks |-> <<>>]
    /\ plOwner = [s \in Sessions |-> None]
    /\ plWaiters = [s \in Sessions |-> <<>>]
    /\ phase = [h \in Handlers |-> "idle"]
    /\ ref = [h \in Handlers |-> None]
    /\ hlock = [h \in Handlers |-> None]
    /\ stopping = [p \in Stoppers |-> None]
    /\ closing = "no"
    /\ dropped = FALSE
    /\ spent = {}
-----------------------------------------------------------------------------
\* An object with no reference left, or never used, can be the next new one.  (A
\* live one without a reference is leaked, and not followed further.)
FreshSession(s) ==
    /\ current # s
    /\ \A h \in Handlers : ref[h] # s
    /\ \A p \in Stoppers : stopping[p] # s

FreshSessions == {s \in Sessions : FreshSession(s)}
NewSession == CHOOSE s \in Sessions : FreshSession(s)

FreshLock(l) ==
    /\ lockRef # l
    /\ owner[l] = None
    /\ waiters[l] = <<>>

FreshLocks == {l \in Locks : FreshLock(l)}
NewLock == CHOOSE l \in Locks : FreshLock(l)

\* Mutant of LockFree: the lock is not looked at.
LockIgnored(l) == TRUE

\* `if user_id not in self._locks: self._locks[user_id] = asyncio.Lock()`
TheLock(l) == IF lockRef = None THEN FreshLocks # {} /\ l = NewLock
                                ELSE l = lockRef

\* An asyncio.Lock is taken without suspending only if nobody holds it and
\* nobody is queued; releasing it wakes the first waiter, which takes it when it
\* is next resumed.
LockFree(l) == owner[l] = None /\ waiters[l] = <<>>
IsProcessing(s) == plOwner[s] # None

\* A lock released to a waiter that has not been resumed yet.
Pending ==
    \/ \E l \in Locks : owner[l] = None /\ waiters[l] # <<>>
    \/ \E s \in Sessions : plOwner[s] = None /\ plWaiters[s] # <<>>

Woken(t) ==
    \/ \E l \in Locks : owner[l] = None /\ waiters[l] # <<>> /\ Head(waiters[l]) = t
    \/ \E s \in Sessions :
         plOwner[s] = None /\ plWaiters[s] # <<>> /\ Head(plWaiters[s]) = t

(***************************************************************************)
(* The event loop runs its ready queue in order.  A release puts the       *)
(* waiter in the queue: tasks already there come first, once each; whatever*)
(* they wait for next, and whatever the releasing task awaits next, is     *)
(* queued behind the waiter.                                               *)
(***************************************************************************)
Turn(t) ==
    /\ t \in spent => Woken(t)
    /\ spent' = IF ~Pending' THEN {}
                ELSE IF Pending /\ ~Woken(t) THEN spent \cup {t} ELSE {t}

\* _create_session() up to its await: the pipeline starts.
BeginCreate(h) ==
    /\ FreshSessions # {}
    /\ sess' = [sess EXCEPT ![NewSession] = "starting"]
    /\ ref' = [ref EXCEPT ![h] = NewSession]

\* The session reference is handed to the handler, the timer is reset.
Return(h, s) ==
    /\ timer' = TRUE
    /\ ref' = [ref EXCEPT ![h] = s]
    /\ phase' = [phase EXCEPT ![h] = "got"]

\* Inside `async with self._locks[user_id]` of get_or_create().
InsideGet(h, l) ==
    \/ /\ current # None
       /\ owner' = [owner EXCEPT ![l] = None]
       /\ hlock' = [hlock EXCEPT ![h] = None]
       /\ Return(h, current)
       /\ UNCHANGED <<current, sess, full>>
    \/ /\ current = None
       /\ owner' = [owner EXCEPT ![l] = h]
       /\ hlock' = [hlock EXCEPT ![h] = l]
       /\ BeginCreate(h)
       /\ phase' = [phase EXCEPT ![h] = "creating"]
       /\ UNCHANGED <<current, timer, full>>

\* A message arrives; the user message is recorded first (an await).
Arrive(h) ==
    /\ phase[h] = "idle"
    /\ closing = "no"
    /\ phase' = [phase EXCEPT ![h] = "arrived"]
    /\ UNCHANGED <<dropped, mgrVars, lockVars, plVars, sess, full, ref, hlock,
                   stopping, closing>>
    /\ Turn(h)

GetOrCreate(h) ==
    /\ phase[h] = "arrived"
    /\ \E l \in Locks :
         /\ TheLock(l)
         /\ lockRef' = l
         /\ IF LockFree(l)
            THEN InsideGet(h, l) /\ waiters' = waiters
            ELSE /\ waiters' = [waiters EXCEPT ![l] = Append(@, h)]
                 /\ hlock' = [hlock EXCEPT ![h] = l]
                 /\ phase' = [phase EXCEPT ![h] = "waiting"]
                 /\ UNCHANGED <<current, timer, sess, full, owner, ref>>
    /\ UNCHANGED <<dropped, plVars, stopping, closing>>
    /\ Turn(h)

\* The waiter woken by the release of its lock object.
IsNextFor(h, l) == owner[l] = None /\ waiters[l] # <<>> /\ Head(waiters[l]) = h

GetAfterWait(h) ==
    /\ phase[h] = "waiting"
    /\ LET l == hlock[h] IN
         /\ IsNextFor(h, l)
         /\ waiters' = [waiters EXCEPT ![l] = Tail(@)]
         /\ InsideGet(h, l)
    /\ UNCHANGED <<dropped, lockRef, plVars, stopping, closing>>
    /\ Turn(h)

\* session.start() returned: the session is stored and its timer started.
FinishCreate(s) ==
    /\ current' = s
    /\ sess' = [sess EXCEPT ![s] = "live"]
    /\ full' = FALSE
    /\ timer' = TRUE

Release(h) ==
    /\ owner' = [owner EXCEPT ![hlock[h]] = None]
    /\ hlock' = [hlock EXCEPT ![h] = None]

Created(h) ==
    /\ phase[h] = "creating"
    /\ FinishCreate(ref[h])
    /\ Release(h)
    /\ phase' = [phase EXCEPT ![h] = "got"]
    /\ UNCHANGED <<dropped, lockRef, waiters, plVars, ref, stopping, closing>>
    /\ Turn(h)

\* Mutant of CreateFails: the lock is not released when start() raises.
CreateFailsHolding(h) ==
    /\ phase[h] = "creating"
    /\ sess' = [sess EXCEPT ![ref[h]] = "stopped"]
    /\ phase' = [phase EXCEPT ![h] = "idle"]
    /\ ref' = [ref EXCEPT ![h] = None]
    /\ UNCHANGED <<dropped, mgrVars, full, lockVars, plVars, hlock, stopping, closing>>
    /\ Turn(h)

\* start() raises: the handler ends with the error, the lock is released.
CreateFails(h) ==
    /\ phase[h] = "creating"
    /\ sess' = [sess EXCEPT ![ref[h]] = "stopped"]
    /\ Release(h)
    /\ phase' = [phase EXCEPT ![h] = "idle"]
    /\ ref' = [ref EXCEPT ![h] = None]
    /\ UNCHANGED <<dropped, mgrVars, full, waiters, plVars, stopping, closing>>
    /\ Turn(h)
-----------------------------------------------------------------------------
(* Sending.  Between the reference and send() lie the acknowledgement and  *)
(* the typing indicator (awaits).                                          *)

\* The pipeline lock is taken.  A stopped session refuses the prompt ("Session
\* not started"); one that is stopping may still accept it.
TakeStream(h) ==
    /\ plOwner' = [plOwner EXCEPT ![ref[h]] = h]
    /\ \/ sess[ref[h]] # "stopped" /\ phase' = [phase EXCEPT ![h] = "streaming"]
       \/ sess[ref[h]] # "live"    /\ phase' = [phase EXCEPT ![h] = "rejected"]

Send(h) ==
    /\ phase[h] = "got"
    /\ LET s == ref[h] IN
         IF plOwner[s] = None /\ plWaiters[s] = <<>>
         THEN TakeStream(h) /\ plWaiters' = plWaiters
         ELSE /\ plWaiters' = [plWaiters EXCEPT ![s] = Append(@, h)]
              /\ phase' = [phase EXCEPT ![h] = "queued"]
              /\ plOwner' = plOwner
    /\ UNCHANGED <<dropped, mgrVars, sess, full, lockVars, ref, hlock, stopping, closing>>
    /\ Turn(h)

SendAfterWait(h) ==
    /\ phase[h] = "queued"
    /\ LET s == ref[h] IN
         /\ plOwner[s] = None
         /\ plWaiters[s] # <<>>
         /\ Head(plWaiters[s]) = h
         /\ plWaiters' = [plWaiters EXCEPT ![s] = Tail(@)]
    /\ TakeStream(h)
    /\ UNCHANGED <<dropped, mgrVars, sess, full, lockVars, ref, hlock, stopping, closing>>
    /\ Turn(h)

\* The task ends before it sends (a command that only wanted a session).
Leave(h) ==
    /\ phase[h] = "got"
    /\ phase' = [phase EXCEPT ![h] = "idle"]
    /\ ref' = [ref EXCEPT ![h] = None]
    /\ UNCHANGED <<dropped, mgrVars, sess, full, lockVars, plVars, hlock, stopping, closing>>
    /\ Turn(h)

\* Inside the lock of auto_compact_if_needed(): the session is looked up again,
\* its context measured again, then torn down.
InsideCompact(h, l) ==
    IF current # None /\ full
    THEN /\ owner' = [owner EXCEPT ![l] = h]
         /\ hlock' = [hlock EXCEPT ![h] = l]
         /\ ref' = [ref EXCEPT ![h] = current]
         /\ sess' = [sess EXCEPT ![current] = "stopping"]
         /\ current' = None
         /\ full' = FALSE
         /\ timer' = FALSE
         /\ phase' = [phase EXCEPT ![h] = "recycleStop"]
    ELSE /\ owner' = [owner EXCEPT ![l] = None]
         /\ hlock' = [hlock EXCEPT ![h] = None]
         /\ ref' = [ref EXCEPT ![h] = None]
         /\ phase' = [phase EXCEPT ![h] = "idle"]
         /\ UNCHANGED <<sess, current, full, timer>>

\* auto_compact_if_needed() before the lock: it looks at the session the user
\* has now, which need not be the one the message ran on.
MustCompact(nowFull, freed) ==
    /\ CompactionOn
    /\ current # None
    /\ nowFull
    /\ current = freed \/ ~IsProcessing(current)

\* Mutant of StreamRaises: the pipeline lock stays taken.
StreamRaisesHolding(h) ==
    /\ phase[h] \in {"streaming", "rejected"}
    /\ phase' = [phase EXCEPT ![h] = "idle"]
    /\ ref' = [ref EXCEPT ![h] = None]
    /\ UNCHANGED <<dropped, mgrVars, sess, full, lockVars, plVars, hlock, stopping, closing>>
    /\ Turn(h)

\* What a reply on session s may have made of the context that is looked at, that
\* of the session the user has now.
FullAfter(s) == IF s = current THEN {full, TRUE} ELSE {full}

\* The message has left the pipeline: its lock is released.  Also a reply that
\* broke off may have filled the context.
LeaveStream(h) ==
    /\ plOwner' = [plOwner EXCEPT ![ref[h]] = None]
    /\ full' \in FullAfter(ref[h])
    /\ phase' = [phase EXCEPT ![h] = "idle"]
    /\ ref' = [ref EXCEPT ![h] = None]
    /\ UNCHANGED <<dropped, mgrVars, sess, lockVars, plWaiters, hlock, stopping, closing>>
    /\ Turn(h)

\* The stream raises: the handler reports the error and ends without the check.
StreamRaises(h) == phase[h] \in {"streaming", "rejected"} /\ LeaveStream(h)

\* The handler itself raises while it reads the stream: it ends, and the pipeline's
\* generator is closed later, by a task of its own.
HandlerRaises(h) ==
    /\ phase[h] = "streaming"
    /\ phase' = [phase EXCEPT ![h] = "unwinding"]
    /\ UNCHANGED <<dropped, mgrVars, sess, full, lockVars, plVars, ref, hlock, stopping, closing>>
    /\ Turn(h)

Unwound(h) == phase[h] = "unwinding" /\ LeaveStream(h)

\* The stream is exhausted: the pipeline lock is released and, with no await in
\* between, the handler checks for auto-compaction.
StreamEnds(h) ==
    /\ phase[h] = "streaming"
    /\ plOwner' = [plOwner EXCEPT ![ref[h]] = None]
    /\ \E f \in FullAfter(ref[h]) :
         IF MustCompact(f, ref[h])
         THEN \E l \in Locks :
                /\ TheLock(l)
                /\ lockRef' = l
                /\ IF LockFree(l)
                   THEN /\ waiters' = waiters
                        /\ owner' = [owner EXCEPT ![l] = h]
                        /\ hlock' = [hlock EXCEPT ![h] = l]
                        /\ ref' = [ref EXCEPT ![h] = current]
                        /\ sess' = [sess EXCEPT ![current] = "stopping"]
                        /\ current' = None
                        /\ full' = FALSE
                        /\ timer' = FALSE
                        /\ phase' = [phase EXCEPT ![h] = "recycleStop"]
                   ELSE /\ waiters' = [waiters EXCEPT ![l] = Append(@, h)]
                        /\ hlock' = [hlock EXCEPT ![h] = l]
                        /\ ref' = [ref EXCEPT ![h] = None]
                        /\ phase' = [phase EXCEPT ![h] = "compactWait"]
                        /\ full' = f
                        /\ UNCHANGED <<current, timer, sess, owner>>
         ELSE /\ phase' = [phase EXCEPT ![h] = "idle"]
              /\ ref' = [ref EXCEPT ![h] = None]
              /\ full' = f
              /\ UNCHANGED <<current, lockRef, timer, sess, lockVars, hlock>>
    /\ UNCHANGED <<dropped, plWaiters, stopping, closing>>
    /\ Turn(h)

CompactAfterWait(h) ==
    /\ phase[h] = "compactWait"
    /\ IsNextFor(h, hlock[h])
    /\ waiters' = [waiters EXCEPT ![hlock[h]] = Tail(@)]
    /\ InsideCompact(h, hlock[h])
    /\ UNCHANGED <<dropped, lockRef, plVars, stopping, closing>>
    /\ Turn(h)

\* _teardown_session() is over: the replacement is created at once.
RecycleStopped(h) ==
    /\ phase[h] = "recycleStop"
    /\ FreshSessions # {}
    /\ sess' = [sess EXCEPT ![ref[h]] = "stopped", ![NewSession] = "starting"]
    /\ ref' = [ref EXCEPT ![h] = NewSession]
    /\ phase' = [phase EXCEPT ![h] = "recycleStart"]
    /\ UNCHANGED <<dropped, mgrVars, full, lockVars, plVars, hlock, stopping,
                   closing>>
    /\ Turn(h)

\* The replacement is stored, or its start() raised (logged by the handler).
Recycled(h) ==
    /\ phase[h] = "recycleStart"
    /\ \/ FinishCreate(ref[h])
       \/ sess' = [sess EXCEPT ![ref[h]] = "stopped"] /\ UNCHANGED <<current, full, timer>>
    /\ Release(h)
    /\ phase' = [phase EXCEPT ![h] = "idle"]
    /\ ref' = [ref EXCEPT ![h] = None]
    /\ UNCHANGED <<dropped, lockRef, waiters, plVars, stopping, closing>>
    /\ Turn(h)
-----------------------------------------------------------------------------
(* stop(): without the user lock, from a command or an expired timer.      *)

\* `self._locks.pop(user_id, None)`, whoever holds the lock or waits for it.
PopLock ==
    /\ lockRef' = None
    /\ dropped' = (dropped \/ (lockRef # None /\ ~LockFree(lockRef)))

\* _teardown_session() up to its await; without a session stop() ends at once.
BeginStop(p) ==
    /\ stopping[p] = None
    /\ timer' = FALSE
    /\ IF current # None
       THEN /\ sess' = [sess EXCEPT ![current] = "stopping"]
            /\ stopping' = [stopping EXCEPT ![p] = current]
            /\ UNCHANGED <<lockRef, dropped>>
       ELSE PopLock /\ UNCHANGED <<sess, stopping>>
    /\ current' = None
    /\ full' = FALSE

StopCommand(p) ==
    /\ p \in Commands
    /\ closing = "no"
    /\ BeginStop(p)
    /\ UNCHANGED <<lockVars, plVars, taskVars, closing>>
    /\ Turn(p)

\* The inactivity timer expires: a session that is processing is left alone (the
\* timer starts again), any other is stopped.
Evict(p) ==
    /\ p \in Evictors
    /\ timer
    /\ current # None => ~IsProcessing(current)
    /\ BeginStop(p)
    /\ UNCHANGED <<lockVars, plVars, taskVars, closing>>
    /\ Turn(p)

\* The session has stopped: the lock leaves the dictionary, whoever holds it or
\* waits for it.
Stopped(p) ==
    /\ stopping[p] # None
    /\ sess' = [sess EXCEPT ![stopping[p]] = "stopped"]
    /\ stopping' = [stopping EXCEPT ![p] = None]
    /\ PopLock
    /\ UNCHANGED <<current, timer, full, lockVars, plVars, taskVars, closing>>
    /\ Turn(p)

StopAll ==
    /\ closing = "no"
    /\ closing' = "waiting"
    /\ timer' = FALSE
    /\ sess' = IF current = None THEN sess ELSE [sess EXCEPT ![current] = "stopping"]
    /\ UNCHANGED <<dropped, current, lockRef, full, lockVars, plVars, taskVars, stopping>>
    /\ Turn(None)

\* Every session has stopped, or the three seconds it is given are over.
StopAllDone ==
    /\ closing = "waiting"
    /\ closing' = "over"
    /\ sess' = [s \in Sessions |-> IF s = current /\ sess[s] = "stopping"
                                   THEN "stopped" ELSE sess[s]]
    /\ current' = None
    /\ full' = FALSE
    /\ lockRef' = None
    /\ UNCHANGED <<dropped, timer, lockVars, plVars, taskVars, stopping>>
    /\ Turn(None)

Step(h) ==
    \/ GetOrCreate(h) \/ GetAfterWait(h) \/ Created(h) \/ CreateFails(h)
    \/ Send(h) \/ SendAfterWait(h) \/ Leave(h) \/ StreamRaises(h) \/ StreamEnds(h)
    \/ HandlerRaises(h) \/ Unwound(h)
    \/ CompactAfterWait(h) \/ RecycleStopped(h) \/ Recycled(h)

Next ==
    \/ \E h \in Handlers : Arrive(h) \/ Step(h)
    \/ \E p \in Commands : StopCommand(p)
    \/ \E p \in Evictors : Evict(p)
    \/ \E p \in Stoppers : Stopped(p)
    \/ StopAll
    \/ StopAllDone

Spec == Init /\ [][Next]_vars

(***************************************************************************)
(* Fairness: the event loop resumes every task that can run, and starting  *)
(* or stopping a Claude process returns (the SDK bounds both).  A stream   *)
(* ends: the pipeline gives it a wall-clock timeout (_TASK_DIRECT_TIMEOUT_S,*)
(* then _RETRY_TIMEOUT_S).  A message need not arrive.                     *)
(***************************************************************************)
Fairness ==
    /\ \A h \in Handlers : WF_vars(Step(h))
    /\ \A p \in Stoppers : WF_vars(Stopped(p))

FairSpec == Spec /\ Fairness
-----------------------------------------------------------------------------
(***************************************************************************)
(* Types; and a handler refers to a session, and holds or awaits a user    *)
(* lock, exactly at the awaits where the code has the variable or is       *)
(* inside the `async with`.                                                *)
(***************************************************************************)
TypeOK ==
    /\ current \in Sessions \cup {None}
    /\ lockRef \in Locks \cup {None}
    /\ timer \in BOOLEAN /\ full \in BOOLEAN /\ dropped \in BOOLEAN
    /\ sess \in [Sessions -> SessionStates]
    /\ owner \in [Locks -> Handlers \cup {None}]
    /\ waiters \in [Locks -> Seq(Handlers)]
    /\ plOwner \in [Sessions -> Handlers \cup {None}]
    /\ plWaiters \in [Sessions -> Seq(Handlers)]
    /\ phase \in [Handlers -> Phases]
    /\ ref \in [Handlers -> Sessions \cup {None}]
    /\ hlock \in [Handlers -> Locks \cup {None}]
    /\ \A h \in Handlers :
         /\ ref[h] = None <=> phase[h] \in {"idle", "arrived", "waiting", "compactWait"}
         /\ hlock[h] # None <=> phase[h] \in {"waiting", "creating", "compactWait",
                                             "recycleStop", "recycleStart"}
    /\ stopping \in [Stoppers -> Sessions \cup {None}]
    /\ closing \in {"no", "waiting", "over"}
    /\ spent \subseteq Handlers \cup Stoppers \cup {None}

(***************************************************************************)
(* What the manager says of its housekeeping: an eviction and an           *)
(* auto-compaction never "destroy a live SDK stream mid-flight", whatever  *)
(* they waited for since they decided.  Only /stop, /clear, a model change *)
(* and the shutdown interrupt a reply.  The code breaks it: a compaction   *)
(* that waited for the user lock does not look at is_processing again.     *)
(***************************************************************************)
NoTeardownOfStreaming ==
    [][\A s \in Sessions :
         /\ sess[s] = "live" /\ sess'[s] = "stopping"
         /\ \A p \in Commands : stopping'[p] = stopping[p]
         /\ closing' = closing
         => plOwner'[s] = None]_vars

(***************************************************************************)
(* The user owns at most one Claude session, through creations, failed     *)
(* creations and recyclings ("One persistent session per user") -- unless  *)
(* stop() dropped a lock somebody held or waited for, which is the only    *)
(* way to a second one.                                                    *)
(***************************************************************************)
OneSession ==
    closing = "no" /\ ~dropped =>
        Cardinality({s \in Sessions : sess[s] \in {"starting", "live"}}) <= 1

(***************************************************************************)
(* Every message waiting for its user lock gets its turn, whatever lock    *)
(* object it waits on -- also one stop() has dropped from the dictionary   *)
(* -- and whether the creation before it succeeds or fails.                *)
(***************************************************************************)
WaiterServed ==
    \A h \in Handlers :
        phase[h] \in {"waiting", "compactWait"} ~> phase[h] \notin {"waiting", "compactWait"}

(***************************************************************************)
(* A queued message leaves the queue: the pipeline lock is handed on also  *)
(* when the stream before it raises, or when its session is stopped.       *)
(***************************************************************************)
QueueMoves == \A h \in Handlers : phase[h] = "queued" ~> phase[h] # "queued"
=============================================================================
