---------------------------- MODULE TaskSession ----------------------------
(***************************************************************************)
(* The main Claude session of one user under the pipeline:                 *)
(* archon/ai/claude_session.py (send, stop, start, force_kill_for_recovery)*)
(* and archon/ai/pipeline.py (send, promotion, recovery, retry), with      *)
(* archon/ai/decomposer.py between them.                                   *)
(*                                                                         *)
(* A message is an execution of Pipeline.send(); it reads a generator of   *)
(* ClaudeSession.send(), and another one at its second attempt.  One that  *)
(* is dropped while suspended at a yield is closed later, by a task of its *)
(* own, and only then runs its finally block: a generator may outlive its  *)
(* attempt, and its message.  Clients are the objects ClaudeSDKClient, each*)
(* with at most one process; an identity is used again when nothing refers *)
(* to it any more.                                                         *)
(***************************************************************************)
EXTENDS Naturals, FiniteSets

CONSTANTS Messages, Clients, None

Gens == Messages \X {1, 2}

ASSUME NoneAssumption == None \notin Messages \cup Clients \cup Gens
ASSUME ClientsAssumption == Clients # {}

VARIABLES
    pipe,       \* the message that holds Pipeline._lock
    ph,         \* message -> the await of the pipeline it is at
    retry,      \* messages at their second attempt (_retry_after_timeout)
    spent,      \* messages whose recovery timeout fired and was swallowed
    gen,        \* the state of each generator of ClaudeSession.send()
    reads,      \* the client it reads
    holder,     \* the generator that acquired _send_lock; _processing is holder # None
    client,     \* ClaudeSession._client
    connected,  \* ClaudeSession._connected
    alive,      \* clients with a live process
    closing,    \* message -> the client its recovery is disconnecting
    stop,       \* Pipeline.stop(), called from outside: the session manager
    stopping,   \* the client stop() is disconnecting
    foreign     \* a generator has released a lock acquired by another one

pipeVars == <<pipe, ph, retry, spent, closing>>
genVars == <<gen, reads, holder, foreign>>
clientVars == <<client, connected, alive>>
stopVars == <<stop, stopping>>
vars == <<pipe, ph, retry, spent, gen, reads, holder, client, connected, alive, closing,
          stop, stopping, foreign>>

Init ==
    /\ pipe = None
    /\ ph = [m \in Messages |-> "new"]
    /\ retry = {} /\ spent = {}
    /\ gen = [g \in Gens |-> "none"]
    /\ reads = [g \in Gens |-> None]
    /\ holder = None
    /\ client = CHOOSE c \in Clients : TRUE
    /\ connected = TRUE
    /\ alive = {client}
    /\ closing = [m \in Messages |-> None]
    /\ stop = "no" /\ stopping = None
    /\ foreign = FALSE
-----------------------------------------------------------------------------
(* Pieces of the handlers.                                                 *)

\* The clients something refers to.
Referred == alive \cup {client, stopping} \cup {reads[g] : g \in Gens}
                  \cup {closing[m] : m \in Messages}

\* A new ClaudeSDKClient.
NewClient == CHOOSE c \in Clients : c \notin Referred

\* The generator of the present attempt.
Gen(m) == <<m, IF m \in retry THEN 2 ELSE 1>>

\* The message leaves Pipeline.send(): the lock is released.
End(m) ==
    /\ ph' = [ph EXCEPT ![m] = "ended"]
    /\ pipe' = None

\* A generator whose frame is left: suspended at a yield, it is dropped.
Dropped(m) ==
    gen' = [gen EXCEPT ![Gen(m)] =
              IF @ \in {"preparing", "streaming", "suspended"} THEN "abandoned" ELSE @]

\* The finally block of send(): `if self._send_lock.locked(): release()`, whoever
\* acquired the lock that the attribute holds now.
Release(g) ==
    /\ gen' = [gen EXCEPT ![g] = "done"]
    /\ reads' = [reads EXCEPT ![g] = None]
    /\ foreign' = (foreign \/ holder \notin {g, None})
    /\ holder' = None

\* Mutant of LockFree: send() does not wait.
LockIgnored == TRUE

LockFree == holder = None

Acquire(g) ==
    /\ gen' = [gen EXCEPT ![g] = "preparing"]
    /\ holder' = g
    /\ UNCHANGED <<reads, foreign>>

\* Mutant of BeginRecovery: the session is started over the old one.
BeginRecoveryNoStop(m) ==
    /\ ph' = [ph EXCEPT ![m] = "starting"]
    /\ client' = NewClient
    /\ UNCHANGED closing

\* recover_session(): stop() if connected, then start().
BeginRecovery(m) ==
    IF connected
    THEN /\ ph' = [ph EXCEPT ![m] = "stopping"]
         /\ closing' = [closing EXCEPT ![m] = client]
         /\ UNCHANGED client
    ELSE /\ ph' = [ph EXCEPT ![m] = "starting"]
         /\ client' = NewClient
         /\ UNCHANGED closing
-----------------------------------------------------------------------------
(* A message up to the session.                                            *)

Enter(m) ==
    /\ ph[m] = "new"
    /\ pipe = None
    /\ pipe' = m
    /\ ph' = [ph EXCEPT ![m] = "routing"]
    /\ UNCHANGED <<retry, spent, closing, genVars, clientVars, stopVars>>

\* Classifier and router, each under a timeout: an error or a plan (the session is
\* not used), or the session.
Route(m) ==
    /\ ph[m] = "routing"
    /\ End(m) \/ (ph' = [ph EXCEPT ![m] = "direct"] /\ UNCHANGED pipe)
    /\ UNCHANGED <<retry, spent, closing, genVars, clientVars, stopVars>>

\* Mutant of CallSend: a session that is not connected is not refused.
CallSendUnchecked(m) ==
    /\ ph[m] = "direct"
    /\ gen[Gen(m)] = "none"
    /\ IF LockFree THEN Acquire(Gen(m))
                   ELSE /\ gen' = [gen EXCEPT ![Gen(m)] = "waiting"]
                        /\ UNCHANGED <<reads, holder, foreign>>
    /\ UNCHANGED <<pipeVars, clientVars, stopVars>>

\* The first step of send(): "Session not started", or the lock.
CallSend(m) ==
    /\ ph[m] = "direct"
    /\ gen[Gen(m)] = "none"
    /\ \/ /\ ~connected
          /\ End(m)
          /\ gen' = [gen EXCEPT ![Gen(m)] = "done"]
          /\ UNCHANGED <<reads, holder, foreign>>
       \/ /\ connected /\ LockFree
          /\ Acquire(Gen(m))
          /\ UNCHANGED <<pipe, ph>>
       \/ /\ connected /\ ~LockFree
          /\ gen' = [gen EXCEPT ![Gen(m)] = "waiting"]
          /\ UNCHANGED <<pipe, ph, reads, holder, foreign>>
    /\ UNCHANGED <<retry, spent, closing, clientVars, stopVars>>

LockGranted(m) ==
    /\ gen[Gen(m)] = "waiting"
    /\ LockFree
    /\ Acquire(Gen(m))
    /\ UNCHANGED <<pipeVars, clientVars, stopVars>>

\* Reminder, context and skills were yielded; client.query(), which needs a client.
Query(m) ==
    /\ gen[Gen(m)] = "preparing"
    /\ ph[m] = "direct"
    /\ client # None
    /\ gen' = [gen EXCEPT ![Gen(m)] = "streaming"]
    /\ reads' = [reads EXCEPT ![Gen(m)] = client]
    /\ UNCHANGED <<holder, foreign, pipeVars, clientVars, stopVars>>

\* The stream ends, or raises: its generator is finished, nothing is left to drain.
StreamEnds(m) ==
    /\ ph[m] = "direct"
    /\ gen[Gen(m)] \in {"preparing", "streaming"}
    /\ End(m)
    /\ Release(Gen(m))
    /\ UNCHANGED <<retry, spent, closing, clientVars, stopVars>>

\* The consumer raises while the pipeline is suspended at a yield: the frames of
\* Pipeline.send() are unwound, the generator of the session is dropped as it is.
Abandon(m) ==
    /\ \/ ph[m] = "direct" /\ gen[Gen(m)] \in {"preparing", "streaming"}
       \/ ph[m] \in {"detected", "recovered"}
    /\ Dropped(m)
    /\ End(m)
    /\ UNCHANGED <<retry, spent, closing, reads, holder, foreign, clientVars, stopVars>>

\* The finally block of a dropped generator, after its drain, in a task of its own.
LateFinally(g) ==
    /\ gen[g] = "abandoned"
    /\ Release(g)
    /\ UNCHANGED <<pipeVars, clientVars, stopVars>>
-----------------------------------------------------------------------------
(* Promotion: too many tool calls.                                         *)

\* force_kill_for_recovery() frees the lock and kills the process; start() begins
\* in a task of its own.  The generator is left as it is, in the frame that awaits.
Promote(m) ==
    /\ ph[m] = "direct"
    /\ m \notin retry
    /\ gen[Gen(m)] = "streaming"
    /\ gen' = [gen EXCEPT ![Gen(m)] = "suspended"]
    /\ holder' = None
    /\ alive' = alive \ {client}
    /\ client' = NewClient
    /\ connected' = FALSE
    /\ ph' = [ph EXCEPT ![m] = "recovering"]
    /\ UNCHANGED <<pipe, retry, spent, closing, reads, foreign, stopVars>>

PromotionRecovers(m) ==
    /\ ph[m] = "recovering"
    /\ connected' = TRUE
    /\ alive' = alive \cup {client}
    /\ End(m)
    /\ Dropped(m)
    /\ UNCHANGED <<client, retry, spent, closing, reads, holder, foreign, stopVars>>

\* start() raises or is cancelled after _RECOVERY_TIMEOUT_S.
PromotionFails(m) ==
    /\ ph[m] = "recovering"
    /\ End(m)
    /\ Dropped(m)
    /\ UNCHANGED <<retry, spent, closing, reads, holder, foreign, clientVars, stopVars>>
-----------------------------------------------------------------------------
(* Timeout: the stream, or the wait for the lock, took too long.           *)

\* The first attempt reports that the timeout was detected and may lose its consumer
\* there; the second one goes on to the recovery at once.
AfterTimeout(m) ==
    /\ IF m \in retry THEN BeginRecovery(m)
                      ELSE /\ ph' = [ph EXCEPT ![m] = "detected"]
                           /\ UNCHANGED <<client, closing>>
    /\ spent' = spent \ {m}
    /\ UNCHANGED <<pipe, retry, connected, alive, stopVars>>

\* The cancellation ends the generator: one that waits for the lock just leaves,
\* another one runs its finally block (its stream was cancelled with it, so there
\* is nothing to drain).
TimesOut(m) ==
    /\ ph[m] = "direct"
    /\ gen[Gen(m)] \in {"waiting", "preparing", "streaming"}
    /\ IF gen[Gen(m)] = "waiting"
       THEN gen' = [gen EXCEPT ![Gen(m)] = "done"] /\ UNCHANGED <<reads, holder, foreign>>
       ELSE Release(Gen(m))
    /\ AfterTimeout(m)

\* The deadline has passed when the consumer asks for the next event.  Closing
\* answer() drops the generator of the session, which keeps the lock until its
\* finally; the one of a second attempt is closed after the recovery only.
TimesOutAtYield(m) ==
    /\ ph[m] = "direct"
    /\ gen[Gen(m)] \in {"preparing", "streaming"}
    /\ gen' = [gen EXCEPT ![Gen(m)] = IF m \in retry THEN "suspended" ELSE "abandoned"]
    /\ UNCHANGED <<reads, holder, foreign>>
    /\ AfterTimeout(m)

Recover(m) ==
    /\ ph[m] = "detected"
    /\ BeginRecovery(m)
    /\ UNCHANGED <<pipe, retry, spent, connected, alive, genVars, stopVars>>

\* What stop() leaves, however disconnect() went; start() follows.
Disconnected(m) ==
    /\ connected' = FALSE
    /\ alive' = alive \ {closing[m]}
    /\ client' = NewClient
    /\ closing' = [closing EXCEPT ![m] = None]
    /\ ph' = [ph EXCEPT ![m] = "starting"]
    /\ UNCHANGED <<pipe, retry, genVars, stopVars>>

RecoveryStops(m) ==
    /\ ph[m] = "stopping"
    /\ Disconnected(m)
    /\ UNCHANGED spent

\* Mutant of RecoveryStopTimesOut: the cancellation does not reach disconnect().
RecoveryStopWaits(m) ==
    /\ ph[m] = "stopping"
    /\ spent' = spent \cup {m}
    /\ UNCHANGED <<pipe, ph, retry, closing, genVars, clientVars, stopVars>>

\* _RECOVERY_TIMEOUT_S expires during disconnect(): stop() catches the
\* CancelledError, closes the transport and uncancels the task, so that no
\* TimeoutError follows and start() runs without a timeout.
RecoveryStopTimesOut(m) ==
    /\ ph[m] = "stopping"
    /\ Disconnected(m)
    /\ spent' = spent \cup {m}

\* After the second attempt the message ends, however its recovery did.
RecoveryConnects(m) ==
    /\ ph[m] = "starting"
    /\ connected' = TRUE
    /\ alive' = alive \cup {client}
    /\ IF m \in retry
       THEN End(m) /\ Dropped(m)
       ELSE ph' = [ph EXCEPT ![m] = "recovered"] /\ UNCHANGED <<pipe, gen>>
    /\ UNCHANGED <<client, retry, spent, closing, reads, holder, foreign, stopVars>>

ConnectFails(m) ==
    /\ ph[m] = "starting"
    /\ End(m)
    /\ Dropped(m)
    /\ UNCHANGED <<retry, spent, closing, reads, holder, foreign, clientVars, stopVars>>

ConnectTimesOut(m) ==
    /\ m \notin spent
    /\ ConnectFails(m)

\* A background agent takes over, or the request is tried again.
AfterRecovery(m) ==
    /\ ph[m] = "recovered"
    /\ \/ End(m) /\ UNCHANGED retry
       \/ /\ ph' = [ph EXCEPT ![m] = "direct"]
          /\ retry' = retry \cup {m}
          /\ UNCHANGED pipe
    /\ UNCHANGED <<spent, closing, genVars, clientVars, stopVars>>
-----------------------------------------------------------------------------
(* Pipeline.stop(), from the session manager, at any time.                 *)

Stop ==
    /\ stop = "no"
    /\ IF connected
       THEN stop' = "disconnecting" /\ stopping' = client
       ELSE stop' = "done" /\ UNCHANGED stopping
    /\ UNCHANGED <<pipeVars, genVars, clientVars>>

Stopped ==
    /\ stop = "disconnecting"
    /\ connected' = FALSE
    /\ alive' = alive \ {stopping}
    /\ stop' = "done" /\ stopping' = None
    /\ UNCHANGED <<client, pipeVars, genVars>>
-----------------------------------------------------------------------------
Message(m) ==
    \/ Enter(m) \/ Route(m) \/ CallSend(m) \/ LockGranted(m) \/ Query(m) \/ StreamEnds(m)
    \/ Abandon(m)
    \/ Promote(m) \/ PromotionRecovers(m) \/ PromotionFails(m)
    \/ TimesOut(m) \/ TimesOutAtYield(m) \/ Recover(m)
    \/ RecoveryStops(m) \/ RecoveryStopTimesOut(m)
    \/ RecoveryConnects(m) \/ ConnectFails(m) \/ ConnectTimesOut(m) \/ AfterRecovery(m)

Next ==
    \/ \E m \in Messages : Message(m)
    \/ \E g \in Gens : LateFinally(g)
    \/ Stop \/ Stopped

Spec == Init /\ [][Next]_vars

(***************************************************************************)
(* Fairness: a task that can go on does, and a timer expires.  Nothing is  *)
(* assumed of Claude: a stream, disconnect() and connect() may hang.       *)
(***************************************************************************)
FairSpec ==
    /\ Spec
    /\ \A g \in Gens : WF_vars(LateFinally(g))
    /\ \A m \in Messages :
         /\ WF_vars(Route(m)) /\ WF_vars(CallSend(m))
         /\ WF_vars(TimesOut(m) \/ TimesOutAtYield(m))
         /\ WF_vars(Recover(m)) /\ WF_vars(PromotionFails(m))
         /\ WF_vars(RecoveryStopTimesOut(m)) /\ WF_vars(ConnectTimesOut(m))
         /\ WF_vars(AfterRecovery(m))

\* Each connect() returns or raises some time.
ConnectsEnd == \A m \in Messages : WF_vars(RecoveryConnects(m) \/ ConnectFails(m))

LiveSpec == FairSpec /\ ConnectsEnd
-----------------------------------------------------------------------------
(***************************************************************************)
(* Types; the pipeline lock is held by the one message in progress; a      *)
(* generator that is finished or not begun never holds the send lock       *)
(* (claude_session.py: "GUARANTEED to run even on CancelledError").        *)
(***************************************************************************)
TypeOK ==
    /\ pipe \in Messages \cup {None} /\ holder \in Gens \cup {None}
    /\ ph \in [Messages -> {"new", "routing", "direct", "detected", "stopping", "starting",
                            "recovered", "recovering", "ended"}]
    /\ gen \in [Gens -> {"none", "waiting", "preparing", "streaming", "suspended", "abandoned",
                         "done"}]
    /\ reads \in [Gens -> Clients \cup {None}]
    /\ closing \in [Messages -> Clients \cup {None}]
    /\ retry \subseteq Messages /\ spent \subseteq Messages
    /\ alive \subseteq Clients /\ client \in Clients /\ stopping \in Clients \cup {None}
    /\ connected \in BOOLEAN /\ foreign \in BOOLEAN
    /\ stop \in {"no", "disconnecting", "done"}
    /\ \A m \in Messages : ph[m] \notin {"new", "ended"} <=> pipe = m
    /\ \A g \in Gens : reads[g] # None => gen[g] \in {"streaming", "suspended", "abandoned"}
    /\ holder # None => gen[holder] \in {"preparing", "streaming", "suspended", "abandoned"}

(***************************************************************************)
(* "wait for any in-flight send() to finish before starting a new one":    *)
(* two generators never read the same client, an abandoned one that is     *)
(* still draining included, as long as no generator has released a lock    *)
(* it did not hold (LateFinally can, after a promotion).                   *)
(***************************************************************************)
ExclusiveStream ==
    ~foreign =>
        \A g, h \in Gens : g # h /\ reads[g] # None => reads[g] # reads[h]

(***************************************************************************)
(* However a session is recovered, its last process is the one the session *)
(* refers to, and it refers to a live one when it says it is connected:    *)
(* until stop() is called no process is out of its reach.                  *)
(***************************************************************************)
OneProcess == stop = "no" => alive = (IF connected THEN {client} ELSE {})

(***************************************************************************)
(* A session that could not be brought back is not used: send() looks at   *)
(* _connected before it waits for the lock and not after, and still who    *)
(* prepares or streams an answer has the live process, until stop() is     *)
(* called.                                                                 *)
(***************************************************************************)
LiveSessionUsed ==
    \A m \in Messages :
        stop = "no" /\ ph[m] = "direct" /\ gen[Gen(m)] \in {"preparing", "streaming"} =>
            /\ client \in alive
            /\ reads[Gen(m)] \in {client, None}

(***************************************************************************)
(* A message never holds the pipeline lock for ever, though a stream and   *)
(* disconnect() may hang, if connect() does not.                           *)
(***************************************************************************)
MessageEnds == \A m \in Messages : (pipe = m) ~> (pipe # m)
=============================================================================
