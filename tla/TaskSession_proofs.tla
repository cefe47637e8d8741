------------------------- MODULE TaskSession_proofs -------------------------
(***************************************************************************)
(* Proofs about TaskSession, for any number of messages.  What is proved   *)
(* of readers needs a new client to be new (FreshClient), which it is as   *)
(* there is no end of Clients: only finitely many are ever in use.         *)
(***************************************************************************)
EXTENDS TaskSession, FiniteSetTheorems, TLAPS

FreshClient == \E c \in Clients : c \notin Referred

USE NoneAssumption, ClientsAssumption

(* The variables but for the clients.                                      *)
Typed ==
    /\ pipe \in Messages \cup {None} /\ holder \in Gens \cup {None}
    /\ ph \in [Messages -> {"new", "routing", "direct", "detected", "stopping", "starting",
                            "recovered", "recovering", "ended"}]
    /\ gen \in [Gens -> {"none", "waiting", "preparing", "streaming", "suspended", "abandoned",
                         "done"}]
    /\ stop \in {"no", "disconnecting", "done"}
    /\ retry \subseteq Messages /\ spent \subseteq Messages

(* One message at a time is in the pipeline.                               *)
PipeInv == \A m \in Messages : ph[m] \notin {"new", "ended"} <=> pipe = m

(* What the await of a message says about its two generators.              *)
GenAt(m) ==
    /\ ph[m] \in {"new", "routing"} => m \notin retry /\ gen[<<m, 1>>] = "none"
    /\ ph[m] # "direct" => gen[Gen(m)] \notin {"waiting", "preparing", "streaming"}
    /\ ph[m] = "direct" => gen[Gen(m)] \in {"none", "waiting", "preparing", "streaming"}
    /\ ph[m] \in {"detected", "recovered", "recovering"} => m \notin retry
    /\ m \in retry \/ ph[m] \in {"detected", "stopping", "starting", "recovered"} =>
         gen[<<m, 1>>] \in {"abandoned", "done"}
    /\ m \notin retry => gen[<<m, 2>>] = "none"

GenInv == \A m \in Messages : GenAt(m)

HolderInv == holder # None => gen[holder] \in {"preparing", "streaming", "suspended", "abandoned"}

PhaseInv == Typed /\ PipeInv /\ GenInv /\ HolderInv

LEMMA GenOf ==
  ASSUME NEW m \in Messages
  PROVE  /\ <<m, 1>> \in Gens /\ <<m, 2>> \in Gens /\ Gen(m) \in Gens
         /\ Gen(m) = IF m \in retry THEN <<m, 2>> ELSE <<m, 1>>
         /\ Gen(m)' = IF m \in retry' THEN <<m, 2>> ELSE <<m, 1>>
  BY DEF Gens, Gen

LEMMA PhaseInit == Init => PhaseInv
  BY GenOf DEF Init, PhaseInv, Typed, PipeInv, GenInv, GenAt, HolderInv

(* A message moves on to the await p and its present generator to state s. *)
Moves(m, p, s) ==
    /\ ph' = [ph EXCEPT ![m] = p] /\ gen' = [gen EXCEPT ![Gen(m)] = s]
    /\ p \in {"direct", "detected", "stopping", "starting", "recovered", "recovering", "ended"}
    /\ s \in {"none", "waiting", "preparing", "streaming", "suspended", "abandoned", "done"}
    /\ p = "direct" <=> s \in {"waiting", "preparing", "streaming"}
    /\ p \in {"detected", "recovered", "recovering"} => m \notin retry
    /\ p \in {"detected", "stopping", "starting", "recovered"} /\ m \notin retry =>
         s \in {"abandoned", "done"}

(* A step of a message that is in the pipeline keeps what is known, if the *)
(* lock of the session is held by a generator that can hold it.            *)
LEMMA MoveStep ==
  ASSUME PhaseInv, NEW m \in Messages, pipe = m, NEW p, NEW s, Moves(m, p, s),
         retry' = retry, spent' \subseteq Messages, stop' = stop,
         p = "ended" => pipe' = None, p # "ended" => pipe' = pipe,
         \/ holder' = None
         \/ holder' = holder /\ (holder # Gen(m)
                                 \/ s \in {"preparing", "streaming", "suspended", "abandoned"})
         \/ holder' = Gen(m) /\ s = "preparing"
  PROVE  PhaseInv'
  <1> USE DEF PhaseInv, Typed
  <1> DEFINE g == Gen(m)
  <1>0. g \in Gens /\ Gen(m)' = g
    BY GenOf
  <1>1. /\ gen'[g] = s /\ \A h \in Gens : h # g => gen'[h] = gen[h]
        /\ ph'[m] = p /\ \A n \in Messages : n # m => ph'[n] = ph[n]
    BY <1>0 DEF Moves
  <1>2. Typed'
    BY <1>0 DEF Moves
  <1>3. PipeInv'
    BY <1>1 DEF PipeInv, Moves
  <1>4. HolderInv'
    BY <1>0, <1>1 DEF HolderInv, Moves
  <1>5. GenInv'
    <2>1. ASSUME NEW n \in Messages, n # m
          PROVE  /\ gen'[<<n, 1>>] = gen[<<n, 1>>] /\ gen'[<<n, 2>>] = gen[<<n, 2>>]
                 /\ Gen(n)' = Gen(n) /\ gen'[Gen(n)] = gen[Gen(n)] /\ ph'[n] = ph[n]
      BY <1>1, <2>1, GenOf DEF Gen
    <2>2. /\ m \in retry => g = <<m, 2>> /\ gen'[<<m, 1>>] = gen[<<m, 1>>]
          /\ m \notin retry => g = <<m, 1>> /\ gen'[<<m, 2>>] = gen[<<m, 2>>]
      BY <1>1, GenOf
    <2>3. ASSUME NEW n \in Messages, n # m PROVE GenAt(n)'
      BY <2>1, <2>3 DEF GenInv, GenAt
    <2>4. GenAt(m)'
      BY <1>0, <1>1, <2>2 DEF GenInv, GenAt, Moves
    <2>5. QED
      BY <2>3, <2>4 DEF GenInv
  <1>6. QED
    BY <1>2, <1>3, <1>4, <1>5

(* The messages in the pipeline, and what holds of them.                   *)
LEMMA InPipe ==
  ASSUME PhaseInv, NEW m \in Messages
  PROVE  /\ ph[m] \notin {"new", "ended"} => pipe = m
         /\ Gen(m) \in Gens /\ gen = [gen EXCEPT ![Gen(m)] = gen[Gen(m)]]
         /\ ph = [ph EXCEPT ![m] = ph[m]]
         /\ gen[Gen(m)] \in {"none", "waiting", "preparing", "streaming", "suspended",
                             "abandoned", "done"}
         /\ holder = Gen(m) => gen[Gen(m)] \in {"preparing", "streaming", "suspended",
                                                "abandoned"}
         /\ ph[m] \in {"detected", "stopping", "starting", "recovered"} /\ m \notin retry =>
              gen[Gen(m)] \in {"abandoned", "done"}
         /\ ph[m] \in {"detected", "recovered", "recovering"} => m \notin retry
         /\ ph[m] = "direct" => gen[Gen(m)] \in {"none", "waiting", "preparing", "streaming"}
         /\ ph[m] # "direct" => gen[Gen(m)] \notin {"waiting", "preparing", "streaming"}
         /\ gen[Gen(m)] \in {"waiting", "preparing", "streaming"} => ph[m] = "direct"
  BY GenOf DEF PhaseInv, Typed, PipeInv, GenInv, GenAt, HolderInv

LEMMA DropMoves ==
  ASSUME PhaseInv, NEW m \in Messages, gen[Gen(m)] # "waiting", Dropped(m), End(m)
  PROVE  /\ \E s \in {"none", "abandoned", "done"} :
              /\ Moves(m, "ended", s)
              /\ holder = Gen(m) => s = "abandoned"
         /\ pipe' = None
  <1> DEFINE s == IF gen[Gen(m)] \in {"preparing", "streaming", "suspended"} THEN "abandoned"
                                                                              ELSE gen[Gen(m)]
  <1>1. gen' = [gen EXCEPT ![Gen(m)] = s] /\ ph' = [ph EXCEPT ![m] = "ended"]
    BY InPipe DEF Dropped, End
  <1>2. s \in {"none", "abandoned", "done"} /\ (holder = Gen(m) => s = "abandoned")
    BY InPipe
  <1> HIDE DEF s
  <1>3. QED
    BY <1>1, <1>2 DEF Moves, End

LEMMA PhaseStep == PhaseInv /\ [Next]_vars => PhaseInv'
  <1> SUFFICES ASSUME PhaseInv, [Next]_vars PROVE PhaseInv'
    OBVIOUS
  <1> USE DEF pipeVars, genVars, clientVars, stopVars
  <1>1. ASSUME NEW m \in Messages, Enter(m) \/ Route(m) PROVE PhaseInv'
    BY <1>1, GenOf DEF Enter, Route, End, PhaseInv, Typed, PipeInv, GenInv, GenAt, HolderInv
  <1>2. ASSUME NEW m \in Messages, CallSend(m) PROVE PhaseInv'
    <2>1. /\ \/ Moves(m, "ended", "done") /\ pipe' = None /\ holder' = holder
             \/ Moves(m, "direct", "preparing") /\ pipe' = pipe /\ holder' = Gen(m)
             \/ Moves(m, "direct", "waiting") /\ pipe' = pipe /\ holder' = holder
          /\ pipe = m /\ holder # Gen(m)
          /\ UNCHANGED <<retry, spent, stop>>
      BY <1>2, InPipe DEF CallSend, End, Acquire, Moves
    <2>2. QED
      BY <2>1, MoveStep DEF PhaseInv, Typed
  <1>3. ASSUME NEW m \in Messages, LockGranted(m) \/ Query(m) PROVE PhaseInv'
    <2>1. /\ \/ Moves(m, "direct", "preparing") /\ holder' = Gen(m)
             \/ Moves(m, "direct", "streaming") /\ holder' = holder
          /\ pipe = m
          /\ UNCHANGED <<pipe, retry, spent, stop>>
      BY <1>3, InPipe DEF LockGranted, Query, Acquire, Moves
    <2>2. QED
      BY <2>1, MoveStep DEF PhaseInv, Typed
  <1>4. ASSUME NEW m \in Messages, StreamEnds(m) PROVE PhaseInv'
    <2>1. /\ Moves(m, "ended", "done") /\ pipe = m /\ pipe' = None /\ holder' = None
          /\ UNCHANGED <<retry, spent, stop>>
      BY <1>4, InPipe DEF StreamEnds, End, Release, Moves
    <2>2. QED
      BY <2>1, MoveStep DEF PhaseInv, Typed
  <1>5. ASSUME NEW m \in Messages,
               \/ Abandon(m) \/ PromotionRecovers(m) \/ PromotionFails(m)
               \/ ConnectFails(m) \/ ConnectTimesOut(m)
               \/ RecoveryConnects(m) /\ m \in retry
        PROVE  PhaseInv'
    <2>1. /\ pipe = m /\ gen[Gen(m)] # "waiting" /\ Dropped(m) /\ End(m)
          /\ UNCHANGED <<retry, spent, stop, holder>>
      BY <1>5, InPipe DEF Abandon, PromotionRecovers, PromotionFails, ConnectFails,
         ConnectTimesOut, RecoveryConnects
    <2>2. PICK s \in {"none", "abandoned", "done"} :
            /\ Moves(m, "ended", s)
            /\ holder = Gen(m) => s = "abandoned"
      BY <2>1, DropMoves
    <2>3. pipe' = None
      BY <2>1 DEF End
    <2>4. QED
      BY <2>1, <2>2, <2>3, MoveStep DEF PhaseInv, Typed
  <1>6. ASSUME NEW g \in Gens, LateFinally(g) PROVE PhaseInv'
    BY <1>6, GenOf DEF LateFinally, Release, PhaseInv, Typed, PipeInv, GenInv, GenAt, HolderInv
  <1>7. ASSUME NEW m \in Messages, Promote(m) PROVE PhaseInv'
    <2>1. /\ Moves(m, "recovering", "suspended") /\ pipe = m /\ holder' = None
          /\ UNCHANGED <<pipe, retry, spent, stop>>
      BY <1>7, InPipe DEF Promote, Moves
    <2>2. QED
      BY <2>1, MoveStep DEF PhaseInv, Typed
  <1>8. ASSUME NEW m \in Messages, TimesOut(m) PROVE PhaseInv'
    <2>1. \E p \in {"detected", "stopping", "starting"} : Moves(m, p, "done")
      BY <1>8, InPipe DEF TimesOut, AfterTimeout, Release, BeginRecovery, Moves
    <2>2. /\ pipe = m /\ UNCHANGED <<pipe, retry, stop>> /\ spent' = spent \ {m}
          /\ holder' = None \/ (holder' = holder /\ holder # Gen(m))
      BY <1>8, InPipe DEF TimesOut, AfterTimeout, Release
    <2>3. QED
      BY <2>1, <2>2, MoveStep DEF PhaseInv, Typed
  <1>9. ASSUME NEW m \in Messages, TimesOutAtYield(m) PROVE PhaseInv'
    <2>1. \E p \in {"detected", "stopping", "starting"} : \E s \in {"suspended", "abandoned"} :
             Moves(m, p, s)
      <3>1. CASE m \in retry
        BY <1>9, <3>1, InPipe DEF TimesOutAtYield, AfterTimeout, BeginRecovery, Moves
      <3>2. CASE m \notin retry
        BY <1>9, <3>2, InPipe DEF TimesOutAtYield, AfterTimeout, Moves
      <3>3. QED
        BY <3>1, <3>2
    <2>2. pipe = m /\ UNCHANGED <<pipe, retry, stop, holder>> /\ spent' = spent \ {m}
      BY <1>9, InPipe DEF TimesOutAtYield, AfterTimeout
    <2>3. QED
      BY <2>1, <2>2, MoveStep DEF PhaseInv, Typed
  <1>10. ASSUME NEW m \in Messages,
                \/ Recover(m) \/ RecoveryStops(m) \/ RecoveryStopTimesOut(m)
                \/ RecoveryConnects(m) /\ m \notin retry
         PROVE  PhaseInv'
    <2>1. /\ \E p \in {"stopping", "starting", "recovered"} : ph' = [ph EXCEPT ![m] = p]
          /\ pipe = m /\ UNCHANGED <<pipe, retry, stop, gen, holder>>
          /\ spent' \in {spent, spent \cup {m}}
          /\ ph[m] \in {"detected", "stopping", "starting"}
          /\ RecoveryConnects(m) => ph' = [ph EXCEPT ![m] = "recovered"]
          /\ ~RecoveryConnects(m) =>
               \E p \in {"stopping", "starting"} : ph' = [ph EXCEPT ![m] = p]
      BY <1>10, InPipe DEF Recover, BeginRecovery, RecoveryStops, RecoveryStopTimesOut,
         Disconnected, RecoveryConnects
    <2>2. \E p \in {"stopping", "starting", "recovered"} : Moves(m, p, gen[Gen(m)])
      <3>1. gen' = [gen EXCEPT ![Gen(m)] = gen[Gen(m)]]
        BY <2>1, InPipe
      <3> DEFINE s == gen[Gen(m)]
      <3>2. s \in {"suspended", "abandoned", "done", "none"}
        BY <2>1, InPipe
      <3>3. m \notin retry => s \in {"abandoned", "done"}
        BY <2>1, InPipe
      <3> HIDE DEF s
      <3>4. CASE RecoveryConnects(m)
        <4>1. Moves(m, "recovered", s)
          BY <1>10, <2>1, <3>1, <3>2, <3>3, <3>4 DEF Moves, s, RecoveryStops,
             RecoveryStopTimesOut, Recover, RecoveryConnects
        <4>2. QED
          BY <4>1 DEF s
      <3>5. CASE ~RecoveryConnects(m)
        <4>1. PICK p \in {"stopping", "starting"} : ph' = [ph EXCEPT ![m] = p]
          BY <2>1, <3>5
        <4>2. Moves(m, p, s)
          BY <3>1, <3>2, <3>3, <4>1 DEF Moves, s
        <4>3. QED
          BY <4>2 DEF s
      <3>6. QED
        BY <3>4, <3>5
    <2>3. QED
      BY <2>1, <2>2, InPipe, MoveStep DEF PhaseInv, Typed
  <1>11. ASSUME NEW m \in Messages, AfterRecovery(m) PROVE PhaseInv'
    BY <1>11, GenOf DEF AfterRecovery, End, PhaseInv, Typed, PipeInv, GenInv, GenAt, HolderInv
  <1>12. CASE Stop \/ Stopped
    BY <1>12, GenOf DEF Stop, Stopped, PhaseInv, Typed, PipeInv, GenInv, GenAt, HolderInv
  <1>13. CASE UNCHANGED vars
    BY <1>13, GenOf DEF vars, PhaseInv, Typed, PipeInv, GenInv, GenAt, HolderInv
  <1>14. QED
    BY <1>1, <1>2, <1>3, <1>4, <1>5, <1>6, <1>7, <1>8, <1>9, <1>10, <1>11, <1>12, <1>13
       DEF Next, Message
-----------------------------------------------------------------------------
(* The process of the session, until stop() is called.                     *)

(***************************************************************************)
(* The process is the client's, if there is one.  A recovery disconnects   *)
(* the client the session still has, starts a session that is not          *)
(* connected, and leaves one that is; a message whose generator got as far *)
(* as the lock found the session connected, and nobody disconnected it     *)
(* since.                                                                  *)
(***************************************************************************)
ProcessAt(m) ==
    /\ ph[m] = "stopping" => connected /\ closing[m] = client
    /\ ph[m] \in {"starting", "recovering"} => ~connected
    /\ ph[m] \in {"detected", "recovered"} => connected
    /\ ph[m] = "direct" /\ gen[Gen(m)] \in {"waiting", "preparing", "streaming"} =>
         connected /\ reads[Gen(m)] \in {client, None}

ProcessInv ==
    stop = "no" => /\ alive = (IF connected THEN {client} ELSE {})
                   /\ pipe # None => ProcessAt(pipe)

(* What is known of the clients without a new one being new.               *)
ClosingInv ==
    /\ closing = [m \in Messages |-> closing[m]]
    /\ reads = [g \in Gens |-> reads[g]]
    /\ \A g \in Gens : gen[g] \in {"none", "waiting", "preparing"} => reads[g] = None

LEMMA ProcessInit == Init => ClosingInv /\ ProcessInv
  BY DEF Init, ClosingInv, ProcessInv

(* No generator that has read is one that has not begun.                   *)
LEMMA GenSteps ==
  ASSUME PhaseInv, [Next]_vars, NEW g \in Gens, reads' = reads,
         gen'[g] \in {"none", "waiting", "preparing"}
  PROVE  gen[g] \in {"none", "waiting", "preparing"}
  <1> USE GenOf DEF PhaseInv, Typed, pipeVars, genVars
  <1>1. ASSUME NEW m \in Messages, Message(m) PROVE gen[g] \in {"none", "waiting", "preparing"}
    <2>1. CASE Enter(m) \/ Route(m) \/ CallSend(m) \/ LockGranted(m) \/ Query(m) \/ StreamEnds(m)
      BY <2>1 DEF Enter, Route, CallSend, LockGranted, Query, StreamEnds, Acquire, Release
    <2>2. CASE \/ Abandon(m) \/ Promote(m) \/ PromotionRecovers(m) \/ PromotionFails(m)
               \/ TimesOut(m) \/ TimesOutAtYield(m) \/ Recover(m)
      BY <2>2 DEF Abandon, Dropped, Promote, PromotionRecovers, PromotionFails, TimesOut,
         TimesOutAtYield, Recover, Release
    <2>3. CASE \/ RecoveryStops(m) \/ RecoveryStopTimesOut(m) \/ RecoveryConnects(m)
               \/ ConnectFails(m) \/ ConnectTimesOut(m) \/ AfterRecovery(m)
      BY <2>3 DEF RecoveryStops, RecoveryStopTimesOut, Disconnected, RecoveryConnects,
         ConnectFails, ConnectTimesOut, Dropped, AfterRecovery
    <2>4. QED
      BY <1>1, <2>1, <2>2, <2>3 DEF Message
  <1>2. QED
    BY <1>1 DEF Next, LateFinally, Release, Stop, Stopped, vars

LEMMA ClosingStep == PhaseInv /\ ClosingInv /\ [Next]_vars => ClosingInv'
  <1> SUFFICES ASSUME PhaseInv, ClosingInv, [Next]_vars PROVE ClosingInv'
    OBVIOUS
  <1>1. closing' = [m \in Messages |-> closing'[m]]
    BY DEF ClosingInv, Next, Message, Enter, Route, CallSend, LockGranted, Query, StreamEnds,
       Abandon, LateFinally, Promote, PromotionRecovers, PromotionFails, TimesOut,
       TimesOutAtYield, AfterTimeout, Recover, BeginRecovery, RecoveryStops,
       RecoveryStopTimesOut, Disconnected, RecoveryConnects, ConnectFails, ConnectTimesOut,
       AfterRecovery, Stop, Stopped, vars, pipeVars
  <1>2. \/ reads' = reads
        \/ \E g \in Gens : Release(g)
        \/ \E m \in Messages : Query(m)
    BY GenOf DEF Next, Message, Enter, Route, CallSend, LockGranted, Query, StreamEnds,
       Abandon, LateFinally, Promote, PromotionRecovers, PromotionFails, TimesOut,
       TimesOutAtYield, AfterTimeout, Recover, BeginRecovery, RecoveryStops,
       RecoveryStopTimesOut, Disconnected, RecoveryConnects, ConnectFails, ConnectTimesOut,
       AfterRecovery, Stop, Stopped, vars, genVars, Acquire
  <1>3. CASE reads' = reads
    BY <1>1, <1>3, GenSteps DEF ClosingInv
  <1>4. CASE \E g \in Gens : Release(g)
    BY <1>1, <1>4 DEF ClosingInv, Release, PhaseInv, Typed
  <1>5. CASE \E m \in Messages : Query(m)
    BY <1>1, <1>5, GenOf DEF ClosingInv, Query, PhaseInv, Typed
  <1>6. QED
    BY <1>2, <1>3, <1>4, <1>5

LEMMA ProcessStep ==
  ASSUME PhaseInv, ClosingInv, ProcessInv, [Next]_vars
  PROVE  ProcessInv'
  <1> USE DEF PhaseInv, Typed, ClosingInv, ProcessInv, ProcessAt, pipeVars, genVars, clientVars,
              stopVars
  <1>1. ASSUME NEW m \in Messages, Enter(m) PROVE ProcessInv'
    <2>1. pipe' = m /\ ph'[m] = "routing" /\ UNCHANGED <<stop, alive, connected, client>>
      BY <1>1 DEF Enter
    <2>2. QED
      BY <2>1, <1>1 DEF Enter
  <1>2. ASSUME NEW m \in Messages, Route(m) PROVE ProcessInv'
    <2>1. /\ pipe = m /\ UNCHANGED <<stop, alive, connected, client, gen, reads>>
          /\ ph[m] = "routing" /\ retry' = retry
      BY <1>2, InPipe DEF Route
    <2>2. Gen(m)' = Gen(m) /\ gen[Gen(m)] = "none"
      BY <2>1, GenOf DEF GenInv, GenAt
    <2>3. pipe' = None \/ (pipe' = m /\ ph'[m] = "direct")
      BY <1>2, <2>1 DEF Route, End
    <2>4. QED
      BY <2>1, <2>2, <2>3
  <1>3. ASSUME NEW m \in Messages, CallSend(m) PROVE ProcessInv'
    <2>1. /\ pipe = m /\ UNCHANGED <<stop, alive, connected, client, reads>>
          /\ Gen(m)' = Gen(m) /\ reads[Gen(m)] = None
      BY <1>3, InPipe, GenOf DEF CallSend, Acquire
    <2>2. pipe' = None \/ (pipe' = m /\ ph'[m] = "direct" /\ connected)
      BY <1>3, <2>1 DEF CallSend, End
    <2>3. QED
      BY <2>1, <2>2
  <1>4. ASSUME NEW m \in Messages, LockGranted(m) \/ Query(m) PROVE ProcessInv'
    <2>1. /\ UNCHANGED <<pipe, ph, stop, alive, connected, client>>
          /\ Gen(m) \in Gens /\ Gen(m)' = Gen(m)
          /\ gen[Gen(m)] \in {"waiting", "preparing"}
          /\ reads' \in {reads, [reads EXCEPT ![Gen(m)] = client]}
      <3>1. CASE LockGranted(m)
        BY <3>1, GenOf DEF LockGranted, Acquire
      <3>2. CASE Query(m)
        BY <3>2, GenOf DEF Query
      <3>3. QED
        BY <1>4, <3>1, <3>2
    <2>2. pipe = m /\ ph[m] = "direct"
      BY <2>1, InPipe DEF GenInv, GenAt
    <2>3. QED
      BY <2>1, <2>2
  <1>5. ASSUME NEW m \in Messages, StreamEnds(m) \/ Abandon(m) \/ PromotionFails(m) \/ ConnectFails(m) \/ ConnectTimesOut(m)
        PROVE  ProcessInv'
    BY <1>5, InPipe, GenOf DEF StreamEnds, Abandon, PromotionFails, ConnectFails, ConnectTimesOut, End
  <1>6. ASSUME NEW g \in Gens, LateFinally(g) PROVE ProcessInv'
    <2>1. /\ UNCHANGED <<pipe, ph, retry, closing, client, connected, alive, stop>>
          /\ \A h \in Gens : h # g => gen'[h] = gen[h] /\ reads'[h] = reads[h]
          /\ gen[g] = "abandoned" /\ gen'[g] = "done"
      BY <1>6 DEF LateFinally, Release
    <2>2. pipe # None => Gen(pipe) \in Gens /\ Gen(pipe)' = Gen(pipe)
      BY <2>1, GenOf
    <2>3. QED
      BY <2>1, <2>2
  <1>7. ASSUME NEW m \in Messages, Promote(m)
        PROVE  ProcessInv'
    BY <1>7, InPipe, GenOf DEF Promote
  <1>8. ASSUME NEW m \in Messages, PromotionRecovers(m)
        PROVE  ProcessInv'
    BY <1>8, InPipe, GenOf DEF PromotionRecovers, End
  <1>9. ASSUME NEW m \in Messages, TimesOut(m)
        PROVE  ProcessInv'
    BY <1>9, InPipe, GenOf DEF TimesOut, AfterTimeout, BeginRecovery
  <1>10. ASSUME NEW m \in Messages, TimesOutAtYield(m) \/ Recover(m)
        PROVE  ProcessInv'
    BY <1>10, InPipe, GenOf DEF TimesOutAtYield, Recover, AfterTimeout, BeginRecovery
  <1>11. ASSUME NEW m \in Messages, RecoveryStops(m) \/ RecoveryStopTimesOut(m)
        PROVE  ProcessInv'
    BY <1>11, InPipe, GenOf DEF RecoveryStops, RecoveryStopTimesOut, Disconnected
  <1>12. ASSUME NEW m \in Messages, RecoveryConnects(m)
        PROVE  ProcessInv'
    BY <1>12, InPipe, GenOf DEF RecoveryConnects, End
  <1>13. ASSUME NEW m \in Messages, AfterRecovery(m) PROVE ProcessInv'
    <2>1. pipe = m /\ m \notin retry /\ UNCHANGED <<stop, alive, connected, client, gen, reads>>
      BY <1>13, InPipe DEF AfterRecovery
    <2>2. \/ pipe' = None
          \/ /\ pipe' = m /\ ph'[m] = "direct" /\ m \in retry' /\ Gen(m)' = <<m, 2>>
             /\ gen[<<m, 2>>] = "none"
      BY <1>13, <2>1, GenOf DEF AfterRecovery, End, GenInv, GenAt
    <2>3. QED
      BY <2>1, <2>2
  <1>14. CASE Stop \/ Stopped
    BY <1>14 DEF Stop, Stopped
  <1>15. CASE UNCHANGED vars
    BY <1>15 DEF vars, Gen
  <1>16. QED
    BY <1>1, <1>2, <1>3, <1>4, <1>5, <1>6, <1>7, <1>8, <1>9, <1>10, <1>11, <1>12, <1>13, <1>14, <1>15
       DEF Next, Message

THEOREM SessionInvariant == Spec => [](PhaseInv /\ ClosingInv /\ ProcessInv)
  BY PhaseInit, PhaseStep, ClosingStep, ProcessInit, ProcessStep, PTL DEF Spec

(* However a session is recovered, its last process is the one the session *)
(* refers to, and it refers to a live one when it says it is connected.    *)
THEOREM OneProcessTheorem == Spec => []OneProcess
  <1>1. ProcessInv => OneProcess
    BY DEF ProcessInv, OneProcess
  <1>2. QED
    BY <1>1, SessionInvariant, PTL

(* Who prepares or streams an answer has the live process, though only     *)
(* what was connected before it waited for the lock is looked at.          *)
THEOREM LiveSessionTheorem == Spec => []LiveSessionUsed
  <1>1. PhaseInv /\ ProcessInv => LiveSessionUsed
    BY DEF PhaseInv, Typed, PipeInv, ProcessInv, ProcessAt, LiveSessionUsed
  <1>2. QED
    BY <1>1, SessionInvariant, PTL
-----------------------------------------------------------------------------
(* The readers of the clients.                                             *)

ClientsTyped ==
    /\ reads \in [Gens -> Clients \cup {None}]
    /\ closing \in [Messages -> Clients \cup {None}]
    /\ alive \subseteq Clients /\ client \in Clients /\ stopping \in Clients \cup {None}
    /\ connected \in BOOLEAN /\ foreign \in BOOLEAN
    /\ \A g \in Gens : reads[g] # None => gen[g] \in {"streaming", "suspended", "abandoned"}

(***************************************************************************)
(* A generator that prepares or streams holds the send lock; one that reads*)
(* without holding it was left by a promotion, which left it a client the  *)
(* session does not have any more -- and no new client is one that is read.*)
(***************************************************************************)
ReaderInv ==
    ~foreign =>
        /\ \A g \in Gens : gen[g] \in {"preparing", "streaming"} => holder = g
        /\ \A g \in Gens : reads[g] # None /\ holder # g => reads[g] # client
        /\ ExclusiveStream

LEMMA ReaderInit == Init => ClientsTyped /\ ReaderInv
  BY DEF Init, ClientsTyped, ReaderInv, ExclusiveStream

LEMMA NewClientIsNew == FreshClient => NewClient \in Clients /\ NewClient \notin Referred
  BY DEF FreshClient, NewClient

LEMMA ClientsStep ==
  ASSUME PhaseInv, ClientsTyped, FreshClient, [Next]_vars
  PROVE  ClientsTyped'
  <1> USE DEF PhaseInv, Typed, PipeInv, GenInv, GenAt, HolderInv, ClientsTyped,
              pipeVars, genVars, clientVars, stopVars
  <1>0. NewClient \in Clients
    BY NewClientIsNew
  <1>1. ASSUME NEW m \in Messages, Enter(m) \/ Route(m) PROVE ClientsTyped'
    BY <1>1, GenOf DEF Enter, Route, End
  <1>2. ASSUME NEW m \in Messages, CallSend(m) \/ LockGranted(m) \/ Query(m) PROVE ClientsTyped'
    <2>1. CASE CallSend(m)
      BY <2>1, GenOf DEF CallSend, End, Acquire, LockFree
    <2>2. CASE LockGranted(m)
      BY <2>2, GenOf DEF LockGranted, Acquire, LockFree
    <2>3. CASE Query(m)
      BY <2>3, GenOf DEF Query
    <2>4. QED
      BY <1>2, <2>1, <2>2, <2>3
  <1>3. ASSUME NEW m \in Messages, StreamEnds(m) PROVE ClientsTyped'
    BY <1>3, GenOf DEF StreamEnds, End, Release
  <1>4. ASSUME NEW m \in Messages, Abandon(m) PROVE ClientsTyped'
    BY <1>4, GenOf DEF Abandon, End, Dropped
  <1>5. ASSUME NEW g \in Gens, LateFinally(g) PROVE ClientsTyped'
    BY <1>5, GenOf DEF LateFinally, Release
  <1>6. ASSUME NEW m \in Messages, Promote(m) PROVE ClientsTyped'
    BY <1>6, GenOf, <1>0 DEF Promote
  <1>7. ASSUME NEW m \in Messages, PromotionRecovers(m) \/ PromotionFails(m)
        PROVE  ClientsTyped'
    <2>1. /\ UNCHANGED <<reads, closing, client, stopping, foreign>>
          /\ alive' \subseteq alive \cup {client} /\ connected' \in {connected, TRUE}
          /\ Dropped(m) \/ gen' = gen
      BY <1>7 DEF PromotionRecovers, PromotionFails
    <2>2. \A g \in Gens : gen[g] \in {"streaming", "suspended", "abandoned"} =>
                           gen'[g] \in {"streaming", "suspended", "abandoned"}
      BY <2>1, GenOf DEF Dropped
    <2>3. QED
      BY <2>1, <2>2
  <1>8. ASSUME NEW m \in Messages, TimesOut(m) PROVE ClientsTyped'
    <2>1. /\ client' \in Clients /\ closing' \in [Messages -> Clients \cup {None}]
          /\ UNCHANGED <<connected, alive, stopping>>
      BY <1>8, <1>0 DEF TimesOut, AfterTimeout, BeginRecovery
    <2>2. CASE gen[Gen(m)] = "waiting"
      BY <1>8, <2>1, <2>2, GenOf DEF TimesOut
    <2>3. CASE gen[Gen(m)] # "waiting"
      BY <1>8, <2>1, <2>3, GenOf DEF TimesOut, Release
    <2>4. QED
      BY <2>2, <2>3
  <1>9. ASSUME NEW m \in Messages, TimesOutAtYield(m) PROVE ClientsTyped'
    <2>1. CASE m \in retry
      BY <1>9, <2>1, GenOf, <1>0 DEF TimesOutAtYield, AfterTimeout, BeginRecovery
    <2>2. CASE m \notin retry
      BY <1>9, <2>2, GenOf, <1>0 DEF TimesOutAtYield, AfterTimeout, BeginRecovery
    <2>3. QED
      BY <2>1, <2>2
  <1>10. ASSUME NEW m \in Messages, Recover(m) PROVE ClientsTyped'
    BY <1>10, GenOf, <1>0 DEF Recover, BeginRecovery
  <1>11. ASSUME NEW m \in Messages, RecoveryStops(m) \/ RecoveryStopTimesOut(m) PROVE ClientsTyped'
    BY <1>11, GenOf, <1>0 DEF RecoveryStops, RecoveryStopTimesOut, Disconnected
  <1>12. ASSUME NEW m \in Messages, RecoveryConnects(m) \/ ConnectFails(m) \/ ConnectTimesOut(m)
        PROVE  ClientsTyped'
    <2>1. /\ UNCHANGED <<reads, closing, client, stopping, foreign>>
          /\ alive' \subseteq alive \cup {client} /\ connected' \in {connected, TRUE}
          /\ Dropped(m) \/ gen' = gen
      BY <1>12 DEF RecoveryConnects, ConnectFails, ConnectTimesOut
    <2>2. \A g \in Gens : gen[g] \in {"streaming", "suspended", "abandoned"} =>
                           gen'[g] \in {"streaming", "suspended", "abandoned"}
      BY <2>1, GenOf DEF Dropped
    <2>3. QED
      BY <2>1, <2>2
  <1>13. ASSUME NEW m \in Messages, AfterRecovery(m) PROVE ClientsTyped'
    BY <1>13, GenOf DEF AfterRecovery, End
  <1>14. CASE Stop \/ Stopped
    BY <1>14, GenOf DEF Stop, Stopped
  <1>15. CASE UNCHANGED vars
    BY <1>15, GenOf DEF vars
  <1>16. QED
    BY <1>1, <1>2, <1>3, <1>4, <1>5, <1>6, <1>7, <1>8, <1>9, <1>10, <1>11, <1>12, <1>13, <1>14, <1>15
       DEF Next, Message

LEMMA ReaderStep ==
  ASSUME PhaseInv, ClientsTyped, ReaderInv, FreshClient, [Next]_vars
  PROVE  ReaderInv'
  <1> USE DEF PhaseInv, Typed, PipeInv, GenInv, GenAt, HolderInv, ClientsTyped, ReaderInv,
              ExclusiveStream, pipeVars, genVars, clientVars, stopVars
  <1>0. NewClient \in Clients /\ NewClient # client /\ \A h \in Gens : reads[h] # NewClient
    BY NewClientIsNew DEF Referred
  <1>1. ASSUME NEW m \in Messages, Enter(m) \/ Route(m) PROVE ReaderInv'
    BY <1>1, GenOf DEF Enter, Route, End
  <1>2. ASSUME NEW m \in Messages, CallSend(m) \/ LockGranted(m) \/ Query(m) PROVE ReaderInv'
    <2>1. CASE CallSend(m)
      BY <2>1, GenOf DEF CallSend, End, Acquire, LockFree
    <2>2. CASE LockGranted(m)
      BY <2>2, GenOf DEF LockGranted, Acquire, LockFree
    <2>3. CASE Query(m)
      BY <2>3, GenOf DEF Query
    <2>4. QED
      BY <1>2, <2>1, <2>2, <2>3
  <1>3. ASSUME NEW m \in Messages, StreamEnds(m) PROVE ReaderInv'
    BY <1>3, GenOf DEF StreamEnds, End, Release
  <1>4. ASSUME NEW m \in Messages, Abandon(m) PROVE ReaderInv'
    BY <1>4, GenOf DEF Abandon, End, Dropped
  <1>5. ASSUME NEW g \in Gens, LateFinally(g) PROVE ReaderInv'
    <2>1. /\ gen' = [gen EXCEPT ![g] = "done"]
          /\ reads' = [reads EXCEPT ![g] = None]
          /\ holder' = None /\ foreign' = (foreign \/ holder \notin {g, None})
          /\ client' = client
      BY <1>5 DEF LateFinally, Release
    <2>2. SUFFICES ASSUME ~foreign' PROVE ReaderInv'
      OBVIOUS
    <2>3. ~foreign /\ holder \in {g, None}
      BY <2>1, <2>2
    <2>4. \A h \in Gens \ {g} : gen'[h] = gen[h] /\ gen[h] \notin {"preparing", "streaming"}
      BY <2>1, <2>3, GenOf
    <2>5. gen'[g] = "done" /\ \A h \in Gens : gen'[h] \notin {"preparing", "streaming"}
      BY <2>1, <2>4
    <2>6. \A h \in Gens : reads'[h] # None => h # g /\ reads'[h] = reads[h]
      BY <2>1
    <2>7. \A h \in Gens : reads'[h] # None => reads'[h] # client'
      BY <2>1, <2>3, <2>6, GenOf
    <2>8. QED
      BY <2>1, <2>5, <2>7
  <1>6. ASSUME NEW m \in Messages, Promote(m) PROVE ReaderInv'
    BY <1>6, GenOf, <1>0 DEF Promote
  <1>7. ASSUME NEW m \in Messages, PromotionRecovers(m) \/ PromotionFails(m) PROVE ReaderInv'
    BY <1>7, GenOf DEF PromotionRecovers, PromotionFails, End, Dropped
  <1>8. ASSUME NEW m \in Messages, TimesOut(m) PROVE ReaderInv'
    <2>1. client' \in {client, NewClient}
      BY <1>8 DEF TimesOut, AfterTimeout, BeginRecovery
    <2>2. CASE gen[Gen(m)] = "waiting"
      BY <1>8, <1>0, <2>1, <2>2, GenOf DEF TimesOut
    <2>3. CASE gen[Gen(m)] # "waiting"
      <3>1. Release(Gen(m)) /\ gen[Gen(m)] \in {"preparing", "streaming"}
        BY <1>8, <2>3 DEF TimesOut
      <3>2. QED
        BY <1>0, <2>1, <3>1, GenOf DEF Release
    <2>4. QED
      BY <2>2, <2>3
  <1>9. ASSUME NEW m \in Messages, TimesOutAtYield(m) PROVE ReaderInv'
    <2>1. CASE m \in retry
      BY <1>9, <2>1, GenOf, <1>0 DEF TimesOutAtYield, AfterTimeout, BeginRecovery
    <2>2. CASE m \notin retry
      BY <1>9, <2>2, GenOf, <1>0 DEF TimesOutAtYield, AfterTimeout, BeginRecovery
    <2>3. QED
      BY <2>1, <2>2
  <1>10. ASSUME NEW m \in Messages, Recover(m) PROVE ReaderInv'
    BY <1>10, GenOf, <1>0 DEF Recover, BeginRecovery
  <1>11. ASSUME NEW m \in Messages, RecoveryStops(m) \/ RecoveryStopTimesOut(m) PROVE ReaderInv'
    BY <1>11, GenOf, <1>0 DEF RecoveryStops, RecoveryStopTimesOut, Disconnected
  <1>12. ASSUME NEW m \in Messages, RecoveryConnects(m) \/ ConnectFails(m) \/ ConnectTimesOut(m)
         PROVE  ReaderInv'
    BY <1>12, GenOf DEF RecoveryConnects, ConnectFails, ConnectTimesOut, Dropped, End
  <1>13. ASSUME NEW m \in Messages, AfterRecovery(m) PROVE ReaderInv'
    BY <1>13, GenOf DEF AfterRecovery, End
  <1>14. CASE Stop \/ Stopped
    BY <1>14, GenOf DEF Stop, Stopped
  <1>15. CASE UNCHANGED vars
    BY <1>15, GenOf DEF vars
  <1>16. QED
    BY <1>1, <1>2, <1>3, <1>4, <1>5, <1>6, <1>7, <1>8, <1>9, <1>10, <1>11, <1>12, <1>13, <1>14, <1>15
       DEF Next, Message

-----------------------------------------------------------------------------
(* Only finitely many clients are in use.                                  *)
EndlessClients == IsFiniteSet(Messages) /\ ~IsFiniteSet(Clients)

FiniteInv == IsFiniteSet(alive)

LEMMA FiniteInit == Init => FiniteInv
  <1>1. IsFiniteSet({client})
    BY FS_Singleton
  <1>2. QED
    BY <1>1 DEF Init, FiniteInv

LEMMA FiniteStep ==
  ASSUME FiniteInv, [Next]_vars
  PROVE  FiniteInv'
  <1>1. alive' \subseteq alive \cup {client}
    BY DEF Next, Message, vars, pipeVars, genVars, clientVars, stopVars, Enter, Route, CallSend,
           LockGranted, Query, StreamEnds, Abandon, LateFinally, Promote, PromotionRecovers,
           PromotionFails, TimesOut, TimesOutAtYield, AfterTimeout, Recover, BeginRecovery,
           RecoveryStops, RecoveryStopTimesOut, Disconnected, RecoveryConnects, ConnectFails,
           ConnectTimesOut, AfterRecovery, Stop, Stopped, End, Dropped, Acquire, Release
  <1>2. IsFiniteSet(alive \cup {client})
    BY FS_AddElement DEF FiniteInv
  <1>3. QED
    BY <1>1, <1>2, FS_Subset DEF FiniteInv

(* What refers to a client: the session, stop(), and each message twice.   *)
LEMMA SomeClientIsFresh ==
  ASSUME EndlessClients, FiniteInv
  PROVE  FreshClient
  <1>1. \A f, S : IsFiniteSet(S) => IsFiniteSet({f[x] : x \in S})
    <2>1. SUFFICES ASSUME NEW f, NEW S, IsFiniteSet(S) PROVE IsFiniteSet({f[x] : x \in S})
      OBVIOUS
    <2> DEFINE T == {f[x] : x \in S}
    <2>2. [x \in S |-> f[x]] \in Surjection(S, T)
      BY DEF Surjection
    <2>3. QED
      BY <2>1, <2>2, FS_Surjection
  <1>2. IsFiniteSet({reads[g] : g \in Gens}) /\ IsFiniteSet({closing[m] : m \in Messages})
    <2>1. IsFiniteSet({1}) /\ IsFiniteSet({1} \cup {2})
      BY FS_Singleton, FS_AddElement
    <2>2. {1, 2} = {1} \cup {2}
      OBVIOUS
    <2>3. IsFiniteSet(Gens)
      BY <2>1, <2>2, FS_Product DEF Gens, EndlessClients
    <2>4. QED
      BY <1>1, <2>3 DEF EndlessClients
  <1>3. IsFiniteSet({client, stopping})
    <2>1. IsFiniteSet({client}) /\ IsFiniteSet({client} \cup {stopping})
      BY FS_Singleton, FS_AddElement
    <2>2. {client, stopping} = {client} \cup {stopping}
      OBVIOUS
    <2>3. QED
      BY <2>1, <2>2
  <1>4. IsFiniteSet(Referred)
    BY <1>2, <1>3, FS_Union DEF Referred, FiniteInv
  <1>5. ~(Clients \subseteq Referred)
    BY <1>4, FS_Subset DEF EndlessClients
  <1>6. QED
    BY <1>5 DEF FreshClient

THEOREM ReaderInvariant ==
  ASSUME EndlessClients
  PROVE  Spec => [](PhaseInv /\ ClientsTyped /\ ReaderInv)
  <1> DEFINE Inv == PhaseInv /\ ClientsTyped /\ ReaderInv /\ FiniteInv
  <1>1. Init => Inv
    BY PhaseInit, ReaderInit, FiniteInit
  <1>2. Inv /\ [Next]_vars => Inv'
    BY PhaseStep, ClientsStep, ReaderStep, FiniteStep, SomeClientIsFresh
  <1>3. QED
    BY <1>1, <1>2, PTL DEF Spec

(* Every variable keeps its type.                                          *)
THEOREM TypeCorrect ==
  ASSUME EndlessClients
  PROVE  Spec => []TypeOK
  <1>1. PhaseInv /\ ClientsTyped => TypeOK
    BY DEF PhaseInv, Typed, PipeInv, HolderInv, ClientsTyped, TypeOK
  <1>2. QED
    BY <1>1, ReaderInvariant, PTL

(* Two generators never read the same client, an abandoned one that is     *)
(* still draining included, as long as no generator has released a lock it *)
(* did not hold: for any number of messages and any recoveries.            *)
THEOREM ExclusiveTheorem ==
  ASSUME EndlessClients
  PROVE  Spec => []ExclusiveStream
  <1>1. ReaderInv => ExclusiveStream
    BY DEF ReaderInv, ExclusiveStream
  <1>2. QED
    BY <1>1, ReaderInvariant, PTL
=============================================================================
