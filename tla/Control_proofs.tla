--------------------------- MODULE Control_proofs ---------------------------
(***************************************************************************)
(* Proofs about Control: the locked updates of config.toml, the requests   *)
(* to the search service and the daemon's settings, for any number of      *)
(* tools, tasks and commands and any contents.                             *)
(***************************************************************************)
EXTENDS Control, TLAPS

IsOp(o) ==
    o = [kind |-> o.kind, key |-> o.key, value |-> o.value, doc |-> o.doc,
         overtaken |-> o.overtaken, env |-> o.env, sent |-> o.sent,
         retried |-> o.retried, steady |-> o.steady]

Typed ==
    /\ pc = [c \in Callers |-> pc[c]]
    /\ op = [c \in Callers |-> op[c]]
    /\ \A c \in Callers : IsOp(op[c])

(* The awaits between the acquisition of the file lock and its release.    *)
Locked == {"read", "write", "unlock"}
HeldInv == \A c \in Callers : pc[c] \in Locked => lock = c

IInv == Typed /\ HeldInv /\ NoLostUpdate

LEMMA NoneIsNoCaller == None \notin Callers
  BY ControlAssumption

LEMMA OpIsOp == \A kind, k, value : IsOp(Op(kind, k, value))
  BY DEF IsOp, Op

LEMMA NoOpIsOp == IsOp(NoOp)
  BY OpIsOp DEF NoOp

LEMMA OpChanges ==
  ASSUME NEW o, IsOp(o), NEW x
  PROVE  /\ IsOp([o EXCEPT !.doc = x]) /\ [o EXCEPT !.doc = x].doc = x
         /\ IsOp([o EXCEPT !.sent = x]) /\ IsOp([o EXCEPT !.retried = x])
         /\ IsOp([o EXCEPT !.overtaken = x]) /\ [o EXCEPT !.overtaken = x].overtaken = x
         /\ IsOp([o EXCEPT !.steady = x]) /\ [o EXCEPT !.steady = x].doc = o.doc
         /\ [o EXCEPT !.steady = x].overtaken = o.overtaken
         /\ IsOp(InEnvironment(o, x))
  BY DEF IsOp, InEnvironment

LEMMA InitIInv == Init => IInv
  BY NoOpIsOp DEF Init, IInv, Typed, HeldInv, Locked, NoLostUpdate, Updating
-----------------------------------------------------------------------------
(* Only the caller's own place and operation change, neither the file nor  *)
(* the lock, and it is not about to write: nothing is disturbed.           *)
LEMMA Elsewhere ==
  ASSUME IInv, NEW c \in Callers, NEW to, NEW o,
         pc' = [pc EXCEPT ![c] = to], op' = [op EXCEPT ![c] = o], IsOp(o),
         UNCHANGED <<file, lock>>,
         to \notin Locked \/ (to = "unlock" /\ pc[c] \in Locked)
  PROVE  IInv'
  <1>1. /\ pc' = [d \in Callers |-> pc'[d]] /\ op' = [d \in Callers |-> op'[d]]
        /\ pc'[c] = to /\ op'[c] = o
        /\ \A d \in Callers \ {c} : pc'[d] = pc[d] /\ op'[d] = op[d]
    BY DEF IInv, Typed
  <1>2. Typed'
    BY <1>1 DEF IInv, Typed
  <1>3. HeldInv'
    BY <1>1 DEF IInv, HeldInv, Locked
  <1>4. NoLostUpdate'
    BY <1>1 DEF IInv, NoLostUpdate, Updating, Locked
  <1>5. QED
    BY <1>2, <1>3, <1>4 DEF IInv

(* What Step() does to a caller.                                           *)
LEMMA StepEffect ==
  ASSUME NEW c \in Callers, NEW from, NEW to, NEW o, Step(c, from, to, o)
  PROVE  /\ pc[c] = from /\ pc' = [pc EXCEPT ![c] = to]
         /\ \E q \in {NoOp, o} : /\ op' = [op EXCEPT ![c] = q]
                                 /\ to # "idle" => q = o
  BY DEF Step

LEMMA BeginStep ==
  ASSUME IInv, NEW c \in Callers, NEW o, NEW first, Begin(c, o, first), IsOp(o),
         first \in {"lock", "key", "load", "rotate"}
  PROVE  IInv'
  <1> DEFINE q == [o EXCEPT !.steady = key = KeyOf(o, keyFile)]
  <1>1. pc' = [pc EXCEPT ![c] = first] /\ op' = [op EXCEPT ![c] = q] /\ UNCHANGED <<file, lock>>
    BY DEF Begin
  <1>2. IsOp(q)
    BY DEF IsOp
  <1>3. QED
    BY <1>1, <1>2, Elsewhere DEF Locked

(* Every way to begin an operation.                                        *)
LEMMA BeginSteps ==
  ASSUME IInv,
         \/ Notify \/ SetByTool \/ SetInThread \/ StartDaemon
         \/ \E t \in Tasks : CallTool(t)
         \/ \E c \in Clis : SetByCommand(c) \/ Command(c) \/ Delegate(c)
  PROVE  IInv'
  <1>1. ASSUME NEW c \in Callers, NEW kind, NEW k, NEW value,
               NEW first \in {"lock", "key", "load", "rotate"},
               Begin(c, Op(kind, k, value), first)
        PROVE  IInv'
    BY <1>1, OpIsOp, BeginStep
  <1>0. ASSUME NEW c \in Callers, NEW kind, NEW k, NEW value, NEW e,
               NEW first \in {"lock", "key", "load", "rotate"},
               Begin(c, InEnvironment(Op(kind, k, value), e), first)
        PROVE  IInv'
    <2>1. IsOp(Op(kind, k, value))
      BY OpIsOp
    <2>2. IsOp(InEnvironment(Op(kind, k, value), e))
      BY <2>1, OpChanges
    <2>3. QED
      BY <1>0, <2>2, BeginStep
  <1>2. Loop \in Callers /\ Thread \in Callers /\ Tasks \subseteq Callers /\ Clis \subseteq Callers
    BY DEF Callers, Daemon
  <1> USE <1>0, <1>1, <1>2
  <1>3. CASE Notify
    BY <1>3 DEF Notify
  <1>4. CASE SetByTool
    BY <1>4 DEF SetByTool
  <1>5. CASE SetInThread \/ StartDaemon
    BY <1>5 DEF SetInThread, StartDaemon
  <1>6. ASSUME NEW t \in Tasks, CallTool(t) PROVE IInv'
    BY <1>6 DEF CallTool
  <1>7. ASSUME NEW c \in Clis, SetByCommand(c) PROVE IInv'
    BY <1>7 DEF SetByCommand
  <1>8. ASSUME NEW c \in Clis, Command(c) PROVE IInv'
    BY <1>8 DEF Command
  <1>9. ASSUME NEW c \in Clis, Delegate(c) PROVE IInv'
    BY <1>9 DEF Delegate
  <1>10. QED
    BY <1>3, <1>4, <1>5, <1>6, <1>7, <1>8, <1>9
-----------------------------------------------------------------------------
LEMMA LockStep == ASSUME IInv, NEW c \in Callers, Lock(c) PROVE IInv'
  <1>1. /\ pc' = [pc EXCEPT ![c] = "read"] /\ op' = [op EXCEPT ![c] = op[c]]
        /\ lock = None /\ lock' = c /\ file' = file
    BY StepEffect DEF Lock
  <1>2. \A d \in Callers : pc[d] \notin Locked
    BY <1>1, NoneIsNoCaller DEF IInv, HeldInv
  <1>3. Typed'
    BY <1>1 DEF IInv, Typed
  <1>4. HeldInv'
    BY <1>1, <1>2 DEF IInv, Typed, HeldInv
  <1>5. NoLostUpdate'
    BY <1>1, <1>2 DEF IInv, Typed, NoLostUpdate, Updating, Locked
  <1>6. QED
    BY <1>3, <1>4, <1>5 DEF IInv

LEMMA ReadStep == ASSUME IInv, NEW c \in Callers, Read(c) PROVE IInv'
  <1> DEFINE q == [op[c] EXCEPT !.doc = file]
  <1>1. PICK to \in {"write", "unlock"} :
          /\ pc[c] = "read" /\ pc' = [pc EXCEPT ![c] = to]
          /\ op' = [op EXCEPT ![c] = q] /\ UNCHANGED <<file, lock>>
    BY StepEffect DEF Read, configVars
  <1>2. IsOp(q) /\ q.doc = file
    BY DEF IInv, Typed, IsOp
  <1>3. /\ \A d \in Callers \ {c} : pc'[d] = pc[d] /\ op'[d] = op[d]
        /\ pc'[c] = to /\ op'[c] = q
    BY <1>1 DEF IInv, Typed
  <1>4. Typed'
    BY <1>1, <1>2, <1>3 DEF IInv, Typed
  <1>5. HeldInv'
    BY <1>1, <1>3 DEF IInv, HeldInv, Locked
  <1>6. NoLostUpdate'
    BY <1>1, <1>2, <1>3 DEF IInv, NoLostUpdate, Updating
  <1>7. QED
    BY <1>4, <1>5, <1>6 DEF IInv

(* The file is replaced, or the lock released: by its holder, and nobody   *)
(* else is between reading and writing.                                    *)
LEMMA HolderStep ==
  ASSUME IInv, NEW c \in Callers, Write(c) \/ Unlock(c)
  PROVE  IInv'
  <1>1. PICK to \in {"unlock", "idle"}, q \in {NoOp, op[c]} :
          /\ pc[c] \in Locked /\ pc' = [pc EXCEPT ![c] = to]
          /\ op' = [op EXCEPT ![c] = q]
          /\ to = "unlock" => lock' = lock
    <2>1. CASE Write(c)
      BY <2>1, StepEffect DEF Write, Locked
    <2>2. CASE Unlock(c)
      BY <2>2, StepEffect DEF Unlock, Locked
    <2>3. QED
      BY <2>1, <2>2
  <1>2. \A d \in Callers \ {c} : pc[d] \notin Locked
    BY <1>1 DEF IInv, HeldInv
  <1>3. Typed'
    BY <1>1, NoOpIsOp DEF IInv, Typed
  <1>4. HeldInv'
    BY <1>1, <1>2 DEF IInv, Typed, HeldInv, Locked
  <1>5. NoLostUpdate'
    BY <1>1, <1>2 DEF IInv, Typed, NoLostUpdate, Updating, Locked
  <1>6. QED
    BY <1>3, <1>4, <1>5 DEF IInv

(* Steps that leave the file and its lock alone.                           *)
LEMMA QuietSteps ==
  ASSUME IInv, NEW c \in Callers,
         WriteFails(c) \/ Load(c) \/ BackUp(c) \/ Request(c)
  PROVE  IInv'
  <1> USE DEF configVars
  <1>0. IsOp(op[c]) /\ IsOp(NoOp)
    BY NoOpIsOp DEF IInv, Typed
  <1>1. \E from, to, o :
          /\ Step(c, from, to, o) /\ IsOp(o) /\ UNCHANGED <<file, lock>>
          /\ to \notin Locked \/ (to = "unlock" /\ from \in Locked)
    <2>1. CASE WriteFails(c)
      BY <2>1, <1>0 DEF WriteFails, Locked
    <2>2. CASE Load(c)
      <3>1. IsOp([op[c] EXCEPT !.doc = file])
        BY <1>0 DEF IsOp
      <3>2. QED
        <4>1. \E from \in {"load", "reload"}, to \in {"loaded", "restore", "idle"} :
                 Step(c, from, to, [op[c] EXCEPT !.doc = file])
          BY <2>2 DEF Load
        <4>2. UNCHANGED <<file, lock>>
          BY <2>2 DEF Load
        <4>3. {"loaded", "restore", "idle"} \cap Locked = {}
          BY DEF Locked
        <4>4. QED
          BY <3>1, <4>1, <4>2, <4>3
    <2>3. CASE BackUp(c)
      <3>1. \E to \in {"key", "idle"} : Step(c, "loaded", to, op[c])
        BY <2>3 DEF BackUp
      <3>2. UNCHANGED <<file, lock>>
        BY <2>3 DEF BackUp
      <3>3. {"key", "idle"} \cap Locked = {}
        BY DEF Locked
      <3>4. QED
        BY <3>1, <3>2, <3>3, <1>0
    <2>4. CASE Resolve(c)
      <3>1. \A k : IsOp([op[c] EXCEPT !.sent = k])
        BY <1>0, OpChanges
      <3>2. \E to \in {"send", "file"} : \E o : Step(c, "key", to, o) /\ IsOp(o)
        BY <2>4, <3>1, <1>0 DEF Resolve
      <3>3. QED
        BY <2>4, <3>2 DEF Resolve, Locked
    <2>9. CASE ReadKey(c)
      <3>1. IsOp([op[c] EXCEPT !.sent = keyFile])
        BY <1>0, OpChanges
      <3>2. QED
        BY <2>9, <3>1 DEF ReadKey, Locked
    <2>5. CASE Cache(c)
      <3>1. \E to \in {"refused", "send"} : Step(c, "cache", to, op[c])
        BY <2>5 DEF Cache
      <3>2. QED
        BY <2>5, <3>1, <1>0 DEF Cache, Locked
    <2>6. CASE Answered(c) \/ Unanswered(c) \/ TurnedAway(c)
      <3>1. \A b : After(c, b) \notin Locked
        BY DEF After, Locked
      <3>2. "refused" \notin Locked
        BY DEF Locked
      <3>3. QED
        BY <2>6, <3>1, <3>2, <1>0 DEF Answered, Unanswered, TurnedAway
    <2>7. CASE Rejected(c)
      <3> DEFINE again == [op[c] EXCEPT !.retried = TRUE]
      <3>1. IsOp(again)
        BY <1>0, OpChanges
      <3> HIDE DEF again
      <3>2. \A k : IsOp([again EXCEPT !.sent = k])
        BY <3>1, OpChanges
      <3>3. \E to \in {"send", "file"} : \E o : Step(c, "send", to, o) /\ IsOp(o)
        BY <2>7, <3>1, <3>2 DEF Rejected, again
      <3>4. QED
        BY <2>7, <3>3 DEF Rejected, Locked
    <2>8. QED
      BY <2>1, <2>2, <2>3, <2>4, <2>5, <2>6, <2>7, <2>9 DEF Request
  <1>2. PICK from, to, o :
          /\ Step(c, from, to, o) /\ IsOp(o) /\ UNCHANGED <<file, lock>>
          /\ to \notin Locked \/ (to = "unlock" /\ from \in Locked)
    BY <1>1
  <1>3. PICK q \in {NoOp, o} : op' = [op EXCEPT ![c] = q]
    BY <1>2, StepEffect
  <1>4. pc[c] = from /\ pc' = [pc EXCEPT ![c] = to]
    BY <1>2, StepEffect
  <1>5. IsOp(q)
    BY <1>0, <1>2
  <1>6. QED
    BY <1>2, <1>3, <1>4, <1>5, Elsewhere
-----------------------------------------------------------------------------
(* The file is replaced without the lock: whoever is about to write has    *)
(* been overtaken.                                                         *)
LEMMA Overtaking ==
  ASSUME IInv, op' = [d \in Callers |-> Overtaken(d)], lock' = lock,
         pc' = [d \in Callers |-> pc'[d]],
         \A d \in Callers : pc'[d] \in Locked => pc'[d] = pc[d]
  PROVE  IInv'
  <1>1. \A d \in Callers : /\ IsOp(op'[d])
                           /\ op'[d].overtaken = (d \in Updating)
    <2> TAKE d \in Callers
    <2> DEFINE x == d \in Updating
    <2>1. IsOp(op[d]) /\ op'[d] = [op[d] EXCEPT !.overtaken = x]
      BY DEF Overtaken, IInv, Typed
    <2>2. IsOp([op[d] EXCEPT !.overtaken = x]) /\ [op[d] EXCEPT !.overtaken = x].overtaken = x
      <3> DEFINE o == op[d]
      <3>1. IsOp(o)
        BY <2>1
      <3> HIDE DEF x, o
      <3>2. IsOp([o EXCEPT !.overtaken = x]) /\ [o EXCEPT !.overtaken = x].overtaken = x
        BY <3>1, OpChanges
      <3>3. QED
        BY <3>2 DEF o
    <2>3. QED
      BY <2>1, <2>2
  <1>2. Typed'
    BY <1>1 DEF Typed
  <1>3. HeldInv'
    BY DEF IInv, HeldInv
  <1>4. NoLostUpdate'
    BY <1>1 DEF NoLostUpdate, Updating, Locked
  <1>5. QED
    BY <1>2, <1>3, <1>4 DEF IInv

LEMMA OvertakingSteps ==
  ASSUME IInv, Edit \/ \E c \in Callers : Restore(c)
  PROVE  IInv'
  <1>1. CASE Edit
    BY <1>1, Overtaking DEF Edit, IInv, Typed
  <1>2. ASSUME NEW c \in Callers, Restore(c) PROVE IInv'
    <2>1. /\ pc' = [pc EXCEPT ![c] = "reload"] /\ lock' = lock
          /\ op' = [d \in Callers |-> Overtaken(d)]
      BY <1>2 DEF Restore
    <2>2. /\ pc' = [d \in Callers |-> pc'[d]]
          /\ \A d \in Callers : pc'[d] \in Locked => pc'[d] = pc[d]
      BY <2>1 DEF IInv, Typed, Locked
    <2>3. QED
      BY <2>1, <2>2, Overtaking
  <1>3. QED
    BY <1>1, <1>2

LEMMA SteadyEffect ==
  ASSUME NEW d, IsOp(op[d])
  PROVE  LET o == StillSteady(d)
         IN  /\ IsOp(o) /\ o.doc = op[d].doc /\ o.overtaken = op[d].overtaken
             /\ o.kind = op[d].kind /\ o.env = op[d].env
             /\ o.sent = op[d].sent /\ o.retried = op[d].retried
             /\ o.steady = (op[d].steady /\ key' = KeyOf(op[d], keyFile'))
  BY DEF IsOp, StillSteady

LEMMA RotateStep == ASSUME IInv, NEW c \in Callers, Rotate(c) PROVE IInv'
  <1>1. PICK to \in {"restart", "idle"} : pc' = [pc EXCEPT ![c] = to]
    BY DEF Rotate
  <1>2. /\ op' = [d \in Callers |-> IF pc'[d] = "idle" THEN NoOp ELSE StillSteady(d)]
        /\ UNCHANGED <<file, lock>>
    BY DEF Rotate, configVars
  <1>3. /\ pc' = [d \in Callers |-> pc'[d]]
        /\ \A d \in Callers : pc'[d] \in Locked => pc'[d] = pc[d]
    BY <1>1 DEF IInv, Typed, Locked
  <1>4. ASSUME NEW d \in Callers
        PROVE  /\ IsOp(StillSteady(d)) /\ StillSteady(d).doc = op[d].doc
               /\ StillSteady(d).overtaken = op[d].overtaken
    BY SteadyEffect DEF IInv, Typed
  <1>5. Typed'
    BY <1>2, <1>3, <1>4, NoOpIsOp DEF Typed
  <1>6. HeldInv'
    BY <1>2, <1>3 DEF IInv, HeldInv
  <1>7. NoLostUpdate'
    BY <1>2, <1>3, <1>4 DEF IInv, NoLostUpdate, Updating, Locked
  <1>8. QED
    BY <1>5, <1>6, <1>7 DEF IInv

LEMMA StoppedStep ==
  ASSUME IInv, NEW callers \in SUBSET Callers, Stopped(callers)
  PROVE  IInv'
  <1>1. /\ pc' = [c \in Callers |-> IF c \in callers THEN "idle" ELSE pc[c]]
        /\ op' = [c \in Callers |-> IF c \in callers THEN NoOp ELSE op[c]]
        /\ lock' = IF lock \in callers THEN None ELSE lock
        /\ file' = file
    BY DEF Stopped
  <1>2. Typed'
    BY <1>1, NoOpIsOp DEF IInv, Typed
  <1>3. HeldInv'
    BY <1>1 DEF IInv, HeldInv, Locked
  <1>4. NoLostUpdate'
    BY <1>1 DEF IInv, NoLostUpdate, Updating
  <1>5. QED
    BY <1>2, <1>3, <1>4 DEF IInv
-----------------------------------------------------------------------------
LEMMA IInvStep == IInv /\ [Next]_vars => IInv'
  <1> SUFFICES ASSUME IInv, [Next]_vars PROVE IInv'
    OBVIOUS
  <1>1. ASSUME NEW c \in Callers, Proceed(c) PROVE IInv'
    BY <1>1, LockStep, ReadStep, HolderStep, QuietSteps, OvertakingSteps, RotateStep
       DEF Proceed, Update
  <1>2. CASE Die
    BY <1>2, StoppedStep DEF Die, Callers
  <1>3. ASSUME NEW c \in Clis, Kill(c) PROVE IInv'
    <2>1. {c} \in SUBSET Callers
      BY DEF Callers
    <2>2. QED
      BY <1>3, <2>1, StoppedStep DEF Kill
  <1>4. CASE UNCHANGED vars
    BY <1>4 DEF vars, configVars, IInv, Typed, HeldInv, NoLostUpdate, Updating
  <1>5. QED
    BY <1>1, <1>2, <1>3, <1>4, BeginSteps, OvertakingSteps DEF Next

THEOREM LockedUpdates == Spec => []IInv
  BY InitIInv, IInvStep, PTL DEF Spec

(* No update of config.toml is lost to another update, for any tools,      *)
(* tasks and commands that interleave, die and are killed: what a locked   *)
(* update is about to replace is what it read, unless the backup or an     *)
(* editor came in between, which take no lock.                             *)
THEOREM NoLostUpdateTheorem == Spec => []NoLostUpdate
  <1>1. IInv => NoLostUpdate
    BY DEF IInv
  <1>2. QED
    BY <1>1, LockedUpdates, PTL

(* At most one update is between reading the file and replacing it.        *)
THEOREM OneUpdate == Spec => [](\A c, d \in Updating : c = d)
  <1>1. IInv => \A c, d \in Updating : c = d
    BY DEF IInv, HeldInv, Updating, Locked
  <1>2. QED
    BY <1>1, LockedUpdates, PTL
-----------------------------------------------------------------------------
(* The notification settings in the file.                                  *)

(* What a save writes is what a load reads, whatever the file held.        *)
LEMMA SavedIsLoaded ==
  ASSUME NEW keys, NEW n, n = [mode |-> n.mode, interval |-> n.interval, agents |-> n.agents]
  PROVE  Notifications(SaveNotifications(keys, n)) = n
  <1> DEFINE s == SaveNotifications(keys, n)
  <1>1. /\ {"mode", "interval_minutes", "agents_mode"} \subseteq DOMAIN s
        /\ s["mode"] = n.mode /\ s["interval_minutes"] = n.interval
        /\ s["agents_mode"] = n.agents
    BY DEF SaveNotifications, Put
  <1>2. Mode(s) = n.mode /\ Interval(s) = n.interval /\ Get(s, "agents_mode", "quiet") = n.agents
    BY <1>1 DEF Mode, Interval, Get
  <1>3. QED
    BY <1>2 DEF Notifications

LEMMA OtherKeysKept ==
  ASSUME NEW keys, NEW k, k \notin NotificationKeys, NEW value
  PROVE  Notifications(Put(keys, k, value)) = Notifications(keys)
  <1> DEFINE s == Put(keys, k, value)
  <1>1. \A j \in NotificationKeys : /\ j \in DOMAIN s <=> j \in DOMAIN keys
                                    /\ j \in DOMAIN keys => s[j] = keys[j]
    BY DEF Put
  <1>2. NotificationKeys = {"mode", "interval_minutes", "agents_mode", "concise_mode",
                            "concise_interval_minutes"}
    BY DEF NotificationKeys, LegacyKeys
  <1> HIDE DEF s
  <1>3. Get(s, "agents_mode", "quiet") = Get(keys, "agents_mode", "quiet")
    BY <1>1, <1>2 DEF Get
  <1>4. Mode(s) = Mode(keys)
    BY <1>1, <1>2 DEF Mode
  <1>5. Interval(s) = Interval(keys)
    BY <1>1, <1>2 DEF Interval, Get
  <1>6. Notifications(s) = Notifications(keys)
    BY <1>3, <1>4, <1>5 DEF Notifications
  <1>7. QED
    BY <1>6 DEF s

LEMMA RemovalKeepsNotifications ==
  ASSUME NEW keys, NEW path
  PROVE  Notifications(RemoveCollection(keys, path)) = Notifications(keys)
  <1>1. "collections" \notin NotificationKeys
    BY DEF NotificationKeys, LegacyKeys
  <1>2. QED
    BY <1>1, OtherKeysKept DEF RemoveCollection
-----------------------------------------------------------------------------
(* What each caller does, whatever the file holds: only updates take the   *)
(* lock; while an operation is steady, the key it is configured with is the*)
(* service's, and its second try is sent with it.                          *)
Updates == {"set", "notify", "remove"}
KindInv == \A c \in Callers : pc[c] \in {"lock", "read", "write"} => op[c].kind \in Updates
SteadyInv == \A c \in Callers : op[c].steady => key = KeyOf(op[c], keyFile)
SentInv ==
    \A c \in Callers :
        op[c].steady /\ op[c].retried /\ pc[c] \in {"cache", "send"} => op[c].sent = key
KeyInv == key \in Nat \ {0}
(* The file is read where the environment has no key; the second try is not*)
(* looked up like the first.                                               *)
FileInv == \A c \in Callers : pc[c] = "file" => op[c].env = 0
Early == {"load", "restore", "reload", "loaded", "key"}
FirstInv == \A c \in Callers : pc[c] \in Early => ~op[c].retried
CallerInv == KindInv /\ SteadyInv /\ SentInv /\ KeyInv /\ FileInv /\ FirstInv /\ Authorised

(* An operation that goes on to the place "to" as o.                       *)
Allowed(c, to, o) ==
    /\ o.steady => op[c].steady /\ o.env = op[c].env
    /\ to \in {"lock", "read", "write"} => o.kind \in Updates
    /\ to \in {"cache", "send"} /\ o.steady /\ o.retried => o.sent = key
    /\ to = "refused" => ~o.steady
    /\ to \in Early => ~o.retried
    /\ to = "file" => o.env = 0

LEMMA NoOpFields == ~NoOp.steady /\ ~NoOp.retried
  BY DEF NoOp, Op

LEMMA CallerInvAfterStep ==
  ASSUME Typed, CallerInv, NEW c \in Callers, NEW from, NEW to, NEW o,
         Step(c, from, to, o), Allowed(c, to, o), UNCHANGED <<key, keyFile>>
  PROVE  CallerInv'
  <1>1. PICK q \in {NoOp, o} : op' = [op EXCEPT ![c] = q] /\ (to # "idle" => q = o)
    BY StepEffect
  <1>2. /\ pc' = [pc EXCEPT ![c] = to] /\ pc'[c] = to /\ op'[c] = q
        /\ \A d \in Callers \ {c} : pc'[d] = pc[d] /\ op'[d] = op[d]
    <2>1. pc' = [pc EXCEPT ![c] = to]
      BY StepEffect
    <2>2. QED
      BY <1>1, <2>1 DEF Typed
  <1>3. KindInv'
    BY <1>1, <1>2 DEF CallerInv, KindInv, Allowed
  <1>4. SteadyInv' /\ KeyInv'
    BY <1>1, <1>2, NoOpFields DEF CallerInv, SteadyInv, KeyInv, Allowed, KeyOf
  <1>5. SentInv'
    BY <1>1, <1>2 DEF CallerInv, SentInv, Allowed
  <1>6. Authorised' /\ FirstInv' /\ FileInv'
    BY <1>1, <1>2, NoOpFields DEF CallerInv, Authorised, FirstInv, FileInv, Allowed
  <1>7. QED
    BY <1>3, <1>4, <1>5, <1>6 DEF CallerInv

(* The steps of the lock, of the file and of loading.                      *)
LEMMA FileStepsKeepCallers ==
  ASSUME Typed, CallerInv, NEW c \in Callers, Update(c) \/ Load(c) \/ BackUp(c)
  PROVE  CallerInv'
  <1> USE DEF configVars, searchVars
  <1> DEFINE o == [op[c] EXCEPT !.doc = file]
  <1>1. /\ o.kind = op[c].kind /\ o.steady = op[c].steady /\ o.env = op[c].env
        /\ o.retried = op[c].retried /\ IsOp(op[c])
    BY DEF Typed, IsOp
  <1>2. \A to \in {"write", "read", "unlock", "idle", "loaded", "restore", "key"} :
           \A q \in {op[c], o} :
              /\ to \in {"write", "read"} => op[c].kind \in Updates
              /\ to \in Early => ~op[c].retried
              => Allowed(c, to, q)
    BY <1>1 DEF Allowed
  <1>3. pc[c] \in {"lock", "read"} => op[c].kind \in Updates
    BY DEF CallerInv, KindInv
  <1>12. pc[c] \in Early => ~op[c].retried
    BY DEF CallerInv, FirstInv
  <1> HIDE DEF o
  <1>4. CASE Lock(c)
    BY <1>4, <1>2, <1>3, StepEffect, CallerInvAfterStep DEF Lock, Early
  <1>5. CASE Read(c)
    <2>1. PICK to \in {"write", "unlock"} : Step(c, "read", to, o)
      BY <1>5 DEF Read, o
    <2>2. QED
      BY <1>5, <2>1, <1>2, <1>3, StepEffect, CallerInvAfterStep DEF Read, Early
  <1>6. CASE Write(c)
    BY <1>6, <1>2, CallerInvAfterStep DEF Write, Early
  <1>7. CASE WriteFails(c)
    BY <1>7, <1>2, CallerInvAfterStep DEF WriteFails, Early
  <1>8. CASE Unlock(c)
    BY <1>8, <1>2, CallerInvAfterStep DEF Unlock, Early
  <1>9. CASE Load(c)
    <2>1. PICK from \in {"load", "reload"}, to \in {"loaded", "restore", "idle"} : Step(c, from, to, o)
      BY <1>9 DEF Load, o
    <2>2. QED
      BY <1>9, <2>1, <1>2, <1>12, StepEffect, CallerInvAfterStep DEF Load, Early
  <1>10. CASE BackUp(c)
    <2>1. PICK to \in {"key", "idle"} : Step(c, "loaded", to, op[c])
      BY <1>10 DEF BackUp
    <2>2. QED
      BY <1>10, <2>1, <1>2, <1>12, StepEffect, CallerInvAfterStep DEF BackUp, Early
  <1>11. QED
    BY <1>4, <1>5, <1>6, <1>7, <1>8, <1>9, <1>10 DEF Update

(* The steps of a request: the second try is made with the key of the      *)
(* file, so that of a steady operation with the service's.                 *)
LEMMA RequestKeepsCallers ==
  ASSUME Typed, CallerInv, NEW c \in Callers, Request(c)
  PROVE  CallerInv'
  <1> USE DEF searchVars
  <1>0. IsOp(op[c])
    BY DEF Typed
  <1>1. (op[c].steady => key = KeyOf(op[c], keyFile)) /\ key # 0
    BY DEF CallerInv, SteadyInv, KeyInv
  <1>2. CASE Resolve(c)
    <2> DEFINE o(k) == [op[c] EXCEPT !.sent = k]
    <2>1. pc[c] = "key"
      BY <1>2, StepEffect DEF Resolve
    <2>2. ~op[c].retried
      BY <2>1 DEF CallerInv, FirstInv, Early
    <2>3. \A k : Allowed(c, "send", o(k))
      BY <1>0, <2>2 DEF Allowed, IsOp, Early
    <2>5. CASE op[c].env = 0 /\ Step(c, "key", "file", op[c])
      <3>1. Allowed(c, "file", op[c])
        BY <2>5 DEF Allowed, Early
      <3>2. QED
        BY <3>1, <2>5, <1>2, CallerInvAfterStep DEF Resolve
    <2>6. CASE \E k : Step(c, "key", "send", o(k))
      BY <2>3, <2>6, <1>2, CallerInvAfterStep DEF Resolve
    <2>7. QED
      BY <1>2, <2>5, <2>6 DEF Resolve
  <1>10. CASE ReadKey(c)
    <2>0. pc[c] = "file"
      BY <1>10, StepEffect DEF ReadKey
    <2>1. Allowed(c, "cache", [op[c] EXCEPT !.sent = keyFile])
      <3> DEFINE o == [op[c] EXCEPT !.sent = keyFile]
      <3>1. /\ o.steady = op[c].steady /\ o.retried = op[c].retried /\ o.sent = keyFile
            /\ o.env = op[c].env
        BY <1>0 DEF IsOp
      <3>2. op[c].steady /\ op[c].retried => keyFile = key
        BY <1>1, <2>0 DEF CallerInv, FileInv, KeyOf
      <3> HIDE DEF o
      <3>3. QED
        BY <3>1, <3>2 DEF Allowed, Early
    <2>2. QED
      BY <1>10, <2>1, CallerInvAfterStep DEF ReadKey
  <1>3. CASE Cache(c)
    <2>1. pc[c] = "cache"
      BY <1>3, StepEffect DEF Cache
    <2>2. Allowed(c, "send", op[c])
      BY <2>1 DEF CallerInv, SentInv, Allowed, Early
    <2>3. CASE op[c].sent = 0 /\ op[c].retried
      <3>1. Allowed(c, "refused", op[c])
        BY <1>1, <2>1, <2>3 DEF CallerInv, SentInv, Allowed, Early
      <3>2. QED
        BY <1>3, <2>3, <3>1, CallerInvAfterStep DEF Cache
    <2>4. QED
      BY <1>3, <2>2, <2>3, CallerInvAfterStep DEF Cache
  <1>4. \A b : Allowed(c, After(c, b), op[c])
    BY DEF After, Allowed, Updates, Early
  <1>5. CASE Answered(c)
    BY <1>4, <1>5, CallerInvAfterStep DEF Answered
  <1>6. CASE Unanswered(c)
    BY <1>4, <1>6, CallerInvAfterStep DEF Unanswered
  <1>7. CASE Rejected(c)
    <2> DEFINE again == [op[c] EXCEPT !.retried = TRUE]
               k == op[c].env
    <2>1. /\ IsOp(again) /\ again.steady = op[c].steady
          /\ again.env = op[c].env /\ again.kind = op[c].kind
      <3>1. IsOp(again)
        BY <1>0, OpChanges
      <3>2. QED
        BY <1>0, <3>1 DEF IsOp
    <2>2. CASE k # 0 /\ Step(c, "send", "send", [again EXCEPT !.sent = k])
      <3>1. op[c].steady => key = k
        BY <1>1, <2>2 DEF KeyOf
      <3>2. Allowed(c, "send", [again EXCEPT !.sent = k])
        <4> HIDE DEF again
        <4>1. QED
          BY <2>1, <3>1 DEF Allowed, IsOp, Early
      <3>3. QED
        BY <1>7, <2>2, <3>2, CallerInvAfterStep DEF Rejected
    <2>3. CASE k = 0 /\ Step(c, "send", "file", again)
      <3>1. Allowed(c, "file", again)
        BY <2>1, <2>3 DEF Allowed, Early
      <3>2. QED
        BY <1>7, <2>3, <3>1, CallerInvAfterStep DEF Rejected
    <2>4. QED
      BY <1>7, <2>2, <2>3 DEF Rejected
  <1>8. CASE TurnedAway(c)
    <2>1. CASE op[c].sent # key /\ op[c].retried /\ Step(c, "send", "refused", op[c])
      <3>1. Allowed(c, "refused", op[c])
        BY <2>1, StepEffect DEF CallerInv, SentInv, Allowed, Early
      <3>2. QED
        BY <1>8, <2>1, <3>1, CallerInvAfterStep DEF TurnedAway
    <2>2. CASE Step(c, "refused", After(c, FALSE), op[c])
      BY <1>4, <1>8, <2>2, CallerInvAfterStep DEF TurnedAway
    <2>3. QED
      BY <1>8, <2>1, <2>2 DEF TurnedAway
  <1>9. QED
    BY <1>2, <1>3, <1>5, <1>6, <1>7, <1>8, <1>10 DEF Request

LEMMA Reloads ==
  ASSUME Typed, Edit \/ \E c \in Callers : Restore(c)
  PROVE  \A d \in Callers : pc'[d] = pc[d] \/ pc[d] = "restore"
  BY DEF Edit, Restore, Typed

(* The file is replaced without the lock.                                  *)
LEMMA OvertakingKeepsCallers ==
  ASSUME Typed, CallerInv, Edit \/ \E c \in Callers : Restore(c)
  PROVE  CallerInv'
  <1>1. /\ op' = [d \in Callers |-> Overtaken(d)] /\ UNCHANGED <<key, keyFile>>
        /\ \A d \in Callers : pc'[d] = pc[d] \/ pc'[d] = "reload"
    BY DEF Edit, Restore, searchVars, Typed
  <1>2. \A d \in Callers : /\ op'[d].kind = op[d].kind /\ op'[d].steady = op[d].steady
                           /\ op'[d].env = op[d].env
                           /\ op'[d].sent = op[d].sent /\ op'[d].retried = op[d].retried
    BY <1>1 DEF Overtaken, Typed, IsOp
  <1>3. KindInv' /\ SteadyInv' /\ KeyInv'
    BY <1>1, <1>2 DEF CallerInv, KindInv, SteadyInv, KeyInv, KeyOf
  <1>4. SentInv' /\ Authorised'
    BY <1>1, <1>2 DEF CallerInv, SentInv, Authorised
  <1>6. FirstInv' /\ FileInv'
    <2>1. \A d \in Callers : pc'[d] \in Early => pc[d] \in Early
      BY <1>1, Reloads DEF Early
    <2>2. QED
      BY <1>1, <1>2, <2>1 DEF CallerInv, FirstInv, FileInv
  <1>5. QED
    BY <1>3, <1>4, <1>6 DEF CallerInv

LEMMA RotateKeepsCallers ==
  ASSUME Typed, CallerInv, NEW c \in Callers, Rotate(c)
  PROVE  CallerInv'
  <1>1. /\ op' = [d \in Callers |-> IF pc'[d] = "idle" THEN NoOp ELSE StillSteady(d)]
        /\ \A d \in Callers : pc'[d] = pc[d] \/ pc'[d] \in {"restart", "idle"}
        /\ key' \in {key, key + 1}
    BY DEF Rotate, Typed
  <1>2. ASSUME NEW d \in Callers
        PROVE  \/ pc'[d] = "idle" /\ ~op'[d].steady
               \/ /\ op'[d].kind = op[d].kind /\ op'[d].env = op[d].env
                  /\ op'[d].sent = op[d].sent /\ op'[d].retried = op[d].retried
                  /\ op'[d].steady <=> op[d].steady /\ key' = KeyOf(op[d], keyFile')
    BY <1>1, NoOpFields, SteadyEffect DEF Typed
  <1>3. KindInv'
    BY <1>1, <1>2 DEF CallerInv, KindInv
  <1>4. SteadyInv' /\ KeyInv'
    BY <1>1, <1>2 DEF CallerInv, SteadyInv, KeyInv, KeyOf
  <1>5. SentInv'
    <2> SUFFICES ASSUME NEW d \in Callers, op'[d].steady, op'[d].retried,
                        pc'[d] \in {"cache", "send"}
                 PROVE  op'[d].sent = key'
      BY DEF SentInv
    <2>1. op[d].steady /\ op[d].retried /\ pc[d] \in {"cache", "send"}
      BY <1>1, <1>2
    <2>2. op[d].sent = key
      BY <2>1 DEF CallerInv, SentInv
    <2>3. key' = key
      <3>1. key' = KeyOf(op[d], keyFile')
        BY <1>2
      <3>2. key = KeyOf(op[d], keyFile) /\ key \in Nat
        BY <2>1 DEF CallerInv, SteadyInv, KeyInv
      <3>3. \/ keyFile' = key + 1 /\ key' = key
            \/ key' = key + 1 /\ keyFile' = keyFile
        BY DEF Rotate
      <3>4. QED
        BY <3>1, <3>2, <3>3 DEF KeyOf
    <2>4. QED
      BY <1>2, <2>2, <2>3
  <1>6. Authorised' /\ FirstInv' /\ FileInv'
    BY <1>1, <1>2, NoOpFields DEF CallerInv, Authorised, FirstInv, FileInv, Early
  <1>7. QED
    BY <1>3, <1>4, <1>5, <1>6 DEF CallerInv

LEMMA StoppedKeepsCallers ==
  ASSUME Typed, CallerInv, NEW callers \in SUBSET Callers, Stopped(callers)
  PROVE  CallerInv'
  <1>1. /\ \A d \in Callers : /\ d \in callers => pc'[d] = "idle" /\ op'[d] = NoOp
                              /\ d \notin callers => pc'[d] = pc[d] /\ op'[d] = op[d]
        /\ UNCHANGED <<key, keyFile>>
    BY DEF Stopped
  <1>2. KindInv' /\ SteadyInv' /\ KeyInv'
    BY <1>1, NoOpFields DEF CallerInv, KindInv, SteadyInv, KeyInv, KeyOf
  <1>3. SentInv' /\ Authorised' /\ FirstInv' /\ FileInv'
    BY <1>1, NoOpFields DEF CallerInv, SentInv, FirstInv, FileInv, Early, Authorised
  <1>4. QED
    BY <1>2, <1>3 DEF CallerInv

(* An operation begins: an update with its kind, anything else elsewhere.  *)
LEMMA BeginsKeepCallers ==
  ASSUME Typed, CallerInv, NEW c \in Callers, NEW r, IsOp(r), ~r.retried,
         NEW first \in {"lock", "key", "load", "rotate"}, Begin(c, r, first),
         first = "lock" => r.kind \in Updates
  PROVE  CallerInv'
  <1> DEFINE o == [r EXCEPT !.steady = key = KeyOf(r, keyFile)]
  <1>1. pc' = [pc EXCEPT ![c] = first] /\ op' = [op EXCEPT ![c] = o] /\ UNCHANGED <<key, keyFile>>
    BY DEF Begin
  <1>2. o.kind = r.kind /\ o.env = r.env /\ (o.steady => key = KeyOf(r, keyFile)) /\ ~o.retried
    BY DEF IsOp
  <1> HIDE DEF o
  <1>3. /\ pc'[c] = first /\ op'[c] = o
        /\ \A d \in Callers \ {c} : pc'[d] = pc[d] /\ op'[d] = op[d]
    BY <1>1 DEF Typed
  <1>4. KindInv' /\ SteadyInv' /\ KeyInv'
    BY <1>1, <1>2, <1>3 DEF CallerInv, KindInv, SteadyInv, KeyInv, KeyOf
  <1>5. SentInv' /\ Authorised' /\ FirstInv' /\ FileInv'
    BY <1>1, <1>2, <1>3 DEF CallerInv, SentInv, FirstInv, FileInv, Early, Authorised
  <1>6. QED
    BY <1>4, <1>5 DEF CallerInv

LEMMA BeginKeepsCallers ==
  ASSUME Typed, CallerInv, NEW c \in Callers, NEW kind, NEW k, NEW value, NEW e,
         NEW first \in {"lock", "key", "load", "rotate"},
         \/ Begin(c, Op(kind, k, value), first)
         \/ Begin(c, InEnvironment(Op(kind, k, value), e), first),
         first = "lock" => kind \in Updates
  PROVE  CallerInv'
  <1> DEFINE o == Op(kind, k, value)
             r == InEnvironment(o, e)
  <1>1. IsOp(o) /\ ~o.retried /\ o.kind = kind
    BY OpIsOp DEF Op
  <1> HIDE DEF o
  <1>2. IsOp(r) /\ ~r.retried /\ r.kind = kind
    <2>1. IsOp(r)
      BY <1>1, OpChanges
    <2>2. r.retried = o.retried /\ r.kind = o.kind
      BY <1>1 DEF InEnvironment, IsOp
    <2>3. QED
      BY <1>1, <2>1, <2>2
  <1> HIDE DEF r
  <1>3. CASE Begin(c, o, first)
    BY <1>1, <1>3, BeginsKeepCallers
  <1>4. CASE Begin(c, r, first)
    BY <1>2, <1>4, BeginsKeepCallers
  <1>5. QED
    BY <1>3, <1>4 DEF o, r

LEMMA BeginStepsKeepCallers ==
  ASSUME Typed, CallerInv,
         \/ Notify \/ SetByTool \/ SetInThread \/ StartDaemon
         \/ \E t \in Tasks : CallTool(t)
         \/ \E c \in Clis : SetByCommand(c) \/ Command(c) \/ Delegate(c)
  PROVE  CallerInv'
  <1>1. /\ Loop \in Callers /\ Thread \in Callers /\ Tasks \subseteq Callers /\ Clis \subseteq Callers
        /\ {"set", "notify"} \subseteq Updates
    BY DEF Callers, Daemon, Updates
  <1>2. CASE Notify
    BY <1>1, <1>2, BeginKeepsCallers DEF Notify
  <1>3. CASE SetByTool
    BY <1>1, <1>3, BeginKeepsCallers DEF SetByTool
  <1>4. CASE SetInThread \/ StartDaemon
    BY <1>1, <1>4, BeginKeepsCallers DEF SetInThread, StartDaemon
  <1>5. ASSUME NEW t \in Tasks, CallTool(t) PROVE CallerInv'
    BY <1>1, <1>5, BeginKeepsCallers DEF CallTool
  <1>6. ASSUME NEW c \in Clis, SetByCommand(c) PROVE CallerInv'
    BY <1>1, <1>6, BeginKeepsCallers DEF SetByCommand
  <1>7. ASSUME NEW c \in Clis, Command(c) PROVE CallerInv'
    BY <1>1, <1>7, BeginKeepsCallers DEF Command
  <1>8. ASSUME NEW c \in Clis, Delegate(c) PROVE CallerInv'
    BY <1>1, <1>8, BeginKeepsCallers DEF Delegate
  <1>9. QED
    BY <1>2, <1>3, <1>4, <1>5, <1>6, <1>7, <1>8

LEMMA InitCallerInv == Init => CallerInv
  BY NoOpFields DEF Init, CallerInv, KindInv, SteadyInv, SentInv, KeyInv, FirstInv, FileInv, Early, Authorised

LEMMA CallerInvStep == Typed /\ CallerInv /\ [Next]_vars => CallerInv'
  <1> SUFFICES ASSUME Typed, CallerInv, [Next]_vars PROVE CallerInv'
    OBVIOUS
  <1>1. ASSUME NEW c \in Callers, Proceed(c) PROVE CallerInv'
    BY <1>1, FileStepsKeepCallers, RequestKeepsCallers, OvertakingKeepsCallers,
       RotateKeepsCallers DEF Proceed
  <1>2. CASE Die
    BY <1>2, StoppedKeepsCallers DEF Die, Callers
  <1>3. ASSUME NEW c \in Clis, Kill(c) PROVE CallerInv'
    <2>1. {c} \in SUBSET Callers
      BY DEF Callers
    <2>2. QED
      BY <1>3, <2>1, StoppedKeepsCallers DEF Kill
  <1>4. CASE UNCHANGED vars
    BY <1>4 DEF vars, searchVars, CallerInv, KindInv, SteadyInv, SentInv, KeyInv, KeyOf, FirstInv, FileInv, Early, Authorised
  <1>5. QED
    BY <1>1, <1>2, <1>3, <1>4, BeginStepsKeepCallers, OvertakingKeepsCallers DEF Next

(* No caller is turned away by the search service when the key it is       *)
(* configured with, in its environment or else in the file, was the right  *)
(* one all the while it asked, whatever keys the daemon and the commands   *)
(* had cached, for any number of tasks, commands and keys.                 *)
THEOREM AuthorisedTheorem == Spec => []Authorised
  <1>1. IInv /\ CallerInv /\ [Next]_vars => CallerInv'
    BY CallerInvStep DEF IInv
  <1>2. CallerInv => Authorised
    BY DEF CallerInv
  <1>3. QED
    BY <1>1, <1>2, InitCallerInv, LockedUpdates, PTL DEF Spec
-----------------------------------------------------------------------------
(* The daemon's memory has the three settings a save writes.               *)
MemoryInv ==
    memory = [mode |-> memory.mode, interval |-> memory.interval, agents |-> memory.agents]
SettingsInv == MemoryInv /\ SettingsSurvive

LEMMA NotificationsTyped ==
  ASSUME NEW keys
  PROVE  LET n == Notifications(keys)
         IN  n = [mode |-> n.mode, interval |-> n.interval, agents |-> n.agents]
  BY DEF Notifications

LEMMA InitSettingsInv == Init => SettingsInv
  BY NotificationsTyped DEF Init, SettingsInv, MemoryInv, SettingsSurvive

(* An update that is not overtaken replaces what it read: a save writes    *)
(* the memory, any other leaves the notification settings alone.           *)
LEMMA WriteKeepsSettings ==
  ASSUME IInv, KindInv, SettingsInv, NEW c \in Callers, Write(c)
  PROVE  SettingsInv'
  <1> DEFINE keys == op[c].doc.keys
  <1>1. /\ pc[c] = "write" /\ memory' = memory /\ file' = Good(Updated(op[c], keys))
        /\ saved' = \/ op[c].kind = "notify"
                    \/ saved /\ ~op[c].overtaken /\ op[c].key \notin NotificationKeys
    BY StepEffect DEF Write
  <1>2. file'.keys = Updated(op[c], keys)
    BY <1>1 DEF Good
  <1>3. c \in Updating
    BY <1>1 DEF Updating
  <1>4. CASE op[c].kind = "notify"
    <2>1. file'.keys = SaveNotifications(keys, memory)
      BY <1>2, <1>4 DEF Updated
    <2>2. QED
      BY <1>1, <2>1, SavedIsLoaded DEF SettingsInv, MemoryInv, SettingsSurvive
  <1>5. CASE op[c].kind # "notify" /\ saved'
    <2>1. keys = file.keys /\ op[c].key \notin NotificationKeys
      BY <1>1, <1>3, <1>5 DEF IInv, NoLostUpdate
    <2>2. Notifications(file.keys) = memory
      BY <1>1, <1>5 DEF SettingsInv, SettingsSurvive
    <2>3. CASE op[c].kind = "set"
      BY <1>1, <1>2, <2>1, <2>2, <2>3, OtherKeysKept
         DEF Updated, SettingsInv, MemoryInv, SettingsSurvive
    <2>4. CASE op[c].kind = "remove"
      BY <1>1, <1>2, <2>1, <2>2, <2>4, RemovalKeepsNotifications
         DEF Updated, SettingsInv, MemoryInv, SettingsSurvive
    <2>5. QED
      BY <1>1, <1>5, <2>3, <2>4 DEF KindInv, Updates
  <1>6. CASE ~saved'
    BY <1>1, <1>6 DEF SettingsInv, MemoryInv, SettingsSurvive
  <1>7. QED
    BY <1>4, <1>5, <1>6

(* A start takes the daemon's settings from what it read.                  *)
LEMMA BackUpKeepsSettings ==
  ASSUME SettingsInv, NEW c \in Callers, BackUp(c)
  PROVE  SettingsInv'
  <1>1. CASE op[c].kind = "start" /\ Accepted(op[c].doc.keys)
    <2>1. /\ memory' = Notifications(op[c].doc.keys) /\ file' = file
          /\ saved' => op[c].doc = file
      BY <1>1 DEF BackUp
    <2>2. QED
      BY <2>1, NotificationsTyped DEF SettingsInv, MemoryInv, SettingsSurvive
  <1>2. CASE ~(op[c].kind = "start" /\ Accepted(op[c].doc.keys))
    <2>1. UNCHANGED <<memory, file>> /\ (saved' => saved)
      BY <1>2 DEF BackUp
    <2>2. QED
      BY <2>1 DEF SettingsInv, MemoryInv, SettingsSurvive
  <1>3. QED
    BY <1>1, <1>2

(* What leaves file and memory alone, or begins to change them together.   *)
LEMMA OthersKeepSettings ==
  ASSUME SettingsInv,
         \/ UNCHANGED <<file, memory, saved>>
         \/ Notify \/ Edit \/ \E c \in Callers : Restore(c)
  PROVE  SettingsInv'
  <1>1. CASE UNCHANGED <<file, memory, saved>>
    BY <1>1 DEF SettingsInv, MemoryInv, SettingsSurvive
  <1>2. CASE Notify
    BY <1>2 DEF Notify, SettingsInv, MemoryInv, SettingsSurvive
  <1>3. CASE Edit \/ \E c \in Callers : Restore(c)
    BY <1>3 DEF Edit, Restore, SettingsInv, MemoryInv, SettingsSurvive
  <1>4. QED
    BY <1>1, <1>2, <1>3

LEMMA SettingsInvStep == IInv /\ CallerInv /\ SettingsInv /\ [Next]_vars => SettingsInv'
  <1> SUFFICES ASSUME IInv, CallerInv, SettingsInv, [Next]_vars PROVE SettingsInv'
    OBVIOUS
  <1> DEFINE Same == UNCHANGED <<file, memory, saved>>
  <1> USE DEF configVars
  <1>1. KindInv
    BY DEF CallerInv
  <1>2. ASSUME NEW c \in Callers, Request(c) PROVE Same
    BY <1>2 DEF Request, Resolve, ReadKey, Cache, Answered, Unanswered, Rejected, TurnedAway
  <1>3. ASSUME NEW c \in Callers, Lock(c) \/ Read(c) \/ WriteFails(c) \/ Unlock(c) PROVE Same
    BY <1>3 DEF Lock, Read, WriteFails, Unlock
  <1>4. ASSUME NEW c \in Callers, Load(c) \/ Rotate(c) PROVE Same
    BY <1>4 DEF Load, Rotate
  <1>5. CASE SetByTool \/ SetInThread \/ StartDaemon
    BY <1>5, <1>1, OthersKeepSettings DEF SetByTool, SetInThread, StartDaemon, Begin
  <1>6. CASE \E t \in Tasks : CallTool(t)
    BY <1>6, OthersKeepSettings DEF CallTool, Begin
  <1>7. CASE \E c \in Clis : SetByCommand(c) \/ Command(c) \/ Delegate(c)
    BY <1>7, OthersKeepSettings DEF SetByCommand, Command, Delegate, Begin
  <1>8. CASE Die \/ \E c \in Clis : Kill(c)
    BY <1>8, OthersKeepSettings DEF Die, Kill, Stopped
  <1>9. CASE UNCHANGED vars
    BY <1>9, OthersKeepSettings DEF vars
  <1>10. ASSUME NEW c \in Callers, Proceed(c) PROVE SettingsInv'
    BY <1>1, <1>2, <1>3, <1>4, <1>10, WriteKeepsSettings, BackUpKeepsSettings, OthersKeepSettings
       DEF Proceed, Update
  <1>11. QED
    BY <1>5, <1>6, <1>7, <1>8, <1>9, <1>10, OthersKeepSettings DEF Next

(* The notification settings the daemon has saved are those a restart      *)
(* would load: no save drops one with the old keys it removes, and no      *)
(* other update brings an older one back, whatever keys the file had and   *)
(* however many tools and commands update it.                              *)
THEOREM SettingsSurviveTheorem == Spec => []SettingsSurvive
  <1>1. IInv /\ CallerInv /\ [Next]_vars => CallerInv'
    BY CallerInvStep DEF IInv
  <1>2. Spec => [](IInv /\ CallerInv)
    BY <1>1, InitCallerInv, LockedUpdates, PTL DEF Spec
  <1>3. SettingsInv => SettingsSurvive
    BY DEF SettingsInv
  <1>4. QED
    BY <1>2, <1>3, InitSettingsInv, SettingsInvStep, PTL DEF Spec
=============================================================================
