-------------------------- MODULE Lifecycle_proofs --------------------------
(***************************************************************************)
(* Proofs about the lifecycle of the daemon (Lifecycle) and of the releases*)
(* it is installed from (Installer), for any limits, delays and bounds.    *)
(***************************************************************************)
EXTENDS Lifecycle, Installer, TLAPS

Ending == {"closing", "stopping", "closingBot", "draining"}

NumInv ==
    /\ now \in Nat /\ countdown \in Int
    /\ restartFile \in Int /\ stampFile \in Int
    /\ lastExec \in Int /\ lastSent \in Int /\ lastSent <= now

(* What has been scheduled was allowed when it was scheduled, and time only*)
(* passes.                                                                 *)
Scheduled == countdown # Never \/ event \/ watcher = "notifying"

ScheduledInv ==
    /\ lastExec # Never => restartFile # Never /\ restartFile >= lastExec
    /\ Scheduled /\ lastExec # Never => now - lastExec >= RateLimit

StampInv ==
    stamped => lastSent # Never /\ stampFile # Never /\ stampFile >= lastSent

(* Nobody but Wire makes a watcher, and no process is wired once it ends.  *)
EndingInv == phase \in Ending => watcher \notin {"waiting", "notifying"}

IInv == NumInv /\ ScheduledInv /\ StampInv /\ EndingInv

USE RateLimitAssumption, CrashGapAssumption, DelaysAssumption, BoundsAssumption

LEMMA InitIInv == Init => IInv
  BY DEF Init, IInv, NumInv, ScheduledInv, Scheduled, StampInv, EndingInv, Ending, Never

(* The times are numbers.                                                  *)
LEMMA NextNumInv == NumInv /\ [Next]_vars => NumInv'
  <1> SUFFICES ASSUME NumInv, [Next]_vars PROVE NumInv'
    OBVIOUS
  <1> USE DEF NumInv, Never, fileVars, observed, restartVars
  <1>1. CASE Tick \/ UNCHANGED vars
    BY <1>1 DEF Tick, vars, processVars
  <1>2. CASE Boot \/ Crash \/ CommandRestarts \/ Exit
    BY <1>2 DEF Boot, Crash, CommandRestarts, Exec, Exit, Replaced
  <1>3. CASE Load \/ Probe \/ Wire \/ StartAgentServer \/ StartOthers
    BY <1>3 DEF Load, Probe, Goes, Wire, StartAgentServer, StartOthers
  <1>4. CASE Greet
    BY <1>4 DEF Greet, Acknowledge, Broadcast
  <1>5. CASE \E d \in Delays : ToolRestart(d)
    BY <1>5 DEF ToolRestart
  <1>6. CASE CountdownFires \/ WatcherWakes
    BY <1>6 DEF CountdownFires, WatcherWakes
  <1>7. CASE WatcherRestarts
    BY <1>7 DEF WatcherRestarts, Exec, Replaced
  <1>8. CASE WatcherFails
    BY <1>8 DEF WatcherFails
  <1>9. CASE CommandBegins \/ CommandStops \/ CommandFails
    BY <1>9 DEF CommandBegins, CommandStops, CommandFails
  <1>10. CASE Shutdown \/ StopServices \/ ServiceStopped \/ AllStopped \/ BotClosed
                \/ ShutdownTimesOut
    BY <1>10 DEF Shutdown, StopServices, ServiceStopped, AllStopped, BotClosed,
                 ShutdownTimesOut
  <1> QED
    BY <1>1, <1>2, <1>3, <1>4, <1>5, <1>6, <1>7, <1>8, <1>9, <1>10 DEF Next

(* The limit that was read when a restart was scheduled still holds when   *)
(* the process is replaced.                                                *)
LEMMA NextScheduled == NumInv /\ ScheduledInv /\ [Next]_vars => ScheduledInv'
  <1> SUFFICES ASSUME NumInv, ScheduledInv, [Next]_vars PROVE ScheduledInv'
    OBVIOUS
  <1> USE DEF NumInv, Never
  <1>1. CASE Tick
    <2>1. now' = now + 1 /\ UNCHANGED <<restartFile, lastExec>> /\ (Scheduled' => Scheduled)
      BY <1>1, Zenon DEF Tick, Scheduled, processVars, restartVars, fileVars, observed
    <2> QED
      BY <2>1 DEF ScheduledInv
  <1>2. CASE \E d \in Delays : ToolRestart(d)
    <2>1. UNCHANGED <<now, restartFile, lastExec>> /\ Elapsed(restartFile, RateLimit)
      BY <1>2 DEF ToolRestart, fileVars, observed
    <2> QED
      BY <2>1 DEF ScheduledInv, Elapsed
  <1>3. CASE WatcherRestarts
    <2>1. ~Scheduled' /\ lastExec' = now /\ restartFile' = now
      BY <1>3 DEF WatcherRestarts, Exec, Replaced, Scheduled
    <2> QED
      BY <2>1 DEF ScheduledInv
  <1>4. CASE WatcherFails
    <2>1. /\ UNCHANGED <<now, lastExec>> /\ restartFile' \in {now, restartFile}
          /\ Scheduled
      BY <1>4, Zenon DEF WatcherFails, observed, Scheduled
    <2> QED
      BY <2>1 DEF ScheduledInv
  <1>5. CASE UNCHANGED <<now, restartFile, lastExec>> /\ (Scheduled' => Scheduled)
    BY <1>5 DEF ScheduledInv
  <1>6. \/ Tick \/ (\E d \in Delays : ToolRestart(d)) \/ WatcherRestarts \/ WatcherFails
        \/ UNCHANGED <<now, restartFile, lastExec>> /\ (Scheduled' => Scheduled)
    <2>1. CASE Boot \/ Crash \/ CommandRestarts \/ Exit
      BY <2>1 DEF Boot, Crash, CommandRestarts, Exit, Exec, Replaced, Scheduled,
                  fileVars, observed
    <2>2. CASE Load \/ Probe \/ Wire \/ StartAgentServer \/ StartOthers \/ Greet
      BY <2>2, Zenon DEF Load, Probe, Goes, Wire, StartAgentServer, StartOthers, Greet, Broadcast, Scheduled,
                  fileVars, observed, restartVars
    <2>3. CASE CountdownFires \/ WatcherWakes
      BY <2>3 DEF CountdownFires, WatcherWakes, Scheduled, fileVars, observed
    <2>4. CASE CommandBegins \/ CommandStops \/ CommandFails
      BY <2>4, Zenon DEF CommandBegins, CommandStops, CommandFails, Scheduled,
                         fileVars, observed, restartVars
    <2>5. CASE Shutdown \/ StopServices \/ ServiceStopped \/ AllStopped
      BY <2>5, Zenon DEF Shutdown, StopServices, ServiceStopped, AllStopped, Scheduled,
                         fileVars, observed, restartVars
    <2>6. CASE BotClosed \/ ShutdownTimesOut \/ UNCHANGED vars
      BY <2>6, Zenon DEF BotClosed, ShutdownTimesOut, Scheduled, fileVars, observed,
                         restartVars, vars, processVars
    <2> QED
      BY <2>1, <2>2, <2>3, <2>4, <2>5, <2>6 DEF Next
  <1> QED
    BY <1>1, <1>2, <1>3, <1>4, <1>5, <1>6

(* Only a start touches the stamp.                                         *)
LEMMA NextStamp == NumInv /\ StampInv /\ [Next]_vars => StampInv'
  <1> SUFFICES ASSUME NumInv, StampInv, [Next]_vars PROVE StampInv'
    OBVIOUS
  <1> USE DEF StampInv
  <1>1. CASE Greet
    <2>1. UNCHANGED now
      BY <1>1 DEF Greet, Acknowledge, Broadcast
    <2>2. CASE Elapsed(stampFile, CrashGap)
      <3>1. stamped' => stampFile' = now /\ lastSent' = now
        BY <1>1, <2>2 DEF Greet, Acknowledge, Broadcast
      <3> QED
        BY <3>1 DEF NumInv, Never
    <2>3. CASE ~Elapsed(stampFile, CrashGap)
      <3>1. stamped' => stamped /\ stampFile' = now /\ lastSent' = lastSent
        BY <1>1, <2>3, Zenon DEF Greet, Acknowledge, Broadcast
      <3> QED
        BY <3>1 DEF NumInv, Never
    <2> QED
      BY <2>2, <2>3
  <1>2. CASE UNCHANGED <<stampFile, lastSent, stamped>>
    BY <1>2 DEF Never
  <1>3. ~Greet => UNCHANGED <<stampFile, lastSent, stamped>>
    BY DEF Next, vars, Tick, Boot, Crash, Load, Probe, Goes, Wire, StartAgentServer, StartOthers, ToolRestart,
           CountdownFires, WatcherWakes, WatcherRestarts, WatcherFails, CommandBegins,
           CommandStops, CommandRestarts, CommandFails, Shutdown, StopServices,
           ServiceStopped, AllStopped, BotClosed, ShutdownTimesOut, Exit, fileVars, observed
  <1> QED
    BY <1>1, <1>2, <1>3

(* A process that ends has cancelled its watcher.                          *)
LEMMA NextEnding == NumInv /\ EndingInv /\ [Next]_vars => EndingInv'
  <1> SUFFICES ASSUME NumInv, EndingInv, [Next]_vars PROVE EndingInv'
    OBVIOUS
  <1> USE DEF EndingInv, Ending, restartVars
  <1>1. CASE Tick \/ UNCHANGED vars
    BY <1>1 DEF Tick, vars, processVars
  <1>2. CASE Boot \/ Crash \/ WatcherRestarts \/ CommandRestarts \/ Exit
    BY <1>2 DEF Boot, Crash, WatcherRestarts, CommandRestarts, Exit, Exec, Replaced
  <1>3. CASE Load \/ Probe \/ Wire \/ StartAgentServer \/ StartOthers \/ Greet
    BY <1>3 DEF Load, Probe, Goes, Wire, StartAgentServer, StartOthers, Greet, Goes
  <1>4. CASE \E d \in Delays : ToolRestart(d)
    BY <1>4 DEF ToolRestart
  <1>5. CASE CountdownFires \/ WatcherWakes \/ WatcherFails
    BY <1>5 DEF CountdownFires, WatcherWakes, WatcherFails
  <1>6. CASE CommandBegins \/ CommandStops \/ CommandFails
    BY <1>6 DEF CommandBegins, CommandStops, CommandFails
  <1>7. CASE Shutdown
    BY <1>7 DEF Shutdown, Goes
  <1>8. CASE StopServices \/ ServiceStopped \/ AllStopped \/ BotClosed \/ ShutdownTimesOut
    BY <1>8 DEF StopServices, ServiceStopped, AllStopped, BotClosed, ShutdownTimesOut, Goes
  <1> QED
    BY <1>1, <1>2, <1>3, <1>4, <1>5, <1>6, <1>7, <1>8 DEF Next

LEMMA NextIInv == IInv /\ [Next]_vars => IInv'
  BY NextNumInv, NextScheduled, NextStamp, NextEnding DEF IInv

THEOREM Inductive == Spec => []IInv
  BY InitIInv, NextIInv, PTL DEF Spec

(* Restarts that agents ask for are RateLimit apart, across processes.     *)
THEOREM RestartsAreSpaced == Spec => RestartsSpaced
  <1>1. IInv => (WatcherRestarts /\ lastExec # Never => now - lastExec >= RateLimit)
    BY DEF IInv, ScheduledInv, Scheduled, WatcherRestarts
  <1> QED
    BY <1>1, Inductive, PTL DEF RestartsSpaced

(* No agent's restart replaces a process whose shutdown has begun.         *)
THEOREM ShutdownIsFinalThm == Spec => ShutdownIsFinal
  <1>1. IInv => (WatcherRestarts =>
                   phase \notin {"closing", "stopping", "closingBot", "draining"})
    BY DEF IInv, EndingInv, Ending, WatcherRestarts
  <1> QED
    BY <1>1, Inductive, PTL DEF ShutdownIsFinal

(* Broadcasts of a start are CrashGap apart as long as stamps are written. *)
THEOREM BroadcastsAreSpaced == Spec => BroadcastsSpaced
  <1>1. IInv => (Greet /\ lastSent' # lastSent /\ stamped => now - lastSent >= CrashGap)
    BY DEF IInv, NumInv, StampInv, Greet, Broadcast, Elapsed, Never
  <1> QED
    BY <1>1, Inductive, PTL DEF BroadcastsSpaced
-----------------------------------------------------------------------------
(***************************************************************************)
(* The type invariant, in parts that each are inductive.                   *)
(***************************************************************************)
Flags == tools \in BOOLEAN /\ bot \in BOOLEAN /\ event \in BOOLEAN /\ ack \in BOOLEAN
         /\ stamped \in BOOLEAN

Places ==
    /\ phase \in {"down", "loading", "probing", "wiring", "starting", "greeting", "polling",
                  "closing", "stopping", "closingBot", "draining"}
    /\ watcher \in {"none", "waiting", "notifying", "dead"}

Numbers ==
    /\ now \in Times /\ processes \in 0 .. MaxProcesses
    /\ stopping \in 0 .. NumServices /\ command \in 0 .. 5
    /\ countdown \in Int

Stamps ==
    /\ restartFile \in Times \union {Never} /\ stampFile \in Times \union {Never}
    /\ lastExec \in Times \union {Never} /\ lastSent \in Times \union {Never}

Leaving == Boot \/ Crash \/ CommandRestarts \/ WatcherRestarts \/ Exit
Starting == Load \/ Probe \/ Wire \/ StartAgentServer \/ StartOthers
Restarting ==
    \/ \E d \in Delays : ToolRestart(d)
    \/ CountdownFires \/ WatcherWakes \/ WatcherFails
    \/ CommandBegins \/ CommandStops \/ CommandFails
Stopping ==
    \/ Shutdown \/ StopServices \/ ServiceStopped \/ AllStopped \/ BotClosed
    \/ ShutdownTimesOut

LEMMA Groups == Next => Tick \/ Leaving \/ Starting \/ Greet \/ Restarting \/ Stopping
  BY DEF Next, Leaving, Starting, Restarting, Stopping

LEMMA FlagsStep == Flags /\ [Next]_vars => Flags'
  <1> SUFFICES ASSUME Flags, [Next]_vars PROVE Flags'
    OBVIOUS
  <1> USE DEF Flags, fileVars, observed, restartVars, processVars
  <1>1. CASE Tick \/ UNCHANGED vars
    BY <1>1, Zenon DEF Tick, vars
  <1>2. CASE Leaving
    BY <1>2, Zenon DEF Leaving, Boot, Crash, CommandRestarts, WatcherRestarts, Exec, Exit, Replaced
  <1>3. CASE Starting
    BY <1>3, Zenon DEF Starting, Load, Probe, Wire, StartAgentServer, StartOthers, Goes
  <1>4. CASE Greet
    <2>1. UNCHANGED <<tools, bot, event>> /\ ack' = FALSE
      BY <1>4 DEF Greet, Goes, Acknowledge
    <2>2. stamped' \in BOOLEAN
      BY <1>4 DEF Greet
    <2>3. QED
      BY <2>1, <2>2, Zenon
  <1>5. CASE Restarting
    <2>1. /\ UNCHANGED <<bot, stamped>> /\ event' \in {event, TRUE} /\ ack' \in {ack, TRUE}
          /\ tools' \in {tools, FALSE}
      BY <1>5 DEF Restarting, ToolRestart, CountdownFires, WatcherWakes, WatcherFails,
                  CommandBegins, CommandStops, CommandFails
    <2>2. QED
      BY <2>1, Zenon
  <1>6. CASE Stopping
    <2>1. /\ UNCHANGED <<event, ack, stamped>> /\ bot' \in {bot, FALSE}
          /\ tools' \in {tools, FALSE}
      BY <1>6 DEF Stopping, Shutdown, StopServices, ServiceStopped, AllStopped, BotClosed,
                  ShutdownTimesOut, Goes
    <2>2. QED
      BY <2>1, Zenon
  <1>7. QED
    BY <1>1, <1>2, <1>3, <1>4, <1>5, <1>6, Groups

LEMMA PlacesStep == Places /\ [Next]_vars => Places'
  <1> SUFFICES ASSUME Places, [Next]_vars PROVE Places'
    OBVIOUS
  <1> USE DEF Places, fileVars, observed, restartVars, processVars
  <1>1. CASE Tick \/ UNCHANGED vars
    BY <1>1 DEF Tick, vars
  <1>2. CASE Leaving
    BY <1>2 DEF Leaving, Boot, Crash, CommandRestarts, WatcherRestarts, Exec, Exit, Replaced
  <1>3. CASE Starting \/ Greet
    BY <1>3 DEF Starting, Load, Probe, Wire, StartAgentServer, StartOthers, Greet, Goes
  <1>4. CASE Restarting
    BY <1>4 DEF Restarting, ToolRestart, CountdownFires, WatcherWakes, WatcherFails,
                CommandBegins, CommandStops, CommandFails
  <1>5. CASE Stopping
    BY <1>5 DEF Stopping, Shutdown, StopServices, ServiceStopped, AllStopped, BotClosed,
                ShutdownTimesOut, Goes
  <1>6. QED
    BY <1>1, <1>2, <1>3, <1>4, <1>5, Groups

LEMMA NumbersStep == Numbers /\ [Next]_vars => Numbers'
  <1> SUFFICES ASSUME Numbers, [Next]_vars PROVE Numbers'
    OBVIOUS
  <1> USE DEF Numbers, Times, NumServices, Never, fileVars, observed, restartVars, processVars
  <1>1. CASE Tick \/ UNCHANGED vars
    BY <1>1 DEF Tick, vars
  <1>2. CASE Leaving
    BY <1>2 DEF Leaving, Boot, Crash, CommandRestarts, WatcherRestarts, Exec, Exit, Replaced
  <1>3. CASE Starting \/ Greet
    BY <1>3 DEF Starting, Load, Probe, Wire, StartAgentServer, StartOthers, Greet, Goes
  <1>4. CASE Restarting
    <2>1. command \in DOMAIN RestartOrder => command + 1 \in 0 .. 5
      BY DEF RestartOrder
    <2>2. CASE CommandStops
      BY <2>1, <2>2 DEF CommandStops
    <2>3. CASE Restarting /\ ~CommandStops
      BY <2>3 DEF Restarting, ToolRestart, CountdownFires, WatcherWakes, WatcherFails,
                  CommandBegins, CommandFails
    <2>4. QED
      BY <1>4, <2>2, <2>3
  <1>5. CASE Stopping
    <2>1. /\ UNCHANGED <<now, processes, countdown, command>>
          /\ stopping' \in {stopping, 5} \/ (stopping > 0 /\ stopping' = stopping - 1)
      BY <1>5 DEF Stopping, Shutdown, StopServices, ServiceStopped, AllStopped, BotClosed,
                  ShutdownTimesOut, Goes
    <2>2. QED
      BY <2>1
  <1>6. QED
    BY <1>1, <1>2, <1>3, <1>4, <1>5, Groups

LEMMA StampsStep == Stamps /\ Numbers /\ [Next]_vars => Stamps'
  <1> SUFFICES ASSUME Stamps, now \in Times, [Next]_vars PROVE Stamps'
    BY DEF Numbers
  <1> USE DEF Stamps, fileVars, observed, restartVars, processVars
  <1>1. CASE Tick \/ UNCHANGED vars
    BY <1>1 DEF Tick, vars
  <1>2. CASE Leaving
    BY <1>2 DEF Leaving, Boot, Crash, CommandRestarts, WatcherRestarts, Exec, Exit, Replaced
  <1>3. CASE Starting
    BY <1>3 DEF Starting, Load, Probe, Wire, StartAgentServer, StartOthers
  <1>4. CASE Greet
    BY <1>4 DEF Greet, Broadcast
  <1>5. CASE Restarting
    BY <1>5 DEF Restarting, ToolRestart, CountdownFires, WatcherWakes, WatcherFails,
                CommandBegins, CommandStops, CommandFails
  <1>6. CASE Stopping
    BY <1>6 DEF Stopping, Shutdown, StopServices, ServiceStopped, AllStopped, BotClosed,
                ShutdownTimesOut
  <1>7. QED
    BY <1>1, <1>2, <1>3, <1>4, <1>5, <1>6, Groups

(* Every variable keeps its type: clocks and stamps, the places where the  *)
(* gateway and the watcher can be, and the number of services left.        *)
THEOREM LifecycleTypeCorrect == Spec => []TypeOK
  <1> DEFINE T == Flags /\ Places /\ Numbers /\ Stamps
  <1>1. Init => T
    <2> SUFFICES ASSUME Init PROVE T
      OBVIOUS
    <2>1. Flags
      BY Zenon DEF Init, Flags
    <2>2. Places /\ Numbers /\ Stamps
      BY DEF Init, Places, Numbers, Stamps, Times, NumServices, Never
    <2>3. QED
      BY <2>1, <2>2
  <1>2. T /\ [Next]_vars => T'
    BY FlagsStep, PlacesStep, NumbersStep, StampsStep
  <1>3. T => TypeOK
    BY Zenon DEF TypeOK, Flags, Places, Numbers, Stamps
  <1> HIDE DEF T
  <1>4. QED
    BY <1>1, <1>2, <1>3, PTL DEF Spec

(***************************************************************************)
(* The installer (module Installer): where the releases are at every step  *)
(* of a run.  The invariant says where the new release is (TargetInv), what*)
(* earlier runs left (LeftoverInv), where the release is that the run found*)
(* active (FoundInv) and that the machine has one (HadInv); the properties *)
(* of the run's end follow at the step that ends it.                       *)
(***************************************************************************)

DirStates == {"absent", "partial", "cloned", "whole"}
IsDir(d) ==
    /\ d = Release(d.version, d.state)
    /\ d.version \in 0 .. Last /\ d.state \in DirStates
    /\ Whole(d) => d.version # 0
    /\ d.state = "absent" <=> d = Absent

(* The steps of a run, from its beginning to the swap, from the swap to the*)
(* health check, and after it; those of a rollback and of a removal.       *)
Prepares == {"stage", "clone", "checkout", "configure", "write", "sync", "unload", "activate",
             "aside"}
Swapped == {"resync", "files", "register", "health"}
Finishes == {"cleanup", "tidy", "setup"}
RollsBack == {"rollback", "restore", "discard", "reregister", "recheck"}
Erases == {"unregister", "erase", "erased"}
Installs == Prepares \union {"swap"} \union Swapped \union Finishes \union RollsBack
Outcomes == {"none", "running", "refused", "failed", "killed", "done", "restored", "erased"}

IsRun(r) ==
    /\ r = [mode |-> r.mode, target |-> r.target, had |-> r.had, found |-> r.found,
            before |-> r.before, faults |-> r.faults, end |-> r.end]
    /\ r.mode \in Modes /\ r.target \in 0 .. Last /\ r.found \in 0 .. Last
    /\ r.before \in 0 .. Last /\ r.had \in BOOLEAN /\ r.faults \in Nat /\ r.end \in Outcomes

DirsOK ==
    /\ dirs = [app |-> dirs.app, candidate |-> dirs.candidate, previous |-> dirs.previous]
    /\ IsDir(dirs.app) /\ IsDir(dirs.candidate) /\ IsDir(dirs.previous)

InstallerTypeOK ==
    /\ platform \in {"Linux", "Darwin"}
    /\ DirsOK
    /\ daemon \in 0 .. Last /\ unit \in BOOLEAN
    /\ config \in {"none", "empty", "broken", "good"}
    /\ pc \in Installs \union Erases \union {"idle"}
    /\ IsRun(run)
    /\ faults \in Nat /\ runs \in Nat

RunInv ==
    /\ run.faults <= faults
    /\ pc = "idle" <=> run.end # "running"
    /\ run.mode = "uninstall" => ~run.had
    /\ pc \in Erases => run.mode = "uninstall"
    /\ pc \in Installs => run.mode # "uninstall" /\ run.target # 0
    /\ pc \in RollsBack => run.faults > 0

(* Where the release that is installed is, and what is left of others.     *)
TargetInv ==
    /\ pc = "clone" /\ run.faults = 0 => dirs.candidate = Absent
    /\ pc = "checkout" => dirs.candidate = Release(run.target, "partial")
    /\ pc \in {"configure", "write", "sync"} => dirs.candidate = Release(run.target, "cloned")
    /\ pc \in {"unload", "activate", "aside", "swap"} =>
           dirs.candidate = Release(run.target, "whole")
    /\ pc \in Swapped \union Finishes => dirs.app = Release(run.target, "whole")

(* A process belongs to a registered service.  Under systemd one that the  *)
(* run does not leave alone is gone until the service is started, and what *)
(* is started then is the new release.                                     *)
ProcessInv ==
    /\ daemon # 0 => unit
    /\ pc \in Prepares \union {"swap", "resync", "files", "register"} =>
           platform = "Darwin" \/ MayStay \/ daemon = 0
    /\ pc \in Finishes \union {"health"} => unit /\ (daemon = run.target \/ MayStay)

LeftoverInv ==
    /\ pc \in {"aside", "tidy", "setup"} /\ run.faults = 0 => dirs.previous = Absent
    /\ faults = 0 /\ pc \notin {"swap", "cleanup"} \union Swapped => dirs.previous = Absent

(* Where the release is that the run found active, if no more than one     *)
(* thing went wrong in the run.                                            *)
Found == Release(run.found, "whole")

FoundInv ==
    run.faults <= 1 /\ run.found # 0 =>
           /\ pc \in Prepares => dirs.app = Found /\ dirs.previous = Absent
           /\ pc = "swap" => dirs.app = Absent /\ dirs.previous = Found
           /\ pc \in Swapped \union {"rollback"} => dirs.previous = Found
           /\ pc = "restore" => dirs.app = Absent /\ dirs.previous = Found
           /\ pc \in {"discard", "reregister", "recheck"} => dirs.app = Found

(* A whole release that is not only staged, unless it is about to be       *)
(* activated; and a run that meets the first fault has found one active.   *)
HadInv ==
    faults <= 1 /\ run.had =>
        /\ \/ Whole(dirs.app) \/ Whole(dirs.previous)
           \/ pc \in {"activate", "aside", "swap"} /\ run.faults = 0
        /\ run.faults = faults => run.found # 0

InstallerInv ==
    /\ InstallerTypeOK /\ RunInv /\ TargetInv /\ ProcessInv /\ LeftoverInv /\ FoundInv
    /\ HadInv /\ FailureKeepsRelease /\ SuccessRunsRelease /\ CleanRunSucceeds

(* The run keeps what it was about; it has ended so, and has met n faults  *)
(* more.                                                                   *)
RunBecomes(how, n) ==
    /\ IsRun(run')
    /\ run'.mode = run.mode /\ run'.target = run.target
    /\ run'.found = run.found /\ run'.before = run.before /\ (run'.had <=> run.had)
    /\ run'.end = how
    /\ run'.faults = run.faults + n /\ faults' = faults + n

LEMMA NoFaultEffect ==
  ASSUME IsRun(run), faults \in Nat, NoFault
  PROVE  RunBecomes(run.end, 0)
  BY DEF NoFault, IsRun, RunBecomes

LEMMA FaultEffect ==
  ASSUME IsRun(run), faults \in Nat, Fault
  PROVE  RunBecomes(run.end, 1)
  BY DEF Fault, IsRun, RunBecomes

LEMMA EndsEffect ==
  ASSUME IsRun(run), faults \in Nat, NEW how \in Outcomes, Ends(how)
  PROVE  RunBecomes(how, 0)
  BY DEF Ends, IsRun, RunBecomes

LEMMA FaultEndsEffect ==
  ASSUME IsRun(run), faults \in Nat, NEW how \in Outcomes, FaultEnds(how)
  PROVE  RunBecomes(how, 1)
  <1> DEFINE r == [run EXCEPT !.faults = @ + 1]
  <1>1. /\ IsRun(r) /\ r.faults = run.faults + 1
        /\ r.mode = run.mode /\ r.target = run.target /\ r.had = run.had /\ r.found = run.found
        /\ r.before = run.before
    BY DEF IsRun
  <1>2. run' = [r EXCEPT !.end = how] /\ faults' = faults + 1
    BY DEF FaultEnds, IsRun
  <1> HIDE DEF r
  <1>3. QED
    BY <1>1, <1>2 DEF IsRun, RunBecomes

LEMMA Typed ==
  ASSUME InstallerTypeOK
  PROVE  DirsOK /\ IsRun(run) /\ faults \in Nat /\ run.faults \in Nat
  BY DEF InstallerTypeOK, IsRun

LEMMA TypeStep ==
  ASSUME InstallerTypeOK, NEW how, NEW n \in Nat, RunBecomes(how, n),
         DirsOK', UNCHANGED <<platform, runs>>, pc' \in Installs \union Erases \union {"idle"},
         daemon' \in 0 .. Last, unit' \in BOOLEAN,
         config' \in {"none", "empty", "broken", "good"}
  PROVE  InstallerTypeOK'
  BY DEF InstallerTypeOK, RunBecomes

LEMMA DirPieces ==
  ASSUME NEW d, IsDir(d)
  PROVE  IsDir([d EXCEPT !.state = "partial"]) /\ IsDir(Absent)
  BY InstallerAssumption DEF IsDir, Release, Absent, Whole, DirStates

(* A removal of the active release, and the other two alike.                *)
LEMMA AppRemoval ==
  ASSUME InstallerTypeOK, NEW from, NEW to, Remove("app", from, to)
  PROVE  /\ pc = from /\ UNCHANGED <<platform, runs>> /\ DirsOK'
         /\ dirs'.candidate = dirs.candidate /\ dirs'.previous = dirs.previous
         /\ \/ /\ pc' = from /\ RunBecomes(run.end, 0)
               /\ dirs.app.state \notin {"absent", "partial"}
               /\ dirs'.app.state = "partial"
            \/ /\ pc' = to /\ RunBecomes(run.end, 0)
               /\ dirs'.app = Absent
            \/ /\ pc' = to /\ RunBecomes(run.end, 1)
               /\ dirs'.app = dirs.app /\ dirs.app.state = "partial"
  <1> DEFINE d == dirs.app
  <1>1. DirsOK /\ IsRun(run) /\ faults \in Nat
    BY Typed
  <1>2. IsDir([d EXCEPT !.state = "partial"]) /\ IsDir(Absent)
    BY <1>1, DirPieces DEF DirsOK
  <1>3. CASE /\ d.state \notin {"absent", "partial"}
             /\ Step(from, from)
             /\ dirs' = [dirs EXCEPT !.app.state = "partial"]
             /\ NoFault
    <2>1. RunBecomes(run.end, 0)
      BY <1>1, <1>3, NoFaultEffect
    <2>2. dirs' = [dirs EXCEPT !.app = [d EXCEPT !.state = "partial"]]
      BY <1>3
    <2>3. DirsOK' /\ dirs'.app.state = "partial"
          /\ dirs'.candidate = dirs.candidate /\ dirs'.previous = dirs.previous
      BY <1>1, <1>2, <2>2 DEF DirsOK, IsDir, Release
    <2>4. QED
      BY <1>3, <2>1, <2>3 DEF Step, At
  <1>4. CASE /\ Step(from, to)
             /\ dirs' = [dirs EXCEPT !.app = Absent]
             /\ NoFault
    <2>1. RunBecomes(run.end, 0)
      BY <1>1, <1>4, NoFaultEffect
    <2>2. DirsOK' /\ dirs'.app = Absent
          /\ dirs'.candidate = dirs.candidate /\ dirs'.previous = dirs.previous
      BY <1>1, <1>2, <1>4 DEF DirsOK
    <2>3. QED
      BY <1>4, <2>1, <2>2 DEF Step, At
  <1>5. CASE /\ d.state = "partial"
             /\ Step(from, to)
             /\ Fault
             /\ UNCHANGED dirs
    <2>1. RunBecomes(run.end, 1)
      BY <1>1, <1>5, FaultEffect
    <2>2. QED
      BY <1>1, <1>5, <2>1 DEF Step, At, DirsOK
  <1>6. QED
    BY <1>3, <1>4, <1>5 DEF Remove


LEMMA CandidateRemoval ==
  ASSUME InstallerTypeOK, NEW from, NEW to, Remove("candidate", from, to)
  PROVE  /\ pc = from /\ UNCHANGED <<platform, runs>> /\ DirsOK'
         /\ dirs'.app = dirs.app /\ dirs'.previous = dirs.previous
         /\ \/ /\ pc' = from /\ RunBecomes(run.end, 0)
               /\ dirs.candidate.state \notin {"absent", "partial"}
               /\ dirs'.candidate.state = "partial"
            \/ /\ pc' = to /\ RunBecomes(run.end, 0)
               /\ dirs'.candidate = Absent
            \/ /\ pc' = to /\ RunBecomes(run.end, 1)
               /\ dirs'.candidate = dirs.candidate /\ dirs.candidate.state = "partial"
  <1> DEFINE d == dirs.candidate
  <1>1. DirsOK /\ IsRun(run) /\ faults \in Nat
    BY Typed
  <1>2. IsDir([d EXCEPT !.state = "partial"]) /\ IsDir(Absent)
    BY <1>1, DirPieces DEF DirsOK
  <1>3. CASE /\ d.state \notin {"absent", "partial"}
             /\ Step(from, from)
             /\ dirs' = [dirs EXCEPT !.candidate.state = "partial"]
             /\ NoFault
    <2>1. RunBecomes(run.end, 0)
      BY <1>1, <1>3, NoFaultEffect
    <2>2. dirs' = [dirs EXCEPT !.candidate = [d EXCEPT !.state = "partial"]]
      BY <1>3
    <2>3. DirsOK' /\ dirs'.candidate.state = "partial"
          /\ dirs'.app = dirs.app /\ dirs'.previous = dirs.previous
      BY <1>1, <1>2, <2>2 DEF DirsOK, IsDir, Release
    <2>4. QED
      BY <1>3, <2>1, <2>3 DEF Step, At
  <1>4. CASE /\ Step(from, to)
             /\ dirs' = [dirs EXCEPT !.candidate = Absent]
             /\ NoFault
    <2>1. RunBecomes(run.end, 0)
      BY <1>1, <1>4, NoFaultEffect
    <2>2. DirsOK' /\ dirs'.candidate = Absent
          /\ dirs'.app = dirs.app /\ dirs'.previous = dirs.previous
      BY <1>1, <1>2, <1>4 DEF DirsOK
    <2>3. QED
      BY <1>4, <2>1, <2>2 DEF Step, At
  <1>5. CASE /\ d.state = "partial"
             /\ Step(from, to)
             /\ Fault
             /\ UNCHANGED dirs
    <2>1. RunBecomes(run.end, 1)
      BY <1>1, <1>5, FaultEffect
    <2>2. QED
      BY <1>1, <1>5, <2>1 DEF Step, At, DirsOK
  <1>6. QED
    BY <1>3, <1>4, <1>5 DEF Remove


LEMMA PreviousRemoval ==
  ASSUME InstallerTypeOK, NEW from, NEW to, Remove("previous", from, to)
  PROVE  /\ pc = from /\ UNCHANGED <<platform, runs>> /\ DirsOK'
         /\ dirs'.app = dirs.app /\ dirs'.candidate = dirs.candidate
         /\ \/ /\ pc' = from /\ RunBecomes(run.end, 0)
               /\ dirs.previous.state \notin {"absent", "partial"}
               /\ dirs'.previous.state = "partial"
            \/ /\ pc' = to /\ RunBecomes(run.end, 0)
               /\ dirs'.previous = Absent
            \/ /\ pc' = to /\ RunBecomes(run.end, 1)
               /\ dirs'.previous = dirs.previous /\ dirs.previous.state = "partial"
  <1> DEFINE d == dirs.previous
  <1>1. DirsOK /\ IsRun(run) /\ faults \in Nat
    BY Typed
  <1>2. IsDir([d EXCEPT !.state = "partial"]) /\ IsDir(Absent)
    BY <1>1, DirPieces DEF DirsOK
  <1>3. CASE /\ d.state \notin {"absent", "partial"}
             /\ Step(from, from)
             /\ dirs' = [dirs EXCEPT !.previous.state = "partial"]
             /\ NoFault
    <2>1. RunBecomes(run.end, 0)
      BY <1>1, <1>3, NoFaultEffect
    <2>2. dirs' = [dirs EXCEPT !.previous = [d EXCEPT !.state = "partial"]]
      BY <1>3
    <2>3. DirsOK' /\ dirs'.previous.state = "partial"
          /\ dirs'.app = dirs.app /\ dirs'.candidate = dirs.candidate
      BY <1>1, <1>2, <2>2 DEF DirsOK, IsDir, Release
    <2>4. QED
      BY <1>3, <2>1, <2>3 DEF Step, At
  <1>4. CASE /\ Step(from, to)
             /\ dirs' = [dirs EXCEPT !.previous = Absent]
             /\ NoFault
    <2>1. RunBecomes(run.end, 0)
      BY <1>1, <1>4, NoFaultEffect
    <2>2. DirsOK' /\ dirs'.previous = Absent
          /\ dirs'.app = dirs.app /\ dirs'.candidate = dirs.candidate
      BY <1>1, <1>2, <1>4 DEF DirsOK
    <2>3. QED
      BY <1>4, <2>1, <2>2 DEF Step, At
  <1>5. CASE /\ d.state = "partial"
             /\ Step(from, to)
             /\ Fault
             /\ UNCHANGED dirs
    <2>1. RunBecomes(run.end, 1)
      BY <1>1, <1>5, FaultEffect
    <2>2. QED
      BY <1>1, <1>5, <2>1 DEF Step, At, DirsOK
  <1>6. QED
    BY <1>3, <1>4, <1>5 DEF Remove

LEMMA UnhealthyEffect ==
  ASSUME IsRun(run), faults \in Nat, Unhealthy
  PROVE  RunBecomes(run.end, 1)
  BY DEF Unhealthy, IsRun, RunBecomes

(* What is staged is a directory.                                          *)
LEMMA Staged ==
  ASSUME NEW v \in Versions, NEW s \in {"partial", "cloned", "whole"}
  PROVE  IsDir(Release(v, s))
  BY InstallerAssumption DEF IsDir, Release, Absent, Whole, DirStates, Versions

LEMMA CloneEffect ==
  ASSUME InstallerTypeOK, RunInv, Clone
  PROVE  /\ pc = "clone" /\ UNCHANGED <<platform, daemon, unit, config, runs>> /\ DirsOK'
         /\ dirs'.app = dirs.app /\ dirs'.previous = dirs.previous
         /\ \/ /\ pc' = "checkout" /\ RunBecomes(run.end, 0)
               /\ dirs'.candidate = Release(run.target, "partial")
            \/ /\ dirs.candidate # Absent /\ dirs' = dirs
               /\ pc' = "idle" /\ RunBecomes("failed", 0)
  <1>1. DirsOK /\ IsRun(run) /\ faults \in Nat /\ pc = "clone"
        /\ UNCHANGED <<platform, daemon, unit, config, runs>>
    BY Typed DEF Clone, At, Step
  <1>2. CASE dirs.candidate = Absent
    <2>1. RunBecomes(run.end, 0)
      BY <1>1, <1>2, NoFaultEffect DEF Clone
    <2>2. IsDir(Release(run.target, "partial"))
      BY <1>1, Staged DEF RunInv, IsRun, Installs, Prepares, Versions
    <2>3. pc' = "checkout" /\ dirs' = [dirs EXCEPT !.candidate = Release(run.target, "partial")]
      BY <1>2 DEF Clone, Step
    <2>4. DirsOK' /\ dirs'.candidate = Release(run.target, "partial")
          /\ dirs'.app = dirs.app /\ dirs'.previous = dirs.previous
      BY <1>1, <2>2, <2>3 DEF DirsOK
    <2>5. QED
      BY <1>1, <2>1, <2>3, <2>4
  <1>3. CASE dirs.candidate # Absent
    <2>1. Ends("failed") /\ pc' = "idle" /\ dirs' = dirs
      BY <1>3 DEF Clone, Step
    <2>2. RunBecomes("failed", 0)
      BY <1>1, <2>1, EndsEffect DEF Outcomes
    <2>3. QED
      BY <1>1, <1>3, <2>1, <2>2 DEF DirsOK
  <1>4. QED
    BY <1>2, <1>3

LEMMA OpenConfigEffect ==
  ASSUME InstallerTypeOK, OpenConfig
  PROVE  /\ pc = "configure" /\ UNCHANGED <<platform, dirs, daemon, unit, runs>>
         /\ \/ /\ pc' = "write" /\ RunBecomes(run.end, 0) /\ config' = "empty"
            \/ /\ config = "broken" /\ config' = config
               /\ pc' = "idle" /\ RunBecomes("failed", 0)
  <1>1. IsRun(run) /\ faults \in Nat /\ pc = "configure"
        /\ UNCHANGED <<platform, dirs, daemon, unit, runs>>
    BY Typed DEF OpenConfig, At, Step
  <1>2. CASE config # "broken"
    <2>1. NoFault /\ pc' = "write" /\ config' = "empty"
      BY <1>2 DEF OpenConfig, Step
    <2>2. QED
      BY <1>1, <2>1, NoFaultEffect
  <1>3. CASE config = "broken"
    <2>1. Ends("failed") /\ pc' = "idle" /\ config' = config
      BY <1>3 DEF OpenConfig, Step
    <2>2. RunBecomes("failed", 0)
      BY <1>1, <2>1, EndsEffect DEF Outcomes
    <2>3. QED
      BY <1>1, <1>3, <2>1, <2>2
  <1>4. QED
    BY <1>2, <1>3

LEMMA RestoreEffect ==
  ASSUME InstallerTypeOK, Restore
  PROVE  /\ pc = "restore" /\ UNCHANGED <<platform, daemon, unit, config, runs>> /\ DirsOK'
         /\ \/ /\ pc' = "discard" /\ RunBecomes(run.end, 0)
               /\ dirs.app = Absent /\ dirs.previous # Absent
               /\ dirs'.app = dirs.previous /\ dirs'.previous = Absent
               /\ dirs'.candidate = dirs.candidate
            \/ /\ dirs.previous = Absent \/ dirs.app # Absent
               /\ dirs' = dirs
               /\ pc' = "idle" /\ RunBecomes("failed", 0)
  <1>1. DirsOK /\ IsRun(run) /\ faults \in Nat /\ pc = "restore"
        /\ UNCHANGED <<platform, daemon, unit, config, runs>>
    BY Typed DEF Restore, At, Step
  <1>2. CASE ~(dirs.previous = Absent \/ dirs.app # Absent)
    <2>1. NoFault /\ pc' = "discard"
          /\ dirs' = [dirs EXCEPT !.app = dirs.previous, !.previous = Absent]
      BY <1>2 DEF Restore, Step
    <2>2. RunBecomes(run.end, 0)
      BY <1>1, <2>1, NoFaultEffect
    <2>3. DirsOK' /\ dirs'.app = dirs.previous /\ dirs'.previous = Absent
          /\ dirs'.candidate = dirs.candidate
      BY <1>1, <1>2, <2>1 DEF DirsOK
    <2>4. QED
      BY <1>1, <1>2, <2>1, <2>2, <2>3
  <1>3. CASE dirs.previous = Absent \/ dirs.app # Absent
    <2>1. Ends("failed") /\ pc' = "idle" /\ dirs' = dirs
      BY <1>3 DEF Restore, Step
    <2>2. RunBecomes("failed", 0)
      BY <1>1, <2>1, EndsEffect DEF Outcomes
    <2>3. QED
      BY <1>1, <1>3, <2>1, <2>2 DEF DirsOK
  <1>4. QED
    BY <1>2, <1>3

(* The last step of a run that succeeds, with or without a restart.        *)
LEMMA FinishEffect ==
  ASSUME InstallerTypeOK, Finish \/ RestartFails
  PROVE  /\ UNCHANGED <<platform, dirs, unit, config, runs>>
         /\ pc = "setup" /\ pc' = "idle"
         /\ \/ /\ RunBecomes("done", 0)
               /\ daemon' \in {daemon, Started(dirs.app)}
            \/ RunBecomes("done", 1) /\ daemon' = 0
  <1>1. CASE Finish
    <2>1. RunBecomes("done", 0)
      BY <1>1, Typed, EndsEffect DEF Finish, Outcomes
    <2>2. QED
      BY <1>1, <2>1 DEF Finish, Step, At
  <1>2. CASE RestartFails
    <2>1. RunBecomes("done", 1)
      BY <1>2, Typed, FaultEndsEffect DEF RestartFails, Outcomes
    <2>2. QED
      BY <1>2, <2>1 DEF RestartFails, Step, At
  <1>3. QED
    BY <1>1, <1>2

LEMMA RolledBackEffect ==
  ASSUME InstallerTypeOK, RolledBack
  PROVE  /\ UNCHANGED <<platform, dirs, daemon, unit, config, runs>>
         /\ pc = "recheck" /\ pc' = "idle"
         /\ \/ RunBecomes("restored", 0)
            \/ RunBecomes("failed", 0)
  <1>1. RunBecomes("restored", 0) \/ RunBecomes("failed", 0)
    <2>1. Ends("restored") \/ Ends("failed")
      BY DEF RolledBack
    <2>2. QED
      BY <2>1, Typed, EndsEffect DEF Outcomes
  <1>2. QED
    BY <1>1 DEF RolledBack, Step, At

LEMMA ErasedEffect ==
  ASSUME InstallerTypeOK, Erased
  PROVE  /\ UNCHANGED <<platform, dirs, daemon, unit, config, runs>>
         /\ pc = "erased" /\ pc' = "idle"
         /\ \/ RunBecomes("erased", 0)
            \/ RunBecomes("failed", 0)
  <1>1. RunBecomes("erased", 0) \/ RunBecomes("failed", 0)
    <2>1. Ends("erased") \/ Ends("failed")
      BY DEF Erased
    <2>2. QED
      BY <2>1, Typed, EndsEffect DEF Outcomes
  <1>2. QED
    BY <1>1 DEF Erased, Step, At

(* A run that ends by a fault leaves the active release and the one set    *)
(* aside where they are.                                                   *)
LEMMA FailsEffect ==
  ASSUME InstallerTypeOK, RunInv, CloneFails \/ SyncFails \/ ReregisterFails
  PROVE  /\ pc \in Prepares \union {"reregister"} /\ pc' = "idle"
         /\ RunBecomes("failed", 1)
         /\ UNCHANGED <<platform, daemon, unit, config, runs>> /\ DirsOK'
         /\ dirs'.app = dirs.app /\ dirs'.previous = dirs.previous
  <1>1. FaultEnds("failed")
    BY DEF CloneFails, SyncFails, ReregisterFails
  <1>2. RunBecomes("failed", 1)
    BY <1>1, FaultEndsEffect, Typed DEF Outcomes
  <1>3. /\ pc \in Prepares \union {"reregister"} /\ pc' = "idle"
        /\ UNCHANGED <<platform, daemon, unit, config, runs>>
    BY DEF CloneFails, SyncFails, ReregisterFails, Step, At, Prepares
  <1>4. dirs'.app = dirs.app /\ dirs'.previous = dirs.previous /\ DirsOK'
    <2>1. CASE SyncFails
      <3>1. pc = "sync"
        BY <2>1 DEF SyncFails, Step, At
      <3>2. run.target \in Versions
        BY <3>1, Typed DEF RunInv, IsRun, Installs, Prepares, Versions
      <3>3. IsDir(Absent) /\ IsDir(Release(run.target, "partial"))
        BY <3>2, Staged, DirPieces, Typed DEF DirsOK
      <3>4. PICK rest \in {Absent, Release(run.target, "partial")} :
                dirs' = [dirs EXCEPT !.candidate = rest]
        BY <2>1 DEF SyncFails
      <3>5. DirsOK /\ IsDir(rest)
        BY <3>3, <3>4, Typed
      <3>6. QED
        BY <3>4, <3>5 DEF DirsOK
    <2>2. CASE CloneFails \/ ReregisterFails
      BY <2>2, Typed DEF DirsOK, CloneFails, ReregisterFails
    <2>3. QED
      BY <2>1, <2>2
  <1>5. QED
    BY <1>2, <1>3, <1>4

LEMMA KilledEffect ==
  ASSUME InstallerTypeOK, Killed
  PROVE  /\ pc # "idle" /\ pc' = "idle" /\ RunBecomes("killed", 1)
         /\ UNCHANGED <<platform, dirs, daemon, unit, runs>>
         /\ config' \in {config, "empty", "broken"}
  <1>1. RunBecomes("killed", 1)
    BY FaultEndsEffect, Typed DEF Killed, Outcomes
  <1>2. QED
    BY <1>1 DEF Killed

LEMMA BeginEffect ==
  ASSUME InstallerTypeOK, NEW mode \in Modes, NEW v \in Versions, Begin(mode, v)
  PROVE  /\ pc = "idle" /\ UNCHANGED <<platform, dirs, unit, config, faults>>
         /\ IsRun(run') /\ run'.mode = mode /\ run'.target = v /\ run'.faults = 0
         /\ run'.had => run.had \/ Whole(dirs.app)
         /\ mode = "uninstall" => ~run'.had
         /\ \/ dirs.previous = Absent /\ Whole(dirs.app) /\ run'.found = dirs.app.version
            \/ (dirs.previous # Absent \/ ~Whole(dirs.app)) /\ run'.found = 0
         /\ \/ /\ run'.end = "refused" /\ pc' = "idle"
            \/ /\ run'.end = "running" /\ mode = "uninstall" /\ pc' = "unregister"
            \/ /\ run'.end = "running" /\ mode # "uninstall" /\ pc' = "stage"
         /\ daemon' = (IF StopsFirst(mode) THEN 0 ELSE daemon) /\ runs' = runs + 1
         /\ run'.before = daemon
  <1> DEFINE found == IF dirs.previous = Absent /\ Whole(dirs.app) THEN dirs.app.version ELSE 0
             had == (run.had \/ Whole(dirs.app)) /\ mode # "uninstall"
             end == IF Refused(mode) THEN "refused" ELSE "running"
  <1>1. /\ run' = [mode |-> mode, target |-> v, found |-> found, before |-> daemon,
                   faults |-> 0, had |-> had, end |-> end]
        /\ pc' = CASE Refused(mode) -> "idle"
                   [] mode = "uninstall" -> "unregister"
                   [] OTHER -> "stage"
        /\ pc = "idle" /\ UNCHANGED <<platform, dirs, unit, config, faults>>
        /\ daemon' = (IF StopsFirst(mode) THEN 0 ELSE daemon) /\ runs' = runs + 1
    BY DEF Begin, At
  <1>2. found \in 0 .. Last
    BY InstallerAssumption DEF InstallerTypeOK, DirsOK, IsDir
  <1>3. had \in BOOLEAN
    BY Zenon
  <1>4. end \in Outcomes /\ v \in 0 .. Last /\ daemon \in 0 .. Last
    BY InstallerAssumption DEF Outcomes, Versions, InstallerTypeOK
  <1> HIDE DEF found, had, end
  <1>5. IsRun(run') /\ run'.mode = mode /\ run'.target = v /\ run'.faults = 0
        /\ run'.found = found /\ run'.had = had /\ run'.end = end
        /\ run'.before = daemon
    BY <1>1, <1>2, <1>3, <1>4 DEF IsRun
  <1>6. /\ run'.had => run.had \/ Whole(dirs.app)
        /\ mode = "uninstall" => ~run'.had
    <2>1. run'.had = had
      BY <1>5
    <2>2. (had => run.had \/ Whole(dirs.app)) /\ (mode = "uninstall" => ~had)
      BY Zenon DEF had
    <2>3. QED
      BY <2>1, <2>2, Zenon
  <1>7. \/ /\ run'.end = "refused" /\ pc' = "idle"
        \/ /\ run'.end = "running" /\ mode = "uninstall" /\ pc' = "unregister"
        \/ /\ run'.end = "running" /\ mode # "uninstall" /\ pc' = "stage"
    <2>1. CASE Refused(mode)
      BY <1>1, <1>5, <2>1 DEF end, Refused
    <2>2. CASE ~Refused(mode)
      BY <1>1, <1>5, <2>2 DEF end
    <2>3. QED
      BY <2>1, <2>2
  <1>8. QED
    BY <1>1, <1>5, <1>6, <1>7 DEF found

LEMMA SyncEffect ==
  ASSUME InstallerTypeOK, RunInv, TargetInv, Sync
  PROVE  /\ pc = "sync" /\ pc' = "unload" /\ RunBecomes(run.end, 0)
         /\ UNCHANGED <<platform, daemon, unit, config, runs>> /\ DirsOK'
         /\ dirs'.app = dirs.app /\ dirs'.previous = dirs.previous
         /\ dirs'.candidate = Release(run.target, "whole")
  <1>1. /\ pc = "sync" /\ pc' = "unload" /\ NoFault
        /\ UNCHANGED <<platform, daemon, unit, config, runs>>
        /\ dirs' = [dirs EXCEPT !.candidate = [dirs.candidate EXCEPT !.state = "whole"]]
    BY DEF Sync, Step, At
  <1>2. run.target \in Versions
    BY <1>1, Typed DEF RunInv, IsRun, Installs, Prepares, Versions
  <1>3. dirs.candidate = Release(run.target, "cloned")
    BY <1>1 DEF TargetInv
  <1>4. [dirs.candidate EXCEPT !.state = "whole"] = Release(run.target, "whole")
    BY <1>3 DEF Release
  <1>5. IsDir(Release(run.target, "whole"))
    BY <1>2, Staged
  <1>6. RunBecomes(run.end, 0)
    BY <1>1, Typed, NoFaultEffect
  <1>7. QED
    BY <1>1, <1>4, <1>5, <1>6, Typed DEF DirsOK

LEMMA MoveAsideEffect ==
  ASSUME InstallerTypeOK, MoveAside
  PROVE  /\ pc = "aside" /\ RunBecomes(run.end, 0)
         /\ UNCHANGED <<platform, daemon, unit, config, runs>> /\ DirsOK'
         /\ dirs'.candidate = dirs.candidate
         /\ \/ /\ pc' = "rollback" /\ dirs.app # Absent /\ dirs.previous # Absent
               /\ dirs'.app = dirs.app /\ dirs'.previous = dirs.previous
            \/ /\ pc' = "swap" /\ dirs.app = Absent
               /\ dirs'.app = dirs.app /\ dirs'.previous = dirs.previous
            \/ /\ pc' = "swap" /\ dirs.app # Absent /\ dirs.previous = Absent
               /\ dirs'.app = Absent /\ dirs'.previous = dirs.app
  <1>1. /\ pc = "aside" /\ UNCHANGED <<platform, daemon, unit, config, runs>>
        /\ RunBecomes(run.end, 0) /\ DirsOK /\ IsDir(Absent)
    BY Typed, NoFaultEffect, DirPieces DEF MoveAside, Step, At, DirsOK
  <1>2. CASE dirs.app # Absent /\ dirs.previous # Absent
    BY <1>1, <1>2 DEF MoveAside, Step, DirsOK
  <1>3. CASE dirs.app = Absent
    BY <1>1, <1>3 DEF MoveAside, Step, DirsOK
  <1>4. CASE dirs.app # Absent /\ dirs.previous = Absent
    <2>1. pc' = "swap" /\ dirs' = [dirs EXCEPT !.previous = dirs.app, !.app = Absent]
      BY <1>4 DEF MoveAside, Step
    <2>2. QED
      BY <1>1, <1>4, <2>1 DEF DirsOK
  <1>5. QED
    BY <1>2, <1>3, <1>4

LEMMA SwapEffect ==
  ASSUME InstallerTypeOK, Swap
  PROVE  /\ pc = "swap" /\ pc' = "resync" /\ RunBecomes(run.end, 0)
         /\ UNCHANGED <<platform, daemon, unit, config, runs>> /\ DirsOK'
         /\ dirs'.app = dirs.candidate /\ dirs'.candidate = Absent
         /\ dirs'.previous = dirs.previous
  <1>1. /\ pc = "swap" /\ pc' = "resync" /\ RunBecomes(run.end, 0)
        /\ UNCHANGED <<platform, daemon, unit, config, runs>>
        /\ DirsOK /\ IsDir(Absent)
        /\ dirs' = [dirs EXCEPT !.app = dirs.candidate, !.candidate = Absent]
    BY Typed, NoFaultEffect, DirPieces DEF Swap, Step, At, DirsOK
  <1>2. QED
    BY <1>1 DEF DirsOK

(* What the service manager starts is a release, or nothing.               *)
LEMMA StartedEffect ==
  ASSUME InstallerTypeOK
  PROVE  Started(dirs.app) \in 0 .. Last /\ 0 \in 0 .. Last
  BY InstallerAssumption DEF InstallerTypeOK, DirsOK, IsDir, Started

LEMMA StartedRelease ==
  ASSUME NEW v, dirs.app = Release(v, "whole")
  PROVE  Started(dirs.app) = v
  BY DEF Started, Whole, Release

(* One lemma per conjunct of the invariant, one step per kind of action.   *)
LEMMA TypeKept ==
  ASSUME InstallerInv, InstallerNext
  PROVE  InstallerTypeOK'
  <1> USE DEF InstallerInv, RunInv, InstallerTypeOK, DirsOK, RunBecomes,
              Prepares, Swapped, Finishes, RollsBack, Erases, Installs
  <1>1. /\ InstallerTypeOK /\ RunInv /\ TargetInv /\ DirsOK /\ IsRun(run)
        /\ faults \in Nat /\ run.faults \in Nat
    BY Typed
  <1>2. CASE \E mode \in Modes, v \in Versions : Begin(mode, v)
    BY <1>1, <1>2, BeginEffect, StartedEffect
  <1>3. CASE WriteConfig \/ Resync \/ InstallFiles \/ Healthy
    BY <1>1, <1>3, NoFaultEffect DEF WriteConfig, Resync, InstallFiles,
       Healthy, Step, At
  <1>4. CASE Checkout
    BY <1>1, <1>4, NoFaultEffect, InstallerAssumption DEF Checkout, Step,
       At, IsDir, Release, Absent, Whole, DirStates
  <1>5. CASE Unload
    BY <1>1, <1>5, NoFaultEffect, StartedEffect DEF Unload, Step, At
  <1>6. CASE Clone
    BY <1>1, <1>6, CloneEffect
  <1>7. CASE OpenConfig
    BY <1>1, <1>7, OpenConfigEffect
  <1>8. CASE Sync
    BY <1>1, <1>8, SyncEffect
  <1>9. CASE MoveAside
    BY <1>1, <1>9, MoveAsideEffect
  <1>10. CASE Swap
    BY <1>1, <1>10, SwapEffect
  <1>11. CASE ClearCandidate \/ DropCandidate \/ Discard
    BY <1>1, <1>11, CandidateRemoval DEF ClearCandidate, DropCandidate,
       Discard
  <1>12. CASE ClearPrevious \/ DropPrevious
    BY <1>1, <1>12, PreviousRemoval DEF ClearPrevious, DropPrevious
  <1>13. CASE DropApp \/ Erase
    BY <1>1, <1>13, AppRemoval DEF DropApp, Erase
  <1>14. CASE Register("register", "health") \/ Register("reregister",
             "recheck")
    <2>1. /\ NoFault /\ UNCHANGED <<platform, runs, dirs, config>>
          /\ unit' = TRUE /\ pc' \in {"health", "recheck"}
          /\ daemon' \in {daemon, Started(dirs.app)}
      BY <1>14 DEF Register, Step
    <2>2. RunBecomes(run.end, 0)
      BY <1>1, <2>1, NoFaultEffect
    <2>3. QED
      BY <1>1, <2>1, <2>2, StartedEffect, TypeStep
  <1>15. CASE ActivationFails \/ TooSlow
    BY <1>1, <1>15, FaultEffect DEF ActivationFails, TooSlow, Step, At
  <1>16. CASE Unhealthy
    BY <1>1, <1>16, UnhealthyEffect DEF Unhealthy, Step, At
  <1>17. CASE CloneFails \/ SyncFails \/ ReregisterFails
    BY <1>1, <1>17, FailsEffect
  <1>18. CASE Restore
    BY <1>1, <1>18, RestoreEffect
  <1>19. CASE Finish \/ RestartFails
    BY <1>1, <1>19, FinishEffect, StartedEffect
  <1>20. CASE RolledBack \/ Erased
    BY <1>1, <1>20, RolledBackEffect, ErasedEffect
  <1>21. CASE Unregister
    <2>1. /\ NoFault /\ UNCHANGED <<platform, runs, dirs, config>>
          /\ unit' = FALSE /\ pc' = "erase" /\ daemon' \in {0, daemon}
      BY <1>21 DEF Unregister, Step
    <2>2. RunBecomes(run.end, 0)
      BY <1>1, <2>1, NoFaultEffect
    <2>3. QED
      BY <1>1, <2>1, <2>2, StartedEffect, TypeStep
  <1>22. CASE Killed
    BY <1>1, <1>22, KilledEffect
  <1>23. CASE DaemonRestarts
    BY <1>1, <1>23, StartedEffect DEF DaemonRestarts
  <1>24. QED
    BY <1>2, <1>3, <1>4, <1>5, <1>6, <1>7, <1>8, <1>9, <1>10, <1>11, <1>12,
       <1>13, <1>14, <1>15, <1>16, <1>17, <1>18, <1>19, <1>20, <1>21, <1>22,
       <1>23 DEF InstallerNext, Staging, Cutover, Rollback, Uninstall

LEMMA RunKept ==
  ASSUME InstallerInv, InstallerNext
  PROVE  RunInv'
  <1> USE DEF InstallerInv, RunInv, LeftoverInv, TargetInv, Versions,
              RunBecomes, Prepares, Swapped, Finishes, RollsBack, Erases,
              Installs
  <1>1. /\ InstallerTypeOK /\ RunInv /\ TargetInv /\ DirsOK /\ IsRun(run)
        /\ faults \in Nat /\ run.faults \in Nat
    BY Typed
  <1>2. CASE \E mode \in Modes, v \in Versions : Begin(mode, v)
    BY <1>1, <1>2, BeginEffect
  <1>3. CASE WriteConfig \/ Resync \/ InstallFiles \/ Healthy
    BY <1>1, <1>3, NoFaultEffect DEF WriteConfig, Resync, InstallFiles,
       Healthy, Step, At
  <1>4. CASE Checkout
    BY <1>1, <1>4, NoFaultEffect DEF Checkout, Step, At
  <1>5. CASE Unload
    BY <1>1, <1>5, NoFaultEffect DEF Unload, Step, At
  <1>6. CASE Clone
    BY <1>1, <1>6, CloneEffect
  <1>7. CASE OpenConfig
    BY <1>1, <1>7, OpenConfigEffect
  <1>8. CASE Sync
    BY <1>1, <1>8, SyncEffect
  <1>9. CASE MoveAside
    BY <1>1, <1>9, MoveAsideEffect
  <1>10. CASE Swap
    BY <1>1, <1>10, SwapEffect
  <1>11. CASE ClearCandidate \/ DropCandidate \/ Discard
    BY <1>1, <1>11, CandidateRemoval DEF ClearCandidate, DropCandidate,
       Discard
  <1>12. CASE ClearPrevious \/ DropPrevious
    BY <1>1, <1>12, PreviousRemoval DEF ClearPrevious, DropPrevious
  <1>13. CASE DropApp \/ Erase
    BY <1>1, <1>13, AppRemoval DEF DropApp, Erase
  <1>14. CASE Register("register", "health") \/ Register("reregister",
             "recheck")
    BY <1>1, <1>14, NoFaultEffect DEF Register, Step, At
  <1>15. CASE ActivationFails \/ TooSlow
    BY <1>1, <1>15, FaultEffect DEF ActivationFails, TooSlow, Step, At
  <1>16. CASE Unhealthy
    BY <1>1, <1>16, UnhealthyEffect DEF Unhealthy, Step, At
  <1>17. CASE CloneFails \/ SyncFails \/ ReregisterFails
    BY <1>1, <1>17, FailsEffect
  <1>18. CASE Restore
    BY <1>1, <1>18, RestoreEffect
  <1>19. CASE Finish \/ RestartFails
    BY <1>1, <1>19, FinishEffect
  <1>20. CASE RolledBack \/ Erased
    BY <1>1, <1>20, RolledBackEffect, ErasedEffect
  <1>21. CASE Unregister
    BY <1>1, <1>21, NoFaultEffect DEF Unregister, Step, At
  <1>22. CASE Killed
    BY <1>1, <1>22, KilledEffect
  <1>23. CASE DaemonRestarts
    BY <1>1, <1>23 DEF DaemonRestarts
  <1>24. QED
    BY <1>2, <1>3, <1>4, <1>5, <1>6, <1>7, <1>8, <1>9, <1>10, <1>11, <1>12,
       <1>13, <1>14, <1>15, <1>16, <1>17, <1>18, <1>19, <1>20, <1>21, <1>22,
       <1>23 DEF InstallerNext, Staging, Cutover, Rollback, Uninstall

(* Each step leaves the new release where the next one looks for it.       *)
LEMMA TargetKept ==
  ASSUME InstallerInv, InstallerNext
  PROVE  TargetInv'
  <1> USE DEF InstallerInv, InstallerTypeOK, RunInv, TargetInv, Release,
              RunBecomes, Prepares, Swapped, Finishes, RollsBack, Erases,
              Installs
  <1>1. /\ InstallerTypeOK /\ RunInv /\ TargetInv /\ DirsOK /\ IsRun(run)
        /\ faults \in Nat /\ run.faults \in Nat
    BY Typed
  <1>2. CASE \E mode \in Modes, v \in Versions : Begin(mode, v)
    BY <1>1, <1>2, BeginEffect
  <1>3. CASE WriteConfig \/ Resync \/ InstallFiles \/ Healthy
    BY <1>1, <1>3, NoFaultEffect DEF WriteConfig, Resync, InstallFiles,
       Healthy, Step, At
  <1>4. CASE Checkout
    BY <1>1, <1>4, NoFaultEffect DEF Checkout, Step, At
  <1>5. CASE Unload
    BY <1>1, <1>5, NoFaultEffect DEF Unload, Step, At
  <1>6. CASE Clone
    BY <1>1, <1>6, CloneEffect
  <1>7. CASE OpenConfig
    BY <1>1, <1>7, OpenConfigEffect
  <1>8. CASE Sync
    BY <1>1, <1>8, SyncEffect
  <1>9. CASE MoveAside
    BY <1>1, <1>9, MoveAsideEffect
  <1>10. CASE Swap
    BY <1>1, <1>10, SwapEffect
  <1>11. CASE ClearCandidate \/ DropCandidate \/ Discard
    BY <1>1, <1>11, CandidateRemoval DEF ClearCandidate, DropCandidate,
       Discard
  <1>12. CASE ClearPrevious \/ DropPrevious
    BY <1>1, <1>12, PreviousRemoval DEF ClearPrevious, DropPrevious
  <1>13. CASE DropApp \/ Erase
    BY <1>1, <1>13, AppRemoval DEF DropApp, Erase
  <1>14. CASE Register("register", "health") \/ Register("reregister",
             "recheck")
    BY <1>1, <1>14, NoFaultEffect DEF Register, Step, At, Started, Whole
  <1>15. CASE ActivationFails \/ TooSlow
    BY <1>1, <1>15, FaultEffect DEF ActivationFails, TooSlow, Step, At
  <1>16. CASE Unhealthy
    BY <1>1, <1>16, UnhealthyEffect DEF Unhealthy, Step, At
  <1>17. CASE CloneFails \/ SyncFails \/ ReregisterFails
    BY <1>1, <1>17, FailsEffect
  <1>18. CASE Restore
    BY <1>1, <1>18, RestoreEffect
  <1>19. CASE Finish \/ RestartFails
    BY <1>1, <1>19, FinishEffect
  <1>20. CASE RolledBack \/ Erased
    BY <1>1, <1>20, RolledBackEffect, ErasedEffect
  <1>21. CASE Unregister
    BY <1>1, <1>21, NoFaultEffect DEF Unregister, Step, At
  <1>22. CASE Killed
    BY <1>1, <1>22, KilledEffect
  <1>23. CASE DaemonRestarts
    BY <1>1, <1>23 DEF DaemonRestarts, Started, Whole
  <1>24. QED
    BY <1>2, <1>3, <1>4, <1>5, <1>6, <1>7, <1>8, <1>9, <1>10, <1>11, <1>12,
       <1>13, <1>14, <1>15, <1>16, <1>17, <1>18, <1>19, <1>20, <1>21, <1>22,
       <1>23 DEF InstallerNext, Staging, Cutover, Rollback, Uninstall

(* What runs while the run goes on.                                        *)
LEMMA ProcessKept ==
  ASSUME InstallerInv, InstallerNext
  PROVE  ProcessInv'
  <1> USE DEF InstallerInv, InstallerTypeOK, RunInv, TargetInv, ProcessInv, MayStay,
              Release, RunBecomes, Prepares, Swapped, Finishes, RollsBack, Erases,
              Installs
  <1>1. /\ InstallerTypeOK /\ RunInv /\ TargetInv /\ DirsOK /\ IsRun(run)
        /\ faults \in Nat /\ run.faults \in Nat
    BY Typed
  <1>2. CASE \E mode \in Modes, v \in Versions : Begin(mode, v)
    BY <1>1, <1>2, BeginEffect DEF StopsFirst
  <1>3. CASE WriteConfig \/ Resync \/ InstallFiles \/ Healthy
    BY <1>1, <1>3, NoFaultEffect DEF WriteConfig, Resync, InstallFiles,
       Healthy, Step, At
  <1>4. CASE Checkout
    BY <1>1, <1>4, NoFaultEffect DEF Checkout, Step, At
  <1>5. CASE Unload
    BY <1>1, <1>5, NoFaultEffect DEF Unload, Step, At
  <1>6. CASE Clone
    BY <1>1, <1>6, CloneEffect
  <1>7. CASE OpenConfig
    BY <1>1, <1>7, OpenConfigEffect
  <1>8. CASE Sync
    BY <1>1, <1>8, SyncEffect
  <1>9. CASE MoveAside
    BY <1>1, <1>9, MoveAsideEffect
  <1>10. CASE Swap
    BY <1>1, <1>10, SwapEffect
  <1>11. CASE ClearCandidate \/ DropCandidate \/ Discard
    BY <1>1, <1>11, CandidateRemoval DEF ClearCandidate, DropCandidate,
       Discard
  <1>12. CASE ClearPrevious \/ DropPrevious
    BY <1>1, <1>12, PreviousRemoval DEF ClearPrevious, DropPrevious
  <1>13. CASE DropApp \/ Erase
    BY <1>1, <1>13, AppRemoval DEF DropApp, Erase
  <1>14. CASE Register("register", "health") \/ Register("reregister",
             "recheck")
    BY <1>1, <1>14, NoFaultEffect DEF Register, Step, At, Started, Whole
  <1>15. CASE ActivationFails \/ TooSlow
    BY <1>1, <1>15, FaultEffect DEF ActivationFails, TooSlow, Step, At
  <1>16. CASE Unhealthy
    BY <1>1, <1>16, UnhealthyEffect DEF Unhealthy, Step, At
  <1>17. CASE CloneFails \/ SyncFails \/ ReregisterFails
    BY <1>1, <1>17, FailsEffect
  <1>18. CASE Restore
    BY <1>1, <1>18, RestoreEffect
  <1>19. CASE Finish \/ RestartFails
    BY <1>1, <1>19, FinishEffect, StartedRelease
  <1>20. CASE RolledBack \/ Erased
    BY <1>1, <1>20, RolledBackEffect, ErasedEffect
  <1>21. CASE Unregister
    BY <1>1, <1>21, NoFaultEffect DEF Unregister, Step, At
  <1>22. CASE Killed
    BY <1>1, <1>22, KilledEffect
  <1>23. CASE DaemonRestarts
    BY <1>1, <1>23 DEF DaemonRestarts, Started, Whole
  <1>24. QED
    BY <1>2, <1>3, <1>4, <1>5, <1>6, <1>7, <1>8, <1>9, <1>10, <1>11, <1>12,
       <1>13, <1>14, <1>15, <1>16, <1>17, <1>18, <1>19, <1>20, <1>21, <1>22,
       <1>23 DEF InstallerNext, Staging, Cutover, Rollback, Uninstall

(* The release set aside is removed before the next one is, unless a       *)
(* removal left something behind.                                          *)
LEMMA LeftoverKept ==
  ASSUME InstallerInv, InstallerNext
  PROVE  LeftoverInv'
  <1> USE DEF InstallerInv, RunInv, LeftoverInv, RunBecomes, Prepares,
              Swapped, Finishes, RollsBack, Erases, Installs
  <1>1. /\ InstallerTypeOK /\ RunInv /\ TargetInv /\ DirsOK /\ IsRun(run)
        /\ faults \in Nat /\ run.faults \in Nat
    BY Typed
  <1>2. CASE \E mode \in Modes, v \in Versions : Begin(mode, v)
    BY <1>1, <1>2, BeginEffect
  <1>3. CASE WriteConfig \/ Resync \/ InstallFiles \/ Healthy
    BY <1>1, <1>3, NoFaultEffect DEF WriteConfig, Resync, InstallFiles,
       Healthy, Step, At
  <1>4. CASE Checkout
    BY <1>1, <1>4, NoFaultEffect DEF Checkout, Step, At
  <1>5. CASE Unload
    BY <1>1, <1>5, NoFaultEffect DEF Unload, Step, At
  <1>6. CASE Clone
    BY <1>1, <1>6, CloneEffect
  <1>7. CASE OpenConfig
    BY <1>1, <1>7, OpenConfigEffect
  <1>8. CASE Sync
    BY <1>1, <1>8, SyncEffect
  <1>9. CASE MoveAside
    BY <1>1, <1>9, MoveAsideEffect
  <1>10. CASE Swap
    BY <1>1, <1>10, SwapEffect
  <1>11. CASE ClearCandidate \/ DropCandidate \/ Discard
    BY <1>1, <1>11, CandidateRemoval DEF ClearCandidate, DropCandidate,
       Discard
  <1>12. CASE ClearPrevious \/ DropPrevious
    BY <1>1, <1>12, PreviousRemoval DEF ClearPrevious, DropPrevious, Absent
  <1>13. CASE DropApp \/ Erase
    BY <1>1, <1>13, AppRemoval DEF DropApp, Erase
  <1>14. CASE Register("register", "health") \/ Register("reregister",
             "recheck")
    BY <1>1, <1>14, NoFaultEffect DEF Register, Step, At
  <1>15. CASE ActivationFails \/ TooSlow
    BY <1>1, <1>15, FaultEffect DEF ActivationFails, TooSlow, Step, At
  <1>16. CASE Unhealthy
    BY <1>1, <1>16, UnhealthyEffect DEF Unhealthy, Step, At
  <1>17. CASE CloneFails \/ SyncFails \/ ReregisterFails
    BY <1>1, <1>17, FailsEffect
  <1>18. CASE Restore
    BY <1>1, <1>18, RestoreEffect
  <1>19. CASE Finish \/ RestartFails
    BY <1>1, <1>19, FinishEffect
  <1>20. CASE RolledBack \/ Erased
    BY <1>1, <1>20, RolledBackEffect, ErasedEffect
  <1>21. CASE Unregister
    BY <1>1, <1>21, NoFaultEffect DEF Unregister, Step, At
  <1>22. CASE Killed
    BY <1>1, <1>22, KilledEffect
  <1>23. CASE DaemonRestarts
    BY <1>1, <1>23 DEF DaemonRestarts
  <1>24. QED
    BY <1>2, <1>3, <1>4, <1>5, <1>6, <1>7, <1>8, <1>9, <1>10, <1>11, <1>12,
       <1>13, <1>14, <1>15, <1>16, <1>17, <1>18, <1>19, <1>20, <1>21, <1>22,
       <1>23 DEF InstallerNext, Staging, Cutover, Rollback, Uninstall

(* Until the swap the release found is active, then it is set aside; only a*)
(* removal that could not finish stops a rollback from bringing it back.   *)
LEMMA FoundKept ==
  ASSUME InstallerInv, InstallerNext
  PROVE  FoundInv'
  <1> USE DEF InstallerInv, RunInv, TargetInv, LeftoverInv, FoundInv, Found,
              Release, Absent, RunBecomes, Prepares, Swapped, Finishes,
              RollsBack, Erases, Installs
  <1>1. /\ InstallerTypeOK /\ RunInv /\ TargetInv /\ DirsOK /\ IsRun(run)
        /\ faults \in Nat /\ run.faults \in Nat
    BY Typed
  <1>2. CASE \E mode \in Modes, v \in Versions : Begin(mode, v)
    BY <1>1, <1>2, BeginEffect DEF Whole, DirsOK, IsDir
  <1>3. CASE WriteConfig \/ Resync \/ InstallFiles \/ Healthy
    BY <1>1, <1>3, NoFaultEffect DEF WriteConfig, Resync, InstallFiles,
       Healthy, Step, At
  <1>4. CASE Checkout
    BY <1>1, <1>4, NoFaultEffect DEF Checkout, Step, At
  <1>5. CASE Unload
    BY <1>1, <1>5, NoFaultEffect DEF Unload, Step, At
  <1>6. CASE Clone
    BY <1>1, <1>6, CloneEffect
  <1>7. CASE OpenConfig
    BY <1>1, <1>7, OpenConfigEffect
  <1>8. CASE Sync
    BY <1>1, <1>8, SyncEffect
  <1>9. CASE MoveAside
    BY <1>1, <1>9, MoveAsideEffect
  <1>10. CASE Swap
    BY <1>1, <1>10, SwapEffect
  <1>11. CASE ClearCandidate \/ DropCandidate \/ Discard
    BY <1>1, <1>11, CandidateRemoval DEF ClearCandidate, DropCandidate,
       Discard
  <1>12. CASE ClearPrevious \/ DropPrevious
    BY <1>1, <1>12, PreviousRemoval DEF ClearPrevious, DropPrevious
  <1>13. CASE DropApp \/ Erase
    BY <1>1, <1>13, AppRemoval DEF DropApp, Erase
  <1>14. CASE Register("register", "health") \/ Register("reregister",
             "recheck")
    BY <1>1, <1>14, NoFaultEffect DEF Register, Step, At
  <1>15. CASE ActivationFails \/ TooSlow
    BY <1>1, <1>15, FaultEffect DEF ActivationFails, TooSlow, Step, At
  <1>16. CASE Unhealthy
    BY <1>1, <1>16, UnhealthyEffect DEF Unhealthy, Step, At
  <1>17. CASE CloneFails \/ SyncFails \/ ReregisterFails
    BY <1>1, <1>17, FailsEffect
  <1>18. CASE Restore
    BY <1>1, <1>18, RestoreEffect
  <1>19. CASE Finish \/ RestartFails
    BY <1>1, <1>19, FinishEffect
  <1>20. CASE RolledBack \/ Erased
    BY <1>1, <1>20, RolledBackEffect, ErasedEffect
  <1>21. CASE Unregister
    BY <1>1, <1>21, NoFaultEffect DEF Unregister, Step, At
  <1>22. CASE Killed
    BY <1>1, <1>22, KilledEffect
  <1>23. CASE DaemonRestarts
    BY <1>1, <1>23 DEF DaemonRestarts
  <1>24. QED
    BY <1>2, <1>3, <1>4, <1>5, <1>6, <1>7, <1>8, <1>9, <1>10, <1>11, <1>12,
       <1>13, <1>14, <1>15, <1>16, <1>17, <1>18, <1>19, <1>20, <1>21, <1>22,
       <1>23 DEF InstallerNext, Staging, Cutover, Rollback, Uninstall

(* The first fault of all meets a run whose earlier ones went well, so it  *)
(* is FoundInv that says where the old release is.                         *)
LEMMA HadKept ==
  ASSUME InstallerInv, InstallerNext
  PROVE  HadInv'
  <1> USE DEF InstallerInv, RunInv, TargetInv, LeftoverInv, FoundInv, HadInv,
              Found, Whole, Release, RunBecomes, Prepares, Swapped, Finishes,
              RollsBack, Erases, Installs
  <1>1. /\ InstallerTypeOK /\ RunInv /\ TargetInv /\ DirsOK /\ IsRun(run)
        /\ faults \in Nat /\ run.faults \in Nat
    BY Typed
  <1>2. CASE \E mode \in Modes, v \in Versions : Begin(mode, v)
    BY <1>1, <1>2, BeginEffect DEF DirsOK, IsDir, Absent
  <1>3. CASE WriteConfig \/ Resync \/ InstallFiles \/ Healthy
    BY <1>1, <1>3, NoFaultEffect DEF WriteConfig, Resync, InstallFiles,
       Healthy, Step, At
  <1>4. CASE Checkout
    BY <1>1, <1>4, NoFaultEffect DEF Checkout, Step, At
  <1>5. CASE Unload
    BY <1>1, <1>5, NoFaultEffect DEF Unload, Step, At
  <1>6. CASE Clone
    BY <1>1, <1>6, CloneEffect
  <1>7. CASE OpenConfig
    BY <1>1, <1>7, OpenConfigEffect
  <1>8. CASE Sync
    BY <1>1, <1>8, SyncEffect
  <1>9. CASE MoveAside
    BY <1>1, <1>9, MoveAsideEffect DEF Absent
  <1>10. CASE Swap
    BY <1>1, <1>10, SwapEffect
  <1>11. CASE ClearCandidate \/ DropCandidate \/ Discard
    BY <1>1, <1>11, CandidateRemoval DEF ClearCandidate, DropCandidate,
       Discard
  <1>12. CASE ClearPrevious \/ DropPrevious
    BY <1>1, <1>12, PreviousRemoval DEF ClearPrevious, DropPrevious
  <1>13. CASE DropApp \/ Erase
    BY <1>1, <1>13, AppRemoval DEF DropApp, Erase
  <1>14. CASE Register("register", "health") \/ Register("reregister",
             "recheck")
    BY <1>1, <1>14, NoFaultEffect DEF Register, Step, At
  <1>15. CASE ActivationFails \/ TooSlow
    BY <1>1, <1>15, FaultEffect DEF ActivationFails, TooSlow, Step, At
  <1>16. CASE Unhealthy
    BY <1>1, <1>16, UnhealthyEffect DEF Unhealthy, Step, At
  <1>17. CASE CloneFails \/ SyncFails \/ ReregisterFails
    BY <1>1, <1>17, FailsEffect
  <1>18. CASE Restore
    BY <1>1, <1>18, RestoreEffect
  <1>19. CASE Finish \/ RestartFails
    BY <1>1, <1>19, FinishEffect
  <1>20. CASE RolledBack \/ Erased
    BY <1>1, <1>20, RolledBackEffect, ErasedEffect
  <1>21. CASE Unregister
    BY <1>1, <1>21, NoFaultEffect DEF Unregister, Step, At
  <1>22. CASE Killed
    BY <1>1, <1>22, KilledEffect
  <1>23. CASE DaemonRestarts
    BY <1>1, <1>23 DEF DaemonRestarts
  <1>24. QED
    BY <1>2, <1>3, <1>4, <1>5, <1>6, <1>7, <1>8, <1>9, <1>10, <1>11, <1>12,
       <1>13, <1>14, <1>15, <1>16, <1>17, <1>18, <1>19, <1>20, <1>21, <1>22,
       <1>23 DEF InstallerNext, Staging, Cutover, Rollback, Uninstall

LEMMA FailureKept ==
  ASSUME InstallerInv, InstallerNext
  PROVE  FailureKeepsRelease'
  <1> USE DEF InstallerInv, RunInv, FoundInv, FailureKeepsRelease,
              Unsuccessful, Whole, Found, Release, RunBecomes, Prepares,
              Swapped, Finishes, RollsBack, Erases, Installs
  <1>1. /\ InstallerTypeOK /\ RunInv /\ TargetInv /\ DirsOK /\ IsRun(run)
        /\ faults \in Nat /\ run.faults \in Nat
    BY Typed
  <1>2. CASE \E mode \in Modes, v \in Versions : Begin(mode, v)
    BY <1>1, <1>2, BeginEffect
  <1>3. CASE WriteConfig \/ Resync \/ InstallFiles \/ Healthy
    BY <1>1, <1>3, NoFaultEffect DEF WriteConfig, Resync, InstallFiles,
       Healthy, Step, At
  <1>4. CASE Checkout
    BY <1>1, <1>4, NoFaultEffect DEF Checkout, Step, At
  <1>5. CASE Unload
    BY <1>1, <1>5, NoFaultEffect DEF Unload, Step, At
  <1>6. CASE Clone
    BY <1>1, <1>6, CloneEffect
  <1>7. CASE OpenConfig
    BY <1>1, <1>7, OpenConfigEffect
  <1>8. CASE Sync
    BY <1>1, <1>8, SyncEffect
  <1>9. CASE MoveAside
    BY <1>1, <1>9, MoveAsideEffect
  <1>10. CASE Swap
    BY <1>1, <1>10, SwapEffect
  <1>11. CASE ClearCandidate \/ DropCandidate \/ Discard
    BY <1>1, <1>11, CandidateRemoval DEF ClearCandidate, DropCandidate,
       Discard
  <1>12. CASE ClearPrevious \/ DropPrevious
    BY <1>1, <1>12, PreviousRemoval DEF ClearPrevious, DropPrevious
  <1>13. CASE DropApp \/ Erase
    BY <1>1, <1>13, AppRemoval DEF DropApp, Erase
  <1>14. CASE Register("register", "health") \/ Register("reregister",
             "recheck")
    BY <1>1, <1>14, NoFaultEffect DEF Register, Step, At
  <1>15. CASE ActivationFails \/ TooSlow
    BY <1>1, <1>15, FaultEffect DEF ActivationFails, TooSlow, Step, At
  <1>16. CASE Unhealthy
    BY <1>1, <1>16, UnhealthyEffect DEF Unhealthy, Step, At
  <1>17. CASE CloneFails \/ SyncFails \/ ReregisterFails
    BY <1>1, <1>17, FailsEffect
  <1>18. CASE Restore
    BY <1>1, <1>18, RestoreEffect
  <1>19. CASE Finish \/ RestartFails
    BY <1>1, <1>19, FinishEffect
  <1>20. CASE RolledBack \/ Erased
    BY <1>1, <1>20, RolledBackEffect, ErasedEffect
  <1>21. CASE Unregister
    BY <1>1, <1>21, NoFaultEffect DEF Unregister, Step, At
  <1>22. CASE Killed
    BY <1>1, <1>22, KilledEffect
  <1>23. CASE DaemonRestarts
    BY <1>1, <1>23 DEF DaemonRestarts
  <1>24. QED
    BY <1>2, <1>3, <1>4, <1>5, <1>6, <1>7, <1>8, <1>9, <1>10, <1>11, <1>12,
       <1>13, <1>14, <1>15, <1>16, <1>17, <1>18, <1>19, <1>20, <1>21, <1>22,
       <1>23 DEF InstallerNext, Staging, Cutover, Rollback, Uninstall

LEMMA SuccessKept ==
  ASSUME InstallerInv, InstallerNext
  PROVE  SuccessRunsRelease'
  <1> USE DEF InstallerInv, InstallerTypeOK, RunInv, TargetInv,
              SuccessRunsRelease, ProcessInv, MayStay, RunBecomes, Prepares, Swapped, Finishes,
              RollsBack, Erases, Installs
  <1>1. /\ InstallerTypeOK /\ RunInv /\ TargetInv /\ DirsOK /\ IsRun(run)
        /\ faults \in Nat /\ run.faults \in Nat
    BY Typed
  <1>2. CASE \E mode \in Modes, v \in Versions : Begin(mode, v)
    BY <1>1, <1>2, BeginEffect
  <1>3. CASE WriteConfig \/ Resync \/ InstallFiles \/ Healthy
    BY <1>1, <1>3, NoFaultEffect DEF WriteConfig, Resync, InstallFiles,
       Healthy, Step, At
  <1>4. CASE Checkout
    BY <1>1, <1>4, NoFaultEffect DEF Checkout, Step, At
  <1>5. CASE Unload
    BY <1>1, <1>5, NoFaultEffect DEF Unload, Step, At
  <1>6. CASE Clone
    BY <1>1, <1>6, CloneEffect
  <1>7. CASE OpenConfig
    BY <1>1, <1>7, OpenConfigEffect
  <1>8. CASE Sync
    BY <1>1, <1>8, SyncEffect
  <1>9. CASE MoveAside
    BY <1>1, <1>9, MoveAsideEffect
  <1>10. CASE Swap
    BY <1>1, <1>10, SwapEffect
  <1>11. CASE ClearCandidate \/ DropCandidate \/ Discard
    BY <1>1, <1>11, CandidateRemoval DEF ClearCandidate, DropCandidate,
       Discard
  <1>12. CASE ClearPrevious \/ DropPrevious
    BY <1>1, <1>12, PreviousRemoval DEF ClearPrevious, DropPrevious
  <1>13. CASE DropApp \/ Erase
    BY <1>1, <1>13, AppRemoval DEF DropApp, Erase
  <1>14. CASE Register("register", "health") \/ Register("reregister",
             "recheck")
    BY <1>1, <1>14, NoFaultEffect DEF Register, Step, At
  <1>15. CASE ActivationFails \/ TooSlow
    BY <1>1, <1>15, FaultEffect DEF ActivationFails, TooSlow, Step, At
  <1>16. CASE Unhealthy
    BY <1>1, <1>16, UnhealthyEffect DEF Unhealthy, Step, At
  <1>17. CASE CloneFails \/ SyncFails \/ ReregisterFails
    BY <1>1, <1>17, FailsEffect
  <1>18. CASE Restore
    BY <1>1, <1>18, RestoreEffect
  <1>19. CASE Finish \/ RestartFails
    BY <1>1, <1>19, FinishEffect, StartedRelease
  <1>20. CASE RolledBack \/ Erased
    BY <1>1, <1>20, RolledBackEffect, ErasedEffect
  <1>21. CASE Unregister
    BY <1>1, <1>21, NoFaultEffect DEF Unregister, Step, At
  <1>22. CASE Killed
    BY <1>1, <1>22, KilledEffect
  <1>23. CASE DaemonRestarts
    BY <1>1, <1>23, StartedRelease DEF DaemonRestarts
  <1>24. QED
    BY <1>2, <1>3, <1>4, <1>5, <1>6, <1>7, <1>8, <1>9, <1>10, <1>11, <1>12,
       <1>13, <1>14, <1>15, <1>16, <1>17, <1>18, <1>19, <1>20, <1>21, <1>22,
       <1>23 DEF InstallerNext, Staging, Cutover, Rollback, Uninstall

LEMMA CleanKept ==
  ASSUME InstallerInv, InstallerNext
  PROVE  CleanRunSucceeds'
  <1> USE DEF InstallerInv, RunInv, TargetInv, LeftoverInv, CleanRunSucceeds,
              Unsuccessful, RunBecomes, Prepares, Swapped, Finishes,
              RollsBack, Erases, Installs
  <1>1. /\ InstallerTypeOK /\ RunInv /\ TargetInv /\ DirsOK /\ IsRun(run)
        /\ faults \in Nat /\ run.faults \in Nat
    BY Typed
  <1>2. CASE \E mode \in Modes, v \in Versions : Begin(mode, v)
    BY <1>1, <1>2, BeginEffect
  <1>3. CASE WriteConfig \/ Resync \/ InstallFiles \/ Healthy
    BY <1>1, <1>3, NoFaultEffect DEF WriteConfig, Resync, InstallFiles,
       Healthy, Step, At
  <1>4. CASE Checkout
    BY <1>1, <1>4, NoFaultEffect DEF Checkout, Step, At
  <1>5. CASE Unload
    BY <1>1, <1>5, NoFaultEffect DEF Unload, Step, At
  <1>6. CASE Clone
    BY <1>1, <1>6, CloneEffect
  <1>7. CASE OpenConfig
    BY <1>1, <1>7, OpenConfigEffect
  <1>8. CASE Sync
    BY <1>1, <1>8, SyncEffect
  <1>9. CASE MoveAside
    BY <1>1, <1>9, MoveAsideEffect
  <1>10. CASE Swap
    BY <1>1, <1>10, SwapEffect
  <1>11. CASE ClearCandidate \/ DropCandidate \/ Discard
    BY <1>1, <1>11, CandidateRemoval DEF ClearCandidate, DropCandidate,
       Discard
  <1>12. CASE ClearPrevious \/ DropPrevious
    BY <1>1, <1>12, PreviousRemoval DEF ClearPrevious, DropPrevious
  <1>13. CASE DropApp \/ Erase
    BY <1>1, <1>13, AppRemoval DEF DropApp, Erase
  <1>14. CASE Register("register", "health") \/ Register("reregister",
             "recheck")
    BY <1>1, <1>14, NoFaultEffect DEF Register, Step, At
  <1>15. CASE ActivationFails \/ TooSlow
    BY <1>1, <1>15, FaultEffect DEF ActivationFails, TooSlow, Step, At
  <1>16. CASE Unhealthy
    BY <1>1, <1>16, UnhealthyEffect DEF Unhealthy, Step, At
  <1>17. CASE CloneFails \/ SyncFails \/ ReregisterFails
    BY <1>1, <1>17, FailsEffect
  <1>18. CASE Restore
    BY <1>1, <1>18, RestoreEffect
  <1>19. CASE Finish \/ RestartFails
    BY <1>1, <1>19, FinishEffect
  <1>20. CASE RolledBack \/ Erased
    BY <1>1, <1>20, RolledBackEffect, ErasedEffect
  <1>21. CASE Unregister
    BY <1>1, <1>21, NoFaultEffect DEF Unregister, Step, At
  <1>22. CASE Killed
    BY <1>1, <1>22, KilledEffect
  <1>23. CASE DaemonRestarts
    BY <1>1, <1>23 DEF DaemonRestarts
  <1>24. QED
    BY <1>2, <1>3, <1>4, <1>5, <1>6, <1>7, <1>8, <1>9, <1>10, <1>11, <1>12,
       <1>13, <1>14, <1>15, <1>16, <1>17, <1>18, <1>19, <1>20, <1>21, <1>22,
       <1>23 DEF InstallerNext, Staging, Cutover, Rollback, Uninstall

LEMMA InitInstallerInv == InstallerInit => InstallerInv
  <1> SUFFICES ASSUME InstallerInit PROVE InstallerInv
    OBVIOUS
  <1>1. PICK a \in {Absent, Release(1, "whole")} :
            dirs = [app |-> a, candidate |-> Absent, previous |-> Absent]
    BY DEF InstallerInit
  <1>2. IsDir(a) /\ IsDir(Absent)
    <2>1. 1 \in Versions
      BY InstallerAssumption DEF Versions
    <2>2. IsDir(Release(1, "whole"))
      BY <2>1, Staged
    <2>3. QED
      BY <1>1, <2>2, DirPieces
  <1>3. DirsOK
    BY <1>1, <1>2 DEF DirsOK
  <1>4. /\ pc = "idle" /\ run = NoRun /\ faults = 0 /\ runs = 0
        /\ platform \in {"Linux", "Darwin"} /\ unit = Whole(dirs.app)
        /\ daemon = dirs.app.version /\ config \in {"none", "good"}
    BY DEF InstallerInit
  <1>5. IsRun(run) /\ run.faults = 0 /\ run.end = "none" /\ ~run.had /\ run.found = 0
        /\ run.mode = "interactive"
    BY <1>4, InstallerAssumption DEF NoRun, IsRun, Modes, Outcomes
  <1>6. InstallerTypeOK
    <2>1. daemon \in 0 .. Last
      BY <1>3, <1>4 DEF DirsOK, IsDir
    <2>2. unit \in BOOLEAN
      BY <1>4, Zenon DEF Whole
    <2>3. QED
      BY <1>3, <1>4, <1>5, <2>1, <2>2 DEF InstallerTypeOK
  <1>7. RunInv /\ TargetInv /\ FoundInv /\ HadInv
    BY <1>4, <1>5 DEF RunInv, TargetInv, FoundInv, HadInv, Prepares, Swapped, Finishes,
                      RollsBack, Erases, Installs
  <1>8. LeftoverInv
    BY <1>1, <1>4 DEF LeftoverInv
  <1>11. ProcessInv
    <2>1. unit \/ daemon = 0
      <3>1. dirs.app = a
        BY <1>1
      <3>2. CASE a = Absent
        BY <1>4, <3>1, <3>2 DEF Absent
      <3>3. CASE a = Release(1, "whole")
        <4>1. Whole(dirs.app)
          BY <3>1, <3>3 DEF Whole, Release
        <4>2. QED
          BY <1>4, <4>1, Zenon
      <3>4. QED
        BY <3>2, <3>3
    <2>2. QED
      BY <1>4, <2>1 DEF ProcessInv, Prepares, Finishes
  <1>9. FailureKeepsRelease /\ SuccessRunsRelease /\ CleanRunSucceeds
    BY <1>5 DEF FailureKeepsRelease, SuccessRunsRelease, CleanRunSucceeds, Unsuccessful
  <1>10. QED
    BY <1>6, <1>7, <1>8, <1>9, <1>11 DEF InstallerInv

(* The invariant of the installer: where every release is at every step of *)
(* any number of runs, with any number of kills, failed steps and removals *)
(* that left something behind.                                             *)
THEOREM InstallerInvariant == InstallerSpec => []InstallerInv
  <1>1. InstallerInv /\ [InstallerNext]_installerVars => InstallerInv'
    <2> SUFFICES ASSUME InstallerInv, [InstallerNext]_installerVars PROVE InstallerInv'
      OBVIOUS
    <2>1. CASE InstallerNext
      BY <2>1, TypeKept, RunKept, TargetKept, LeftoverKept, FoundKept, HadKept,
         FailureKept, SuccessKept, CleanKept, ProcessKept DEF InstallerInv
    <2>2. CASE UNCHANGED installerVars
      BY <2>2 DEF installerVars, InstallerInv, InstallerTypeOK, DirsOK, RunInv, TargetInv,
                  ProcessInv, MayStay, LeftoverInv, FoundInv, HadInv, FailureKeepsRelease, SuccessRunsRelease,
                  CleanRunSucceeds, Unsuccessful, Found
    <2>3. QED
      BY <2>1, <2>2
  <1>2. QED
    BY <1>1, InitInstallerInv, PTL DEF InstallerSpec

(* With no more than one thing gone wrong over all the runs, a machine that*)
(* has had a release keeps one that can be started.                        *)
THEOREM ReleaseKept == InstallerSpec => []SomeRelease
  <1>1. InstallerInv => SomeRelease
    <2> SUFFICES ASSUME InstallerInv, faults <= 1, run.had
                 PROVE  Whole(dirs.app) \/ Whole(dirs.previous) \/ Whole(dirs.candidate)
      BY DEF InstallerInv, InstallerTypeOK, DirsOK, SomeRelease
    <2>1. CASE pc \in {"activate", "aside", "swap"}
      BY <2>1 DEF InstallerInv, TargetInv, Release, Whole
    <2>2. CASE pc \notin {"activate", "aside", "swap"}
      BY <2>2 DEF InstallerInv, HadInv
    <2>3. QED
      BY <2>1, <2>2
  <1>2. QED
    BY <1>1, InstallerInvariant, PTL

(* A run that fails or rolls back, with no more than one fault, leaves the *)
(* release active that it found active.                                    *)
THEOREM FailureIsHarmless == InstallerSpec => []FailureKeepsRelease
  <1>1. InstallerInv => FailureKeepsRelease
    BY DEF InstallerInv
  <1>2. QED
    BY <1>1, InstallerInvariant, PTL

(* A run that reports success has made its release the active one, and the *)
(* running one unless systemd left a process alone that the run does not   *)
(* stop, or a restart failed.                                              *)
THEOREM SuccessIsReal == InstallerSpec => []SuccessRunsRelease
  <1>1. InstallerInv => SuccessRunsRelease
    BY DEF InstallerInv
  <1>2. QED
    BY <1>1, InstallerInvariant, PTL

(* A run with no fault of its own succeeds whatever earlier ones left,     *)
(* unless the configuration is in pieces.                                  *)
THEOREM RerunConverges == InstallerSpec => []CleanRunSucceeds
  <1>1. InstallerInv => CleanRunSucceeds
    BY DEF InstallerInv
  <1>2. QED
    BY <1>1, InstallerInvariant, PTL
=============================================================================
