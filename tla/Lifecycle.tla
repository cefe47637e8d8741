------------------------------ MODULE Lifecycle ------------------------------
(***************************************************************************)
(* The daemon from its start to its end: Gateway._run(), the two ways to   *)
(* replace the process by a new one (the restart tool with its coordinator *)
(* and watcher, the /restart command), the shutdown, and the three things  *)
(* that outlive a process: the two timestamp files and the environment.    *)
(*                                                                         *)
(* One event loop runs the gateway, the watcher, the countdown and the     *)
(* handler of /restart; each step is what one of them does between two     *)
(* awaits.  now is the wall clock.                                         *)
(***************************************************************************)
EXTENDS Integers, Sequences

CONSTANTS
    RateLimit,     \* _RATE_LIMIT_SECONDS
    CrashGap,      \* _CRASH_LOOP_THRESHOLD_SECONDS
    Delays,        \* what delay_seconds may be, clamped
    MaxTime,       \* bound: the clock
    MaxProcesses   \* bound: processes started, one after the other

ASSUME RateLimitAssumption == RateLimit \in Nat
ASSUME CrashGapAssumption == CrashGap \in Nat
ASSUME DelaysAssumption == Delays \subseteq Nat
ASSUME BoundsAssumption == MaxTime \in Nat /\ MaxProcesses \in Nat

Never == -1
Times == 0 .. MaxTime

(* The scheduler, the agents, the two MCP servers and the sessions: what   *)
(* the gateway stops.  /restart stops all but the router's server, in this *)
(* order.                                                                  *)
NumServices == 5
RestartOrder == <<"scheduler", "agents", "agentServer", "sessions">>

VARIABLES
    now,
    processes,    \* processes started so far
    phase,        \* where Gateway._run() is, "down" without a process
    tools,        \* whether the agents' MCP server is up, with the tools
    stopping,     \* number of the gateway's stop() calls that have not returned
    bot,          \* whether the bot's connection is open
    watcher,      \* _restart_watcher: "none", "waiting", "notifying" or "dead"
    countdown,    \* when _countdown() will fire, Never when none runs
    event,        \* the coordinator's event
    command,      \* the handler of /restart: 0 for none, else the next service
    restartFile,  \* ~/.archon/.last_restart
    stampFile,    \* ~/.archon/.last_startup
    ack,          \* ARCHON_RESTART_NOTIFY_CHAT_ID is set
    lastExec,     \* observed: when the watcher last replaced the process
    lastSent,     \* observed: when the start was last broadcast
    stamped       \* observed: every start since then has left its stamp

restartVars == <<watcher, countdown, event>>
fileVars == <<restartFile, stampFile>>
observed == <<lastExec, lastSent, stamped>>
processVars == <<phase, tools, stopping, bot, command, restartVars>>
vars == <<now, processes, processVars, fileVars, ack, observed>>

Init ==
    /\ now = 0 /\ processes = 0
    /\ phase = "down" /\ tools = FALSE /\ stopping = 0 /\ bot = FALSE
    /\ command = 0
    /\ watcher = "none" /\ countdown = Never /\ event = FALSE
    /\ restartFile = Never /\ stampFile = Never /\ ack = FALSE
    /\ lastExec = Never /\ lastSent = Never /\ stamped = FALSE

(* No file, or one that is old enough.                                     *)
Elapsed(file, limit) == file = Never \/ now - file >= limit

Tick ==
    /\ now < MaxTime
    /\ now' = now + 1
    /\ UNCHANGED <<processes, processVars, fileVars, ack, observed>>

-----------------------------------------------------------------------------
(* Processes.                                                              *)

(* Everything in memory is gone; files and, across an exec, the            *)
(* environment are not.                                                    *)
Replaced(next) ==
    /\ phase' = next
    /\ tools' = FALSE /\ stopping' = 0 /\ bot' = FALSE
    /\ command' = 0
    /\ watcher' = "none" /\ countdown' = Never /\ event' = FALSE

(* The supervisor starts the daemon, also after it has ended or crashed.   *)
Boot ==
    /\ phase = "down" /\ processes < MaxProcesses
    /\ processes' = processes + 1
    /\ Replaced("loading")
    /\ ack' = FALSE
    /\ UNCHANGED <<now, fileVars, observed>>

Crash ==
    /\ phase # "down"
    /\ Replaced("down")
    /\ UNCHANGED <<now, processes, fileVars, ack, observed>>

(* os.execv(): the same process begins anew, or the call fails.            *)
Exec ==
    /\ processes' = processes + 1
    /\ Replaced("loading")

-----------------------------------------------------------------------------
(* Gateway._run() up to polling.                                           *)

Goes(next) == phase' = next /\ UNCHANGED <<tools, stopping, bot, command>>

(* The configuration and the loaders.  Without a valid configuration the   *)
(* process exits (Crash).                                                  *)
Load ==
    /\ phase = "loading"
    /\ Goes("probing")
    /\ UNCHANGED <<now, processes, restartVars, fileVars, ack, observed>>

(* The search service is up, comes up within thirty tries, or is left out. *)
Probe ==
    /\ phase = "probing"
    /\ Goes("wiring")
    /\ UNCHANGED <<now, processes, restartVars, fileVars, ack, observed>>

(* The bot, the background tasks and the services are created.             *)
Wire ==
    /\ phase = "wiring"
    /\ phase' = "starting"
    /\ bot' = TRUE
    /\ watcher' = "waiting"
    /\ UNCHANGED <<now, processes, tools, stopping, command, countdown, event, fileVars, ack,
                   observed>>

(* The two servers, then the scheduler.  An address in use raises here,    *)
(* before the try whose finally shuts down (Crash).                        *)
StartAgentServer ==
    /\ phase = "starting" /\ ~tools
    /\ tools' = TRUE
    /\ UNCHANGED <<now, processes, phase, stopping, bot, command, restartVars, fileVars,
                   ack, observed>>

StartOthers ==
    /\ phase = "starting" /\ tools
    /\ Goes("greeting")
    /\ UNCHANGED <<now, processes, restartVars, fileVars, ack, observed>>

(* The user of /restart is told first; the others, or all, if the last     *)
(* start is long enough ago.                                               *)
Acknowledge == ack' = FALSE
Broadcast == lastSent' = IF Elapsed(stampFile, CrashGap) THEN now ELSE lastSent

(* A slip: the stamp is read and never written.                            *)
GreetUnstamped ==
    /\ phase = "greeting"
    /\ Goes("polling")
    /\ Acknowledge /\ Broadcast
    /\ stamped' = TRUE
    /\ UNCHANGED <<now, processes, restartVars, fileVars, lastExec>>

(* The start-up hooks.  The stamp is written whether or not the start is   *)
(* broadcast, if it can be.                                                *)
Greet ==
    /\ phase = "greeting"
    /\ Goes("polling")
    /\ Acknowledge /\ Broadcast
    /\ \/ stampFile' = now /\ stamped' = (stamped \/ Elapsed(stampFile, CrashGap))
       \/ UNCHANGED stampFile /\ stamped' = FALSE
    /\ UNCHANGED <<now, processes, restartVars, restartFile, lastExec>>

-----------------------------------------------------------------------------
(* The restart tool.                                                       *)

(* A slip: the limit is not read.                                          *)
ToolRestartUnchecked(delay) ==
    /\ tools /\ phase \in {"greeting", "polling", "closing", "stopping"}
    /\ countdown = Never
    /\ countdown' = now + delay
    /\ UNCHANGED <<now, processes, phase, tools, stopping, bot, command,
                   watcher, event, fileVars, ack, observed>>

(* archon_restart: refused within a minute of the last restart, or while a *)
(* countdown runs.                                                         *)
ToolRestart(delay) ==
    /\ tools /\ phase \in {"greeting", "polling", "closing", "stopping"}
    /\ Elapsed(restartFile, RateLimit)
    /\ countdown = Never
    /\ countdown' = now + delay
    /\ UNCHANGED <<now, processes, phase, tools, stopping, bot, command,
                   watcher, event, fileVars, ack, observed>>

CountdownFires ==
    /\ countdown # Never /\ (now >= countdown \/ now = MaxTime)
    /\ countdown' = Never /\ event' = TRUE
    /\ UNCHANGED <<now, processes, phase, tools, stopping, bot, command,
                   watcher, fileVars, ack, observed>>

(* wait() returns; the flag is read before anything is sent.               *)
WatcherWakes ==
    /\ watcher = "waiting" /\ event
    /\ watcher' = IF phase \in {"closing", "stopping", "closingBot", "draining"}
                  THEN "dead" ELSE "notifying"
    /\ UNCHANGED <<now, processes, phase, tools, stopping, bot, command,
                   countdown, event, fileVars, ack, observed>>

(* The users and the history have been told: the file is written and the   *)
(* process replaced, no service being stopped.                             *)
WatcherRestarts ==
    /\ watcher = "notifying" /\ processes < MaxProcesses
    /\ restartFile' = now /\ lastExec' = now
    /\ Exec
    /\ UNCHANGED <<now, stampFile, ack, lastSent, stamped>>

(* The file cannot be written, or execv() fails: the task dies.  A restart *)
(* asked for later counts down for nobody.                                 *)
WatcherFails ==
    /\ watcher = "notifying"
    /\ \/ restartFile' = now
       \/ UNCHANGED restartFile
    /\ watcher' = "dead"
    /\ UNCHANGED <<now, processes, phase, tools, stopping, bot, command,
                   countdown, event, stampFile, ack, observed>>

-----------------------------------------------------------------------------
(* The /restart command.                                                   *)

CommandBegins ==
    /\ phase = "polling" /\ command = 0
    /\ command' = 1
    /\ UNCHANGED <<now, processes, phase, tools, stopping, bot, restartVars,
                   fileVars, ack, observed>>

(* One service after the other, each until it has stopped, raised, or      *)
(* taken five seconds.                                                     *)
CommandStops ==
    /\ command \in DOMAIN RestartOrder
    /\ tools' \in IF RestartOrder[command] = "agentServer" THEN {tools, FALSE} ELSE {tools}
    /\ command' = command + 1
    /\ UNCHANGED <<now, processes, phase, stopping, bot, restartVars, fileVars,
                   ack, observed>>

CommandRestarts ==
    /\ command > Len(RestartOrder) /\ processes < MaxProcesses
    /\ ack' = TRUE
    /\ Exec
    /\ UNCHANGED <<now, fileVars, observed>>

(* execv() fails: the process stays, without its services.                 *)
CommandFails ==
    /\ command > Len(RestartOrder)
    /\ ack' = TRUE /\ command' = 0
    /\ UNCHANGED <<now, processes, phase, tools, stopping, bot, restartVars,
                   fileVars, observed>>

-----------------------------------------------------------------------------
(* Shutdown: the finally of Gateway._run().                                *)

(* SIGTERM or SIGINT has ended the polling.  A slip: the watcher is not    *)
(* cancelled.                                                              *)
ShutdownForgetsWatcher ==
    /\ phase = "polling"
    /\ Goes("closing")
    /\ UNCHANGED <<now, processes, restartVars, fileVars, ack, observed>>

(* The background tasks are cancelled; the search client is being closed.  *)
Shutdown ==
    /\ phase = "polling"
    /\ Goes("closing")
    /\ watcher' = "dead"
    /\ UNCHANGED <<now, processes, countdown, event, fileVars, ack, observed>>

(* Under the timeout, all five services are stopped at once.               *)
StopServices ==
    /\ phase = "closing"
    /\ phase' = "stopping" /\ stopping' = NumServices
    /\ UNCHANGED <<now, processes, tools, bot, command, restartVars, fileVars,
                   ack, observed>>

(* A stop() returns, or raises and is logged.                              *)
ServiceStopped ==
    /\ phase = "stopping"
    /\ stopping > 0 /\ stopping' = stopping - 1
    /\ tools' \in {tools, FALSE}
    /\ UNCHANGED <<now, processes, phase, bot, command, restartVars, fileVars,
                   ack, observed>>

AllStopped ==
    /\ phase = "stopping" /\ stopping = 0
    /\ Goes("closingBot")
    /\ UNCHANGED <<now, processes, restartVars, fileVars, ack, observed>>

BotClosed ==
    /\ phase = "closingBot"
    /\ phase' = "draining" /\ bot' = FALSE
    /\ UNCHANGED <<now, processes, tools, stopping, command, restartVars,
                   fileVars, ack, observed>>

(* A slip: no timeout.                                                     *)
ShutdownWaits == FALSE /\ UNCHANGED vars

(* Five seconds for all of it; what has not stopped is cancelled.          *)
ShutdownTimesOut ==
    /\ phase \in {"stopping", "closingBot"}
    /\ Goes("draining")
    /\ UNCHANGED <<now, processes, restartVars, fileVars, ack, observed>>

(* asyncio.run() cancels the tasks that are left and ends.                 *)
Exit ==
    /\ phase = "draining"
    /\ Replaced("down")
    /\ UNCHANGED <<now, processes, fileVars, ack, observed>>

Next ==
    \/ Tick \/ Boot \/ Crash
    \/ Load \/ Probe \/ Wire \/ StartAgentServer \/ StartOthers \/ Greet
    \/ \E d \in Delays : ToolRestart(d)
    \/ CountdownFires \/ WatcherWakes \/ WatcherRestarts \/ WatcherFails
    \/ CommandBegins \/ CommandStops \/ CommandRestarts \/ CommandFails
    \/ Shutdown \/ StopServices \/ ServiceStopped \/ AllStopped \/ BotClosed
    \/ ShutdownTimesOut \/ Exit

Spec == Init /\ [][Next]_vars

(* The gateway goes on, its timeout fires, and a cancelled task ends.  No  *)
(* service need ever stop.                                                 *)
FairSpec ==
    /\ Spec
    /\ WF_vars(StopServices) /\ WF_vars(AllStopped) /\ WF_vars(ShutdownTimesOut)
    /\ WF_vars(Exit)

-----------------------------------------------------------------------------
TypeOK ==
    /\ now \in Times /\ processes \in 0 .. MaxProcesses
    /\ phase \in {"down", "loading", "probing", "wiring", "starting", "greeting", "polling",
                  "closing", "stopping", "closingBot", "draining"}
    /\ tools \in BOOLEAN /\ stopping \in 0 .. NumServices
    /\ bot \in BOOLEAN
    /\ watcher \in {"none", "waiting", "notifying", "dead"}
    /\ countdown \in Int /\ event \in BOOLEAN
    /\ command \in 0 .. 5
    /\ restartFile \in Times \union {Never} /\ stampFile \in Times \union {Never}
    /\ ack \in BOOLEAN
    /\ lastExec \in Times \union {Never} /\ lastSent \in Times \union {Never}
    /\ stamped \in BOOLEAN

(* Restarts that agents ask for are a minute apart: the limit is read when *)
(* one is scheduled and written when the process is replaced, by another   *)
(* process than the one that reads it next.                                *)
RestartsSpaced ==
    [][WatcherRestarts /\ lastExec # Never => now - lastExec >= RateLimit]_vars

(* Once the shutdown has begun, no agent's restart brings the daemon back, *)
(* whether the countdown fires or the watcher is telling the users then.   *)
ShutdownIsFinal ==
    [][WatcherRestarts => phase \notin {"closing", "stopping", "closingBot", "draining"}]_vars

(* A daemon that keeps crashing does not flood its users: broadcasts are   *)
(* thirty seconds apart as long as the stamp can be written.               *)
BroadcastsSpaced ==
    [][Greet /\ lastSent' # lastSent /\ stamped => now - lastSent >= CrashGap]_vars

(* A shutdown ends although no service stops.                              *)
ShutdownEnds ==
    phase \in {"closing", "stopping", "closingBot", "draining"}
        ~> phase \in {"down", "loading"}
=============================================================================
