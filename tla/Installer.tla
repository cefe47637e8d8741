------------------------------ MODULE Installer ------------------------------
(***************************************************************************)
(* install.py: the update transaction.  A release is staged in             *)
(* app.candidate, the active app is moved aside to app.previous, the       *)
(* candidate takes its place, the service is started on it, and only when  *)
(* it answers is the previous release removed; a failure after the swap    *)
(* rolls back.  A run may be killed between any two steps, a step may fail *)
(* for good after its retries, and a removal (rmtree with ignore_errors)   *)
(* may leave something behind.  Each of these is a fault.                  *)
(***************************************************************************)
EXTENDS Integers

CONSTANTS
    Last,       \* the releases are 1..Last
    Bad,        \* the releases that never answer the health check
    MaxFaults,  \* bound: the faults of a behaviour
    MaxRuns     \* bound: the runs of the installer

ASSUME InstallerAssumption ==
    /\ Last \in Nat \ {0}
    /\ Bad \subseteq 1..Last
    /\ MaxFaults \in Nat
    /\ MaxRuns \in Nat

Versions == 1..Last
Modes == {"update", "interactive", "scripted", "uninstall"}

VARIABLES
    platform,   \* "Linux" (systemd) or "Darwin" (launchd)
    dirs,       \* app, candidate and previous: the release and its state
    daemon,     \* the release the running process was started from, or 0
    unit,       \* the service is registered
    config,     \* config.toml: "none", "empty", "broken" or "good"
    pc,         \* the next step of the run, "idle" between runs
    run,        \* the run: its mode and release; had: a release was active and
                \* not uninstalled since; found: the active one, when nothing was
                \* left of an earlier run; before: the release of the process
                \* that ran; its faults; how it ended
    faults,     \* faults so far
    runs        \* runs so far

installerVars == <<platform, dirs, daemon, unit, config, pc, run, faults, runs>>

Absent == [version |-> 0, state |-> "absent"]
Release(v, s) == [version |-> v, state |-> s]
Whole(d) == d.state = "whole"

\* The run a machine starts from: none, or the one that installed release 1.
NoRun == [mode |-> "interactive", target |-> 0, had |-> FALSE, found |-> 0,
          before |-> 0, faults |-> 0, end |-> "none"]

InstallerInit ==
    /\ platform \in {"Linux", "Darwin"}
    /\ dirs \in {[app |-> a, candidate |-> Absent, previous |-> Absent] :
                     a \in {Absent, Release(1, "whole")}}
    /\ unit = Whole(dirs.app)
    /\ daemon = dirs.app.version
    /\ config = IF Whole(dirs.app) THEN "good" ELSE "none"
    /\ pc = "idle" /\ run = NoRun /\ faults = 0 /\ runs = 0

\* A step of the run that keeps what it does not name.
At(step) == pc = step
Step(from, to) == At(from) /\ pc' = to /\ UNCHANGED <<platform, runs>>
NoFault == UNCHANGED <<faults, run>>
Fault ==
    /\ faults < MaxFaults
    /\ faults' = faults + 1
    /\ run' = [run EXCEPT !.faults = @ + 1]
\* The run ends at this step: without a fault of its own, and with one.
Ends(how) == run' = [run EXCEPT !.end = how] /\ UNCHANGED faults
FaultEnds(how) ==
    /\ faults < MaxFaults
    /\ faults' = faults + 1
    /\ run' = [run EXCEPT !.faults = @ + 1, !.end = how]

\* shutil.rmtree(): a directory is in pieces before it is gone, and with
\* ignore_errors may stay so.
Remove(d, from, to) ==
    \/ /\ dirs[d].state \notin {"absent", "partial"}
       /\ Step(from, from)
       /\ dirs' = [dirs EXCEPT ![d].state = "partial"]
       /\ NoFault
    \/ /\ dirs[d].state \in {"absent", "partial"}
       /\ Step(from, to)
       /\ dirs' = [dirs EXCEPT ![d] = Absent]
       /\ NoFault
    \/ /\ dirs[d].state = "partial"
       /\ Step(from, to)
       /\ Fault
       /\ UNCHANGED dirs

\* What the service manager starts: nothing runs from a directory in pieces.
Started(d) == IF Whole(d) THEN d.version ELSE 0
Answers == daemon # 0 /\ daemon \notin Bad

\* Beginning: the source and the existing configuration --------------------

\* An update needs the token and the user ids of the existing configuration.
Refused(mode) == mode = "update" /\ config # "good"

\* An interactive reinstallation stops the service at once.  (A slip: nothing does.)
StopsNothing(mode) == FALSE
StopsFirst(mode) == mode = "interactive" /\ unit

Begin(mode, v) ==
    /\ At("idle") /\ runs < MaxRuns
    /\ runs' = runs + 1
    /\ LET refused == Refused(mode)
           found == IF dirs.previous = Absent /\ Whole(dirs.app)
                        THEN dirs.app.version ELSE 0
       IN /\ run' = [mode |-> mode, target |-> v, found |-> found,
                     before |-> daemon, faults |-> 0,
                     had |-> (run.had \/ Whole(dirs.app)) /\ mode # "uninstall",
                     end |-> IF refused THEN "refused" ELSE "running"]
          /\ pc' = CASE refused -> "idle"
                     [] mode = "uninstall" -> "unregister"
                     [] OTHER -> "stage"
    /\ daemon' = IF StopsFirst(mode) THEN 0 ELSE daemon
    /\ UNCHANGED <<platform, dirs, unit, config, faults>>

\* A candidate that an earlier run left is not removed.
KeepCandidate ==
    /\ Step("stage", "clone") /\ NoFault
    /\ UNCHANGED <<dirs, daemon, unit, config>>

\* Staging the candidate ---------------------------------------------------

\* The leftovers of an earlier run go first.
ClearCandidate ==
    /\ Remove("candidate", "stage", "clone")
    /\ UNCHANGED <<daemon, unit, config>>

\* git clone refuses a directory that is there, at each of the three attempts.
Clone ==
    /\ At("clone")
    /\ IF dirs.candidate = Absent
         THEN /\ Step("clone", "checkout") /\ NoFault
              /\ dirs' = [dirs EXCEPT !.candidate = Release(run.target, "partial")]
         ELSE Step("clone", "idle") /\ Ends("failed") /\ UNCHANGED dirs
    /\ UNCHANGED <<daemon, unit, config>>

Checkout ==
    /\ Step("checkout", "configure") /\ NoFault
    /\ dirs' = [dirs EXCEPT !.candidate.state = "cloned"]
    /\ UNCHANGED <<daemon, unit, config>>

\* What was cloned stays where it is.
CloneFails ==
    /\ \E step \in {"clone", "checkout"} : Step(step, "idle")
    /\ FaultEnds("failed")
    /\ UNCHANGED <<dirs, daemon, unit, config>>

\* write_config() parses the existing file and writes it in place: it is
\* empty before it is written.
OpenConfig ==
    /\ At("configure")
    /\ IF config = "broken"
         THEN Step("configure", "idle") /\ Ends("failed") /\ UNCHANGED config
         ELSE Step("configure", "write") /\ NoFault /\ config' = "empty"
    /\ UNCHANGED <<dirs, daemon, unit>>

WriteConfig ==
    /\ Step("write", "sync") /\ NoFault
    /\ config' = "good"
    /\ UNCHANGED <<dirs, daemon, unit>>

Sync ==
    /\ Step("sync", "unload") /\ NoFault
    /\ dirs' = [dirs EXCEPT !.candidate.state = "whole"]
    /\ UNCHANGED <<daemon, unit, config>>

\* A failed sync removes the active release instead of the candidate.
SyncFailsOnApp ==
    /\ Step("sync", "idle")
    /\ FaultEnds("failed")
    /\ dirs' = [dirs EXCEPT !.app = Absent]
    /\ UNCHANGED <<daemon, unit, config>>

\* The candidate is removed, as far as it can be; the active release is not
\* touched.
SyncFails ==
    /\ Step("sync", "idle")
    /\ FaultEnds("failed")
    /\ \E rest \in {Absent, Release(run.target, "partial")} :
           dirs' = [dirs EXCEPT !.candidate = rest]
    /\ UNCHANGED <<daemon, unit, config>>

\* The cutover -------------------------------------------------------------

\* Only launchd is told to stop the service.
Unload ==
    /\ Step("unload", "activate") /\ NoFault
    /\ daemon' = IF platform = "Darwin" /\ unit THEN 0 ELSE daemon
    /\ UNCHANGED <<dirs, unit, config>>

ClearPrevious ==
    /\ Remove("previous", "activate", "aside")
    /\ UNCHANGED <<daemon, unit, config>>

\* The active release is deleted instead of being set aside.
DeleteApp ==
    /\ Step("aside", "swap") /\ NoFault
    /\ dirs' = [dirs EXCEPT !.app = Absent]
    /\ UNCHANGED <<daemon, unit, config>>

\* A directory cannot be renamed to one that is not empty.
MoveAside ==
    /\ At("aside")
    /\ IF dirs.app # Absent /\ dirs.previous # Absent
         THEN Step("aside", "rollback") /\ UNCHANGED dirs
         ELSE /\ Step("aside", "swap")
              /\ dirs' = IF dirs.app = Absent THEN dirs
                         ELSE [dirs EXCEPT !.previous = dirs.app, !.app = Absent]
    /\ NoFault
    /\ UNCHANGED <<daemon, unit, config>>

Swap ==
    /\ Step("swap", "resync") /\ NoFault
    /\ dirs' = [dirs EXCEPT !.app = dirs.candidate, !.candidate = Absent]
    /\ UNCHANGED <<daemon, unit, config>>

\* The second sync, and the templates, schedules and skills of the release.
Resync ==
    /\ Step("resync", "files") /\ NoFault
    /\ UNCHANGED <<dirs, daemon, unit, config>>

InstallFiles ==
    /\ Step("files", "register") /\ NoFault
    /\ UNCHANGED <<dirs, daemon, unit, config>>

\* systemctl start leaves a running service alone; launchctl unloads it first.
Register(from, to) ==
    /\ Step(from, to) /\ NoFault
    /\ unit' = TRUE
    /\ daemon' = IF platform = "Linux" /\ daemon # 0 THEN daemon ELSE Started(dirs.app)
    /\ UNCHANGED <<dirs, config>>

ActivationFails ==
    /\ \E step \in {"resync", "files", "register"} : Step(step, "rollback")
    /\ Fault
    /\ UNCHANGED <<dirs, daemon, unit, config>>

\* verify_running(): whichever process answers.
Healthy ==
    /\ Answers
    /\ Step("health", "cleanup") /\ NoFault
    /\ UNCHANGED <<dirs, daemon, unit, config>>

\* Nothing answers: the release is no good, or an old process is still there
\* that is none.  It counts as a fault, beyond the bound.
Unhealthy ==
    /\ ~Answers
    /\ Step("health", "rollback")
    /\ faults' = faults + 1
    /\ run' = [run EXCEPT !.faults = @ + 1]
    /\ UNCHANGED <<dirs, daemon, unit, config>>

TooSlow ==
    /\ Answers
    /\ Step("health", "rollback") /\ Fault
    /\ UNCHANGED <<dirs, daemon, unit, config>>

\* Finalising --------------------------------------------------------------

DropPrevious ==
    /\ Remove("previous", "cleanup", "tidy")
    /\ UNCHANGED <<daemon, unit, config>>
DropCandidate ==
    /\ Remove("candidate", "tidy", "setup")
    /\ UNCHANGED <<daemon, unit, config>>

\* The search setup of an installation ends with `archon restart`, unless the
\* program is missing or a command before the restart fails: each of them only
\* prints a warning.  That of an update leaves the daemon alone.
Finish ==
    /\ Step("setup", "idle") /\ Ends("done")
    /\ \/ UNCHANGED daemon
       \/ run.mode # "update" /\ daemon' = Started(dirs.app)
    /\ UNCHANGED <<dirs, unit, config>>

\* The restart stops the service and does not start it: a warning as well.
RestartFails ==
    /\ run.mode # "update"
    /\ Step("setup", "idle") /\ FaultEnds("done")
    /\ daemon' = 0
    /\ UNCHANGED <<dirs, unit, config>>

\* Rolling back ------------------------------------------------------------

DropApp ==
    /\ Remove("app", "rollback", "restore")
    /\ UNCHANGED <<daemon, unit, config>>

Restore ==
    /\ At("restore")
    /\ IF dirs.previous = Absent \/ dirs.app # Absent
         THEN Step("restore", "idle") /\ Ends("failed") /\ UNCHANGED dirs
         ELSE /\ Step("restore", "discard") /\ NoFault
              /\ dirs' = [dirs EXCEPT !.app = dirs.previous, !.previous = Absent]
    /\ UNCHANGED <<daemon, unit, config>>

Discard ==
    /\ Remove("candidate", "discard", "reregister")
    /\ UNCHANGED <<daemon, unit, config>>

ReregisterFails ==
    /\ Step("reregister", "idle") /\ FaultEnds("failed")
    /\ UNCHANGED <<dirs, daemon, unit, config>>

RolledBack ==
    /\ Step("recheck", "idle")
    /\ Ends(IF Answers THEN "restored" ELSE "failed")
    /\ UNCHANGED <<dirs, daemon, unit, config>>

\* Uninstalling ------------------------------------------------------------

Unregister ==
    /\ Step("unregister", "erase") /\ NoFault
    /\ unit' = FALSE /\ daemon' = IF unit THEN 0 ELSE daemon
    /\ UNCHANGED <<dirs, config>>
Erase ==
    /\ Remove("app", "erase", "erased")
    /\ UNCHANGED <<daemon, unit, config>>
Erased ==
    /\ Step("erased", "idle")
    /\ Ends(IF dirs.app = Absent THEN "erased" ELSE "failed")
    /\ UNCHANGED <<dirs, daemon, unit, config>>

\* Around the run ----------------------------------------------------------

\* The run is killed; a file being written may be left in pieces.
Killed ==
    /\ pc # "idle" /\ pc' = "idle"
    /\ FaultEnds("killed")
    /\ config' \in IF At("write") THEN {"empty", "broken"} ELSE {config}
    /\ UNCHANGED <<platform, dirs, daemon, unit, runs>>

\* The daemon dies, or runs itself again after /restart, and is started from
\* what app now holds.
DaemonRestarts ==
    /\ unit /\ daemon # 0
    /\ daemon' = Started(dirs.app)
    /\ UNCHANGED <<platform, dirs, unit, config, pc, run, faults, runs>>

Staging ==
    \/ \E mode \in Modes, v \in Versions : Begin(mode, v)
    \/ ClearCandidate \/ Clone \/ Checkout \/ CloneFails
    \/ OpenConfig \/ WriteConfig \/ Sync \/ SyncFails
Cutover ==
    \/ Unload \/ ClearPrevious \/ MoveAside \/ Swap
    \/ Resync \/ InstallFiles \/ Register("register", "health") \/ ActivationFails
    \/ Healthy \/ Unhealthy \/ TooSlow
    \/ DropPrevious \/ DropCandidate \/ Finish \/ RestartFails
Rollback ==
    \/ DropApp \/ Restore \/ Discard
    \/ Register("reregister", "recheck") \/ ReregisterFails \/ RolledBack
Uninstall == Unregister \/ Erase \/ Erased

InstallerNext == Staging \/ Cutover \/ Rollback \/ Uninstall \/ Killed \/ DaemonRestarts

InstallerSpec == InstallerInit /\ [][InstallerNext]_installerVars

\* Properties --------------------------------------------------------------

\* A machine that has a release keeps one that could be started, active,
\* set aside or staged, at every step of any number of runs, as long as no
\* more than one thing went wrong: one kill, one failed step or one removal
\* that left something behind (_activate_candidate, _rollback_activation).
\* A release that never answers counts as one of the things.
SomeRelease ==
    faults <= 1 /\ run.had => \E d \in DOMAIN dirs : Whole(dirs[d])

Unsuccessful == run.end \in {"failed", "restored"} /\ run.mode # "uninstall"

\* A run that fails or rolls back, with no more than one fault of its own,
\* leaves the release it found active: main() promises that the existing
\* version remains active.
FailureKeepsRelease ==
    Unsuccessful /\ run.faults <= 1 /\ run.found # 0 =>
        /\ Whole(dirs.app)
        /\ dirs.app.version = run.found

\* systemctl start leaves the process alone that an update or a scripted
\* installation found running; nothing else stops it.
MayStay == platform = "Linux" /\ run.mode # "interactive" /\ run.before # 0

\* A run that ends in success (main() has printed that the new version is
\* running) leaves its release active and registered, and no process but that
\* release's: whichever one answered the health check.  One that was there
\* before may only stay where nothing of the run stops it, and only a failed
\* restart, which the run has warned of, leaves none.
SuccessRunsRelease ==
    run.end = "done" =>
        /\ dirs.app = Release(run.target, "whole") /\ unit
        /\ daemon = run.target \/ MayStay \/ (daemon = 0 /\ run.faults > 0)

\* Whatever earlier runs left behind, a run in which nothing goes wrong
\* succeeds: rerunning the installer converges.  Not so when a kill left a
\* configuration in pieces.
CleanRunSucceeds ==
    Unsuccessful => run.faults > 0 \/ config = "broken"

=============================================================================
