------------------------------ MODULE Control ------------------------------
(***************************************************************************)
(* The ways the configuration and the search service are acted upon: MCP   *)
(* tools and chat commands on the daemon's event loop, a thread it gives   *)
(* an update to, and the commands of the archon CLI in a process of their  *)
(* own.  They meet at config.toml, whose updates take a file lock that     *)
(* loading and restoring the backup do not take, and at the search         *)
(* service, whose key the daemon caches and a command may change.          *)
(***************************************************************************)
EXTENDS ConfigFile, FiniteSets

CONSTANTS
    Tasks,      \* tasks of the daemon that call tools of the search service
    Clis,       \* commands of the archon CLI
    Tools,      \* the tools they call
    Commands,   \* the archon search commands
    Settings,   \* the (key, value) pairs that are set
    Notices,    \* the (key, value) pairs a notification command changes
    Contents,   \* the contents a user may save with an editor
    Paths,      \* the collections
    Setups,     \* where the key of the service is at first: [file, env]
    MaxKeys,    \* bound: the keys the search service is given
    MaxOps,     \* bound: the operations begun
    MaxEdits,   \* bound: the files saved with an editor
    None

Loop == "loop"              \* the one command or tool that uses the configuration
Thread == "thread"          \* voice_enable / voice_disable
Daemon == {Loop, Thread} \union Tasks
Callers == Daemon \union Clis

\* Requests that change nothing the models hold; they end in an answer, or in
\* none, an empty one or a status code when the service fails in any way.
Requests == {"status", "ingest", "list", "add", "info", "reindex", "stats"}
Removals == {"remove", "drop"}

\* The request of each tool and of each command.  The tools that start and stop
\* the service make none: they name the command to use.
ToolRequest ==
    [search_status |-> "status", search_ingest |-> "ingest", search_collection_list |-> "list",
     search_collection_add |-> "add", search_collection_remove |-> "drop",
     search_collection_info |-> "info", search_collection_reindex |-> "reindex",
     telemetry_stats |-> "stats"]
CommandRequest ==
    [status |-> "status", list |-> "list", add |-> "add", info |-> "info",
     reindex |-> "reindex", remove |-> "remove"]

ASSUME ControlAssumption ==
    /\ Tasks \intersect Clis = {}
    /\ {Loop, Thread} \intersect (Tasks \union Clis) = {} /\ None \notin Callers
    /\ Tools \subseteq DOMAIN ToolRequest /\ Commands \subseteq DOMAIN CommandRequest
    /\ Setups \subseteq [file : {0, 1}, env : {0, 1}]
    /\ {MaxKeys, MaxOps, MaxEdits} \subseteq Nat

VARIABLES
    file,       \* config.toml: [good, keys]; a file that is not good does not parse
    backup,     \* config.toml.bak: the set of its at most one content
    lock,       \* the holder of config.toml.lock, or None
    up,         \* the daemon runs
    memory,     \* the daemon's notification settings
    pc,         \* the next step of each caller, "idle" between operations
    op,         \* its operation: what it read of config.toml (doc), whether that was
                \* replaced without the lock since (overtaken), the key in the
                \* environment of its process (env, 0 for none) and that of its
                \* request (sent), whether it is sent a second time (retried),
                \* whether the key it should use has been the service's since it
                \* began (steady)
    saved,      \* memory was loaded from the file or written to it, and neither
                \* was changed since but together
    key,        \* the key of the search service
    keyFile,    \* the key in .search.env, 0 for none
    env,        \* the key in the daemon's environment, 0 for none
    cached,     \* the key each client holds, 0 for none: the daemon's one client,
                \* and the one every command makes
    indexed,    \* the collections the service has
    begun, edits

configVars == <<file, backup, lock, up, memory, saved, edits>>
searchVars == <<key, keyFile, env, cached, indexed>>
vars == <<configVars, searchVars, pc, op, begun>>

Good(c) == [good |-> TRUE, keys |-> c]
Corrupt == [good |-> FALSE, keys |-> [k \in {} |-> 0]]
Op(kind, k, value) ==
    [kind |-> kind, key |-> k, value |-> value, doc |-> Corrupt, overtaken |-> FALSE,
     env |-> 0, sent |-> 0, retried |-> FALSE, steady |-> FALSE]
NoOp == Op("none", "", "")
InEnvironment(o, k) == [o EXCEPT !.env = k]
\* The environment comes before the file.
KeyOf(o, inFile) == IF o.env # 0 THEN o.env ELSE inFile
Client(c) == IF c \in Tasks THEN "daemon" ELSE c

Init ==
    /\ file \in {Good(c) : c \in {c \in Contents : Accepted(c)}}
    /\ backup = {} /\ lock = None
    /\ up = TRUE /\ memory = Notifications(file.keys) /\ saved = TRUE
    /\ pc = [c \in Callers |-> "idle"]
    /\ op = [c \in Callers |-> NoOp]
    /\ key = 1 /\ \E s \in Setups : keyFile = s.file /\ env = s.env
    /\ cached = [c \in {"daemon"} \union Clis |-> 0]
    /\ indexed = Paths
    /\ begun = 0 /\ edits = 0

\* The event loop does one thing at a time, and waits for a file lock inside it.
LoopIsFree == up /\ pc[Loop] = "idle"
Step(c, from, to, o) ==
    /\ c \in Daemon => up
    /\ c \in Tasks => LoopIsFree
    /\ pc[c] = from /\ pc' = [pc EXCEPT ![c] = to]
    /\ op' = IF to = "idle" THEN [op EXCEPT ![c] = NoOp] ELSE [op EXCEPT ![c] = o]
    /\ UNCHANGED begun

\* Beginning an operation --------------------------------------------------

Begin(c, o, first) ==
    /\ begun < MaxOps /\ begun' = begun + 1
    /\ pc[c] = "idle" /\ pc' = [pc EXCEPT ![c] = first]
    /\ op' = [op EXCEPT ![c] = [o EXCEPT !.steady = key = KeyOf(o, keyFile)]]
    /\ UNCHANGED <<file, backup, lock, edits, key, keyFile, indexed>>

\* /notify, /quiet and the others, the keyboard, set_notification_mode: the
\* daemon's settings change before they are saved.
Notify ==
    /\ LoopIsFree
    /\ \E n \in Notices :
        /\ Begin(Loop, Op("notify", n[1], n[2]), "lock")
        /\ memory' = [memory EXCEPT ![n[1]] = n[2]]
    /\ saved' = FALSE
    /\ UNCHANGED <<up, cached, env>>

\* The tool set_config, on the event loop.
SetByTool ==
    /\ LoopIsFree
    /\ \E s \in Settings : Begin(Loop, Op("set", s[1], s[2]), "lock")
    /\ UNCHANGED <<up, memory, saved, cached, env>>

\* voice_enable and voice_disable hand the update to a thread.
SetInThread ==
    /\ LoopIsFree
    /\ Begin(Thread, Op("set", "voice", "true"), "lock")
    /\ UNCHANGED <<up, memory, saved, cached, env>>

\* archon config set, archon voice enable and disable.
SetByCommand(c) ==
    /\ \E s \in Settings : Begin(c, Op("set", s[1], s[2]), "lock")
    /\ UNCHANGED <<up, memory, saved, cached, env>>

\* A tool of the search service, through the one client of the daemon.
CallTool(t) ==
    /\ LoopIsFree
    /\ \E tool \in Tools, p \in Paths : 
          Begin(t, InEnvironment(Op(ToolRequest[tool], "", p), env), "key")
    /\ UNCHANGED <<up, memory, saved, cached, env>>

\* archon search: a command that loads the configuration and makes a client.
Command(c) ==
    /\ \E command \in Commands, p \in Paths, k \in 0..key :
          \E force \in IF command = "remove" THEN {"", "force"} ELSE {""} :
              Begin(c, InEnvironment(Op(CommandRequest[command], force, p), k), "load")
    /\ cached' = [cached EXCEPT ![c] = 0]
    /\ UNCHANGED <<up, memory, saved, env>>

\* archon search install and start: the standalone tool, whose new key is in the
\* file before the service has it.
Delegate(c) ==
    /\ key < MaxKeys /\ keyFile \in {0, key}
    /\ \A d \in Clis : op[d].kind = "delegate" => pc[d] = "idle"
    /\ Begin(c, Op("delegate", "", ""), "rotate")
    /\ UNCHANGED <<up, memory, saved, cached, env>>

StartDaemon ==
    /\ ~up /\ up' = TRUE /\ env' \in 0..key
    /\ Begin(Loop, Op("start", "", ""), "load")
    /\ UNCHANGED <<memory, saved, cached>>

\* Locked updates ----------------------------------------------------------

\* An update that does not wait.
LockAnyway(c) ==
    /\ Step(c, "lock", "read", op[c]) /\ lock' = c
    /\ UNCHANGED <<file, backup, up, memory, saved, edits, searchVars>>

\* _file_lock(): an exclusive lock, waited for.
Lock(c) ==
    /\ Step(c, "lock", "read", op[c])
    /\ lock = None /\ lock' = c
    /\ UNCHANGED <<file, backup, up, memory, saved, edits, searchVars>>

\* A file that does not parse ends the update.
Read(c) ==
    /\ Step(c, "read", IF file.good THEN "write" ELSE "unlock", [op[c] EXCEPT !.doc = file])
    /\ UNCHANGED <<configVars, searchVars>>

Updated(o, keys) ==
    CASE o.kind = "set" -> Put(keys, o.key, o.value)
      [] o.kind = "notify" -> SaveNotifications(keys, memory)
      [] o.kind = "remove" -> RemoveCollection(keys, o.value)

\* An update of a notification key by another, or one that brings an older file
\* back, leaves the daemon behind.
Write(c) ==
    /\ Step(c, "write", "unlock", op[c])
    /\ file' = Good(Updated(op[c], op[c].doc.keys))
    /\ saved' = \/ op[c].kind = "notify"
                \/ saved /\ ~op[c].overtaken /\ op[c].key \notin NotificationKeys
    /\ UNCHANGED <<backup, lock, up, memory, edits, searchVars>>

\* An error that skips the release of the lock.
WriteRaises(c) == Step(c, "write", "idle", op[c]) /\ UNCHANGED <<configVars, searchVars>>

\* The key's parent is no table, or the temporary file cannot be written.
WriteFails(c) == Step(c, "write", "unlock", op[c]) /\ UNCHANGED <<configVars, searchVars>>

Unlock(c) ==
    /\ Step(c, "unlock", "idle", op[c])
    /\ lock' = None
    /\ UNCHANGED <<file, backup, up, memory, saved, edits, searchVars>>

\* Loading -----------------------------------------------------------------

\* A command that cannot load ends, and so does the daemon.
StillUp(c, loaded) == up /\ (op[c].kind = "start" => loaded)

\* A file that does not parse is replaced by the backup, in a later step.
Load(c) ==
    LET restorable == backup # {} /\ pc[c] = "load"
    IN  /\ \E at \in {"load", "reload"} :
             Step(c, at, IF file.good THEN "loaded"
                         ELSE IF restorable THEN "restore" ELSE "idle",
                  [op[c] EXCEPT !.doc = file])
        /\ up' = StillUp(c, file.good \/ restorable)
        /\ UNCHANGED <<file, backup, lock, memory, saved, edits, searchVars>>

\* Callers that have read the file and are about to write it.
Updating == {c \in Callers : pc[c] = "write"}
Overtaken(c) == [op[c] EXCEPT !.overtaken = c \in Updating]

Restore(c) ==
    /\ c \in Daemon => up
    /\ pc[c] = "restore" /\ pc' = [pc EXCEPT ![c] = "reload"]
    /\ file' \in backup
    /\ saved' = FALSE /\ op' = [d \in Callers |-> Overtaken(d)]
    /\ UNCHANGED <<backup, lock, up, memory, edits, searchVars, begun>>

\* The backup is made before the values are looked at.  A daemon takes its
\* settings from what it read.
BackUp(c) ==
    LET accepted == Accepted(op[c].doc.keys)
        starts == op[c].kind = "start"
    IN  /\ Step(c, "loaded", IF accepted /\ ~starts THEN "key" ELSE "idle", op[c])
        /\ backup' = {file}
        /\ up' = StillUp(c, accepted)
        /\ memory' = IF starts /\ accepted THEN Notifications(op[c].doc.keys) ELSE memory
        /\ saved' = IF starts THEN accepted /\ op[c].doc = file ELSE saved
        /\ UNCHANGED <<file, lock, edits, searchVars>>

\* Requests to the search service ------------------------------------------

\* _resolve_key(): the cached key, else the one in the environment, else the
\* file's, which a thread reads.
Resolve(c) ==
    LET held == IF cached[Client(c)] # 0 THEN cached[Client(c)] ELSE op[c].env
    IN  /\ IF held # 0
             THEN Step(c, "key", "send", [op[c] EXCEPT !.sent = held])
             ELSE Step(c, "key", "file", op[c])
        /\ cached' = [cached EXCEPT ![Client(c)] = held]
        /\ UNCHANGED <<configVars, key, keyFile, env, indexed>>

ReadKey(c) ==
    /\ Step(c, "file", "cache", [op[c] EXCEPT !.sent = keyFile])
    /\ UNCHANGED <<configVars, searchVars>>

\* The thread is done: what it read is cached, unless there was no key.  Then the
\* first try goes without one, and there is no second.
Cache(c) ==
    LET none == op[c].sent = 0
    IN  /\ Step(c, "cache", IF none /\ op[c].retried THEN "refused" ELSE "send", op[c])
        /\ cached' = IF none THEN cached ELSE [cached EXCEPT ![Client(c)] = op[c].sent]
        /\ UNCHANGED <<configVars, key, keyFile, env, indexed>>

\* A collection leaves the configuration when the service has removed it, or by
\* force.
After(c, answered) ==
    IF op[c].kind = "remove" /\ (answered \/ op[c].key = "force") THEN "lock" ELSE "idle"

\* The service does what it is asked, if it can; the answer may come too late.
Answered(c) ==
    LET done == op[c].kind \in Requests \/ op[c].value \in indexed
    IN  /\ op[c].sent = key
        /\ \E inTime \in BOOLEAN : Step(c, "send", After(c, done /\ inTime), op[c])
        /\ indexed' = IF op[c].kind \in Removals THEN indexed \ {op[c].value} ELSE indexed
        /\ UNCHANGED <<configVars, key, keyFile, env, cached>>

\* The service cannot be reached, or fails.
Unanswered(c) ==
    /\ Step(c, "send", After(c, FALSE), op[c])
    /\ UNCHANGED <<configVars, searchVars>>

\* A rejection that is not tried again.
GiveUp(c) ==
    /\ op[c].sent # key
    /\ Step(c, "send", "refused", op[c])
    /\ UNCHANGED <<configVars, searchVars>>

\* 401: the cached key is forgotten and the one in the environment or in the
\* file is tried, once.
Rejected(c) ==
    LET again == [op[c] EXCEPT !.retried = TRUE]
        k == op[c].env
    IN  /\ op[c].sent # key /\ ~op[c].retried
        /\ IF k # 0 THEN Step(c, "send", "send", [again EXCEPT !.sent = k])
                    ELSE Step(c, "send", "file", again)
        /\ cached' = [cached EXCEPT ![Client(c)] = k]
        /\ UNCHANGED <<configVars, key, keyFile, env, indexed>>

\* A second 401 is the answer.
TurnedAway(c) ==
    /\ \/ /\ op[c].sent # key /\ op[c].retried
          /\ Step(c, "send", "refused", op[c])
       \/ Step(c, "refused", After(c, FALSE), op[c])
    /\ UNCHANGED <<configVars, searchVars>>

\* The world ---------------------------------------------------------------

StillSteady(d) == [op[d] EXCEPT !.steady = @ /\ key' = KeyOf(op[d], keyFile')]

\* The standalone tool writes a new key, then restarts the service with it.
Rotate(c) ==
    /\ \/ /\ pc[c] = "rotate" /\ pc' = [pc EXCEPT ![c] = "restart"]
          /\ keyFile' = key + 1 /\ UNCHANGED key
       \/ /\ pc[c] = "restart" /\ pc' = [pc EXCEPT ![c] = "idle"]
          /\ key' = key + 1 /\ UNCHANGED keyFile
    /\ op' = [d \in Callers |-> IF pc'[d] = "idle" THEN NoOp ELSE StillSteady(d)]
    /\ UNCHANGED <<configVars, env, cached, indexed, begun>>

\* An editor saves a content, or half of one: it takes no lock.
Edit ==
    /\ edits < MaxEdits /\ edits' = edits + 1
    /\ file' \in {Good(c) : c \in Contents} \union {Corrupt}
    /\ saved' = FALSE /\ op' = [c \in Callers |-> Overtaken(c)]
    /\ UNCHANGED <<backup, lock, up, memory, searchVars, pc, begun>>

Stopped(callers) ==
    /\ pc' = [c \in Callers |-> IF c \in callers THEN "idle" ELSE pc[c]]
    /\ op' = [c \in Callers |-> IF c \in callers THEN NoOp ELSE op[c]]
    /\ lock' = IF lock \in callers THEN None ELSE lock
    /\ UNCHANGED <<file, backup, memory, saved, edits, key, keyFile, indexed, begun>>

\* A command is killed: the lock goes with the process.  The standalone tool's
\* own failures are not this program's.
Kill(c) ==
    /\ pc[c] \notin {"idle", "rotate", "restart"}
    /\ Stopped({c})
    /\ UNCHANGED <<up, cached, env>>

\* The daemon stops, at any point of what it does.
Die ==
    /\ up /\ up' = FALSE
    /\ Stopped(Daemon)
    /\ cached' = [cached EXCEPT !["daemon"] = 0] /\ env' = 0

Update(c) == Lock(c) \/ Read(c) \/ Write(c) \/ WriteFails(c) \/ Unlock(c)
Request(c) ==
    \/ Resolve(c) \/ ReadKey(c) \/ Cache(c)
    \/ Answered(c) \/ Unanswered(c) \/ Rejected(c) \/ TurnedAway(c)
Proceed(c) ==
    \/ Update(c) \/ Load(c) \/ Restore(c) \/ BackUp(c)
    \/ c \in Tasks \union Clis /\ Request(c)
    \/ Rotate(c)

Next ==
    \/ Notify \/ SetByTool \/ SetInThread \/ StartDaemon \/ Edit \/ Die
    \/ \E t \in Tasks : CallTool(t)
    \/ \E c \in Clis : SetByCommand(c) \/ Command(c) \/ Delegate(c) \/ Kill(c)
    \/ \E c \in Callers : Proceed(c)

Spec == Init /\ [][Next]_vars

\* What was begun is carried on, by one caller or another: the lock is handed on,
\* requests have a timeout.
FairSpec == Spec /\ WF_vars(\E c \in Callers : Proceed(c))

(***************************************************************************)
(* Properties                                                              *)
(***************************************************************************)

\* No update is lost to another update: what a locked update is about to replace
\* is what it read, unless the backup or an editor came in between.
NoLostUpdate == \A c \in Updating : file = op[c].doc \/ op[c].overtaken

\* The settings the daemon saved are those a restart would load, whatever keys
\* the file had and whoever else has updated other keys since.
SettingsSurvive == saved => Notifications(file.keys) = memory

\* A caller is never turned away by the service when the key it is configured
\* with, in the environment of its process or else in the file, was the right
\* one from its beginning to its end, whatever is cached.  (A stale key in the
\* environment is tried twice and hides the file's.)
Authorised == \A c \in Callers : pc[c] = "refused" => ~op[c].steady

\* Every operation ends, as finitely many are begun here: nobody waits for ever
\* for a lock that a failed or killed update holds.
OperationsEnd == <>[](\A c \in Callers : pc[c] = "idle")
=============================================================================
