----------------------------- MODULE Attachments -----------------------------
(***************************************************************************)
(* Files sent by the user: MediaGroupCollector, FileHandler and            *)
(* AttachmentStore.                                                        *)
(*                                                                         *)
(* Every message has a handler task on the event loop.  The parts of an    *)
(* album join a group; the handler of the first one gets them all when the *)
(* group's timer fires, and downloads, saves and describes them one by one.*)
(* Saving blocks the loop, but not the thread that cleans up old files.    *)
(*                                                                         *)
(* A file name is the sequence of the parts that "_" separates; the parts  *)
(* that count are numbers, and Resized is the one that a resized copy adds.*)
(***************************************************************************)
EXTENDS Integers, Sequences, FiniteSets

CONSTANTS
    Messages,     \* the messages with a file, numbered in the order they come
    Albums,       \* media_group_id
    AlbumOf,      \* the album of a message, Alone if it has none
    Alone,
    NameOf,       \* the name its file is to be saved under, see below
    Images,       \* messages whose file may be resized
    Days,         \* bound: the days, one directory each
    MaxPending    \* max_pending of the collector

ASSUME FilesAssumption ==
    Messages \subseteq Nat \ {0} /\ IsFiniteSet(Messages) /\ Images \subseteq Messages
ASSUME NamesAssumption == NameOf \in [Messages -> Seq(Nat)]
ASSUME AlbumsAssumption == AlbumOf \in [Messages -> Albums \union {Alone}] /\ Alone \notin Albums

None == 0
Resized == 0

VARIABLES
    arrived,   \* messages whose handler has begun
    groups,    \* per album, the parts collected so far; no timer without a part
    owner,     \* per album, the message whose handler awaits the future, or None
    job,       \* per message, the parts its handler still has to see to
    saved,     \* per message, the parts its handler has saved and will describe
    stage,     \* per message: "idle", "getting" or "saving"
    loop,      \* the message whose handler blocks the loop in save(), or None
    day,       \* today
    dirs,      \* the date directories that exist
    files,     \* per stored path, whose file it is
    paths,     \* per message, where its file and the resized copy were saved
    aged,      \* messages whose file is older than the limit
    cleaner,   \* the cleanup thread: where it is, on which directory and path
    fate       \* per message: how often it was part of a prompt, and how it ended

handlerVars == <<groups, owner, job, saved, stage>>
storeVars == <<dirs, files, paths, aged>>
attachmentVars == <<arrived, handlerVars, loop, day, storeVars, cleaner, fate>>

(* A path is a day and a name.                                             *)
InDir(d) == {p \in DOMAIN files : p[1] = d}
Free(name) == <<day, name>> \notin DOMAIN files

NoCleanup == [at |-> "idle", dir |-> None, todo |-> {}, on |-> <<>>]

AttachmentsInit ==
    /\ arrived = {}
    /\ groups = [a \in Albums |-> <<>>] /\ owner = [a \in Albums |-> None]
    /\ job = [m \in Messages |-> <<>>] /\ saved = [m \in Messages |-> {}]
    /\ stage = [m \in Messages |-> "idle"] /\ loop = None
    /\ day = 1 /\ dirs = {} /\ files = <<>>
    /\ paths = [m \in Messages |-> {}] /\ aged = {}
    /\ cleaner = NoCleanup
    /\ fate = [m \in Messages |-> [prompts |-> 0, end |-> "none"]]

Ends(ms, how) == fate' = [m \in Messages |-> IF m \in ms THEN [fate[m] EXCEPT !.end = how] ELSE fate[m]]

-----------------------------------------------------------------------------
(* MediaGroupCollector.                                                    *)

PendingAlbums == {a \in Albums : groups[a] # <<>>}

Arrives(m) ==
    /\ loop = None
    /\ m \notin arrived /\ \A k \in Messages : k < m => k \in arrived
    /\ arrived' = arrived \union {m}

(* The handler goes on with these parts.  A message without an album, or   *)
(* the first of one that finds too many albums pending, goes on alone.     *)
GoesOn(m, parts) ==
    /\ job' = [job EXCEPT ![m] = parts]
    /\ stage' = [stage EXCEPT ![m] = "getting"]

HandleAlone(m) ==
    /\ Arrives(m)
    /\ \/ AlbumOf[m] = Alone
       \/ /\ AlbumOf[m] # Alone
          /\ groups[AlbumOf[m]] = <<>> /\ Cardinality(PendingAlbums) >= MaxPending
    /\ GoesOn(m, <<m>>)
    /\ UNCHANGED <<groups, owner, saved, loop, day, storeVars, cleaner, fate>>

(* The first part of an album waits for the future; a part that comes when *)
(* the timer has fired is the first of a new group.                        *)
OpenGroup(m) ==
    /\ Arrives(m)
    /\ AlbumOf[m] # Alone
    /\ groups[AlbumOf[m]] = <<>> /\ Cardinality(PendingAlbums) < MaxPending
    /\ groups' = [groups EXCEPT ![AlbumOf[m]] = <<m>>]
    /\ owner' = [owner EXCEPT ![AlbumOf[m]] = m]
    /\ UNCHANGED <<job, saved, stage, loop, day, storeVars, cleaner, fate>>

Joins(m) ==
    /\ Arrives(m)
    /\ AlbumOf[m] # Alone /\ groups[AlbumOf[m]] # <<>>
    /\ groups' = [groups EXCEPT ![AlbumOf[m]] = Append(@, m)]

(* A slip: the handler of a later part goes on as well.                    *)
JoinGroupToo(m) ==
    /\ Joins(m)
    /\ GoesOn(m, <<m>>)
    /\ UNCHANGED <<owner, saved, loop, day, storeVars, cleaner, fate>>

JoinGroup(m) ==
    /\ Joins(m)
    /\ UNCHANGED <<owner, job, saved, stage, loop, day, storeVars, cleaner, fate>>

(* _resolve(): a second without a new part.                                *)
Resolve(a) ==
    /\ loop = None
    /\ groups[a] # <<>>
    /\ groups' = [groups EXCEPT ![a] = <<>>]
    /\ owner' = [owner EXCEPT ![a] = None]
    /\ GoesOn(owner[a], groups[a])
    /\ UNCHANGED <<arrived, saved, loop, day, storeVars, cleaner, fate>>

-----------------------------------------------------------------------------
(* FileHandler: the parts of a job, one after the other.                   *)

(* The next part, or the prompt: what was saved is described, and if       *)
(* nothing was the user is told.                                           *)
Continue(m, done) ==
    LET rest == Tail(job[m])
        all == saved[m] \union done
        now == IF done = {} THEN {Head(job[m])} ELSE {}
    IN /\ job' = [job EXCEPT ![m] = rest]
       /\ IF rest # <<>>
          THEN /\ saved' = [saved EXCEPT ![m] = all]
               /\ stage' = [stage EXCEPT ![m] = "getting"]
               /\ Ends(now, "skipped")
          ELSE /\ saved' = [saved EXCEPT ![m] = {}]
               /\ stage' = [stage EXCEPT ![m] = "idle"]
               /\ fate' = [k \in Messages |->
                    IF k \in all
                    THEN [prompts |-> fate[k].prompts + 1, end |-> "prompted"]
                    ELSE IF k \in now
                    THEN [fate[k] EXCEPT !.end = IF all = {} THEN "told" ELSE "skipped"]
                    ELSE fate[k]]

(* _download_file() has got the file, with its two calls, and save()       *)
(* begins: it makes the directory.                                         *)
Downloaded(m) ==
    /\ loop = None /\ stage[m] = "getting"
    /\ stage' = [stage EXCEPT ![m] = "saving"]
    /\ loop' = m
    /\ dirs' = dirs \union {day}
    /\ UNCHANGED <<arrived, groups, owner, job, saved, day, files, paths, aged, cleaner, fate>>

(* A slip: no timeout around the two calls.                                *)
DownloadHangs(m) == FALSE /\ UNCHANGED attachmentVars

(* The file is too large, or either call fails or takes thirty seconds.    *)
DownloadFails(m) ==
    /\ loop = None /\ stage[m] = "getting"
    /\ Continue(m, {})
    /\ UNCHANGED <<arrived, groups, owner, loop, day, storeVars, cleaner>>

(* The name itself if it is free, or else with the first number that is.   *)
FirstFree(name, from) ==
    IF Free(name) THEN name
    ELSE LET n == CHOOSE n \in from .. from + 2 * Cardinality(Messages) :
                      /\ Free(Append(name, n))
                      /\ \A k \in from .. n - 1 : ~Free(Append(name, k))
         IN Append(name, n)

(* A slip: an existing file is not looked for.                             *)
AnyPath(name) == <<day, name>>

(* _resolve_collision(), which counts from 2.                              *)
FreePath(name) == <<day, FirstFree(name, 2)>>

Stored(k, ps) ==
    /\ files' = [q \in DOMAIN files \union ps |-> IF q \in ps THEN k ELSE files[q]]
    /\ paths' = [paths EXCEPT ![k] = ps]

(* The file is written, unless the directory has been removed meanwhile,   *)
(* the disk is full or the name too long.                                  *)
Save(m) ==
    /\ loop = m
    /\ loop' = None
    /\ LET k == Head(job[m])
       IN \/ /\ day \in dirs
             /\ Stored(k, {FreePath(NameOf[k])})
             /\ Continue(m, {k})
          \/ UNCHANGED <<files, paths>> /\ Continue(m, {})
    /\ UNCHANGED <<arrived, groups, owner, day, dirs, aged, cleaner>>

(* _process_image(): a large picture gets a smaller copy beside it, whose  *)
(* name is made from the one the file was saved under.  The copy's number, *)
(* if it needs one, counts from 1.                                         *)
SaveResized(m) ==
    /\ loop = m /\ day \in dirs
    /\ loop' = None
    /\ LET k == Head(job[m])
           p == FreePath(NameOf[k])
           copy == <<day, FirstFree(Append(p[2], Resized), 1)>>
       IN /\ k \in Images
          /\ Stored(k, {p, copy})
          /\ Continue(m, {k})
    /\ UNCHANGED <<arrived, groups, owner, day, dirs, aged, cleaner>>

(* It raises (a picture so narrow that its smaller edge rounds to nothing, *)
(* a full disk): the handler dies, with all its parts.                     *)
ResizeRaises(m) ==
    /\ loop = m /\ day \in dirs
    /\ loop' = None
    /\ LET k == Head(job[m])
       IN /\ k \in Images
          /\ Stored(k, {FreePath(NameOf[k])})
          /\ Ends(saved[m] \union {job[m][i] : i \in DOMAIN job[m]}, "lost")
    /\ job' = [job EXCEPT ![m] = <<>>] /\ saved' = [saved EXCEPT ![m] = {}]
    /\ stage' = [stage EXCEPT ![m] = "idle"]
    /\ UNCHANGED <<arrived, groups, owner, day, dirs, aged, cleaner>>

-----------------------------------------------------------------------------
(* AttachmentStore.cleanup(), in a thread of its own.                      *)

NextDay ==
    /\ loop = None
    /\ day + 1 \in Days
    /\ day' = day + 1
    /\ UNCHANGED <<arrived, handlerVars, loop, storeVars, cleaner, fate>>

(* Files get old long after their handler has gone: the limit is hours.    *)
(* The cleanup takes the time when it begins.                              *)
Age(m) ==
    /\ cleaner = NoCleanup
    /\ paths[m] # {} /\ fate[m].end # "none" /\ m \notin aged
    /\ aged' = aged \union {m}
    /\ UNCHANGED <<arrived, handlerVars, loop, day, dirs, files, paths, cleaner, fate>>

CleanupBegins(d) ==
    /\ cleaner.at = "idle" /\ d \in dirs
    /\ cleaner' = [at |-> "looking", dir |-> d, todo |-> InDir(d), on |-> <<>>]
    /\ UNCHANGED <<arrived, handlerVars, loop, day, storeVars, fate>>

(* A file's age is read, and the file removed in another call.             *)
LooksAt(p) ==
    /\ cleaner.at = "looking" /\ p \in cleaner.todo
    /\ cleaner' = IF files[p] \in aged
                  THEN [cleaner EXCEPT !.at = "removing", !.todo = @ \ {p}, !.on = p]
                  ELSE [cleaner EXCEPT !.todo = @ \ {p}]
    /\ UNCHANGED <<arrived, handlerVars, loop, day, storeVars, fate>>

Unlinks ==
    /\ cleaner.at = "removing"
    /\ files' = [q \in DOMAIN files \ {cleaner.on} |-> files[q]]
    /\ cleaner' = [cleaner EXCEPT !.at = "looking", !.on = <<>>]
    /\ UNCHANGED <<arrived, handlerVars, loop, day, dirs, paths, aged, fate>>

(* The directory is seen to be empty, and removed in another call, which   *)
(* fails if a file has come meanwhile.                                     *)
SeesDirectory ==
    /\ cleaner.at = "looking" /\ cleaner.todo = {}
    /\ cleaner' = IF InDir(cleaner.dir) = {} THEN [cleaner EXCEPT !.at = "emptied"] ELSE NoCleanup
    /\ UNCHANGED <<arrived, handlerVars, loop, day, storeVars, fate>>

RemovesDirectory ==
    /\ cleaner.at = "emptied"
    /\ dirs' = IF InDir(cleaner.dir) = {} THEN dirs \ {cleaner.dir} ELSE dirs
    /\ cleaner' = NoCleanup
    /\ UNCHANGED <<arrived, handlerVars, loop, day, files, paths, aged, fate>>

Cleanup ==
    \/ \E d \in Days : CleanupBegins(d)
    \/ \E p \in cleaner.todo : LooksAt(p)
    \/ Unlinks \/ SeesDirectory \/ RemovesDirectory

Handle(m) ==
    \/ HandleAlone(m) \/ OpenGroup(m) \/ JoinGroup(m)
    \/ Downloaded(m) \/ DownloadFails(m)
    \/ Save(m) \/ SaveResized(m) \/ ResizeRaises(m)

AttachmentsNext ==
    \/ \E m \in Messages : Handle(m) \/ Age(m)
    \/ \E a \in Albums : Resolve(a)
    \/ NextDay \/ Cleanup

AttachmentsSpec == AttachmentsInit /\ [][AttachmentsNext]_attachmentVars

(* Timers and timeouts fire, and the loop is not blocked for ever; Telegram*)
(* need not answer.                                                        *)
AttachmentsFairSpec ==
    /\ AttachmentsSpec
    /\ \A a \in Albums : WF_attachmentVars(Resolve(a))
    /\ \A m \in Messages : WF_attachmentVars(DownloadFails(m)) /\ WF_attachmentVars(Save(m))

-----------------------------------------------------------------------------
(* No part of an album is in two prompts, whether it joins the group, comes*)
(* late, or finds too many albums pending.                                 *)
PartOnce == \A m \in Messages : fate[m].prompts <= 1

(* A saved file, and its copy, stay what they were saved as until they are *)
(* old, whatever other files and copies of such a name arrive and wherever *)
(* the cleanup thread is.                                                  *)
OwnFile ==
    \A m \in Messages \ aged : \A p \in paths[m] : p \in DOMAIN files /\ files[p] = m

(* Every file that arrives ends up in a prompt, or is skipped, told to the *)
(* user, or lost with a handler that died of a picture it could not resize.*)
EveryFileSettles == \A m \in Messages : m \in arrived ~> fate[m].end # "none"
=============================================================================
