--------------------------- MODULE UploadStorage ---------------------------
(***************************************************************************)
(* What the uploads of one session store: the limits they are measured     *)
(* against (gateway/src/limits.ts), the part of receiveUpload in           *)
(* http/routes/media.ts that stores the file and records it, the deletion  *)
(* of an upload, and the hourly sweep of lifecycle.ts over idle sessions   *)
(* and folders left in storage.  Database queries go through each          *)
(* replica's pool of connections: pool.query borrows one for a query,      *)
(* pool.connect holds one, and both wait while none is free.               *)
(***************************************************************************)
EXTENDS Integers, FiniteSets

CONSTANTS Replica, Upload, Room, None,
          At,            \* [Upload -> Replica]: the replica an upload is sent to
          Plans,         \* the [Upload -> Room] from which the rooms uploads go to are chosen
          Size,          \* [Upload -> Nat]
          RoomLimit, SessionLimit, JobLimit,   \* config.limits
          PoolSize,      \* the max of db/pool.ts
          Sweeper,       \* the replica whose sweep gets the advisory lock
          MaxCrashes, MaxDeletes, MaxIdles

VARIABLES into,      \* [Upload -> Room]
          step,      \* how far each upload is in its request
          owner,     \* who holds the session's advisory lock
          free,      \* free connections of each replica
          stored,    \* media_items
          files,     \* the uploads that have a folder under rooms/
          working,   \* uploads whose job a worker has, or will have
          deleting,  \* uploads whose row is deleted and whose files are about to be
          alive,     \* the session's row is there
          present,   \* someone has the session open
          idle,      \* last_active_at is before the cutoff
          sweep,     \* what the sweep is at, and has read
          raced,     \* history: uploads under way whose folder the sweep found to have no row
          here,      \* history: someone was there when the sweep read the idle sessions
          crashes, deletes, idles
vars == <<into, step, owner, free, stored, files, working, deleting, alive, present, idle, sweep, raced, here,
          crashes, deletes, idles>>
pool == <<owner, free>>
session == <<alive, present, idle, idles, here>>

Resting == [at |-> "rest", found |-> FALSE, seen |-> {}, doomed |-> {}]

(* Assumed of an instance: finitely many uploads, each to a replica and a    *)
(* room, of some size, and None is none of them.                             *)
StorageAssumption ==
    /\ IsFiniteSet(Upload) /\ None \notin Upload
    /\ At \in [Upload -> Replica] /\ Plans \subseteq [Upload -> Room] /\ Size \in [Upload -> Nat]
    /\ {RoomLimit, SessionLimit, JobLimit, PoolSize, MaxCrashes, MaxDeletes, MaxIdles} \subseteq Nat
    /\ Sweeper \in Replica

TypeOK ==
    /\ into \in Plans
    /\ step \in [Upload -> {"new", "allowed", "moved", "connected", "locked", "fits", "recorded", "unfit", "over",
                            "unlocked", "refused", "saved", "done"}]
    /\ owner \in Upload \cup {None}
    /\ free \in [Replica -> 0..PoolSize]
    /\ stored \subseteq Upload /\ files \subseteq Upload /\ working \subseteq Upload /\ deleting \subseteq Upload
    /\ alive \in BOOLEAN /\ present \in BOOLEAN /\ idle \in BOOLEAN /\ here \in BOOLEAN
    /\ sweep.at \in {"rest", "begun", "idle", "deleted", "files", "listed", "asked"}
    /\ sweep.found \in BOOLEAN /\ sweep.seen \subseteq Upload /\ sweep.doomed \subseteq Upload
    /\ raced \subseteq Upload
    /\ crashes \in 0..MaxCrashes /\ deletes \in 0..MaxDeletes /\ idles \in 0..MaxIdles

Init ==
    /\ into \in Plans
    /\ step = [u \in Upload |-> "new"]
    /\ owner = None /\ free = [r \in Replica |-> PoolSize]
    /\ stored = {} /\ files = {} /\ working = {} /\ deleting = {}
    /\ alive = TRUE /\ present = TRUE /\ idle = FALSE
    /\ sweep = Resting /\ raced = {} /\ here = FALSE
    /\ crashes = 0 /\ deletes = 0 /\ idles = 0

-----------------------------------------------------------------------------
(* Byte by byte: whose it is, and which of it.                               *)
Bytes(us) == Cardinality(UNION {{u} \X (1..Size[u]) : u \in us})
(* usageOf and storageRefusal, as of the rows now.                           *)
Fits(u) == /\ Bytes({v \in stored : into[v] = into[u]}) + Size[u] <= RoomLimit
           /\ Bytes(stored) + Size[u] <= SessionLimit

Goto(u, s) == step' = [step EXCEPT ![u] = s]
Queries(r) == free[r] > 0
Takes(r) == free[r] > 0 /\ free' = [free EXCEPT ![r] = @ - 1]
Gives(r) == free' = [free EXCEPT ![r] = @ + 1]

(* checkUpload, before the body is read.  Nothing is stored for a refusal.   *)
Check(u) ==
    /\ step[u] = "new" /\ present /\ Queries(At[u])
    /\ Goto(u, IF alive /\ Cardinality(working \cap stored) < JobLimit /\ Fits(u) THEN "allowed" ELSE "done")
    /\ UNCHANGED <<into, pool, stored, files, working, deleting, session, sweep, raced, crashes, deletes>>

(* The whole file is in the temp folder: it is moved to its own under rooms/ *)
(* before its row is there.                                                  *)
MoveIn(u) ==
    /\ step[u] = "allowed" /\ Goto(u, "moved")
    /\ files' = files \cup {u}
    /\ UNCHANGED <<into, pool, stored, working, deleting, session, sweep, raced, crashes, deletes>>

(* withStorageReserved: a connection, the session's advisory lock on it, the *)
(* usage measured on it.                                                     *)
Connect(u) ==
    /\ step[u] = "moved" /\ Goto(u, "connected") /\ Takes(At[u])
    /\ UNCHANGED <<into, owner, stored, files, working, deleting, session, sweep, raced, crashes, deletes>>

(* Mutant: the storage is measured without waiting for the lock. *)
LockAnyway(u) ==
    /\ step[u] = "connected" /\ Goto(u, "locked") /\ owner' = u
    /\ UNCHANGED <<into, free, stored, files, working, deleting, session, sweep, raced, crashes, deletes>>
Lock(u) ==
    /\ step[u] = "connected" /\ owner = None
    /\ Goto(u, "locked") /\ owner' = u
    /\ UNCHANGED <<into, free, stored, files, working, deleting, session, sweep, raced, crashes, deletes>>

Measure(u) ==
    /\ step[u] = "locked" /\ Goto(u, IF Fits(u) THEN "fits" ELSE "over")
    /\ UNCHANGED <<into, pool, stored, files, working, deleting, session, sweep, raced, crashes, deletes>>

(* insertMediaItem goes through the pool, not the connection that holds the  *)
(* lock.  It fails when the session, and with it the room, has gone.         *)
Insert(u) ==
    /\ step[u] = "fits" /\ Queries(At[u])
    /\ Goto(u, IF alive THEN "recorded" ELSE "unfit")
    /\ stored' = IF alive THEN stored \cup {u} ELSE stored
    /\ UNCHANGED <<into, pool, files, working, deleting, session, sweep, raced, crashes, deletes>>

(* The lock is given up on every way out, and then the connection.  A failed *)
(* insert is a 500 and leaves the file; a refusal removes it.                *)
Unlock(u) ==
    /\ step[u] \in {"recorded", "over", "unfit"}
    /\ owner' = None /\ Gives(At[u])
    /\ Goto(u, CASE step[u] = "recorded" -> "saved" [] step[u] = "over" -> "refused" [] OTHER -> "done")
    /\ UNCHANGED <<into, stored, files, working, deleting, session, sweep, raced, crashes, deletes>>

RemoveRefused(u) ==
    /\ step[u] = "refused" /\ Goto(u, "done")
    /\ files' = files \ {u}
    /\ UNCHANGED <<into, pool, stored, working, deleting, session, sweep, raced, crashes, deletes>>

(* insertJob (which fails when the row has gone again) and what follows; the *)
(* session is touched.                                                       *)
Finish(u) ==
    /\ step[u] = "saved" /\ Queries(At[u]) /\ Goto(u, "done")
    /\ working' = IF u \in stored THEN working \cup {u} ELSE working
    /\ idle' = (idle /\ ~(alive /\ u \in stored))
    /\ UNCHANGED <<into, pool, stored, files, deleting, alive, present, idles, here, sweep, raced, crashes, deletes>>

(* A worker writes its result beside the original and reports; the upload    *)
(* may have been deleted, and its folder is then made again.                 *)
WorkerWrites(u) ==
    /\ u \in working
    /\ files' = files \cup {u} /\ working' = working \ {u}
    /\ UNCHANGED <<into, step, pool, stored, deleting, session, sweep, raced, crashes, deletes>>

(* The deletion of an upload: its row, with its job, and then its files.       *)
Delete(u) ==
    /\ deletes < MaxDeletes /\ deletes' = deletes + 1
    /\ u \in stored /\ present
    /\ stored' = stored \ {u} /\ deleting' = deleting \cup {u}
    /\ UNCHANGED <<into, step, pool, files, working, session, sweep, raced, crashes>>

RemoveFiles(u) ==
    /\ u \in deleting
    /\ files' = files \ {u} /\ deleting' = deleting \ {u}
    /\ UNCHANGED <<into, step, pool, stored, working, session, sweep, raced, crashes, deletes>>

-----------------------------------------------------------------------------
(* The session's life.  While someone is there, the heartbeat of their       *)
(* socket touches it; days without anyone put it past its cutoff.            *)

Leave == /\ present /\ alive /\ idles < MaxIdles /\ present' = FALSE
         /\ \A u \in Upload : step[u] \in {"new", "done"}
         /\ UNCHANGED <<into, step, pool, stored, files, working, deleting, alive, idle, idles, here, sweep, raced,
                        crashes, deletes>>

(* Mutant: only someone's coming counts as activity, not their being there. *)
TouchedNever == FALSE
Touched == present
DaysPass == /\ alive /\ ~idle /\ idles < MaxIdles /\ ~Touched
            /\ idle' = TRUE /\ idles' = idles + 1
            /\ UNCHANGED <<into, step, pool, stored, files, working, deleting, alive, present, here, sweep, raced,
                           crashes, deletes>>

Return == /\ ~present /\ alive /\ present' = TRUE /\ idle' = FALSE
          /\ UNCHANGED <<into, step, pool, stored, files, working, deleting, alive, idles, here, sweep, raced, crashes,
                         deletes>>

-----------------------------------------------------------------------------
(* The sweep holds a connection with its advisory lock from end to end, and  *)
(* queries through the pool.                                                 *)

SweepBegin ==
    /\ sweep.at = "rest" /\ Takes(Sweeper)
    /\ sweep' = [sweep EXCEPT !.at = "begun"]
    /\ UNCHANGED <<into, step, owner, stored, files, working, deleting, session, raced, crashes, deletes>>

SweepIdle ==
    /\ sweep.at = "begun" /\ Queries(Sweeper)
    /\ sweep' = [sweep EXCEPT !.at = "idle", !.found = alive /\ idle]
    /\ here' = present
    /\ UNCHANGED <<into, step, pool, stored, files, working, deleting, alive, present, idle, idles, raced, crashes, deletes>>

(* deleteSession takes the id that was found: whether it is idle still is    *)
(* not asked again.                                                          *)
SweepDelete ==
    /\ sweep.at = "idle" /\ Queries(Sweeper)
    /\ sweep' = [sweep EXCEPT !.at = IF sweep.found THEN "deleted" ELSE "files"]
    /\ alive' = (alive /\ ~sweep.found)
    /\ present' = (present /\ ~sweep.found)
    /\ stored' = IF sweep.found THEN {} ELSE stored
    /\ UNCHANGED <<into, step, pool, files, working, deleting, idle, idles, here, raced, crashes, deletes>>

SweepRoomFolders ==
    /\ sweep.at = "deleted" /\ files' = {}
    /\ sweep' = [sweep EXCEPT !.at = "files", !.found = FALSE]
    /\ UNCHANGED <<into, step, pool, stored, working, deleting, session, raced, crashes, deletes>>

(* The folders are listed, the rows asked for, and what has none removed.    *)
SweepList ==
    /\ sweep.at = "files"
    /\ sweep' = [sweep EXCEPT !.at = "listed", !.seen = files]
    /\ UNCHANGED <<into, step, pool, stored, files, working, deleting, session, raced, crashes, deletes>>

(* Mutant: the sweep takes whatever has no job waiting for left behind. *)
LeftBehindByJobs == sweep.seen \ working
(* Mutant: only the folders of rooms that are gone are swept. *)
LeftBehindByRooms == IF alive THEN {} ELSE sweep.seen
LeftBehind == sweep.seen \ stored
SweepAsk ==
    /\ sweep.at = "listed" /\ Queries(Sweeper)
    /\ sweep' = [sweep EXCEPT !.at = "asked", !.seen = {}, !.doomed = LeftBehind]
    /\ raced' = raced \cup {u \in sweep.seen \ stored : step[u] \in {"moved", "connected", "locked", "fits"}}
    /\ UNCHANGED <<into, step, pool, stored, files, working, deleting, session, crashes, deletes>>

SweepRemove(u) ==
    /\ sweep.at = "asked" /\ u \in sweep.doomed
    /\ files' = files \ {u}
    /\ sweep' = [sweep EXCEPT !.doomed = @ \ {u}]
    /\ UNCHANGED <<into, step, pool, stored, working, deleting, session, raced, crashes, deletes>>

SweepEnd ==
    /\ sweep.at = "asked" /\ sweep.doomed = {}
    /\ sweep' = Resting /\ Gives(Sweeper)
    /\ UNCHANGED <<into, step, owner, stored, files, working, deleting, session, raced, crashes, deletes>>

(* A replica stops and starts again: PostgreSQL gives up the locks of its    *)
(* connections, and its requests and sweep end where they were.              *)
Crash(r) ==
    /\ crashes < MaxCrashes /\ crashes' = crashes + 1
    /\ step' = [u \in Upload |-> IF At[u] = r /\ step[u] # "new" THEN "done" ELSE step[u]]
    /\ owner' = IF owner # None /\ At[owner] = r THEN None ELSE owner
    /\ free' = [free EXCEPT ![r] = PoolSize]
    /\ deleting' \in SUBSET deleting
    /\ sweep' = IF r = Sweeper THEN Resting ELSE sweep
    /\ UNCHANGED <<into, stored, files, working, session, raced, deletes>>

Uploading(u) == \/ MoveIn(u) \/ Connect(u) \/ Lock(u) \/ Measure(u) \/ Insert(u) \/ Unlock(u)
                \/ RemoveRefused(u) \/ Finish(u) \/ RemoveFiles(u)
Sweeping == \/ SweepBegin \/ SweepIdle \/ SweepDelete \/ SweepRoomFolders \/ SweepList \/ SweepAsk \/ SweepEnd
            \/ \E u \in Upload : SweepRemove(u)

Next ==
    \/ \E u \in Upload : Check(u) \/ Uploading(u) \/ WorkerWrites(u) \/ Delete(u)
    \/ Leave \/ DaysPass \/ Return \/ Sweeping
    \/ \E r \in Replica : Crash(r)

(* The sweep comes round every hour.                                         *)
Fairness == WF_vars(Sweeping)
Spec == Init /\ [][Next]_vars /\ Fairness

-----------------------------------------------------------------------------
(* Uploads that arrive together do not each fit and all go in: what is       *)
(* recorded stays within the limits of every room and of the session.        *)
WithinLimits ==
    /\ Bytes(stored) <= SessionLimit
    /\ \A r \in Room : Bytes({u \in stored : into[u] = r}) <= RoomLimit

(* An upload that is recorded has its file, but for one whose folder was     *)
(* there, and its row not yet, when the sweep looked.                        *)
StoredHasFile == alive => stored \subseteq files \cup raced

(* A session is deleted by the sweep only when nobody was in it when the     *)
(* sweep read which sessions are idle: an open tab counts as activity.       *)
DeletedWhenIdle == ~alive => ~here

(* What a crash, a refusal or a late worker leaves in storage goes in the    *)
(* end, and nothing comes back.                                              *)
NothingLeftBehind == <>[](files \subseteq stored)

(* "Here the second waits for the first's row to exist before it measures":  *)
(* whoever holds the lock can go on, or someone gives a connection back.     *)
FirstGoesIn ==
    ~ \E r \in Replica : /\ free[r] = 0 /\ sweep.at # "asked"
                         /\ owner # None /\ At[owner] = r /\ step[owner] = "fits"
                         /\ \A u \in Upload \ {owner} : At[u] = r => step[u] \notin {"recorded", "over", "unfit"}
=============================================================================
