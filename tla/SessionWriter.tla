--------------------------- MODULE SessionWriter ---------------------------
(* The saved session: session.json and the two directories of recovery     *)
(* copies beside it, as runtime/src/persist/writer.rs and persist/io.rs    *)
(* write them.  One writer works at a time (the mutex around it).  Every   *)
(* file operation is a step of its own, so that the process may die, or    *)
(* the machine lose power, between any two.                                *)
EXTENDS Integers, FiniteSets, FiniteSetsExt

CONSTANTS
  Layouts,        \* the layouts this version writes and loads
  Foreign,        \* contents it cannot load: corrupt, or a newer version's
  SnapshotLimit,  \* SNAPSHOT_LIMIT
  BackupLimit,    \* the 3 of preserve_existing
  Interval,       \* SNAPSHOT_INTERVAL
  MaxTime,        \* bound: the wall clock stays in 0..MaxTime
  Jobs,           \* bound: saves and clears asked for
  Crashes,        \* bound: process crashes and power losses
  Faults,         \* bound: failing file operations
  Rollbacks,      \* bound: backward steps of the wall clock
  Handoffs        \* bound: live handoffs to a replacement server

ASSUME WriterAssumption ==
  /\ SnapshotLimit \in Nat \ {0} /\ BackupLimit \in Nat \ {0}
  /\ Interval \in Nat /\ MaxTime \in Nat
  /\ Jobs \in Nat /\ Crashes \in Nat /\ Faults \in Nat
  /\ Rollbacks \in Nat /\ Handoffs \in Nat
  /\ Layouts \cap Foreign = {}
  /\ {"absent", "torn", "none", "clear"} \cap (Layouts \cup Foreign) = {}

VARIABLES
  session,    \* what session.json holds now
  onDisk,     \* what a power loss now may leave there
  backups,    \* session-backups/: the published copies
  snapshots,  \* session-snapshots/
  history,    \* session-history.json: the layout its screens belong to
  tmp,        \* session.json.tmp
  unsynced,   \* the copies whose rename a power loss may undo
  copy,       \* the recovery copy being made: a set of at most one
  pc,         \* what the writer does next; "down": there is no server
  job,        \* the layout being saved, or "clear"
  protect,    \* SessionWriter.protect_unloaded
  now,        \* the wall clock
  left,       \* what remains of each bound
  unloaded,   \* history: what the server found, safe on disk, and did not load
  acked,      \* history: the layout whose save was reported done
  since,      \* history: when session.json last changed
  missed      \* history: since the last snapshot, one failed or was never tried

files == <<session, onDisk, backups, snapshots, unsynced, history, tmp>>
vars == <<files, copy, pc, job, protect, now, left, unloaded, acked, since, missed>>

Contents == Layouts \cup Foreign \cup {"absent", "torn"}

\* A recovery copy, in session-backups or session-snapshots.
CopiesIn(place) ==
  [dir : {place}, what : Contents, stamp : Nat, mtime : 0..MaxTime]

Bounds == [jobs |-> Jobs, crashes |-> Crashes, faults |-> Faults,
           rollbacks |-> Rollbacks, handoffs |-> Handoffs]

Spend(what) == left[what] > 0 /\ left' = [left EXCEPT ![what] = @ - 1]

Init ==
  /\ session \in Foreign \cup {"absent"} /\ onDisk = {session}
  /\ backups = {} /\ snapshots = {} /\ unsynced = {}
  /\ history = "absent" /\ tmp = "none" /\ copy = {}
  /\ pc = "down" /\ job = "clear" /\ protect = FALSE
  /\ now = 0 /\ left = Bounds
  /\ unloaded = "none" /\ acked = "none" /\ since = 0 /\ missed = FALSE

----------------------------------------------------------------------------
(* Start-up and what happens around the writer.                            *)

\* load: anything but a layout of this version is not restored, and neither is
\* one that cannot be read; the writer must then protect what it finds.
Load ==
  /\ pc = "down"
  /\ \E loaded \in BOOLEAN :
       /\ loaded => session \in Layouts
       /\ IF session \in Layouts /\ ~loaded THEN Spend("faults") ELSE UNCHANGED left
       /\ protect' = ~loaded
       /\ unloaded' = CASE loaded -> IF session = unloaded THEN "none" ELSE unloaded
                        [] ~loaded -> IF session # "absent" /\ onDisk = {session}
                                        THEN session ELSE "none"
  /\ pc' = "idle"
  /\ UNCHANGED <<files, copy, job, now, acked, since, missed>>

\* The server exits between two jobs, and may be started again.
Stop ==
  /\ pc = "idle" /\ pc' = "down" /\ protect' = FALSE
  /\ UNCHANGED <<files, copy, job, now, left, unloaded, acked, since, missed>>

\* A replacement server that takes over in a live handoff gets its layout from
\* the old server: restore_session is off, so its writer protects nothing.
Replace ==
  /\ pc = "idle" /\ Spend("handoffs")
  /\ protect' = FALSE
  /\ UNCHANGED <<files, copy, pc, job, now, unloaded, acked, since, missed>>

\* Someone puts another file at the path while no server runs, or where the
\* server found none: another version, or a user following the recovery steps.
Arrives ==
  /\ \/ pc = "down"
     \/ pc = "idle" /\ protect /\ session = "absent"
  /\ \E c \in (Layouts \cup Foreign) \ {session} :
       /\ session' = c /\ onDisk' = {c}
       /\ unloaded' = IF pc = "idle" THEN c ELSE "none"
  /\ acked' = "none" /\ since' = now /\ missed' = TRUE
  /\ Spend("jobs")
  /\ UNCHANGED <<backups, snapshots, unsynced, history, tmp,
                 copy, pc, job, protect, now>>

Tick ==
  /\ pc \in {"down", "idle"}
  /\ now < MaxTime /\ now' = now + 1
  /\ UNCHANGED <<files, copy, pc, job, protect, left, unloaded, acked, since, missed>>

ClockGoesBack ==
  /\ pc \in {"down", "idle"} /\ now > 0
  /\ \E t \in 0..(now - 1) : now' = t
  /\ Spend("rollbacks")
  /\ UNCHANGED <<files, copy, pc, job, protect, unloaded, acked, since, missed>>

\* The process dies at any point; when the power fails as well, a rename or
\* unlink that was not synced may be undone.
Crash ==
  /\ pc # "down" /\ Spend("crashes")
  /\ \/ UNCHANGED files
     \/ \E c \in onDisk, undone \in SUBSET unsynced :
          /\ session' = c /\ onDisk' = {c}
          /\ backups' = backups \ undone /\ snapshots' = snapshots \ undone
          /\ unsynced' = {} /\ UNCHANGED <<history, tmp>>
  /\ copy' = {} /\ pc' = "down" /\ job' = "clear" /\ protect' = FALSE
  /\ acked' = IF session' = acked THEN acked ELSE "none"
  /\ since' = IF session' = session THEN since ELSE now
  /\ missed' = (missed \/ pc # "idle" \/ session' # session)
  /\ UNCHANGED <<now, unloaded>>
----------------------------------------------------------------------------
(* One save or clear.                                                      *)

ambient == <<now, unloaded, acked>>

\* SessionWriter::save and SessionWriter::clear, called with the mutex held.
Begin ==
  /\ pc = "idle" /\ Spend("jobs")
  /\ job' \in Layouts \cup {"clear"}
  /\ pc' = "unloaded" /\ acked' = "none"
  /\ UNCHANGED <<files, copy, protect, now, unloaded, since, missed>>

Newest(dir) == CHOOSE c \in dir : \A d \in dir : d.stamp <= c.stamp

\* Mutant: a snapshot dated in the future counts as recent.
SnapshotDueByAge ==
  /\ session \in Layouts
  /\ snapshots # {} =>
       LET c == Newest(snapshots) IN
         /\ now - c.mtime >= Interval
         /\ c.what # session

\* preserve_snapshot_history returns early when the newest snapshot is younger
\* than the interval (one dated in the future is not), when the file is missing
\* or not a layout of this version, and when the newest holds the same layout.
SnapshotDue ==
  /\ session \in Layouts
  /\ snapshots # {} =>
       LET c == Newest(snapshots) IN
         /\ c.mtime > now \/ now - c.mtime >= Interval
         /\ c.what # session

CopyDue ==
  \/ pc = "unloaded" /\ protect /\ session # "absent"
  \/ pc \in {"before", "after"} /\ SnapshotDue

Dir == IF pc = "unloaded" THEN backups ELSE snapshots

DirName == IF pc = "unloaded" THEN "backups" ELSE "snapshots"

SetDir(dir) ==
  IF pc = "unloaded" THEN backups' = dir /\ UNCHANGED snapshots
                     ELSE snapshots' = dir /\ UNCHANGED backups

Following ==
  CASE pc = "unloaded" -> "before"
    [] pc = "before" -> IF job = "clear" THEN "remove" ELSE "write"
    [] pc = "after" -> "history"

NoCopyDue ==
  /\ pc \in {"unloaded", "before", "after"} /\ copy = {} /\ ~CopyDue
  /\ pc' = Following
  /\ UNCHANGED <<files, copy, job, protect, ambient, left, since, missed>>

\* The name of a copy sorts after every older one even if the clock went back.
NextStamp ==
  IF Dir # {} /\ Newest(Dir).stamp >= now THEN Newest(Dir).stamp + 1 ELSE now

\* The pending file: copied and synced before its name is published.
StartCopy ==
  /\ copy = {} /\ CopyDue
  /\ copy' = {[dir |-> DirName, what |-> session, stamp |-> NextStamp, mtime |-> now]}
  /\ UNCHANGED <<files, pc, job, protect, ambient, left, since, missed>>

PublishCopy ==
  /\ copy # {} /\ ~(copy \subseteq Dir)
  /\ SetDir(Dir \cup copy) /\ unsynced' = unsynced \cup copy
  /\ UNCHANGED <<session, onDisk, history, tmp, copy, pc, job, protect, ambient, left, since, missed>>

\* Both directories are synced, and with the outer one whatever was done to
\* session.json.
SyncCopy ==
  /\ copy # {} /\ copy \subseteq unsynced
  /\ unsynced' = unsynced \ Dir /\ onDisk' = {session}
  /\ UNCHANGED <<session, backups, snapshots, history, tmp, copy, pc, job, protect, ambient, left, since, missed>>

\* Mutant: the copy just made is not among the ones kept.
KeepOneLess == IF pc = "unloaded" THEN BackupLimit - 1 ELSE SnapshotLimit - 1

\* Mutant: the copy just made is not counted.
KeepOneMore == IF pc = "unloaded" THEN BackupLimit + 1 ELSE SnapshotLimit + 1


Keep == IF pc = "unloaded" THEN BackupLimit ELSE SnapshotLimit

Oldest(n, dir) == {c \in dir : Cardinality({d \in dir : d.stamp < c.stamp}) < n}

\* prune_backups goes past a copy it cannot remove.  When it cannot remove
\* enough, a snapshot is given up and a backup is kept.
PruneCopies ==
  /\ copy # {} /\ copy \subseteq Dir \ unsynced
  /\ LET older == Dir \ copy
         excess == Max({0, Cardinality(older) - (Keep - 1)})
     IN \E stuck \in SUBSET older :
          /\ Cardinality(stuck) <= 1
          /\ IF stuck = {} THEN UNCHANGED left ELSE excess > 0 /\ Spend("faults")
          /\ LET kept == Dir \ Oldest(excess, older \ stuck)
                 failed == pc # "unloaded" /\ Cardinality(older \ stuck) < excess
             IN /\ SetDir(IF failed THEN kept \ copy ELSE kept)
                /\ missed' = IF pc = "unloaded" THEN missed ELSE failed
  /\ copy' = {} /\ pc' = Following
  /\ protect' = (protect /\ pc # "unloaded")
  /\ UNCHANGED <<session, onDisk, unsynced, history, tmp, job, ambient, since>>

\* Mutant: the job goes on without the backup.
CopyFailsAnyway ==
  /\ \/ copy = {} /\ CopyDue
     \/ copy # {} /\ ~(copy \subseteq Dir \ unsynced)
  /\ Spend("faults")
  /\ SetDir(Dir \ copy) /\ unsynced' = unsynced \ copy
  /\ copy' = {} /\ pc' = Following
  /\ missed' = (missed \/ pc # "unloaded")
  /\ UNCHANGED <<session, onDisk, history, tmp, job, protect, ambient, since>>

\* Any operation on a copy may fail: the copy is removed.  Without its backup an
\* unloaded session is not touched; without its snapshot the job goes on.
CopyFails ==
  /\ \/ copy = {} /\ CopyDue
     \/ copy # {} /\ ~(copy \subseteq Dir \ unsynced)
  /\ Spend("faults")
  /\ SetDir(Dir \ copy) /\ unsynced' = unsynced \ copy
  /\ copy' = {} /\ pc' = IF pc = "unloaded" THEN "idle" ELSE Following
  /\ missed' = (missed \/ pc # "unloaded")
  /\ UNCHANGED <<session, onDisk, history, tmp, job, protect, ambient, since>>

----------------------------------------------------------------------------
\* Mutant: the temporary file is not synced.
WriteTemporaryUnsynced ==
  /\ pc = "write"
  /\ tmp' = "written" /\ pc' = "rename"
  /\ UNCHANGED <<session, onDisk, backups, snapshots, unsynced, history>>
  /\ UNCHANGED <<copy, job, protect, ambient, left, since, missed>>

\* save_json_to_path: the temporary file is written and synced ...
WriteTemporary ==
  /\ pc = "write"
  /\ tmp' = "synced" /\ pc' = "rename"
  /\ UNCHANGED <<session, onDisk, backups, snapshots, unsynced, history>>
  /\ UNCHANGED <<copy, job, protect, ambient, left, since, missed>>

\* ... renamed over session.json ...
ReplaceFile ==
  /\ pc = "rename"
  /\ session' = job /\ tmp' = "none"
  /\ onDisk' = onDisk \cup {job} \cup (IF tmp = "synced" THEN {} ELSE {"torn"})
  /\ pc' = "syncDir" /\ since' = now
  /\ UNCHANGED <<backups, snapshots, unsynced, history, copy, job, protect, ambient, left, missed>>

\* Mutant: the directory is not synced.
SyncDirectorySkipped ==
  /\ pc = "syncDir"
  /\ protect' = FALSE /\ pc' = "after"
  /\ UNCHANGED <<files, copy, job, ambient, left, since, missed>>

\* ... and the directory is synced.  Only then is the layout ours.
SyncDirectory ==
  /\ pc = "syncDir"
  /\ onDisk' = {session} /\ protect' = FALSE /\ pc' = "after"
  /\ UNCHANGED <<session, backups, snapshots, unsynced, history, tmp>>
  /\ UNCHANGED <<copy, job, ambient, left, since, missed>>

\* clear_path
RemoveFile ==
  /\ pc = "remove"
  /\ session' = "absent" /\ onDisk' = onDisk \cup {"absent"}
  /\ since' = now /\ pc' = "history"
  /\ UNCHANGED <<backups, snapshots, unsynced, history, tmp, copy, job, protect, ambient, left, missed>>

\* A failed step of the save or clear itself ends the job where it stands.
WriteFails ==
  /\ pc \in {"write", "rename", "syncDir", "remove"} /\ Spend("faults")
  /\ tmp' = "none" /\ pc' = "idle" /\ missed' = (missed \/ pc = "syncDir")
  /\ UNCHANGED <<session, onDisk, backups, snapshots, unsynced, history>>
  /\ UNCHANGED <<copy, job, protect, ambient, since>>

\* The screen history follows the layout; its failure fails nothing.
WriteHistory ==
  /\ pc = "history"
  /\ \/ history' = (IF job = "clear" THEN "absent" ELSE job) /\ UNCHANGED left
     \/ UNCHANGED history /\ Spend("faults")
  /\ acked' = IF job = "clear" THEN "none" ELSE job
  /\ pc' = "idle"
  /\ UNCHANGED <<session, onDisk, backups, snapshots, unsynced, tmp>>
  /\ UNCHANGED <<copy, job, protect, now, unloaded, since, missed>>

----------------------------------------------------------------------------
Next ==
  \/ Load \/ Stop \/ Replace \/ Arrives \/ Tick \/ ClockGoesBack \/ Crash
  \/ Begin \/ NoCopyDue \/ StartCopy \/ PublishCopy \/ SyncCopy
  \/ PruneCopies \/ CopyFails
  \/ WriteTemporary \/ ReplaceFile \/ SyncDirectory \/ RemoveFile
  \/ WriteFails \/ WriteHistory

Spec == Init /\ [][Next]_vars
----------------------------------------------------------------------------
Flags == protect \in BOOLEAN /\ missed \in BOOLEAN

Shapes ==
  /\ session \in Contents /\ onDisk \subseteq Contents
  /\ backups \subseteq CopiesIn("backups") /\ snapshots \subseteq CopiesIn("snapshots")
  /\ unsynced \subseteq CopiesIn("backups") \cup CopiesIn("snapshots")
  /\ copy \subseteq CopiesIn(DirName) /\ \A c, d \in copy : c = d
  /\ history \in Layouts \cup {"absent"} /\ tmp \in {"none", "written", "synced"}
  /\ pc \in {"down", "idle", "unloaded", "before", "write", "rename", "syncDir",
            "remove", "after", "history"}
  /\ job \in Layouts \cup {"clear"}
  /\ now \in 0..MaxTime /\ since \in 0..MaxTime
  /\ left \in [DOMAIN Bounds -> Nat]
  /\ unloaded \in Contents \cup {"none"} /\ acked \in Layouts \cup {"none"}

\* Every variable keeps its type, for any sequence of saves, clears and crashes.
TypeOK == Flags /\ Shapes

\* save_json_to_path syncs the temporary file before the rename: whenever the
\* power fails, session.json is a complete file, the old or the new one.
NeverTorn == "torn" \notin onDisk

Durable(dir) == {c.what : c \in dir \ unsynced}

Kept == unloaded # "none" => onDisk = {unloaded} \/ unloaded \in Durable(backups)

\* preserve_unloaded: what a server found at start-up and could not load is still
\* there, in session.json or in session-backups, through saves, clears, failing
\* copies, prunes, crashes, power losses and restarts, until someone replaces it,
\* a later server finds something else it cannot load, or a handoff intervenes.
UnloadedIsKept == left.handoffs = Handoffs => Kept

\* What session-state.mdx says without an exception: "Before saving or clearing
\* the replacement session, it preserves the original bytes".
OriginalIsPreserved == Kept

\* Once save has returned without an error, a power loss leaves that layout in
\* session.json, until the next save or clear.
AckedSaveIsDurable == acked # "none" => onDisk = {acked}

ReplacedIsNewest ==
  /\ pc \in {"rename", "remove"} /\ pc' \in {"syncDir", "history"}
  /\ session \in Layouts /\ session' # session
  /\ now - since >= Interval /\ ~missed
  => snapshots # {} /\ Newest(snapshots).what = session

\* preserve_snapshot_history: a layout that was in session.json for the whole
\* interval is the newest snapshot when a save or clear replaces it, wherever
\* the clock went meanwhile (a snapshot that failed is made up for by the next).
LongLivedLayoutIsKept == [][ReplacedIsNewest]_vars

\* preserve_existing_in: there are never more snapshots than the limit, but for
\* one while a copy is not yet pruned and one for each crash at that point,
\* although a snapshot that cannot be pruned for is published first.
SnapshotsBounded ==
  Cardinality(snapshots) <=
    SnapshotLimit + (Crashes - left.crashes) + Cardinality(copy)

EnoughRemain ==
  \A c \in backups \ (backups' \cup unsynced) :
    Cardinality({d \in backups' \ unsynced' :
                   left' # left \/ d.stamp > c.stamp}) >= BackupLimit

\* prune_backups removes a recovery copy only when the limit's worth of durable
\* ones remains; they are the most recent, whichever way the clock was set,
\* unless a removal failed, when a newer copy goes in place of the stuck one.
PruneKeepsEnough == [][EnoughRemain]_vars

============================================================================
