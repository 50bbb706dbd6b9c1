------------------------- MODULE SessionWriter_proof -------------------------
(* Proofs about SessionWriter, for any layouts, limits, interval and clock,   *)
(* and for any number of jobs, crashes, faults, clock rollbacks and handoffs. *)
EXTENDS SessionWriter, FiniteSetTheorems, TLAPS

(* The inductive invariant, in layers above the types. *)

\* Among any copies of a directory one is the newest, and no two have the same
\* stamp.
Ranked(dir) ==
  /\ \A S \in SUBSET dir : S # {} => \E c \in S : \A d \in S : d.stamp <= c.stamp
  /\ \A c, d \in dir : c.stamp = d.stamp => c = d

\* The two directories are finite and ranked.  A copy is made of session.json, by
\* a step that makes copies, and sorts after the ones already there; once it is
\* synced, nothing else of its directory is left unsynced.
Dirs ==
  /\ IsFiniteSet(backups) /\ IsFiniteSet(snapshots)
  /\ Ranked(backups) /\ Ranked(snapshots)
  /\ copy # {} => pc \in {"unloaded", "before", "after"}
  /\ \A c \in copy : c.what = session /\ \A d \in Dir \ copy : d.stamp < c.stamp
  /\ copy # {} /\ copy \subseteq Dir \ unsynced => Dir \cap unsynced = {}

\* What the step of a save says of its files.
Stage ==
  /\ session \in onDisk
  /\ pc \in {"write", "rename", "syncDir", "after"} => job \in Layouts
  /\ pc = "remove" => job = "clear"
  /\ pc = "rename" => tmp = "synced"
  /\ pc \in {"syncDir", "after"} => session = job /\ since = now
  /\ (pc = "after" \/ (pc = "history" /\ job # "clear")) => onDisk = {job}
  /\ acked # "none" => onDisk = {acked} /\ pc \in {"idle", "down"}

\* Where what was not loaded is safe.  While the writer protects it, it is in
\* session.json and no job has gone past the backup.
Protected ==
  /\ unloaded # "absent" /\ left.handoffs <= Handoffs
  /\ protect => pc # "down"
  /\ copy # {} /\ pc = "unloaded" => protect
  /\ left.handoffs = Handoffs /\ unloaded # "none" =>
       IF protect THEN onDisk = {unloaded} /\ pc \in {"idle", "unloaded"}
       ELSE \/ unloaded \in Durable(backups)
            \/ pc = "down" /\ onDisk = {unloaded}

\* How many snapshots there are besides the one being made.
Bounded ==
  /\ left.crashes <= Crashes
  /\ Cardinality(snapshots \ copy) <= SnapshotLimit + (Crashes - left.crashes)

\* The newest snapshot holds the layout of session.json, or one that the clock
\* puts no later than the moment session.json last changed.
Aged ==
  ~missed =>
    /\ snapshots \cap unsynced \subseteq copy
    /\ session \in Layouts /\ pc \notin {"syncDir", "after"} =>
         \E c \in snapshots : /\ \A d \in snapshots : d.stamp <= c.stamp
                              /\ c.what = session \/ c.mtime <= since
    /\ session \in Layouts /\ pc \in {"write", "rename", "remove"} /\ now - since >= Interval =>
         \E c \in snapshots : /\ \A d \in snapshots : d.stamp <= c.stamp
                              /\ c.what = session

IInv == Flags /\ Shapes /\ Dirs /\ Stage /\ NeverTorn /\ Protected /\ Bounded /\ Aged

-----------------------------------------------------------------------------
(* Facts about copies ordered by their stamps. *)

Stamped(dir) == \A c \in dir : c.stamp \in Nat

\* Some copies of a ranked directory are ranked.
LEMMA RankedSubset ==
  ASSUME NEW dir, Ranked(dir), NEW T \in SUBSET dir
  PROVE  Ranked(T)
  BY DEF Ranked

\* A ranked directory stays ranked when a copy is added that sorts last.
LEMMA RankedAdd ==
  ASSUME NEW dir, Ranked(dir), Stamped(dir),
         NEW c, c.stamp \in Nat, \A d \in dir : d.stamp < c.stamp
  PROVE  Ranked(dir \cup {c})
<1>1. ASSUME NEW S \in SUBSET (dir \cup {c}), S # {}
      PROVE  \E e \in S : \A d \in S : d.stamp <= e.stamp
  <2>1. CASE c \in S
    <3>1. \A d \in S : d.stamp <= c.stamp
      BY DEF Stamped
    <3>2. QED
      BY <2>1, <3>1
  <2>2. CASE c \notin S
    BY <1>1, <2>2 DEF Ranked
  <2>3. QED
    BY <2>1, <2>2
<1>2. ASSUME NEW e \in dir \cup {c}, NEW d \in dir \cup {c}, e.stamp = d.stamp
      PROVE  e = d
  BY <1>2 DEF Ranked, Stamped
<1>3. QED
  BY <1>1, <1>2 DEF Ranked

\* The newest copy of a ranked directory is the one no other sorts after.
LEMMA NewestExists ==
  ASSUME NEW dir, Ranked(dir), dir # {}
  PROVE  Newest(dir) \in dir /\ \A d \in dir : d.stamp <= Newest(dir).stamp
<1>1. \E c \in dir : \A d \in dir : d.stamp <= c.stamp
  BY DEF Ranked
<1>2. QED
  BY <1>1 DEF Newest

\* No other copy is the newest.
LEMMA NewestUnique ==
  ASSUME NEW dir, Ranked(dir), Stamped(dir),
         NEW c \in dir, \A d \in dir : d.stamp <= c.stamp
  PROVE  Newest(dir) = c
<1>1. Newest(dir) \in dir /\ c.stamp <= Newest(dir).stamp
  BY NewestExists
<1>2. Newest(dir).stamp = c.stamp
  BY <1>1 DEF Stamped
<1>3. QED
  BY <1>1, <1>2 DEF Ranked

\* The number of older copies: different for each copy, and less than their
\* number altogether.
Older(c, dir) == {d \in dir : d.stamp < c.stamp}

LEMMA OlderCount ==
  ASSUME NEW dir, IsFiniteSet(dir), Ranked(dir), Stamped(dir),
         NEW c \in dir
  PROVE  /\ IsFiniteSet(Older(c, dir))
         /\ Cardinality(Older(c, dir)) \in 0..(Cardinality(dir) - 1)
         /\ \A d \in dir : d.stamp < c.stamp =>
              Cardinality(Older(d, dir)) < Cardinality(Older(c, dir))
<1>1. ASSUME NEW e \in dir
      PROVE  IsFiniteSet(Older(e, dir)) /\ Cardinality(Older(e, dir)) \in Nat
  <2>1. Older(e, dir) \in SUBSET dir
    BY DEF Older
  <2>2. QED
    BY <2>1, FS_Subset, FS_CardinalityType
<1>2. Older(c, dir) \cup {c} \in SUBSET dir /\ c \notin Older(c, dir)
  BY DEF Older, Stamped
<1>3. Cardinality(Older(c, dir) \cup {c}) = Cardinality(Older(c, dir)) + 1
  BY <1>1, <1>2, FS_AddElement
<1>4. Cardinality(Older(c, dir)) + 1 <= Cardinality(dir) /\ Cardinality(dir) \in Nat
  BY <1>2, <1>3, FS_Subset, FS_CardinalityType
<1>5. ASSUME NEW d \in dir, d.stamp < c.stamp
      PROVE  Cardinality(Older(d, dir)) < Cardinality(Older(c, dir))
  <2>1. Older(d, dir) \cup {d} \in SUBSET Older(c, dir) /\ d \notin Older(d, dir)
    BY <1>5 DEF Older, Stamped
  <2>2. Cardinality(Older(d, dir) \cup {d}) = Cardinality(Older(d, dir)) + 1
    BY <1>1, <2>1, FS_AddElement
  <2>3. Cardinality(Older(d, dir)) + 1 <= Cardinality(Older(c, dir))
    BY <1>1, <2>1, <2>2, FS_Subset
  <2>4. QED
    BY <1>1, <2>3
<1>6. QED
  BY <1>1, <1>4, <1>5

\* The oldest n copies are n copies, or all of them when there are fewer, and
\* any other copy is newer than each of them.
LEMMA OldestCount ==
  ASSUME NEW dir, IsFiniteSet(dir), Ranked(dir), Stamped(dir), NEW n \in Nat
  PROVE  /\ Oldest(n, dir) \in SUBSET dir
         /\ n <= Cardinality(dir) => Cardinality(Oldest(n, dir)) = n
         /\ Cardinality(dir) <= n => Oldest(n, dir) = dir
         /\ \A c \in Oldest(n, dir), d \in dir \ Oldest(n, dir) : c.stamp < d.stamp
<1> DEFINE size == Cardinality(dir)
           rank == [c \in dir |-> Cardinality(Older(c, dir))]
<1>1. size \in Nat
  BY FS_CardinalityType
<1>2. Oldest(n, dir) = {c \in dir : rank[c] < n}
  BY DEF Oldest, Older
<1>3. rank \in [dir -> 0..(size - 1)]
  BY OlderCount
<1>4. \A c, d \in dir : d.stamp < c.stamp => rank[d] < rank[c]
  BY OlderCount
<1>5. rank \in Injection(dir, 0..(size - 1))
  <2>1. ASSUME NEW c \in dir, NEW d \in dir, rank[c] = rank[d] PROVE c = d
    <3>1. c.stamp = d.stamp
      BY <1>1, <1>3, <1>4, <2>1 DEF Stamped
    <3>2. QED
      BY <3>1 DEF Ranked
  <2>2. QED
    BY <1>3, <2>1 DEF Injection, IsInjective
<1>6. IsFiniteSet(0..(size - 1)) /\ Cardinality(0..(size - 1)) = size
  BY <1>1, FS_Interval
<1>7. rank \in Surjection(dir, 0..(size - 1))
  BY <1>5, <1>6, FS_Injection
<1>8. n <= size => Cardinality(Oldest(n, dir)) = n
  <2> SUFFICES ASSUME n <= size PROVE Cardinality(Oldest(n, dir)) = n
    OBVIOUS
  <2> DEFINE part == [c \in Oldest(n, dir) |-> rank[c]]
  <2>1. part \in [Oldest(n, dir) -> 0..(n - 1)]
    BY <1>1, <1>2, <1>3
  <2>2. \A c, d \in Oldest(n, dir) : part[c] = part[d] => c = d
    BY <1>2, <1>5 DEF Injection, IsInjective
  <2>3. \A k \in 0..(n - 1) : \E c \in Oldest(n, dir) : part[c] = k
    <3> SUFFICES ASSUME NEW k \in 0..(n - 1)
                 PROVE  \E c \in Oldest(n, dir) : part[c] = k
      OBVIOUS
    <3>1. k \in 0..(size - 1)
      BY <1>1
    <3>2. PICK c \in dir : rank[c] = k
      BY <1>7, <3>1 DEF Surjection
    <3>3. c \in Oldest(n, dir)
      BY <1>2, <3>2
    <3>4. QED
      BY <3>2, <3>3
  <2>4. part \in Injection(Oldest(n, dir), 0..(n - 1)) /\ part \in Surjection(Oldest(n, dir), 0..(n - 1))
    BY <2>1, <2>2, <2>3 DEF Injection, IsInjective, Surjection
  <2>5. IsFiniteSet(0..(n - 1)) /\ Cardinality(0..(n - 1)) = n
    BY FS_Interval
  <2>6. QED
    BY <2>4, <2>5, FS_Injection
<1>9. size <= n => Oldest(n, dir) = dir
  BY <1>1, <1>2, <1>3
<1>10. ASSUME NEW c \in Oldest(n, dir), NEW d \in dir \ Oldest(n, dir)
       PROVE  c.stamp < d.stamp
  <2>1. rank[c] < n /\ ~(rank[d] < n) /\ c \in dir /\ d \in dir
    BY <1>2
  <2>2. c.stamp \in Nat /\ d.stamp \in Nat /\ rank[c] \in Int /\ rank[d] \in Int
    BY <1>3, <2>1 DEF Stamped
  <2>3. CASE c.stamp = d.stamp
    BY <2>1, <2>3 DEF Ranked
  <2>4. CASE d.stamp < c.stamp
    BY <1>4, <2>1, <2>2, <2>4
  <2>5. QED
    BY <2>2, <2>3, <2>4
<1>11. Oldest(n, dir) \in SUBSET dir
  BY <1>2
<1>12. QED
  BY <1>8, <1>9, <1>10, <1>11

-----------------------------------------------------------------------------
(* The steps. *)

\* What spending a bound does.
LEMMA Spending ==
  ASSUME left \in [DOMAIN Bounds -> Nat], NEW what \in DOMAIN Bounds, Spend(what)
  PROVE  /\ left' \in [DOMAIN Bounds -> Nat]
         /\ left'[what] < left[what]
         /\ \A k \in DOMAIN Bounds \ {what} : left'[k] = left[k]
  BY DEF Spend

\* The bounds there are.
LEMMA BoundNames ==
  DOMAIN Bounds = {"jobs", "crashes", "faults", "rollbacks", "handoffs"}
  BY DEF Bounds

\* No step gives back what was spent.
LEMMA BoundsShrink ==
  ASSUME left \in [DOMAIN Bounds -> Nat], [Next]_vars
  PROVE  /\ left' \in [DOMAIN Bounds -> Nat]
         /\ \A k \in DOMAIN Bounds : left'[k] <= left[k]
<1>1. CASE UNCHANGED left
  BY <1>1
<1>2. CASE \E what \in DOMAIN Bounds : Spend(what)
  BY <1>2, Spending
<1>3. QED
  BY <1>1, <1>2, BoundNames
  DEF Next, vars, ambient, Load, Stop, Replace, Arrives, Tick, ClockGoesBack, Crash, Begin,
      NoCopyDue, StartCopy, PublishCopy, SyncCopy, PruneCopies, CopyFails, WriteTemporary,
      ReplaceFile, SyncDirectory, RemoveFile, WriteFails, WriteHistory

\* The flags stay Booleans.
LEMMA FlagsStep == Flags /\ [Next]_vars => Flags'
<1> SUFFICES ASSUME Flags, [Next]_vars PROVE Flags'
  OBVIOUS
<1> USE DEF Flags
<1>1. CASE Load
  BY <1>1 DEF Load
<1>2. CASE Stop \/ Replace \/ Tick \/ ClockGoesBack
  BY <1>2 DEF Stop, Replace, Tick, ClockGoesBack
<1>3. CASE Arrives
  BY <1>3 DEF Arrives
<1>4. CASE Crash
  BY <1>4 DEF Crash
<1>5. CASE Begin \/ NoCopyDue \/ StartCopy \/ PublishCopy \/ SyncCopy
  BY <1>5 DEF Begin, NoCopyDue, StartCopy, PublishCopy, SyncCopy
<1>6. CASE PruneCopies
  BY <1>6 DEF PruneCopies
<1>7. CASE CopyFails
  BY <1>7 DEF CopyFails
<1>8. CASE WriteTemporary \/ ReplaceFile \/ SyncDirectory \/ RemoveFile \/ WriteHistory
  BY <1>8 DEF WriteTemporary, ReplaceFile, SyncDirectory, RemoveFile, WriteHistory
<1>9. CASE WriteFails
  BY <1>9 DEF WriteFails
<1>10. CASE UNCHANGED vars
  BY <1>10 DEF vars
<1>11. QED
  BY <1>1, <1>2, <1>3, <1>4, <1>5, <1>6, <1>7, <1>8, <1>9, <1>10 DEF Next

\* A directory that is ranked gives the next copy a stamp of its own.
LEMMA StampIsNew ==
  ASSUME Shapes, Dirs
  PROVE  NextStamp \in Nat /\ \A d \in Dir : d.stamp < NextStamp
<1>1. Stamped(Dir) /\ Ranked(Dir) /\ now \in Nat
  BY WriterAssumption DEF WriterAssumption, Shapes, Dirs, Dir, CopiesIn, Stamped
<1>2. CASE Dir = {}
  BY <1>1, <1>2 DEF NextStamp
<1>3. CASE Dir # {}
  <2>1. Newest(Dir) \in Dir /\ \A d \in Dir : d.stamp <= Newest(Dir).stamp
    BY <1>1, <1>3, NewestExists
  <2>2. QED
    BY <1>1, <1>3, <2>1 DEF NextStamp, Stamped
<1>4. QED
  BY <1>2, <1>3

\* The steps that make copies, and the step after them.
LEMMA CopyPlace ==
  ASSUME Dirs, NoCopyDue \/ StartCopy \/ PublishCopy \/ SyncCopy \/ PruneCopies \/ CopyFails
  PROVE  /\ pc \in {"unloaded", "before", "after"}
         /\ pc = "unloaded" => Following = "before"
         /\ pc = "before" => Following = IF job = "clear" THEN "remove" ELSE "write"
         /\ pc = "after" => Following = "history"
<1>1. pc \in {"unloaded", "before", "after"}
  BY DEF Dirs, NoCopyDue, StartCopy, PublishCopy, SyncCopy, PruneCopies, CopyFails, CopyDue
<1>2. QED
  BY <1>1 DEF Following

\* Every variable but the flags keeps its type.
LEMMA ShapesStep == Shapes /\ Dirs /\ Stage /\ [Next]_vars => Shapes'
<1> SUFFICES ASSUME Shapes, Dirs, Stage, [Next]_vars PROVE Shapes'
  OBVIOUS
<1> DEFINE Rest == /\ history \in Layouts \cup {"absent"} /\ tmp \in {"none", "written", "synced"}
                   /\ pc \in {"down", "idle", "unloaded", "before", "write", "rename",
                              "syncDir", "remove", "after", "history"}
                   /\ job \in Layouts \cup {"clear"}
                   /\ now \in 0..MaxTime /\ since \in 0..MaxTime
                   /\ session \in Contents /\ onDisk \subseteq Contents
                   /\ unloaded \in Contents \cup {"none"} /\ acked \in Layouts \cup {"none"}
           Copied == /\ backups \subseteq CopiesIn("backups")
                     /\ snapshots \subseteq CopiesIn("snapshots")
                     /\ unsynced \subseteq CopiesIn("backups") \cup CopiesIn("snapshots")
                     /\ copy \subseteq CopiesIn(DirName) /\ \A c, d \in copy : c = d
           Counted == left \in [DOMAIN Bounds -> Nat]
<1>1. Rest /\ Copied /\ Counted
  BY DEF Shapes
<1> HIDE DEF Counted
<1>2. Counted'
  BY <1>1, BoundsShrink DEF Counted
<1>3. Rest'
  <2>1. CASE Load
    BY <1>1, <2>1 DEF Load, Contents, files
  <2>2. CASE Stop \/ Replace \/ Tick \/ ClockGoesBack
    BY <1>1, <2>2, WriterAssumption DEF WriterAssumption, Stop, Replace, Tick, ClockGoesBack, files
  <2>3. CASE Arrives
    BY <1>1, <2>3 DEF Arrives, Contents
  <2>4. CASE Crash
    BY <1>1, <2>4 DEF Crash, files
  <2>5. CASE Begin \/ StartCopy \/ PublishCopy \/ SyncCopy
    BY <1>1, <2>5 DEF Begin, StartCopy, PublishCopy, SyncCopy, files, ambient
  <2>6. CASE NoCopyDue
    BY <1>1, <2>6, CopyPlace DEF NoCopyDue, files, ambient
  <2>7. CASE PruneCopies
    BY <1>1, <2>7, CopyPlace DEF PruneCopies, ambient
  <2>8. CASE CopyFails
    BY <1>1, <2>8, CopyPlace DEF CopyFails, ambient
  <2>9. CASE WriteTemporary \/ SyncDirectory \/ WriteFails
    BY <1>1, <2>9 DEF WriteTemporary, SyncDirectory, WriteFails, ambient
  <2>10. CASE ReplaceFile
    BY <1>1, <2>10 DEF ReplaceFile, Stage, Contents, ambient
  <2>11. CASE RemoveFile \/ WriteHistory
    BY <1>1, <2>11 DEF RemoveFile, WriteHistory, Contents, ambient
  <2>12. QED
    BY <1>1, <2>1, <2>2, <2>3, <2>4, <2>5, <2>6, <2>7, <2>8, <2>9, <2>10, <2>11 DEF Next, vars, files
<1>4. Copied'
  <2>1. CASE UNCHANGED <<backups, snapshots, unsynced, copy, pc>>
    BY <1>1, <2>1 DEF DirName
  <2>2. CASE UNCHANGED <<backups, snapshots, unsynced, copy>> /\ copy = {}
    BY <1>1, <2>2
  <2>3. CASE Crash
    BY <1>1, <2>3 DEF Crash, files
  <2>4. CASE StartCopy
    <3>1. [dir |-> DirName, what |-> session, stamp |-> NextStamp, mtime |-> now] \in CopiesIn(DirName)
      BY <1>1, StampIsNew DEF CopiesIn
    <3>2. QED
      BY <1>1, <2>4, <3>1 DEF StartCopy, files, DirName
  <2>5. CASE PublishCopy
    BY <1>1, <2>5 DEF PublishCopy, SetDir, Dir, DirName
  <2>6. CASE SyncCopy
    BY <1>1, <2>6 DEF SyncCopy, DirName
  <2>7. CASE PruneCopies
    BY <1>1, <2>7 DEF PruneCopies, SetDir, Dir
  <2>8. CASE CopyFails
    BY <1>1, <2>8 DEF CopyFails, SetDir, Dir
  <2>9. QED
    BY <2>1, <2>2, <2>3, <2>4, <2>5, <2>6, <2>7, <2>8
    DEF Next, vars, files, Dirs, Load, Stop, Replace, Arrives, Tick, ClockGoesBack, Begin, NoCopyDue,
        WriteTemporary, ReplaceFile, SyncDirectory, RemoveFile, WriteFails, WriteHistory
<1>5. QED
  BY <1>2, <1>3, <1>4 DEF Shapes, Counted

\* How many copies are too many: never less than none.
LEMMA MaxZero ==
  ASSUME NEW k \in Int
  PROVE  Max({0, k}) = IF k > 0 THEN k ELSE 0
<1>1. \E x \in {0, k} : \A y \in {0, k} : x >= y
  OBVIOUS
<1>2. Max({0, k}) \in {0, k} /\ \A y \in {0, k} : Max({0, k}) >= y
  BY <1>1 DEF Max
<1>3. QED
  BY <1>2

\* The copies of the directory being worked on.
LEMMA DirShape ==
  ASSUME Shapes, Dirs
  PROVE  IsFiniteSet(Dir) /\ Ranked(Dir) /\ Stamped(Dir) /\ Stamped(copy)
  BY DEF Shapes, Dirs, Dir, CopiesIn, Stamped

\* What prune_backups leaves.  The copy just made stays, unless it is a snapshot
\* given up because too many older ones could not be removed; the snapshots are
\* then within the limit; and when a backup goes, the limit's worth of backups
\* stays, all of them newer unless a removal failed.
LEMMA PruneLeaves ==
  ASSUME Shapes, Dirs, PruneCopies
  PROVE  /\ pc = "unloaded" =>
              /\ backups' \subseteq backups /\ copy \subseteq backups'
              /\ snapshots' = snapshots
              /\ \A c \in backups \ backups' :
                   Cardinality({d \in backups' : left' # left \/ d.stamp > c.stamp}) >= BackupLimit
         /\ pc # "unloaded" =>
              /\ snapshots' \subseteq snapshots /\ backups' = backups
              /\ ~missed' => copy \subseteq snapshots'
              /\ Cardinality(snapshots') <= SnapshotLimit
<1> DEFINE older == Dir \ copy
           excess == Max({0, Cardinality(older) - (Keep - 1)})
<1> HIDE DEF older, excess
<1>1. PICK stuck \in SUBSET older :
        /\ Cardinality(stuck) <= 1
        /\ IF stuck = {} THEN UNCHANGED left ELSE excess > 0 /\ Spend("faults")
        /\ LET kept == Dir \ Oldest(excess, older \ stuck)
               failed == pc # "unloaded" /\ Cardinality(older \ stuck) < excess
           IN /\ SetDir(IF failed THEN kept \ copy ELSE kept)
              /\ missed' = IF pc = "unloaded" THEN missed ELSE failed
  BY DEF PruneCopies, older, excess
<1> DEFINE gone == Oldest(excess, older \ stuck)
           kept == Dir \ gone
           failed == pc # "unloaded" /\ Cardinality(older \ stuck) < excess
<1> HIDE DEF gone, kept, failed
<1>2. /\ SetDir(IF failed THEN kept \ copy ELSE kept)
      /\ missed' = IF pc = "unloaded" THEN missed ELSE failed
  BY <1>1 DEF gone, kept, failed
<1>3. PICK c0 : copy = {c0} /\ c0 \in Dir /\ Dir \cap unsynced = {}
  BY DEF PruneCopies, Shapes, Dirs
<1>4. /\ IsFiniteSet(Dir) /\ Ranked(Dir) /\ Stamped(Dir) /\ Cardinality(Dir) \in Nat
  BY DirShape, FS_CardinalityType
<1>5. /\ IsFiniteSet(older) /\ Cardinality(older) = Cardinality(Dir) - 1
      /\ Cardinality(older) \in Nat
  BY <1>3, <1>4, FS_RemoveElement, FS_CardinalityType DEF older
<1>6. /\ IsFiniteSet(older \ stuck) /\ Ranked(older \ stuck) /\ Stamped(older \ stuck)
      /\ Cardinality(older \ stuck) \in Nat /\ Cardinality(older \ stuck) <= Cardinality(older)
  <2>1. older \ stuck \in SUBSET Dir /\ older \ stuck \in SUBSET older
    BY DEF older
  <2>2. QED
    BY <1>4, <1>5, <2>1, RankedSubset, FS_Subset, FS_CardinalityType DEF Stamped
<1>7. /\ Keep \in Nat \ {0} /\ (pc = "unloaded" => Keep = BackupLimit)
      /\ (pc # "unloaded" => Keep = SnapshotLimit)
  BY WriterAssumption DEF WriterAssumption, Keep
<1>8. /\ excess \in Nat /\ (Cardinality(older) < Keep => excess = 0)
      /\ (~(Cardinality(older) < Keep) => excess = Cardinality(older) - (Keep - 1))
  <2>1. Cardinality(older) - (Keep - 1) \in Int
    BY <1>5, <1>7
  <2>2. excess = IF Cardinality(older) - (Keep - 1) > 0 THEN Cardinality(older) - (Keep - 1) ELSE 0
    BY <2>1, MaxZero DEF excess
  <2>3. QED
    BY <1>5, <1>7, <2>2
<1>9. /\ gone \in SUBSET (older \ stuck)
      /\ excess <= Cardinality(older \ stuck) => Cardinality(gone) = excess
      /\ Cardinality(older \ stuck) <= excess => gone = older \ stuck
      /\ \A c \in gone, d \in (older \ stuck) \ gone : c.stamp < d.stamp
  BY <1>6, <1>8, OldestCount DEF gone
<1>10. /\ copy \subseteq kept /\ kept \subseteq Dir
       /\ IsFiniteSet(kept) /\ Cardinality(kept) = Cardinality(Dir) - Cardinality(gone)
       /\ IsFiniteSet(gone) /\ Cardinality(gone) \in Nat
  <2>1. gone \in SUBSET Dir /\ Dir \cap gone = gone /\ gone \cap copy = {}
    BY <1>9 DEF older
  <2>2. IsFiniteSet(gone) /\ Cardinality(gone) \in Nat
    BY <1>4, <2>1, FS_Subset, FS_CardinalityType
  <2>3. IsFiniteSet(kept) /\ Cardinality(kept) = Cardinality(Dir) - Cardinality(gone)
    BY <1>4, <2>1, FS_Difference DEF kept
  <2>4. copy \subseteq kept /\ kept \subseteq Dir
    BY <1>3, <2>1 DEF kept
  <2>5. QED
    BY <2>2, <2>3, <2>4
<1>11. CASE pc = "unloaded"
  <2>1. backups' = kept /\ snapshots' = snapshots /\ Dir = backups
    BY <1>2, <1>11 DEF SetDir, Dir, failed
  <2>2. ASSUME NEW c \in backups \ backups'
        PROVE  Cardinality({d \in backups' : left' # left \/ d.stamp > c.stamp}) >= BackupLimit
    <3>1. c \in gone
      BY <2>1, <2>2 DEF kept
    <3>2. Cardinality(gone) <= excess
      BY <1>6, <1>8, <1>9
    <3>3. Cardinality(gone) # 0
      BY <1>10, <3>1, FS_EmptySet
    <3>4. Cardinality(kept) >= BackupLimit
      BY <1>4, <1>5, <1>7, <1>8, <1>10, <1>11, <3>2, <3>3
    <3>5. ASSUME NEW d \in kept, left' = left PROVE d.stamp > c.stamp
      <4>1. stuck = {}
        <5>1. left \in [DOMAIN Bounds -> Nat] /\ "faults" \in DOMAIN Bounds
          BY BoundNames DEF Shapes
        <5>2. Spend("faults") => left' # left
          BY <5>1, Spending
        <5>3. QED
          BY <1>1, <3>5, <5>2
      <4>2. CASE d \in copy
        BY <1>4, <1>9, <3>1, <4>2, DirShape DEF Dirs, older, Stamped
      <4>3. CASE d \notin copy
        <5>1. d \in (older \ stuck) \ gone /\ c \in Dir /\ d \in Dir
          BY <1>9, <3>1, <3>5, <4>1, <4>3 DEF kept, older
        <5>2. c.stamp < d.stamp /\ c.stamp \in Nat /\ d.stamp \in Nat
          BY <1>4, <1>9, <3>1, <5>1 DEF Stamped
        <5>3. QED
          BY <5>2
      <4>4. QED
        BY <4>2, <4>3
    <3>6. {d \in backups' : left' # left \/ d.stamp > c.stamp} = kept
      BY <2>1, <3>5
    <3>7. QED
      BY <3>4, <3>6
  <2>3. QED
    BY <1>10, <1>11, <2>1, <2>2
<1>12. CASE pc # "unloaded"
  <2>1. /\ snapshots' = (IF failed THEN kept \ copy ELSE kept)
        /\ backups' = backups /\ Dir = snapshots /\ missed' = failed
    BY <1>2, <1>12 DEF SetDir, Dir
  <2>2. CASE failed
    <3>1. gone = older \ stuck
      BY <1>6, <1>8, <1>9, <2>2 DEF failed
    <3>2. kept \ copy = stuck
      BY <1>1, <3>1 DEF kept, older
    <3>3. Cardinality(snapshots') <= SnapshotLimit
      <4>1. stuck \in SUBSET older /\ Cardinality(stuck) \in Nat
        BY <1>1, <1>5, FS_Subset, FS_CardinalityType
      <4>2. QED
        BY <1>1, <2>1, <2>2, <3>2, <4>1, WriterAssumption DEF WriterAssumption
    <3>4. QED
      BY <1>10, <1>12, <2>1, <2>2, <3>3
  <2>3. CASE ~failed
    <3>1. Cardinality(gone) = excess
      BY <1>6, <1>8, <1>9, <1>12, <2>3 DEF failed
    <3>2. Cardinality(kept) <= SnapshotLimit
      BY <1>4, <1>5, <1>7, <1>8, <1>10, <1>12, <3>1
    <3>3. QED
      BY <1>10, <1>12, <2>1, <2>3, <3>2
  <2>4. QED
    BY <2>2, <2>3
<1>13. QED
  BY <1>11, <1>12

\* The steps that touch recovery copies; the others leave them alone, and are
\* taken while no copy is being made.
LEMMA FileSteps ==
  ASSUME Dirs, [Next]_vars
  PROVE  \/ UNCHANGED vars
         \/ UNCHANGED <<backups, snapshots, unsynced, copy>> /\ copy = {}
         \/ Crash \/ StartCopy \/ PublishCopy \/ SyncCopy \/ PruneCopies \/ CopyFails
  BY DEF Next, vars, files, Dirs, Load, Stop, Replace, Arrives, Tick, ClockGoesBack, Begin,
         NoCopyDue, WriteTemporary, ReplaceFile, SyncDirectory, RemoveFile, WriteFails, WriteHistory

\* Removing copies leaves a directory finite and ranked.
LEMMA FewerCopies ==
  ASSUME NEW dir, IsFiniteSet(dir), Ranked(dir), NEW T \in SUBSET dir
  PROVE  IsFiniteSet(T) /\ Ranked(T)
  BY FS_Subset, RankedSubset

\* The directories stay finite and ranked, and the copy being made stays last.
LEMMA DirsStep == Shapes /\ Dirs /\ [Next]_vars => Dirs'
<1> SUFFICES ASSUME Shapes, Dirs, [Next]_vars PROVE Dirs'
  OBVIOUS
<1>1. CASE UNCHANGED vars
  BY <1>1 DEF vars, files, Dirs, Dir
<1>2. CASE UNCHANGED <<backups, snapshots, unsynced, copy>> /\ copy = {}
  BY <1>2 DEF Dirs
<1>3. CASE Crash
  <2>1. backups' \in SUBSET backups /\ snapshots' \in SUBSET snapshots /\ copy' = {}
    BY <1>3 DEF Crash, files
  <2>2. QED
    BY <2>1, FewerCopies DEF Dirs
<1>4. CASE StartCopy
  <2> DEFINE c == [dir |-> DirName, what |-> session, stamp |-> NextStamp, mtime |-> now]
  <2>1. /\ copy' = {c} /\ c.what = session /\ c.stamp = NextStamp
        /\ UNCHANGED <<backups, snapshots, unsynced, pc, session>> /\ Dir' = Dir
    BY <1>4 DEF StartCopy, files, Dir
  <2>2. \A d \in Dir : d.stamp < NextStamp
    BY StampIsNew
  <2>3. Stamped(Dir) /\ NextStamp \in Nat
    BY DirShape, StampIsNew
  <2>4. c \notin Dir
    BY <2>1, <2>2, <2>3
  <2>5. pc \in {"unloaded", "before", "after"}
    BY <1>4, CopyPlace
  <2> HIDE DEF c
  <2>6. QED
    BY <2>1, <2>2, <2>4, <2>5 DEF Dirs
<1>5. CASE PublishCopy
  <2>1. PICK c : copy = {c} /\ c \notin Dir
    BY <1>5 DEF PublishCopy, Shapes
  <2>2. /\ UNCHANGED <<copy, pc, session>> /\ unsynced' = unsynced \cup {c}
        /\ SetDir(Dir \cup {c})
    BY <1>5, <2>1 DEF PublishCopy
  <2>3. Dir' = Dir \cup {c}
    BY <2>2 DEF SetDir, Dir
  <2>4. IsFiniteSet(Dir \cup {c}) /\ Ranked(Dir \cup {c})
    <3>1. c.stamp \in Nat /\ \A d \in Dir : d.stamp < c.stamp
      BY <2>1, DirShape DEF Dirs, Stamped
    <3>2. QED
      BY <3>1, DirShape, RankedAdd, FS_AddElement
  <2>5. IsFiniteSet(backups') /\ IsFiniteSet(snapshots') /\ Ranked(backups') /\ Ranked(snapshots')
    BY <2>2, <2>4 DEF SetDir, Dir, Dirs
  <2>6. \A e \in copy' : e.what = session' /\ \A d \in Dir' \ copy' : d.stamp < e.stamp
    BY <2>1, <2>2, <2>3 DEF Dirs
  <2>7. QED
    BY <1>5, <2>1, <2>2, <2>5, <2>6, CopyPlace DEF Dirs
<1>6. CASE SyncCopy
  BY <1>6, CopyPlace DEF SyncCopy, Dirs, Dir
<1>7. CASE PruneCopies
  <2>1. backups' \in SUBSET backups /\ snapshots' \in SUBSET snapshots /\ copy' = {}
    BY <1>7, PruneLeaves DEF PruneCopies
  <2>2. QED
    BY <2>1, FewerCopies DEF Dirs
<1>8. CASE CopyFails
  <2>1. backups' \in SUBSET backups /\ snapshots' \in SUBSET snapshots /\ copy' = {}
    BY <1>8 DEF CopyFails, SetDir, Dir
  <2>2. QED
    BY <2>1, FewerCopies DEF Dirs
<1>9. QED
  BY <1>1, <1>2, <1>3, <1>4, <1>5, <1>6, <1>7, <1>8, FileSteps

\* Each step of a save leaves its files as the next one needs them, and no power
\* loss may leave a torn session.json.
LEMMA StageStep ==
  ASSUME Shapes, Dirs, Stage, NeverTorn, [Next]_vars
  PROVE  Stage' /\ NeverTorn'
<1> USE DEF Stage, NeverTorn
<1>1. CASE Load \/ Stop \/ Replace \/ Tick \/ ClockGoesBack \/ Begin
  BY <1>1, WriterAssumption
  DEF WriterAssumption, Shapes, Load, Stop, Replace, Tick, ClockGoesBack, Begin, files
<1>2. CASE Arrives
  BY <1>2, WriterAssumption DEF WriterAssumption, Arrives
<1>3. CASE Crash
  BY <1>3 DEF Crash, files
<1>4. CASE NoCopyDue \/ StartCopy \/ PublishCopy
  BY <1>4, CopyPlace DEF Shapes, NoCopyDue, StartCopy, PublishCopy, files, ambient
<1>5. CASE SyncCopy
  BY <1>5, CopyPlace DEF Shapes, SyncCopy, ambient
<1>6. CASE PruneCopies
  BY <1>6, CopyPlace DEF Shapes, PruneCopies, ambient
<1>7. CASE CopyFails
  BY <1>7, CopyPlace DEF Shapes, CopyFails, ambient
<1>8. CASE WriteTemporary \/ SyncDirectory \/ WriteFails
  BY <1>8 DEF WriteTemporary, SyncDirectory, WriteFails, ambient
<1>9. CASE ReplaceFile \/ RemoveFile
  BY <1>9, WriterAssumption DEF WriterAssumption, Shapes, ReplaceFile, RemoveFile, ambient
<1>10. CASE WriteHistory
  BY <1>10, WriterAssumption DEF WriterAssumption, Shapes, WriteHistory
<1>11. CASE UNCHANGED vars
  BY <1>11 DEF vars, files
<1>12. QED
  BY <1>1, <1>2, <1>3, <1>4, <1>5, <1>6, <1>7, <1>8, <1>9, <1>10, <1>11 DEF Next

\* What was not loaded stays safe: a backup is durable before the job goes on, and
\* a durable backup goes only while another is being made in its place.
LEMMA ProtectedStep ==
  ASSUME Flags, Shapes, Dirs, Stage, Protected, [Next]_vars
  PROVE  Protected'
<1> DEFINE Held == IF protect THEN onDisk = {unloaded} /\ pc \in {"idle", "unloaded"}
                   ELSE \/ unloaded \in Durable(backups)
                        \/ pc = "down" /\ onDisk = {unloaded}
<1>1. left'.handoffs <= left.handoffs /\ left'.handoffs \in Nat /\ left.handoffs \in Nat
  <2>1. left \in [DOMAIN Bounds -> Nat] /\ "handoffs" \in DOMAIN Bounds
    BY BoundNames DEF Shapes
  <2>2. QED
    BY <2>1, BoundsShrink
<1>2. Handoffs \in Nat /\ left.handoffs <= Handoffs
  BY WriterAssumption DEF WriterAssumption, Protected
<1>3. /\ unloaded' # "absent"
      /\ protect' => pc' # "down"
      /\ copy' # {} /\ pc' = "unloaded" => protect'
  <2> USE DEF Protected, Flags
  <2>1. CASE Load
    BY <2>1, WriterAssumption DEF WriterAssumption, Load, Dirs
  <2>2. CASE Stop \/ Replace \/ Tick \/ ClockGoesBack \/ Begin
    BY <2>2 DEF Stop, Replace, Tick, ClockGoesBack, Begin, Dirs, files
  <2>3. CASE Arrives
    BY <2>3, WriterAssumption DEF WriterAssumption, Arrives, Dirs
  <2>4. CASE Crash
    BY <2>4 DEF Crash
  <2>5. CASE NoCopyDue \/ PublishCopy \/ SyncCopy
    BY <2>5, CopyPlace DEF NoCopyDue, PublishCopy, SyncCopy, ambient, files
  <2>6. CASE StartCopy
    BY <2>6 DEF StartCopy, CopyDue, ambient, files
  <2>7. CASE PruneCopies
    BY <2>7, CopyPlace DEF PruneCopies, ambient
  <2>8. CASE CopyFails
    BY <2>8, CopyPlace DEF CopyFails, ambient
  <2>9. CASE WriteTemporary \/ ReplaceFile \/ SyncDirectory \/ RemoveFile \/ WriteFails \/ WriteHistory
    BY <2>9 DEF Dirs, WriteTemporary, ReplaceFile, SyncDirectory, RemoveFile, WriteFails, WriteHistory, ambient, files
  <2>10. CASE UNCHANGED vars
    BY <2>10 DEF vars, files
  <2>11. QED
    BY <2>1, <2>2, <2>3, <2>4, <2>5, <2>6, <2>7, <2>8, <2>9, <2>10 DEF Next
<1>4. ASSUME left'.handoffs = Handoffs, unloaded' # "none" PROVE Held'
  <2>1. left.handoffs = Handoffs /\ (unloaded # "none" => Held)
    BY <1>1, <1>2, <1>4 DEF Protected
  <2>2. (protect => pc # "down") /\ (copy # {} /\ pc = "unloaded" => protect)
    BY DEF Protected
  <2>3. CASE Load
    <3>1. pc = "down" /\ pc' = "idle" /\ UNCHANGED files
      BY <2>3 DEF Load
    <3>2. ~protect
      BY <2>2, <3>1
    <3>3. CASE ~protect'
      <4>1. unloaded' = unloaded /\ session # unloaded
        BY <1>4, <2>3, <3>3 DEF Load
      <4>2. unloaded \in Durable(backups)
        BY <1>4, <2>1, <3>2, <4>1 DEF Stage
      <4>3. QED
        BY <3>1, <3>3, <4>1, <4>2 DEF files, Durable
    <3>4. CASE protect'
      <4>1. onDisk = {session} /\ unloaded' = session
        BY <1>4, <2>3, <3>4 DEF Load
      <4>2. QED
        BY <3>1, <3>4, <4>1 DEF files
    <3>5. QED
      BY <3>3, <3>4
  <2>4. CASE Stop \/ Tick \/ ClockGoesBack \/ Begin
    BY <1>4, <2>1, <2>4 DEF Stop, Tick, ClockGoesBack, Begin, files, Durable, Flags
  <2>5. CASE Replace
    BY <2>1, <1>4, <2>5, Spending, BoundNames DEF Replace, Shapes
  <2>6. CASE Arrives
    BY <1>4, <2>6 DEF Arrives, Flags
  <2>7. CASE Crash
    BY <1>4, <2>1, <2>7 DEF Crash, files, Durable
  <2>8. CASE NoCopyDue
    BY <1>4, <2>1, <2>8, CopyPlace DEF NoCopyDue, CopyDue, files, ambient, Durable, Stage, Protected
  <2>9. CASE StartCopy
    BY <1>4, <2>1, <2>9 DEF StartCopy, files, ambient, Durable
  <2>10. CASE PublishCopy
    BY <1>4, <2>1, <2>2, <2>10, CopyPlace
    DEF PublishCopy, SetDir, Dir, DirName, ambient, Durable, Shapes, CopiesIn
  <2>11. CASE SyncCopy
    BY <1>4, <2>1, <2>11 DEF SyncCopy, ambient, Durable, Stage
  <2>12. CASE PruneCopies
    BY <1>4, <2>1, <2>2, <2>12, CopyPlace, PruneLeaves
    DEF PruneCopies, ambient, Durable, Dir, Dirs, Stage
  <2>13. CASE CopyFails
    BY <1>4, <2>1, <2>2, <2>13, CopyPlace
    DEF CopyFails, SetDir, Dir, ambient, Durable, CopyDue
  <2>14. CASE WriteTemporary \/ ReplaceFile \/ SyncDirectory \/ RemoveFile \/ WriteFails \/ WriteHistory
    <3>1. /\ UNCHANGED <<backups, unsynced, unloaded>> /\ pc \notin {"idle", "unloaded", "down"}
          /\ protect' => protect
      BY <2>14 DEF Flags, WriteTemporary, ReplaceFile, SyncDirectory, RemoveFile, WriteFails, WriteHistory, ambient, files
    <3>2. ~protect /\ unloaded \in Durable(backups)
      BY <1>4, <2>1, <3>1
    <3>3. QED
      BY <3>1, <3>2 DEF Durable
  <2>15. CASE UNCHANGED vars
    BY <1>4, <2>1, <2>15 DEF vars, files, Durable
  <2>16. QED
    BY <2>3, <2>4, <2>5, <2>6, <2>7, <2>8, <2>9, <2>10, <2>11, <2>12, <2>13, <2>14, <2>15 DEF Next
<1>5. QED
  BY <1>1, <1>2, <1>3, <1>4 DEF Protected

\* How many snapshots there are: pruning brings them back to the limit, and only
\* a crash may leave one more behind.
LEMMA BoundedStep ==
  ASSUME Shapes, Dirs, Bounded, [Next]_vars
  PROVE  Bounded'
<1>1. /\ left.crashes \in Nat /\ left'.crashes \in Nat /\ left'.crashes <= left.crashes
      /\ Crash => left'.crashes < left.crashes
  <2>1. left \in [DOMAIN Bounds -> Nat] /\ "crashes" \in DOMAIN Bounds
    BY BoundNames DEF Shapes
  <2>2. Crash => left'.crashes < left.crashes
    BY <2>1, Spending DEF Crash
  <2>3. QED
    BY <2>1, <2>2, BoundsShrink
<1>2. SnapshotLimit \in Nat /\ Crashes \in Nat
  BY WriterAssumption DEF WriterAssumption
<1>3. /\ IsFiniteSet(snapshots \ copy) /\ Cardinality(snapshots \ copy) \in Nat
  BY FS_Difference, FS_CardinalityType DEF Dirs
<1>4. CASE snapshots' \ copy' = snapshots \ copy
  <2>1. Cardinality(snapshots' \ copy') = Cardinality(snapshots \ copy)
    BY <1>4
  <2>2. QED
    BY <1>1, <1>2, <1>3, <2>1 DEF Bounded
<1>5. CASE Crash
  <2>1. snapshots' \in SUBSET snapshots /\ copy' = {}
    BY <1>5 DEF Crash, files
  <2>2. PICK c : copy \subseteq {c}
    BY DEF Shapes
  <2>3. /\ IsFiniteSet((snapshots \ copy) \cup {c})
        /\ Cardinality((snapshots \ copy) \cup {c}) <= Cardinality(snapshots \ copy) + 1
    <3> DEFINE rest == snapshots \ copy
    <3>1. IsFiniteSet(rest) /\ Cardinality(rest) \in Nat
      BY <1>3
    <3> HIDE DEF rest
    <3>2. IsFiniteSet(rest \cup {c}) /\ Cardinality(rest \cup {c}) <= Cardinality(rest) + 1
      BY <3>1, FS_AddElement
    <3>3. QED
      BY <3>2 DEF rest
  <2>4. snapshots' \ copy' \in SUBSET ((snapshots \ copy) \cup {c})
    BY <2>1, <2>2
  <2>5. /\ Cardinality(snapshots' \ copy') <= Cardinality((snapshots \ copy) \cup {c})
        /\ Cardinality(snapshots' \ copy') \in Nat /\ Cardinality((snapshots \ copy) \cup {c}) \in Nat
    BY <2>3, <2>4, FS_Subset, FS_CardinalityType
  <2>6. QED
    BY <1>1, <1>2, <1>3, <1>5, <2>3, <2>5 DEF Bounded
<1>6. CASE PruneCopies /\ pc # "unloaded"
  <2>1. copy' = {} /\ Cardinality(snapshots') <= SnapshotLimit
    BY <1>6, PruneLeaves DEF PruneCopies
  <2>2. IsFiniteSet(snapshots') /\ Cardinality(snapshots') \in Nat /\ snapshots' \ copy' = snapshots'
    BY <2>1, DirsStep, FS_CardinalityType DEF Dirs
  <2>3. QED
    BY <1>1, <1>2, <2>1, <2>2 DEF Bounded
<1>7. CASE pc = "unloaded" /\ (StartCopy \/ PublishCopy \/ SyncCopy \/ PruneCopies \/ CopyFails)
  <2>1. snapshots' = snapshots
    BY <1>7, PruneLeaves DEF StartCopy, PublishCopy, SyncCopy, CopyFails, SetDir, files
  <2>2. snapshots \cap copy = {} /\ snapshots' \cap copy' = {}
    <3>1. snapshots \cap copy = {}
      BY <1>7 DEF Shapes, CopiesIn, DirName
    <3>2. CASE StartCopy
      <4>1. \A c \in copy' : c.dir = "backups"
        BY <1>7, <3>2 DEF StartCopy, DirName
      <4>2. \A c \in snapshots : c.dir = "snapshots"
        BY DEF Shapes, CopiesIn
      <4>3. QED
        BY <2>1, <3>1, <4>1, <4>2
    <3>3. CASE copy' \subseteq copy
      BY <2>1, <3>1, <3>3
    <3>4. QED
      BY <1>7, <3>2, <3>3 DEF PublishCopy, SyncCopy, PruneCopies, CopyFails
  <2>3. snapshots' \ copy' = snapshots \ copy
    BY <2>1, <2>2
  <2>4. QED
    BY <1>4, <2>3
<1>8. CASE pc # "unloaded" /\ (StartCopy \/ PublishCopy \/ SyncCopy \/ CopyFails)
  <2>1. CASE StartCopy
    <3>1. copy = {} /\ snapshots' = snapshots /\ \A c \in copy' : c.stamp = NextStamp
      BY <2>1 DEF StartCopy, files
    <3>2. snapshots \cap copy' = {}
      BY <1>8, <3>1, StampIsNew, DirShape DEF Dir, Stamped
    <3>3. snapshots' \ copy' = snapshots \ copy
      BY <3>1, <3>2
    <3>4. QED
      BY <1>4, <3>3
  <2>2. CASE PublishCopy
    BY <1>4, <1>8, <2>2 DEF PublishCopy, SetDir, Dir
  <2>3. CASE SyncCopy
    BY <1>4, <2>3 DEF SyncCopy
  <2>4. CASE CopyFails
    BY <1>4, <1>8, <2>4 DEF CopyFails, SetDir, Dir
  <2>5. QED
    BY <1>8, <2>1, <2>2, <2>3, <2>4
<1>9. QED
  BY <1>4, <1>5, <1>6, <1>7, <1>8, FileSteps DEF vars, files

\* A copy that no other of its directory sorts after stays so when others go.
LastOf(c, dir) == c \in dir /\ \A d \in dir : d.stamp <= c.stamp

\* While a copy is in its directory it is the last one there.
LEMMA CopyIsLast ==
  ASSUME Shapes, Dirs, NEW c \in copy, c \in Dir
  PROVE  LastOf(c, Dir)
<1>1. \A d \in Dir : d.stamp \in Nat
  BY DirShape DEF Stamped
<1>2. \A d \in Dir : d \in copy => d = c
  BY DEF Shapes
<1>3. QED
  BY <1>1, <1>2 DEF LastOf, Dirs

\* What a snapshot that is not due says of the newest one.
LEMMA NotDue ==
  ASSUME Shapes, Dirs, session \in Layouts, ~SnapshotDue
  PROVE  \E c \in snapshots : /\ \A d \in snapshots : d.stamp <= c.stamp
                              /\ \/ c.what = session
                                 \/ c.mtime <= now /\ now - c.mtime < Interval
<1>1. snapshots # {}
  BY DEF SnapshotDue
<1>2. LET c == Newest(snapshots)
      IN  c \in snapshots /\ \A d \in snapshots : d.stamp <= c.stamp
  BY <1>1, NewestExists DEF Dirs
<1>3. LET c == Newest(snapshots)
      IN  c.what = session \/ (c.mtime <= now /\ now - c.mtime < Interval)
  <2>1. Newest(snapshots).mtime \in Int /\ now \in Int /\ Interval \in Int
    BY <1>2, WriterAssumption DEF WriterAssumption, Shapes, CopiesIn
  <2>2. QED
    BY <2>1 DEF SnapshotDue
<1>4. QED
  BY <1>2, <1>3

\* The newest snapshot keeps up with session.json.
LEMMA AgedStep ==
  ASSUME Flags, Shapes, Dirs, Stage, Aged, [Next]_vars
  PROVE  Aged'
<1> DEFINE Synced == snapshots \cap unsynced \subseteq copy
           Recent == session \in Layouts /\ pc \notin {"syncDir", "after"} =>
                       \E c \in snapshots : /\ \A d \in snapshots : d.stamp <= c.stamp
                                            /\ c.what = session \/ c.mtime <= since
           Sealed == session \in Layouts /\ pc \in {"write", "rename", "remove"} /\ now - since >= Interval =>
                       \E c \in snapshots : /\ \A d \in snapshots : d.stamp <= c.stamp
                                            /\ c.what = session
<1> SUFFICES ASSUME ~missed' PROVE Synced' /\ Recent' /\ Sealed'
  BY DEF Aged
<1>1. ~missed => Synced /\ Recent /\ Sealed
  BY DEF Aged
<1>2. CASE Load \/ Stop \/ Replace \/ Tick \/ ClockGoesBack \/ Begin
  <2>1. /\ UNCHANGED <<missed, session, snapshots, unsynced, copy, since>>
        /\ pc' \in {"idle", "down", "unloaded"} /\ pc \in {"idle", "down"}
    BY <1>2 DEF Load, Stop, Replace, Tick, ClockGoesBack, Begin, files, Shapes
  <2>2. QED
    BY <1>1, <2>1
<1>3. CASE Arrives
  BY <1>3 DEF Arrives
<1>4. CASE Crash
  <2>1. ~missed /\ pc = "idle" /\ session' = session
    BY <1>4 DEF Crash, Flags
  <2>2. copy = {} /\ copy' = {} /\ since' = since /\ pc' = "down"
    BY <1>4, <2>1 DEF Crash, Dirs
  <2>3. snapshots' = snapshots /\ unsynced' \subseteq unsynced
    BY <1>1, <1>4, <2>1, <2>2 DEF Crash, files
  <2>4. QED
    BY <1>1, <2>1, <2>2, <2>3
<1>5. CASE NoCopyDue
  <2>1. UNCHANGED <<missed, session, snapshots, unsynced, copy, since, now>> /\ pc' = Following
    BY <1>5 DEF NoCopyDue, files, ambient
  <2>2. CASE pc = "unloaded"
    BY <1>1, <1>5, <2>1, <2>2, CopyPlace
  <2>3. CASE pc # "unloaded"
    <3>1. pc \in {"before", "after"} /\ ~SnapshotDue
      BY <1>5, <2>3, CopyPlace DEF NoCopyDue, CopyDue
    <3>2. now \in Int /\ since \in Int /\ Interval \in Int /\ \A c \in snapshots : c.mtime \in Int
      BY WriterAssumption DEF WriterAssumption, Shapes, CopiesIn
    <3>3. CASE pc = "before"
      <4>1. pc' \in {"write", "remove"}
        BY <1>5, <2>1, <3>3, CopyPlace
      <4>2. Sealed'
        <5> SUFFICES ASSUME session \in Layouts, now - since >= Interval
                     PROVE  \E c \in snapshots : /\ \A d \in snapshots : d.stamp <= c.stamp
                                                 /\ c.what = session
          BY <2>1
        <5>1. PICK c \in snapshots : /\ \A d \in snapshots : d.stamp <= c.stamp
                                     /\ c.what = session \/ c.mtime <= since
          BY <1>1, <2>1, <3>3
        <5>2. PICK e \in snapshots : /\ \A d \in snapshots : d.stamp <= e.stamp
                                     /\ \/ e.what = session
                                        \/ e.mtime <= now /\ now - e.mtime < Interval
          BY <3>1, NotDue
        <5>3. c = e
          <6>1. c.stamp \in Nat /\ e.stamp \in Nat
            BY DEF Shapes, CopiesIn
          <6>2. c.stamp = e.stamp
            BY <5>1, <5>2, <6>1
          <6>3. QED
            BY <6>2 DEF Dirs, Ranked
        <5>4. c.what = session
          BY <3>2, <5>1, <5>2, <5>3
        <5>5. QED
          BY <5>1, <5>4
      <4>3. QED
        BY <1>1, <2>1, <3>3, <4>1, <4>2
    <3>4. CASE pc = "after"
      <4>1. pc' = "history" /\ since = now /\ session \in Layouts
        BY <1>5, <2>1, <3>4, CopyPlace DEF Stage
      <4>2. \E c \in snapshots : /\ \A d \in snapshots : d.stamp <= c.stamp
                                 /\ c.what = session \/ c.mtime <= since
        BY <3>1, <4>1, NotDue
      <4>3. QED
        BY <1>1, <2>1, <4>1, <4>2
    <3>5. QED
      BY <3>1, <3>3, <3>4
  <2>4. QED
    BY <2>2, <2>3
<1>6. CASE StartCopy
  <2>1. UNCHANGED <<missed, session, snapshots, unsynced, since, now, pc>> /\ copy = {}
    BY <1>6 DEF StartCopy, files, ambient
  <2>2. QED
    BY <1>1, <2>1
<1>7. CASE PublishCopy
  <2>1. UNCHANGED <<missed, session, since, now, pc, copy>> /\ unsynced' = unsynced \cup copy
    BY <1>7 DEF PublishCopy, ambient
  <2>2. CASE pc = "unloaded"
    <3>1. snapshots' = snapshots
      BY <1>7, <2>2 DEF PublishCopy, SetDir
    <3>2. snapshots \cap copy = {}
      BY <2>2 DEF Shapes, CopiesIn, DirName
    <3>3. QED
      BY <1>1, <2>1, <2>2, <3>1, <3>2
  <2>3. CASE pc # "unloaded"
    <3>1. snapshots' = snapshots \cup copy /\ pc \in {"before", "after"}
      BY <1>7, <2>3, CopyPlace DEF PublishCopy, SetDir, Dir
    <3>2. PICK c \in copy : c.what = session
      BY <1>7 DEF PublishCopy, Dirs
    <3>3. Shapes' /\ Dirs'
      BY ShapesStep, DirsStep
    <3>4. \A d \in snapshots' : d.stamp <= c.stamp
      <4>1. \A d \in snapshots' : d.stamp \in Nat
        BY <3>3 DEF Shapes, CopiesIn
      <4>2. \A d \in snapshots' : d \in copy => d = c
        BY <3>2 DEF Shapes
      <4>3. \A d \in snapshots' \ copy : d.stamp < c.stamp
        BY <2>3, <3>1 DEF Dirs, Dir
      <4>4. QED
        BY <3>1, <4>1, <4>2, <4>3
    <3>5. QED
      BY <1>1, <2>1, <3>1, <3>2, <3>4
  <2>4. QED
    BY <2>2, <2>3
<1>8. CASE SyncCopy
  <2>1. UNCHANGED <<missed, session, snapshots, since, now, pc, copy>> /\ unsynced' \subseteq unsynced
    BY <1>8 DEF SyncCopy, ambient
  <2>2. QED
    BY <1>1, <2>1
<1>9. CASE PruneCopies
  <2>1. UNCHANGED <<session, unsynced, since, now>> /\ pc' = Following /\ copy' = {}
    BY <1>9 DEF PruneCopies, ambient
  <2>2. CASE pc = "unloaded"
    <3>1. missed' = missed /\ snapshots' = snapshots
      BY <1>9, <2>2, PruneLeaves DEF PruneCopies
    <3>2. snapshots \cap copy = {} /\ pc' = "before"
      BY <1>9, <2>1, <2>2, CopyPlace DEF Shapes, CopiesIn, DirName
    <3>3. QED
      BY <1>1, <2>1, <2>2, <3>1, <3>2
  <2>3. CASE pc # "unloaded"
    <3>1. snapshots' \subseteq snapshots /\ copy \subseteq snapshots'
      BY <1>9, <2>3, PruneLeaves
    <3>2. PICK c \in copy : c.what = session
      BY <1>9 DEF PruneCopies, Dirs
    <3>3. \A d \in snapshots : d.stamp <= c.stamp
      BY <2>3, <3>1, CopyIsLast DEF Dir, LastOf
    <3>4. snapshots \cap unsynced = {}
      BY <1>9, <2>3 DEF PruneCopies, Dirs, Dir
    <3>5. QED
      BY <2>1, <3>1, <3>2, <3>3, <3>4
  <2>4. QED
    BY <2>2, <2>3
<1>10. CASE CopyFails
  <2>1. ~missed /\ pc = "unloaded"
    BY <1>10 DEF CopyFails, Flags
  <2>2. snapshots' = snapshots /\ unsynced' = unsynced \ copy /\ pc' = "idle" /\ UNCHANGED <<session, since>>
    BY <1>10, <2>1 DEF CopyFails, SetDir
  <2>3. QED
    BY <1>1, <2>1, <2>2
<1>11. CASE WriteTemporary
  <2>1. UNCHANGED <<missed, session, snapshots, unsynced, copy, since, now>> /\ pc = "write" /\ pc' = "rename"
    BY <1>11 DEF WriteTemporary, ambient
  <2>2. QED
    BY <1>1, <2>1
<1>12. CASE ReplaceFile \/ SyncDirectory
  <2>1. UNCHANGED <<missed, snapshots, unsynced, copy>> /\ pc' \in {"syncDir", "after"}
    BY <1>12 DEF ReplaceFile, SyncDirectory
  <2>2. QED
    BY <1>1, <2>1
<1>13. CASE RemoveFile
  <2>1. UNCHANGED <<missed, snapshots, unsynced, copy>> /\ session' \notin Layouts
    BY <1>13, WriterAssumption DEF WriterAssumption, RemoveFile
  <2>2. QED
    BY <1>1, <2>1
<1>14. CASE WriteFails
  <2>1. ~missed /\ pc # "syncDir" /\ pc # "after"
    BY <1>14 DEF WriteFails, Flags
  <2>2. UNCHANGED <<session, snapshots, unsynced, copy, since>> /\ pc' = "idle"
    BY <1>14 DEF WriteFails
  <2>3. QED
    BY <1>1, <2>1, <2>2
<1>15. CASE WriteHistory
  <2>1. UNCHANGED <<missed, session, snapshots, unsynced, copy, since>> /\ pc = "history" /\ pc' = "idle"
    BY <1>15 DEF WriteHistory
  <2>2. QED
    BY <1>1, <2>1
<1>16. CASE UNCHANGED vars
  <2>1. UNCHANGED <<missed, session, snapshots, unsynced, copy, since, now, pc>>
    BY <1>16 DEF vars, files
  <2>2. QED
    BY <1>1, <2>1
<1>17. QED
  BY <1>2, <1>3, <1>4, <1>5, <1>6, <1>7, <1>8, <1>9, <1>10, <1>11, <1>12, <1>13, <1>14, <1>15, <1>16 DEF Next

\* The writer starts within the invariant.
LEMMA InitIInv == Init => IInv
<1> SUFFICES ASSUME Init PROVE IInv
  OBVIOUS
<1> USE WriterAssumption DEF WriterAssumption, Init
<1>1. Flags
  BY DEF Flags
<1>2. Shapes
  <2>1. left \in [DOMAIN Bounds -> Nat]
    BY DEF Bounds
  <2>2. session \in Contents /\ onDisk \subseteq Contents
    BY DEF Contents
  <2>3. QED
    BY <2>1, <2>2 DEF Shapes
<1>3. Dirs
  BY FS_EmptySet DEF Dirs, Ranked
<1>4. Stage /\ NeverTorn
  BY DEF Stage, NeverTorn
<1>5. Protected
  BY DEF Protected, Bounds
<1>6. Bounded
  <2>1. snapshots \ copy = {} /\ left.crashes = Crashes
    BY DEF Bounds
  <2>2. Cardinality(snapshots \ copy) = 0
    BY <2>1, FS_EmptySet
  <2>3. QED
    BY <2>1, <2>2 DEF Bounded
<1>7. Aged
  BY DEF Aged
<1>8. QED
  BY <1>1, <1>2, <1>3, <1>4, <1>5, <1>6, <1>7 DEF IInv

\* Every step keeps it.
LEMMA NextIInv == IInv /\ [Next]_vars => IInv'
  BY FlagsStep, ShapesStep, DirsStep, StageStep, ProtectedStep, BoundedStep, AgedStep DEF IInv

\* The invariant holds in every state the writer and its crashes can reach.
THEOREM Inductive == Spec => []IInv
  BY InitIInv, NextIInv, PTL DEF Spec

\* What the invariant says of a state.
LEMMA Consequences ==
  IInv => /\ TypeOK /\ NeverTorn /\ UnloadedIsKept /\ AckedSaveIsDurable
          /\ SnapshotsBounded
<1> SUFFICES ASSUME IInv
             PROVE  /\ TypeOK /\ NeverTorn /\ UnloadedIsKept /\ AckedSaveIsDurable
                    /\ SnapshotsBounded
  OBVIOUS
<1>1. TypeOK /\ NeverTorn /\ AckedSaveIsDurable
  BY DEF IInv, TypeOK, AckedSaveIsDurable, Stage
<1>2. UnloadedIsKept
  BY DEF IInv, Protected, UnloadedIsKept, Kept
<1>3. SnapshotsBounded
  <2> DEFINE rest == snapshots \ copy
  <2>1. IsFiniteSet(rest) /\ Cardinality(rest) \in Nat
    BY FS_Difference, FS_CardinalityType DEF IInv, Dirs
  <2>2. Cardinality(rest) <= SnapshotLimit + (Crashes - left.crashes)
    BY DEF IInv, Bounded
  <2>3. SnapshotLimit + (Crashes - left.crashes) \in Int
    BY WriterAssumption DEF WriterAssumption, IInv, Shapes, Bounds
  <2>4. CASE copy = {}
    <3>1. rest = snapshots /\ Cardinality(copy) = 0
      BY <2>4, FS_EmptySet
    <3>2. QED
      BY <2>1, <2>2, <2>3, <3>1 DEF SnapshotsBounded
  <2>5. CASE copy # {}
    <3>1. \A c, d \in copy : c = d
      BY DEF IInv, Shapes
    <3>2. PICK c : copy = {c}
      BY <2>5, <3>1
    <3>3. Cardinality(copy) = 1 /\ snapshots \in SUBSET (rest \cup {c})
      BY <3>2, FS_Singleton
    <3> HIDE DEF rest
    <3>4. IsFiniteSet(rest \cup {c}) /\ Cardinality(rest \cup {c}) <= Cardinality(rest) + 1
      BY <2>1, FS_AddElement
    <3>5. Cardinality(snapshots) <= Cardinality(rest \cup {c}) /\ Cardinality(snapshots) \in Nat
          /\ Cardinality(rest \cup {c}) \in Nat
      BY <3>3, <3>4, FS_Subset, FS_CardinalityType
    <3>6. QED
      BY <2>1, <2>2, <2>3, <3>3, <3>4, <3>5 DEF SnapshotsBounded
  <2>6. QED
    BY <2>4, <2>5
<1>4. QED
  BY <1>1, <1>2, <1>3

\* SessionWriter: every variable keeps its type, whatever fails or crashes.
THEOREM TypeCorrect == Spec => []TypeOK
  BY Inductive, Consequences, PTL

\* save_json_to_path: no power loss leaves a torn session.json.
THEOREM SessionIsWhole == Spec => []NeverTorn
  BY Inductive, Consequences, PTL

\* preserve_unloaded: until a handoff intervenes, what a server found and could
\* not load is in session.json or in a durable backup.
THEOREM UnloadedStaysRecoverable == Spec => []UnloadedIsKept
  BY Inductive, Consequences, PTL

\* SessionWriter::save: a save reported done survives a power loss.
THEOREM AckedStaysDurable == Spec => []AckedSaveIsDurable
  BY Inductive, Consequences, PTL

\* preserve_existing_in: the snapshots stay within the limit, but for one being
\* made and one for each crash.
THEOREM SnapshotsStayBounded == Spec => []SnapshotsBounded
  BY Inductive, Consequences, PTL

\* A step that removes a durable backup leaves the limit's worth of them.
LEMMA EnoughStep == IInv /\ [Next]_vars => [EnoughRemain]_vars
<1> SUFFICES ASSUME IInv, [Next]_vars PROVE EnoughRemain \/ UNCHANGED vars
  OBVIOUS
<1>1. CASE backups \subseteq backups' \cup unsynced
  BY <1>1 DEF EnoughRemain
<1>2. CASE PruneCopies /\ pc = "unloaded"
  <2>1. \A c \in backups \ backups' :
          Cardinality({d \in backups' : left' # left \/ d.stamp > c.stamp}) >= BackupLimit
    BY <1>2, PruneLeaves DEF IInv
  <2>2. backups' \ unsynced' = backups'
    BY <1>2, PruneLeaves DEF IInv, PruneCopies, Dirs, Dir
  <2>3. QED
    BY <2>1, <2>2 DEF EnoughRemain
<1>3. CASE Crash \/ StartCopy \/ PublishCopy \/ SyncCopy
  BY <1>1, <1>3 DEF Crash, StartCopy, PublishCopy, SyncCopy, SetDir, Dir, files
<1>4. CASE PruneCopies /\ pc # "unloaded"
  BY <1>1, <1>4, PruneLeaves DEF IInv
<1>5. CASE CopyFails
  <2>1. \A c \in copy : c \in Dir => c \in unsynced
    BY <1>5 DEF CopyFails, IInv, Shapes
  <2>2. QED
    BY <1>1, <1>5, <2>1 DEF CopyFails, SetDir, Dir
<1>6. QED
  BY <1>1, <1>2, <1>3, <1>4, <1>5, FileSteps DEF IInv

\* prune_backups never removes a durable backup without keeping the limit's worth
\* of newer ones (or of any, when a removal failed).
THEOREM PruneIsSafe == Spec => PruneKeepsEnough
  BY Inductive, EnoughStep, PTL DEF Spec, PruneKeepsEnough

\* A step that replaces a layout leaves it as the newest snapshot.
LEMMA ReplacedStep == IInv /\ [Next]_vars => [ReplacedIsNewest]_vars
<1> SUFFICES ASSUME IInv, [Next]_vars, pc \in {"rename", "remove"}, session \in Layouts,
                    now - since >= Interval, ~missed
             PROVE  snapshots # {} /\ Newest(snapshots).what = session
  BY DEF ReplacedIsNewest
<1>1. PICK c \in snapshots : c.what = session /\ \A d \in snapshots : d.stamp <= c.stamp
  BY DEF IInv, Aged
<1>2. Stamped(snapshots) /\ Ranked(snapshots)
  BY DEF IInv, Shapes, Dirs, CopiesIn, Stamped
<1>3. Newest(snapshots) = c
  BY <1>1, <1>2, NewestUnique
<1>4. QED
  BY <1>1, <1>3

\* preserve_snapshot_history: a layout that lived for the interval is the newest
\* snapshot when it is replaced, wherever the clock went.
THEOREM LongLivedIsSnapshotted == Spec => LongLivedLayoutIsKept
  BY Inductive, ReplacedStep, PTL DEF Spec, LongLivedLayoutIsKept
=============================================================================
