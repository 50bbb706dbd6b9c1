---------------------------- MODULE SessionSave ----------------------------
(* When the server saves its session: runtime/src/app/session.rs, with the *)
(* places in app/api.rs, app/mod.rs and server/headless.rs that call it.   *)
(* The app is one thread, so each of its handlers is one step; the         *)
(* background save is another.  A job, once it holds the writer's mutex,   *)
(* is one write of the file (SessionWriter looks inside it).               *)
EXTENDS Naturals

CONSTANTS
  Panes,      \* the panes a layout may have
  Mutations,  \* bound: changes the user makes to the layout
  Exits,      \* bound: panes whose process was interrupted
  Faults      \* bound: jobs whose write fails

ASSUME SaveAssumption ==
  Mutations \in Nat /\ Exits \in Nat /\ Faults \in Nat

VARIABLES
  panes,      \* the live layout; {} is no workspace
  dirty,      \* AppState.session_dirty
  deadline,   \* session_save_deadline is set
  pending,    \* pane_exit_checkpoint_pending
  thread,     \* session_save_thread: a set of at most one [job, wrote]
  file,       \* the last job written: its layout, and its number
  captures,   \* how many jobs were captured
  persist,    \* AppPolicy.persist_session
  phase,      \* "up", "exited" after a shutdown, or "killed"
  left,       \* what remains of the bounds on changes and exits
  faults,     \* what remains of the bound on failing writes
  wanted,     \* history: the layout a restart should bring back
  burst,      \* history: panes were interrupted since the last change or autosave
  failed      \* history: the newest job was not written

app == <<panes, dirty, deadline, pending>>
saved == <<thread, file, captures, failed, faults>>
vars == <<app, saved, persist, phase, left, wanted, burst>>

Jobs == [layout : SUBSET Panes, number : Nat]

Spend(what) == left[what] > 0 /\ left' = [left EXCEPT ![what] = @ - 1]

Fail == faults > 0 /\ faults' = faults - 1 /\ failed' = TRUE

\* A server that restored the session it found, or found none.
Init ==
  /\ panes \in SUBSET Panes /\ wanted = panes
  /\ dirty = FALSE /\ deadline = FALSE /\ pending = FALSE
  /\ thread = {} /\ file = [layout |-> panes, number |-> 0] /\ captures = 0
  /\ persist = TRUE /\ phase = "up" /\ burst = FALSE /\ failed = FALSE
  /\ left = [mutations |-> Mutations, exits |-> Exits] /\ faults = Faults

----------------------------------------------------------------------------
\* capture_session_save_job; no workspace is a job that clears the file.
Job == [layout |-> panes, number |-> captures + 1]

\* What joining the background save leaves in the file.
Joined == IF \E t \in thread : ~t.wrote
          THEN (CHOOSE t \in thread : TRUE).job
          ELSE file

\* Mutant: the background save is not joined.
SaveNowUnjoined ==
  /\ captures' = captures + 1 /\ UNCHANGED thread
  /\ \/ file' = Job /\ failed' = FALSE /\ UNCHANGED faults
     \/ UNCHANGED file /\ Fail

\* save_session_now, with session saving on: the background save is joined, then
\* the job is written, or the writer reports that it could not.
SaveNow ==
  /\ thread' = {} /\ captures' = captures + 1
  /\ \/ file' = Job /\ failed' = FALSE /\ UNCHANGED faults
     \/ file' \in {file, Joined} /\ Fail

\* The app changes its layout, and says so at once or through the dirty flag.
Mutate ==
  /\ phase = "up" /\ Spend("mutations")
  /\ \E new \in SUBSET Panes :
       /\ new # panes /\ panes' = new /\ wanted' = new
  /\ \/ dirty' = TRUE /\ UNCHANGED <<deadline, pending>>
     \/ deadline' = (deadline \/ persist) /\ pending' = (pending /\ ~persist)
        /\ UNCHANGED dirty
  /\ burst' = FALSE
  /\ UNCHANGED <<saved, persist, phase>>

\* sync_session_save_schedule and schedule_session_save, every turn of the loop.
Sync ==
  /\ phase = "up" /\ dirty
  /\ dirty' = FALSE
  /\ deadline' = (deadline \/ persist) /\ pending' = (pending /\ ~persist)
  /\ UNCHANGED <<panes, saved, persist, phase, left, wanted, burst>>

\* Mutant: every exit of a burst takes a checkpoint of its own.
PaneInterruptedAgain ==
  /\ phase = "up" /\ Spend("exits")
  /\ \E p \in panes : panes' = panes \ {p}
  /\ IF persist
       THEN SaveNow /\ pending' = TRUE
       ELSE UNCHANGED <<saved, pending>>
  /\ IF pending' THEN dirty' = FALSE /\ deadline' = TRUE
                 ELSE dirty' = TRUE /\ UNCHANGED deadline
  /\ burst' = TRUE
  /\ UNCHANGED <<persist, phase, wanted>>

\* An interrupted pane: checkpoint_session_before_pane_exit unless this burst is
\* already checkpointed, the removal, then finish_checkpointed_pane_exit.
PaneInterrupted ==
  /\ phase = "up" /\ Spend("exits")
  /\ \E p \in panes : panes' = panes \ {p}
  /\ IF persist /\ (dirty \/ ~pending)
       THEN SaveNow /\ pending' = TRUE
       ELSE UNCHANGED <<saved, pending>>
  /\ IF pending' THEN dirty' = FALSE /\ deadline' = TRUE
                 ELSE dirty' = TRUE /\ UNCHANGED deadline
  /\ burst' = TRUE
  /\ UNCHANGED <<persist, phase, wanted>>

\* ensure_default_workspace: a new workspace where none is left schedules a save
\* like any other; the one that replaces interrupted panes keeps the checkpoint.
EnsureDefaultWorkspace ==
  /\ phase = "up" /\ panes = {} /\ Spend("mutations")
  /\ \E p \in Panes : panes' = {p}
  /\ IF pending /\ ~dirty
       THEN deadline' = TRUE /\ UNCHANGED <<dirty, pending>>
       ELSE deadline' = (deadline \/ persist) /\ pending' = (pending /\ ~persist)
            /\ UNCHANGED dirty
  /\ wanted' = IF burst THEN wanted ELSE panes'
  /\ UNCHANGED <<saved, persist, phase, burst>>

\* Mutant: a deadline that finds a save running is dropped.
StartBackgroundSaveOnce ==
  /\ phase = "up" /\ deadline /\ persist
  /\ IF thread # {}
       THEN UNCHANGED <<saved, pending, wanted, burst>>
       ELSE /\ thread' = {[job |-> Job, wrote |-> FALSE]}
            /\ captures' = captures + 1 /\ pending' = FALSE
            /\ wanted' = panes /\ burst' = FALSE
            /\ UNCHANGED <<file, failed, faults>>
  /\ deadline' = FALSE
  /\ UNCHANGED <<panes, dirty, persist, phase, left>>

\* start_background_session_save: while a save is running the deadline moves on.
StartBackgroundSave ==
  /\ phase = "up" /\ deadline /\ persist
  /\ IF thread # {}
       THEN UNCHANGED <<saved, deadline, pending, wanted, burst>>
       ELSE /\ \/ /\ thread' = {[job |-> Job, wrote |-> FALSE]}
                  /\ captures' = captures + 1
                  /\ UNCHANGED <<file, failed, faults>>
               \/ SaveNow      \* the thread could not be spawned
            /\ deadline' = FALSE /\ pending' = FALSE
            /\ wanted' = panes /\ burst' = FALSE
  /\ UNCHANGED <<panes, dirty, persist, phase, left>>

StopSaving ==
  /\ phase = "up" /\ deadline /\ ~persist
  /\ deadline' = FALSE
  /\ UNCHANGED <<panes, dirty, pending, saved, persist, phase, left, wanted, burst>>

\* run_session_save_job on the background thread.
ThreadWrites ==
  /\ phase = "up"
  /\ \E t \in thread :
       /\ ~t.wrote
       /\ thread' = {[t EXCEPT !.wrote = TRUE]}
       /\ \/ file' = t.job /\ failed' = FALSE /\ UNCHANGED faults
          \/ UNCHANGED file /\ Fail
  /\ UNCHANGED <<app, captures, persist, phase, left, wanted, burst>>

\* The thread returns; reap_finished_session_save drops its handle.
ThreadEnds ==
  /\ phase = "up"
  /\ \E t \in thread : t.wrote
  /\ thread' = {}
  /\ UNCHANGED <<app, file, captures, failed, faults, persist, phase, left, wanted, burst>>

\* finish_live_handoff_shutdown: the replacement owns the session from now on.
FinishHandoff ==
  /\ phase = "up" /\ persist
  /\ persist' = FALSE
  /\ UNCHANGED <<app, saved, phase, left, wanted, burst>>

\* Mutant: the exit always saves what is left.
ShutdownAlwaysSaving ==
  /\ phase = "up" /\ phase' = "exited"
  /\ IF persist
       THEN SaveNow /\ pending' = FALSE
       ELSE UNCHANGED <<saved, pending>>
  /\ deadline' = FALSE
  /\ UNCHANGED <<panes, dirty, persist, left, wanted, burst>>

\* save_session_on_shutdown, after the loop: a checkpoint taken before the panes
\* were interrupted is not replaced by what is left of them.
Shutdown ==
  /\ phase = "up" /\ phase' = "exited"
  /\ IF persist /\ ~(pending /\ ~dirty)
       THEN SaveNow /\ pending' = FALSE
       ELSE UNCHANGED <<saved, pending>>
  /\ deadline' = FALSE
  /\ UNCHANGED <<panes, dirty, persist, left, wanted, burst>>

Killed ==
  /\ phase = "up" /\ phase' = "killed"
  /\ UNCHANGED <<app, saved, persist, left, wanted, burst>>

Next ==
  \/ Mutate \/ Sync \/ PaneInterrupted \/ EnsureDefaultWorkspace
  \/ StartBackgroundSave \/ StopSaving \/ ThreadWrites \/ ThreadEnds
  \/ FinishHandoff \/ Shutdown \/ Killed

Spec == Init /\ [][Next]_vars

\* The loop keeps turning, wakes for the deadline, and the thread is scheduled.
FairSpec ==
  /\ Spec
  /\ WF_vars(Sync) /\ WF_vars(ThreadWrites) /\ WF_vars(ThreadEnds)
  /\ WF_vars(StartBackgroundSave)

----------------------------------------------------------------------------
Flags ==
  /\ dirty \in BOOLEAN /\ deadline \in BOOLEAN /\ pending \in BOOLEAN
  /\ persist \in BOOLEAN /\ burst \in BOOLEAN /\ failed \in BOOLEAN

Shapes ==
  /\ panes \subseteq Panes /\ wanted \subseteq Panes
  /\ thread \subseteq [job : Jobs, wrote : BOOLEAN]
  /\ \A s, t \in thread : s = t
  /\ file \in Jobs /\ captures \in Nat /\ faults \in 0..Faults
  /\ phase \in {"up", "exited", "killed"}
  /\ left \in [{"mutations", "exits"} -> Nat]

\* Every variable keeps its type, and at most one background save runs.
TypeOK == Flags /\ Shapes

\* What the server leaves behind when it exits is the newest layout the user
\* made or the server outlived the debounce with: panes interrupted just before
\* (by the host's own shutdown) are in it, whatever background save was running,
\* and a change made after an interruption wins over the checkpoint.
ExitKeepsWantedLayout ==
  phase = "exited" /\ persist /\ ~failed => file.layout = wanted

\* Saves reach the file in the order they were captured: a background save that
\* was captured before a checkpoint never lands after it.
NewerSaveWins == [][file'.number >= file.number]_vars

\* While a checkpoint is pending and nothing newer is dirty, the file holds the
\* layout from before the burst, though its panes are gone from the live one.
CheckpointHolds ==
  phase = "up" /\ persist /\ pending /\ ~dirty =>
    failed \/ file.layout = wanted

\* No change is forgotten: when no save is due, neither by the dirty flag nor by
\* a deadline, the live layout is the one that the background save in progress
\* will write, or the one in the file unless the last write failed.
NothingForgotten ==
  phase = "up" /\ persist /\ ~dirty /\ ~deadline =>
    IF \E t \in thread : ~t.wrote THEN \A t \in thread : t.job.layout = panes
    ELSE failed \/ file.layout = panes

\* A server that keeps running and saving brings its file up to date again and
\* again, unless the last write failed (that one waits for the next change).
EventuallySaved ==
  []<>(phase # "up" \/ ~persist \/ failed \/ file.layout = panes)

============================================================================
