-------------------------- MODULE SessionSave_proof --------------------------
(* Proofs about SessionSave, for any panes and any number of changes, exits   *)
(* and failing writes.                                                        *)
EXTENDS SessionSave, TLAPS

(* The inductive invariant, in three layers above the types. *)

\* Jobs are numbered in the order they are captured, and a background save that
\* has not written yet is newer than what is in the file.
Ordered ==
  /\ file.number <= captures
  /\ \A t \in thread : ~t.wrote => file.number < t.job.number /\ t.job.number <= captures

\* A pending checkpoint was written by the app itself: no background save runs
\* beside it.  Unless a checkpoint stands for the panes that were interrupted,
\* the live layout is the one to bring back.  A checkpoint that nothing newer
\* supersedes stands for a burst of exits.
Standing ==
  /\ pending => thread = {}
  /\ (phase = "up" /\ persist /\ (dirty \/ ~pending)) => panes = wanted /\ ~burst
  /\ (phase = "up" /\ persist /\ pending /\ ~dirty) => burst

Core == Shapes /\ Ordered /\ Standing /\ CheckpointHolds /\ ExitKeepsWantedLayout

IInv == Flags /\ Core

\* A started server satisfies the invariant.
LEMMA InitIInv == Init => IInv
<1> SUFFICES ASSUME Init PROVE IInv
  OBVIOUS
<1>1. Flags
  BY DEF Init, Flags
<1>2. Shapes
  BY SaveAssumption DEF SaveAssumption, Init, Shapes, Jobs
<1>3. Ordered
  BY DEF Init, Ordered
<1>4. Standing /\ CheckpointHolds /\ ExitKeepsWantedLayout
  BY DEF Init, Standing, CheckpointHolds, ExitKeepsWantedLayout
<1>5. QED
  BY <1>1, <1>2, <1>3, <1>4 DEF IInv, Core

\* The layouts a job may hold, and what a joined background save leaves.
LEMMA JobShape == Shapes => Job \in Jobs /\ Joined \in Jobs
<1> SUFFICES ASSUME Shapes PROVE Job \in Jobs /\ Joined \in Jobs
  OBVIOUS
<1>1. Job \in Jobs
  BY DEF Shapes, Job, Jobs
<1>2. CASE \E t \in thread : ~t.wrote
  <2>1. (CHOOSE t \in thread : TRUE) \in thread
    BY <1>2
  <2>2. QED
    BY <1>1, <1>2, <2>1 DEF Joined, Shapes
<1>3. CASE ~\E t \in thread : ~t.wrote
  BY <1>1, <1>3 DEF Joined, Shapes
<1>4. QED
  BY <1>2, <1>3

\* What save_session_now does: nothing runs behind it, the file is never
\* replaced by an older job, and unless the writer reports a failure it holds
\* the layout of the moment.
LEMMA SaveNowKeepsOrder ==
  ASSUME Shapes, Ordered, SaveNow
  PROVE  /\ thread' = {} /\ captures' = captures + 1
         /\ file' \in Jobs /\ faults' \in 0..Faults
         /\ file.number <= file'.number /\ file'.number <= captures'
         /\ ~failed' => file'.layout = panes
<1>1. Joined.number <= captures /\ file.number <= Joined.number
  <2>1. CASE \E t \in thread : ~t.wrote
    <3>1. PICK t \in thread : ~t.wrote
      BY <2>1
    <3>2. (CHOOSE u \in thread : TRUE) = t
      BY <3>1 DEF Shapes
    <3>3. Joined = t.job
      BY <2>1, <3>2 DEF Joined
    <3>4. t.job.number \in Nat /\ file.number \in Nat
      BY <3>1 DEF Shapes, Jobs
    <3>5. QED
      BY <3>1, <3>3, <3>4 DEF Ordered
  <2>2. CASE ~\E t \in thread : ~t.wrote
    BY <2>2 DEF Joined, Ordered, Shapes, Jobs
  <2>3. QED
    BY <2>1, <2>2
<1>2. Job \in Jobs /\ Joined \in Jobs /\ Job.layout = panes /\ Job.number = captures + 1
  BY JobShape DEF Job
<1>3. file.number \in Nat /\ captures \in Nat /\ Joined.number \in Nat /\ file \in Jobs
  BY <1>2 DEF Shapes, Jobs
<1>4. CASE file' = Job /\ failed' = FALSE /\ UNCHANGED faults
  BY <1>2, <1>3, <1>4 DEF SaveNow, Ordered, Shapes
<1>5. CASE file' \in {file, Joined} /\ Fail
  BY <1>1, <1>2, <1>3, <1>5, SaveAssumption DEF SaveAssumption, SaveNow, Fail, Ordered, Shapes
<1>6. QED
  BY <1>4, <1>5 DEF SaveNow

\* The types of the bounds.
LEMMA SpendShape ==
  ASSUME Shapes, NEW what \in {"mutations", "exits"}, Spend(what)
  PROVE  left' \in [{"mutations", "exits"} -> Nat]
  BY DEF Shapes, Spend

\* The flags stay Boolean.
LEMMA StepFlags == Flags /\ [Next]_vars => Flags'
<1> SUFFICES ASSUME Flags, [Next]_vars PROVE Flags'
  OBVIOUS
<1> USE DEF Flags
<1>0. SaveNow => failed' \in BOOLEAN
  BY DEF SaveNow, Fail
<1>1. CASE Mutate
  BY <1>1 DEF Mutate, saved
<1>2. CASE Sync
  BY <1>2 DEF Sync, saved
<1>3. CASE PaneInterrupted
  BY <1>0, <1>3 DEF PaneInterrupted, saved
<1>4. CASE EnsureDefaultWorkspace
  BY <1>4 DEF EnsureDefaultWorkspace, saved
<1>5. CASE StartBackgroundSave
  BY <1>0, <1>5 DEF StartBackgroundSave, saved
<1>6. CASE StopSaving
  BY <1>6 DEF StopSaving, saved
<1>7. CASE ThreadWrites
  BY <1>7 DEF ThreadWrites, Fail, app
<1>8. CASE ThreadEnds
  BY <1>8 DEF ThreadEnds, app
<1>9. CASE FinishHandoff
  BY <1>9 DEF FinishHandoff, app, saved
<1>10. CASE Shutdown
  BY <1>0, <1>10 DEF Shutdown, saved
<1>11. CASE Killed
  BY <1>11 DEF Killed, app, saved
<1>12. CASE UNCHANGED vars
  BY <1>12 DEF vars, app, saved
<1>13. QED
  BY <1>1, <1>2, <1>3, <1>4, <1>5, <1>6, <1>7, <1>8, <1>9, <1>10, <1>11, <1>12 DEF Next

\* Every step preserves the rest of the invariant.
LEMMA StepCore == Flags /\ Core /\ [Next]_vars => Core'
<1> SUFFICES ASSUME Flags, Core, [Next]_vars PROVE Core'
  OBVIOUS
<1> USE DEF Core
<1>1. CASE Mutate
  <2>1. left' \in [{"mutations", "exits"} -> Nat]
    BY <1>1, SpendShape DEF Mutate
  <2>2. panes' = wanted' /\ panes' \subseteq Panes /\ burst' = FALSE /\ UNCHANGED <<saved, persist, phase>>
    BY <1>1 DEF Mutate
  <2>3. pending' => pending
    BY <1>1 DEF Mutate
  <2>4. (pending' /\ persist) => dirty'
    BY <1>1 DEF Mutate
  <2>5. Shapes' /\ Ordered'
    BY <2>1, <2>2 DEF Shapes, Ordered, saved
  <2>6. Standing' /\ CheckpointHolds' /\ ExitKeepsWantedLayout'
    BY <1>1, <2>2, <2>3, <2>4 DEF Mutate, Standing, CheckpointHolds, ExitKeepsWantedLayout, saved
  <2>7. QED
    BY <2>5, <2>6
<1>2. CASE Sync
  BY <1>2 DEF Sync, Shapes, Ordered, Standing, CheckpointHolds, ExitKeepsWantedLayout, saved
<1>3. CASE PaneInterrupted
  <2>1. left' \in [{"mutations", "exits"} -> Nat] /\ panes' \subseteq Panes
    BY <1>3, SpendShape DEF PaneInterrupted, Shapes
  <2>2. CASE persist /\ (dirty \/ ~pending)
    <3>1. SaveNow /\ pending' = TRUE /\ dirty' = FALSE /\ deadline' = TRUE
      BY <1>3, <2>2 DEF PaneInterrupted
    <3>2. panes = wanted /\ phase = "up"
      BY <1>3, <2>2 DEF PaneInterrupted, Standing
    <3>3. QED
      BY <1>3, <2>1, <3>1, <3>2, SaveNowKeepsOrder
        DEF PaneInterrupted, Shapes, Ordered, Standing, CheckpointHolds, ExitKeepsWantedLayout
  <2>3. CASE ~(persist /\ (dirty \/ ~pending))
    BY <1>3, <2>1, <2>3
      DEF PaneInterrupted, Shapes, Ordered, Standing, CheckpointHolds, ExitKeepsWantedLayout, saved
  <2>4. QED
    BY <2>2, <2>3
<1>4. CASE EnsureDefaultWorkspace
  <2>1. left' \in [{"mutations", "exits"} -> Nat]
    BY <1>4, SpendShape DEF EnsureDefaultWorkspace
  <2>2. panes' \subseteq Panes /\ UNCHANGED <<saved, persist, phase, burst, dirty>>
    BY <1>4 DEF EnsureDefaultWorkspace
  <2>3. wanted' = IF burst THEN wanted ELSE panes'
    BY <1>4 DEF EnsureDefaultWorkspace
  <2>4. Shapes' /\ Ordered'
    BY <2>1, <2>2, <2>3 DEF Shapes, Ordered, saved
  <2>5. CASE pending /\ ~dirty
    <3>1. UNCHANGED pending
      BY <1>4, <2>5 DEF EnsureDefaultWorkspace
    <3>2. CheckpointHolds'
      BY <1>4, <2>2, <2>3, <2>5, <3>1 DEF EnsureDefaultWorkspace, Standing, CheckpointHolds, saved
    <3>3. Standing' /\ ExitKeepsWantedLayout'
      BY <1>4, <2>2, <2>5, <3>1 DEF EnsureDefaultWorkspace, Standing, ExitKeepsWantedLayout, saved
    <3>4. QED
      BY <2>4, <3>2, <3>3
  <2>6. CASE dirty \/ ~pending
    <3>1. pending' => (pending /\ ~persist)
      BY <1>4, <2>6 DEF EnsureDefaultWorkspace
    <3>2. persist => wanted' = panes'
      BY <1>4, <2>3, <2>6 DEF EnsureDefaultWorkspace, Standing
    <3>3. QED
      BY <1>4, <2>2, <2>4, <2>6, <3>1, <3>2
        DEF EnsureDefaultWorkspace, Standing, CheckpointHolds, ExitKeepsWantedLayout, saved
  <2>7. QED
    BY <2>5, <2>6
<1>5. CASE StartBackgroundSave
  <2>1. CASE thread # {}
    BY <1>5, <2>1
      DEF StartBackgroundSave, Shapes, Ordered, Standing, CheckpointHolds, ExitKeepsWantedLayout, saved
  <2>2. CASE thread = {} /\ SaveNow
    BY <1>5, <2>2, SaveNowKeepsOrder
      DEF StartBackgroundSave, Shapes, Ordered, Standing, CheckpointHolds, ExitKeepsWantedLayout
  <2>3. CASE thread = {} /\ thread' = {[job |-> Job, wrote |-> FALSE]} /\ captures' = captures + 1
             /\ UNCHANGED <<file, failed, faults>>
    <3>1. Job \in Jobs /\ Job.number = captures + 1
      BY JobShape DEF Job
    <3>2. file.number \in Nat /\ captures \in Nat
      BY DEF Shapes, Jobs
    <3>3. Ordered'
      BY <2>3, <3>1, <3>2 DEF Ordered
    <3>4. Shapes'
      BY <1>5, <2>3, <3>1 DEF StartBackgroundSave, Shapes
    <3>5. QED
      BY <1>5, <2>3, <3>3, <3>4
        DEF StartBackgroundSave, Shapes, Standing, CheckpointHolds, ExitKeepsWantedLayout
  <2>4. QED
    BY <1>5, <2>1, <2>2, <2>3 DEF StartBackgroundSave
<1>6. CASE StopSaving
  BY <1>6 DEF StopSaving, Shapes, Ordered, Standing, CheckpointHolds, ExitKeepsWantedLayout, saved
<1>7. CASE ThreadWrites
  <2>1. PICK t \in thread :
          /\ ~t.wrote /\ thread' = {[t EXCEPT !.wrote = TRUE]}
          /\ \/ file' = t.job /\ failed' = FALSE /\ UNCHANGED faults
             \/ UNCHANGED file /\ Fail
    BY <1>7 DEF ThreadWrites
  <2>2. t \in [job : Jobs, wrote : BOOLEAN] /\ t.job \in Jobs /\ t.job.number \in Nat
    BY <2>1 DEF Shapes, Jobs
  <2>3. [t EXCEPT !.wrote = TRUE] \in [job : Jobs, wrote : BOOLEAN] /\ [t EXCEPT !.wrote = TRUE].wrote = TRUE
    BY <2>2
  <2>4. faults' \in 0..Faults /\ file' \in Jobs
    BY <2>1, <2>2, SaveAssumption DEF SaveAssumption, Fail, Shapes
  <2>5. Ordered'
    BY <1>7, <2>1, <2>2, <2>3 DEF ThreadWrites, Ordered
  <2>6. Shapes'
    BY <1>7, <2>1, <2>3, <2>4 DEF ThreadWrites, Shapes, app
  <2>7. QED
    BY <1>7, <2>1, <2>5, <2>6
      DEF ThreadWrites, Standing, CheckpointHolds, ExitKeepsWantedLayout, app
<1>8. CASE ThreadEnds
  BY <1>8 DEF ThreadEnds, Shapes, Ordered, Standing, CheckpointHolds, ExitKeepsWantedLayout, app
<1>9. CASE FinishHandoff
  BY <1>9 DEF FinishHandoff, Shapes, Ordered, Standing, CheckpointHolds, ExitKeepsWantedLayout, app, saved
<1>10. CASE Shutdown
  <2>1. CASE persist /\ ~(pending /\ ~dirty)
    BY <1>10, <2>1, SaveNowKeepsOrder
      DEF Shutdown, Shapes, Ordered, Standing, CheckpointHolds, ExitKeepsWantedLayout
  <2>2. CASE ~(persist /\ ~(pending /\ ~dirty))
    BY <1>10, <2>2
      DEF Shutdown, Shapes, Ordered, Standing, CheckpointHolds, ExitKeepsWantedLayout, saved
  <2>3. QED
    BY <2>1, <2>2
<1>11. CASE Killed
  BY <1>11 DEF Killed, Shapes, Ordered, Standing, CheckpointHolds, ExitKeepsWantedLayout, app, saved
<1>12. CASE UNCHANGED vars
  BY <1>12 DEF vars, app, saved, Shapes, Ordered, Standing, CheckpointHolds, ExitKeepsWantedLayout
<1>13. QED
  BY <1>1, <1>2, <1>3, <1>4, <1>5, <1>6, <1>7, <1>8, <1>9, <1>10, <1>11, <1>12 DEF Next

\* The invariant holds throughout.
LEMMA AlwaysIInv == Spec => []IInv
  BY InitIInv, StepFlags, StepCore, PTL DEF Spec, IInv

\* No step puts an older job into the file: a background save is newer than the
\* file until it has written, and save_session_now joins it first.
SaveInOrder == file'.number >= file.number

LEMMA StepInOrder == IInv /\ [Next]_vars => [SaveInOrder]_vars
<1> SUFFICES ASSUME IInv, Next PROVE SaveInOrder
  BY DEF vars
<1> USE DEF IInv, Core, SaveInOrder
<1>1. file.number \in Nat
  BY DEF Shapes, Jobs
<1>2. CASE SaveNow
  <2>1. file' \in Jobs /\ file.number <= file'.number
    BY <1>2, SaveNowKeepsOrder
  <2>2. QED
    BY <1>1, <2>1 DEF Jobs
<1>3. CASE ThreadWrites
  <2>1. PICK t \in thread : ~t.wrote /\ (file' = t.job \/ UNCHANGED file)
    BY <1>3 DEF ThreadWrites
  <2>2. t.job.number \in Nat /\ file.number < t.job.number
    BY <2>1 DEF Shapes, Jobs, Ordered
  <2>3. QED
    BY <1>1, <2>1, <2>2
<1>4. CASE UNCHANGED file
  BY <1>1, <1>4
<1>5. QED
  BY <1>2, <1>3, <1>4
    DEF Next, Mutate, Sync, PaneInterrupted, EnsureDefaultWorkspace, StartBackgroundSave, StopSaving,
        ThreadEnds, FinishHandoff, Shutdown, Killed, saved

\* Every change of the layout leaves a flag or a deadline behind, which only a
\* save of the layout of that moment takes away.
LEMMA StepForgetsNothing == IInv /\ NothingForgotten /\ [Next]_vars => NothingForgotten'
<1> SUFFICES ASSUME IInv, NothingForgotten, [Next]_vars PROVE NothingForgotten'
  OBVIOUS
<1>0. Flags /\ Shapes /\ Ordered
  BY DEF IInv, Core
<1>1. SaveNow /\ UNCHANGED panes => thread' = {} /\ (failed' \/ file'.layout = panes')
  BY <1>0, SaveNowKeepsOrder
<1>2. CASE Mutate \/ EnsureDefaultWorkspace
  BY <1>0, <1>2 DEF Mutate, EnsureDefaultWorkspace, NothingForgotten, Flags
<1>3. CASE Sync
  BY <1>0, <1>3 DEF Sync, NothingForgotten, Flags
<1>4. CASE PaneInterrupted
  BY <1>0, <1>4 DEF PaneInterrupted, NothingForgotten, Flags
<1>5. CASE StartBackgroundSave
  <2>1. CASE thread # {}
    BY <1>5, <2>1 DEF StartBackgroundSave, NothingForgotten
  <2>2. CASE thread = {} /\ SaveNow
    BY <1>1, <1>5, <2>2 DEF StartBackgroundSave, NothingForgotten
  <2>3. CASE thread = {} /\ thread' = {[job |-> Job, wrote |-> FALSE]}
    <3>1. panes' = panes /\ Job.layout = panes
      BY <1>5 DEF StartBackgroundSave, Job
    <3>2. \A t \in thread' : ~t.wrote /\ t.job.layout = panes'
      BY <2>3, <3>1
    <3>3. \E t \in thread' : ~t.wrote
      BY <2>3
    <3>4. QED
      BY <3>2, <3>3 DEF NothingForgotten
  <2>4. QED
    BY <1>5, <2>1, <2>2, <2>3 DEF StartBackgroundSave
<1>6. CASE StopSaving \/ FinishHandoff \/ Shutdown \/ Killed
  BY <1>6 DEF StopSaving, FinishHandoff, Shutdown, Killed, NothingForgotten, saved
<1>7. CASE ThreadWrites
  <2>1. PICK t \in thread :
          /\ ~t.wrote /\ thread' = {[t EXCEPT !.wrote = TRUE]}
          /\ (file' = t.job /\ failed' = FALSE) \/ failed' = TRUE
    BY <1>7 DEF ThreadWrites, Fail
  <2>2. t \in [job : Jobs, wrote : BOOLEAN]
    BY <1>0, <2>1 DEF Shapes
  <2>3. \A u \in thread' : u.wrote
    BY <2>1, <2>2
  <2>4. QED
    BY <1>7, <2>1, <2>3 DEF ThreadWrites, NothingForgotten, app
<1>8. CASE ThreadEnds
  <2>1. ~\E t \in thread : ~t.wrote
    BY <1>0, <1>8 DEF ThreadEnds, Shapes
  <2>2. QED
    BY <1>8, <2>1 DEF ThreadEnds, NothingForgotten, app
<1>9. CASE UNCHANGED vars
  BY <1>9 DEF vars, app, saved, NothingForgotten
<1>10. QED
  BY <1>2, <1>3, <1>4, <1>5, <1>6, <1>7, <1>8, <1>9 DEF Next

-----------------------------------------------------------------------------
\* Every variable keeps its type, and at most one background save runs.
THEOREM TypeCorrect == Spec => []TypeOK
  BY AlwaysIInv, PTL DEF IInv, Core, TypeOK

\* save_session_on_shutdown leaves the layout to bring back in the file, unless
\* saving is off or the last write failed.
THEOREM ExitIsRight == Spec => []ExitKeepsWantedLayout
  BY AlwaysIInv, PTL DEF IInv, Core

\* A pending checkpoint is what the file holds.
THEOREM CheckpointIsKept == Spec => []CheckpointHolds
  BY AlwaysIInv, PTL DEF IInv, Core

\* Whatever the order of changes, interrupted panes, deadlines and background
\* saves, a layout that is neither flagged nor due is saved or being saved
\* (schedule_session_save, start_background_session_save).
THEOREM ChangesAreScheduled == Spec => []NothingForgotten
<1>1. Init => NothingForgotten
  BY DEF Init, NothingForgotten
<1>2. QED
  BY <1>1, AlwaysIInv, StepForgetsNothing, PTL DEF Spec

\* Saves reach the file in the order they were captured.
THEOREM NewestWins == Spec => NewerSaveWins
<1>1. Spec => [][SaveInOrder]_vars
  BY AlwaysIInv, StepInOrder, PTL DEF Spec
<1>2. QED
  BY <1>1 DEF NewerSaveWins, SaveInOrder
=============================================================================
