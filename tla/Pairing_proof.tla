---------------------------- MODULE Pairing_proof ----------------------------
(* The safety of the pairing ceremony, for any number of displays, forced    *)
(* commands and device keys, as long as no process crashes or fails with the *)
(* lock file in its hands.                                                   *)
EXTENDS Pairing, TLAPS

\* Where an edit stands, and which edits a kind of process makes.
Steps ==
  /\ \A c \in Codes :
       /\ code[c] = c /\ outcome[c] = "ok" /\ op[c] # "enroll"
       /\ pc[c] = "idle" => op[c] = "none"
       /\ pc[c] \in {"sweepState", "prepare"} => op[c] = "sweep"
  /\ \A p \in Procs :
       /\ pc[p] \in InEdit \cup {"lock"} => op[p] # "none"
       /\ pc[p] \in {"check", "record"} => op[p] = "enroll"
       /\ op[p] = "enroll" => p \in Accepts /\ key[p] \in DeviceKeys
       /\ op[p] \in {"sweep", "append"} => p \in Codes

\* Whoever is in an edit holds the lock, and the lock is never abandoned.
Exclusive ==
  /\ \A p \in Procs : pc[p] \in InEdit => lock = p
  /\ lock # Free => pc[lock] \in InEdit
  /\ stale = FALSE
  /\ \A p \in Procs : pc[p] # "break"

\* What a process is going to write has every line of the file that is not a
\* bootstrap line, and no bootstrap line beside the file's and the one it adds.
Buffers ==
  \A p \in Procs : pc[p] \in {"check", "record", "write"} =>
    /\ \A l \in keys : l[1] # "boot" => l \in buf[p]
    /\ \A c \in Codes : Boot(c) \in buf[p] => Boot(c) \in keys \/ (p = c /\ op[p] = "append")

\* A forced command whose enrollment has passed its check.
Won(a) ==
  \/ verdict[a] = "enrolled"
  \/ op[a] = "enroll" /\ outcome[a] = "ok" /\ pc[a] \in {"record", "write", "unlock"}

\* A code is pending only after its display has appended it, and an
\* enrollment has consumed it for good.
Consumed ==
  /\ \A c \in pending : op[c] \in {"append", "remove"}
  /\ \A a \in Accepts :
       /\ verdict[a] = "enrolled" => pc[a] = "done"
       /\ Won(a) => code[a] \notin pending /\ op[code[a]] \in {"append", "remove"}
  /\ \A a, b \in Accepts : a # b /\ code[a] = code[b] => ~(Won(a) /\ Won(b))

\* A line that is in the file, or that the holder of the lock is about to write.
Owed(l) == l \in keys \/ (lock # Free /\ pc[lock] = "write" /\ l \in buf[lock])

\* An enrollment that was recorded has its key written before the lock is free.
Recorded ==
  /\ \A p \in Procs : pc[p] = "record" => Device(key[p]) \in buf[p]
  /\ \A c \in Codes :
       /\ enrolled[c] # NoKey => Owed(Device(enrolled[c]))
       /\ verdict[c] = "paired" => Owed(Device(key[c]))
       /\ verdict[c] = "paired" /\ pc[c] # "lock" => Device(key[c]) \in keys

Verdicts == {"paired", "expired", "cancelled"}

\* A display with a verdict of its own is in its last edit or past it, and
\* its pending record is gone in the end.
Leaving ==
  \A c \in Codes :
    /\ verdict[c] \in Verdicts =>
         /\ op[c] = "remove"
         /\ pc[c] \in {"lock", "read", "write", "unlock", "clearPending", "clearEnrolled", "done"}
    /\ pc[c] = "clearEnrolled" => c \notin pending
    /\ verdict[c] \in Verdicts /\ pc[c] = "done" => c \notin pending

\* That edit removes the bootstrap line, and nobody brings it back.
Withdrawn ==
  \A c \in Codes : op[c] = "remove" =>
    /\ pc[c] = "write" => Boot(c) \notin buf[c]
    /\ pc[c] = "unlock" => Boot(c) \notin keys
    /\ verdict[c] \in Verdicts /\ pc[c] \in {"clearPending", "clearEnrolled", "done"} => Boot(c) \notin keys

IInv == TypeOK /\ Steps /\ Exclusive /\ Buffers /\ Consumed /\ Recorded /\ Leaving /\ Withdrawn

\* The steps that remain if no holder fails.
LiveNext ==
  \/ Tick
  \/ \E p \in Procs :
       \/ Acquire(p) \/ LockTimesOut(p) \/ ReadKeys(p) \/ Enroll(p) \/ RecordEnrollment(p)
       \/ WriteKeys(p) \/ Unlock(p) \/ ClearPending(p) \/ ClearEnrolled(p) \/ Crash(p)
  \/ \E c \in Codes : BeginDisplay(c) \/ DisplayStep(c) \/ Cancel(c)
  \/ \E a \in Accepts : BeginAccept(a) \/ AcceptStep(a)
  \/ UNCHANGED vars

\* A step of a process that is in no edit and begins none: the file, the lock
\* and what others are about to write stay, no device becomes recorded, and no
\* display is paired or past its last edit that was not before.
Aside(p) ==
  /\ pc[p] \notin InEdit /\ pc'[p] \notin InEdit \cup {"break"}
  /\ \A q \in Procs : q # p =>
       pc'[q] = pc[q] /\ op'[q] = op[q] /\ verdict'[q] = verdict[q] /\ key'[q] = key[q]
  /\ UNCHANGED <<keys, lock, stale, buf>>
  /\ \A c \in Codes :
       /\ enrolled'[c] \in {enrolled[c], NoKey}
       /\ verdict'[c] = "paired" =>
            verdict[c] = "paired" /\ key'[c] = key[c] /\ (pc[c] = "lock" => pc'[c] = "lock")
       /\ LET past == op[c] = "remove" /\ verdict[c] \in Verdicts
                     /\ pc[c] \in {"clearPending", "clearEnrolled", "done"}
          IN  past' => past

\* No lock gets stale, none is broken, and no write fails.
LEMMA OnlyLiveSteps ==
  ASSUME HolderFails = FALSE, TypeOK, Exclusive, [Next]_vars
  PROVE  LiveNext
<1>1. ~LockAges
  BY DEF LockAges, Exclusive, InEdit
<1>2. \A p \in Procs : ~SeeStale(p) /\ ~BreakLock(p) /\ ~WriteFails(p)
  BY DEF SeeStale, BreakLock, WriteFails, Exclusive
<1>3. QED
  BY <1>1, <1>2 DEF Next, LiveNext, EditStep

\* Types, and where an edit stands, are kept.
LEMMA ShapesKept ==
  ASSUME HolderFails = FALSE, TypeOK, Steps, LiveNext
  PROVE  TypeOK' /\ Steps'
<1> USE PairingAssumption DEF fileVars, lockVars, fixedVars
<1>1. CASE \E p \in Procs : Acquire(p)
  <2>1. PICK p \in Procs : Acquire(p)
    BY <1>1
  <2>2. TypeOK'
    BY <2>1 DEF Acquire, Goto, TypeOK, InEdit, Lines, Procs, Boot, Device, Steps
  <2>3. Steps'
    BY <2>1 DEF Acquire, Goto, Steps, TypeOK, InEdit, Procs
  <2> QED BY <2>2, <2>3
<1>2. CASE \E p \in Procs : LockTimesOut(p)
  BY <1>2 DEF LockTimesOut, AfterEdit, Goto, TypeOK, Steps, InEdit, Lines, Procs, Boot, Device
<1>3. CASE \E p \in Procs : ReadKeys(p)
  <2>1. PICK p \in Procs : ReadKeys(p)
    BY <1>3
  <2>2. op[p] # "enroll" => Edited(p, keys) \subseteq Lines
    BY <2>1 DEF ReadKeys, Edited, Steps, TypeOK, InEdit, Lines
  <2>3. buf' \in [Procs -> SUBSET Lines]
    BY <2>1, <2>2 DEF ReadKeys, TypeOK
  <2>4. \E x \in {"check", "unlock", "write"} :
          pc' = [pc EXCEPT ![p] = x] /\ (x = "check" => op[p] = "enroll")
    BY <2>1 DEF ReadKeys, Goto
  <2>5. /\ pc[p] = "read"
        /\ UNCHANGED <<now, keys, pending, enrolled, expires, lock, stale, op, outcome, code, key, verdict, crashes>>
    BY <2>1 DEF ReadKeys
  <2>6. TypeOK'
    BY <2>3, <2>4, <2>5 DEF TypeOK, InEdit
  <2>7. Steps'
    BY <2>4, <2>5 DEF Steps, TypeOK, InEdit, Procs
  <2> QED BY <2>6, <2>7
<1>4. CASE \E p \in Procs : Enroll(p)
  BY <1>4 DEF Enroll, Goto, TypeOK, Steps, InEdit, Lines, Procs, Boot, Device
<1>5. CASE \E p \in Procs : RecordEnrollment(p)
  BY <1>5 DEF RecordEnrollment, Goto, TypeOK, Steps, InEdit, Lines, Procs, Boot, Device
<1>6. CASE \E p \in Procs : WriteKeys(p)
  BY <1>6 DEF WriteKeys, Goto, TypeOK, Steps, InEdit, Lines, Procs, Boot, Device
<1>7. CASE \E p \in Procs : Unlock(p)
  <2>1. PICK p \in Procs : Unlock(p)
    BY <1>7
  <2>2. op[p] \in {"sweep", "append", "remove", "enroll"}
    BY <2>1 DEF Unlock, TypeOK, Steps, InEdit
  <2>3. /\ pc' \in [Procs -> {"sweepState", "wait", "clearPending", "done"} \cup InEdit \cup
               {"idle", "lock", "break", "prepare", "clearEnrolled", "readPending", "submit"}]
        /\ verdict' \in [Procs -> {"none", "err", "used", "expired", "unknown", "noInput",
                                   "enrolled", "paired", "cancelled", "crashed"}]
    BY <2>1, <2>2 DEF Unlock, AfterEdit, Goto, TypeOK
  <2>4. TypeOK'
    BY <2>1, <2>3 DEF Unlock, TypeOK, Procs
  <2>5. Steps'
    BY <2>1, <2>2 DEF Unlock, AfterEdit, Goto, Steps, TypeOK, InEdit, Procs
  <2> QED BY <2>4, <2>5
<1>8. CASE \E p \in Procs : ClearPending(p)
  BY <1>8 DEF ClearPending, Goto, TypeOK, Steps, InEdit, Lines, Procs, Boot, Device
<1>9. CASE \E p \in Procs : ClearEnrolled(p)
  BY <1>9 DEF ClearEnrolled, Goto, TypeOK, Steps, InEdit, Lines, Procs, Boot, Device
<1>10. CASE \E p \in Procs : Crash(p)
  BY <1>10 DEF Crash, Finish, Goto, TypeOK, Steps, InEdit, Lines, Procs, Boot, Device
<1>11. CASE \E c \in Codes : BeginDisplay(c)
  BY <1>11 DEF BeginDisplay, StartEdit, Goto, TypeOK, Steps, InEdit, Lines, Procs, Boot, Device
<1>12. CASE \E c \in Codes : SweepState(c)
  <2>1. PICK c \in Codes : SweepState(c)
    BY <1>12
  <2>2. TypeOK'
    BY <2>1 DEF SweepState, Goto, TypeOK, Procs
  <2>3. pc[c] = "sweepState" /\ pc' = [pc EXCEPT ![c] = "prepare"] /\ UNCHANGED <<op, outcome, code, key>>
    BY <2>1 DEF SweepState, Goto
  <2>4. op[c] = "sweep"
    BY <2>3 DEF Steps
  <2>5. Steps'
    BY <2>3, <2>4 DEF Steps, TypeOK, InEdit, Procs
  <2> QED BY <2>2, <2>5
<1>13. CASE \E c \in Codes : DisplayStops(c)
  BY <1>13 DEF DisplayStops, Finish, Goto, TypeOK, Steps, InEdit, Lines, Procs, Boot, Device
<1>14. CASE \E c \in Codes : WritePending(c)
  BY <1>14 DEF WritePending, StartEdit, Goto, TypeOK, Steps, InEdit, Lines, Procs, Boot, Device
<1>15. CASE \E c \in Codes : SeeEnrollment(c)
  BY <1>15 DEF SeeEnrollment, LeaveLoop, StartEdit, Goto, TypeOK, Steps, InEdit, Lines, Procs,
    Boot, Device
<1>16. CASE \E c \in Codes : Expire(c)
  BY <1>16 DEF Expire, LeaveLoop, StartEdit, Goto, TypeOK, Steps, InEdit, Lines, Procs, Boot,
    Device
<1>17. CASE \E c \in Codes : Cancel(c)
  BY <1>17 DEF Cancel, LeaveLoop, StartEdit, Goto, TypeOK, Steps, InEdit, Lines, Procs, Boot,
    Device
<1>18. CASE \E a \in Accepts : BeginAccept(a)
  BY <1>18 DEF BeginAccept, Goto, TypeOK, Steps, InEdit, Lines, Procs, Boot, Device
<1>19. CASE \E a \in Accepts : ReadPending(a)
  BY <1>19 DEF ReadPending, StartEdit, Goto, TypeOK, Steps, InEdit, Lines, Procs, Boot, Device
<1>20. CASE \E a \in Accepts : Submit(a)
  BY <1>20 DEF Submit, StartEdit, Goto, TypeOK, Steps, InEdit, Lines, Procs, Boot, Device
<1>21. CASE \E a \in Accepts : SubmitNothing(a)
  BY <1>21 DEF SubmitNothing, Finish, Goto, TypeOK, Steps, InEdit, Lines, Procs, Boot, Device
<1>22. CASE Tick
  BY <1>22 DEF Tick, TypeOK, Steps, InEdit, Lines, Procs, Boot, Device
<1>23. CASE UNCHANGED vars
  BY <1>23 DEF vars, TypeOK, Steps, InEdit, Lines, Procs, Boot, Device
<1>24. QED
  BY <1>1, <1>2, <1>3, <1>4, <1>5, <1>6, <1>7, <1>8, <1>9, <1>10, <1>11, <1>12, <1>13, <1>14,
    <1>15, <1>16, <1>17, <1>18, <1>19, <1>20, <1>21, <1>22, <1>23 DEF LiveNext, DisplayStep,
    AcceptStep

\* A display that leaves its loop is on its way out.
LEMMA LeavingKept ==
  ASSUME HolderFails = FALSE, TypeOK, Steps, Exclusive, Leaving, LiveNext
  PROVE  Leaving'
<1> USE PairingAssumption DEF fileVars, lockVars, fixedVars, TypeOK, Steps, Exclusive, Leaving,
  Verdicts, InEdit, Procs
<1>1. CASE \E p \in Procs : Acquire(p)
  BY <1>1 DEF Acquire, Goto
<1>2. CASE \E p \in Procs : LockTimesOut(p)
  BY <1>2 DEF LockTimesOut, AfterEdit, Goto
<1>3. CASE \E p \in Procs : ReadKeys(p)
  BY <1>3 DEF ReadKeys, Goto, Edited
<1>4. CASE \E p \in Procs : Enroll(p)
  BY <1>4 DEF Enroll, Goto
<1>5. CASE \E p \in Procs : RecordEnrollment(p)
  BY <1>5 DEF RecordEnrollment, Goto
<1>6. CASE \E p \in Procs : WriteKeys(p)
  BY <1>6 DEF WriteKeys, Goto
<1>7. CASE \E p \in Procs : Unlock(p)
  BY <1>7 DEF Unlock, AfterEdit, Goto
<1>8. CASE \E p \in Procs : ClearPending(p)
  BY <1>8 DEF ClearPending, Goto
<1>9. CASE \E p \in Procs : ClearEnrolled(p)
  BY <1>9 DEF ClearEnrolled, Goto
<1>10. CASE \E p \in Procs : Crash(p)
  BY <1>10 DEF Crash, Finish, Goto
<1>11. CASE \E c \in Codes : BeginDisplay(c)
  BY <1>11 DEF BeginDisplay, StartEdit, Goto
<1>12. CASE \E c \in Codes : SweepState(c)
  BY <1>12 DEF SweepState, Goto
<1>13. CASE \E c \in Codes : DisplayStops(c)
  BY <1>13 DEF DisplayStops, Finish, Goto
<1>14. CASE \E c \in Codes : WritePending(c)
  BY <1>14 DEF WritePending, StartEdit, Goto
<1>15. CASE \E c \in Codes : SeeEnrollment(c)
  BY <1>15 DEF SeeEnrollment, LeaveLoop, StartEdit, Goto
<1>16. CASE \E c \in Codes : Expire(c)
  BY <1>16 DEF Expire, LeaveLoop, StartEdit, Goto
<1>17. CASE \E c \in Codes : Cancel(c)
  BY <1>17 DEF Cancel, LeaveLoop, StartEdit, Goto
<1>18. CASE \E a \in Accepts : BeginAccept(a)
  BY <1>18 DEF BeginAccept, Goto
<1>19. CASE \E a \in Accepts : ReadPending(a)
  BY <1>19 DEF ReadPending, StartEdit, Goto
<1>20. CASE \E a \in Accepts : Submit(a)
  BY <1>20 DEF Submit, StartEdit, Goto
<1>21. CASE \E a \in Accepts : SubmitNothing(a)
  BY <1>21 DEF SubmitNothing, Finish, Goto
<1>22. CASE Tick
  BY <1>22 DEF Tick
<1>23. CASE UNCHANGED vars
  BY <1>23 DEF vars
<1>24. QED
  BY <1>1, <1>2, <1>3, <1>4, <1>5, <1>6, <1>7, <1>8, <1>9, <1>10, <1>11, <1>12, <1>13, <1>14,
    <1>15, <1>16, <1>17, <1>18, <1>19, <1>20, <1>21, <1>22, <1>23 DEF LiveNext, DisplayStep,
    AcceptStep

\* Every other step than these is one beside the edits.
LEMMA EditsOrAside ==
  ASSUME TypeOK, Steps, Leaving, LiveNext, HolderFails = FALSE
  PROVE  \/ \E p \in Procs : \/ Acquire(p) \/ ReadKeys(p) \/ Enroll(p)
                               \/ RecordEnrollment(p) \/ WriteKeys(p) \/ Unlock(p)
         \/ \E c \in Codes : SeeEnrollment(c)
         \/ \E p \in Procs : Aside(p)
         \/ Tick \/ UNCHANGED vars
<1> USE PairingAssumption DEF fileVars, lockVars, fixedVars
<1>1. ASSUME NEW p \in Procs, LockTimesOut(p) PROVE Aside(p)
  BY <1>1 DEF LockTimesOut, AfterEdit, Goto, TypeOK, Aside, Verdicts, InEdit, Procs, Steps
<1>2. ASSUME NEW p \in Procs, ClearPending(p) PROVE Aside(p)
  BY <1>2 DEF ClearPending, Goto, TypeOK, Aside, Verdicts, InEdit, Procs, Leaving
<1>3. ASSUME NEW p \in Procs, ClearEnrolled(p) PROVE Aside(p)
  BY <1>3 DEF ClearEnrolled, Goto, TypeOK, Aside, Verdicts, InEdit, Procs
<1>4. ASSUME NEW p \in Procs, Crash(p) PROVE Aside(p)
  BY <1>4 DEF Crash, Finish, Goto, TypeOK, Aside, Verdicts, InEdit, Procs
<1>5. ASSUME NEW c \in Codes, BeginDisplay(c) PROVE Aside(c)
  BY <1>5 DEF BeginDisplay, StartEdit, Goto, TypeOK, Aside, Verdicts, InEdit, Procs
<1>6. ASSUME NEW c \in Codes, SweepState(c) PROVE Aside(c)
  BY <1>6 DEF SweepState, Goto, TypeOK, Aside, Verdicts, InEdit, Procs
<1>7. ASSUME NEW c \in Codes, DisplayStops(c) PROVE Aside(c)
  BY <1>7 DEF DisplayStops, Finish, Goto, TypeOK, Aside, Verdicts, InEdit, Procs
<1>8. ASSUME NEW c \in Codes, WritePending(c) PROVE Aside(c)
  BY <1>8 DEF WritePending, StartEdit, Goto, TypeOK, Aside, Verdicts, InEdit, Procs
<1>9. ASSUME NEW c \in Codes, Expire(c) PROVE Aside(c)
  BY <1>9 DEF Expire, LeaveLoop, StartEdit, Goto, TypeOK, Aside, Verdicts, InEdit, Procs
<1>10. ASSUME NEW c \in Codes, Cancel(c) PROVE Aside(c)
  BY <1>10 DEF Cancel, LeaveLoop, StartEdit, Goto, TypeOK, Aside, Verdicts, InEdit, Procs
<1>11. ASSUME NEW a \in Accepts, BeginAccept(a) PROVE Aside(a)
  BY <1>11 DEF BeginAccept, Goto, TypeOK, Aside, Verdicts, InEdit, Procs
<1>12. ASSUME NEW a \in Accepts, ReadPending(a) PROVE Aside(a)
  BY <1>12 DEF ReadPending, StartEdit, Goto, TypeOK, Aside, Verdicts, InEdit, Procs
<1>13. ASSUME NEW a \in Accepts, Submit(a) PROVE Aside(a)
  BY <1>13 DEF Submit, StartEdit, Goto, TypeOK, Aside, Verdicts, InEdit, Procs
<1>14. ASSUME NEW a \in Accepts, SubmitNothing(a) PROVE Aside(a)
  BY <1>14 DEF SubmitNothing, Finish, Goto, TypeOK, Aside, Verdicts, InEdit, Procs
<1>15. QED
  BY <1>1, <1>2, <1>3, <1>4, <1>5, <1>6, <1>7, <1>8, <1>9, <1>10, <1>11, <1>12, <1>13, <1>14 DEF
    LiveNext, DisplayStep, AcceptStep, Procs

\* Processes exclude one another.
LEMMA LockKept ==
  ASSUME HolderFails = FALSE, TypeOK, Steps, Exclusive, Leaving, LiveNext
  PROVE  Exclusive'
<1> USE PairingAssumption DEF fileVars, lockVars, fixedVars
<1>1. CASE \E p \in Procs : Acquire(p)
  BY <1>1 DEF Acquire, Goto, TypeOK, Exclusive, InEdit
<1>2. CASE \E p \in Procs : ReadKeys(p)
  BY <1>2 DEF ReadKeys, Goto, Edited, TypeOK, Exclusive, InEdit
<1>3. CASE \E p \in Procs : Enroll(p)
  BY <1>3 DEF Enroll, Goto, TypeOK, Exclusive, InEdit
<1>4. CASE \E p \in Procs : RecordEnrollment(p)
  BY <1>4 DEF RecordEnrollment, Goto, TypeOK, Exclusive, InEdit
<1>5. CASE \E p \in Procs : WriteKeys(p)
  BY <1>5 DEF WriteKeys, Goto, TypeOK, Exclusive, InEdit
<1>6. CASE \E p \in Procs : Unlock(p)
  BY <1>6 DEF Unlock, AfterEdit, Goto, TypeOK, Steps, Exclusive, InEdit
<1>7. CASE \E c \in Codes : SeeEnrollment(c)
  BY <1>7 DEF SeeEnrollment, LeaveLoop, StartEdit, Goto, TypeOK, Exclusive, InEdit
<1>8. CASE \E p \in Procs : Aside(p)
  BY <1>8 DEF Aside, Exclusive, TypeOK
<1>9. CASE Tick \/ UNCHANGED vars
  BY <1>9 DEF Tick, vars, Exclusive
<1>10. QED
  BY <1>1, <1>2, <1>3, <1>4, <1>5, <1>6, <1>7, <1>8, <1>9, EditsOrAside

\* What is going to be written covers what is there.
LEMMA BuffersKept ==
  ASSUME HolderFails = FALSE, TypeOK, Steps, Exclusive, Buffers, Leaving, LiveNext
  PROVE  Buffers' /\ LinesStay
<1> USE PairingAssumption DEF fileVars, lockVars, fixedVars
<1>1. CASE \E p \in Procs : Acquire(p)
  BY <1>1 DEF Acquire, Goto, TypeOK, Buffers, LinesStay
<1>2. CASE \E p \in Procs : ReadKeys(p)
  BY <1>2 DEF ReadKeys, Goto, Edited, TypeOK, Steps, Buffers, LinesStay, Boot
<1>3. CASE \E p \in Procs : Enroll(p)
  BY <1>3 DEF Enroll, Goto, TypeOK, Buffers, LinesStay, Boot, Device
<1>4. CASE \E p \in Procs : RecordEnrollment(p)
  BY <1>4 DEF RecordEnrollment, Goto, TypeOK, Buffers, LinesStay
<1>5. CASE \E p \in Procs : WriteKeys(p)
  BY <1>5 DEF WriteKeys, Goto, TypeOK, Exclusive, Buffers, LinesStay, InEdit
<1>6. CASE \E p \in Procs : Unlock(p)
  BY <1>6 DEF Unlock, AfterEdit, Goto, TypeOK, Steps, Buffers, LinesStay
<1>7. CASE \E c \in Codes : SeeEnrollment(c)
  BY <1>7 DEF SeeEnrollment, LeaveLoop, StartEdit, Goto, TypeOK, Buffers, LinesStay
<1>8. CASE \E p \in Procs : Aside(p)
  BY <1>8 DEF Aside, Buffers, LinesStay, InEdit
<1>9. CASE Tick \/ UNCHANGED vars
  BY <1>9 DEF Tick, vars, Buffers, LinesStay
<1>10. QED
  BY <1>1, <1>2, <1>3, <1>4, <1>5, <1>6, <1>7, <1>8, <1>9, EditsOrAside

\* A code is consumed once.
LEMMA ConsumedKept ==
  ASSUME HolderFails = FALSE, TypeOK, Steps, Exclusive, Consumed, LiveNext
  PROVE  Consumed'
<1> USE PairingAssumption DEF fileVars, lockVars, fixedVars, TypeOK, Steps, Exclusive, Consumed,
  Won, InEdit, Procs
<1>1. CASE \E p \in Procs : Acquire(p)
  BY <1>1 DEF Acquire, Goto
<1>2. CASE \E p \in Procs : LockTimesOut(p)
  BY <1>2 DEF LockTimesOut, AfterEdit, Goto
<1>3. CASE \E p \in Procs : ReadKeys(p)
  BY <1>3 DEF ReadKeys, Goto, Edited
<1>4. CASE \E p \in Procs : Enroll(p)
  BY <1>4 DEF Enroll, Goto
<1>5. CASE \E p \in Procs : RecordEnrollment(p)
  BY <1>5 DEF RecordEnrollment, Goto
<1>6. CASE \E p \in Procs : WriteKeys(p)
  BY <1>6 DEF WriteKeys, Goto
<1>7. CASE \E p \in Procs : Unlock(p)
  BY <1>7 DEF Unlock, AfterEdit, Goto
<1>8. CASE \E p \in Procs : ClearPending(p)
  BY <1>8 DEF ClearPending, Goto
<1>9. CASE \E p \in Procs : ClearEnrolled(p)
  BY <1>9 DEF ClearEnrolled, Goto
<1>10. CASE \E p \in Procs : Crash(p)
  BY <1>10 DEF Crash, Finish, Goto
<1>11. CASE \E c \in Codes : BeginDisplay(c)
  BY <1>11 DEF BeginDisplay, StartEdit, Goto
<1>12. CASE \E c \in Codes : SweepState(c)
  BY <1>12 DEF SweepState, Goto
<1>13. CASE \E c \in Codes : DisplayStops(c)
  BY <1>13 DEF DisplayStops, Finish, Goto
<1>14. CASE \E c \in Codes : WritePending(c)
  BY <1>14 DEF WritePending, StartEdit, Goto
<1>15. CASE \E c \in Codes : SeeEnrollment(c)
  BY <1>15 DEF SeeEnrollment, LeaveLoop, StartEdit, Goto
<1>16. CASE \E c \in Codes : Expire(c)
  BY <1>16 DEF Expire, LeaveLoop, StartEdit, Goto
<1>17. CASE \E c \in Codes : Cancel(c)
  BY <1>17 DEF Cancel, LeaveLoop, StartEdit, Goto
<1>18. CASE \E a \in Accepts : BeginAccept(a)
  BY <1>18 DEF BeginAccept, Goto
<1>19. CASE \E a \in Accepts : ReadPending(a)
  BY <1>19 DEF ReadPending, StartEdit, Goto
<1>20. CASE \E a \in Accepts : Submit(a)
  BY <1>20 DEF Submit, StartEdit, Goto
<1>21. CASE \E a \in Accepts : SubmitNothing(a)
  BY <1>21 DEF SubmitNothing, Finish, Goto
<1>22. CASE Tick
  BY <1>22 DEF Tick
<1>23. CASE UNCHANGED vars
  BY <1>23 DEF vars
<1>24. QED
  BY <1>1, <1>2, <1>3, <1>4, <1>5, <1>6, <1>7, <1>8, <1>9, <1>10, <1>11, <1>12, <1>13, <1>14,
    <1>15, <1>16, <1>17, <1>18, <1>19, <1>20, <1>21, <1>22, <1>23 DEF LiveNext, DisplayStep,
    AcceptStep

\* A recorded enrollment is written.
LEMMA RecordedKept ==
  ASSUME HolderFails = FALSE, TypeOK, Steps, Exclusive, Buffers, Recorded, Leaving, LiveNext
  PROVE  Recorded'
<1> USE PairingAssumption DEF fileVars, lockVars, fixedVars
<1>1. CASE \E p \in Procs : Acquire(p)
  BY <1>1 DEF Acquire, Goto, TypeOK, Recorded, Owed
<1>2. CASE \E p \in Procs : ReadKeys(p)
  BY <1>2 DEF ReadKeys, Goto, Edited, TypeOK, Steps, Recorded, Leaving, Owed, InEdit, Procs
<1>3. CASE \E p \in Procs : Enroll(p)
  BY <1>3 DEF Enroll, Goto, TypeOK, Buffers, Recorded, Leaving, Verdicts, Owed, Procs, Boot
<1>4. CASE \E p \in Procs : RecordEnrollment(p)
  <2>1. PICK p \in Procs : RecordEnrollment(p)
    BY <1>4
  <2>2. /\ lock = p /\ p # Free /\ pc[p] = "record" /\ pc' = [pc EXCEPT ![p] = "write"]
        /\ op[p] = "enroll" /\ Device(key[p]) \in buf[p]
        /\ UNCHANGED <<keys, lock, buf, key, verdict>>
    <3>1. /\ pc[p] = "record" /\ pc' = [pc EXCEPT ![p] = "write"]
          /\ UNCHANGED <<keys, lock, buf, key, verdict>>
      BY <2>1 DEF RecordEnrollment, Goto
    <3>2. lock = p /\ p # Free
      BY <3>1 DEF Exclusive, InEdit
    <3>3. op[p] = "enroll" /\ Device(key[p]) \in buf[p]
      BY <3>1 DEF Recorded, Steps
    <3>4. QED
      BY <3>1, <3>2, <3>3
  <2>3. \A l : Owed(l) => l \in keys
    BY <2>2 DEF Owed
  <2>4. \A l : l \in keys \/ l \in buf[p] => Owed(l)'
    BY <2>2 DEF Owed, TypeOK
  <2>5. \A d \in Codes : enrolled'[d] = enrolled[d] \/ enrolled'[d] = key[p]
    BY <2>1 DEF RecordEnrollment, TypeOK
  <2>6. \A d \in Codes : (enrolled[d] # NoKey => Owed(Device(enrolled[d])))'
    BY <2>2, <2>3, <2>4, <2>5 DEF Recorded, Device
  <2>7. \A d \in Codes : d # p
    BY <2>2 DEF Steps
  <2>8. \A d \in Codes : (verdict[d] = "paired" => Owed(Device(key[d])))'
    BY <2>2, <2>3, <2>4 DEF Recorded, Device
  <2>9. \A d \in Codes : (verdict[d] = "paired" /\ pc[d] # "lock" => Device(key[d]) \in keys)'
    BY <2>2, <2>7 DEF Recorded, TypeOK, Procs, Device
  <2>10. \A q \in Procs : (pc[q] = "record" => Device(key[q]) \in buf[q])'
    BY <2>2 DEF Recorded, TypeOK, Device
  <2>11. QED
    BY <2>6, <2>8, <2>9, <2>10 DEF Recorded
<1>5. CASE \E p \in Procs : WriteKeys(p)
  BY <1>5 DEF WriteKeys, Goto, TypeOK, Buffers, Recorded, Owed, Device
<1>6. CASE \E p \in Procs : Unlock(p)
  BY <1>6 DEF Unlock, AfterEdit, Goto, TypeOK, Steps, Exclusive, Recorded, Owed, InEdit
<1>7. CASE \E c \in Codes : SeeEnrollment(c)
  BY <1>7 DEF SeeEnrollment, LeaveLoop, StartEdit, Goto, TypeOK, Recorded, Owed, Procs
<1>8. CASE \E p \in Procs : Aside(p)
  <2>1. PICK p \in Procs : Aside(p)
    BY <1>8
  <2>2. \A l : Owed(l) => Owed(l)'
    <3>1. lock # Free /\ pc[lock] = "write" => lock # p /\ lock \in Procs
      BY <2>1 DEF Aside, InEdit, TypeOK
    <3>2. QED
      BY <2>1, <3>1 DEF Aside, Owed
  <2>3. \A q \in Procs : (pc[q] = "record" => Device(key[q]) \in buf[q])'
    BY <2>1 DEF Aside, Recorded, InEdit, Device
  <2>4. \A c \in Codes : (enrolled[c] # NoKey => Owed(Device(enrolled[c])))'
    BY <2>1, <2>2 DEF Aside, Recorded, Device
  <2>5. \A c \in Codes : (verdict[c] = "paired" => Owed(Device(key[c])))'
    BY <2>1, <2>2 DEF Aside, Recorded, Device
  <2>6. \A c \in Codes : (verdict[c] = "paired" /\ pc[c] # "lock" => Device(key[c]) \in keys)'
    BY <2>1 DEF Aside, Recorded, Device
  <2>7. QED
    BY <2>3, <2>4, <2>5, <2>6 DEF Recorded
<1>9. CASE Tick \/ UNCHANGED vars
  BY <1>9 DEF Tick, vars, Recorded, Owed
<1>10. QED
  BY <1>1, <1>2, <1>3, <1>4, <1>5, <1>6, <1>7, <1>8, <1>9, EditsOrAside

\* A bootstrap line that was removed stays away.
LEMMA WithdrawnKept ==
  ASSUME HolderFails = FALSE, TypeOK, Steps, Exclusive, Buffers, Leaving, Withdrawn, LiveNext
  PROVE  Withdrawn'
<1> USE PairingAssumption DEF fileVars, lockVars, fixedVars
<1>1. CASE \E p \in Procs : Acquire(p)
  BY <1>1 DEF Acquire, Goto, TypeOK, Withdrawn
<1>2. CASE \E p \in Procs : ReadKeys(p)
  BY <1>2 DEF ReadKeys, Goto, Edited, TypeOK, Steps, Withdrawn, Procs
<1>3. CASE \E p \in Procs : Enroll(p)
  BY <1>3 DEF Enroll, Goto, TypeOK, Steps, Withdrawn, Procs
<1>4. CASE \E p \in Procs : RecordEnrollment(p)
  BY <1>4 DEF RecordEnrollment, Goto, TypeOK, Steps, Withdrawn
<1>5. CASE \E p \in Procs : WriteKeys(p)
  BY <1>5 DEF WriteKeys, Goto, TypeOK, Buffers, Withdrawn
<1>6. CASE \E p \in Procs : Unlock(p)
  BY <1>6 DEF Unlock, AfterEdit, Goto, TypeOK, Withdrawn
<1>7. CASE \E c \in Codes : SeeEnrollment(c)
  BY <1>7 DEF SeeEnrollment, LeaveLoop, StartEdit, Goto, TypeOK, Withdrawn
<1>8. CASE \E p \in Procs : Aside(p)
  BY <1>8 DEF Aside, Withdrawn, InEdit, Procs
<1>9. CASE Tick \/ UNCHANGED vars
  BY <1>9 DEF Tick, vars, Withdrawn
<1>10. QED
  BY <1>1, <1>2, <1>3, <1>4, <1>5, <1>6, <1>7, <1>8, <1>9, EditsOrAside

\* The inductive invariant.
LEMMA Invariance ==
  ASSUME HolderFails = FALSE
  PROVE  Spec => []IInv
<1>1. Init => IInv
  <2> SUFFICES ASSUME Init PROVE IInv
    OBVIOUS
  <2> USE PairingAssumption DEF Init, Procs
  <2>1. TypeOK
    <3>1. stale \in BOOLEAN /\ keys \subseteq Lines /\ pending \subseteq Codes
      BY DEF Lines
    <3>2. /\ now \in 0 .. MaxTime /\ crashes \in 0 .. MaxCrashes
          /\ expires \in [Codes -> 0 .. MaxTime]
      OBVIOUS
    <3>3. code \in [Procs -> Codes] /\ buf \in [Procs -> SUBSET Lines]
      OBVIOUS
    <3>4. QED BY <3>1, <3>2, <3>3 DEF TypeOK
  <2>2. Steps /\ Exclusive /\ Leaving /\ Withdrawn
    BY DEF Steps, Exclusive, Leaving, Withdrawn, Verdicts, InEdit
  <2>3. Buffers /\ Consumed /\ Recorded
    BY DEF Buffers, Consumed, Won, Recorded
  <2>4. QED BY <2>1, <2>2, <2>3 DEF IInv
<1>2. IInv /\ [Next]_vars => IInv'
  BY OnlyLiveSteps, ShapesKept, LockKept, BuffersKept, ConsumedKept, RecordedKept,
     LeavingKept, WithdrawnKept DEF IInv
<1>3. QED
  BY <1>1, <1>2, PTL DEF Spec

\* Every variable keeps its type, for any processes, keys and bounds.
THEOREM TypeCorrect ==
  ASSUME HolderFails = FALSE
  PROVE  Spec => []TypeOK
<1>1. IInv => TypeOK
  BY DEF IInv
<1>2. QED BY <1>1, Invariance, PTL

\* A code enrolls one device: enroll consumes the pending record under the
\* lock, and no display writes it a second time.
THEOREM OnlyOneDevice ==
  ASSUME HolderFails = FALSE
  PROVE  Spec => []OneDevicePerCode
<1>1. IInv => OneDevicePerCode
  BY DEF IInv, Consumed, Won, OneDevicePerCode
<1>2. QED BY <1>1, Invariance, PTL

\* Concurrent edits drop no line of the user's and no device key: what
\* AuthorizedKeys::edit writes was read under the same lock.
THEOREM NothingOverwritten ==
  ASSUME HolderFails = FALSE
  PROVE  Spec => NoLineLost
<1>1. IInv /\ [Next]_vars => [LinesStay]_vars
  BY OnlyLiveSteps, BuffersKept DEF IInv
<1>2. QED BY <1>1, Invariance, PTL DEF Spec, NoLineLost

\* A display that reports success names a key that is in authorized_keys.
THEOREM PairedIsAuthorised ==
  ASSUME HolderFails = FALSE
  PROVE  Spec => []PairedMeansAuthorised
<1>1. IInv => PairedMeansAuthorised
  BY DEF IInv, Recorded, PairedMeansAuthorised
<1>2. QED BY <1>1, Invariance, PTL

\* A display that exits with a verdict of its own leaves no bootstrap line and
\* no pending record.
THEOREM ExitIsClean ==
  ASSUME HolderFails = FALSE
  PROVE  Spec => []CleanExit
<1>1. IInv => CleanExit
  BY DEF IInv, Leaving, Withdrawn, Verdicts, CleanExit
<1>2. QED BY <1>1, Invariance, PTL
==============================================================================
