------------------------------- MODULE Pairing -------------------------------
(* The pairing ceremony: `herden pair` processes that each show one code,  *)
(* the forced commands that sshd starts for a bootstrap key, and what they *)
(* share: authorized_keys under its lock file, the pending and enrolled    *)
(* records, and the clock.                                                 *)
(*                                                                         *)
(* Every file operation is a step of its own, so the processes interleave  *)
(* between any two of them.  A line of authorized_keys is a bootstrap line *)
(* of a code, a device key, or a line of the user's.  Whoever holds the    *)
(* lock takes less than LOCK_STALE over an edit; with HolderFails it may   *)
(* also crash in the middle of one, or fail to write.                      *)
EXTENDS Naturals, FiniteSets

CONSTANTS
  Codes,        \* pairing ids; the display process of a code has its name
  Accepts,      \* processes started by the forced command
  DeviceKeys,   \* device keys that may be submitted
  TTL,          \* PAIRING_TTL_SECONDS, in ticks of the clock
  MaxTime,      \* bound on the clock
  MaxCrashes,   \* bound on crashes
  HolderFails   \* whether a process may crash or fail inside an edit

Procs == Codes \cup Accepts
NoKey == "noKey"
Free == "free"

ASSUME PairingAssumption ==
  /\ Codes \cap Accepts = {} /\ Free \notin Procs
  /\ TTL \in Nat \ {0} /\ MaxTime \in Nat /\ MaxCrashes \in Nat
  /\ HolderFails \in BOOLEAN

VARIABLES
  now,        \* unix_seconds
  keys,       \* the lines of authorized_keys
  pending,    \* codes with a pending record
  enrolled,   \* the device key in a code's enrolled record, or NoKey
  expires,    \* expires_at of a code
  lock,       \* the process that created the lock file, or Free
  stale,      \* the lock file is older than LOCK_STALE
  pc, op,     \* where each process is, and the edit it is in
  buf,        \* the lines it is going to write
  outcome,    \* how its edit ends
  code,       \* the pairing id it works for
  key,        \* the device key it submits, or displays as enrolled
  verdict,    \* what it exits with
  crashes

vars == <<now, keys, pending, enrolled, expires, lock, stale, pc, op, buf,
          outcome, code, key, verdict, crashes>>

User == <<"user", "user">>
Boot(c) == <<"boot", c>>
Device(k) == <<"device", k>>
Lines == {User} \cup {Boot(c) : c \in Codes} \cup {Device(k) : k \in DeviceKeys}

Init ==
  /\ now = 0
  /\ keys = {User} /\ pending = {}
  /\ enrolled = [c \in Codes |-> NoKey]
  /\ expires = [c \in Codes |-> 0]
  /\ lock = Free /\ stale = FALSE
  /\ pc = [p \in Procs |-> "idle"] /\ op = [p \in Procs |-> "none"]
  /\ buf = [p \in Procs |-> {}] /\ outcome = [p \in Procs |-> "ok"]
  /\ code \in [Procs -> Codes] /\ \A c \in Codes : code[c] = c
  /\ key = [p \in Procs |-> NoKey]
  /\ verdict = [p \in Procs |-> "none"]
  /\ crashes = 0

Tick ==
  /\ now < MaxTime
  /\ now' = now + 1
  /\ UNCHANGED <<keys, pending, enrolled, expires, lock, stale, pc, op, buf,
                 outcome, code, key, verdict, crashes>>

fileVars == <<keys, pending, enrolled>>
lockVars == <<lock, stale>>
fixedVars == <<code, crashes, now>>

Goto(p, label) == pc' = [pc EXCEPT ![p] = label]

Finish(p, v) ==
  /\ Goto(p, "done")
  /\ verdict' = [verdict EXCEPT ![p] = v]

\* p starts an edit of authorized_keys.
StartEdit(p, o) ==
  /\ Goto(p, "lock")
  /\ op' = [op EXCEPT ![p] = o]
  /\ outcome' = [outcome EXCEPT ![p] = "ok"]

-----------------------------------------------------------------------------
(* AuthorizedKeys::edit and the lock file.                                 *)

\* Mutant: the lock file is opened whether or not it exists.
AcquireAnyway(p) ==
  /\ pc[p] = "lock"
  /\ lock' = p /\ stale' = FALSE
  /\ Goto(p, "read")
  /\ UNCHANGED <<fileVars, expires, op, buf, outcome, key, verdict, fixedVars>>

Acquire(p) ==
  /\ pc[p] = "lock" /\ lock = Free
  /\ lock' = p /\ stale' = FALSE
  /\ Goto(p, "read")
  /\ UNCHANGED <<fileVars, expires, op, buf, outcome, key, verdict, fixedVars>>

\* is_stale sees an old lock file ...
SeeStale(p) ==
  /\ pc[p] = "lock" /\ lock # Free /\ stale
  /\ Goto(p, "break")
  /\ UNCHANGED <<fileVars, expires, lockVars, op, buf, outcome, key, verdict, fixedVars>>

\* ... and the path is removed, whichever file is there by then.
BreakLock(p) ==
  /\ pc[p] = "break"
  /\ lock' = Free /\ stale' = FALSE
  /\ Goto(p, "lock")
  /\ UNCHANGED <<fileVars, expires, op, buf, outcome, key, verdict, fixedVars>>

\* Where a process goes after its edit, and the verdict the edit settles.
\* A display clears its records whatever became of its edit; an accept
\* returns the error.
AfterEdit(p, o) ==
  /\ Goto(p, CASE op[p] = "sweep"  -> IF o = "ok" THEN "sweepState" ELSE "done"
               [] op[p] = "append" -> IF o = "ok" THEN "wait" ELSE "clearPending"
               [] op[p] = "remove" -> IF o = "ok" \/ p \in Codes THEN "clearPending" ELSE "done"
               [] op[p] = "enroll" -> "done")
  /\ verdict' = [verdict EXCEPT ![p] =
                   IF o # "ok" THEN o ELSE IF op[p] = "enroll" THEN "enrolled" ELSE @]

\* LOCK_TIMEOUT passes while somebody else's lock file is there.
LockTimesOut(p) ==
  /\ pc[p] = "lock" /\ lock # Free /\ ~stale
  /\ AfterEdit(p, "err")
  /\ UNCHANGED <<fileVars, expires, lockVars, op, buf, outcome, key, fixedVars>>

\* Only a lock file whose owner is gone gets old.
LockAges ==
  /\ lock # Free /\ ~stale /\ pc[lock] = "done"
  /\ stale' = TRUE
  /\ UNCHANGED <<fileVars, expires, lock, pc, op, buf, outcome, key, verdict, fixedVars>>

\* The lines as append_bootstrap, remove_bootstrap or sweep_expired leave them.
\* A sweep compares with the time its display started, TTL before it expires.
Edited(p, lines) ==
  CASE op[p] = "append" -> lines \cup {Boot(p)}
    [] op[p] = "remove" -> lines \ {Boot(code[p])}
    [] op[p] = "sweep"  -> {l \in lines : l[1] = "boot" => expires[l[2]] + TTL > expires[p]}

\* The file is read and, except for an enrollment, the edit worked out;
\* without a change nothing is written.
ReadKeys(p) ==
  /\ pc[p] = "read"
  /\ IF op[p] = "enroll"
       THEN /\ buf' = [buf EXCEPT ![p] = keys]
            /\ Goto(p, "check")
       ELSE /\ buf' = [buf EXCEPT ![p] = Edited(p, keys)]
            /\ Goto(p, IF Edited(p, keys) = keys THEN "unlock" ELSE "write")
  /\ UNCHANGED <<fileVars, expires, lockVars, op, outcome, key, verdict, fixedVars>>

\* Mutant: neither the pending record nor the expiry is checked.
EnrollUnchecked(p) ==
  /\ pc[p] = "check"
  /\ LET kept == buf[p] \ {Boot(code[p])}
     IN  /\ pending' = pending \ {code[p]}
         /\ buf' = [buf EXCEPT ![p] = kept \cup {Device(key[p])}]
         /\ Goto(p, "record")
  /\ UNCHANGED <<keys, enrolled, expires, lockVars, op, outcome, key, verdict, fixedVars>>

\* enroll's callback: the pending record is required and consumed, the
\* bootstrap line goes, and unless the code expired the device key comes.
Enroll(p) ==
  /\ pc[p] = "check"
  /\ LET kept == buf[p] \ {Boot(code[p])}
     IN  \/ /\ code[p] \notin pending
            /\ outcome' = [outcome EXCEPT ![p] = "used"]
            /\ Goto(p, "unlock")
            /\ UNCHANGED <<pending, buf>>
         \/ /\ code[p] \in pending
            /\ pending' = pending \ {code[p]}
            /\ IF now > expires[code[p]]
                 THEN /\ outcome' = [outcome EXCEPT ![p] = "expired"]
                      /\ buf' = [buf EXCEPT ![p] = kept]
                      /\ Goto(p, "write")
                 ELSE /\ buf' = [buf EXCEPT ![p] = kept \cup {Device(key[p])}]
                      /\ Goto(p, "record")
                      /\ UNCHANGED outcome
  /\ UNCHANGED <<keys, enrolled, expires, lockVars, op, key, verdict, fixedVars>>

\* record_enrollment, before the keys are written.
RecordEnrollment(p) ==
  /\ pc[p] = "record"
  /\ enrolled' = [enrolled EXCEPT ![code[p]] = key[p]]
  /\ Goto(p, "write")
  /\ UNCHANGED <<keys, pending, expires, lockVars, op, buf, outcome, key, verdict, fixedVars>>

\* The temporary file replaces authorized_keys.
WriteKeys(p) ==
  /\ pc[p] = "write"
  /\ keys' = buf[p]
  /\ Goto(p, "unlock")
  /\ UNCHANGED <<pending, enrolled, expires, lockVars, op, buf, outcome, key, verdict, fixedVars>>

WriteFails(p) ==
  /\ HolderFails
  /\ pc[p] \in {"record", "write"}
  /\ outcome' = [outcome EXCEPT ![p] = "err"]
  /\ Goto(p, "unlock")
  /\ UNCHANGED <<fileVars, expires, lockVars, op, buf, key, verdict, fixedVars>>

\* LockFile::drop removes the path, whichever file is there.
Unlock(p) ==
  /\ pc[p] = "unlock"
  /\ lock' = Free /\ stale' = FALSE
  /\ AfterEdit(p, outcome[p])
  /\ buf' = [buf EXCEPT ![p] = {}]
  /\ UNCHANGED <<fileVars, expires, op, outcome, key, fixedVars>>

-----------------------------------------------------------------------------
(* PairingState::clear, which takes no lock.                               *)

ClearPending(p) ==
  /\ pc[p] = "clearPending"
  /\ pending' = pending \ {code[p]}
  /\ Goto(p, "clearEnrolled")
  /\ UNCHANGED <<keys, enrolled, expires, lockVars, op, buf, outcome, key, verdict, fixedVars>>

ClearEnrolled(p) ==
  /\ pc[p] = "clearEnrolled"
  /\ enrolled' = [enrolled EXCEPT ![code[p]] = NoKey]
  /\ Goto(p, "done")
  /\ UNCHANGED <<keys, pending, expires, lockVars, op, buf, outcome, key, verdict, fixedVars>>

-----------------------------------------------------------------------------
(* display.                                                                *)

\* The time is taken once, for the sweeps and for the code's expiry.
BeginDisplay(c) ==
  /\ pc[c] = "idle" /\ now + TTL < MaxTime
  /\ expires' = [expires EXCEPT ![c] = now + TTL]
  /\ StartEdit(c, "sweep")
  /\ UNCHANGED <<fileVars, lockVars, buf, key, verdict, fixedVars>>

\* PairingState::sweep_expired: an enrolled record is kept for another TTL.
SweepState(c) ==
  /\ pc[c] = "sweepState"
  /\ pending' = {d \in pending : expires[d] + TTL > expires[c]}
  /\ enrolled' = [d \in Codes |->
                    IF expires[d] + 2 * TTL > expires[c] THEN enrolled[d] ELSE NoKey]
  /\ Goto(c, "prepare")
  /\ UNCHANGED <<keys, expires, lockVars, op, buf, outcome, key, verdict, fixedVars>>

\* No address, no host key or no user name, or the record cannot be written.
DisplayStops(c) ==
  /\ pc[c] = "prepare"
  /\ Finish(c, "err")
  /\ UNCHANGED <<fileVars, expires, lockVars, op, buf, outcome, key, fixedVars>>

WritePending(c) ==
  /\ pc[c] = "prepare"
  /\ pending' = pending \cup {c}
  /\ StartEdit(c, "append")
  /\ UNCHANGED <<keys, enrolled, expires, lockVars, buf, key, verdict, fixedVars>>

\* Mutant: the display only clears its records.
LeaveLoopClearing(c, v) ==
  /\ pc[c] = "wait"
  /\ verdict' = [verdict EXCEPT ![c] = v]
  /\ Goto(c, "clearPending")
  /\ UNCHANGED <<fileVars, expires, lockVars, op, outcome, buf, fixedVars>>

\* Mutant: once a device is enrolled the display makes no edit of its own.
LeaveLoopTrusting(c, v) ==
  /\ pc[c] = "wait"
  /\ verdict' = [verdict EXCEPT ![c] = v]
  /\ IF v = "paired" THEN Goto(c, "clearPending") /\ UNCHANGED <<op, outcome>>
                     ELSE StartEdit(c, "remove")
  /\ UNCHANGED <<fileVars, expires, lockVars, buf, fixedVars>>

\* The display leaves its loop with a verdict and cleans up.
LeaveLoop(c, v) ==
  /\ pc[c] = "wait"
  /\ verdict' = [verdict EXCEPT ![c] = v]
  /\ StartEdit(c, "remove")
  /\ UNCHANGED <<fileVars, expires, lockVars, buf, fixedVars>>

SeeEnrollment(c) ==
  /\ enrolled[c] # NoKey
  /\ key' = [key EXCEPT ![c] = enrolled[c]]
  /\ LeaveLoop(c, "paired")

\* Mutant: only a code that is still pending expires.
ExpirePending(c) ==
  /\ now > expires[c] /\ enrolled[c] = NoKey /\ c \in pending
  /\ LeaveLoop(c, "expired")
  /\ UNCHANGED key

\* The record is read once more when the time is up.
Expire(c) ==
  /\ now > expires[c] /\ enrolled[c] = NoKey
  /\ LeaveLoop(c, "expired")
  /\ UNCHANGED key

\* A signal, a key press or an error.
Cancel(c) ==
  /\ \E v \in {"cancelled", "err"} : LeaveLoop(c, v)
  /\ UNCHANGED key

-----------------------------------------------------------------------------
(* accept.                                                                 *)

\* sshd starts the forced command of a line of authorized_keys.
BeginAccept(a) ==
  /\ pc[a] = "idle" /\ Boot(code[a]) \in keys
  /\ Goto(a, "readPending")
  /\ UNCHANGED <<fileVars, expires, lockVars, op, buf, outcome, key, verdict, fixedVars>>

ReadPending(a) ==
  /\ pc[a] = "readPending"
  /\ \/ /\ code[a] \in pending /\ now <= expires[code[a]]
        /\ Goto(a, "submit")
        /\ UNCHANGED <<op, outcome, verdict>>
     \/ /\ code[a] \notin pending \/ now > expires[code[a]]
        /\ verdict' = [verdict EXCEPT ![a] =
                         IF code[a] \in pending THEN "expired" ELSE "unknown"]
        /\ StartEdit(a, "remove")
  /\ UNCHANGED <<fileVars, expires, lockVars, buf, key, fixedVars>>

Submit(a) ==
  /\ pc[a] = "submit"
  /\ \E k \in DeviceKeys : key' = [key EXCEPT ![a] = k]
  /\ StartEdit(a, "enroll")
  /\ UNCHANGED <<fileVars, expires, lockVars, buf, verdict, fixedVars>>

\* No line within ENROLLMENT_INPUT_TIMEOUT, or one that is not a key.
SubmitNothing(a) ==
  /\ pc[a] = "submit"
  /\ Finish(a, "noInput")
  /\ UNCHANGED <<fileVars, expires, lockVars, op, buf, outcome, key, fixedVars>>

-----------------------------------------------------------------------------
InEdit == {"read", "check", "record", "write", "unlock"}

Crash(p) ==
  /\ pc[p] \notin {"idle", "done"}
  /\ HolderFails \/ pc[p] \notin InEdit
  /\ crashes < MaxCrashes /\ crashes' = crashes + 1
  /\ Finish(p, "crashed")
  /\ UNCHANGED <<fileVars, expires, lockVars, op, buf, outcome, code, key, now>>

EditStep(p) ==
  \/ Acquire(p) \/ SeeStale(p) \/ BreakLock(p) \/ LockTimesOut(p) \/ ReadKeys(p)
  \/ Enroll(p) \/ RecordEnrollment(p) \/ WriteKeys(p) \/ WriteFails(p) \/ Unlock(p)
  \/ ClearPending(p) \/ ClearEnrolled(p)

DisplayStep(c) ==
  \/ SweepState(c) \/ DisplayStops(c) \/ WritePending(c)
  \/ SeeEnrollment(c) \/ Expire(c)

AcceptStep(a) == ReadPending(a) \/ Submit(a) \/ SubmitNothing(a)

Next ==
  \/ Tick \/ LockAges
  \/ \E p \in Procs : EditStep(p) \/ Crash(p)
  \/ \E c \in Codes : BeginDisplay(c) \/ DisplayStep(c) \/ Cancel(c)
  \/ \E a \in Accepts : BeginAccept(a) \/ AcceptStep(a)

Spec == Init /\ [][Next]_vars

\* Time passes and a process that has started goes on.
FairSpec ==
  /\ Spec
  /\ WF_vars(Tick) /\ WF_vars(LockAges)
  /\ \A p \in Procs : WF_vars(EditStep(p))
  /\ \A c \in Codes : WF_vars(DisplayStep(c))
  /\ \A a \in Accepts : WF_vars(AcceptStep(a))

-----------------------------------------------------------------------------
(* Properties.                                                             *)

\* Every variable keeps its type.
TypeOK ==
  /\ now \in 0 .. MaxTime
  /\ keys \subseteq Lines /\ pending \subseteq Codes
  /\ enrolled \in [Codes -> DeviceKeys \cup {NoKey}]
  /\ expires \in [Codes -> 0 .. MaxTime]
  /\ lock \in Procs \cup {Free} /\ stale \in BOOLEAN
  /\ pc \in [Procs -> InEdit \cup
       {"idle", "lock", "break", "sweepState", "prepare", "wait", "clearPending",
        "clearEnrolled", "readPending", "submit", "done"}]
  /\ op \in [Procs -> {"none", "sweep", "append", "remove", "enroll"}]
  /\ buf \in [Procs -> SUBSET Lines]
  /\ outcome \in [Procs -> {"ok", "err", "used", "expired"}]
  /\ code \in [Procs -> Codes]
  /\ key \in [Procs -> DeviceKeys \cup {NoKey}]
  /\ verdict \in [Procs -> {"none", "err", "used", "expired", "unknown", "noInput",
                            "enrolled", "paired", "cancelled", "crashed"}]
  /\ crashes \in 0 .. MaxCrashes

\* A code enrolls one device: of all the forced commands started for it, with
\* the same key or another, at most one answers OK.
OneDevicePerCode ==
  \A a, b \in Accepts :
    a # b /\ code[a] = code[b] => ~(verdict[a] = "enrolled" /\ verdict[b] = "enrolled")

LinesStay == \A l \in keys : l[1] # "boot" => l \in keys'

\* No rewrite of authorized_keys drops a line of the user's or a device key:
\* concurrent edits do not overwrite one another.
NoLineLost == [][LinesStay]_vars

\* A display that exits with a verdict of its own has left no bootstrap line
\* and no pending record, and none comes back.
CleanExit ==
  \A c \in Codes :
    pc[c] = "done" /\ verdict[c] \in {"paired", "expired", "cancelled"} =>
      Boot(c) \notin keys /\ c \notin pending

\* A display that exits with "Paired successfully" names a device key that
\* authorized_keys holds: although the record is written before the keys,
\* the display's own edit waits for the enrollment's.
PairedMeansAuthorised ==
  \A c \in Codes :
    pc[c] = "done" /\ verdict[c] = "paired" => Device(key[c]) \in keys

\* Every process that starts comes to an end: a display at the latest when
\* its code expires, and no edit waits for its lock for ever.
CeremonyEnds == \A p \in Procs : pc[p] # "idle" ~> pc[p] = "done"

\* What CONTEXT.md says of Enrollment: a device that was told OK has its key in
\* authorized_keys.
EnrolledIsAuthorised ==
  \A a \in Accepts : verdict[a] = "enrolled" => Device(key[a]) \in keys

\* What ADR 0007 says of Enrollment: the enrolled fingerprint is displayed
\* afterward, so a display does not call a code expired that enrolled a device.
EnrollmentIsDisplayed ==
  \A a \in Accepts :
    ~(verdict[a] = "enrolled" /\ pc[code[a]] = "done" /\ verdict[code[a]] = "expired")

\* What ADR 0017 says of `herden pair`: temporary authorization is cleaned up
\* on success, expiry, interruption, or error.
AlwaysCleansUp ==
  \A c \in Codes : pc[c] = "done" /\ verdict[c] # "crashed" => Boot(c) \notin keys
==============================================================================
