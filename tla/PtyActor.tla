------------------------------- MODULE PtyActor -------------------------------
(***************************************************************************)
(* One pane's PTY I/O actor: the thread that owns a PTY master            *)
(* (runtime/src/pty/actor/unix.rs, PtyIoActorRunner) and the handle the    *)
(* rest of the server talks to it through (PtyIoActorHandle).             *)
(*                                                                         *)
(* Three kinds of process interleave:                                      *)
(*   - clients call try_write_user_input and queue_user_input_submission;  *)
(*   - one server thread, the driver, takes the actor through a live       *)
(*     handoff (begin, duplicate, rollback, release) or shuts it down;     *)
(*   - the actor runs its loop: control commands, data commands, pending   *)
(*     controls, writes, the Enter of a submission, poll.                  *)
(*                                                                         *)
(* Bytes are abstracted to chunks.  A user write is one chunk, a           *)
(* submission is a text chunk and later an Enter chunk, an answer the      *)
(* terminal emulator owes the child is a response chunk.  Time is          *)
(* abstracted: a deadline that has been armed may pass at any moment.      *)
(***************************************************************************)
EXTENDS Integers, Sequences, FiniteSets

CONSTANTS
  Writes,        \* ids of user writes
  Subs,          \* ids of prompt submissions (text, pause, Enter)
  EmptyText,     \* the submissions whose text is empty
  EmptyEnter,    \* the submissions whose Enter bytes are empty
  None,          \* no id, no request
  DataBound,     \* ACTOR_COMMAND_BUFFER
  MaxRequests,   \* bound: control requests the driver makes
  MaxResponses   \* bound: terminal responses produced

ASSUME ConstantsAssumption ==
  /\ Writes \cap Subs = {}
  /\ None \notin Writes \cup Subs
  /\ EmptyText \subseteq Subs
  /\ EmptyEnter \subseteq Subs
  /\ DataBound \in Nat \ {0}
  /\ MaxRequests \in Nat
  /\ MaxResponses \in Nat

VARIABLES
  accepting,       \* UserWriteGate.accepting
  data,            \* the bounded data channel (WriteUserInput, SubmitUserInput)
  dataClosed,      \* data_rx.close() was called
  control,         \* the unbounded control channel
  responses,       \* SharedPtyControls.terminal_responses, as a count
  wake,            \* a byte is readable on the wake pipe
  pc,              \* where the actor's loop is
  back,            \* where begin_handoff and flush return to
  state,           \* ActorState
  pending,         \* pending_writes
  partial,         \* current_write_offset > 0
  active,          \* active_submission
  pendingHandoff,  \* request whose reply pending_handoff holds, or 0
  current,         \* request being served by defer_or_begin_handoff, or 0
  driver,          \* where the driver is
  request,         \* number of the driver's last request
  answer,          \* what its reply channel holds
  accepted,        \* history: data commands accepted, in order
  out,             \* history: chunks written to the PTY, in order
  replies,         \* history: the reply of each submission
  produced,        \* history: responses produced so far
  failed           \* history: a PTY write failed

handleVars == <<accepting, accepted>>
driverVars == <<driver, request, answer>>
runnerVars == <<state, pending, partial, active, pendingHandoff, current>>
historyVars == <<out, replies, failed>>
vars == <<accepting, data, dataClosed, control, responses, wake, pc, back,
          state, pending, partial, active, pendingHandoff, current, driver,
          request, answer, accepted, out, replies, produced, failed>>

DataCommands == [op : {"write"}, id : Writes] \cup [op : {"submit"}, id : Subs]
ControlOps == {"begin", "dup", "rollback", "release", "shutdown"}
Requests == 0..MaxRequests
ControlCommands == [op : ControlOps, req : Requests]
Chunks == [kind : {"user"}, id : Writes]
          \cup [kind : {"text", "enter"}, id : Subs]
          \cup [kind : {"response"}, id : {None}]
Submissions == [id : Subs, phase : {"text", "waiting", "enter"}]
NoSubmission == [id |-> None, phase |-> "none"]

ActorPcs == {"control", "data", "preDrain", "begin", "drainWrites",
             "apply", "flush", "schedule", "poll", "exit", "exited"}
DriverPcs == {"idle", "begin", "held", "dup", "abort", "rollback", "release",
              "gone"}

(***************************************************************************)
(* One type invariant: every variable keeps the shape the Rust types give  *)
(* it, and the data channel never holds more than ACTOR_COMMAND_BUFFER.    *)
(***************************************************************************)
TypeOK ==
  /\ accepting \in BOOLEAN
  /\ data \in Seq(DataCommands) /\ Len(data) <= DataBound
  /\ dataClosed \in BOOLEAN
  /\ control \in Seq(ControlCommands)
  /\ responses \in Nat
  /\ wake \in BOOLEAN
  /\ pc \in ActorPcs
  /\ back \in {"control", "apply", "schedule"}
  /\ state \in {"Running", "Quiesced", "Released"}
  /\ pending \in Seq(Chunks)
  /\ partial \in BOOLEAN
  /\ active \in Submissions \cup {NoSubmission}
  /\ pendingHandoff \in Requests
  /\ current \in Requests
  /\ driver \in DriverPcs
  /\ request \in Requests
  /\ answer \in {"none", "ok", "err"}
  /\ accepted \in Seq(DataCommands)
  /\ out \in Seq(Chunks)
  /\ replies \in [Subs -> {"none", "ok", "err"}]
  /\ produced \in Nat
  /\ failed \in BOOLEAN

(***************************************************************************)
(* spawn_inner: a fresh actor runs with its gate open; an actor imported   *)
(* from another server starts quiesced with its gate closed.               *)
(***************************************************************************)
Init ==
  /\ \/ state = "Running" /\ accepting = TRUE /\ driver = "idle"
     \/ state = "Quiesced" /\ accepting = FALSE /\ driver = "held"
  /\ data = <<>> /\ dataClosed = FALSE /\ control = <<>>
  /\ responses = 0 /\ wake = FALSE
  /\ pc = "control" /\ back = "control"
  /\ pending = <<>> /\ partial = FALSE /\ active = NoSubmission
  /\ pendingHandoff = 0 /\ current = 0
  /\ request = 0 /\ answer = "none"
  /\ accepted = <<>> /\ out = <<>> /\ replies = [s \in Subs |-> "none"]
  /\ produced = 0 /\ failed = FALSE

-----------------------------------------------------------------------------
(* Clients of the handle.  Gate, channel and wake pipe are touched under   *)
(* the user_writes lock, so each call is one step.  A call that returns an *)
(* error changes nothing and is not a step.                                *)

IsAccepted(id) == \E i \in 1..Len(accepted) : accepted[i].id = id

SendData(command) ==
  /\ accepting
  /\ ~dataClosed
  /\ Len(data) < DataBound
  /\ ~IsAccepted(command.id)
  /\ data' = Append(data, command)
  /\ accepted' = Append(accepted, command)
  /\ wake' = TRUE
  /\ UNCHANGED <<accepting, dataClosed, control, responses, pc, back, produced>>
  /\ UNCHANGED <<runnerVars, driverVars, historyVars>>

TryWriteUserInput(w) == SendData([op |-> "write", id |-> w])

QueueUserInputSubmission(s) == SendData([op |-> "submit", id |-> s])

\* Another thread owes the child a response (a colour report, a focus event).
WriteTerminalResponse ==
  /\ driver # "gone"
  /\ produced < MaxResponses
  /\ produced' = produced + 1
  /\ responses' = responses + 1
  /\ wake' = TRUE
  /\ UNCHANGED <<accepting, accepted, data, dataClosed, control, pc, back>>
  /\ UNCHANGED <<runnerVars, driverVars, historyVars>>

-----------------------------------------------------------------------------
(* The driver.  Every request opens a reply channel of its own and waits   *)
(* for it with a timeout; a reply to a request that was given up is lost.  *)

Send(op) ==
  /\ request' = request + 1
  /\ control' = Append(control, [op |-> op, req |-> request + 1])
  /\ answer' = "none"
  /\ wake' = TRUE

\* Sending fails once the actor has dropped its receiver.
ActorGone == pc = "exited"

BeginHandoff ==
  /\ driver = "idle" /\ accepting /\ ~ActorGone
  /\ request < MaxRequests
  /\ accepting' = FALSE
  /\ Send("begin")
  /\ driver' = "begin"
  /\ UNCHANGED <<accepted, data, dataClosed, responses, pc, back, produced>>
  /\ UNCHANGED <<runnerVars, historyVars>>

DuplicateForHandoff ==
  /\ driver = "held" /\ ~ActorGone
  /\ request < MaxRequests
  /\ Send("dup")
  /\ driver' = "dup"
  /\ UNCHANGED <<accepting, accepted, data, dataClosed, responses, pc, back,
                 produced, runnerVars, historyVars>>

\* set_handoff_reader_paused(false), after a failed handoff or once an
\* imported pane is owned.
SendRollback ==
  /\ request < MaxRequests
  /\ Send("rollback")
  /\ driver' = "rollback"
  /\ UNCHANGED <<accepting, accepted, data, dataClosed, responses, pc, back,
                 produced, runnerVars, historyVars>>

RollbackHandoff ==
  /\ driver \in {"held", "abort"}
  /\ ~ActorGone
  /\ SendRollback

\* begin_handoff's two failing arms: an error reply, or no reply in time.
BeginFails ==
  /\ driver = "begin"
  /\ answer # "ok"
  /\ ~ActorGone
  /\ SendRollback


ReleaseAfterCommit ==
  /\ driver = "held" /\ ~ActorGone
  /\ request < MaxRequests
  /\ accepting' = FALSE
  /\ Send("release")
  /\ driver' = "release"
  /\ UNCHANGED <<accepted, data, dataClosed, responses, pc, back, produced>>
  /\ UNCHANGED <<runnerVars, historyVars>>

\* The pane is closed: no reply is awaited, and the handles are dropped.
Shutdown ==
  /\ driver \in {"idle", "held", "abort"}
  /\ accepting' = FALSE
  /\ control' = IF ActorGone THEN control
                ELSE Append(control, [op |-> "shutdown", req |-> 0])
  /\ wake' = TRUE
  /\ driver' = "gone"
  /\ UNCHANGED <<accepted, data, dataClosed, responses, pc, back, request,
                 answer, produced, runnerVars, historyVars>>

DriverReceives ==
  /\ answer # "none"
  /\ \/ /\ driver = "begin" /\ answer = "ok"
        /\ driver' = "held" /\ UNCHANGED accepting
     \/ /\ driver = "dup"
        /\ driver' = IF answer = "ok" THEN "held" ELSE "abort"
        /\ UNCHANGED accepting
     \/ /\ driver = "rollback"
        /\ driver' = "idle"
        /\ accepting' = (accepting \/ answer = "ok")
     \/ /\ driver = "release"
        /\ driver' = "gone" /\ UNCHANGED accepting
  /\ answer' = "none"
  /\ UNCHANGED <<accepted, data, dataClosed, control, responses, wake, pc,
                 back, request, produced, runnerVars, historyVars>>

\* recv_timeout gives up, or finds the reply sender dropped.  Only
\* begin_handoff goes on to a rollback (BeginFails), which itself fails at
\* once when the actor is gone.
DriverTimesOut ==
  /\ answer = "none"
  /\ \/ driver = "begin" /\ ActorGone /\ driver' = "idle"
     \/ driver = "dup" /\ driver' = "abort"
     \/ driver = "rollback" /\ driver' = "idle"
     \/ driver = "release" /\ driver' = "gone"
  /\ UNCHANGED <<accepting, accepted, data, dataClosed, control, responses,
                 wake, pc, back, request, answer, produced>>
  /\ UNCHANGED <<runnerVars, historyVars>>

-----------------------------------------------------------------------------
(* The actor's loop.                                                       *)

\* Mutant: one reply channel shared by all requests.
ReplyToAnyone(r, v) ==
  answer' = IF driver \in {"begin", "dup", "rollback", "release"} THEN v ELSE answer

\* reply.send(v) on the channel of request r.
Reply(r, v) == answer' = IF r = request /\ driver \in {"begin", "dup", "rollback", "release"}
                         THEN v ELSE answer

\* What the actor leaves alone in every step: the handle's and the driver's.
Outside == <<accepting, accepted, driver, request>>

TakeControl(op) ==
  /\ pc = "control"
  /\ control # <<>> /\ Head(control).op = op
  /\ control' = Tail(control)

\* BeginHandoff: serve the request now, or after the submission in progress.
HandleBegin ==
  /\ TakeControl("begin")
  /\ IF active = NoSubmission
       THEN /\ current' = Head(control).req
            /\ pc' = "preDrain" /\ back' = "control"
            /\ UNCHANGED pendingHandoff
       ELSE /\ pendingHandoff' = Head(control).req
            /\ UNCHANGED <<current, pc, back>>
  /\ UNCHANGED <<data, dataClosed, responses, wake, state, pending, partial,
                 active, answer, produced, Outside, historyVars>>

\* dup(2) may fail; outside Quiesced the request is refused.
HandleDuplicate ==
  /\ TakeControl("dup")
  /\ \E v \in (IF state = "Quiesced" THEN {"ok", "err"} ELSE {"err"}) :
       Reply(Head(control).req, v)
  /\ UNCHANGED <<data, dataClosed, responses, wake, pc, back, produced>>
  /\ UNCHANGED <<runnerVars, Outside, historyVars>>

\* Released never reaches this command: the actor exits when it releases.
HandleRollback ==
  /\ TakeControl("rollback")
  /\ pendingHandoff' = 0
  /\ state' = "Running"
  /\ Reply(Head(control).req, "ok")
  /\ UNCHANGED <<data, dataClosed, responses, wake, pc, back, pending, partial,
                 active, current, produced, Outside, historyVars>>

HandleRelease ==
  /\ TakeControl("release")
  /\ state' = "Released"
  /\ pending' = <<>>
  /\ Reply(Head(control).req, "ok")
  /\ pc' = "exit"
  /\ UNCHANGED <<data, dataClosed, responses, wake, back, partial, active,
                 pendingHandoff, current, produced, Outside, historyVars>>

HandleShutdown ==
  /\ \/ TakeControl("shutdown")
     \/ /\ pc = "control" /\ control = <<>> /\ driver = "gone"
        /\ UNCHANGED control
  /\ pc' = "exit"
  /\ UNCHANGED <<data, dataClosed, responses, wake, back, answer, produced>>
  /\ UNCHANGED <<runnerVars, Outside, historyVars>>

\* drain_commands, once the control channel is empty: data waits while a
\* submission is in progress, and a deferred handoff goes before data.
ControlDrained ==
  /\ pc = "control" /\ control = <<>> /\ driver # "gone"
  /\ IF active = NoSubmission /\ pendingHandoff # 0
       THEN /\ current' = pendingHandoff
            /\ pendingHandoff' = 0
            /\ pc' = "preDrain" /\ back' = "apply"
       ELSE /\ pc' = IF active = NoSubmission THEN "data" ELSE "apply"
            /\ UNCHANGED <<current, pendingHandoff, back>>
  /\ UNCHANGED <<data, dataClosed, control, responses, wake, state, pending,
                 partial, active, answer, produced, Outside, historyVars>>

\* handle_data_command on the head of the data channel.
HandleDataCommand ==
  /\ data' = Tail(data)
  /\ LET c == Head(data) IN
     IF state # "Running"
       THEN /\ replies' = [s \in Subs |->
                 IF c.op = "submit" /\ s = c.id THEN "err" ELSE replies[s]]
            /\ UNCHANGED <<pending, active>>
       ELSE /\ pending' =
                 IF c.op = "write" THEN Append(pending, [kind |-> "user", id |-> c.id])
                 ELSE IF c.id \in EmptyText THEN pending
                 ELSE Append(pending, [kind |-> "text", id |-> c.id])
            /\ active' =
                 IF c.op = "write" THEN active
                 ELSE [id |-> c.id,
                       phase |-> IF c.id \in EmptyText THEN "waiting" ELSE "text"]
            /\ UNCHANGED replies

DrainData ==
  /\ pc = "data"
  /\ IF data # <<>> /\ active = NoSubmission
       THEN HandleDataCommand /\ UNCHANGED pc
       ELSE /\ pc' = IF active = NoSubmission /\ driver = "gone"
                     THEN "exit" ELSE "apply"
            /\ UNCHANGED <<data, replies, pending, active>>
  /\ UNCHANGED <<dataClosed, control, responses, wake, back, state, partial,
                 pendingHandoff, current, answer, produced, Outside, out, failed>>

\* Mutant: the handoff begins without draining the data channel.
PreDrainSkipped ==
  /\ pc = "preDrain"
  /\ pc' = "begin"
  /\ UNCHANGED <<data, dataClosed, control, responses, wake, back, state, pending,
                 partial, active, pendingHandoff, current, answer, produced>>
  /\ UNCHANGED <<Outside, historyVars>>

\* drain_pre_quiesce_commands in defer_or_begin_handoff: a submission found
\* in the channel defers the handoff again.  begin_handoff drains a second
\* time; SecondDrainIsEmpty says that this drain finds nothing.
PreDrain ==
  /\ pc = "preDrain"
  /\ IF data # <<>> /\ active = NoSubmission
       THEN HandleDataCommand /\ UNCHANGED <<pc, pendingHandoff, current>>
       ELSE /\ IF active = NoSubmission
                 THEN pc' = "begin" /\ UNCHANGED <<pendingHandoff, current>>
                 ELSE pc' = back /\ pendingHandoff' = current /\ current' = 0
            /\ UNCHANGED <<data, replies, pending, active>>
  /\ UNCHANGED <<dataClosed, control, responses, wake, back, state, partial,
                 answer, produced, Outside, out, failed>>

Response == [kind |-> "response", id |-> None]

\* enqueue_terminal_responses(std::mem::take(...))
TakeResponses(queue) == queue \o [i \in 1..responses |-> Response]

\* begin_handoff: apply_pending_controls, then drain the pending writes.
StartDrain ==
  /\ pc = "begin"
  /\ pending' = TakeResponses(pending)
  /\ responses' = 0
  /\ pc' = "drainWrites"
  /\ UNCHANGED <<data, dataClosed, control, wake, back, state, partial, active,
                 pendingHandoff, current, answer, produced, Outside, historyVars>>

\* One write(2) that makes progress: part of the front chunk, or the rest of it.
WriteChunk ==
  /\ pending # <<>>
  /\ \/ /\ ~partial /\ partial' = TRUE
        /\ UNCHANGED <<pending, out>>
     \/ /\ partial' = FALSE
        /\ out' = Append(out, Head(pending))
        /\ pending' = Tail(pending)

\* read_once returning true: the emulator may answer what it read, and the
\* shared responses are taken at once.
ReadOnce ==
  /\ \E n \in 0..1 :
       /\ produced + n <= MaxResponses
       /\ produced' = produced + n
       /\ pending' = TakeResponses(pending) \o [i \in 1..n |-> Response]
  /\ responses' = 0

\* begin_handoff's drain loop, one poll, read or write at a time.
DrainStep ==
  /\ pc = "drainWrites" /\ pending # <<>>
  /\ \/ /\ WriteChunk
        /\ UNCHANGED <<responses, wake, produced>>
     \/ /\ wake /\ wake' = FALSE
        /\ UNCHANGED <<responses, pending, partial, produced, out>>
     \/ /\ ReadOnce
        /\ UNCHANGED <<wake, partial, out>>
  /\ UNCHANGED <<data, dataClosed, control, pc, back, state, active,
                 pendingHandoff, current, answer, Outside, replies, failed>>

\* The writes are all out: quiesce and acknowledge.
Quiesce ==
  /\ pc = "drainWrites" /\ pending = <<>>
  /\ state' = "Quiesced"
  /\ Reply(current, "ok")
  /\ current' = 0
  /\ pc' = back
  /\ UNCHANGED <<data, dataClosed, control, responses, wake, back, pending,
                 partial, active, pendingHandoff, produced, Outside, historyVars>>

\* Mutant: a drain that times out discards what it could not write.
DrainFailsDiscarding ==
  /\ pc = "drainWrites" /\ pending # <<>>
  /\ pending' = <<>> /\ partial' = FALSE
  /\ Reply(current, "err")
  /\ current' = 0
  /\ pc' = back
  /\ UNCHANGED <<data, dataClosed, control, responses, wake, back, state, active,
                 pendingHandoff, produced, failed, Outside, out, replies>>

\* The drain fails: its deadline passed or the PTY closed (nothing is
\* discarded), or a write failed (the queue is cleared).
DrainFails ==
  /\ pc = "drainWrites" /\ pending # <<>>
  /\ \/ UNCHANGED <<pending, partial, failed>>
     \/ pending' = <<>> /\ partial' = FALSE /\ failed' = TRUE
  /\ Reply(current, "err")
  /\ current' = 0
  /\ pc' = back
  /\ UNCHANGED <<data, dataClosed, control, responses, wake, back, state, active,
                 pendingHandoff, produced, Outside, out, replies>>

\* apply_pending_controls in the loop, in whatever state the actor is.
ApplyPendingControls ==
  /\ pc = "apply"
  /\ pending' = TakeResponses(pending)
  /\ responses' = 0
  /\ pc' = "flush" /\ back' = "schedule"
  /\ UNCHANGED <<data, dataClosed, control, wake, state, partial, active,
                 pendingHandoff, current, answer, produced, Outside, historyVars>>

\* Mutant: the caller is answered when the text is out.
CompleteBoundaryEarly(kind) ==
  IF active = NoSubmission \/ kind \notin {"text", "enter"}
    THEN UNCHANGED <<active, replies>>
    ELSE /\ active' = IF kind = "text" THEN [active EXCEPT !.phase = "waiting"]
                      ELSE NoSubmission
         /\ replies' = [replies EXCEPT ![active.id] = "ok"]

\* complete_submission_boundary for the chunk that has just been written.
CompleteBoundary(kind) ==
  IF active = NoSubmission \/ kind \notin {"text", "enter"}
    THEN UNCHANGED <<active, replies>>
  ELSE IF kind = "text"
    THEN /\ active' = [active EXCEPT !.phase = "waiting"]
         /\ UNCHANGED replies
    ELSE /\ active' = NoSubmission
         /\ replies' = [replies EXCEPT ![active.id] = "ok"]

\* flush_pending_writes_once, one write(2) at a time: it stops at a boundary,
\* when the PTY would block and when nothing is left.
FlushStep ==
  /\ pc = "flush"
  /\ \/ /\ WriteChunk
        /\ IF partial' THEN UNCHANGED <<pc, active, replies>>
           ELSE /\ CompleteBoundary(Head(pending).kind)
                /\ pc' = IF Head(pending).kind \in {"text", "enter"} THEN back ELSE pc
     \/ /\ pc' = back
        /\ UNCHANGED <<pending, partial, out, active, replies>>
  /\ UNCHANGED <<data, dataClosed, control, responses, wake, back, state,
                 pendingHandoff, current, answer, produced, Outside, failed>>

\* A write fails: flush_pending_writes_once reports it, the submission in
\* progress fails and the loop ends.
FlushFails ==
  /\ pc = "flush" /\ pending # <<>>
  /\ pending' = <<>> /\ partial' = FALSE /\ failed' = TRUE
  /\ active' = NoSubmission
  /\ replies' = [s \in Subs |-> IF s = active.id THEN "err" ELSE replies[s]]
  /\ pc' = "exit"
  /\ UNCHANGED <<data, dataClosed, control, responses, wake, back, state,
                 pendingHandoff, current, answer, produced, Outside, out>>

\* Mutant: the pause runs from when the text was queued, not written.
ScheduleEnterEarly ==
  /\ pc = "schedule"
  /\ \/ /\ active.phase \in {"text", "waiting"}
        /\ active' = [active EXCEPT !.phase = "enter"]
        /\ pending' = Append(pending, [kind |-> "enter", id |-> active.id])
     \/ UNCHANGED <<active, pending>>
  /\ pc' = IF active' = NoSubmission /\ pendingHandoff # 0 THEN "control" ELSE "poll"
  /\ UNCHANGED <<data, dataClosed, control, responses, wake, back, state, partial,
                 pendingHandoff, current, answer, produced, Outside, historyVars>>

\* schedule_submission_enter.  The pause after the text ends when it ends.
ScheduleEnter ==
  /\ pc = "schedule"
  /\ \/ /\ active.phase = "waiting"
        /\ IF active.id \in EmptyEnter
             THEN /\ active' = NoSubmission
                  /\ replies' = [replies EXCEPT ![active.id] = "ok"]
                  /\ UNCHANGED pending
             ELSE /\ active' = [active EXCEPT !.phase = "enter"]
                  /\ pending' = Append(pending, [kind |-> "enter", id |-> active.id])
                  /\ UNCHANGED replies
     \/ UNCHANGED <<active, replies, pending>>
  /\ pc' = IF active' = NoSubmission /\ pendingHandoff # 0 THEN "control" ELSE "poll"
  /\ UNCHANGED <<data, dataClosed, control, responses, wake, back, state, partial,
                 pendingHandoff, current, answer, produced, Outside, out, failed>>

\* poll_pty_and_wake: a wake restarts the loop at once; otherwise the PTY is
\* read (only while Running) and written, or the idle timeout passes.
PollWake ==
  /\ pc = "poll" /\ wake
  /\ wake' = FALSE
  /\ pc' = "control"
  /\ UNCHANGED <<data, dataClosed, control, responses, back, answer, produced>>
  /\ UNCHANGED <<runnerVars, Outside, historyVars>>

PollReady ==
  /\ pc = "poll" /\ ~wake
  /\ \/ state = "Running" /\ ReadOnce
     \/ UNCHANGED <<responses, pending, produced>>
  /\ pc' = "flush" /\ back' = "control"
  /\ UNCHANGED <<data, dataClosed, control, wake, state, partial, active,
                 pendingHandoff, current, answer, Outside, historyVars>>

\* End of file, a failed read, or a failed poll.
PollFails ==
  /\ pc = "poll" /\ ~wake
  /\ pc' = "exit"
  /\ UNCHANGED <<data, dataClosed, control, responses, wake, back, answer, produced>>
  /\ UNCHANGED <<runnerVars, Outside, historyVars>>

\* Mutant: submissions still in the channel are dropped with it.
CloseInputQueueSilently ==
  /\ pc = "exit"
  /\ dataClosed' = TRUE
  /\ data' = <<>>
  /\ active' = NoSubmission
  /\ replies' = [s \in Subs |-> IF s = active.id THEN "err" ELSE replies[s]]
  /\ pc' = "exited"
  /\ UNCHANGED <<control, responses, wake, back, state, pending, partial,
                 pendingHandoff, current, answer, produced, Outside, out, failed>>

\* close_input_queue: no submission is left without a reply.
CloseInputQueue ==
  /\ pc = "exit"
  /\ dataClosed' = TRUE
  /\ data' = <<>>
  /\ active' = NoSubmission
  /\ replies' = [s \in Subs |->
       IF s = active.id \/ \E i \in 1..Len(data) : data[i] = [op |-> "submit", id |-> s]
       THEN "err" ELSE replies[s]]
  /\ pc' = "exited"
  /\ UNCHANGED <<control, responses, wake, back, state, pending, partial,
                 pendingHandoff, current, answer, produced, Outside, out, failed>>

-----------------------------------------------------------------------------
Client ==
  \/ \E w \in Writes : TryWriteUserInput(w)
  \/ \E s \in Subs : QueueUserInputSubmission(s)
  \/ WriteTerminalResponse

Driver ==
  \/ BeginHandoff \/ BeginFails
  \/ DuplicateForHandoff \/ RollbackHandoff \/ ReleaseAfterCommit
  \/ Shutdown
  \/ DriverReceives \/ DriverTimesOut

Actor ==
  \/ HandleBegin \/ HandleDuplicate \/ HandleRollback
  \/ HandleRelease \/ HandleShutdown
  \/ ControlDrained \/ DrainData \/ PreDrain
  \/ StartDrain \/ DrainStep \/ Quiesce \/ DrainFails
  \/ ApplyPendingControls \/ FlushStep \/ FlushFails \/ ScheduleEnter
  \/ PollWake \/ PollReady \/ PollFails
  \/ CloseInputQueue

Next == Client \/ Driver \/ Actor

Spec == Init /\ [][Next]_vars

-----------------------------------------------------------------------------
(* Properties.                                                             *)

Alive == pc \notin {"exit", "exited"}

UserChunk(c) == c.kind # "response"

\* The chunks a data command asks for.
ChunksOf(c) ==
  IF c.op = "write" THEN <<[kind |-> "user", id |-> c.id]>>
  ELSE (IF c.id \in EmptyText THEN <<>> ELSE <<[kind |-> "text", id |-> c.id]>>)
       \o (IF c.id \in EmptyEnter THEN <<>> ELSE <<[kind |-> "enter", id |-> c.id]>>)

\* The sequences of a sequence, one after the other.
Joined(seqs) ==
  LET upTo[i \in 0..Len(seqs)] == IF i = 0 THEN <<>> ELSE upTo[i - 1] \o seqs[i]
  IN  upTo[Len(seqs)]

\* The chunks a sequence of data commands asks for, in order.
ChunksOfAll(commands) == Joined([i \in 1..Len(commands) |-> ChunksOf(commands[i])])

\* A queue of chunks without the responses in it.
Picked(c) == IF UserChunk(c) THEN <<c>> ELSE <<>>
UserPart(queue) == Joined([i \in 1..Len(queue) |-> Picked(queue[i])])

\* The Enter a submission in progress has not queued yet.
OwedEnter ==
  IF active.phase \in {"text", "waiting"} /\ active.id \notin EmptyEnter
  THEN <<[kind |-> "enter", id |-> active.id]>> ELSE <<>>

(***************************************************************************)
(* While the actor lives and no PTY write has failed, the input it         *)
(* accepted is what it has written, then what waits in pending_writes,     *)
(* then the Enter the submission in progress owes, then the data channel:  *)
(* nothing is lost, duplicated or reordered, no keystroke gets between a   *)
(* submission's text and its Enter, and begin, timeout, rollback and a     *)
(* second handoff change nothing about that.                               *)
(***************************************************************************)
InputConserved ==
  (Alive /\ ~failed) =>
    UserPart(out) \o UserPart(pending) \o OwedEnter \o ChunksOfAll(data)
    = ChunksOfAll(accepted)

(***************************************************************************)
(* An actor that acknowledged the quiesce holds no user input anywhere:    *)
(* the gate is closed, the data channel is empty, no submission is in      *)
(* progress and nothing a user typed waits to be written.  Releasing it    *)
(* (which clears pending_writes) therefore loses no input.                 *)
(***************************************************************************)
QuiescedHoldsNoInput ==
  state = "Quiesced" =>
    /\ ~accepting
    /\ data = <<>>
    /\ active = NoSubmission
    /\ \A i \in 1..Len(pending) : ~UserChunk(pending[i])

(***************************************************************************)
(* When begin_handoff has returned Ok, and until the driver rolls back or  *)
(* releases, the actor is quiesced: a reply to an earlier, abandoned       *)
(* request never passes for the answer to this one.                        *)
(***************************************************************************)
HeldMeansQuiesced ==
  driver \in {"held", "dup"} => state = "Quiesced"

(***************************************************************************)
(* begin_handoff's own drain_pre_quiesce_commands finds nothing and its    *)
(* "submission is still in progress" error is dead code: the gate has been *)
(* closed since before the request was queued.                             *)
(***************************************************************************)
SecondDrainIsEmpty ==
  pc \in {"begin", "drainWrites"} => data = <<>> /\ active = NoSubmission

(***************************************************************************)
(* The debug_asserts of complete_submission_boundary: a boundary chunk in  *)
(* pending_writes always belongs to the submission in progress, in the     *)
(* phase that writes it.                                                   *)
(***************************************************************************)
BoundaryMatchesPhase ==
  Alive =>
    \A i \in 1..Len(pending) : pending[i].kind \in {"text", "enter"} =>
      active = [id |-> pending[i].id, phase |-> pending[i].kind]

(***************************************************************************)
(* A submission's caller is told the truth: Ok only after its Enter        *)
(* reached the PTY, and an error only if its Enter never did, so that      *)
(* retrying a failed submission cannot submit twice.                       *)
(***************************************************************************)
ReplyTellsTruth ==
  \A s \in Subs \ EmptyEnter :
    LET sent == \E i \in 1..Len(out) : out[i] = [kind |-> "enter", id |-> s]
    IN  /\ replies[s] = "ok" => sent
        /\ replies[s] = "err" => ~sent

(***************************************************************************)
(* When the actor has exited, every submission it ever accepted has its    *)
(* reply, whichever way it came to exit, and none is accepted any more:    *)
(* no caller is left waiting (close_input_queue).                          *)
(***************************************************************************)
ExitAnswersAll ==
  pc = "exited" => dataClosed /\ \A s \in Subs : IsAccepted(s) => replies[s] # "none"

(***************************************************************************)
(* User writes are rejected until the rollback and accepted after it: with *)
(* no handoff in progress and every rollback served, a living actor's gate *)
(* is open.                                                                *)
(***************************************************************************)
RollbackReopensGate ==
  (driver = "idle" /\ Alive /\ control = <<>>) => accepting

(***************************************************************************)
(* The protocol part of the inductive invariant that PtyActor_proof shows  *)
(* for QuiescedHoldsNoInput, HeldMeansQuiesced and SecondDrainIsEmpty.     *)
(***************************************************************************)
Waiting == {"begin", "dup", "rollback", "release"}
Serving == {"preDrain", "begin", "drainWrites"}

\* An open gate means that no handoff is anywhere in flight.
GateOpen ==
  accepting => /\ driver = "idle" /\ state = "Running" /\ control = <<>>
               /\ current = 0 /\ pendingHandoff = 0

\* Requests are numbered in the order they are queued and served.
Numbering ==
  driver # "gone" =>
    /\ \A i \in 1..Len(control) :
         /\ control[i].op # "shutdown"
         /\ 0 < control[i].req /\ control[i].req <= request
         /\ current < control[i].req /\ pendingHandoff < control[i].req
         /\ \A j \in 1..Len(control) : i < j => control[i].req < control[j].req
         /\ (driver \in Waiting /\ control[i].req = request) => control[i].op = driver
    /\ current <= request /\ pendingHandoff <= request
    /\ driver \in Waiting => request > 0
    /\ driver \in Waiting \ {"begin"} => current < request /\ pendingHandoff < request

\* At most one BeginHandoff is in flight.
OneBegin ==
  /\ \A i \in 1..Len(control) : control[i].op = "begin" =>
       i = 1 /\ control[i].req > 0 /\ current = 0 /\ pendingHandoff = 0
  /\ current # 0 => pendingHandoff = 0
  /\ (current # 0) <=> (pc \in Serving)

\* An answer is that of the last request, and nothing is left behind it.
Answered ==
  answer # "none" =>
    /\ driver \in Waiting
    /\ control = <<>> /\ current = 0 /\ pendingHandoff = 0
    /\ (driver = "begin" /\ answer = "ok") => state = "Quiesced"
    /\ (driver = "rollback" /\ answer = "ok") => state = "Running"

Held ==
  /\ driver \in {"held", "dup"} =>
       /\ current = 0 /\ pendingHandoff = 0
       /\ \A i \in 1..Len(control) : control[i].op = "dup"
       /\ state = "Quiesced"
  /\ driver = "held" => control = <<>>
  /\ driver = "release" =>
       /\ current = 0 /\ pendingHandoff = 0
       /\ \A i \in 1..Len(control) : control[i].op = "release"

QuiescedIdle ==
  state = "Quiesced" =>
    /\ current = 0 /\ pendingHandoff = 0
    /\ \A i \in 1..Len(control) : control[i].op # "begin"

(***************************************************************************)
(* The actor's thread keeps running, its deadlines pass, and a reply that  *)
(* has arrived is received.  Nothing is assumed of clients, of the driver  *)
(* or of the child on the other side of the PTY.                           *)
(***************************************************************************)
Fairness == WF_vars(Actor) /\ WF_vars(Quiesce \/ DrainFails)
FairSpec == Spec /\ Fairness

(***************************************************************************)
(* Once the pane is closed or released, every submission that was accepted *)
(* gets its reply, whatever it was in the middle of.                       *)
(***************************************************************************)
ClosingAnswersAll ==
  \A s \in Subs :
    (driver = "gone" /\ IsAccepted(s)) ~> replies[s] # "none"
=============================================================================
