---------------------------- MODULE PtyActor_proof ----------------------------
(* What TLAPS proves of the PTY I/O actor, for any number of user writes,  *)
(* submissions, requests and responses.                                    *)
EXTENDS PtyActor, SequenceTheorems, WellFoundedInduction, TLAPS

\* Taking the head of a queue leaves a queue of the same kind, one shorter.
LEMMA HeadTail ==
  ASSUME NEW S, NEW q \in Seq(S), q # <<>>
  PROVE  Head(q) \in S /\ Tail(q) \in Seq(S) /\ Len(Tail(q)) = Len(q) - 1
OBVIOUS

\* Taking the only element of a queue leaves it empty.
LEMMA TailOfOne ==
  ASSUME NEW S, NEW q \in Seq(S), Len(q) = 1
  PROVE  Tail(q) = <<>>
<1>1. Tail(q) \in Seq(S) /\ Len(Tail(q)) = 0
  OBVIOUS
<1>. QED  BY <1>1, EmptySeq, Zenon

\* Appending to a queue leaves what was there in its place.
LEMMA Appended ==
  ASSUME NEW S, NEW q \in Seq(S), NEW x \in S
  PROVE  /\ Len(Append(q, x)) = Len(q) + 1 /\ Len(q) \in Nat
         /\ \A i \in 1..Len(q) : Append(q, x)[i] = q[i]
         /\ Append(q, x)[Len(q) + 1] = x
         /\ 1..Len(Append(q, x)) = 1..Len(q) \cup {Len(q) + 1}
OBVIOUS

\* A control command put on the channel keeps the channel well-formed.
LEMMA SendShape ==
  ASSUME NEW q \in Seq(ControlCommands), NEW o \in ControlOps, NEW r \in Requests
  PROVE  Append(q, [op |-> o, req |-> r]) \in Seq(ControlCommands)
BY DEF ControlCommands

\* Taking the shared responses appends response chunks and nothing else.
LEMMA TakeResponsesType ==
  ASSUME NEW queue \in Seq(Chunks), NEW n \in Nat
  PROVE  /\ queue \o [i \in 1..n |-> Response] \in Seq(Chunks)
         /\ (\A i \in 1..Len(queue) : ~UserChunk(queue[i])) =>
              \A i \in 1..Len(queue \o [j \in 1..n |-> Response]) :
                ~UserChunk((queue \o [j \in 1..n |-> Response])[i])
<1> DEFINE r == [j \in 1..n |-> Response]
<1>1. Response \in Chunks /\ ~UserChunk(Response)
  BY DEF Response, Chunks, UserChunk
<1>2. r \in Seq(Chunks) /\ Len(r) = n
  BY <1>1
<1>3. queue \o r \in Seq(Chunks)
  BY <1>2
<1>4. ASSUME \A i \in 1..Len(queue) : ~UserChunk(queue[i]),
             NEW i \in 1..Len(queue \o r)
      PROVE  ~UserChunk((queue \o r)[i])
  <2>1. CASE i <= Len(queue)
    BY <1>2, <1>4, <2>1
  <2>2. CASE i > Len(queue)
    <3>1. (queue \o r)[i] = r[i - Len(queue)]
      BY <1>2, <2>2
    <3>2. i - Len(queue) \in 1..n
      BY <1>2, <2>2
    <3>. QED  BY <1>1, <3>1, <3>2
  <2>. QED  BY <2>1, <2>2
<1>. QED  BY <1>3, <1>4

\* The type of the Boolean variables, kept apart for the prover's sake.
Flags ==
  /\ accepting \in BOOLEAN /\ dataClosed \in BOOLEAN /\ wake \in BOOLEAN
  /\ partial \in BOOLEAN /\ failed \in BOOLEAN

\* Every step of a client, the handoff driver or the actor keeps the flags Boolean.
LEMMA FlagsStep == Flags /\ [Next]_vars => Flags'
<1>. SUFFICES ASSUME Flags, [Next]_vars PROVE Flags'
  OBVIOUS
<1>. USE DEF Flags
<1>1. ASSUME NEW w \in Writes, TryWriteUserInput(w) PROVE Flags'
  BY Zenon, <1>1 DEF TryWriteUserInput, SendData, runnerVars, driverVars, historyVars, Outside
<1>2. ASSUME NEW s \in Subs, QueueUserInputSubmission(s) PROVE Flags'
  BY Zenon, <1>2 DEF QueueUserInputSubmission, SendData, runnerVars, driverVars, historyVars, Outside
<1>3. CASE WriteTerminalResponse
  BY Zenon, <1>3 DEF WriteTerminalResponse, runnerVars, driverVars, historyVars, Outside
<1>4. CASE BeginHandoff
  BY Zenon, <1>4 DEF BeginHandoff, Send, runnerVars, driverVars, historyVars, Outside
<1>5. CASE BeginFails
  BY Zenon, <1>5 DEF BeginFails, SendRollback, Send, runnerVars, driverVars, historyVars, Outside
<1>6. CASE DuplicateForHandoff
  BY Zenon, <1>6 DEF DuplicateForHandoff, Send, runnerVars, driverVars, historyVars, Outside
<1>7. CASE RollbackHandoff
  BY Zenon, <1>7 DEF RollbackHandoff, SendRollback, Send, runnerVars, driverVars, historyVars, Outside
<1>8. CASE ReleaseAfterCommit
  BY Zenon, <1>8 DEF ReleaseAfterCommit, Send, runnerVars, driverVars, historyVars, Outside
<1>9. CASE Shutdown
  BY Zenon, <1>9 DEF Shutdown, runnerVars, driverVars, historyVars, Outside
<1>10. CASE DriverReceives
  BY Zenon, <1>10 DEF DriverReceives, runnerVars, driverVars, historyVars, Outside
<1>11. CASE DriverTimesOut
  BY Zenon, <1>11 DEF DriverTimesOut, runnerVars, driverVars, historyVars, Outside
<1>12. CASE HandleBegin
  BY Zenon, <1>12 DEF HandleBegin, TakeControl, runnerVars, driverVars, historyVars, Outside
<1>13. CASE HandleDuplicate
  BY Zenon, <1>13 DEF HandleDuplicate, TakeControl, Reply, runnerVars, driverVars, historyVars, Outside
<1>14. CASE HandleRollback
  BY Zenon, <1>14 DEF HandleRollback, TakeControl, Reply, runnerVars, driverVars, historyVars, Outside
<1>15. CASE HandleRelease
  BY Zenon, <1>15 DEF HandleRelease, TakeControl, Reply, runnerVars, driverVars, historyVars, Outside
<1>16. CASE HandleShutdown
  BY Zenon, <1>16 DEF HandleShutdown, TakeControl, runnerVars, driverVars, historyVars, Outside
<1>17. CASE ControlDrained
  BY Zenon, <1>17 DEF ControlDrained, runnerVars, driverVars, historyVars, Outside
<1>18. CASE DrainData
  BY Zenon, <1>18 DEF DrainData, HandleDataCommand, runnerVars, driverVars, historyVars, Outside
<1>19. CASE PreDrain
  BY Zenon, <1>19 DEF PreDrain, HandleDataCommand, runnerVars, driverVars, historyVars, Outside
<1>20. CASE StartDrain
  BY Zenon, <1>20 DEF StartDrain, runnerVars, driverVars, historyVars, Outside
<1>21. CASE DrainStep
  BY Zenon, <1>21 DEF DrainStep, WriteChunk, ReadOnce, runnerVars, driverVars, historyVars, Outside
<1>22. CASE Quiesce
  BY Zenon, <1>22 DEF Quiesce, Reply, runnerVars, driverVars, historyVars, Outside
<1>23. CASE DrainFails
  BY Zenon, <1>23 DEF DrainFails, Reply, runnerVars, driverVars, historyVars, Outside
<1>24. CASE ApplyPendingControls
  BY Zenon, <1>24 DEF ApplyPendingControls, runnerVars, driverVars, historyVars, Outside
<1>25. CASE FlushStep
  BY Zenon, <1>25 DEF FlushStep, WriteChunk, CompleteBoundary, runnerVars, driverVars, historyVars, Outside
<1>26. CASE FlushFails
  BY Zenon, <1>26 DEF FlushFails, runnerVars, driverVars, historyVars, Outside
<1>27. CASE ScheduleEnter
  BY Zenon, <1>27 DEF ScheduleEnter, runnerVars, driverVars, historyVars, Outside
<1>28. CASE PollWake
  BY Zenon, <1>28 DEF PollWake, runnerVars, driverVars, historyVars, Outside
<1>29. CASE PollReady
  BY Zenon, <1>29 DEF PollReady, ReadOnce, runnerVars, driverVars, historyVars, Outside
<1>30. CASE PollFails
  BY Zenon, <1>30 DEF PollFails, runnerVars, driverVars, historyVars, Outside
<1>31. CASE CloseInputQueue
  BY Zenon, <1>31 DEF CloseInputQueue, runnerVars, driverVars, historyVars, Outside
<1>32. CASE UNCHANGED vars
  BY Zenon, <1>32 DEF vars
<1>. QED
  BY <1>1, <1>2, <1>3, <1>4, <1>5, <1>6, <1>7, <1>8, <1>9, <1>10, <1>11, <1>12, <1>13, <1>14, <1>15, <1>16, <1>17, <1>18, <1>19, <1>20, <1>21, <1>22, <1>23, <1>24, <1>25, <1>26, <1>27, <1>28, <1>29, <1>30, <1>31, <1>32 DEF Next, Client, Driver, Actor

\* The type of every other variable.
Shapes ==
  /\ data \in Seq(DataCommands) /\ Len(data) <= DataBound
  /\ control \in Seq(ControlCommands)
  /\ responses \in Nat
  /\ pc \in ActorPcs
  /\ back \in {"control", "apply", "schedule"}
  /\ state \in {"Running", "Quiesced", "Released"}
  /\ pending \in Seq(Chunks)
  /\ active \in Submissions \cup {NoSubmission}
  /\ pendingHandoff \in Requests
  /\ current \in Requests
  /\ driver \in DriverPcs
  /\ request \in Requests
  /\ answer \in {"none", "ok", "err"}
  /\ accepted \in Seq(DataCommands)
  /\ out \in Seq(Chunks)
  /\ replies \in [Subs -> {"none", "ok", "err"}]
  /\ produced \in Nat

\* The arithmetic and sequence facts of Shapes that the protocol needs.
LEMMA ShapeFacts ==
  ASSUME Shapes
  PROVE  /\ control \in Seq(ControlCommands)
         /\ Len(control) \in Nat
         /\ current \in Nat /\ pendingHandoff \in Nat /\ request \in Nat
         /\ back \notin {"preDrain", "begin", "drainWrites"}
         /\ \A i \in 1..Len(control) : control[i].req \in Nat
<1>1. /\ control \in Seq(ControlCommands) /\ Len(control) \in Nat
      /\ current \in Nat /\ pendingHandoff \in Nat /\ request \in Nat
      /\ back \notin {"preDrain", "begin", "drainWrites"}
  BY ConstantsAssumption DEF Shapes, Requests
<1>2. ASSUME NEW i \in 1..Len(control) PROVE control[i].req \in Nat
  <2>1. control[i] \in ControlCommands
    BY <1>1
  <2>. QED  BY <2>1, ConstantsAssumption DEF ControlCommands, Requests
<1>. QED  BY <1>1, <1>2

\* The request being answered is alone in the control channel.
LEMMA LastRequest ==
  ASSUME Shapes, Numbering, driver \in Waiting, control # <<>>,
         control[1].req = request
  PROVE  control[1].op = driver /\ Tail(control) = <<>>
<1>1. control \in Seq(ControlCommands) /\ Len(control) \in Nat /\ Len(control) >= 1
  BY ShapeFacts, EmptySeq
<1>2. /\ control[1].op = driver
      /\ \A j \in 1..Len(control) : 1 < j => control[1].req < control[j].req
      /\ \A j \in 1..Len(control) : control[j].req <= request
  BY <1>1 DEF Numbering, Waiting
<1>3. Len(control) <= 1
  <2>1. SUFFICES ASSUME Len(control) > 1 PROVE FALSE
    BY <1>1
  <2>2. control[1].req < control[Len(control)].req /\ control[Len(control)].req <= request
    BY <1>1, <1>2, <2>1
  <2>3. control[Len(control)].req \in Nat /\ request \in Nat
    BY ShapeFacts, <1>1
  <2>. QED  BY <2>2, <2>3
<1>4. Len(control) = 1
  <2>1. \A n \in Nat : n >= 1 /\ n <= 1 => n = 1
    OBVIOUS
  <2>. QED  BY <1>1, <1>3, <2>1, Zenon
<1>. QED  BY <1>1, <1>2, <1>4, TailOfOne

\* What handle_data_command leaves in the actor is well-formed.
LEMMA DataShape ==
  ASSUME Shapes, data # <<>>, HandleDataCommand
  PROVE  /\ data' \in Seq(DataCommands) /\ Len(data') <= DataBound
         /\ pending' \in Seq(Chunks)
         /\ active' \in Submissions \cup {NoSubmission}
         /\ replies' \in [Subs -> {"none", "ok", "err"}]
<1>1. data' \in Seq(DataCommands) /\ Len(data') <= DataBound
  BY ConstantsAssumption DEF Shapes, HandleDataCommand
<1>2. PICK c \in DataCommands : c = Head(data)
  BY DEF Shapes
<1>3. CASE state # "Running"
  BY <1>1, <1>2, <1>3 DEF Shapes, HandleDataCommand
<1>4. CASE state = "Running" /\ c.op = "write"
  <2>1. [kind |-> "user", id |-> c.id] \in Chunks
    BY <1>4 DEF DataCommands, Chunks
  <2>2. /\ pending' = Append(pending, [kind |-> "user", id |-> c.id])
        /\ active' = active /\ UNCHANGED replies
    BY <1>2, <1>4 DEF HandleDataCommand
  <2>. QED  BY <1>1, <2>1, <2>2 DEF Shapes
<1>5. CASE state = "Running" /\ c.op # "write"
  <2>1. c.id \in Subs
    BY <1>5 DEF DataCommands
  <2>2. [kind |-> "text", id |-> c.id] \in Chunks
    BY <2>1 DEF Chunks
  <2>3. \A p \in {"waiting", "text"} : [id |-> c.id, phase |-> p] \in Submissions
    BY <2>1 DEF Submissions
  <2>4. /\ \/ pending' = pending
           \/ pending' = Append(pending, [kind |-> "text", id |-> c.id])
        /\ \E p \in {"waiting", "text"} : active' = [id |-> c.id, phase |-> p]
        /\ UNCHANGED replies
    BY <1>2, <1>5 DEF HandleDataCommand
  <2>5. pending' \in Seq(Chunks)
    <3>1. CASE pending' = pending
      BY <3>1 DEF Shapes
    <3>2. CASE pending' = Append(pending, [kind |-> "text", id |-> c.id])
      BY <2>2, <3>2 DEF Shapes
    <3>. QED  BY <2>4, <3>1, <3>2
  <2>. QED  BY <1>1, <2>3, <2>4, <2>5 DEF Shapes
<1>. QED  BY <1>3, <1>4, <1>5

\* One write of the pending queue leaves it well-formed.
LEMMA WriteShape ==
  ASSUME Shapes, WriteChunk
  PROVE  pending' \in Seq(Chunks) /\ out' \in Seq(Chunks)
<1>1. Head(pending) \in Chunks /\ Tail(pending) \in Seq(Chunks)
  BY DEF Shapes, WriteChunk
<1>2. \/ UNCHANGED <<pending, out>>
      \/ pending' = Tail(pending) /\ out' = Append(out, Head(pending))
  BY Zenon DEF WriteChunk
<1>3. CASE UNCHANGED <<pending, out>>
  BY <1>3 DEF Shapes
<1>4. CASE pending' = Tail(pending) /\ out' = Append(out, Head(pending))
  BY <1>1, <1>4 DEF Shapes
<1>. QED  BY <1>2, <1>3, <1>4

\* Taking a control command leaves the channel well-formed.
LEMMA TakeShape ==
  ASSUME Shapes, NEW op, TakeControl(op)
  PROVE  /\ Head(control) \in ControlCommands
         /\ Head(control).req \in Requests
         /\ control' \in Seq(ControlCommands)
<1>1. /\ Head(control) \in ControlCommands
      /\ control' \in Seq(ControlCommands)
  BY HeadTail DEF Shapes, TakeControl
<1>. QED  BY <1>1 DEF ControlCommands

\* One read of the PTY leaves the pending writes and the responses well-formed.
LEMMA ReadShape ==
  ASSUME Shapes, ReadOnce
  PROVE  pending' \in Seq(Chunks) /\ responses' = 0 /\ produced' \in Nat
<1>1. PICK n \in 0..1 :
        /\ produced' = produced + n
        /\ pending' = TakeResponses(pending) \o [i \in 1..n |-> Response]
  BY DEF ReadOnce
<1>2. TakeResponses(pending) \in Seq(Chunks)
  BY TakeResponsesType, Zenon DEF Shapes, TakeResponses
<1>3. n \in Nat
  OBVIOUS
<1>4. pending' \in Seq(Chunks)
  BY <1>1, <1>2, <1>3, TakeResponsesType
<1>. QED  BY <1>1, <1>4 DEF Shapes, ReadOnce

\* Every step keeps every variable other than the flags in its type.
LEMMA ShapesStep == Shapes /\ [Next]_vars => Shapes'
<1>. SUFFICES ASSUME Shapes, [Next]_vars PROVE Shapes'
  OBVIOUS
<1>. USE ConstantsAssumption
     DEF Shapes, DataCommands, ControlOps, Requests, ActorPcs, DriverPcs
<1>1. ASSUME NEW w \in Writes, TryWriteUserInput(w) PROVE Shapes'
  BY <1>1 DEF TryWriteUserInput, SendData, runnerVars, driverVars, historyVars, Outside
<1>2. ASSUME NEW s \in Subs, QueueUserInputSubmission(s) PROVE Shapes'
  BY <1>2 DEF QueueUserInputSubmission, SendData, runnerVars, driverVars, historyVars, Outside
<1>3. CASE WriteTerminalResponse
  BY <1>3 DEF WriteTerminalResponse, runnerVars, driverVars, historyVars, Outside
<1>4. CASE BeginHandoff
  <2>1. request + 1 \in Requests /\ control' = Append(control, [op |-> "begin", req |-> request + 1])
    BY <1>4 DEF BeginHandoff, Send
  <2>2. control' \in Seq(ControlCommands)
    BY <2>1, SendShape
  <2>. QED  BY <1>4, <2>1, <2>2 DEF BeginHandoff, Send, runnerVars, historyVars
<1>5. CASE BeginFails
  <2>1. request + 1 \in Requests /\ control' = Append(control, [op |-> "rollback", req |-> request + 1])
    BY <1>5 DEF BeginFails, SendRollback, Send
  <2>2. control' \in Seq(ControlCommands)
    BY <2>1, SendShape
  <2>. QED  BY <1>5, <2>1, <2>2 DEF BeginFails, SendRollback, Send, runnerVars, historyVars
<1>6. CASE DuplicateForHandoff
  <2>1. request + 1 \in Requests /\ control' = Append(control, [op |-> "dup", req |-> request + 1])
    BY <1>6 DEF DuplicateForHandoff, Send
  <2>2. control' \in Seq(ControlCommands)
    BY <2>1, SendShape
  <2>. QED  BY <1>6, <2>1, <2>2 DEF DuplicateForHandoff, Send, runnerVars, historyVars
<1>7. CASE RollbackHandoff
  <2>1. request + 1 \in Requests /\ control' = Append(control, [op |-> "rollback", req |-> request + 1])
    BY <1>7 DEF RollbackHandoff, SendRollback, Send
  <2>2. control' \in Seq(ControlCommands)
    BY <2>1, SendShape
  <2>. QED  BY <1>7, <2>1, <2>2 DEF RollbackHandoff, SendRollback, Send, runnerVars, historyVars
<1>8. CASE ReleaseAfterCommit
  <2>1. request + 1 \in Requests /\ control' = Append(control, [op |-> "release", req |-> request + 1])
    BY <1>8 DEF ReleaseAfterCommit, Send
  <2>2. control' \in Seq(ControlCommands)
    BY <2>1, SendShape
  <2>. QED  BY <1>8, <2>1, <2>2 DEF ReleaseAfterCommit, Send, runnerVars, historyVars
<1>9. CASE Shutdown
  <2>1. CASE ActorGone
    BY <1>9, <2>1 DEF Shutdown, runnerVars, historyVars
  <2>2. CASE ~ActorGone
    <3>1. control' = Append(control, [op |-> "shutdown", req |-> 0])
      BY <1>9, <2>2 DEF Shutdown
    <3>2. control' \in Seq(ControlCommands)
      BY <3>1, SendShape
    <3>. QED  BY <1>9, <3>2 DEF Shutdown, runnerVars, historyVars
  <2>. QED  BY <2>1, <2>2
<1>10. CASE DriverReceives
  BY <1>10 DEF DriverReceives, runnerVars, driverVars, historyVars, Outside
<1>11. CASE DriverTimesOut
  BY <1>11 DEF DriverTimesOut, runnerVars, driverVars, historyVars, Outside
<1>12. CASE HandleBegin
  <2>1. /\ Head(control).req \in Requests
        /\ control' \in Seq(ControlCommands)
    BY <1>12, TakeShape DEF HandleBegin
  <2>3. CASE active = NoSubmission
    BY <1>12, <2>1, <2>3 DEF HandleBegin, Outside, historyVars
  <2>4. CASE active # NoSubmission
    BY <1>12, <2>1, <2>4 DEF HandleBegin, Outside, historyVars
  <2>. QED  BY <2>3, <2>4
<1>13. CASE HandleDuplicate
  <2>1. control' \in Seq(ControlCommands)
    BY <1>13, TakeShape DEF HandleDuplicate
  <2>. QED  BY <1>13, <2>1 DEF HandleDuplicate, Reply, runnerVars, Outside, historyVars
<1>14. CASE HandleRollback
  <2>1. control' \in Seq(ControlCommands)
    BY <1>14, TakeShape DEF HandleRollback
  <2>. QED  BY <1>14, <2>1 DEF HandleRollback, Reply, runnerVars, Outside, historyVars
<1>15. CASE HandleRelease
  <2>1. control' \in Seq(ControlCommands)
    BY <1>15, TakeShape DEF HandleRelease
  <2>. QED  BY <1>15, <2>1 DEF HandleRelease, Reply, runnerVars, Outside, historyVars
<1>16. CASE HandleShutdown
  <2>1. control' \in Seq(ControlCommands)
    <3>1. CASE TakeControl("shutdown")
      BY <3>1, TakeShape
    <3>2. CASE UNCHANGED control
      BY <3>2
    <3>. QED  BY <1>16, <3>1, <3>2 DEF HandleShutdown
  <2>. QED  BY <1>16, <2>1 DEF HandleShutdown, runnerVars, Outside, historyVars
<1>17. CASE ControlDrained
  BY <1>17 DEF ControlDrained, runnerVars, driverVars, historyVars, Outside
<1>18. CASE DrainData
  <2>1. CASE data # <<>> /\ active = NoSubmission
    BY <1>18, <2>1, DataShape DEF DrainData, Outside
  <2>2. CASE ~(data # <<>> /\ active = NoSubmission)
    BY <1>18, <2>2 DEF DrainData, Outside
  <2>. QED  BY <2>1, <2>2, Zenon
<1>19. CASE PreDrain
  <2>1. CASE data # <<>> /\ active = NoSubmission
    BY <1>19, <2>1, DataShape DEF PreDrain, Outside
  <2>2. CASE ~(data # <<>> /\ active = NoSubmission)
    BY <1>19, <2>2 DEF PreDrain, Outside
  <2>. QED  BY <2>1, <2>2, Zenon
<1>20. CASE StartDrain
  <2>1. pending' \in Seq(Chunks)
    BY <1>20, TakeResponsesType, Zenon DEF StartDrain, TakeResponses
  <2>. QED  BY <1>20, <2>1 DEF StartDrain, Outside, historyVars
<1>21. CASE DrainStep
  <2>1. /\ pending' \in Seq(Chunks) /\ out' \in Seq(Chunks)
        /\ responses' \in Nat /\ produced' \in Nat
    BY <1>21, ReadShape, WriteShape DEF DrainStep
  <2>. QED  BY <1>21, <2>1 DEF DrainStep, Outside
<1>22. CASE Quiesce
  BY <1>22 DEF Quiesce, Reply, runnerVars, driverVars, historyVars, Outside
<1>23. CASE DrainFails
  <2>1. pending' \in Seq(Chunks)
    <3>1. pending' = pending \/ pending' = <<>>
      BY <1>23, Zenon DEF DrainFails
    <3>2. CASE pending' = pending
      BY <3>2
    <3>3. CASE pending' = <<>>
      BY <3>3
    <3>. QED  BY <3>1, <3>2, <3>3
  <2>2. answer' \in {"none", "ok", "err"} /\ pc' \in ActorPcs /\ current' \in Requests
    BY <1>23 DEF DrainFails, Reply
  <2>. QED  BY <1>23, <2>1, <2>2 DEF DrainFails, Outside
<1>24. CASE ApplyPendingControls
  <2>1. pending' \in Seq(Chunks)
    BY <1>24, TakeResponsesType, Zenon DEF ApplyPendingControls, TakeResponses
  <2>. QED  BY <1>24, <2>1 DEF ApplyPendingControls, Outside, historyVars
<1>25. CASE FlushStep
  <2>1. CASE WriteChunk /\ ~partial'
    <3>1. pending' \in Seq(Chunks) /\ out' \in Seq(Chunks)
      BY <2>1, WriteShape
    <3>2. pc' \in ActorPcs
      BY <1>25 DEF FlushStep
    <3>3. /\ active' \in Submissions \cup {NoSubmission}
          /\ replies' \in [Subs -> {"none", "ok", "err"}]
      <4>1. \/ UNCHANGED <<active, replies>>
            \/ CompleteBoundary(Head(pending).kind)
        BY <1>25, <2>1, Zenon DEF FlushStep
      <4>2. CASE CompleteBoundary(Head(pending).kind) /\ ~UNCHANGED <<active, replies>>
        <5>1. active \in Submissions
          BY <4>2, Zenon DEF CompleteBoundary
        <5>2. active.id \in Subs /\ [active EXCEPT !.phase = "waiting"] \in Submissions
          BY <5>1, Zenon DEF Submissions
        <5>. QED  BY <4>2, <5>2, Zenon DEF CompleteBoundary
      <4>3. CASE UNCHANGED <<active, replies>>
        BY <4>3
      <4>. QED  BY <4>1, <4>2, <4>3
    <3>. QED  BY <1>25, <3>1, <3>2, <3>3, Zenon DEF FlushStep, Outside
  <2>2. CASE ~(WriteChunk /\ ~partial')
    BY <1>25, <2>2, WriteShape, Zenon DEF FlushStep, Outside
  <2>. QED  BY <2>1, <2>2, Zenon
<1>26. CASE FlushFails
  BY <1>26 DEF FlushFails, runnerVars, driverVars, historyVars, Outside
<1>27. CASE ScheduleEnter
  <2>1. CASE active.phase = "waiting" /\ ~UNCHANGED <<active, replies, pending>>
    <3>1. active \in Submissions
      BY <2>1 DEF NoSubmission
    <3>2. active.id \in Subs
      BY <3>1 DEF Submissions
    <3>3. [kind |-> "enter", id |-> active.id] \in Chunks
      BY <3>2 DEF Chunks
    <3>4. [active EXCEPT !.phase = "enter"] \in Submissions
      BY <3>1, Zenon DEF Submissions
    <3>5. /\ active' \in Submissions \cup {NoSubmission}
          /\ replies' \in [Subs -> {"none", "ok", "err"}]
          /\ \/ pending' = pending
             \/ pending' = Append(pending, [kind |-> "enter", id |-> active.id])
      BY <1>27, <2>1, <3>2, <3>4, Zenon DEF ScheduleEnter
    <3>6. pending' \in Seq(Chunks)
      <4>1. CASE pending' = pending
        BY <4>1
      <4>2. CASE pending' = Append(pending, [kind |-> "enter", id |-> active.id])
        BY <3>3, <4>2
      <4>. QED  BY <3>5, <4>1, <4>2
    <3>. QED  BY <1>27, <3>5, <3>6 DEF ScheduleEnter, Outside
  <2>2. CASE UNCHANGED <<active, replies, pending>>
    BY <1>27, <2>2 DEF ScheduleEnter, Outside
  <2>. QED  BY <1>27, <2>1, <2>2, Zenon DEF ScheduleEnter
<1>28. CASE PollWake
  BY <1>28 DEF PollWake, runnerVars, driverVars, historyVars, Outside
<1>29. CASE PollReady
  <2>1. /\ pending' \in Seq(Chunks) /\ responses' \in Nat /\ produced' \in Nat
    BY <1>29, ReadShape DEF PollReady
  <2>. QED  BY <1>29, <2>1 DEF PollReady, Outside, historyVars
<1>30. CASE PollFails
  BY <1>30, Zenon DEF PollFails, runnerVars, driverVars, historyVars, Outside
<1>31. CASE CloseInputQueue
  BY <1>31 DEF CloseInputQueue, runnerVars, driverVars, historyVars, Outside
<1>32. CASE UNCHANGED vars
  BY <1>32 DEF vars
<1>. QED
  BY <1>1, <1>2, <1>3, <1>4, <1>5, <1>6, <1>7, <1>8, <1>9, <1>10, <1>11, <1>12, <1>13, <1>14, <1>15, <1>16, <1>17, <1>18, <1>19, <1>20, <1>21, <1>22, <1>23, <1>24, <1>25, <1>26, <1>27, <1>28, <1>29, <1>30, <1>31, <1>32, Zenon DEF Next, Client, Driver, Actor
\* The handoff protocol part of the inductive invariant.
Protocol == GateOpen /\ Numbering /\ OneBegin /\ Answered /\ Held /\ QuiescedIdle

\* A step that touches neither the gate, the requests nor the actor's state
\* keeps the protocol.
LEMMA QuietStep ==
  ASSUME Protocol,
         UNCHANGED <<accepting, driver, state, control, current, pendingHandoff, request, answer>>,
         (pc \in Serving) <=> (pc' \in Serving)
  PROVE  Protocol'
BY DEF Protocol, GateOpen, Numbering, OneBegin, Answered, Held,
            QuiescedIdle, Waiting, Serving

\* What the actor knows when it takes a command off the control channel.
LEMMA TakeFacts ==
  ASSUME Shapes, Protocol, NEW o, TakeControl(o)
  PROVE  /\ pc = "control" /\ control # <<>> /\ control' = Tail(control)
         /\ control[1].op = o /\ Head(control) = control[1] /\ 1 \in 1..Len(control)
         /\ Len(control') = Len(control) - 1
         /\ \A i \in 1..Len(control') : control'[i] = control[i + 1] /\ i + 1 \in 1..Len(control)
         /\ \A i \in 1..Len(control') : control'[i].op # "begin"
         /\ current = 0 /\ ~accepting /\ answer = "none"
<1>1. control \in Seq(ControlCommands) /\ Len(control) \in Nat
  BY ShapeFacts
<1>2. pc = "control" /\ control # <<>> /\ Head(control).op = o /\ control' = Tail(control)
  BY Zenon DEF TakeControl
<1>3. /\ Head(control) = control[1] /\ 1 \in 1..Len(control)
      /\ Len(control') = Len(control) - 1
      /\ \A i \in 1..Len(control') : control'[i] = control[i + 1] /\ i + 1 \in 1..Len(control)
  BY <1>1, <1>2
<1>4. current = 0 /\ ~accepting /\ answer = "none"
  BY <1>2 DEF Protocol, OneBegin, GateOpen, Answered, Serving
<1>5. control[1].op = o
  BY <1>2, <1>3, Zenon
<1>6. ASSUME NEW i \in 1..Len(control'), control'[i].op = "begin" PROVE FALSE
  <2>1. i + 1 \in 1..Len(control) /\ control[i + 1].op = "begin"
    BY <1>3, <1>6, Zenon
  <2>2. i + 1 = 1
    BY <2>1, Zenon DEF Protocol, OneBegin
  <2>. QED  BY <1>1, <1>3, <2>2
<1>. QED  BY <1>2, <1>3, <1>4, <1>5, <1>6, Zenon

\* Serving a command nobody waits for any more keeps the protocol.
LEMMA UnansweredStep ==
  ASSUME Shapes, Protocol, NEW o, TakeControl(o),
         UNCHANGED <<accepting, driver, request, current, answer>>,
         pendingHandoff' \in {0, pendingHandoff}, pc' \notin Serving,
         state' = state \/ (state' # "Quiesced" /\ o # "dup")
  PROVE  Protocol'
<1>1. /\ pc = "control" /\ control # <<>> /\ control[1].op = o /\ 1 \in 1..Len(control)
      /\ Len(control') = Len(control) - 1
      /\ \A i \in 1..Len(control') : control'[i] = control[i + 1] /\ i + 1 \in 1..Len(control)
      /\ \A i \in 1..Len(control') : control'[i].op # "begin"
      /\ current = 0 /\ ~accepting /\ answer = "none"
  BY TakeFacts, Zenon
<1>2. pendingHandoff' \in Nat /\ pendingHandoff \in Nat /\ (pendingHandoff = 0 => pendingHandoff' = 0)
  BY ShapeFacts
<1>3. GateOpen' /\ Answered'
  BY <1>1 DEF GateOpen, Answered
<1>4. Numbering'
  <2>1. SUFFICES ASSUME driver # "gone" PROVE Numbering'
    BY DEF Numbering
  <2>2. ASSUME NEW i \in 1..Len(control')
        PROVE  /\ control'[i].op # "shutdown"
               /\ 0 < control'[i].req /\ control'[i].req <= request
               /\ 0 < control'[i].req /\ pendingHandoff' < control'[i].req
               /\ \A j \in 1..Len(control') : i < j => control'[i].req < control'[j].req
               /\ (driver \in Waiting /\ control'[i].req = request) => control'[i].op = driver
    <3>1. i + 1 \in 1..Len(control) /\ control'[i] = control[i + 1] /\ i \in Nat
      BY <1>1
    <3>2. /\ control[i + 1].op # "shutdown"
          /\ 0 < control[i + 1].req /\ control[i + 1].req <= request
          /\ pendingHandoff < control[i + 1].req
          /\ \A j \in 1..Len(control) : i + 1 < j => control[i + 1].req < control[j].req
          /\ (driver \in Waiting /\ control[i + 1].req = request) => control[i + 1].op = driver
      BY Zenon, <2>1, <3>1 DEF Protocol, Numbering
    <3>3. ASSUME NEW j \in 1..Len(control'), i < j PROVE control'[i].req < control'[j].req
      <4>1. j + 1 \in 1..Len(control) /\ control'[j] = control[j + 1] /\ i + 1 < j + 1
        BY <1>1, <3>1, <3>3
      <4>. QED  BY <3>1, <3>2, <4>1
    <3>4. pendingHandoff' < control'[i].req
      <4>1. control[i + 1].req \in Nat
        BY <3>1, ShapeFacts
      <4>. QED  BY <1>2, <3>1, <3>2, <4>1
    <3>. QED  BY <3>1, <3>2, <3>3, <3>4
  <2>3. /\ 0 <= request /\ pendingHandoff' <= request
        /\ driver \in Waiting => request > 0
        /\ driver \in Waiting \ {"begin"} => 0 < request /\ pendingHandoff' < request
    BY SMTT(30), ShapeFacts, <1>1, <1>2, <2>1 DEF Protocol, Numbering
  <2>. QED  BY <1>1, <2>2, <2>3, Zenon DEF Numbering
<1>5. OneBegin'
  BY <1>1, <1>2 DEF OneBegin, Serving
<1>6. Held' /\ QuiescedIdle'
  BY SMTT(30), <1>1, <1>2 DEF Protocol, Held, QuiescedIdle
<1>. QED  BY <1>3, <1>4, <1>5, <1>6 DEF Protocol

\* Serving the command the driver waits for leaves the channel empty.
LEMMA AnsweredStep ==
  ASSUME Shapes, Protocol, NEW o, TakeControl(o), o # "begin",
         driver \in Waiting, control[1].req = request,
         UNCHANGED <<accepting, driver, request, current>>, pc' \notin Serving,
         IF o = "rollback" THEN pendingHandoff' = 0 ELSE UNCHANGED pendingHandoff,
         o = "dup" => UNCHANGED state,
         o = "rollback" => state' = "Running",
         o = "release" => state' = "Released"
  PROVE  Protocol'
<1>1. /\ pc = "control" /\ control # <<>> /\ control[1].op = o /\ control' = Tail(control)
      /\ current = 0 /\ ~accepting
  BY TakeFacts, Zenon
<1>2. driver = o /\ control' = <<>>
  BY <1>1, LastRequest, Zenon DEF Protocol
<1>3. pendingHandoff' = 0 /\ request > 0 /\ request \in Nat
  BY <1>2, ShapeFacts DEF Protocol, Held, Waiting, Numbering
<1>4. o \in {"dup", "rollback", "release"}
  BY <1>2, Zenon DEF Waiting
<1>5. GateOpen' /\ Numbering' /\ OneBegin' /\ Held'
  BY <1>1, <1>2, <1>3, <1>4 DEF Protocol, GateOpen, Numbering, OneBegin, Held, Waiting, Serving
<1>6. Answered'
  <2>1. /\ driver' \in Waiting /\ driver' = o
        /\ control' = <<>> /\ current' = 0 /\ pendingHandoff' = 0
    BY <1>1, <1>2, <1>3
  <2>. QED  BY <1>4, <2>1 DEF Answered
<1>7. QuiescedIdle'
  <2>1. control' = <<>> /\ current' = 0 /\ pendingHandoff' = 0
    BY <1>1, <1>2, <1>3
  <2>. QED  BY <2>1 DEF QuiescedIdle
<1>. QED  BY <1>5, <1>6, <1>7 DEF Protocol

\* Sending a request, and waiting for its reply, keeps the protocol.
LEMMA SendStep ==
  ASSUME Shapes, Protocol, NEW o \in Waiting, Send(o), driver # "gone", driver' = o,
         ~accepting', UNCHANGED <<pc, state, current, pendingHandoff>>,
         o = "begin" => accepting,
         o \in {"dup", "release"} => driver = "held"
  PROVE  Protocol'
<1>1. /\ control \in Seq(ControlCommands) /\ Len(control) \in Nat
      /\ request \in Nat /\ current \in Nat /\ pendingHandoff \in Nat
      /\ \A i \in 1..Len(control) : control[i].req \in Nat
  BY ShapeFacts
<1>2. request' = request + 1 /\ answer' = "none"
      /\ control' = Append(control, [op |-> o, req |-> request + 1])
  BY Zenon DEF Send
<1>3. /\ Len(control') = Len(control) + 1
      /\ \A i \in 1..Len(control) : control'[i] = control[i]
      /\ control'[Len(control) + 1].op = o /\ control'[Len(control) + 1].req = request + 1
      /\ \A i \in 1..Len(control') : i \in 1..Len(control) \/ i = Len(control) + 1
  BY <1>1, <1>2
<1>4. GateOpen' /\ Answered'
  BY <1>2 DEF GateOpen, Answered
<1>5. current <= request /\ pendingHandoff <= request
      /\ \A i \in 1..Len(control) :
           /\ control[i].op # "shutdown" /\ 0 < control[i].req /\ control[i].req <= request
           /\ current < control[i].req /\ pendingHandoff < control[i].req
           /\ \A j \in 1..Len(control) : i < j => control[i].req < control[j].req
  BY Zenon DEF Protocol, Numbering
<1>6. Numbering'
  <2>1. ASSUME NEW i \in 1..Len(control')
        PROVE  /\ control'[i].op # "shutdown"
               /\ 0 < control'[i].req /\ control'[i].req <= request + 1
               /\ current < control'[i].req /\ pendingHandoff < control'[i].req
               /\ \A j \in 1..Len(control') : i < j => control'[i].req < control'[j].req
               /\ control'[i].req = request + 1 => control'[i].op = o
    <3>1. CASE i \in 1..Len(control)
      <4>1. /\ control'[i] = control[i] /\ control[i].op # "shutdown" /\ 0 < control[i].req
            /\ control[i].req <= request /\ control[i].req \in Nat
            /\ current < control[i].req /\ pendingHandoff < control[i].req
            /\ \A j \in 1..Len(control) : i < j => control[i].req < control[j].req
        BY Zenon, <1>1, <1>3, <1>5, <3>1
      <4>2. ASSUME NEW j \in 1..Len(control'), i < j PROVE control'[i].req < control'[j].req
        <5>1. CASE j \in 1..Len(control)
          BY <1>3, <4>1, <4>2, <5>1, Zenon
        <5>2. CASE j = Len(control) + 1
          BY <1>1, <1>3, <4>1, <5>2
        <5>. QED  BY <1>3, <5>1, <5>2
      <4>. QED  BY <1>1, <4>1, <4>2
    <3>2. CASE i = Len(control) + 1
      <4>1. control'[i].op = o /\ control'[i].req = request + 1 /\ o # "shutdown"
        BY <1>3, <3>2 DEF Waiting
      <4>2. \A j \in 1..Len(control') : ~(i < j)
        BY <1>1, <1>3, <3>2
      <4>. QED  BY <1>1, <1>5, <4>1, <4>2
    <3>. QED  BY <1>3, <3>1, <3>2, Zenon
  <2>2. current <= request + 1 /\ pendingHandoff <= request + 1 /\ request + 1 > 0
        /\ current < request + 1 /\ pendingHandoff < request + 1
    BY <1>1, <1>5
  <2>. QED  BY <1>2, <2>1, <2>2, Zenon DEF Numbering
<1>7. OneBegin'
  <2>1. CASE o = "begin"
    <3>1. control = <<>> /\ current = 0 /\ pendingHandoff = 0
      BY <2>1, Zenon DEF Protocol, GateOpen
    <3>2. \A i \in 1..Len(control') : i = 1 /\ control'[i].req > 0
      BY <1>1, <1>3, <3>1
    <3>. QED  BY <3>1, <3>2 DEF Protocol, OneBegin
  <2>2. CASE o # "begin"
    BY <1>3, <2>2 DEF Protocol, OneBegin
  <2>. QED  BY <2>1, <2>2
<1>8. Held'
  <2>1. CASE o \in {"dup", "release"}
    <3>1. /\ control = <<>> /\ current = 0 /\ pendingHandoff = 0 /\ state = "Quiesced"
      BY <2>1 DEF Protocol, Held
    <3>2. \A i \in 1..Len(control') : control'[i].op = o
      BY <1>3, <3>1
    <3>. QED  BY <2>1, <3>1, <3>2 DEF Held
  <2>2. CASE o \notin {"dup", "release"}
    BY <2>2 DEF Held, Waiting
  <2>. QED  BY <2>1, <2>2
<1>9. QuiescedIdle'
  <2>1. SUFFICES ASSUME state = "Quiesced" PROVE QuiescedIdle'
    BY DEF QuiescedIdle
  <2>2. o # "begin"
    BY <2>1, Zenon DEF Protocol, GateOpen
  <2>3. \A i \in 1..Len(control') : control'[i].op # "begin"
    BY <1>3, <2>1, <2>2, Zenon DEF Protocol, QuiescedIdle
  <2>. QED  BY <2>1, <2>3 DEF Protocol, QuiescedIdle
<1>. QED  BY <1>4, <1>6, <1>7, <1>8, <1>9 DEF Protocol

\* Taking a BeginHandoff, to serve it or to defer it, keeps the protocol.
LEMMA BeginStep ==
  ASSUME Shapes, Protocol, TakeControl("begin"),
         UNCHANGED <<accepting, driver, request, state, answer>>,
         \/ /\ current' = Head(control).req /\ pc' = "preDrain" /\ UNCHANGED pendingHandoff
         \/ /\ pendingHandoff' = Head(control).req /\ UNCHANGED <<current, pc>>
  PROVE  Protocol'
<1>1. /\ pc = "control" /\ control # <<>> /\ control[1].op = "begin" /\ 1 \in 1..Len(control)
      /\ Head(control) = control[1] /\ Len(control') = Len(control) - 1
      /\ \A i \in 1..Len(control') : control'[i] = control[i + 1] /\ i + 1 \in 1..Len(control)
      /\ \A i \in 1..Len(control') : control'[i].op # "begin"
      /\ current = 0 /\ ~accepting /\ answer = "none"
  BY TakeFacts, Zenon
<1>2. /\ pendingHandoff = 0 /\ control[1].req > 0 /\ state # "Quiesced"
      /\ driver \notin {"held", "dup", "release"}
  BY <1>1 DEF Protocol, OneBegin, QuiescedIdle, Held
<1>3. request \in Nat /\ Len(control) \in Nat /\ \A i \in 1..Len(control) : control[i].req \in Nat
  BY ShapeFacts, Zenon
<1>4. GateOpen' /\ Answered' /\ Held' /\ QuiescedIdle'
  BY <1>1, <1>2 DEF GateOpen, Answered, Held, QuiescedIdle
<1>5. OneBegin'
  BY <1>1, <1>2, <1>3 DEF OneBegin, Serving
<1>6. Numbering'
  <2>1. SUFFICES ASSUME driver # "gone" PROVE Numbering'
    BY DEF Numbering
  <2>2. /\ control[1].req <= request
        /\ \A j \in 1..Len(control) : 1 < j => control[1].req < control[j].req
        /\ driver \in Waiting => request > 0
        /\ (driver \in Waiting /\ control[1].req = request) => control[1].op = driver
    BY Zenon, <1>1, <2>1 DEF Protocol, Numbering
  <2>3. driver \in Waiting \ {"begin"} => control[1].req < request
    BY <1>1, <1>3, <2>2
  <2>4. ASSUME NEW i \in 1..Len(control')
        PROVE  /\ control'[i].op # "shutdown"
               /\ 0 < control'[i].req /\ control'[i].req <= request
               /\ control[1].req < control'[i].req
               /\ \A j \in 1..Len(control') : i < j => control'[i].req < control'[j].req
               /\ (driver \in Waiting /\ control'[i].req = request) => control'[i].op = driver
    <3>1. /\ i + 1 \in 1..Len(control) /\ control'[i] = control[i + 1] /\ i \in Nat /\ 1 < i + 1
      BY <1>1
    <3>2. /\ control[i + 1].op # "shutdown"
          /\ 0 < control[i + 1].req /\ control[i + 1].req <= request
          /\ \A j \in 1..Len(control) : i + 1 < j => control[i + 1].req < control[j].req
          /\ (driver \in Waiting /\ control[i + 1].req = request) => control[i + 1].op = driver
      BY Zenon, <2>1, <3>1 DEF Protocol, Numbering
    <3>3. ASSUME NEW j \in 1..Len(control'), i < j PROVE control'[i].req < control'[j].req
      <4>1. j + 1 \in 1..Len(control) /\ control'[j] = control[j + 1] /\ i + 1 < j + 1
        BY <1>1, <3>1, <3>3
      <4>. QED  BY <3>1, <3>2, <4>1, Zenon
    <3>. QED  BY <2>2, <3>1, <3>2, <3>3, Zenon
  <2>5. CASE current' = control[1].req /\ UNCHANGED pendingHandoff
    BY <1>2, <1>3, <2>2, <2>3, <2>4, <2>5 DEF Numbering
  <2>6. CASE pendingHandoff' = control[1].req /\ UNCHANGED current
    BY SMTT(30), <1>1, <1>2, <1>3, <2>2, <2>3, <2>4, <2>6 DEF Numbering
  <2>. QED  BY <1>1, <2>5, <2>6, Zenon
<1>. QED  BY <1>4, <1>5, <1>6 DEF Protocol

\* The end of begin_handoff, with either outcome, keeps the protocol.
LEMMA ServedStep ==
  ASSUME Shapes, Protocol, pc = "drainWrites", pc' = back, current' = 0,
         UNCHANGED <<accepting, driver, request, control, pendingHandoff>>,
         \/ state' = "Quiesced" /\ Reply(current, "ok")
         \/ UNCHANGED state /\ Reply(current, "err")
  PROVE  Protocol'
<1>1. /\ current # 0 /\ pendingHandoff = 0 /\ ~accepting /\ answer = "none"
      /\ driver \notin {"held", "dup", "release"} /\ state # "Quiesced"
      /\ \A i \in 1..Len(control) : control[i].op # "begin"
  BY DEF Protocol, OneBegin, GateOpen, Answered, Held, QuiescedIdle, Serving
<1>2. /\ pc' \notin Serving
      /\ current \in Nat /\ request \in Nat /\ control \in Seq(ControlCommands)
      /\ Len(control) \in Nat /\ \A i \in 1..Len(control) : control[i].req \in Nat
  BY ShapeFacts, Zenon DEF Serving
<1>3. GateOpen' /\ Held' /\ QuiescedIdle'
  BY <1>1 DEF GateOpen, Held, QuiescedIdle
<1>4. OneBegin'
  BY <1>1, <1>2, Zenon DEF OneBegin
<1>5. Numbering'
  BY <1>1, <1>2 DEF Protocol, Numbering
<1>6. Answered'
  <2>1. SUFFICES ASSUME answer' # "none" PROVE Answered'
    BY DEF Answered
  <2>2. /\ current = request /\ driver \in Waiting
        /\ answer' = "ok" => state' = "Quiesced"
    BY <1>1, <2>1, Zenon DEF Reply, Waiting
  <2>3. driver = "begin"
    BY <1>2, <2>2 DEF Protocol, Numbering, Waiting
  <2>4. ASSUME NEW i \in 1..Len(control) PROVE FALSE
    <3>1. current < control[i].req /\ control[i].req <= request
      BY Zenon, <2>3, <2>4 DEF Protocol, Numbering
    <3>. QED  BY <1>2, <2>2, <3>1
  <2>5. control = <<>>
    BY <1>2, <2>4, EmptySeq
  <2>. QED  BY <1>1, <2>2, <2>3, <2>5 DEF Answered
<1>. QED  BY <1>3, <1>4, <1>5, <1>6, Zenon DEF Protocol

\* Every step keeps the handoff protocol part of the invariant.
LEMMA ProtocolStep == Shapes /\ Shapes' /\ Protocol /\ [Next]_vars => Protocol'
<1>. SUFFICES ASSUME Shapes, Shapes', Protocol, [Next]_vars PROVE Protocol'
  OBVIOUS
<1>1. ASSUME NEW w \in Writes, TryWriteUserInput(w) PROVE Protocol'
  <2>1. UNCHANGED <<accepting, driver, state, control, current, pendingHandoff, request, answer>>
    BY Zenon, <1>1 DEF TryWriteUserInput, SendData, runnerVars, driverVars, historyVars, Outside
  <2>2. (pc \in Serving) <=> (pc' \in Serving)
    BY ShapeFacts, <1>1 DEF TryWriteUserInput, SendData, runnerVars, driverVars, historyVars, Outside, Serving
  <2>. QED  BY <2>1, <2>2, QuietStep
<1>2. ASSUME NEW s \in Subs, QueueUserInputSubmission(s) PROVE Protocol'
  <2>1. UNCHANGED <<accepting, driver, state, control, current, pendingHandoff, request, answer>>
    BY Zenon, <1>2 DEF QueueUserInputSubmission, SendData, runnerVars, driverVars, historyVars, Outside
  <2>2. (pc \in Serving) <=> (pc' \in Serving)
    BY ShapeFacts, <1>2 DEF QueueUserInputSubmission, SendData, runnerVars, driverVars, historyVars, Outside, Serving
  <2>. QED  BY <2>1, <2>2, QuietStep
<1>3. CASE WriteTerminalResponse
  <2>1. UNCHANGED <<accepting, driver, state, control, current, pendingHandoff, request, answer>>
    BY Zenon, <1>3 DEF WriteTerminalResponse, runnerVars, driverVars, historyVars, Outside
  <2>2. (pc \in Serving) <=> (pc' \in Serving)
    BY ShapeFacts, <1>3 DEF WriteTerminalResponse, runnerVars, driverVars, historyVars, Outside, Serving
  <2>. QED  BY <2>1, <2>2, QuietStep
<1>4. CASE BeginHandoff
  <2>1. /\ Send("begin") /\ driver' = "begin"
        /\ UNCHANGED <<pc, state, current, pendingHandoff>>
        /\ accepting /\ ~accepting' /\ driver = "idle"
    BY Zenon, <1>4 DEF BeginHandoff, runnerVars
  <2>2. ~accepting'
    BY Zenon, <2>1 DEF Protocol, GateOpen
  <2>. QED  BY <2>1, <2>2, SendStep DEF Waiting
<1>5. CASE BeginFails
  <2>1. /\ Send("rollback") /\ driver' = "rollback"
        /\ UNCHANGED <<pc, state, current, pendingHandoff>>
        /\ UNCHANGED accepting /\ driver = "begin"
    BY Zenon, <1>5 DEF BeginFails, SendRollback, runnerVars
  <2>2. ~accepting'
    BY Zenon, <2>1 DEF Protocol, GateOpen
  <2>. QED  BY <2>1, <2>2, SendStep DEF Waiting
<1>6. CASE DuplicateForHandoff
  <2>1. /\ Send("dup") /\ driver' = "dup"
        /\ UNCHANGED <<pc, state, current, pendingHandoff>>
        /\ UNCHANGED accepting /\ driver = "held"
    BY Zenon, <1>6 DEF DuplicateForHandoff, runnerVars
  <2>2. ~accepting'
    BY Zenon, <2>1 DEF Protocol, GateOpen
  <2>. QED  BY <2>1, <2>2, SendStep DEF Waiting
<1>7. CASE RollbackHandoff
  <2>1. /\ Send("rollback") /\ driver' = "rollback"
        /\ UNCHANGED <<pc, state, current, pendingHandoff>>
        /\ UNCHANGED accepting /\ driver \in {"held", "abort"}
    BY Zenon, <1>7 DEF RollbackHandoff, SendRollback, runnerVars
  <2>2. ~accepting'
    BY Zenon, <2>1 DEF Protocol, GateOpen
  <2>. QED  BY <2>1, <2>2, SendStep DEF Waiting
<1>8. CASE ReleaseAfterCommit
  <2>1. /\ Send("release") /\ driver' = "release"
        /\ UNCHANGED <<pc, state, current, pendingHandoff>>
        /\ ~accepting' /\ driver = "held"
    BY Zenon, <1>8 DEF ReleaseAfterCommit, runnerVars
  <2>2. ~accepting'
    BY Zenon, <2>1 DEF Protocol, GateOpen
  <2>. QED  BY <2>1, <2>2, SendStep DEF Waiting
<1>9. CASE Shutdown
  <2>1. /\ driver \in {"idle", "held", "abort"} /\ driver' = "gone" /\ ~accepting'
        /\ UNCHANGED <<pc, state, current, pendingHandoff, request, answer>>
        /\ \/ UNCHANGED control
           \/ control' = Append(control, [op |-> "shutdown", req |-> 0])
    BY Zenon, <1>9 DEF Shutdown, runnerVars
  <2>2. GateOpen' /\ Numbering' /\ Held' /\ Answered'
    BY <2>1, Zenon DEF Protocol, GateOpen, Numbering, Held, Answered, Waiting
  <2>3. \A i \in 1..Len(control') : control'[i].op = "begin" =>
          i \in 1..Len(control) /\ control'[i] = control[i]
    <3>1. control \in Seq(ControlCommands) /\ Len(control) \in Nat
      BY ShapeFacts
    <3>2. CASE UNCHANGED control
      BY <3>2
    <3>3. CASE control' = Append(control, [op |-> "shutdown", req |-> 0])
      <4>1. control'[Len(control) + 1] = [op |-> "shutdown", req |-> 0]
        BY <3>1, <3>3
      <4>2. control'[Len(control) + 1].op = "shutdown"
        BY <4>1
      <4>3. \A i \in 1..Len(control') : i = Len(control) + 1
              \/ (i \in 1..Len(control) /\ control'[i] = control[i])
        BY <3>1, <3>3
      <4>. QED  BY <4>2, <4>3, Zenon
    <3>. QED  BY <2>1, <3>2, <3>3
  <2>4. OneBegin' /\ QuiescedIdle'
    BY <2>1, <2>3 DEF Protocol, OneBegin, QuiescedIdle, Serving
  <2>. QED  BY <2>2, <2>4 DEF Protocol
<1>10. CASE DriverReceives
  <2>1. /\ control = <<>> /\ current = 0 /\ pendingHandoff = 0 /\ driver \in Waiting
        /\ (driver = "begin" /\ answer = "ok") => state = "Quiesced"
        /\ (driver = "rollback" /\ answer = "ok") => state = "Running"
    BY Zenon, <1>10 DEF DriverReceives, Protocol, Answered
  <2>2. ~accepting /\ (driver = "dup" => state = "Quiesced")
    BY <2>1 DEF Protocol, GateOpen, Held, Waiting
  <2>3. /\ answer' = "none" /\ UNCHANGED <<control, request, pc, state, current, pendingHandoff>>
        /\ \/ driver = "begin" /\ answer = "ok" /\ driver' = "held" /\ UNCHANGED accepting
           \/ driver = "dup" /\ driver' \in {"held", "abort"} /\ UNCHANGED accepting
           \/ driver = "rollback" /\ driver' = "idle" /\ (accepting' => accepting \/ answer = "ok")
           \/ driver = "release" /\ driver' = "gone" /\ UNCHANGED accepting
    BY Zenon, <1>10 DEF DriverReceives, runnerVars
  <2>4. /\ driver' \notin Waiting /\ (driver' = "held" => state = "Quiesced")
        /\ accepting' => driver' = "idle" /\ state = "Running"
    BY <2>1, <2>2, <2>3 DEF Waiting
  <2>5. request \in Nat /\ driver # "gone" /\ \A i : i \notin 1..Len(control)
    BY ShapeFacts, <2>1 DEF Waiting
  <2>6. GateOpen' /\ Answered' /\ Held' /\ QuiescedIdle'
    BY <2>1, <2>3, <2>4, <2>5, Zenon DEF GateOpen, Answered, Held, QuiescedIdle, Waiting
  <2>7. OneBegin'
    BY <2>1, <2>3, <2>5, Zenon DEF Protocol, OneBegin
  <2>8. Numbering'
    BY <2>1, <2>3, <2>4, <2>5 DEF Numbering
  <2>. QED  BY <2>6, <2>7, <2>8 DEF Protocol
<1>11. CASE DriverTimesOut
  BY ShapeFacts, <1>11, Zenon DEF DriverTimesOut, runnerVars, driverVars, historyVars, Outside, Protocol, GateOpen, Numbering, OneBegin, Answered, Held, QuiescedIdle, Waiting, Serving
<1>12. CASE HandleBegin
  <2>1. /\ TakeControl("begin")
        /\ UNCHANGED <<accepting, driver, request, state, answer>>
        /\ \/ /\ current' = Head(control).req /\ pc' = "preDrain" /\ UNCHANGED pendingHandoff
           \/ /\ pendingHandoff' = Head(control).req /\ UNCHANGED <<current, pc>>
    BY Zenon, <1>12 DEF HandleBegin, Outside
  <2>. QED  BY <2>1, BeginStep
<1>13. CASE HandleDuplicate
  <2>1. /\ TakeControl("dup")
        /\ UNCHANGED <<accepting, driver, request, current>>
        /\ UNCHANGED <<state, pendingHandoff, pc>>
    BY Zenon, <1>13 DEF HandleDuplicate, runnerVars, Outside
  <2>2. pc = "control" /\ Head(control) = control[1]
    BY Zenon, <2>1, TakeFacts
  <2>3. CASE UNCHANGED answer
    BY <2>1, <2>2, <2>3, UnansweredStep, Zenon DEF Serving
  <2>4. CASE answer' # answer
    <3>1. driver \in Waiting /\ control[1].req = request
      BY <1>13, <2>2, <2>4 DEF HandleDuplicate, Reply, Waiting
    <3>. QED  BY <2>1, <2>2, <3>1, AnsweredStep, Zenon DEF Serving
  <2>. QED  BY <2>3, <2>4
<1>14. CASE HandleRollback
  <2>1. /\ TakeControl("rollback")
        /\ UNCHANGED <<accepting, driver, request, current>>
        /\ state' = "Running" /\ pendingHandoff' = 0 /\ UNCHANGED pc
    BY Zenon, <1>14 DEF HandleRollback, runnerVars, Outside
  <2>2. pc = "control" /\ Head(control) = control[1]
    BY Zenon, <2>1, TakeFacts
  <2>3. CASE UNCHANGED answer
    BY <2>1, <2>2, <2>3, UnansweredStep, Zenon DEF Serving
  <2>4. CASE answer' # answer
    <3>1. driver \in Waiting /\ control[1].req = request
      BY <1>14, <2>2, <2>4 DEF HandleRollback, Reply, Waiting
    <3>. QED  BY <2>1, <2>2, <3>1, AnsweredStep, Zenon DEF Serving
  <2>. QED  BY <2>3, <2>4
<1>15. CASE HandleRelease
  <2>1. /\ TakeControl("release")
        /\ UNCHANGED <<accepting, driver, request, current>>
        /\ state' = "Released" /\ pc' = "exit" /\ UNCHANGED pendingHandoff
    BY Zenon, <1>15 DEF HandleRelease, runnerVars, Outside
  <2>2. pc = "control" /\ Head(control) = control[1]
    BY Zenon, <2>1, TakeFacts
  <2>3. CASE UNCHANGED answer
    BY <2>1, <2>2, <2>3, UnansweredStep, Zenon DEF Serving
  <2>4. CASE answer' # answer
    <3>1. driver \in Waiting /\ control[1].req = request
      BY <1>15, <2>2, <2>4 DEF HandleRelease, Reply, Waiting
    <3>. QED  BY <2>1, <2>2, <3>1, AnsweredStep, Zenon DEF Serving
  <2>. QED  BY <2>3, <2>4
<1>16. CASE HandleShutdown
  <2>1. /\ UNCHANGED <<accepting, driver, request, current, answer, pendingHandoff, state>>
        /\ pc' = "exit" /\ pc = "control"
    BY Zenon, <1>16 DEF HandleShutdown, TakeControl, runnerVars, Outside
  <2>2. CASE UNCHANGED control
    BY <2>1, <2>2, QuietStep DEF Serving
  <2>3. CASE TakeControl("shutdown")
    BY <2>1, <2>3, UnansweredStep DEF Serving
  <2>. QED  BY <1>16, <2>2, <2>3 DEF HandleShutdown
<1>17. CASE ControlDrained
  <2>1. /\ pc = "control" /\ control = <<>>
        /\ UNCHANGED <<accepting, driver, request, control, state, answer>>
    BY Zenon, <1>17 DEF ControlDrained, Outside
  <2>2. CASE pc' = "preDrain"
    <3>1. pendingHandoff # 0 /\ current' = pendingHandoff /\ pendingHandoff' = 0
      BY <1>17, <2>2, Zenon DEF ControlDrained
    <3>2. /\ ~accepting /\ answer = "none" /\ state # "Quiesced"
          /\ driver \notin {"held", "dup", "release"} /\ current = 0
      BY <2>1, <3>1 DEF Protocol, GateOpen, Answered, Held, QuiescedIdle, OneBegin, Serving
    <3>3. GateOpen' /\ Answered' /\ Held' /\ QuiescedIdle'
      BY <2>1, <3>2 DEF GateOpen, Answered, Held, QuiescedIdle
    <3>4. \A i : i \notin 1..Len(control)
      BY <2>1
    <3>5. OneBegin' /\ Numbering'
      BY ShapeFacts, <2>1, <2>2, <3>1, <3>2, <3>4, Zenon DEF Protocol, OneBegin, Numbering, Serving
    <3>. QED  BY <3>3, <3>5 DEF Protocol
  <2>3. CASE pc' # "preDrain"
    <3>1. UNCHANGED <<current, pendingHandoff>> /\ pc' \in {"data", "apply"}
      BY <1>17, <2>3 DEF ControlDrained
    <3>. QED  BY <2>1, <3>1, QuietStep DEF Serving
  <2>. QED  BY <2>2, <2>3
<1>18. CASE DrainData
  <2>1. UNCHANGED <<accepting, driver, state, control, current, pendingHandoff, request, answer>>
    BY Zenon, <1>18 DEF DrainData, HandleDataCommand, runnerVars, driverVars, historyVars, Outside
  <2>2. (pc \in Serving) <=> (pc' \in Serving)
    BY ShapeFacts, <1>18, Zenon DEF DrainData, HandleDataCommand, runnerVars, driverVars, historyVars, Outside, Serving
  <2>. QED  BY <2>1, <2>2, QuietStep
<1>19. CASE PreDrain
  BY ShapeFacts, <1>19 DEF PreDrain, HandleDataCommand, runnerVars, driverVars, historyVars, Outside, Protocol, GateOpen, Numbering, OneBegin, Answered, Held, QuiescedIdle, Waiting, Serving
<1>20. CASE StartDrain
  <2>1. UNCHANGED <<accepting, driver, state, control, current, pendingHandoff, request, answer>>
    BY Zenon, <1>20 DEF StartDrain, runnerVars, driverVars, historyVars, Outside
  <2>2. (pc \in Serving) <=> (pc' \in Serving)
    BY ShapeFacts, <1>20 DEF StartDrain, runnerVars, driverVars, historyVars, Outside, Serving
  <2>. QED  BY <2>1, <2>2, QuietStep
<1>21. CASE DrainStep
  <2>1. UNCHANGED <<accepting, driver, state, control, current, pendingHandoff, request, answer>>
    BY Zenon, <1>21 DEF DrainStep, WriteChunk, ReadOnce, runnerVars, driverVars, historyVars, Outside
  <2>2. (pc \in Serving) <=> (pc' \in Serving)
    BY ShapeFacts, <1>21 DEF DrainStep, WriteChunk, ReadOnce, runnerVars, driverVars, historyVars, Outside, Serving
  <2>. QED  BY <2>1, <2>2, QuietStep
<1>22. CASE Quiesce
  <2>1. /\ pc = "drainWrites" /\ pc' = back /\ current' = 0 /\ state' = "Quiesced"
        /\ UNCHANGED <<accepting, driver, request, control, pendingHandoff>>
        /\ Reply(current, "ok")
    BY Zenon, <1>22 DEF Quiesce, Outside
  <2>. QED  BY <2>1, ServedStep
<1>23. CASE DrainFails
  <2>1. /\ pc = "drainWrites" /\ pc' = back /\ current' = 0 /\ UNCHANGED state
        /\ UNCHANGED <<accepting, driver, request, control, pendingHandoff>>
        /\ Reply(current, "err")
    BY Zenon, <1>23 DEF DrainFails, Outside
  <2>. QED  BY <2>1, ServedStep
<1>24. CASE ApplyPendingControls
  <2>1. UNCHANGED <<accepting, driver, state, control, current, pendingHandoff, request, answer>>
    BY Zenon, <1>24 DEF ApplyPendingControls, runnerVars, driverVars, historyVars, Outside
  <2>2. (pc \in Serving) <=> (pc' \in Serving)
    BY ShapeFacts, <1>24 DEF ApplyPendingControls, runnerVars, driverVars, historyVars, Outside, Serving
  <2>. QED  BY <2>1, <2>2, QuietStep
<1>25. CASE FlushStep
  <2>1. UNCHANGED <<accepting, driver, state, control, current, pendingHandoff, request, answer>>
    BY Zenon, <1>25 DEF FlushStep, WriteChunk, CompleteBoundary, runnerVars, driverVars, historyVars, Outside
  <2>2. (pc \in Serving) <=> (pc' \in Serving)
    BY ShapeFacts, <1>25 DEF FlushStep, WriteChunk, CompleteBoundary, runnerVars, driverVars, historyVars, Outside, Serving
  <2>. QED  BY <2>1, <2>2, QuietStep
<1>26. CASE FlushFails
  <2>1. UNCHANGED <<accepting, driver, state, control, current, pendingHandoff, request, answer>>
    BY Zenon, <1>26 DEF FlushFails, runnerVars, driverVars, historyVars, Outside
  <2>2. (pc \in Serving) <=> (pc' \in Serving)
    BY ShapeFacts, <1>26 DEF FlushFails, runnerVars, driverVars, historyVars, Outside, Serving
  <2>. QED  BY <2>1, <2>2, QuietStep
<1>27. CASE ScheduleEnter
  <2>1. UNCHANGED <<accepting, driver, state, control, current, pendingHandoff, request, answer>>
    BY Zenon, <1>27 DEF ScheduleEnter, runnerVars, driverVars, historyVars, Outside
  <2>2. (pc \in Serving) <=> (pc' \in Serving)
    BY ShapeFacts, <1>27 DEF ScheduleEnter, runnerVars, driverVars, historyVars, Outside, Serving
  <2>. QED  BY <2>1, <2>2, QuietStep
<1>28. CASE PollWake
  <2>1. UNCHANGED <<accepting, driver, state, control, current, pendingHandoff, request, answer>>
    BY Zenon, <1>28 DEF PollWake, runnerVars, driverVars, historyVars, Outside
  <2>2. (pc \in Serving) <=> (pc' \in Serving)
    BY ShapeFacts, <1>28 DEF PollWake, runnerVars, driverVars, historyVars, Outside, Serving
  <2>. QED  BY <2>1, <2>2, QuietStep
<1>29. CASE PollReady
  <2>1. UNCHANGED <<accepting, driver, state, control, current, pendingHandoff, request, answer>>
    BY Zenon, <1>29 DEF PollReady, ReadOnce, runnerVars, driverVars, historyVars, Outside
  <2>2. (pc \in Serving) <=> (pc' \in Serving)
    BY ShapeFacts, <1>29 DEF PollReady, ReadOnce, runnerVars, driverVars, historyVars, Outside, Serving
  <2>. QED  BY <2>1, <2>2, QuietStep
<1>30. CASE PollFails
  <2>1. UNCHANGED <<accepting, driver, state, control, current, pendingHandoff, request, answer>>
    BY Zenon, <1>30 DEF PollFails, runnerVars, driverVars, historyVars, Outside
  <2>2. (pc \in Serving) <=> (pc' \in Serving)
    BY ShapeFacts, <1>30 DEF PollFails, runnerVars, driverVars, historyVars, Outside, Serving
  <2>. QED  BY <2>1, <2>2, QuietStep
<1>31. CASE CloseInputQueue
  <2>1. UNCHANGED <<accepting, driver, state, control, current, pendingHandoff, request, answer>>
    BY Zenon, <1>31 DEF CloseInputQueue, runnerVars, driverVars, historyVars, Outside
  <2>2. (pc \in Serving) <=> (pc' \in Serving)
    BY ShapeFacts, <1>31 DEF CloseInputQueue, runnerVars, driverVars, historyVars, Outside, Serving
  <2>. QED  BY <2>1, <2>2, QuietStep
<1>32. CASE UNCHANGED vars
  BY Zenon, <1>32, QuietStep DEF vars, runnerVars, driverVars
<1>. QED
  BY <1>1, <1>2, <1>3, <1>4, <1>5, <1>6, <1>7, <1>8, <1>9, <1>10, <1>11, <1>12, <1>13, <1>14, <1>15, <1>16, <1>17, <1>18, <1>19, <1>20, <1>21, <1>22, <1>23, <1>24, <1>25, <1>26, <1>27, <1>28, <1>29, <1>30, <1>31, <1>32, Zenon DEF Next, Client, Driver, Actor
\* The input part of the inductive invariant.
Input == QuiescedHoldsNoInput /\ SecondDrainIsEmpty

\* Every step keeps the input part: quiescing is clean and the second drain is empty.
LEMMA InputStep == Shapes /\ Protocol /\ Input /\ [Next]_vars => Input'
<1>. SUFFICES ASSUME Shapes, Protocol, Input, [Next]_vars PROVE Input'
  OBVIOUS
<1>. USE DEF Input, QuiescedHoldsNoInput, SecondDrainIsEmpty
<1>1. ASSUME NEW w \in Writes, TryWriteUserInput(w) PROVE Input'
  <2>1. state = "Running" /\ pc \notin Serving
    BY <1>1, Zenon DEF TryWriteUserInput, SendData, Protocol, GateOpen, OneBegin
  <2>. QED  BY <1>1, <2>1, Zenon DEF TryWriteUserInput, SendData, runnerVars, Serving
<1>2. ASSUME NEW s \in Subs, QueueUserInputSubmission(s) PROVE Input'
  <2>1. state = "Running" /\ pc \notin Serving
    BY <1>2, Zenon DEF QueueUserInputSubmission, SendData, Protocol, GateOpen, OneBegin
  <2>. QED  BY <1>2, <2>1, Zenon DEF QueueUserInputSubmission, SendData, runnerVars, Serving
<1>3. CASE WriteTerminalResponse
  BY ShapeFacts, <1>3, Zenon DEF WriteTerminalResponse, runnerVars, driverVars, historyVars, Outside
<1>4. CASE BeginHandoff
  BY ShapeFacts, <1>4, Zenon DEF BeginHandoff, Send, runnerVars, driverVars, historyVars, Outside
<1>5. CASE BeginFails
  BY ShapeFacts, <1>5, Zenon DEF BeginFails, SendRollback, Send, runnerVars, driverVars, historyVars, Outside
<1>6. CASE DuplicateForHandoff
  BY ShapeFacts, <1>6, Zenon DEF DuplicateForHandoff, Send, runnerVars, driverVars, historyVars, Outside
<1>7. CASE RollbackHandoff
  BY ShapeFacts, <1>7, Zenon DEF RollbackHandoff, SendRollback, Send, runnerVars, driverVars, historyVars, Outside
<1>8. CASE ReleaseAfterCommit
  BY ShapeFacts, <1>8, Zenon DEF ReleaseAfterCommit, Send, runnerVars, driverVars, historyVars, Outside
<1>9. CASE Shutdown
  BY ShapeFacts, <1>9 DEF Shutdown, runnerVars, driverVars, historyVars, Outside
<1>10. CASE DriverReceives
  <2>1. UNCHANGED <<data, pc, state, pending, active>>
    BY <1>10, Zenon DEF DriverReceives, runnerVars
  <2>2. state = "Quiesced" => ~accepting'
    BY <1>10, Zenon DEF DriverReceives, Protocol, Answered, GateOpen
  <2>. QED  BY <2>1, <2>2, Zenon
<1>11. CASE DriverTimesOut
  BY ShapeFacts, <1>11 DEF DriverTimesOut, runnerVars, driverVars, historyVars, Outside
<1>12. CASE HandleBegin
  BY ShapeFacts, <1>12 DEF HandleBegin, TakeControl, runnerVars, driverVars, historyVars, Outside
<1>13. CASE HandleDuplicate
  BY ShapeFacts, <1>13 DEF HandleDuplicate, TakeControl, Reply, runnerVars, driverVars, historyVars, Outside
<1>14. CASE HandleRollback
  BY ShapeFacts, <1>14, Zenon DEF HandleRollback, TakeControl, Reply, runnerVars, driverVars, historyVars, Outside
<1>15. CASE HandleRelease
  BY ShapeFacts, <1>15, Zenon DEF HandleRelease, TakeControl, Reply, runnerVars, driverVars, historyVars, Outside
<1>16. CASE HandleShutdown
  BY ShapeFacts, <1>16, Zenon DEF HandleShutdown, TakeControl, runnerVars, driverVars, historyVars, Outside
<1>17. CASE ControlDrained
  BY ShapeFacts, <1>17, Zenon DEF ControlDrained, runnerVars, driverVars, historyVars, Outside
<1>18. CASE DrainData
  BY ShapeFacts, <1>18, Zenon DEF DrainData, HandleDataCommand, runnerVars, driverVars, historyVars, Outside
<1>19. CASE PreDrain
  BY ShapeFacts, <1>19, Zenon DEF PreDrain, HandleDataCommand, runnerVars, driverVars, historyVars, Outside
<1>20. CASE StartDrain
  <2>1. state # "Quiesced"
    BY <1>20, Zenon DEF StartDrain, Protocol, OneBegin, QuiescedIdle, Serving
  <2>. QED  BY <1>20, <2>1, Zenon DEF StartDrain, Outside
<1>21. CASE DrainStep
  <2>1. state # "Quiesced"
    BY <1>21, Zenon DEF DrainStep, Protocol, OneBegin, QuiescedIdle, Serving
  <2>. QED  BY <1>21, <2>1, Zenon DEF DrainStep, Outside
<1>22. CASE Quiesce
  <2>1. ~accepting /\ data = <<>> /\ active = NoSubmission
    BY <1>22, Zenon DEF Quiesce, Protocol, GateOpen, OneBegin, Serving
  <2>2. pc' \notin Serving
    BY <1>22, ShapeFacts, Zenon DEF Quiesce, Serving
  <2>. QED  BY <1>22, <2>1, <2>2 DEF Quiesce, Outside, Serving
<1>23. CASE DrainFails
  <2>1. state # "Quiesced"
    BY <1>23, Zenon DEF DrainFails, Protocol, OneBegin, QuiescedIdle, Serving
  <2>. QED  BY <1>23, <2>1, Zenon DEF DrainFails, Outside
<1>24. CASE ApplyPendingControls
  <2>1. state = "Quiesced" => \A i \in 1..Len(pending') : ~UserChunk(pending'[i])
    BY <1>24, TakeResponsesType, Zenon DEF ApplyPendingControls, TakeResponses, Shapes
  <2>. QED  BY <1>24, <2>1, Zenon DEF ApplyPendingControls, Outside
<1>25. CASE FlushStep
  <2>1. pc' \notin Serving
    BY <1>25, ShapeFacts, Zenon DEF FlushStep, Serving
  <2>2. ASSUME state = "Quiesced"
        PROVE  /\ active' = NoSubmission
               /\ \A i \in 1..Len(pending') : ~UserChunk(pending'[i])
    <3>1. active = NoSubmission
      BY <2>2
    <3>2. active' = NoSubmission
      BY <1>25, <3>1, Zenon DEF FlushStep, CompleteBoundary
    <3>3. pending' = pending \/ (pending # <<>> /\ pending' = Tail(pending))
      BY <1>25, Zenon DEF FlushStep, WriteChunk
    <3>4. ASSUME pending # <<>>, pending' = Tail(pending)
          PROVE  \A i \in 1..Len(pending') : ~UserChunk(pending'[i])
      <4>1. /\ Len(pending') = Len(pending) - 1
            /\ \A i \in 1..Len(pending') : pending'[i] = pending[i + 1]
        BY <3>4 DEF Shapes
      <4>2. ASSUME NEW i \in 1..Len(pending') PROVE i + 1 \in 1..Len(pending)
        BY <4>1 DEF Shapes
      <4>. QED  BY <2>2, <4>1, <4>2, Zenon
    <3>. QED  BY <2>2, <3>2, <3>3, <3>4, Zenon
  <2>. QED  BY <1>25, <2>1, <2>2 DEF FlushStep, Outside, Serving
<1>26. CASE FlushFails
  BY ShapeFacts, <1>26 DEF FlushFails, runnerVars, driverVars, historyVars, Outside
<1>27. CASE ScheduleEnter
  <2>1. ASSUME state = "Quiesced" PROVE UNCHANGED <<active, pending>>
    <3>1. active.phase # "waiting"
      BY <2>1 DEF NoSubmission
    <3>. QED  BY <1>27, <3>1, Zenon DEF ScheduleEnter
  <2>2. pc' \notin Serving
    BY <1>27, Zenon DEF ScheduleEnter, Serving
  <2>. QED  BY <1>27, <2>1, <2>2 DEF ScheduleEnter, Outside, Serving
<1>28. CASE PollWake
  BY ShapeFacts, <1>28, Zenon DEF PollWake, runnerVars, driverVars, historyVars, Outside
<1>29. CASE PollReady
  <2>1. CASE state = "Running"
    BY <1>29, <2>1, Zenon DEF PollReady, Outside
  <2>2. CASE state # "Running"
    BY <1>29, <2>2, Zenon DEF PollReady, Outside
  <2>. QED  BY <2>1, <2>2, Zenon
<1>30. CASE PollFails
  BY ShapeFacts, <1>30, Zenon DEF PollFails, runnerVars, driverVars, historyVars, Outside
<1>31. CASE CloseInputQueue
  BY ShapeFacts, <1>31, Zenon DEF CloseInputQueue, runnerVars, driverVars, historyVars, Outside
<1>32. CASE UNCHANGED vars
  BY ShapeFacts, <1>32, Zenon DEF vars
<1>. QED
  BY <1>1, <1>2, <1>3, <1>4, <1>5, <1>6, <1>7, <1>8, <1>9, <1>10, <1>11, <1>12, <1>13, <1>14, <1>15, <1>16, <1>17, <1>18, <1>19, <1>20, <1>21, <1>22, <1>23, <1>24, <1>25, <1>26, <1>27, <1>28, <1>29, <1>30, <1>31, <1>32, Zenon DEF Next, Client, Driver, Actor

(* The initial state satisfies the inductive invariant. *)
LEMMA InitInv == Init => Flags /\ Shapes /\ Protocol /\ Input
<1>. SUFFICES ASSUME Init PROVE Flags /\ Shapes /\ Protocol /\ Input
  OBVIOUS
<1>1. Flags
  BY Zenon DEF Init, Flags
<1>2. Shapes
  BY ConstantsAssumption DEF Init, Shapes, Requests, ActorPcs, DriverPcs
<1>3. Protocol
  BY DEF Init, Protocol, GateOpen, Numbering, OneBegin, Answered, Held,
         QuiescedIdle, Waiting, Serving
<1>4. Input
  BY DEF Init, Input, QuiescedHoldsNoInput, SecondDrainIsEmpty
<1>. QED  BY <1>1, <1>2, <1>3, <1>4

(* Every variable of the actor, its handle and its driver keeps its type.  *)
THEOREM TypeCorrect == Spec => []TypeOK
<1>1. Init => Flags /\ Shapes
  BY InitInv
<1>2. Flags /\ Shapes /\ [Next]_vars => Flags' /\ Shapes'
  BY FlagsStep, ShapesStep, Zenon
<1>3. Flags /\ Shapes => TypeOK
  BY DEF Flags, Shapes, TypeOK
<1>. QED  BY <1>1, <1>2, <1>3, PTL DEF Spec

(* The inductive invariant holds of every behaviour.                       *)
LEMMA Invariant == Spec => [](Shapes /\ Protocol /\ Input)
<1>1. Init => Shapes /\ Protocol /\ Input
  BY InitInv
<1>2. Shapes /\ Protocol /\ Input /\ [Next]_vars => Shapes' /\ Protocol' /\ Input'
  BY ShapesStep, ProtocolStep, InputStep
<1>. QED  BY <1>1, <1>2, PTL DEF Spec

(* An actor that has quiesced for a handoff holds no user input, so that   *)
(* neither a rollback nor release_after_commit can lose a keystroke.       *)
THEOREM QuiesceIsClean == Spec => []QuiescedHoldsNoInput
<1>1. Input => QuiescedHoldsNoInput
  BY DEF Input
<1>. QED  BY <1>1, Invariant, PTL

(* When begin_handoff has returned Ok the actor is quiesced, whatever      *)
(* timed-out requests came before.                                         *)
THEOREM HeldIsQuiesced == Spec => []HeldMeansQuiesced
<1>1. Protocol => HeldMeansQuiesced
  BY Zenon DEF Protocol, Held, HeldMeansQuiesced
<1>. QED  BY <1>1, Invariant, PTL

(* The second drain of begin_handoff never finds anything: its WouldBlock  *)
(* error cannot be returned.                                               *)
THEOREM SecondDrainIsDead == Spec => []SecondDrainIsEmpty
<1>1. Input => SecondDrainIsEmpty
  BY DEF Input
<1>. QED  BY <1>1, Invariant, PTL

-----------------------------------------------------------------------------
(* Submissions: what is written for them, and what their callers are told. *)

\* A chunk that ends a phase of a submission.
IsBoundary(c) == c.kind \in {"text", "enter"}

\* At most one boundary chunk waits, and it is the submission in progress's.
Boundaries ==
  Alive => /\ \A i \in 1..Len(pending) : IsBoundary(pending[i]) =>
                active = [id |-> pending[i].id, phase |-> pending[i].kind]
           /\ \A i, j \in 1..Len(pending) :
                IsBoundary(pending[i]) /\ IsBoundary(pending[j]) => i = j

Sent(s) == \E i \in 1..Len(out) : out[i] = [kind |-> "enter", id |-> s]
Queued(s) == \E i \in 1..Len(data) : data[i].id = s

\* A submission is in one place at a time: in the channel, in progress, or over.
Once ==
  /\ \A i, j \in 1..Len(data) : data[i].id = data[j].id => i = j
  /\ \A id \in Writes \cup Subs : Queued(id) => IsAccepted(id)
  /\ \A s \in Subs :
       /\ active.id = s => IsAccepted(s) /\ ~Queued(s)
       /\ Sent(s) \/ replies[s] # "none" => IsAccepted(s) /\ active.id # s /\ ~Queued(s)

Truth ==
  \A s \in Subs \ EmptyEnter : (replies[s] = "ok" => Sent(s)) /\ (replies[s] = "err" => ~Sent(s))

\* The steps that touch what was typed, what is queued or what was answered.
MovesInput ==
  \/ \E w \in Writes : TryWriteUserInput(w)
  \/ \E s \in Subs : QueueUserInputSubmission(s)
  \/ HandleRelease \/ DrainData \/ PreDrain \/ StartDrain \/ DrainStep \/ DrainFails
  \/ ApplyPendingControls \/ FlushStep \/ FlushFails \/ ScheduleEnter \/ PollReady
  \/ CloseInputQueue

inputVars == <<data, accepted, replies, out, active, pending, failed>>

\* Every other step leaves all of it alone, and none revives an actor.
LEMMA OthersMoveNothing ==
  ASSUME [Next]_vars
  PROVE  MovesInput \/ (UNCHANGED inputVars /\ (pc' = pc \/ Alive))
<1> DEFINE Quiet == UNCHANGED inputVars /\ (pc' = pc \/ Alive)
<1>. USE DEF inputVars, Alive
<1>1. CASE WriteTerminalResponse
  BY Zenon, <1>1 DEF WriteTerminalResponse, runnerVars, historyVars
<1>2. CASE BeginHandoff
  BY Zenon, <1>2 DEF BeginHandoff, runnerVars, historyVars
<1>3. CASE BeginFails
  BY Zenon, <1>3 DEF BeginFails, SendRollback, runnerVars, historyVars
<1>4. CASE DuplicateForHandoff
  BY Zenon, <1>4 DEF DuplicateForHandoff, runnerVars, historyVars
<1>5. CASE RollbackHandoff
  BY Zenon, <1>5 DEF RollbackHandoff, SendRollback, runnerVars, historyVars
<1>6. CASE ReleaseAfterCommit
  BY Zenon, <1>6 DEF ReleaseAfterCommit, runnerVars, historyVars
<1>7. CASE Shutdown
  BY Zenon, <1>7 DEF Shutdown, runnerVars, historyVars
<1>8. CASE DriverReceives
  BY Zenon, <1>8 DEF DriverReceives, runnerVars, historyVars
<1>9. CASE DriverTimesOut
  BY Zenon, <1>9 DEF DriverTimesOut, runnerVars, historyVars
<1>10. CASE HandleBegin
  <2>1. UNCHANGED inputVars /\ pc = "control"
    BY Zenon, <1>10 DEF HandleBegin, TakeControl, Outside, historyVars
  <2>. QED  BY <2>1
<1>11. CASE HandleDuplicate
  BY Zenon, <1>11 DEF HandleDuplicate, runnerVars, Outside, historyVars
<1>12. CASE HandleRollback
  BY Zenon, <1>12 DEF HandleRollback, Outside, historyVars
<1>13. CASE HandleShutdown
  <2>1. UNCHANGED inputVars /\ pc = "control"
    BY Zenon, <1>13 DEF HandleShutdown, TakeControl, runnerVars, Outside, historyVars
  <2>. QED  BY <2>1
<1>14. CASE ControlDrained
  <2>1. UNCHANGED inputVars /\ pc = "control"
    BY Zenon, <1>14 DEF ControlDrained, Outside, historyVars
  <2>. QED  BY <2>1
<1>15. CASE Quiesce
  <2>1. UNCHANGED inputVars /\ pc = "drainWrites"
    BY Zenon, <1>15 DEF Quiesce, Outside, historyVars
  <2>. QED  BY <2>1
<1>16. CASE PollWake
  <2>1. UNCHANGED inputVars /\ pc = "poll"
    BY Zenon, <1>16 DEF PollWake, runnerVars, Outside, historyVars
  <2>. QED  BY <2>1
<1>17. CASE PollFails
  <2>1. UNCHANGED inputVars /\ pc = "poll"
    BY Zenon, <1>17 DEF PollFails, runnerVars, Outside, historyVars
  <2>. QED  BY <2>1
<1>18. CASE UNCHANGED vars
  BY Zenon, <1>18 DEF vars
<1>. HIDE DEF Quiet, inputVars, Alive
<1>. QED
  BY Zenon, <1>1, <1>2, <1>3, <1>4, <1>5, <1>6, <1>7, <1>8, <1>9, <1>10, <1>11, <1>12,
     <1>13, <1>14, <1>15, <1>16, <1>17, <1>18
     DEF Next, Client, Driver, Actor, MovesInput

\* Taking responses adds no boundary chunk to a queue.
LEMMA ResponsesAreNoBoundary ==
  ASSUME NEW queue \in Seq(Chunks), NEW n \in Nat
  PROVE  LET longer == queue \o [j \in 1..n |-> Response]
         IN  \A i \in 1..Len(longer) : IsBoundary(longer[i]) =>
               i \in 1..Len(queue) /\ longer[i] = queue[i]
<1> DEFINE r == [j \in 1..n |-> Response]
<1>1. ~IsBoundary(Response) /\ Response \in Chunks
  BY DEF IsBoundary, Response, Chunks
<1>2. r \in Seq(Chunks) /\ Len(r) = n
  BY <1>1
<1>. SUFFICES ASSUME NEW i \in 1..Len(queue \o r), IsBoundary((queue \o r)[i])
              PROVE  i \in 1..Len(queue) /\ (queue \o r)[i] = queue[i]
  BY Zenon
<1>3. CASE i <= Len(queue)
  BY <1>2, <1>3
<1>4. CASE i > Len(queue)
  <2>1. (queue \o r)[i] = r[i - Len(queue)] /\ i - Len(queue) \in 1..n
    BY <1>2, <1>4
  <2>2. (queue \o r)[i] = Response
    BY <2>1
  <2>. QED  BY <1>1, <2>2
<1>. QED  BY <1>2, <1>3, <1>4

\* A step that adds no boundary chunk and leaves the submission alone.
LEMMA BoundariesKept ==
  ASSUME Boundaries, Alive, UNCHANGED active,
         \A i \in 1..Len(pending') : IsBoundary(pending'[i]) =>
           i \in 1..Len(pending) /\ pending'[i] = pending[i]
  PROVE  Boundaries'
<1>1. \A i \in 1..Len(pending') : IsBoundary(pending'[i]) =>
        active' = [id |-> pending'[i].id, phase |-> pending'[i].kind]
  BY Zenon DEF Boundaries
<1>2. \A i, j \in 1..Len(pending') :
        IsBoundary(pending'[i]) /\ IsBoundary(pending'[j]) => i = j
  BY Zenon DEF Boundaries
<1>. QED  BY <1>1, <1>2, Zenon DEF Boundaries, IsBoundary

\* With no submission in progress, or one in its pause, no boundary chunk waits.
LEMMA NoBoundaryWaits ==
  ASSUME Shapes, Boundaries, Alive, active.phase \notin {"text", "enter"}
  PROVE  \A i \in 1..Len(pending) : ~IsBoundary(pending[i])
<1>. SUFFICES ASSUME NEW i \in 1..Len(pending), IsBoundary(pending[i]) PROVE FALSE
  BY Zenon
<1>1. active = [id |-> pending[i].id, phase |-> pending[i].kind]
  BY Zenon DEF Boundaries
<1>2. active.phase = pending[i].kind
  BY <1>1
<1>. QED  BY <1>2, Zenon DEF IsBoundary

\* The boundary chunk of the submission in progress is queued when no other waits.
LEMMA BoundaryQueued ==
  ASSUME Shapes, \A i \in 1..Len(pending) : ~IsBoundary(pending[i]),
         NEW c \in Chunks, pending' = Append(pending, c),
         active' = [id |-> c.id, phase |-> c.kind]
  PROVE  Boundaries'
<1>1. /\ Len(pending') = Len(pending) + 1 /\ Len(pending) \in Nat
      /\ \A i \in 1..Len(pending) : pending'[i] = pending[i]
      /\ pending'[Len(pending) + 1] = c
  BY DEF Shapes
<1>2. \A i \in 1..Len(pending') : i \in 1..Len(pending) \/ i = Len(pending) + 1
  <2>1. \A n \in Nat : \A i \in 1..(n + 1) : i \in 1..n \/ i = n + 1
    OBVIOUS
  <2>. QED  BY <1>1, <2>1, Zenon
<1>3. \A i \in 1..Len(pending') : IsBoundary(pending'[i]) => i = Len(pending) + 1
  BY <1>1, <1>2, Zenon
<1>. QED  BY <1>1, <1>3, Zenon DEF Boundaries, IsBoundary

\* handle_data_command keeps the boundary chunks those of the submission in progress.
LEMMA DataBoundaries ==
  ASSUME Shapes, Boundaries, Alive, data # <<>>, active = NoSubmission, HandleDataCommand
  PROVE  Boundaries'
<1>1. PICK c \in DataCommands : c = Head(data)
  BY DEF Shapes
<1>2. \A i \in 1..Len(pending) : ~IsBoundary(pending[i])
  BY NoBoundaryWaits DEF NoSubmission
<1>3. CASE UNCHANGED <<pending, active>>
  BY <1>3, BoundariesKept
<1>4. CASE c.op = "write" /\ pending' = Append(pending, [kind |-> "user", id |-> c.id])
           /\ UNCHANGED active
  <2>1. c.id \in Writes
    BY <1>4 DEF DataCommands
  <2>2. ~IsBoundary([kind |-> "user", id |-> c.id])
    BY Zenon DEF IsBoundary
  <2>3. \A i \in 1..Len(pending') : \/ i \in 1..Len(pending) /\ pending'[i] = pending[i]
                                    \/ pending'[i] = [kind |-> "user", id |-> c.id]
    <3>. DEFINE u == [kind |-> "user", id |-> c.id]
    <3>1. pending \in Seq(Chunks) /\ u \in Chunks
      BY <2>1, Zenon DEF Shapes, Chunks
    <3>2. pending' = Append(pending, u)
      BY <1>4, Zenon
    <3>. HIDE DEF u
    <3>3. \A i \in 1..Len(pending') : \/ i \in 1..Len(pending) /\ pending'[i] = pending[i]
                                      \/ pending'[i] = u
      BY <3>1, <3>2
    <3>. QED  BY <3>3 DEF u
  <2>. QED  BY <1>4, <2>2, <2>3, BoundariesKept, Zenon
<1>5. CASE c.op # "write" /\ pending' = Append(pending, [kind |-> "text", id |-> c.id])
           /\ active' = [id |-> c.id, phase |-> "text"]
  <2>1. c.id \in Subs
    BY <1>5, Zenon DEF DataCommands
  <2>2. [kind |-> "text", id |-> c.id] \in Chunks
    BY <2>1 DEF Chunks
  <2>. QED  BY <1>2, <1>5, <2>2, BoundaryQueued, Zenon
<1>6. CASE UNCHANGED pending
  BY <1>2, <1>6, Zenon DEF Boundaries, IsBoundary
<1>7. \/ UNCHANGED <<pending, active>>
      \/ c.op = "write" /\ pending' = Append(pending, [kind |-> "user", id |-> c.id])
         /\ UNCHANGED active
      \/ c.op # "write" /\ pending' = Append(pending, [kind |-> "text", id |-> c.id])
         /\ active' = [id |-> c.id, phase |-> "text"]
      \/ UNCHANGED pending
  BY <1>1, Zenon DEF HandleDataCommand
<1>. QED  BY <1>3, <1>4, <1>5, <1>6, <1>7, Zenon

\* Writing the front chunk: if it is a boundary, no other boundary is behind it.
LEMMA WriteBoundaries ==
  ASSUME Shapes, Boundaries, Alive, pending # <<>>, pending' = Tail(pending)
  PROVE  /\ IsBoundary(Head(pending)) =>
              /\ active = [id |-> Head(pending).id, phase |-> Head(pending).kind]
              /\ \A i \in 1..Len(pending') : ~IsBoundary(pending'[i])
         /\ UNCHANGED active => (~IsBoundary(Head(pending)) => Boundaries')
<1>1. /\ Len(pending') = Len(pending) - 1 /\ Len(pending) \in Nat
      /\ 1 \in 1..Len(pending) /\ Head(pending) = pending[1]
      /\ \A i \in 1..Len(pending') : /\ i + 1 \in 1..Len(pending) /\ i + 1 # 1
                                     /\ pending'[i] = pending[i + 1]
  BY DEF Shapes
<1>2. \A i, j \in 1..Len(pending') : i + 1 = j + 1 => i = j
  BY <1>1
<1>3. ASSUME IsBoundary(Head(pending))
      PROVE  /\ active = [id |-> Head(pending).id, phase |-> Head(pending).kind]
             /\ \A i \in 1..Len(pending') : ~IsBoundary(pending'[i])
  <2>1. active = [id |-> Head(pending).id, phase |-> Head(pending).kind]
    BY <1>1, <1>3, Zenon DEF Boundaries
  <2>2. \A i \in 1..Len(pending') : IsBoundary(pending'[i]) => 1 = i + 1
    BY <1>1, <1>3, Zenon DEF Boundaries
  <2>. QED  BY <1>1, <2>1, <2>2, Zenon
<1>4. ASSUME UNCHANGED active, ~IsBoundary(Head(pending)) PROVE Boundaries'
  <2>1. \A i \in 1..Len(pending') : IsBoundary(pending'[i]) =>
          active' = [id |-> pending'[i].id, phase |-> pending'[i].kind]
    BY <1>1, <1>4, Zenon DEF Boundaries
  <2>2. \A i, j \in 1..Len(pending') :
          IsBoundary(pending'[i]) /\ IsBoundary(pending'[j]) => i = j
    <3>. SUFFICES ASSUME NEW i \in 1..Len(pending'), NEW j \in 1..Len(pending'),
                         IsBoundary(pending'[i]), IsBoundary(pending'[j])
                  PROVE  i = j
      BY Zenon
    <3>1. /\ i + 1 \in 1..Len(pending) /\ IsBoundary(pending[i + 1])
          /\ j + 1 \in 1..Len(pending) /\ IsBoundary(pending[j + 1])
      BY <1>1, Zenon
    <3>2. i + 1 = j + 1
      BY <3>1, Zenon DEF Boundaries
    <3>. QED  BY <1>2, <3>2, Zenon
  <2>. QED  BY <2>1, <2>2, Zenon DEF Boundaries, IsBoundary
<1>. QED  BY <1>3, <1>4, Zenon

\* A read of the PTY queues answers of the terminal, which are no boundaries.
LEMMA ReadBoundaries ==
  ASSUME Shapes, Boundaries, Alive, UNCHANGED active, ReadOnce
  PROVE  Boundaries'
<1>1. PICK n \in 0..1 : pending' = TakeResponses(pending) \o [i \in 1..n |-> Response]
  BY Zenon DEF ReadOnce
<1> DEFINE taken == TakeResponses(pending)
<1>2. taken \in Seq(Chunks)
  BY TakeResponsesType, Zenon DEF Shapes, TakeResponses
<1>3. \A i \in 1..Len(taken) : IsBoundary(taken[i]) =>
        i \in 1..Len(pending) /\ taken[i] = pending[i]
  BY ResponsesAreNoBoundary DEF Shapes, TakeResponses
<1>. HIDE DEF taken
<1>4. n \in Nat
  OBVIOUS
<1>5. pending' = taken \o [i \in 1..n |-> Response]
  BY <1>1 DEF taken
<1>6. \A i \in 1..Len(pending') : IsBoundary(pending'[i]) =>
        i \in 1..Len(taken) /\ pending'[i] = taken[i]
  BY <1>2, <1>4, <1>5, ResponsesAreNoBoundary
<1>7. \A i \in 1..Len(pending') : IsBoundary(pending'[i]) =>
        i \in 1..Len(pending) /\ pending'[i] = pending[i]
  BY <1>3, <1>6
<1>. QED  BY <1>7, BoundariesKept

\* Every step keeps the boundary chunks those of the submission in progress.
LEMMA BoundariesStep == Shapes /\ Input /\ Boundaries /\ [Next]_vars => Boundaries'
<1>. SUFFICES ASSUME Shapes, Input, Boundaries, [Next]_vars PROVE Boundaries'
  OBVIOUS
<1>1. CASE UNCHANGED inputVars /\ (pc' = pc \/ Alive)
  BY <1>1, Zenon DEF inputVars, Boundaries, Alive, IsBoundary
<1>2. ASSUME NEW c, SendData(c) PROVE Boundaries'
  BY <1>2, Zenon DEF SendData, runnerVars, Boundaries, Alive, IsBoundary
<1>3. CASE HandleRelease
  BY <1>3 DEF HandleRelease, Boundaries, Alive
<1>4. CASE DrainData
  <2>1. Alive
    BY <1>4 DEF DrainData, Alive
  <2>2. (data # <<>> /\ active = NoSubmission /\ HandleDataCommand) \/ UNCHANGED <<pending, active>>
    BY <1>4, Zenon DEF DrainData
  <2>. QED  BY <2>1, <2>2, DataBoundaries, BoundariesKept, Zenon
<1>5. CASE PreDrain
  <2>1. Alive
    BY <1>5 DEF PreDrain, Alive
  <2>2. (data # <<>> /\ active = NoSubmission /\ HandleDataCommand) \/ UNCHANGED <<pending, active>>
    BY <1>5, Zenon DEF PreDrain
  <2>. QED  BY <2>1, <2>2, DataBoundaries, BoundariesKept
<1>6. CASE StartDrain
  <2>1. Alive /\ UNCHANGED active
    BY <1>6 DEF StartDrain, Alive
  <2>2. pending' = pending \o [i \in 1..responses |-> Response]
    BY <1>6, Zenon DEF StartDrain, TakeResponses
  <2>. QED  BY <2>1, <2>2, ResponsesAreNoBoundary, BoundariesKept, Zenon DEF Shapes
<1>7. CASE DrainStep
  <2>1. Alive /\ UNCHANGED active /\ active = NoSubmission
    BY <1>7, Zenon DEF DrainStep, Alive, Input, SecondDrainIsEmpty
  <2>2. \A i \in 1..Len(pending) : ~IsBoundary(pending[i])
    BY <2>1, NoBoundaryWaits DEF NoSubmission
  <2>3. \/ UNCHANGED pending
        \/ pending # <<>> /\ pending' = Tail(pending)
        \/ ReadOnce
    BY <1>7, Zenon DEF DrainStep, WriteChunk
  <2>4. CASE UNCHANGED pending
    BY <2>1, <2>4, BoundariesKept, Zenon
  <2>5. CASE pending # <<>> /\ pending' = Tail(pending)
    <3>1. 1 \in 1..Len(pending) /\ Head(pending) = pending[1]
      BY <2>5 DEF Shapes
    <3>. QED  BY <2>1, <2>2, <2>5, <3>1, WriteBoundaries, Zenon
  <2>6. CASE ReadOnce
    BY <2>1, <2>6, ReadBoundaries, Zenon
  <2>. QED  BY <2>3, <2>4, <2>5, <2>6, Zenon
<1>8. CASE DrainFails
  <2>1. Alive /\ UNCHANGED active
    BY <1>8 DEF DrainFails, Alive
  <2>2. UNCHANGED pending \/ pending' = <<>>
    BY <1>8, Zenon DEF DrainFails
  <2>. QED  BY <2>1, <2>2, BoundariesKept
<1>9. CASE ApplyPendingControls
  <2>1. Alive /\ UNCHANGED active
    BY <1>9 DEF ApplyPendingControls, Alive
  <2>2. pending' = pending \o [i \in 1..responses |-> Response]
    BY <1>9, Zenon DEF ApplyPendingControls, TakeResponses
  <2>. QED  BY <2>1, <2>2, ResponsesAreNoBoundary, BoundariesKept DEF Shapes
<1>10. CASE FlushStep
  <2>1. Alive
    BY <1>10 DEF FlushStep, Alive
  <2>2. \/ UNCHANGED <<pending, active>>
        \/ /\ pending # <<>> /\ pending' = Tail(pending)
           /\ CompleteBoundary(Head(pending).kind)
    BY <1>10, Zenon DEF FlushStep, WriteChunk
  <2>3. CASE UNCHANGED <<pending, active>>
    BY <2>1, <2>3, BoundariesKept
  <2>4. CASE /\ pending # <<>> /\ pending' = Tail(pending)
             /\ CompleteBoundary(Head(pending).kind)
    <3>1. CASE IsBoundary(Head(pending))
      BY <2>1, <2>4, <3>1, WriteBoundaries, Zenon DEF Boundaries, IsBoundary
    <3>2. CASE ~IsBoundary(Head(pending))
      <4>1. UNCHANGED active
        BY <2>4, <3>2, Zenon DEF CompleteBoundary, IsBoundary
      <4>. QED  BY <2>1, <2>4, <3>2, <4>1, WriteBoundaries
    <3>. QED  BY <3>1, <3>2, Zenon
  <2>. QED  BY <2>2, <2>3, <2>4, Zenon
<1>11. CASE FlushFails
  BY <1>11, Zenon DEF FlushFails, Boundaries, Alive
<1>12. CASE ScheduleEnter
  <2>1. Alive
    BY <1>12 DEF ScheduleEnter, Alive
  <2>2. \/ UNCHANGED <<pending, active>>
        \/ active.phase = "waiting" /\ UNCHANGED pending
        \/ /\ active.phase = "waiting"
           /\ active' = [active EXCEPT !.phase = "enter"]
           /\ pending' = Append(pending, [kind |-> "enter", id |-> active.id])
    BY <1>12, Zenon DEF ScheduleEnter
  <2>3. CASE UNCHANGED <<pending, active>>
    BY <2>1, <2>3, BoundariesKept
  <2>4. CASE active.phase = "waiting"
    <3>1. \A i \in 1..Len(pending) : ~IsBoundary(pending[i])
      BY <2>1, <2>4, NoBoundaryWaits
    <3>2. CASE UNCHANGED pending
      BY <3>1, <3>2, Zenon DEF Boundaries, IsBoundary
    <3>3. CASE /\ active' = [active EXCEPT !.phase = "enter"]
               /\ pending' = Append(pending, [kind |-> "enter", id |-> active.id])
      <4>1. active \in Submissions
        BY <2>4 DEF Shapes, NoSubmission
      <4>2. /\ [kind |-> "enter", id |-> active.id] \in Chunks
            /\ active' = [id |-> active.id, phase |-> "enter"]
        BY <3>3, <4>1 DEF Submissions, Chunks
      <4>. QED  BY <3>1, <3>3, <4>2, BoundaryQueued, Zenon
    <3>. QED  BY <2>2, <2>4, <3>2, <3>3, Zenon
  <2>. QED  BY <2>2, <2>3, <2>4
<1>13. CASE PollReady
  <2>1. Alive /\ UNCHANGED active
    BY <1>13 DEF PollReady, Alive
  <2>2. ReadOnce \/ UNCHANGED pending
    BY <1>13, Zenon DEF PollReady
  <2>. QED  BY <2>1, <2>2, ReadBoundaries, BoundariesKept
<1>14. CASE CloseInputQueue
  BY <1>14, Zenon DEF CloseInputQueue, Boundaries, Alive
<1>. QED
  BY Zenon, OthersMoveNothing, <1>1, <1>2, <1>3, <1>4, <1>5, <1>6, <1>7, <1>8, <1>9, <1>10,
     <1>11, <1>12, <1>13, <1>14 DEF MovesInput, TryWriteUserInput, QueueUserInputSubmission

\* What the data channel and the history of accepted commands look like after a send.
LEMMA SendFacts ==
  ASSUME Shapes, NEW c \in DataCommands, SendData(c)
  PROVE  /\ UNCHANGED <<active, replies, out>>
         /\ ~IsAccepted(c.id)
         /\ \A id : IsAccepted(id)' <=> IsAccepted(id) \/ id = c.id
         /\ \A id : Queued(id)' <=> Queued(id) \/ id = c.id
         /\ Len(data') = Len(data) + 1 /\ Len(data) \in Nat
         /\ \A i \in 1..Len(data) : data'[i] = data[i]
         /\ data'[Len(data) + 1] = c
<1>0. data \in Seq(DataCommands) /\ accepted \in Seq(DataCommands)
  BY Zenon DEF Shapes
<1>1. /\ UNCHANGED <<active, replies, out>> /\ ~IsAccepted(c.id)
      /\ data' = Append(data, c) /\ accepted' = Append(accepted, c)
  BY Zenon DEF SendData, runnerVars, historyVars
<1>2. /\ Len(data') = Len(data) + 1 /\ Len(data) \in Nat
      /\ \A i \in 1..Len(data) : data'[i] = data[i]
      /\ data'[Len(data) + 1] = c /\ 1..Len(data') = 1..Len(data) \cup {Len(data) + 1}
  BY <1>0, <1>1, Appended
<1>3. /\ Len(accepted') = Len(accepted) + 1 /\ Len(accepted) \in Nat
      /\ \A i \in 1..Len(accepted) : accepted'[i] = accepted[i]
      /\ accepted'[Len(accepted) + 1] = c /\ 1..Len(accepted') = 1..Len(accepted) \cup {Len(accepted) + 1}
  BY <1>0, <1>1, Appended
<1>4. ASSUME NEW id PROVE IsAccepted(id)' <=> IsAccepted(id) \/ id = c.id
  BY <1>3, Zenon DEF IsAccepted
<1>5. ASSUME NEW id PROVE Queued(id)' <=> Queued(id) \/ id = c.id
  BY <1>2, Zenon DEF Queued
<1>. QED  BY <1>1, <1>2, <1>4, <1>5, Zenon

\* What the data channel looks like after handle_data_command took its head.
LEMMA TakenFacts ==
  ASSUME Shapes, data # <<>>, data' = Tail(data), UNCHANGED accepted
  PROVE  /\ Head(data) \in DataCommands /\ Queued(Head(data).id)
         /\ \A id : Queued(id)' => Queued(id)
         /\ \A id : IsAccepted(id)' <=> IsAccepted(id)
         /\ \A i \in 1..Len(data') : /\ i + 1 \in 1..Len(data) /\ i + 1 # 1
                                     /\ data'[i] = data[i + 1]
         /\ 1 \in 1..Len(data) /\ Head(data) = data[1]
<1>1. /\ Head(data) \in DataCommands
      /\ \A i \in 1..Len(data') : /\ i + 1 \in 1..Len(data) /\ i + 1 # 1
                                  /\ data'[i] = data[i + 1]
      /\ 1 \in 1..Len(data) /\ Head(data) = data[1]
  BY DEF Shapes
<1>2. Queued(Head(data).id)
  BY <1>1, Zenon DEF Queued
<1>3. ASSUME NEW id PROVE Queued(id)' => Queued(id)
  BY <1>1, Zenon DEF Queued
<1>4. ASSUME NEW id PROVE IsAccepted(id)' <=> IsAccepted(id)
  BY DEF IsAccepted
<1>. QED  BY <1>1, <1>2, <1>3, <1>4, Zenon

\* What was sent after one chunk more has been written.
LEMMA SentFacts ==
  ASSUME Shapes, NEW c \in Chunks, out' = Append(out, c)
  PROVE  \A s : Sent(s)' <=> Sent(s) \/ c = [kind |-> "enter", id |-> s]
<1>1. /\ Len(out') = Len(out) + 1 /\ Len(out) \in Nat
      /\ \A i \in 1..Len(out) : out'[i] = out[i]
      /\ out'[Len(out) + 1] = c
  BY DEF Shapes
<1>2. \A i \in 1..Len(out') : i \in 1..Len(out) \/ i = Len(out) + 1
  BY <1>1
<1>3. 1..Len(out) \subseteq 1..Len(out') /\ Len(out) + 1 \in 1..Len(out')
  BY <1>1
<1>. QED  BY <1>1, <1>2, <1>3, Zenon DEF Sent

\* A client's call: a new submission is in the channel and nowhere else.
LEMMA ToldSend ==
  ASSUME Shapes, Once, Truth, NEW c \in DataCommands, SendData(c)
  PROVE  Once' /\ Truth'
<1>. USE SendFacts
<1>1. \A s : Sent(s)' <=> Sent(s)
  BY DEF Sent
<1>2. Truth'
  BY <1>1, Zenon DEF Truth
<1>3. ASSUME NEW i \in 1..Len(data'), NEW j \in 1..Len(data'), data'[i].id = data'[j].id
      PROVE  i = j
  <2>1. \A k \in 1..Len(data') : k \in 1..Len(data) \/ k = Len(data) + 1
    <3>. HIDE SendFacts
    <3>1. Len(data') = Len(data) + 1 /\ Len(data) \in Nat
      BY SendFacts, Zenon
    <3>. QED  BY <3>1
  <2>2. c.id \in Writes \cup Subs
    BY DEF DataCommands
  <2>3. \A k \in 1..Len(data) : data[k].id # c.id
    BY <2>2, Zenon DEF Once, Queued
  <2>4. CASE i \in 1..Len(data) /\ j \in 1..Len(data)
    BY <1>3, <2>4, Zenon DEF Once
  <2>5. CASE i \in 1..Len(data) /\ j = Len(data) + 1
    BY <1>3, <2>3, <2>5, Zenon
  <2>6. CASE i = Len(data) + 1 /\ j \in 1..Len(data)
    BY <1>3, <2>3, <2>6, Zenon
  <2>. QED  BY <2>1, <2>4, <2>5, <2>6, Zenon
<1>4. ASSUME NEW id \in Writes \cup Subs PROVE Queued(id)' => IsAccepted(id)'
  BY Zenon DEF Once
<1>5. ASSUME NEW s \in Subs
      PROVE  /\ active'.id = s => IsAccepted(s)' /\ ~Queued(s)'
             /\ Sent(s)' \/ replies'[s] # "none" =>
                  IsAccepted(s)' /\ active'.id # s /\ ~Queued(s)'
  BY <1>1, Zenon DEF Once
<1>. QED  BY <1>2, <1>3, <1>4, <1>5, Zenon DEF Once

\* handle_data_command: the head of the channel is refused, queued, or becomes
\* the submission in progress.
LEMMA ToldData ==
  ASSUME Shapes, Once, Truth, data # <<>>, active = NoSubmission, HandleDataCommand,
         UNCHANGED <<accepted, out>>
  PROVE  Once' /\ Truth'
<1>1. data' = Tail(data)
  BY Zenon DEF HandleDataCommand
<1>2. PICK c \in DataCommands : c = Head(data)
  BY DEF Shapes
<1>3. /\ Queued(c.id) /\ c = data[1] /\ 1 \in 1..Len(data)
      /\ \A id : Queued(id)' => Queued(id)
      /\ \A id : IsAccepted(id)' <=> IsAccepted(id)
      /\ \A i \in 1..Len(data') : /\ i + 1 \in 1..Len(data) /\ i + 1 # 1
                                  /\ data'[i] = data[i + 1]
  BY <1>1, <1>2, TakenFacts, Zenon
<1>4. ~Queued(c.id)'
  <2>. SUFFICES ASSUME NEW i \in 1..Len(data'), data'[i].id = c.id PROVE FALSE
    BY Zenon DEF Queued
  <2>1. i + 1 \in 1..Len(data) /\ i + 1 # 1 /\ data[i + 1].id = data[1].id
    BY <1>3
  <2>2. i + 1 = 1
    BY <1>3, <2>1, Zenon DEF Once
  <2>. QED  BY <2>1, <2>2, Zenon
<1>5. ASSUME NEW i \in 1..Len(data'), NEW j \in 1..Len(data'), data'[i].id = data'[j].id
      PROVE  i = j
  <2>1. i + 1 \in 1..Len(data) /\ j + 1 \in 1..Len(data) /\ data[i + 1].id = data[j + 1].id
    BY <1>3, <1>5
  <2>2. i + 1 = j + 1
    BY <2>1, Zenon DEF Once
  <2>. QED  BY <2>2
<1>6. ASSUME NEW id \in Writes \cup Subs PROVE Queued(id)' => IsAccepted(id)'
  BY <1>3, Zenon DEF Once
<1>7. \A s : Sent(s)' <=> Sent(s)
  BY Zenon DEF Sent
<1>8. \A s \in Subs : active.id # s
  BY ConstantsAssumption DEF NoSubmission
<1>9. c.id \in Subs => IsAccepted(c.id) /\ ~Sent(c.id) /\ replies[c.id] = "none"
  BY <1>3, Zenon DEF Once
<1>10. \/ /\ UNCHANGED active
          /\ replies' = [s \in Subs |-> IF c.op = "submit" /\ s = c.id THEN "err" ELSE replies[s]]
       \/ UNCHANGED <<active, replies>>
       \/ UNCHANGED replies /\ active'.id = c.id
  <2>1. CASE state # "Running"
    <3>1. /\ UNCHANGED active
          /\ replies' = [s \in Subs |-> IF c.op = "submit" /\ s = c.id THEN "err" ELSE replies[s]]
      BY <1>2, <2>1, Zenon DEF HandleDataCommand
    <3>. QED  BY <3>1, Zenon
  <2>2. CASE state = "Running"
    <3>1. UNCHANGED replies
      BY <1>2, <2>2, Zenon DEF HandleDataCommand
    <3>2. active' = IF c.op = "write" THEN active
                    ELSE [id |-> c.id, phase |-> IF c.id \in EmptyText THEN "waiting" ELSE "text"]
      BY <1>2, <2>2, Zenon DEF HandleDataCommand
    <3>3. active' = active \/ active'.id = c.id
      BY <3>2, Zenon
    <3>. QED  BY <3>1, <3>3, Zenon
  <2>. QED  BY <2>1, <2>2, Zenon
<1>11. \A s \in Subs : /\ replies'[s] = replies[s] \/ (s = c.id /\ replies'[s] = "err")
                       /\ active'.id = s => s = c.id /\ replies'[s] = replies[s]
  BY <1>8, <1>10
<1>12. Truth'
  BY <1>7, <1>9, <1>11, Zenon DEF Truth
<1>13. ASSUME NEW s \in Subs
       PROVE  /\ active'.id = s => IsAccepted(s)' /\ ~Queued(s)'
              /\ Sent(s)' \/ replies'[s] # "none" =>
                   IsAccepted(s)' /\ active'.id # s /\ ~Queued(s)'
  <2>1. active'.id = s => IsAccepted(s)' /\ ~Queued(s)'
    BY <1>3, <1>4, <1>9, <1>11, Zenon
  <2>2. CASE s = c.id
    BY <1>3, <1>4, <1>7, <1>9, <1>11, <2>2, Zenon
  <2>3. CASE s # c.id
    BY <1>3, <1>7, <1>11, <2>3, Zenon DEF Once
  <2>. QED  BY <2>1, <2>2, <2>3
<1>. QED  BY <1>5, <1>6, <1>12, <1>13, Zenon DEF Once

\* A step of the actor that neither writes nor takes input, and that answers at
\* most the submission it ends or refuses.
LEMMA ToldEnd ==
  ASSUME Shapes, Once, Truth, UNCHANGED <<accepted, out>>,
         UNCHANGED data \/ data' = <<>>,
         active' = NoSubmission,
         \A s \in Subs : \/ replies'[s] = replies[s]
                         \/ /\ s = active.id \/ (Queued(s) /\ ~Queued(s)')
                            /\ replies'[s] = "err" \/ (s \in EmptyEnter /\ replies'[s] # "none")
  PROVE  Once' /\ Truth'
<1>1. \A s : Sent(s)' <=> Sent(s)
  BY Zenon DEF Sent
<1>2. \A id : IsAccepted(id)' <=> IsAccepted(id)
  BY Zenon DEF IsAccepted
<1>3. \A id : Queued(id)' => Queued(id)
  BY DEF Queued
<1>4. \A i, j \in 1..Len(data') : data'[i].id = data'[j].id => i = j
  <2>1. CASE UNCHANGED data
    BY <2>1, Zenon DEF Once
  <2>2. CASE data' = <<>>
    BY <2>2
  <2>. QED  BY <2>1, <2>2
<1>5. \A id \in Writes \cup Subs : Queued(id)' => IsAccepted(id)'
  BY <1>2, <1>3, Zenon DEF Once
<1>6. \A s \in Subs : active'.id # s
  BY ConstantsAssumption DEF NoSubmission
<1>7. Truth'
  <2>. SUFFICES ASSUME NEW s \in Subs \ EmptyEnter
                PROVE  /\ replies'[s] = "ok" => Sent(s)'
                       /\ replies'[s] = "err" => ~Sent(s)'
    BY Zenon DEF Truth
  <2>1. CASE replies'[s] = replies[s]
    BY <1>1, <2>1, Zenon DEF Truth
  <2>2. CASE replies'[s] = "err" /\ (s = active.id \/ Queued(s))
    <3>1. ~Sent(s)
      BY <2>2, Zenon DEF Once
    <3>. QED  BY <1>1, <2>2, <3>1
  <2>. QED  BY <2>1, <2>2, Zenon
<1>8. ASSUME NEW s \in Subs
      PROVE  Sent(s)' \/ replies'[s] # "none" => IsAccepted(s)' /\ ~Queued(s)'
  <2>1. CASE replies'[s] = replies[s]
    BY <1>1, <1>2, <1>3, <2>1, Zenon DEF Once
  <2>2. CASE s = active.id
    BY <1>2, <1>3, <2>2, Zenon DEF Once
  <2>3. CASE Queued(s) /\ ~Queued(s)'
    BY <1>2, <2>3, Zenon DEF Once
  <2>. QED  BY <2>1, <2>2, <2>3, Zenon
<1>. QED  BY <1>4, <1>5, <1>6, <1>7, <1>8, Zenon DEF Once

\* A write of the PTY: the chunk that carries a submission's Enter is the one
\* whose caller is told Ok, in the same step.
LEMMA ToldWrite ==
  ASSUME Shapes, Boundaries, Alive, Once, Truth, UNCHANGED <<accepted, data>>,
         pending # <<>>, pending' = Tail(pending), out' = Append(out, Head(pending)),
         CompleteBoundary(Head(pending).kind)
  PROVE  Once' /\ Truth'
<1>1. PICK c \in Chunks : c = Head(pending)
  BY DEF Shapes
<1>2. \A s : Sent(s)' <=> Sent(s) \/ c = [kind |-> "enter", id |-> s]
  BY <1>1, SentFacts, Zenon
<1>3. \A id : /\ IsAccepted(id)' <=> IsAccepted(id)
              /\ Queued(id)' <=> Queued(id)
  BY DEF IsAccepted, Queued
<1>4. /\ \A i, j \in 1..Len(data') : data'[i].id = data'[j].id => i = j
      /\ \A id \in Writes \cup Subs : Queued(id)' => IsAccepted(id)'
  BY <1>3, Zenon DEF Once
<1>5. CASE c.kind # "enter"
  <2>1. \A s : c # [kind |-> "enter", id |-> s]
    BY <1>5
  <2>2. UNCHANGED replies /\ active'.id = active.id
    BY <1>1, <1>5 DEF CompleteBoundary, Shapes, Submissions
  <2>3. Truth'
    BY <1>2, <2>1, <2>2, Zenon DEF Truth
  <2>. QED  BY <1>2, <1>3, <1>4, <2>1, <2>2, <2>3, Zenon DEF Once
<1>6. CASE c.kind = "enter"
  <2>1. active = [id |-> c.id, phase |-> "enter"]
    BY <1>1, <1>6, WriteBoundaries, Zenon DEF IsBoundary
  <2>2. c.id \in Subs /\ c = [kind |-> "enter", id |-> c.id]
    BY <1>6, Zenon DEF Chunks
  <2>3. active # NoSubmission /\ active.id = c.id
    BY <2>1 DEF NoSubmission
  <2>4. active' = NoSubmission /\ replies' = [replies EXCEPT ![c.id] = "ok"]
    BY <1>1, <1>6, <2>3, Zenon DEF CompleteBoundary
  <2>5. /\ replies'[c.id] = "ok"
        /\ \A s \in Subs : s # c.id => replies'[s] = replies[s]
    BY <2>2, <2>4, Zenon DEF Shapes
  <2>6. \A s \in Subs : Sent(s)' <=> Sent(s) \/ s = c.id
    BY <1>2, <2>2
  <2>7. \A s \in Subs : active'.id # s
    BY <2>4, ConstantsAssumption DEF NoSubmission
  <2>8. Truth'
    BY <2>5, <2>6, Zenon DEF Truth
  <2>9. IsAccepted(c.id) /\ ~Queued(c.id)
    BY <2>2, <2>3, Zenon DEF Once
  <2>10. ASSUME NEW s \in Subs
         PROVE  Sent(s)' \/ replies'[s] # "none" => IsAccepted(s)' /\ ~Queued(s)'
    <3>1. CASE s = c.id
      BY <1>3, <2>9, <3>1
    <3>2. CASE s # c.id
      BY <1>3, <2>5, <2>6, <3>2, Zenon DEF Once
    <3>. QED  BY <3>1, <3>2, Zenon
  <2>. QED  BY <1>4, <2>7, <2>8, <2>10, Zenon DEF Once
<1>. QED  BY <1>5, <1>6, Zenon

\* Every step keeps a submission in one place and its caller told the truth.
LEMMA ToldStep == Shapes /\ Input /\ Boundaries /\ Once /\ Truth /\ [Next]_vars => Once' /\ Truth'
<1>. SUFFICES ASSUME Shapes, Input, Boundaries, Once, Truth, [Next]_vars PROVE Once' /\ Truth'
  OBVIOUS
<1>1. ASSUME UNCHANGED <<data, accepted, replies, out, active>> PROVE Once' /\ Truth'
  BY <1>1, Zenon DEF Once, Truth, Sent, Queued, IsAccepted
<1>2. CASE UNCHANGED inputVars
  BY <1>1, <1>2 DEF inputVars
<1>3. ASSUME NEW w \in Writes, TryWriteUserInput(w) PROVE Once' /\ Truth'
  <2>1. [op |-> "write", id |-> w] \in DataCommands
    BY Zenon DEF DataCommands
  <2>. QED  BY <1>3, <2>1, ToldSend DEF TryWriteUserInput
<1>4. ASSUME NEW s \in Subs, QueueUserInputSubmission(s) PROVE Once' /\ Truth'
  <2>1. [op |-> "submit", id |-> s] \in DataCommands
    BY DEF DataCommands
  <2>. QED  BY <1>4, <2>1, ToldSend, Zenon DEF QueueUserInputSubmission
<1>5. CASE HandleRelease
  BY <1>1, <1>5, Zenon DEF HandleRelease, Outside, historyVars
<1>6. CASE DrainData
  <2>1. \/ data # <<>> /\ active = NoSubmission /\ HandleDataCommand /\ UNCHANGED <<accepted, out>>
        \/ UNCHANGED <<data, accepted, replies, out, active>>
    BY <1>6, Zenon DEF DrainData, Outside
  <2>. QED  BY <1>1, <2>1, ToldData
<1>7. CASE PreDrain
  <2>1. \/ data # <<>> /\ active = NoSubmission /\ HandleDataCommand /\ UNCHANGED <<accepted, out>>
        \/ UNCHANGED <<data, accepted, replies, out, active>>
    BY <1>7, Zenon DEF PreDrain, Outside
  <2>. QED  BY <1>1, <2>1, ToldData
<1>8. CASE StartDrain
  BY <1>1, <1>8, Zenon DEF StartDrain, Outside, historyVars
<1>9. CASE DrainStep
  <2>1. /\ Alive /\ active = NoSubmission
        /\ UNCHANGED <<data, accepted, active, replies>>
    BY <1>9 DEF DrainStep, Alive, Input, SecondDrainIsEmpty, Outside
  <2>2. \/ UNCHANGED out
        \/ pending # <<>> /\ pending' = Tail(pending) /\ out' = Append(out, Head(pending))
    BY <1>9, Zenon DEF DrainStep, WriteChunk
  <2>3. CompleteBoundary(Head(pending).kind)
    BY <2>1 DEF CompleteBoundary
  <2>. QED  BY <1>1, <2>1, <2>2, <2>3, ToldWrite, Zenon
<1>10. CASE DrainFails
  BY <1>1, <1>10, Zenon DEF DrainFails, Outside
<1>11. CASE ApplyPendingControls
  BY <1>1, <1>11, Zenon DEF ApplyPendingControls, Outside, historyVars
<1>12. CASE FlushStep
  <2>1. Alive /\ UNCHANGED <<data, accepted>>
    BY <1>12 DEF FlushStep, Alive, Outside
  <2>2. \/ UNCHANGED <<out, active, replies>>
        \/ /\ pending # <<>> /\ pending' = Tail(pending) /\ out' = Append(out, Head(pending))
           /\ CompleteBoundary(Head(pending).kind)
    BY <1>12, Zenon DEF FlushStep, WriteChunk
  <2>. QED  BY <1>1, <2>1, <2>2, ToldWrite, Zenon
<1>13. CASE FlushFails
  <2>1. /\ UNCHANGED <<data, accepted, out>> /\ active' = NoSubmission
        /\ replies' = [s \in Subs |-> IF s = active.id THEN "err" ELSE replies[s]]
    BY <1>13, Zenon DEF FlushFails, Outside
  <2>2. \A s \in Subs : replies'[s] = replies[s] \/ (s = active.id /\ replies'[s] = "err")
    BY <2>1
  <2>. QED  BY <2>1, <2>2, ToldEnd, Zenon
<1>14. CASE ScheduleEnter
  <2>1. UNCHANGED <<data, accepted, out>>
    BY <1>14, Zenon DEF ScheduleEnter, Outside
  <2>2. \/ UNCHANGED <<active, replies>>
        \/ /\ active.id \in EmptyEnter /\ active' = NoSubmission
           /\ replies' = [replies EXCEPT ![active.id] = "ok"]
        \/ active' = [active EXCEPT !.phase = "enter"] /\ UNCHANGED replies
    BY <1>14, Zenon DEF ScheduleEnter
  <2>3. CASE UNCHANGED <<active, replies>>
    BY <1>1, <2>1, <2>3, Zenon
  <2>4. CASE /\ active.id \in EmptyEnter /\ active' = NoSubmission
             /\ replies' = [replies EXCEPT ![active.id] = "ok"]
    <3>1. \A s \in Subs : replies'[s] = replies[s] \/ (s = active.id /\ replies'[s] = "ok")
      BY <2>4 DEF Shapes
    <3>. QED  BY <2>1, <2>4, <3>1, ToldEnd, Zenon
  <2>5. CASE active' = [active EXCEPT !.phase = "enter"] /\ UNCHANGED replies
    <3>1. active'.id = active.id
      BY <2>5 DEF Shapes, Submissions, NoSubmission
    <3>. QED  BY <2>1, <2>5, <3>1, Zenon DEF Once, Truth, Sent, Queued, IsAccepted
  <2>. QED  BY <2>2, <2>3, <2>4, <2>5, Zenon
<1>15. CASE PollReady
  BY <1>1, <1>15, Zenon DEF PollReady, Outside, historyVars
<1>16. CASE CloseInputQueue
  <2>1. /\ UNCHANGED <<accepted, out>> /\ active' = NoSubmission /\ data' = <<>>
        /\ replies' = [s \in Subs |->
             IF s = active.id \/ \E i \in 1..Len(data) : data[i] = [op |-> "submit", id |-> s]
             THEN "err" ELSE replies[s]]
    BY <1>16, Zenon DEF CloseInputQueue, Outside
  <2>2. \A s : ~Queued(s)'
    <3>1. 1..Len(data') = {}
      BY <2>1
    <3>. QED  BY <3>1, Zenon DEF Queued
  <2>3. \A s \in Subs : (\E i \in 1..Len(data) : data[i] = [op |-> "submit", id |-> s]) => Queued(s)
    <3>1. \A s \in Subs : [op |-> "submit", id |-> s].id = s
      OBVIOUS
    <3>. QED  BY <3>1, Zenon DEF Queued
  <2>4. \A s \in Subs : \/ replies'[s] = replies[s]
                        \/ (s = active.id \/ Queued(s)) /\ replies'[s] = "err"
    BY <2>1, <2>3, Zenon
  <2>. QED  BY <2>1, <2>2, <2>4, ToldEnd, Zenon
<1>. QED
  BY Zenon, OthersMoveNothing, <1>2, <1>3, <1>4, <1>5, <1>6, <1>7, <1>8, <1>9, <1>10,
     <1>11, <1>12, <1>13, <1>14, <1>15, <1>16 DEF MovesInput

\* The submissions' part of the inductive invariant holds of every behaviour.
LEMMA Submitted == Spec => [](Boundaries /\ Once /\ Truth)
<1>1. Init => Boundaries /\ Once /\ Truth
  <2>. SUFFICES ASSUME Init PROVE Boundaries /\ Once /\ Truth
    OBVIOUS
  <2>1. /\ pending = <<>> /\ data = <<>> /\ accepted = <<>> /\ out = <<>>
        /\ active = NoSubmission /\ replies = [s \in Subs |-> "none"]
    BY Zenon DEF Init
  <2>0. 1..Len(pending) = {} /\ 1..Len(data) = {} /\ 1..Len(accepted) = {} /\ 1..Len(out) = {}
    BY <2>1
  <2>2. \A id : ~Queued(id) /\ ~IsAccepted(id) /\ ~Sent(id)
    BY <2>0, Zenon DEF Queued, IsAccepted, Sent
  <2>3. \A s \in Subs : active.id # s /\ replies[s] = "none"
    BY <2>1, ConstantsAssumption, Zenon DEF NoSubmission
  <2>4. Boundaries
    BY <2>0, Zenon DEF Boundaries
  <2>5. Once
    BY <2>0, <2>2, <2>3, Zenon DEF Once
  <2>6. Truth
    BY <2>3, Zenon DEF Truth
  <2>. QED  BY <2>4, <2>5, <2>6, Zenon
<1>2. /\ Shapes /\ Input /\ Boundaries /\ Once /\ Truth /\ [Next]_vars
      => Boundaries' /\ Once' /\ Truth'
  BY BoundariesStep, ToldStep
<1>. QED  BY <1>1, <1>2, Invariant, PTL DEF Spec

(* The debug_asserts of complete_submission_boundary cannot fail: every     *)
(* boundary chunk that waits to be written is the submission in progress's, *)
(* in the phase that writes it.                                            *)
THEOREM BoundariesMatch == Spec => []BoundaryMatchesPhase
<1>1. Boundaries => BoundaryMatchesPhase
  BY Zenon DEF Boundaries, BoundaryMatchesPhase, IsBoundary
<1>. QED  BY <1>1, Submitted, PTL

(* The caller of a submission is told Ok only after its Enter reached the  *)
(* PTY and an error only if it never does, through handoffs, rollbacks,    *)
(* failed writes and the actor's exit.                                     *)
THEOREM CallersAreToldTheTruth == Spec => []ReplyTellsTruth
<1>1. Truth => ReplyTellsTruth
  BY DEF Truth, ReplyTellsTruth, Sent
<1>. QED  BY <1>1, Submitted, PTL

-----------------------------------------------------------------------------
(* Conservation of the input.  First, what Joined computes: that it takes  *)
(* a sequence apart at either end is shown by a least counterexample,      *)
(* since the library's induction takes an operator.                        *)

\* A nonempty set of numbers has a least one.
LEMMA Least ==
  ASSUME NEW T \in SUBSET Nat, T # {}
  PROVE  \E m \in T : \A k \in T : m <= k
<1>1. PICK R : IsWellFoundedOn(R, Nat) /\ \A x, y \in Nat : y < x => <<y, x>> \in R
  <2>1. IsWellFoundedOn(OpToRel(<, Nat), Nat)
    BY NatLessThanWellFounded, Zenon
  <2>2. \A x, y \in Nat : y < x => <<y, x>> \in OpToRel(<, Nat)
    BY DEF OpToRel
  <2>. QED  BY <2>1, <2>2, Zenon
<1>2. PICK m \in T : \A y \in T : ~ (<<y, m>> \in R)
  BY <1>1, WFMin, Zenon
<1>3. \A y \in T : ~ (y < m)
  BY <1>1, <1>2, Zenon
<1>4. \A y \in T : m <= y
  BY <1>3
<1>. QED  BY <1>4, Zenon

\* Three in a row, whichever way they are put together.
InARow(r, s, t) == (r \o s) \o t = r \o (s \o t)

\* Concatenation is associative.
LEMMA Assoc == \A S : \A r, s, t \in Seq(S) : InARow(r, s, t)
BY ConcatAssociative DEF InARow

\* The sequences agree on the first n places.
Agree(ss, tt, n) == \A i \in 1..n : ss[i] = tt[i]

\* The prefixes of a joined sequence, one by one.
IsUpTo(f, ss, n) ==
  /\ DOMAIN f = 0..n /\ f[0] = <<>>
  /\ \A i \in 1..n : f[i] = f[i - 1] \o ss[i]

\* The functions agree up to n.
SameTo(f, g, n) == \A i \in 0..n : f[i] = g[i]

\* There is such a function.
LEMMA UpToExists ==
  ASSUME NEW S, NEW ss \in Seq(Seq(S)), NEW n \in 0..Len(ss)
  PROVE  \E f \in [0..n -> Seq(S)] : IsUpTo(f, ss, n)
<1>. DEFINE Has(m) == \E f \in [0..m -> Seq(S)] : IsUpTo(f, ss, m)
            Bad == {m \in 0..Len(ss) : ~Has(m)}
<1>1. SUFFICES ASSUME Bad # {} PROVE FALSE
  BY <1>1, Zenon
<1>2. PICK m \in Bad : \A k \in Bad : m <= k
  <2>1. Bad \in SUBSET Nat
    OBVIOUS
  <2>. QED  BY <1>1, <2>1, Least, Zenon
<1>3. CASE m = 0
  <2>. DEFINE f == [i \in 0..0 |-> <<>>]
  <2>1. f \in [0..0 -> Seq(S)]
    OBVIOUS
  <2>2. IsUpTo(f, ss, 0)
    BY DEF IsUpTo
  <2>. QED  BY <1>2, <1>3, <2>1, <2>2, Zenon
<1>4. CASE m # 0
  <2>1. m \in Nat /\ m - 1 \in 0..Len(ss) /\ m \in 1..Len(ss) /\ ~(m <= m - 1)
    BY <1>2, <1>4
  <2>2. PICK g \in [0..(m - 1) -> Seq(S)] : IsUpTo(g, ss, m - 1)
    BY <1>2, <2>1, Zenon
  <2>. DEFINE f == [i \in 0..m |-> IF i = m THEN g[m - 1] \o ss[m] ELSE g[i]]
  <2>3. f \in [0..m -> Seq(S)]
    <3>1. g[m - 1] \o ss[m] \in Seq(S)
      BY <2>1, <2>2
    <3>2. ASSUME NEW i \in 0..m, i # m PROVE g[i] \in Seq(S)
      BY <2>1, <2>2, <3>2
    <3>. QED  BY <3>1, <3>2, Zenon
  <2>4. IsUpTo(f, ss, m)
    <3>1. f[0] = <<>>
      BY <1>4, <2>1, <2>2 DEF IsUpTo
    <3>2. ASSUME NEW i \in 1..m PROVE f[i] = f[i - 1] \o ss[i]
      <4>1. i - 1 \in 0..m /\ i - 1 # m /\ i \in 0..m
        BY <2>1, <3>2
      <4>2. f[i - 1] = g[i - 1]
        BY <4>1, Zenon
      <4>3. CASE i = m
        BY <4>1, <4>2, <4>3, Zenon
      <4>4. CASE i # m
        <5>1. i \in 1..(m - 1)
          BY <2>1, <4>4
        <5>. QED  BY <2>2, <4>1, <4>2, <4>4, <5>1, Zenon DEF IsUpTo
      <4>. QED  BY <4>3, <4>4, Zenon
    <3>. QED  BY <3>1, <3>2, Zenon DEF IsUpTo
  <2>. QED  BY <1>2, <2>3, <2>4, Zenon
<1>. QED  BY <1>3, <1>4, Zenon

\* There is only one, and it depends on the part it joins only.
LEMMA UpToUnique ==
  ASSUME NEW m \in Nat, NEW n \in 0..m, NEW ss, NEW tt, Agree(ss, tt, n),
         NEW f, NEW g, IsUpTo(f, ss, n), IsUpTo(g, tt, m)
  PROVE  SameTo(f, g, n)
<1>. DEFINE Bad == {i \in 0..n : f[i] # g[i]}
<1>1. SUFFICES ASSUME Bad # {} PROVE FALSE
  BY <1>1, Zenon DEF SameTo
<1>2. PICK b \in Bad : \A k \in Bad : b <= k
  <2>1. Bad \in SUBSET Nat
    OBVIOUS
  <2>. QED  BY <1>1, <2>1, Least, Zenon
<1>3. b # 0
  BY <1>2, Zenon DEF IsUpTo
<1>4. b \in 1..n /\ b \in 1..m /\ b - 1 \in 0..n /\ ~(b <= b - 1)
  BY <1>2, <1>3
<1>5. f[b - 1] = g[b - 1]
  BY <1>2, <1>4, Zenon
<1>. QED  BY <1>2, <1>4, <1>5, Zenon DEF IsUpTo, Agree

\* What Joined computes.
LEMMA JoinedIs ==
  ASSUME NEW S, NEW ss \in Seq(Seq(S))
  PROVE  \E f \in [0..Len(ss) -> Seq(S)] : IsUpTo(f, ss, Len(ss)) /\ Joined(ss) = f[Len(ss)]
<1>. DEFINE Is(f) == f = [i \in 0..Len(ss) |-> IF i = 0 THEN <<>> ELSE f[i - 1] \o ss[i]]
<1>0. Len(ss) \in Nat /\ Len(ss) \in 0..Len(ss)
  OBVIOUS
<1>1. PICK f \in [0..Len(ss) -> Seq(S)] : IsUpTo(f, ss, Len(ss))
  BY <1>0, UpToExists, Zenon
<1>2. Is(f)
  <2>1. ASSUME NEW i \in 0..Len(ss) PROVE f[i] = IF i = 0 THEN <<>> ELSE f[i - 1] \o ss[i]
    <3>1. i = 0 \/ i \in 1..Len(ss)
      BY <1>0
    <3>. QED  BY <1>1, <3>1, Zenon DEF IsUpTo
  <2>. QED  BY <2>1
<1>3. \A g : Is(g) => g = f
  <2>1. SUFFICES ASSUME NEW g, Is(g) PROVE g = f
    OBVIOUS
  <2>2. DOMAIN g = 0..Len(ss) /\ \A i \in 0..Len(ss) : g[i] = IF i = 0 THEN <<>> ELSE g[i - 1] \o ss[i]
    BY <2>1
  <2>3. IsUpTo(g, ss, Len(ss))
    <3>1. 0 \in 0..Len(ss) /\ \A i \in 1..Len(ss) : i \in 0..Len(ss) /\ i # 0
      BY <1>0
    <3>. QED  BY <2>2, <3>1, Zenon DEF IsUpTo
  <2>4. \A i \in 0..Len(ss) : g[i] = f[i]
    <3>2. Agree(ss, ss, Len(ss))
      BY DEF Agree
    <3>3. SameTo(g, f, Len(ss))
      BY <1>0, <1>1, <2>3, <3>2, UpToUnique, Zenon
    <3>. QED  BY <3>3, Zenon DEF SameTo
  <2>5. g = [i \in 0..Len(ss) |-> g[i]]
    BY <2>1
  <2>. QED  BY <2>4, <2>5
<1>4. Joined(ss) = (CHOOSE g : Is(g))[Len(ss)]
  BY Zenon DEF Joined
<1>. HIDE DEF Is
<1>5. (CHOOSE g : Is(g)) = f
  BY <1>2, <1>3, Zenon
<1>. QED  BY <1>1, <1>4, <1>5, Zenon

\* Joining sequences over a set gives one over that set.
LEMMA JoinedType ==
  ASSUME NEW S, NEW ss \in Seq(Seq(S))
  PROVE  Joined(ss) \in Seq(S)
<1>1. PICK f \in [0..Len(ss) -> Seq(S)] : Joined(ss) = f[Len(ss)]
  BY JoinedIs, Zenon
<1>2. Len(ss) \in 0..Len(ss)
  OBVIOUS
<1>. QED  BY <1>1, <1>2, Zenon

\* Joining none gives the empty sequence.
LEMMA JoinedEmpty == Joined(<<>>) = <<>>
<1>1. <<>> \in Seq(Seq({})) /\ Len(<<>>) = 0
  OBVIOUS
<1>2. PICK f : IsUpTo(f, <<>>, Len(<<>>)) /\ Joined(<<>>) = f[Len(<<>>)]
  BY <1>1, JoinedIs, Zenon
<1>. QED  BY <1>1, <1>2, Zenon DEF IsUpTo

\* Joining one more.
LEMMA JoinedAppend ==
  ASSUME NEW S, NEW ss \in Seq(Seq(S)), NEW x \in Seq(S)
  PROVE  Joined(Append(ss, x)) = Joined(ss) \o x
<1>. DEFINE tt == Append(ss, x)  n == Len(ss)
<1>1. /\ tt \in Seq(Seq(S)) /\ Len(tt) = n + 1 /\ n \in Nat /\ n + 1 \in Nat /\ n <= n + 1
      /\ tt[n + 1] = x /\ \A i \in 1..n : ss[i] = tt[i]
  OBVIOUS
<1>2. n \in 0..n /\ n + 1 \in 1..(n + 1) /\ (n + 1) - 1 = n
  BY <1>1
<1>. HIDE DEF tt, n
<1>3. PICK f : IsUpTo(f, ss, n) /\ Joined(ss) = f[n]
  BY JoinedIs, Zenon DEF n
<1>4. PICK g : IsUpTo(g, tt, n + 1) /\ Joined(tt) = g[n + 1]
  BY <1>1, JoinedIs, Zenon
<1>5. \A i \in 0..n : f[i] = g[i]
  <2>1. Agree(ss, tt, n)
    BY <1>1, Zenon DEF Agree
  <2>2. n + 1 \in Nat /\ n \in 0..(n + 1)
    BY <1>1
  <2>3. SameTo(f, g, n)
    BY <1>3, <1>4, <2>1, <2>2, UpToUnique, Zenon
  <2>. QED  BY <2>3, Zenon DEF SameTo
<1>6. g[n + 1] = g[n] \o x
  BY <1>1, <1>2, <1>4, Zenon DEF IsUpTo
<1>. QED  BY <1>2, <1>3, <1>4, <1>5, <1>6, Zenon DEF tt

\* Joining nothing more.
LEMMA JoinedPadded ==
  ASSUME NEW S, NEW ss \in Seq(Seq(S)), NEW tt \in Seq(Seq(S)), Len(ss) <= Len(tt),
         \A i \in 1..Len(ss) : ss[i] = tt[i], \A i \in Len(ss) + 1 .. Len(tt) : tt[i] = <<>>
  PROVE  Joined(tt) = Joined(ss)
<1>. DEFINE n == Len(ss)  m == Len(tt)
<1>1. n \in Nat /\ m \in Nat /\ n <= m /\ n \in 0..m
  OBVIOUS
<1>2. PICK f \in [0..n -> Seq(S)] : IsUpTo(f, ss, n) /\ Joined(ss) = f[n]
  BY JoinedIs, Zenon
<1>3. PICK g \in [0..m -> Seq(S)] : IsUpTo(g, tt, m) /\ Joined(tt) = g[m]
  BY JoinedIs, Zenon
<1>4. f[n] = g[n]
  <2>1. \A i \in 0..n : f[i] = g[i]
    <3>1. Agree(ss, tt, n)
      BY DEF Agree
    <3>2. SameTo(f, g, n)
      BY <1>1, <1>2, <1>3, <3>1, UpToUnique, Zenon
    <3>. QED  BY <3>2, Zenon DEF SameTo
  <2>2. n \in 0..n
    BY <1>1
  <2>. QED  BY <2>1, <2>2, Zenon
<1>. DEFINE Bad == {i \in n..m : g[i] # g[n]}
<1>5. Bad = {}
  <2>1. SUFFICES ASSUME Bad # {} PROVE FALSE
    BY <2>1, Zenon
  <2>2. PICK b \in Bad : \A k \in Bad : b <= k
    <3>1. Bad \in SUBSET Nat
      BY <1>1
    <3>. QED  BY <2>1, <3>1, Least, Zenon
  <2>3. b \in n + 1 .. m /\ b \in 1..m /\ b - 1 \in n..m /\ b - 1 \in 0..m /\ ~(b <= b - 1)
    <3>1. b # n
      BY <2>2, Zenon
    <3>. QED  BY <1>1, <2>2, <3>1
  <2>4. g[b - 1] = g[n]
    BY <2>2, <2>3, Zenon
  <2>5. g[b] = g[b - 1] \o <<>>
    BY <1>3, <2>3, Zenon DEF IsUpTo
  <2>6. g[b - 1] \in Seq(S)
    BY <1>3, <2>3, Zenon
  <2>7. g[b - 1] \o <<>> = g[b - 1]
    BY <2>6, ConcatEmptySeq, Zenon
  <2>. QED  BY <2>2, <2>4, <2>5, <2>7, Zenon
<1>6. m \in n..m
  BY <1>1
<1>. QED  BY <1>2, <1>3, <1>4, <1>5, <1>6, Zenon

\* Taking the first one off.
LEMMA JoinedTail ==
  ASSUME NEW S, NEW ss \in Seq(Seq(S)), ss # <<>>
  PROVE  Joined(ss) = Head(ss) \o Joined(Tail(ss))
<1>. DEFINE tt == Tail(ss)  n == Len(tt)  x == Head(ss)
<1>1. /\ tt \in Seq(Seq(S)) /\ n \in Nat /\ Len(ss) = n + 1 /\ x \in Seq(S) /\ x = ss[1]
      /\ \A i \in 1..n : tt[i] = ss[i + 1]
  OBVIOUS
<1>. HIDE DEF tt, n, x
<1>2. PICK f \in [0..(n + 1) -> Seq(S)] : IsUpTo(f, ss, n + 1) /\ Joined(ss) = f[n + 1]
  BY <1>1, JoinedIs, Zenon
<1>3. PICK g \in [0..n -> Seq(S)] : IsUpTo(g, tt, n) /\ Joined(tt) = g[n]
  BY <1>1, JoinedIs, Zenon DEF n
<1>. DEFINE Bad == {i \in 0..n : f[i + 1] # x \o g[i]}
<1>4. Bad = {}
  <2>1. SUFFICES ASSUME Bad # {} PROVE FALSE
    BY <2>1, Zenon
  <2>2. PICK b \in Bad : \A k \in Bad : b <= k
    <3>1. Bad \in SUBSET Nat
      OBVIOUS
    <3>. QED  BY <2>1, <3>1, Least, Zenon
  <2>3. CASE b = 0
    <3>1. 1 \in 1..(n + 1) /\ 1 - 1 = 0 /\ 0 + 1 = 1
      BY <1>1
    <3>2. f[1] = <<>> \o x
      BY <1>1, <1>2, <3>1, Zenon DEF IsUpTo
    <3>3. <<>> \o x = x /\ x \o <<>> = x
      BY <1>1, ConcatEmptySeq, Zenon
    <3>4. f[0 + 1] = x \o g[0]
      BY <1>3, <3>1, <3>2, <3>3, Zenon DEF IsUpTo
    <3>. QED  BY <2>2, <2>3, <3>4, Zenon
  <2>4. CASE b # 0
    <3>1. /\ b \in 1..n /\ b + 1 \in 1..(n + 1) /\ b - 1 \in 0..n /\ ~(b <= b - 1)
          /\ (b + 1) - 1 = b /\ (b - 1) + 1 = b
      BY <1>1, <2>2, <2>4
    <3>2. f[b] = x \o g[b - 1]
      BY <2>2, <3>1, Zenon
    <3>3. f[b + 1] = f[b] \o ss[b + 1]
      BY <1>2, <3>1, Zenon DEF IsUpTo
    <3>4. g[b] = g[b - 1] \o tt[b]
      BY <1>3, <3>1, Zenon DEF IsUpTo
    <3>5. g[b - 1] \in Seq(S) /\ tt[b] \in Seq(S)
      <4>1. tt[b] \in Seq(S)
        BY <1>1, <3>1, ElementOfSeq, Zenon DEF n
      <4>. QED  BY <1>3, <3>1, <4>1, Zenon
    <3>6. (x \o g[b - 1]) \o tt[b] = x \o (g[b - 1] \o tt[b])
      <4>1. x \in Seq(S)
        BY <1>1, Zenon
      <4>2. InARow(x, g[b - 1], tt[b])
        BY <3>5, <4>1, Assoc, Zenon
      <4>. QED  BY <4>2, Zenon DEF InARow
    <3>. QED  BY <1>1, <2>2, <3>1, <3>2, <3>3, <3>4, <3>6, Zenon
  <2>. QED  BY <2>3, <2>4, Zenon
<1>5. n \in 0..n
  BY <1>1
<1>. QED  BY <1>2, <1>3, <1>4, <1>5, Zenon DEF tt, x

\* A queue with each element replaced by what F makes of it, and that joined.
Mapped(F, q) == [i \in 1..Len(q) |-> F[q[i]]]
Flat(F, q) == Joined(Mapped(F, q))

MapsTo(F, q, T) == Mapped(F, q) \in Seq(Seq(T)) /\ Len(Mapped(F, q)) = Len(q)

\* The mapped queue is as long and holds sequences.
LEMMA MappedType ==
  ASSUME NEW S, NEW T, NEW F \in [S -> Seq(T)], NEW q \in Seq(S)
  PROVE  MapsTo(F, q, T)
<1>1. \A i \in 1..Len(q) : F[q[i]] \in Seq(T)
  OBVIOUS
<1>. QED  BY <1>1 DEF Mapped, MapsTo

\* What it joins to is a sequence over the same set.
LEMMA FlatType ==
  ASSUME NEW S, NEW T, NEW F \in [S -> Seq(T)], NEW q \in Seq(S)
  PROVE  Flat(F, q) \in Seq(T)
BY MappedType, JoinedType, Zenon DEF Flat, MapsTo

\* Nothing comes of an empty queue.
LEMMA FlatEmpty == \A F : Flat(F, <<>>) = <<>>
<1>. SUFFICES ASSUME NEW F PROVE Flat(F, <<>>) = <<>>
  BY Zenon
<1>1. Mapped(F, <<>>) = <<>>
  BY DEF Mapped
<1>. QED  BY <1>1, JoinedEmpty, Zenon DEF Flat

\* One more at the end of the queue.
LEMMA FlatAppend ==
  ASSUME NEW S, NEW T, NEW F \in [S -> Seq(T)], NEW q \in Seq(S), NEW x \in S
  PROVE  Flat(F, Append(q, x)) = Flat(F, q) \o F[x]
<1>1. Mapped(F, Append(q, x)) = Append(Mapped(F, q), F[x])
  <2>1. Append(q, x) \in Seq(S) /\ F[x] \in Seq(T) /\ Len(Append(q, x)) = Len(q) + 1
    OBVIOUS
  <2>2. Mapped(F, q) \in Seq(Seq(T)) /\ Len(Mapped(F, q)) = Len(q)
    <3>1. MapsTo(F, q, T)
      BY MappedType, Zenon
    <3>. QED  BY <3>1, Zenon DEF MapsTo
  <2>3. /\ Mapped(F, Append(q, x)) \in Seq(Seq(T))
        /\ Len(Mapped(F, Append(q, x))) = Len(q) + 1
    <3>1. MapsTo(F, Append(q, x), T)
      BY <2>1, MappedType, Zenon
    <3>. QED  BY <2>1, <3>1, Zenon DEF MapsTo
  <2>4. Append(Mapped(F, q), F[x]) \in Seq(Seq(T)) /\ Len(Append(Mapped(F, q), F[x])) = Len(q) + 1
    BY <2>1, <2>2
  <2>5. ASSUME NEW i \in 1..(Len(q) + 1)
        PROVE  Mapped(F, Append(q, x))[i] = Append(Mapped(F, q), F[x])[i]
    BY <2>1, <2>2 DEF Mapped
  <2>. QED  BY <2>3, <2>4, <2>5, SeqEqual
<1>2. Mapped(F, q) \in Seq(Seq(T)) /\ F[x] \in Seq(T)
  BY MappedType, Zenon DEF MapsTo
<1>. QED  BY <1>1, <1>2, JoinedAppend, Zenon DEF Flat

\* The front of the queue.
LEMMA FlatTail ==
  ASSUME NEW S, NEW T, NEW F \in [S -> Seq(T)], NEW q \in Seq(S), q # <<>>
  PROVE  Flat(F, q) = F[Head(q)] \o Flat(F, Tail(q))
<1>1. Mapped(F, q) \in Seq(Seq(T)) /\ Len(Mapped(F, q)) = Len(q)
  <2>1. MapsTo(F, q, T)
    BY MappedType, Zenon
  <2>. QED  BY <2>1, Zenon DEF MapsTo
<1>2. Len(q) \in Nat /\ Len(q) >= 1 /\ Tail(q) \in Seq(S) /\ Len(Tail(q)) = Len(q) - 1
  OBVIOUS
<1>3. Mapped(F, q) # <<>> /\ Head(Mapped(F, q)) = F[Head(q)]
  BY <1>1, <1>2 DEF Mapped
<1>4. Tail(Mapped(F, q)) = Mapped(F, Tail(q))
  <2>1. Mapped(F, Tail(q)) \in Seq(Seq(T)) /\ Len(Mapped(F, Tail(q))) = Len(q) - 1
    <3>1. MapsTo(F, Tail(q), T)
      BY <1>2, MappedType, Zenon
    <3>. QED  BY <1>2, <3>1, Zenon DEF MapsTo
  <2>2. Tail(Mapped(F, q)) \in Seq(Seq(T)) /\ Len(Tail(Mapped(F, q))) = Len(q) - 1
    BY <1>1, <1>3
  <2>3. ASSUME NEW i \in 1..(Len(q) - 1)
        PROVE  Tail(Mapped(F, q))[i] = Mapped(F, Tail(q))[i]
    <3>1. Tail(Mapped(F, q))[i] = Mapped(F, q)[i + 1]
      BY <1>1, <1>2, <1>3
    <3>2. Mapped(F, Tail(q))[i] = F[q[i + 1]] /\ i + 1 \in 1..Len(q)
      BY <1>2 DEF Mapped
    <3>. QED  BY <3>1, <3>2, Zenon DEF Mapped
  <2>. QED  BY <2>1, <2>2, <2>3, SeqEqual
<1>. QED  BY <1>1, <1>3, <1>4, JoinedTail, Zenon DEF Flat

\* More at the end that F makes nothing of.
LEMMA FlatPadded ==
  ASSUME NEW S, NEW T, NEW F \in [S -> Seq(T)], NEW q \in Seq(S), NEW r \in Seq(S),
         Len(q) <= Len(r), \A i \in 1..Len(q) : r[i] = q[i],
         \A i \in Len(q) + 1 .. Len(r) : F[r[i]] = <<>>
  PROVE  Flat(F, r) = Flat(F, q)
<1>1. /\ Mapped(F, q) \in Seq(Seq(T)) /\ Len(Mapped(F, q)) = Len(q)
      /\ Mapped(F, r) \in Seq(Seq(T)) /\ Len(Mapped(F, r)) = Len(r)
  <2>1. MapsTo(F, q, T) /\ MapsTo(F, r, T)
    BY MappedType, Zenon
  <2>. QED  BY <2>1, Zenon DEF MapsTo
<1>2. \A i \in 1..Len(Mapped(F, q)) : Mapped(F, q)[i] = Mapped(F, r)[i]
  BY <1>1 DEF Mapped
<1>3. \A i \in Len(Mapped(F, q)) + 1 .. Len(Mapped(F, r)) : Mapped(F, r)[i] = <<>>
  BY <1>1 DEF Mapped
<1>4. Len(Mapped(F, q)) <= Len(Mapped(F, r))
  BY <1>1, Zenon
<1>. QED  BY <1>1, <1>2, <1>3, <1>4, JoinedPadded, Zenon DEF Flat

\* The equation of InputConserved.
Kept(o, p, e, d, a) == ((o \o p) \o e) \o d = a

\* A command is accepted: it goes to the end of the channel.
LEMMA KeptSend ==
  ASSUME NEW S, NEW o \in Seq(S), NEW p \in Seq(S), NEW e \in Seq(S), NEW d \in Seq(S),
         NEW x \in Seq(S), NEW a, Kept(o, p, e, d, a)
  PROVE  Kept(o, p, e, d \o x, a \o x)
<1>. DEFINE w == (o \o p) \o e
<1>1. w \in Seq(S)
  OBVIOUS
<1>. HIDE DEF w
<1>2. InARow(w, d, x)
  BY <1>1, Assoc, Zenon
<1>. QED  BY <1>2, Zenon DEF Kept, InARow, w

\* A command is taken: what it asks for at once goes to the pending writes.
LEMMA KeptTake ==
  ASSUME NEW S, NEW o \in Seq(S), NEW p \in Seq(S), NEW x \in Seq(S), NEW y \in Seq(S),
         NEW d \in Seq(S), NEW a, Kept(o, p, <<>>, (x \o y) \o d, a)
  PROVE  Kept(o, p \o x, y, d, a)
<1>. DEFINE w == o \o p  v == w \o x  u == x \o y
<1>1. w \in Seq(S) /\ v \in Seq(S) /\ u \in Seq(S)
  OBVIOUS
<1>. HIDE DEF w, v, u
<1>2. w \o <<>> = w
  BY <1>1, ConcatEmptySeq, Zenon
<1>3. InARow(o, p, x) /\ InARow(w, x, y) /\ InARow(w, u, d)
  BY <1>1, Assoc, Zenon
<1>4. o \o (p \o x) = v
  BY <1>3, Zenon DEF InARow, v, w
<1>5. v \o y = w \o u
  BY <1>3, Zenon DEF InARow, v, u
<1>6. (w \o u) \o d = w \o (u \o d)
  BY <1>3, Zenon DEF InARow
<1>7. w \o (u \o d) = a
  BY <1>2, Zenon DEF Kept, w, u
<1>. QED  BY <1>4, <1>5, <1>6, <1>7, Zenon DEF Kept

\* The front of the pending writes is written.
LEMMA KeptWrite ==
  ASSUME NEW S, NEW o \in Seq(S), NEW h \in Seq(S), NEW p \in Seq(S), NEW e, NEW d, NEW a,
         Kept(o, h \o p, e, d, a)
  PROVE  Kept(o \o h, p, e, d, a)
<1>1. InARow(o, h, p)
  BY Assoc, Zenon
<1>. QED  BY <1>1, Zenon DEF Kept, InARow

\* The Enter that was owed goes to the pending writes.
LEMMA KeptEnter ==
  ASSUME NEW S, NEW o \in Seq(S), NEW p \in Seq(S), NEW e \in Seq(S), NEW d, NEW a,
         Kept(o, p, e, d, a)
  PROVE  Kept(o, p \o e, <<>>, d, a)
<1>. DEFINE w == o \o (p \o e)
<1>1. w \in Seq(S)
  OBVIOUS
<1>. HIDE DEF w
<1>2. w \o <<>> = w
  BY <1>1, ConcatEmptySeq, Zenon
<1>3. InARow(o, p, e)
  BY Assoc, Zenon
<1>4. (o \o p) \o e = w
  BY <1>3, Zenon DEF InARow, w
<1>5. w \o d = a
  BY <1>4, Zenon DEF Kept
<1>6. (w \o <<>>) \o d = a
  BY <1>2, <1>5, Zenon
<1>. QED  BY <1>6, Zenon DEF Kept, w

\* What a chunk and a data command put into the input.
Picker == [c \in Chunks |-> Picked(c)]
Asker == [c \in DataCommands |-> ChunksOf(c)]

\* Both are sequences of chunks.
LEMMA ChunksOfType ==
  /\ Picker \in [Chunks -> Seq(Chunks)] /\ \A c \in Chunks : Picker[c] = Picked(c)
  /\ Asker \in [DataCommands -> Seq(Chunks)] /\ \A c \in DataCommands : Asker[c] = ChunksOf(c)
<1>1. ASSUME NEW c \in Chunks PROVE Picked(c) \in Seq(Chunks)
  BY DEF Picked
<1>2. ASSUME NEW c \in DataCommands PROVE ChunksOf(c) \in Seq(Chunks)
  <2>1. CASE c.op = "write"
    <3>1. [kind |-> "user", id |-> c.id] \in Chunks
      BY <2>1 DEF DataCommands, Chunks
    <3>. QED  BY <2>1, <3>1 DEF ChunksOf
  <2>2. CASE c.op # "write"
    <3>. DEFINE t == [kind |-> "text", id |-> c.id]
                e == [kind |-> "enter", id |-> c.id]
    <3>1. t \in Chunks /\ e \in Chunks
      BY <2>2 DEF DataCommands, Chunks
    <3>. HIDE DEF t, e
    <3>2. <<>> \in Seq(Chunks) /\ <<t>> \in Seq(Chunks) /\ <<e>> \in Seq(Chunks)
      BY <3>1
    <3>3. /\ (IF c.id \in EmptyText THEN <<>> ELSE <<t>>) \in Seq(Chunks)
          /\ (IF c.id \in EmptyEnter THEN <<>> ELSE <<e>>) \in Seq(Chunks)
      BY <3>2, Zenon
    <3>. QED  BY <2>2, <3>3, ConcatProperties, Zenon DEF ChunksOf, t, e
  <2>. QED  BY <2>1, <2>2, Zenon
<1>. QED  BY <1>1, <1>2, Zenon DEF Picker, Asker

\* The two sides of InputConserved are queues mapped and joined.
LEMMA PartsAreFlat ==
  /\ \A q \in Seq(Chunks) : UserPart(q) = Flat(Picker, q)
  /\ \A q \in Seq(DataCommands) : ChunksOfAll(q) = Flat(Asker, q)
<1>1. ASSUME NEW q \in Seq(Chunks) PROVE UserPart(q) = Flat(Picker, q)
  <2>1. [i \in 1..Len(q) |-> Picked(q[i])] = Mapped(Picker, q)
    <3>1. \A i \in 1..Len(q) : Picker[q[i]] = Picked(q[i])
      BY ChunksOfType, ElementOfSeq, Zenon
    <3>. QED  BY <3>1, Zenon DEF Mapped
  <2>. QED  BY <2>1, Zenon DEF UserPart, Flat
<1>2. ASSUME NEW q \in Seq(DataCommands) PROVE ChunksOfAll(q) = Flat(Asker, q)
  <2>1. [i \in 1..Len(q) |-> ChunksOf(q[i])] = Mapped(Asker, q)
    <3>1. \A i \in 1..Len(q) : Asker[q[i]] = ChunksOf(q[i])
      BY ChunksOfType, ElementOfSeq, Zenon
    <3>. QED  BY <3>1, Zenon DEF Mapped
  <2>. QED  BY <2>1, Zenon DEF ChunksOfAll, Flat
<1>. QED  BY <1>1, <1>2, Zenon

\* How the user's part of a queue of chunks grows and shrinks with it.
LEMMA UserPartFacts ==
  /\ UserPart(<<>>) = <<>>
  /\ \A q \in Seq(Chunks) : UserPart(q) \in Seq(Chunks)
  /\ \A q \in Seq(Chunks) : \A c \in Chunks : UserPart(Append(q, c)) = UserPart(q) \o Picked(c)
  /\ \A q \in Seq(Chunks) : q # <<>> => UserPart(q) = Picked(Head(q)) \o UserPart(Tail(q))
<1>1. UserPart(<<>>) = <<>>
  <2>1. <<>> \in Seq(Chunks)
    OBVIOUS
  <2>. QED  BY <2>1, FlatEmpty, PartsAreFlat, Zenon
<1>2. ASSUME NEW q \in Seq(Chunks) PROVE UserPart(q) \in Seq(Chunks)
  <2>1. Flat(Picker, q) \in Seq(Chunks)
    BY ChunksOfType, FlatType, Zenon
  <2>. QED  BY <2>1, PartsAreFlat, Zenon
<1>3. ASSUME NEW q \in Seq(Chunks), NEW c \in Chunks
      PROVE  UserPart(Append(q, c)) = UserPart(q) \o Picked(c)
  <2>1. Append(q, c) \in Seq(Chunks)
    OBVIOUS
  <2>2. Flat(Picker, Append(q, c)) = Flat(Picker, q) \o Picker[c]
    BY ChunksOfType, FlatAppend, Zenon
  <2>. QED  BY <2>1, <2>2, ChunksOfType, PartsAreFlat, Zenon
<1>4. ASSUME NEW q \in Seq(Chunks), q # <<>>
      PROVE  UserPart(q) = Picked(Head(q)) \o UserPart(Tail(q))
  <2>1. Head(q) \in Chunks /\ Tail(q) \in Seq(Chunks)
    BY <1>4, HeadTail, Zenon
  <2>2. Flat(Picker, q) = Picker[Head(q)] \o Flat(Picker, Tail(q))
    BY <1>4, ChunksOfType, FlatTail, Zenon
  <2>. QED  BY <2>1, <2>2, ChunksOfType, PartsAreFlat, Zenon
<1>. QED  BY <1>1, <1>2, <1>3, <1>4, Zenon

\* The same of what a queue of data commands asks for.
LEMMA ChunksOfAllFacts ==
  /\ ChunksOfAll(<<>>) = <<>>
  /\ \A q \in Seq(DataCommands) : ChunksOfAll(q) \in Seq(Chunks)
  /\ \A q \in Seq(DataCommands) : \A c \in DataCommands :
       ChunksOfAll(Append(q, c)) = ChunksOfAll(q) \o ChunksOf(c)
  /\ \A q \in Seq(DataCommands) :
       q # <<>> => ChunksOfAll(q) = ChunksOf(Head(q)) \o ChunksOfAll(Tail(q))
<1>1. ChunksOfAll(<<>>) = <<>>
  <2>1. <<>> \in Seq(DataCommands)
    OBVIOUS
  <2>. QED  BY <2>1, FlatEmpty, PartsAreFlat, Zenon
<1>2. ASSUME NEW q \in Seq(DataCommands) PROVE ChunksOfAll(q) \in Seq(Chunks)
  <2>1. Flat(Asker, q) \in Seq(Chunks)
    BY ChunksOfType, FlatType, Zenon
  <2>. QED  BY <2>1, PartsAreFlat, Zenon
<1>3. ASSUME NEW q \in Seq(DataCommands), NEW c \in DataCommands
      PROVE  ChunksOfAll(Append(q, c)) = ChunksOfAll(q) \o ChunksOf(c)
  <2>1. Append(q, c) \in Seq(DataCommands)
    OBVIOUS
  <2>2. Flat(Asker, Append(q, c)) = Flat(Asker, q) \o Asker[c]
    BY ChunksOfType, FlatAppend, Zenon
  <2>. QED  BY <2>1, <2>2, ChunksOfType, PartsAreFlat, Zenon
<1>4. ASSUME NEW q \in Seq(DataCommands), q # <<>>
      PROVE  ChunksOfAll(q) = ChunksOf(Head(q)) \o ChunksOfAll(Tail(q))
  <2>1. Head(q) \in DataCommands /\ Tail(q) \in Seq(DataCommands)
    BY <1>4, HeadTail, Zenon
  <2>2. Flat(Asker, q) = Asker[Head(q)] \o Flat(Asker, Tail(q))
    BY <1>4, ChunksOfType, FlatTail, Zenon
  <2>. QED  BY <2>1, <2>2, ChunksOfType, PartsAreFlat, Zenon
<1>. QED  BY <1>1, <1>2, <1>3, <1>4, Zenon

\* Responses put behind a queue add nothing to the user's part of it.
LEMMA ResponsesAreNoInput ==
  ASSUME NEW q \in Seq(Chunks), NEW n \in Nat
  PROVE  UserPart(q \o [i \in 1..n |-> Response]) = UserPart(q)
<1>. DEFINE t == [i \in 1..n |-> Response]
            r == q \o t
<1>1. Response \in Chunks /\ Picked(Response) = <<>>
  BY DEF Response, Chunks, Picked, UserChunk
<1>2. t \in Seq(Chunks) /\ Len(t) = n
  BY <1>1
<1>3. r \in Seq(Chunks) /\ Len(r) = Len(q) + n /\ Len(q) <= Len(r)
  BY <1>2
<1>4. \A i \in 1..Len(q) : r[i] = q[i]
  BY <1>2
<1>5. \A i \in Len(q) + 1 .. Len(r) : r[i] = Response
  <2>1. SUFFICES ASSUME NEW i \in Len(q) + 1 .. Len(r) PROVE r[i] = Response
    OBVIOUS
  <2>2. i - Len(q) \in 1..n
    BY <1>3, <2>1
  <2>3. r[i] = t[i - Len(q)]
    BY <1>2, <1>3, <2>1
  <2>. QED  BY <2>2, <2>3, Zenon
<1>6. Picker[Response] = <<>>
  BY <1>1, ChunksOfType, Zenon
<1>. HIDE DEF r
<1>7. Flat(Picker, r) = Flat(Picker, q)
  <2>1. \A i \in Len(q) + 1 .. Len(r) : Picker[r[i]] = <<>>
    BY <1>5, <1>6, Zenon
  <2>. QED  BY <1>3, <1>4, <2>1, ChunksOfType, FlatPadded, Zenon
<1>. QED  BY <1>3, <1>7, PartsAreFlat, Zenon DEF r

\* A living actor has not released its PTY.
Owned == Alive => state # "Released"

\* The release and the exit are one step.
LEMMA OwnedStep == Owned /\ [Next]_vars => Owned'
<1>. SUFFICES ASSUME Owned, [Next]_vars PROVE Owned'
  OBVIOUS
<1>. USE DEF Owned, Alive
<1>1. ASSUME Alive \/ pc' = pc, state' # "Released" \/ UNCHANGED state PROVE Owned'
  BY <1>1, Zenon
<1>2. ASSUME NEW w \in Writes, TryWriteUserInput(w) PROVE Owned'
  BY <1>1, <1>2, Zenon DEF TryWriteUserInput, SendData, runnerVars
<1>3. ASSUME NEW s \in Subs, QueueUserInputSubmission(s) PROVE Owned'
  BY <1>1, <1>3, Zenon DEF QueueUserInputSubmission, SendData, runnerVars
<1>4. CASE WriteTerminalResponse
  BY <1>1, <1>4, Zenon DEF WriteTerminalResponse, runnerVars
<1>5. CASE Driver
  <2>1. UNCHANGED <<pc, state>>
    BY <1>5, Zenon DEF Driver, BeginHandoff, BeginFails, DuplicateForHandoff, RollbackHandoff,
       SendRollback, ReleaseAfterCommit, Shutdown, DriverReceives, DriverTimesOut, runnerVars
  <2>. QED  BY <1>1, <2>1, Zenon
<1>6. CASE HandleBegin \/ HandleDuplicate \/ HandleShutdown \/ ControlDrained
  <2>1. pc = "control" /\ UNCHANGED state
    BY <1>6, Zenon DEF HandleBegin, HandleDuplicate, HandleShutdown, ControlDrained, TakeControl, runnerVars
  <2>. QED  BY <1>1, <2>1
<1>7. CASE HandleRollback
  BY <1>7 DEF HandleRollback
<1>8. CASE HandleRelease
  BY <1>8, Zenon DEF HandleRelease
<1>9. CASE DrainData \/ PreDrain
  <2>1. pc \in {"data", "preDrain"} /\ UNCHANGED state
    BY <1>9, Zenon DEF DrainData, PreDrain
  <2>. QED  BY <1>1, <2>1
<1>10. CASE Quiesce
  BY <1>10 DEF Quiesce
<1>11. CASE StartDrain \/ DrainStep \/ DrainFails \/ ApplyPendingControls
  <2>1. pc \in {"begin", "drainWrites", "apply"} /\ UNCHANGED state
    BY <1>11, Zenon DEF StartDrain, DrainStep, DrainFails, ApplyPendingControls
  <2>. QED  BY <1>1, <2>1
<1>12. CASE FlushStep \/ FlushFails \/ ScheduleEnter
  <2>1. pc \in {"flush", "schedule"} /\ UNCHANGED state
    BY <1>12, Zenon DEF FlushStep, FlushFails, ScheduleEnter
  <2>. QED  BY <1>1, <2>1
<1>13. CASE PollWake \/ PollReady \/ PollFails
  <2>1. pc = "poll" /\ UNCHANGED state
    BY <1>13, Zenon DEF PollWake, PollReady, PollFails, runnerVars
  <2>. QED  BY <1>1, <2>1
<1>14. CASE CloseInputQueue
  BY <1>14, Zenon DEF CloseInputQueue
<1>15. CASE UNCHANGED vars
  BY <1>1, <1>15, Zenon DEF vars
<1>. HIDE DEF Owned, Alive
<1>. QED
  BY <1>2, <1>3, <1>4, <1>5, <1>6, <1>7, <1>8, <1>9, <1>10, <1>11, <1>12, <1>13, <1>14, <1>15,
     Zenon DEF Next, Client, Actor

\* InputConserved while the actor lives and no write has failed.
Balanced == Kept(UserPart(out), UserPart(pending), OwedEnter, ChunksOfAll(data), ChunksOfAll(accepted))

\* The parts are sequences of chunks.
LEMMA BalanceTypes ==
  ASSUME Shapes
  PROVE  /\ UserPart(out) \in Seq(Chunks) /\ UserPart(pending) \in Seq(Chunks)
         /\ OwedEnter \in Seq(Chunks)
         /\ ChunksOfAll(data) \in Seq(Chunks)
<1>1. OwedEnter \in Seq(Chunks)
  <2>1. CASE active.phase \in {"text", "waiting"} /\ active.id \notin EmptyEnter
    <3>1. active \in Submissions
      BY <2>1 DEF Shapes, NoSubmission
    <3>2. [kind |-> "enter", id |-> active.id] \in Chunks
      BY <3>1 DEF Submissions, Chunks
    <3>3. <<[kind |-> "enter", id |-> active.id]>> \in Seq(Chunks)
      BY <3>2
    <3>. QED  BY <2>1, <3>3, Zenon DEF OwedEnter
  <2>2. CASE ~(active.phase \in {"text", "waiting"} /\ active.id \notin EmptyEnter)
    <3>1. <<>> \in Seq(Chunks)
      OBVIOUS
    <3>. QED  BY <2>2, <3>1, Zenon DEF OwedEnter
  <2>. QED  BY <2>1, <2>2, Zenon
<1>. QED  BY <1>1, UserPartFacts, ChunksOfAllFacts, Zenon DEF Shapes

\* Between submissions no Enter is owed.
LEMMA NothingOwed == active = NoSubmission => OwedEnter = <<>>
<1>1. active = NoSubmission => active.phase \notin {"text", "waiting"}
  BY DEF NoSubmission
<1>. QED  BY <1>1, Zenon DEF OwedEnter

\* An accepted command is owed in full.
LEMMA BalanceSend ==
  ASSUME Shapes, Balanced, NEW c \in DataCommands, SendData(c)
  PROVE  Balanced'
<1>1. /\ data' = Append(data, c) /\ accepted' = Append(accepted, c)
      /\ UNCHANGED <<out, pending, active>>
  BY Zenon DEF SendData, runnerVars, historyVars
<1>2. /\ ChunksOfAll(data') = ChunksOfAll(data) \o ChunksOf(c)
      /\ ChunksOfAll(accepted') = ChunksOfAll(accepted) \o ChunksOf(c)
  BY <1>1, ChunksOfAllFacts, Zenon DEF Shapes
<1>3. ChunksOf(c) \in Seq(Chunks)
  BY ChunksOfType, Zenon
<1>4. Kept(UserPart(out), UserPart(pending), OwedEnter,
           ChunksOfAll(data) \o ChunksOf(c), ChunksOfAll(accepted) \o ChunksOf(c))
  BY <1>3, BalanceTypes, KeptSend, Zenon DEF Balanced
<1>5. OwedEnter' = OwedEnter
  BY <1>1, Zenon DEF OwedEnter
<1>. QED  BY <1>1, <1>2, <1>4, <1>5, Zenon DEF Balanced

\* Taking a command from the channel moves what it asks for, in order, to the
\* pending writes and to the Enter that is owed.
LEMMA TakenInput ==
  ASSUME Shapes, data # <<>>, active = NoSubmission, state = "Running", HandleDataCommand
  PROVE  \E x, y \in Seq(Chunks) :
           /\ ChunksOf(Head(data)) = x \o y
           /\ UserPart(pending') = UserPart(pending) \o x
           /\ OwedEnter' = y
<1>. DEFINE c == Head(data)
            u == [kind |-> "user", id |-> c.id]
            t == [kind |-> "text", id |-> c.id]
            e == [kind |-> "enter", id |-> c.id]
<1>1. c \in DataCommands /\ pending \in Seq(Chunks)
  BY HeadTail, Zenon DEF Shapes
<1>2. UserPart(pending) \in Seq(Chunks)
  BY <1>1, UserPartFacts, Zenon
<1>3. UserPart(pending) \o <<>> = UserPart(pending) /\ <<>> \in Seq(Chunks)
  <2>1. <<>> \in Seq(Chunks)
    OBVIOUS
  <2>. QED  BY <1>2, <2>1, ConcatEmptySeq, Zenon
<1>4. CASE c.op = "write"
  <2>1. u \in Chunks /\ Picked(u) = <<u>>
    BY <1>1, <1>4 DEF DataCommands, Chunks, Picked, UserChunk
  <2>2. pending' = Append(pending, u) /\ active' = NoSubmission
    BY <1>4, Zenon DEF HandleDataCommand
  <2>3. OwedEnter' = <<>>
    <3>1. active'.phase \notin {"text", "waiting"}
      BY <2>2 DEF NoSubmission
    <3>. QED  BY <3>1, Zenon DEF OwedEnter
  <2>4. ChunksOf(c) = <<u>>
    BY <1>4, Zenon DEF ChunksOf
  <2>. HIDE DEF u, c
  <2>5. <<u>> \in Seq(Chunks) /\ <<u>> \o <<>> = <<u>>
    <3>1. <<u>> \in Seq(Chunks)
      BY <2>1
    <3>. QED  BY <3>1, ConcatEmptySeq, Zenon
  <2>6. UserPart(pending') = UserPart(pending) \o <<u>>
    BY <1>1, <2>1, <2>2, UserPartFacts, Zenon
  <2>. QED  BY <1>3, <2>3, <2>4, <2>5, <2>6, Zenon DEF c
<1>5. CASE c.op # "write"
  <2>. DEFINE x == IF c.id \in EmptyText THEN <<>> ELSE <<t>>
              y == IF c.id \in EmptyEnter THEN <<>> ELSE <<e>>
  <2>1. t \in Chunks /\ e \in Chunks /\ Picked(t) = <<t>>
    BY <1>1, <1>5 DEF DataCommands, Chunks, Picked, UserChunk
  <2>2. ChunksOf(c) = x \o y
    BY <1>5, Zenon DEF ChunksOf
  <2>3. /\ pending' = IF c.id \in EmptyText THEN pending ELSE Append(pending, t)
        /\ active' = [id |-> c.id, phase |-> IF c.id \in EmptyText THEN "waiting" ELSE "text"]
    BY <1>5, Zenon DEF HandleDataCommand
  <2>4. active'.id = c.id /\ active'.phase \in {"text", "waiting"}
    BY <2>3
  <2>5. OwedEnter' = y
    BY <2>4, Zenon DEF OwedEnter
  <2>. HIDE DEF t, e, c
  <2>6. <<t>> \in Seq(Chunks) /\ <<e>> \in Seq(Chunks)
    BY <2>1
  <2>7. x \in Seq(Chunks) /\ y \in Seq(Chunks)
    BY <1>3, <2>6, Zenon
  <2>8. UserPart(pending') = UserPart(pending) \o x
    <3>1. CASE c.id \in EmptyText
      BY <1>3, <2>3, <3>1, Zenon
    <3>2. CASE c.id \notin EmptyText
      BY <1>1, <2>1, <2>3, <3>2, UserPartFacts, Zenon
    <3>. QED  BY <3>1, <3>2, Zenon
  <2>. HIDE DEF x, y
  <2>. QED  BY <2>2, <2>5, <2>7, <2>8, Zenon DEF c
<1>. QED  BY <1>4, <1>5, Zenon

\* Handling a data command moves input and loses none.
LEMMA BalanceTake ==
  ASSUME Shapes, Balanced, data # <<>>, active = NoSubmission, state = "Running",
         HandleDataCommand, UNCHANGED <<out, accepted>>
  PROVE  Balanced'
<1>1. PICK x, y \in Seq(Chunks) :
        /\ ChunksOf(Head(data)) = x \o y
        /\ UserPart(pending') = UserPart(pending) \o x
        /\ OwedEnter' = y
  BY TakenInput, Zenon
<1>2. data' = Tail(data)
  BY Zenon DEF HandleDataCommand
<1>3. ChunksOfAll(data) = (x \o y) \o ChunksOfAll(data')
  BY <1>1, <1>2, ChunksOfAllFacts, Zenon DEF Shapes
<1>4. ChunksOfAll(data') \in Seq(Chunks)
  <2>1. data' \in Seq(DataCommands)
    BY <1>2, HeadTail, Zenon DEF Shapes
  <2>. QED  BY <2>1, ChunksOfAllFacts, Zenon
<1>5. Kept(UserPart(out), UserPart(pending), <<>>, (x \o y) \o ChunksOfAll(data'),
           ChunksOfAll(accepted))
  BY <1>3, NothingOwed, Zenon DEF Balanced
<1>6. Kept(UserPart(out), UserPart(pending) \o x, y, ChunksOfAll(data'), ChunksOfAll(accepted))
  BY <1>4, <1>5, BalanceTypes, KeptTake, Zenon
<1>. QED  BY <1>1, <1>6, Zenon DEF Balanced

\* Writing the front of the queue moves it behind what was written.
LEMMA BalanceWrite ==
  ASSUME Shapes, Balanced, pending # <<>>, pending' = Tail(pending),
         out' = Append(out, Head(pending)), UNCHANGED <<data, accepted>>,
         OwedEnter' = OwedEnter
  PROVE  Balanced'
<1>1. /\ Head(pending) \in Chunks /\ Tail(pending) \in Seq(Chunks)
      /\ pending \in Seq(Chunks) /\ out \in Seq(Chunks)
  BY HeadTail, Zenon DEF Shapes
<1>2. /\ UserPart(pending) = Picked(Head(pending)) \o UserPart(pending')
      /\ UserPart(out') = UserPart(out) \o Picked(Head(pending))
      /\ UserPart(pending') \in Seq(Chunks)
  BY <1>1, UserPartFacts, Zenon
<1>3. Picked(Head(pending)) \in Seq(Chunks)
  BY <1>1, ChunksOfType, Zenon
<1>4. Kept(UserPart(out), Picked(Head(pending)) \o UserPart(pending'), OwedEnter,
           ChunksOfAll(data), ChunksOfAll(accepted))
  BY <1>2, Zenon DEF Balanced
<1>5. Kept(UserPart(out) \o Picked(Head(pending)), UserPart(pending'), OwedEnter,
           ChunksOfAll(data), ChunksOfAll(accepted))
  BY <1>2, <1>3, <1>4, BalanceTypes, KeptWrite, Zenon
<1>. QED  BY <1>2, <1>5, Zenon DEF Balanced

\* A step that leaves the user's part of the queue alone.
LEMMA BalanceKept ==
  ASSUME Balanced, UserPart(pending') = UserPart(pending),
         UNCHANGED <<out, active, data, accepted>>
  PROVE  Balanced'
<1>1. OwedEnter' = OwedEnter
  BY Zenon DEF OwedEnter
<1>. QED  BY <1>1, Zenon DEF Balanced

\* One read of the PTY queues responses only.
LEMMA ReadIsNoInput ==
  ASSUME Shapes, ReadOnce
  PROVE  UserPart(pending') = UserPart(pending)
<1>1. PICK n \in 0..1 : pending' = TakeResponses(pending) \o [i \in 1..n |-> Response]
  BY Zenon DEF ReadOnce
<1>2. n \in Nat
  OBVIOUS
<1>3. TakeResponses(pending) \in Seq(Chunks) /\ UserPart(TakeResponses(pending)) = UserPart(pending)
  BY TakeResponsesType, ResponsesAreNoInput, Zenon DEF Shapes, TakeResponses
<1>. QED  BY <1>1, <1>2, <1>3, ResponsesAreNoInput, Zenon

\* The boundary of a submission changes nothing about the Enter it owes.
LEMMA BoundaryOwesTheSame ==
  ASSUME Shapes, Boundaries, Alive, pending # <<>>, pending' = Tail(pending),
         CompleteBoundary(Head(pending).kind)
  PROVE  OwedEnter' = OwedEnter
<1>. DEFINE h == Head(pending)
<1>1. CASE ~IsBoundary(h)
  <2>1. UNCHANGED active
    BY <1>1, Zenon DEF CompleteBoundary, IsBoundary
  <2>. QED  BY <2>1, Zenon DEF OwedEnter
<1>2. CASE IsBoundary(h)
  <2>1. active = [id |-> h.id, phase |-> h.kind]
    BY <1>2, WriteBoundaries, Zenon
  <2>2. active # NoSubmission
    BY <1>2, <2>1 DEF IsBoundary, NoSubmission
  <2>3. CASE h.kind = "text"
    <3>1. active' = [active EXCEPT !.phase = "waiting"] /\ h.kind \in {"text", "enter"}
      BY <2>2, <2>3 DEF CompleteBoundary
    <3>2. /\ active'.id = active.id /\ active'.phase \in {"text", "waiting"}
          /\ active.phase \in {"text", "waiting"}
      BY <2>1, <2>3, <3>1
    <3>. QED  BY <3>2, Zenon DEF OwedEnter
  <2>4. CASE h.kind = "enter"
    <3>1. active' = NoSubmission
      BY <2>2, <2>4 DEF CompleteBoundary
    <3>2. active.phase \notin {"text", "waiting"} /\ active'.phase \notin {"text", "waiting"}
      BY <2>1, <2>4, <3>1 DEF NoSubmission
    <3>. QED  BY <3>2, Zenon DEF OwedEnter
  <2>. QED  BY <1>2, <2>3, <2>4, Zenon DEF IsBoundary
<1>. QED  BY <1>1, <1>2, Zenon

\* Queueing the Enter of the submission in progress settles what it owed.
LEMMA BalanceEnter ==
  ASSUME Shapes, Balanced, ScheduleEnter
  PROVE  Balanced'
<1>1. UNCHANGED <<out, data, accepted>>
  BY Zenon DEF ScheduleEnter, Outside
<1>2. CASE UNCHANGED <<active, pending>>
  BY <1>1, <1>2, BalanceKept, Zenon
<1>3. CASE active.phase = "waiting" /\ active.id \in EmptyEnter /\ active' = NoSubmission /\ UNCHANGED pending
  <2>1. active'.phase \notin {"text", "waiting"}
    BY <1>3 DEF NoSubmission
  <2>2. OwedEnter' = OwedEnter
    BY <1>3, <2>1, Zenon DEF OwedEnter
  <2>. QED  BY <1>1, <1>3, <2>2, Zenon DEF Balanced
<1>4. CASE /\ active.phase = "waiting" /\ active.id \notin EmptyEnter
           /\ active' = [active EXCEPT !.phase = "enter"]
           /\ pending' = Append(pending, [kind |-> "enter", id |-> active.id])
  <2>. DEFINE e == [kind |-> "enter", id |-> active.id]
  <2>1. active \in Submissions
    BY <1>4 DEF Shapes, NoSubmission
  <2>2. e \in Chunks /\ Picked(e) = <<e>>
    BY <2>1 DEF Submissions, Chunks, Picked, UserChunk
  <2>3. active.phase \in {"text", "waiting"} /\ active'.phase \notin {"text", "waiting"}
    BY <1>4, <2>1 DEF Submissions
  <2>4. OwedEnter = <<e>> /\ OwedEnter' = <<>>
    BY <1>4, <2>3, Zenon DEF OwedEnter
  <2>. HIDE DEF e
  <2>5. UserPart(pending') = UserPart(pending) \o OwedEnter
    BY <1>4, <2>2, <2>4, UserPartFacts, Zenon DEF Shapes, e
  <2>6. Kept(UserPart(out), UserPart(pending) \o OwedEnter, <<>>, ChunksOfAll(data), ChunksOfAll(accepted))
    BY BalanceTypes, KeptEnter, Zenon DEF Balanced
  <2>. QED  BY <1>1, <2>4, <2>5, <2>6, Zenon DEF Balanced
<1>. QED  BY <1>2, <1>3, <1>4, Zenon DEF ScheduleEnter

\* Every step of a living actor, its clients and the handoff driver keeps the balance.
LEMMA BalancedStep ==
  Shapes /\ Input /\ Boundaries /\ Owned /\ InputConserved /\ [Next]_vars => InputConserved'
<1>. SUFFICES ASSUME Shapes, Input, Boundaries, Owned, InputConserved, [Next]_vars
              PROVE  InputConserved'
  OBVIOUS
<1>0. /\ (Alive /\ ~failed => Balanced) <=> InputConserved
      /\ (Alive' /\ ~failed' => Balanced') <=> InputConserved'
  BY Zenon DEF InputConserved, Balanced, Kept
<1>1. ASSUME Alive, UNCHANGED failed, Balanced => Balanced' PROVE InputConserved'
  BY <1>0, <1>1, Zenon
<1>2. CASE UNCHANGED inputVars /\ (pc' = pc \/ Alive)
  <2>1. /\ UNCHANGED <<out, active, data, accepted, failed>>
        /\ UserPart(pending') = UserPart(pending) /\ (Alive' => Alive)
    BY <1>2, Zenon DEF inputVars, Alive
  <2>. QED  BY <1>0, <2>1, BalanceKept, Zenon
<1>3. ASSUME NEW c \in DataCommands, SendData(c) PROVE InputConserved'
  <2>1. (Alive' => Alive) /\ UNCHANGED failed
    BY <1>3, Zenon DEF SendData, historyVars, Alive
  <2>. QED  BY <1>0, <1>3, <2>1, BalanceSend, Zenon
<1>4. CASE HandleRelease
  <2>1. ~Alive'
    BY <1>4, Zenon DEF HandleRelease, Alive
  <2>. QED  BY <1>0, <2>1, Zenon
<1>5. CASE DrainData \/ PreDrain
  <2>1. pc \in {"data", "preDrain"} /\ UNCHANGED <<out, accepted, failed>>
    BY <1>5, Zenon DEF DrainData, PreDrain, Outside
  <2>2. Alive
    BY <2>1 DEF Alive
  <2>3. \/ UNCHANGED <<data, pending, active>>
        \/ data # <<>> /\ active = NoSubmission /\ HandleDataCommand
    BY <1>5, Zenon DEF DrainData, PreDrain
  <2>4. CASE UNCHANGED <<data, pending, active>>
    BY <1>1, <2>1, <2>2, <2>4, BalanceKept, Zenon
  <2>5. CASE data # <<>> /\ active = NoSubmission /\ HandleDataCommand
    <3>1. state = "Running"
      BY <2>2, <2>5 DEF Shapes, Owned, Input, QuiescedHoldsNoInput
    <3>. QED  BY <1>1, <2>1, <2>2, <2>5, <3>1, BalanceTake, Zenon
  <2>. QED  BY <2>3, <2>4, <2>5, Zenon
<1>6. CASE StartDrain \/ ApplyPendingControls
  <2>1. /\ pc \in {"begin", "apply"} /\ UNCHANGED <<out, active, data, accepted, failed>>
        /\ pending' = TakeResponses(pending)
    BY <1>6, Zenon DEF StartDrain, ApplyPendingControls, Outside, historyVars
  <2>2. Alive
    BY <2>1 DEF Alive
  <2>3. UserPart(pending') = UserPart(pending)
    BY <2>1, ResponsesAreNoInput, Zenon DEF TakeResponses, Shapes
  <2>. QED  BY <1>1, <2>1, <2>2, <2>3, BalanceKept, Zenon
<1>7. CASE DrainStep
  <2>1. pc = "drainWrites" /\ UNCHANGED <<active, data, accepted, failed>>
    BY <1>7, Zenon DEF DrainStep, Outside
  <2>2. Alive
    BY <2>1 DEF Alive
  <2>3. \/ UNCHANGED <<pending, out>>
        \/ pending # <<>> /\ pending' = Tail(pending) /\ out' = Append(out, Head(pending))
        \/ ReadOnce /\ UNCHANGED out
    BY <1>7, Zenon DEF DrainStep, WriteChunk
  <2>4. CASE UNCHANGED <<pending, out>>
    BY <1>1, <2>1, <2>2, <2>4, BalanceKept, Zenon
  <2>5. CASE pending # <<>> /\ pending' = Tail(pending) /\ out' = Append(out, Head(pending))
    <3>1. OwedEnter' = OwedEnter
      BY <2>1, Zenon DEF OwedEnter
    <3>. QED  BY <1>1, <2>1, <2>2, <2>5, <3>1, BalanceWrite, Zenon
  <2>6. CASE ReadOnce /\ UNCHANGED out
    BY <1>1, <2>1, <2>2, <2>6, ReadIsNoInput, BalanceKept, Zenon
  <2>. QED  BY <2>3, <2>4, <2>5, <2>6, Zenon
<1>8. CASE DrainFails
  <2>1. pc = "drainWrites" /\ UNCHANGED <<out, active, data, accepted>>
    BY <1>8, Zenon DEF DrainFails, Outside
  <2>2. Alive
    BY <2>1 DEF Alive
  <2>3. UNCHANGED <<pending, failed>> \/ failed' = TRUE
    BY <1>8, Zenon DEF DrainFails
  <2>4. CASE UNCHANGED <<pending, failed>>
    BY <1>1, <2>1, <2>2, <2>4, BalanceKept, Zenon
  <2>5. CASE failed' = TRUE
    BY <1>0, <2>5, Zenon
  <2>. QED  BY <2>3, <2>4, <2>5, Zenon
<1>9. CASE FlushStep
  <2>1. pc = "flush" /\ UNCHANGED <<data, accepted, failed>>
    BY <1>9, Zenon DEF FlushStep, Outside
  <2>2. Alive
    BY <2>1 DEF Alive
  <2>3. \/ UNCHANGED <<pending, out, active>>
        \/ /\ pending # <<>> /\ pending' = Tail(pending) /\ out' = Append(out, Head(pending))
           /\ CompleteBoundary(Head(pending).kind)
    BY <1>9, Zenon DEF FlushStep, WriteChunk
  <2>4. CASE UNCHANGED <<pending, out, active>>
    BY <1>1, <2>1, <2>2, <2>4, BalanceKept, Zenon
  <2>5. CASE /\ pending # <<>> /\ pending' = Tail(pending) /\ out' = Append(out, Head(pending))
             /\ CompleteBoundary(Head(pending).kind)
    <3>1. OwedEnter' = OwedEnter
      BY <2>2, <2>5, BoundaryOwesTheSame, Zenon
    <3>. QED  BY <1>1, <2>1, <2>2, <2>5, <3>1, BalanceWrite, Zenon
  <2>. QED  BY <2>3, <2>4, <2>5, Zenon
<1>10. CASE FlushFails
  BY <1>0, <1>10, Zenon DEF FlushFails
<1>11. CASE ScheduleEnter
  <2>1. pc = "schedule" /\ UNCHANGED failed
    BY <1>11, Zenon DEF ScheduleEnter
  <2>2. Alive
    BY <2>1 DEF Alive
  <2>. QED  BY <1>1, <1>11, <2>1, <2>2, BalanceEnter, Zenon
<1>12. CASE PollReady
  <2>1. /\ pc = "poll" /\ UNCHANGED <<out, active, data, accepted, failed>>
        /\ ReadOnce \/ UNCHANGED pending
    BY <1>12, Zenon DEF PollReady, Outside, historyVars
  <2>2. Alive
    BY <2>1 DEF Alive
  <2>3. UserPart(pending') = UserPart(pending)
    BY <2>1, ReadIsNoInput, Zenon
  <2>. QED  BY <1>1, <2>1, <2>2, <2>3, BalanceKept, Zenon
<1>13. CASE CloseInputQueue
  <2>1. ~Alive'
    BY <1>13, Zenon DEF CloseInputQueue, Alive
  <2>. QED  BY <1>0, <2>1, Zenon
<1>14. (\E w \in Writes : TryWriteUserInput(w)) \/ (\E s \in Subs : QueueUserInputSubmission(s))
         => \E c \in DataCommands : SendData(c)
  BY DEF TryWriteUserInput, QueueUserInputSubmission, DataCommands
<1>. QED
  BY Zenon, OthersMoveNothing, <1>2, <1>3, <1>4, <1>5, <1>6, <1>7, <1>8, <1>9, <1>10, <1>11,
     <1>12, <1>13, <1>14 DEF MovesInput

(* While the actor lives and no PTY write has failed, what was accepted is  *)
(* what was written, then what waits to be, then the Enter that is owed,   *)
(* then the data channel: nothing is lost, duplicated or reordered through *)
(* any number of writes, submissions, handoffs, timeouts and rollbacks.    *)
THEOREM InputIsConserved == Spec => []InputConserved
<1>1. Init => InputConserved /\ Owned
  <2>. SUFFICES ASSUME Init PROVE InputConserved /\ Owned
    OBVIOUS
  <2>1. out = <<>> /\ pending = <<>> /\ data = <<>> /\ accepted = <<>> /\ active = NoSubmission
    BY Zenon DEF Init
  <2>2. Owned
    BY DEF Init, Owned
  <2>3. UserPart(<<>>) = <<>> /\ ChunksOfAll(<<>>) = <<>> /\ OwedEnter = <<>>
    BY <2>1, NothingOwed, UserPartFacts, ChunksOfAllFacts, Zenon
  <2>4. ((<<>> \o <<>>) \o <<>>) \o <<>> = <<>>
    OBVIOUS
  <2>. QED  BY <2>1, <2>2, <2>3, <2>4, Zenon DEF InputConserved
<1>2. Shapes /\ Input /\ Boundaries /\ InputConserved /\ Owned /\ [Next]_vars
        => InputConserved' /\ Owned'
  BY BalancedStep, OwnedStep, Zenon
<1>. QED  BY <1>1, <1>2, Invariant, Submitted, PTL DEF Spec

-----------------------------------------------------------------------------
(* Nobody is left waiting. *)

\* An accepted submission is in the channel, in progress or answered; an actor
\* that has exited holds none and takes none.
Accounted ==
  /\ \A s \in Subs : IsAccepted(s) => Queued(s) \/ active.id = s \/ replies[s] # "none"
  /\ pc = "exited" => dataClosed /\ data = <<>> /\ active = NoSubmission

\* A step that takes nothing from the channel and ends no submission.
LEMMA AccountKept ==
  ASSUME Accounted, UNCHANGED <<data, accepted, dataClosed>>, active'.id = active.id,
         \A s \in Subs : replies[s] # "none" => replies'[s] # "none",
         pc' = "exited" => pc = "exited" /\ UNCHANGED active
  PROVE  Accounted'
<1>1. \A s : (Queued(s)' <=> Queued(s)) /\ (IsAccepted(s)' <=> IsAccepted(s))
  BY Zenon DEF Queued, IsAccepted
<1>. QED  BY <1>1, Zenon DEF Accounted

\* A step that ends the submission in progress and answers it.
LEMMA AccountAnswered ==
  ASSUME Accounted, UNCHANGED <<data, accepted>>, pc' # "exited",
         \A s \in Subs : replies[s] # "none" \/ s = active.id => replies'[s] # "none"
  PROVE  Accounted'
<1>1. \A s : (Queued(s)' <=> Queued(s)) /\ (IsAccepted(s)' <=> IsAccepted(s))
  BY Zenon DEF Queued, IsAccepted
<1>. QED  BY <1>1, Zenon DEF Accounted

\* A command taken from the channel is in progress or answered at once.
LEMMA AccountTaken ==
  ASSUME Shapes, Accounted, data # <<>>, active = NoSubmission, HandleDataCommand,
         UNCHANGED accepted, pc' # "exited"
  PROVE  Accounted'
<1>. DEFINE c == Head(data)
<1>1. c \in DataCommands /\ data' = Tail(data)
  BY HeadTail, Zenon DEF Shapes, HandleDataCommand
<1>2. \A id : IsAccepted(id)' <=> IsAccepted(id)
  BY Zenon DEF IsAccepted
<1>3. \A id : Queued(id) => Queued(id)' \/ id = c.id
  <2>1. SUFFICES ASSUME NEW i \in 1..Len(data), i # 1 PROVE \E j \in 1..Len(data') : data'[j] = data[i]
    <3>1. Head(data) = data[1]
      BY DEF Shapes
    <3>. QED  BY <2>1, <3>1, Zenon DEF Queued
  <2>2. i - 1 \in 1..Len(data') /\ data'[i - 1] = data[i]
    BY <1>1, <2>1 DEF Shapes
  <2>. QED  BY <2>2, Zenon
<1>4. ASSUME NEW s \in Subs PROVE active.id # s
  BY ConstantsAssumption DEF NoSubmission
<1>5. ASSUME NEW s \in Subs, s = c.id PROVE c.op = "submit"
  BY <1>1, <1>5, ConstantsAssumption DEF DataCommands
<1>6. ASSUME NEW s \in Subs
      PROVE  /\ replies[s] # "none" => replies'[s] # "none"
             /\ s = c.id => active'.id = s \/ replies'[s] # "none"
  <2>1. CASE state # "Running"
    <3>1. replies'[s] = IF c.op = "submit" /\ s = c.id THEN "err" ELSE replies[s]
      BY <2>1, Zenon DEF HandleDataCommand
    <3>. QED  BY <1>5, <3>1
  <2>2. CASE state = "Running"
    <3>1. replies' = replies
      BY <2>2, Zenon DEF HandleDataCommand
    <3>2. s = c.id => active'.id = s
      <4>1. ASSUME s = c.id PROVE active'.id = s
        <5>1. c.op # "write"
          BY <1>5, <4>1
        <5>2. active' = [id |-> c.id, phase |-> IF c.id \in EmptyText THEN "waiting" ELSE "text"]
          BY <2>2, <5>1, Zenon DEF HandleDataCommand
        <5>. QED  BY <4>1, <5>2
      <4>. QED  BY <4>1
    <3>. QED  BY <3>1, <3>2, Zenon
  <2>. QED  BY <2>1, <2>2, Zenon
<1>. QED  BY <1>2, <1>3, <1>4, <1>6, Zenon DEF Accounted

\* close_input_queue answers what is in progress and what is in the channel.
LEMMA AccountClosed ==
  ASSUME Shapes, Accounted, CloseInputQueue
  PROVE  Accounted'
<1>1. /\ UNCHANGED accepted /\ dataClosed' = TRUE /\ data' = <<>> /\ active' = NoSubmission
      /\ replies' = [s \in Subs |->
           IF s = active.id \/ \E i \in 1..Len(data) : data[i] = [op |-> "submit", id |-> s]
           THEN "err" ELSE replies[s]]
  BY Zenon DEF CloseInputQueue, Outside
<1>2. \A id : IsAccepted(id)' <=> IsAccepted(id)
  BY <1>1, Zenon DEF IsAccepted
<1>3. ASSUME NEW s \in Subs, Queued(s)
      PROVE  \E i \in 1..Len(data) : data[i] = [op |-> "submit", id |-> s]
  <2>1. PICK i \in 1..Len(data) : data[i].id = s
    BY <1>3, Zenon DEF Queued
  <2>2. data[i] \in DataCommands
    BY DEF Shapes
  <2>3. data[i] = [op |-> "submit", id |-> s]
    BY <2>1, <2>2, ConstantsAssumption DEF DataCommands
  <2>. QED  BY <2>3, Zenon
<1>4. ASSUME NEW s \in Subs, IsAccepted(s) PROVE replies'[s] # "none"
  <2>1. replies'[s] = "err" \/ (replies'[s] = replies[s] /\ s # active.id /\ ~Queued(s))
    BY <1>1, <1>3, Zenon
  <2>2. CASE replies'[s] = "err"
    BY <2>2
  <2>3. CASE replies'[s] = replies[s] /\ s # active.id /\ ~Queued(s)
    BY <1>4, <2>3, Zenon DEF Accounted
  <2>. QED  BY <2>1, <2>2, <2>3, Zenon
<1>. QED  BY <1>1, <1>2, <1>4, Zenon DEF Accounted

\* Only close_input_queue closes the channel, and the thread ends there.
LEMMA OnlyCloseExits ==
  ASSUME Shapes, [Next]_vars
  PROVE  CloseInputQueue \/ (UNCHANGED dataClosed /\ (pc' = "exited" => pc = "exited"))
<1>. DEFINE Stays == UNCHANGED dataClosed /\ (pc' = "exited" => pc = "exited")
<1>0. back # "exited"
  BY DEF Shapes
<1>1. CASE Client
  BY <1>1, Zenon DEF Client, TryWriteUserInput, QueueUserInputSubmission, SendData, WriteTerminalResponse
<1>2. CASE Driver
  BY <1>2, Zenon DEF Driver, BeginHandoff, BeginFails, DuplicateForHandoff, RollbackHandoff,
     SendRollback, ReleaseAfterCommit, Shutdown, DriverReceives, DriverTimesOut
<1>3. ASSUME UNCHANGED dataClosed,
             \/ pc' = back \/ pc' = pc
             \/ pc' \in {"control", "data", "preDrain", "begin", "drainWrites", "apply", "flush",
                        "poll", "exit"}
      PROVE  Stays
  BY <1>0, <1>3
<1>. HIDE DEF Stays
<1>4. CASE HandleBegin \/ HandleDuplicate \/ HandleRollback \/ HandleRelease \/ HandleShutdown
  BY <1>3, <1>4, Zenon DEF HandleBegin, HandleDuplicate, HandleRollback, HandleRelease, HandleShutdown
<1>5. CASE ControlDrained \/ DrainData \/ PreDrain
  <2>1. CASE ControlDrained
    BY <1>3, <2>1, Zenon DEF ControlDrained, Stays
  <2>2. CASE DrainData
    BY <1>3, <2>2, Zenon DEF DrainData, Stays
  <2>3. CASE PreDrain
    BY <1>3, <2>3, Zenon DEF PreDrain, Stays
  <2>. QED  BY <1>5, <2>1, <2>2, <2>3, Zenon
<1>6. CASE StartDrain \/ DrainStep \/ Quiesce \/ DrainFails \/ ApplyPendingControls
  <2>1. CASE StartDrain
    BY <1>3, <2>1, Zenon DEF StartDrain, Stays
  <2>2. CASE DrainStep
    BY <1>3, <2>2, Zenon DEF DrainStep, Stays
  <2>3. CASE Quiesce
    BY <1>3, <2>3, Zenon DEF Quiesce, Stays
  <2>4. CASE DrainFails
    BY <1>3, <2>4, Zenon DEF DrainFails, Stays
  <2>5. CASE ApplyPendingControls
    BY <1>3, <2>5, Zenon DEF ApplyPendingControls, Stays
  <2>. QED  BY <1>6, <2>1, <2>2, <2>3, <2>4, <2>5, Zenon
<1>7. CASE FlushStep \/ FlushFails \/ ScheduleEnter
  <2>1. CASE FlushStep
    BY <1>3, <2>1, Zenon DEF FlushStep, Stays
  <2>2. CASE FlushFails
    BY <1>3, <2>2, Zenon DEF FlushFails, Stays
  <2>3. CASE ScheduleEnter
    BY <1>3, <2>3, Zenon DEF ScheduleEnter, Stays
  <2>. QED  BY <1>7, <2>1, <2>2, <2>3, Zenon
<1>8. CASE PollWake \/ PollReady \/ PollFails
  BY <1>3, <1>8, Zenon DEF PollWake, PollReady, PollFails
<1>9. CASE UNCHANGED vars
  BY <1>9, Zenon DEF vars, Stays
<1>. QED
  BY <1>1, <1>2, <1>4, <1>5, <1>6, <1>7, <1>8, <1>9, Zenon DEF Next, Actor, Stays

\* Every step keeps the accounts.
LEMMA AccountedStep ==
  Shapes /\ Accounted /\ [Next]_vars => Accounted'
<1>. SUFFICES ASSUME Shapes, Accounted, [Next]_vars PROVE Accounted'
  OBVIOUS
<1>1. CASE CloseInputQueue
  BY <1>1, AccountClosed, Zenon
<1>. SUFFICES ASSUME ~CloseInputQueue PROVE Accounted'
  BY <1>1, Zenon
<1>2. UNCHANGED dataClosed /\ (pc' = "exited" => pc = "exited")
  BY OnlyCloseExits, Zenon
<1>3. ASSUME UNCHANGED <<data, accepted, active, replies>> PROVE Accounted'
  BY <1>2, <1>3, AccountKept, Zenon
<1>4. ASSUME pc # "exited", UNCHANGED <<data, accepted, replies>>, active'.id = active.id PROVE Accounted'
  BY <1>2, <1>4, AccountKept, Zenon
<1>5. ASSUME NEW c \in DataCommands, SendData(c) PROVE Accounted'
  <2>1. /\ UNCHANGED <<active, replies>>
        /\ \A id : IsAccepted(id)' <=> IsAccepted(id) \/ id = c.id
        /\ \A id : Queued(id)' <=> Queued(id) \/ id = c.id
    BY <1>5, SendFacts, Zenon
  <2>2. pc # "exited" /\ pc' = pc
    BY <1>5, Zenon DEF SendData, Accounted
  <2>. QED  BY <2>1, <2>2, Zenon DEF Accounted
<1>6. CASE DrainData \/ PreDrain
  <2>1. pc \in {"data", "preDrain"} /\ UNCHANGED accepted
    BY <1>6, Zenon DEF DrainData, PreDrain, Outside
  <2>2. pc' # "exited"
    BY <1>2, <2>1
  <2>3. \/ UNCHANGED <<data, active, replies>>
        \/ data # <<>> /\ active = NoSubmission /\ HandleDataCommand
    BY <1>6, Zenon DEF DrainData, PreDrain
  <2>. QED  BY <1>3, <2>1, <2>2, <2>3, AccountTaken, Zenon
<1>7. CASE HandleRelease \/ StartDrain \/ DrainStep \/ DrainFails \/ ApplyPendingControls \/ PollReady
  BY <1>3, <1>7, Zenon DEF HandleRelease, StartDrain, DrainStep, DrainFails, ApplyPendingControls,
     PollReady, Outside, historyVars
<1>8. CASE FlushStep
  <2>1. pc = "flush" /\ UNCHANGED <<data, accepted>>
    BY <1>8, Zenon DEF FlushStep, Outside
  <2>2. pc # "exited" /\ pc' # "exited"
    BY <1>2, <2>1
  <2>3. \/ UNCHANGED <<active, replies>>
        \/ active' = [active EXCEPT !.phase = "waiting"] /\ UNCHANGED replies /\ active # NoSubmission
        \/ replies' = [replies EXCEPT ![active.id] = "ok"]
    BY <1>8, Zenon DEF FlushStep, CompleteBoundary
  <2>4. CASE active' = [active EXCEPT !.phase = "waiting"] /\ UNCHANGED replies /\ active # NoSubmission
    <3>1. active'.id = active.id
      BY <2>4 DEF Shapes, Submissions
    <3>. QED  BY <1>4, <2>1, <2>2, <2>4, <3>1, Zenon
  <2>5. CASE replies' = [replies EXCEPT ![active.id] = "ok"]
    <3>1. \A s \in Subs : replies[s] # "none" \/ s = active.id => replies'[s] # "none"
      BY <2>5 DEF Shapes
    <3>. QED  BY <2>1, <2>2, <3>1, AccountAnswered, Zenon
  <2>. QED  BY <1>3, <2>1, <2>3, <2>4, <2>5, Zenon
<1>9. CASE FlushFails
  <2>1. /\ pc' = "exit" /\ UNCHANGED <<data, accepted>>
        /\ replies' = [s \in Subs |-> IF s = active.id THEN "err" ELSE replies[s]]
    BY <1>9, Zenon DEF FlushFails, Outside
  <2>2. pc' # "exited" /\ \A s \in Subs : replies[s] # "none" \/ s = active.id => replies'[s] # "none"
    BY <2>1
  <2>. QED  BY <2>1, <2>2, AccountAnswered, Zenon
<1>10. CASE ScheduleEnter
  <2>1. pc = "schedule" /\ UNCHANGED <<data, accepted>>
    BY <1>10, Zenon DEF ScheduleEnter, Outside
  <2>2. pc # "exited" /\ pc' # "exited"
    BY <1>2, <2>1
  <2>3. \/ UNCHANGED <<active, replies>>
        \/ active.phase = "waiting" /\ replies' = [replies EXCEPT ![active.id] = "ok"]
        \/ active.phase = "waiting" /\ active' = [active EXCEPT !.phase = "enter"] /\ UNCHANGED replies
    BY <1>10, Zenon DEF ScheduleEnter
  <2>4. CASE active.phase = "waiting" /\ active' = [active EXCEPT !.phase = "enter"] /\ UNCHANGED replies
    <3>1. active'.id = active.id
      BY <2>4 DEF Shapes, Submissions, NoSubmission
    <3>. QED  BY <1>4, <2>1, <2>2, <2>4, <3>1, Zenon
  <2>5. CASE replies' = [replies EXCEPT ![active.id] = "ok"]
    <3>1. \A s \in Subs : replies[s] # "none" \/ s = active.id => replies'[s] # "none"
      BY <2>5 DEF Shapes
    <3>. QED  BY <2>1, <2>2, <3>1, AccountAnswered, Zenon
  <2>. QED  BY <1>3, <2>1, <2>3, <2>4, <2>5, Zenon
<1>11. CASE UNCHANGED inputVars
  BY <1>3, <1>11, Zenon DEF inputVars
<1>12. (\E w \in Writes : TryWriteUserInput(w)) \/ (\E s \in Subs : QueueUserInputSubmission(s))
         => \E c \in DataCommands : SendData(c)
  BY DEF TryWriteUserInput, QueueUserInputSubmission, DataCommands
<1>. QED
  BY Zenon, OthersMoveNothing, <1>5, <1>6, <1>7, <1>8, <1>9, <1>10, <1>11, <1>12 DEF MovesInput

(* When the actor's thread has ended, by shutdown, release, a failed write, *)
(* read or poll, every submission it ever accepted has been answered.      *)
THEOREM ExitLeavesNobodyWaiting == Spec => []ExitAnswersAll
<1>1. Init => Accounted
  <2>. SUFFICES ASSUME Init PROVE Accounted
    OBVIOUS
  <2>1. accepted = <<>> /\ pc = "control"
    BY Zenon DEF Init
  <2>2. 1..Len(accepted) = {} /\ pc # "exited"
    BY <2>1
  <2>. QED  BY <2>2, Zenon DEF Accounted, IsAccepted
<1>2. Shapes /\ Accounted => ExitAnswersAll
  <2>. SUFFICES ASSUME Shapes, Accounted, pc = "exited"
                PROVE  dataClosed /\ \A s \in Subs : IsAccepted(s) => replies[s] # "none"
    BY Zenon DEF ExitAnswersAll
  <2>1. data = <<>> /\ active = NoSubmission /\ dataClosed
    BY Zenon DEF Accounted
  <2>2. 1..Len(data) = {} /\ \A s \in Subs : active.id # s
    BY <2>1, ConstantsAssumption DEF NoSubmission
  <2>. QED  BY <2>1, <2>2, Zenon DEF Accounted, Queued
<1>. QED  BY <1>1, <1>2, AccountedStep, Invariant, PTL DEF Spec
====
