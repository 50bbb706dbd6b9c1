----------------------------- MODULE ApiServer -----------------------------
(* One connection to the API socket, beside the main thread: the request it   *)
(* carries is handled by the stream or wait of Subscriptions or by the wait   *)
(* of AgentWait (handle_connection_with_stop, runtime/src/api/server.rs).     *)
EXTENDS Subscriptions, AgentWait

vars == <<hub, app, thread, subVars, waitVars>>

NoScenario == [subs |-> <<>>, waiting |-> "no", may |-> {}, changes |-> 0]
NoRequest == [method |-> "wait", until |-> {}, timed |-> "no", may |-> {}, changes |-> 0]

\* The request's method selects the handler.
Init ==
  /\ CallsInit
  /\ \/ \E sc \in Scenarios :
          AppInit(sc.may, sc.changes) /\ pc = "accept" /\ SubInit(sc) /\ WaitInit(NoRequest)
     \/ \E rq \in Requests :
          AppInit(rq.may, rq.changes) /\ pc = "ask" /\ SubInit(NoScenario) /\ WaitInit(rq)

\* A step of the main thread by itself.  What it does after the end of the
\* connection is cut off.
Main ==
  /\ outcome = "open" /\ AppStep
  /\ IF subs = <<>> THEN Witness ELSE UNCHANGED past
  /\ UNCHANGED <<thread, subVars, request, wait, submitted>>

\* A request of the connection is answered, or has waited for too long.
AppReplies == (Answer \/ \E e \in LateErrors : AnswerLate(e)) /\ UNCHANGED <<subVars, waitVars>>

Handler == (SubStep /\ UNCHANGED waitVars) \/ (WaitStep /\ UNCHANGED subVars)

Next == Main \/ AppReplies \/ Handler

Spec == Init /\ [][Next]_vars

\* Both threads run: the main thread finishes the handler it is in and answers,
\* the connection's thread goes on, and time passes.  Nothing is promised of
\* agents, users, clients, or of the typing of a prompt.
FairSpec ==
  /\ Spec
  /\ WF_vars(Main /\ EmitNext)
  /\ WF_vars(Answer /\ UNCHANGED <<subVars, waitVars>>)
  /\ WF_vars(AcceptPrompt /\ UNCHANGED subVars)
  /\ WF_vars(SubRun /\ UNCHANGED waitVars)
  /\ WF_vars(WaitRun /\ UNCHANGED subVars)
  /\ WF_vars(DeadlinePasses /\ UNCHANGED subVars)

TypeOK == AppTypeOK /\ CallsTypeOK /\ SubTypeOK /\ WaitTypeOK
=============================================================================
