------------------------------ MODULE ApiCalls ------------------------------
(* What the handlers of one API connection share (runtime/src/api/server.rs): *)
(* the thread of the connection sends a request to the main thread and waits  *)
(* for its answer (dispatch_to_app).  Connections do not affect one another,  *)
(* so one of them is enough.                                                  *)
EXTENDS EventHub

CONSTANT Timeouts \* bound: answers of the main thread that come too late

ASSUME CallsAssumption == Timeouts \in Nat

VARIABLES
  pc,      \* where the connection's thread is
  call,    \* the request that is out: "pane", "read", "agent", "prompt" or "none"
  reply,   \* its answer: a set of at most one
  outcome, \* how the connection ended, or "open"
  timeouts \* what remains of Timeouts

calls == <<call, reply, timeouts>>
thread == <<pc, calls, outcome>>

Errors == {"not_found", "server_unavailable", "timeout", "blocked", "not_ready", "prompt_failed"}

\* An answer is an error, or the pane as the main thread had it; "seq" is the
\* place in the history it was given at, and only properties look at it.
Replies == [err : Errors \cup {"none"}, pane : Panes, seq : Nat]

Reply(err) == reply' = {[err |-> err, pane |-> pane, seq |-> nextSequence]}

CallsInit == call = "none" /\ reply = {} /\ outcome = "open" /\ timeouts = Timeouts

At(label) == pc = label /\ outcome = "open"

End(why) == outcome' = why /\ pc' = "ended"

Ask(what) == call' = what /\ reply' = {} /\ UNCHANGED timeouts

Answered == reply # {}
TheReply == CHOOSE r \in reply : TRUE
Taken == call' = "none" /\ reply' = {} /\ UNCHANGED timeouts

\* handle_pane_get, handle_pane_read and handle_agent_get; resolve_agent_target
\* finds the pane only while it hosts an agent.
Found(what) == pane.open = "yes" /\ (what = "agent" => pane.agent # NoAgent)

\* The main thread answers between two of its handlers.
Answer ==
  /\ call \in {"pane", "read", "agent"} /\ reply = {} /\ pending = <<>>
  /\ Reply(IF Found(call) THEN "none" ELSE "not_found")
  /\ UNCHANGED <<hub, app, pc, call, outcome, timeouts>>

\* recv_timeout gives up; a later answer goes to a channel nobody reads.
AnswerLate(err) ==
  /\ call \in {"pane", "read", "agent"} /\ reply = {} /\ timeouts > 0
  /\ timeouts' = timeouts - 1 /\ Reply(err)
  /\ UNCHANGED <<hub, app, pc, call, outcome>>

\* Where a connection's thread can be, by handler, and how it can end.
Labels == {"accept", "new", "probe", "poll", "sample", "quiet", "snapshot", "write",
           "ask", "first", "before", "position", "prompted", "loop", "again", "check", "last", "ended"}
Outcomes == {"open", "gone", "rejected", "lost", "matched", "success", "not_running", "stalled"} \cup Errors

CallsTypeOK ==
  /\ pc \in Labels /\ outcome \in Outcomes
  /\ call \in {"pane", "read", "agent", "prompt", "none"}
  /\ reply \in SUBSET Replies /\ timeouts \in Nat
=============================================================================
