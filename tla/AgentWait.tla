----------------------------- MODULE AgentWait -----------------------------
(* A connection that waits for an agent's status (agent.wait) or prompts an   *)
(* agent and waits (agent.prompt): runtime/src/api/wait.rs, and the prompt's  *)
(* handler in app/api/agents.rs.  The target is a pane by its public id, and  *)
(* its agent has no name.                                                     *)
EXTENDS ApiCalls, FiniteSetsExt

CONSTANT Requests \* what a client asks for, and what happens meanwhile

VARIABLES
  request,   \* the request: method, statuses waited for, whether it has a timeout
  phase,     \* the call of wait_for_resolved_agent: "wait", "gate" or "settle"
  base,      \* last_event_sequence as the request took it
  pos,       \* last_event_sequence in the loop
  expected,  \* expected_agent: the label that is pinned
  matched,   \* matched_event_status: a set of at most one
  after,     \* after_state_change_seq of the activity gate
  begun,     \* prompt_started_working
  due,       \* "yes" once the deadline of the phase has passed
  submitted, \* the agent of a prompt on its way to the terminal: at most one
  answer,    \* the status of a success: at most one
  held,      \* history: who had which status since the request began
  departed,  \* history: "yes" if an agent has left or exited since
  swapped,   \* history: "yes" if one had left before the agent was pinned
  missed     \* history: "yes" if events were evicted before the loop read them

wait == <<phase, base, pos, expected, matched, after, begun, due, answer>>
past == <<held, departed, swapped, missed>>
waitVars == <<request, wait, submitted, past>>

RequestTypes == [method : {"wait", "prompt"}, until : SUBSET Statuses, timed : {"yes", "no"},
                 may : SUBSET Kinds, changes : Nat]

ASSUME RequestAssumption == Requests \subseteq RequestTypes

WaitInit(rq) ==
  /\ request = rq /\ phase = "wait" /\ base = 0 /\ pos = 0
  /\ expected = NoAgent /\ matched = {} /\ after = 0 /\ begun = "no" /\ due = "no"
  /\ submitted = {} /\ answer = {} /\ held = {} /\ departed = "no" /\ swapped = "no" /\ missed = "no"

Active == {"working", "blocked"}

\* agent_wait_statuses and prompt_activity_statuses.
Settled == IF request.until = {} THEN {"idle", "done", "blocked"} ELSE request.until
Until == IF phase = "gate" THEN Active ELSE Settled

\* Who a status belongs to: an agent that leaves still has its final one.
Holding(p, q) == [agent |-> IF q.agent = NoAgent THEN p.agent ELSE q.agent, status |-> Status(q)]

\* An event that tells a status: a change of it, or the final one of an agent.
Tells(ev) == ev.kind = "status" \/ ev.released = "yes"

\* The statuses that a handler is about to announce.
Announced(evs) ==
  {[agent |-> evs[k].agent, status |-> evs[k].status] : k \in {k \in DOMAIN evs : Tells(evs[k])}}

\* The history of the request begins.
Begin == held' = {Holding(pane, pane)} \cup Announced(pending) /\ departed' = pane.exited /\ UNCHANGED <<swapped, missed>>

\* The main thread's steps, as the history of the request sees them.
Witness ==
  /\ held' = IF pc = "ask" THEN held ELSE held \cup {Holding(pane, pane')} \cup Announced(pending')
  /\ departed' = IF pc # "ask" /\ (pane'.agent # pane.agent \/ pane'.exited = "yes" \/ pane'.open = "no")
                 THEN "yes" ELSE departed
  /\ UNCHANGED <<swapped, missed>>

----------------------------------------------------------------------------
(* wait_for_agent *)

\* Mutant: the wait begins with all of the history.
WaitStartFromZero ==
  /\ At("ask") /\ request.method = "wait" /\ pc' = "first"
  /\ base' = 0 /\ pos' = 0 /\ Ask("agent") /\ Begin
  /\ UNCHANGED <<hub, app, outcome, request, phase, expected, matched, after, begun, due, submitted, answer>>

\* The position in the history is read before the agent is.
WaitStart ==
  /\ At("ask") /\ request.method = "wait" /\ pc' = "first"
  /\ base' = nextSequence /\ pos' = nextSequence /\ Ask("agent") /\ Begin
  /\ UNCHANGED <<hub, app, outcome, request, phase, expected, matched, after, begun, due, submitted, answer>>

Succeed(st) == answer' = {st} /\ End("success")

\* wait_for_resolved_agent begins: the agent is pinned.
Enter(ph, from, agent) ==
  /\ phase' = ph /\ pos' = from /\ expected' = agent /\ due' = "no" /\ pc' = "loop"
  /\ UNCHANGED <<outcome, answer>>

First ==
  /\ At("first") /\ Answered /\ Taken
  /\ LET r == TheReply
     IN  \/ r.err # "none" /\ End(r.err) /\ UNCHANGED <<phase, pos, expected, due, answer>>
         \/ /\ r.err = "none" /\ Status(r.pane) \in Settled /\ Succeed(Status(r.pane))
            /\ expected' = r.pane.agent /\ UNCHANGED <<phase, pos, due>>
         \/ r.err = "none" /\ Status(r.pane) \notin Settled /\ Enter("wait", base, r.pane.agent)
  /\ swapped' = departed
  /\ UNCHANGED <<hub, app, request, base, matched, after, begun, submitted, held, departed, missed>>

----------------------------------------------------------------------------
(* prompt_agent *)

\* agent_get_for_prompt
PromptStart ==
  /\ At("ask") /\ request.method = "prompt" /\ pc' = "before" /\ Ask("agent") /\ Begin
  /\ UNCHANGED <<hub, app, outcome, request, wait, submitted>>

\* What a late answer of the main thread is reported as: agent_get_for_prompt
\* may have waited for the time of the request and not its own.
LateErrors == {"server_unavailable"} \cup {e \in {"timeout"} : pc = "before" /\ request.timed = "yes"}

Before ==
  /\ At("before") /\ Answered /\ Taken
  /\ LET r == TheReply
     IN  \/ /\ r.err # "none" /\ End(r.err) /\ UNCHANGED <<expected, begun>>
         \/ /\ r.err = "none" /\ pc' = "position" /\ expected' = r.pane.agent
            /\ begun' = IF Status(r.pane) = "working" THEN "yes" ELSE "no"
            /\ UNCHANGED outcome
  /\ UNCHANGED <<hub, app, request, phase, base, pos, matched, after, due, answer, submitted, past>>

Position ==
  /\ At("position") /\ pc' = "prompted" /\ base' = nextSequence /\ pos' = nextSequence /\ Ask("prompt")
  /\ UNCHANGED <<hub, app, outcome, request, phase, expected, matched, after, begun, due, answer, submitted, past>>

\* validate_agent_prompt: what it finds out about the pane, or that the agent
\* is not the foreground process, which the main thread may not have noticed.
Refusals ==
  IF ~Found("agent") THEN {"not_found"}
  ELSE IF pane.state = "blocked" THEN {"blocked"} ELSE {"not_ready", "prompt_failed"}

\* handle_deferred_agent_api_request: the prompt is refused at once, or queued
\* for the terminal; its answer will hold the agent as it is now.
AcceptPrompt ==
  /\ call = "prompt" /\ reply = {} /\ submitted = {} /\ pending = <<>>
  /\ \/ \E e \in Refusals : Reply(e) /\ UNCHANGED submitted
     \/ /\ "not_ready" \in Refusals
        /\ submitted' = {[err |-> "none", pane |-> pane, seq |-> nextSequence]} /\ UNCHANGED reply
  /\ UNCHANGED <<hub, app, pc, call, outcome, timeouts, request, wait, past>>

\* The completion waiter answers once the text was typed, or could not be.
SubmitEnds ==
  /\ submitted # {} /\ submitted' = {}
  /\ reply' = submitted \/ Reply("prompt_failed")
  /\ UNCHANGED <<hub, app, pc, call, outcome, timeouts, request, wait, past>>

\* Mutant: the settled wait goes on from where the activity gate stopped.
SettleFromHere(st, agent) ==
  IF st \in Settled THEN Succeed(st) /\ UNCHANGED <<phase, pos, expected, due>>
  ELSE Enter("settle", IF phase = "gate" THEN nextSequence ELSE base, agent)

\* The agent was active: it has a settled status already, or one is waited
\* for, replaying the history from before the submission.
Settle(st, agent) ==
  IF st \in Settled THEN Succeed(st) /\ UNCHANGED <<phase, pos, expected, due>>
  ELSE Enter("settle", base, agent)

\* Mutant: there is no activity gate.
PromptedUngated ==
  /\ At("prompted") /\ Answered /\ Taken
  /\ LET r == TheReply
     IN  \/ /\ r.err # "none" /\ End(r.err) /\ UNCHANGED <<phase, pos, expected, due, answer>>
         \/ /\ r.err = "none" /\ r.pane.agent # expected /\ End("not_running")
            /\ UNCHANGED <<phase, pos, expected, due, answer>>
         \/ /\ r.err = "none" /\ r.pane.agent = expected /\ Settle(Status(r.pane), r.pane.agent)
  /\ swapped' = departed
  /\ UNCHANGED <<hub, app, request, base, matched, after, begun, submitted, held, departed, missed>>

\* The agent of the answer is the one that was there before, and was active
\* before or at the submission; or an activity gate comes first.
Prompted ==
  /\ At("prompted") /\ Answered /\ Taken
  /\ LET r == TheReply
         st == Status(r.pane)
     IN  \/ /\ r.err # "none" /\ End(r.err)
            /\ UNCHANGED <<phase, pos, expected, after, due, answer>>
         \/ /\ r.err = "none" /\ r.pane.agent # expected /\ End("not_running")
            /\ UNCHANGED <<phase, pos, expected, after, due, answer>>
         \/ /\ r.err = "none" /\ r.pane.agent = expected
            /\ begun = "yes" \/ st \in Active
            /\ Settle(st, r.pane.agent) /\ UNCHANGED after
         \/ /\ r.err = "none" /\ r.pane.agent = expected
            /\ begun = "no" /\ st \notin Active
            /\ Enter("gate", base, r.pane.agent) /\ after' = r.pane.changeSeq
  /\ swapped' = departed
  /\ UNCHANGED <<hub, app, request, base, matched, begun, submitted, held, departed, missed>>

----------------------------------------------------------------------------
(* wait_for_resolved_agent *)

\* The wait is satisfied by a status.
Match(st) ==
  IF phase = "gate" THEN Settle(st, expected)
  ELSE Succeed(st) /\ UNCHANGED <<phase, pos, expected, due>>

NotRunning == End("not_running") /\ UNCHANGED <<phase, pos, expected, due, answer>>

\* Mutant: any detection counts as a replacement.
EndsOnDetection(ev) == ev.kind \in {"closed", "detected"}

\* Events that end the loop over a batch.
Ends(ev) ==
  \/ ev.kind = "closed"
  \/ ev.kind = "detected" /\ (ev.released = "yes" \/ ev.agent \notin {NoAgent, expected})

\* The last status of the given events that is waited for; the settled wait
\* takes no status that may be over.
Transient(batch) ==
  LET hits == {k \in batch : phase # "settle" /\ events[k].ev.kind = "status" /\ events[k].ev.status \in Until}
  IN  IF hits = {} THEN {} ELSE {events[Max(hits)].ev.status}

\* One round: the events since the last one.
Loop ==
  /\ At("loop")
  /\ LET batch == EventsAfter(pos)
         ends == {k \in batch : Ends(events[k].ev)}
         end == events[Min(ends)].ev
         early == Transient({k \in batch : k < Min(ends)})
         final == IF end.status \in Until THEN {end.status} ELSE early
         probe == \E k \in batch : events[k].ev.kind \in {"detected", "status", "updated"}
     IN  /\ missed' = IF LostAfter(pos) THEN "yes" ELSE missed
         /\ \/ /\ ends # {} /\ end.kind = "detected" /\ end.released = "yes" /\ final # {}
               /\ \E st \in final : Match(st)
               /\ UNCHANGED <<matched, calls>>
            \/ /\ ends # {} /\ (end.kind = "closed" \/ end.released = "no" \/ final = {}) /\ NotRunning
               /\ UNCHANGED <<matched, calls>>
            \/ /\ ends = {} /\ probe /\ matched' = Transient(batch) /\ pos' = nextSequence
               /\ Ask("agent") /\ pc' = "again"
               /\ UNCHANGED <<phase, expected, due, answer, outcome>>
            \/ /\ ends = {} /\ ~probe /\ pos' = nextSequence /\ pc' = "check"
               /\ UNCHANGED <<phase, expected, due, answer, outcome, matched, calls>>
  /\ UNCHANGED <<hub, app, request, base, after, begun, submitted, held, departed, swapped>>

\* agent_wait_matches
Matching(p) == Status(p) \in Until /\ (phase = "gate" => p.changeSeq > after)

\* agent_wait_probe_error: the agent has gone, or the main thread is too slow.
ProbeFails(r) ==
  /\ r.err # "none" \/ r.pane.agent # expected
  /\ End(IF r.err \in {"none", "not_found"} THEN "not_running" ELSE r.err)
  /\ UNCHANGED <<phase, pos, expected, due, answer>>

ProbeWorks(r) == r.err = "none" /\ r.pane.agent = expected

Again ==
  /\ At("again") /\ Answered /\ Taken /\ matched' = {}
  /\ LET r == TheReply
     IN  \/ ProbeFails(r)
         \/ ProbeWorks(r) /\ \E st \in matched : Match(st)
         \/ ProbeWorks(r) /\ matched = {} /\ Matching(r.pane) /\ Match(Status(r.pane))
         \/ /\ ProbeWorks(r) /\ matched = {} /\ ~Matching(r.pane) /\ pc' = "check"
            /\ UNCHANGED <<phase, pos, expected, due, answer, outcome>>
  /\ UNCHANGED <<hub, app, request, base, after, begun, submitted, past>>

\* Mutant: the activity gate has no deadline.
CheckNotInGate ==
  /\ At("check")
  /\ \/ due = "yes" /\ phase # "gate" /\ Ask("agent") /\ pc' = "last"
     \/ (due = "no" \/ phase = "gate") /\ pc' = "loop" /\ UNCHANGED calls
  /\ UNCHANGED <<hub, app, outcome, waitVars>>

\* The deadline is looked at, and then the thread sleeps.
Check ==
  /\ At("check")
  /\ \/ due = "yes" /\ Ask("agent") /\ pc' = "last"
     \/ due = "no" /\ pc' = "loop" /\ UNCHANGED calls
  /\ UNCHANGED <<hub, app, outcome, waitVars>>

\* One more look at the agent, and the wait is over.  The gate's deadline is
\* its own or the request's, whichever comes first.
Last ==
  /\ At("last") /\ Answered /\ Taken
  /\ LET r == TheReply
     IN  \/ ProbeFails(r)
         \/ ProbeWorks(r) /\ Matching(r.pane) /\ Match(Status(r.pane))
         \/ /\ ProbeWorks(r) /\ ~Matching(r.pane)
            /\ \/ request.timed = "yes" /\ End("timeout")
               \/ phase = "gate" /\ End("stalled")
            /\ UNCHANGED <<phase, pos, expected, due, answer>>
  /\ UNCHANGED <<hub, app, request, base, matched, after, begun, submitted, past>>

\* Time passes.
DeadlinePasses ==
  /\ pc \in {"loop", "again", "check"} /\ due = "no" /\ due' = "yes"
  /\ request.timed = "yes" \/ phase = "gate"
  /\ UNCHANGED <<hub, app, thread, request, phase, base, pos, expected, matched, after, begun, submitted, answer, past>>

\* should_stop_connection
WaitStop ==
  /\ At("loop") /\ End("gone")
  /\ UNCHANGED <<hub, app, calls, waitVars>>

WaitRun == WaitStart \/ First \/ PromptStart \/ Before \/ Position \/ Prompted \/ Loop \/ Again \/ Check \/ Last

WaitStep == WaitRun \/ AcceptPrompt \/ SubmitEnds \/ DeadlinePasses \/ WaitStop
----------------------------------------------------------------------------
WaitTypeOK ==
  /\ request \in RequestTypes /\ phase \in {"wait", "gate", "settle"}
  /\ base \in Nat /\ pos \in Nat /\ after \in Nat /\ expected \in Agents \cup {NoAgent}
  /\ begun \in {"yes", "no"} /\ due \in {"yes", "no"}
  /\ matched \in SUBSET Statuses /\ answer \in SUBSET Statuses /\ submitted \in SUBSET Replies
  /\ held \in SUBSET [agent : Agents \cup {NoAgent}, status : Statuses]
  /\ departed \in {"yes", "no"} /\ swapped \in {"yes", "no"} /\ missed \in {"yes", "no"}

\* A success names a status that was asked for and that the pane has had, or
\* its agent was released with, since the request began, or that was being
\* announced just then; never one of its past.  The status was that of the
\* pinned agent and not of one of another kind in its place, except in two
\* cases: the events that tell of the replacement were evicted before they
\* were read (events_after is unchecked), or one agent left before the wait
\* proper began, so that what is told of it is taken for the pinned agent.
SuccessIsHonest ==
  \A st \in answer :
    /\ st \in Settled
    /\ \E h \in held : h.status = st /\ (missed = "no" /\ swapped = "no" => h.agent = expected)

\* A prompt succeeds only if the agent was working or blocked at some time
\* since the request began (the activity gate).
PromptWasActive ==
  (outcome = "success" /\ request.method = "prompt") => \E h \in held : h.status \in Active

\* agent_not_running is reported only if since the request began an agent has
\* left the pane or exited, or the pane was closed.
NotRunningIsTrue == outcome = "not_running" => departed = "yes"

\* A wait with a deadline, and the activity gate always, comes to an end.  On
\* Unix nothing bounds the time a prompt takes to be typed.
WaitEnds ==
  ~<>[](outcome = "open" /\ (request.timed = "yes" \/ phase = "gate") /\ call # "prompt")

\* Also without a deadline a wait does not sleep for ever beside an agent that
\* stays in a status waited for, if it came there with an event and no event
\* was evicted unread.
WantedEndsWait ==
  ~<>[](outcome = "open" /\ pc # "ask" /\ call # "prompt" /\ pane.open = "yes" /\ pane.agent = expected
        /\ Status(pane) \in Settled /\ viewed = "no" /\ missed = "no")
=============================================================================
