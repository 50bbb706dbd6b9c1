------------------------------ MODULE EventHub ------------------------------
(* The event history that API connections read (runtime/src/api/event_hub.rs) *)
(* and the main thread that feeds it: one pane, the agent in it, and the      *)
(* events that each of its changes emits (app/actions.rs, app/api.rs).  A     *)
(* handler of the main thread changes the pane first and then pushes its      *)
(* events one by one; connection threads read the history in between, but     *)
(* requests they send are answered only between two handlers.                 *)
EXTENDS Integers, Sequences

CONSTANTS
  MaxEvents,  \* EventHub::MAX_EVENTS
  Agents,     \* agent labels, such as claude
  NoAgent,    \* no agent in the pane
  AtFirst,    \* bound: which of these the pane holds when the request comes
  States      \* bound: the states agents are detected in or report

ASSUME HubAssumption ==
  /\ MaxEvents \in Nat \ {0}
  /\ NoAgent \notin Agents
  /\ AtFirst \subseteq Agents \cup {NoAgent}
  /\ States \subseteq {"unknown", "idle", "working", "blocked"}

VARIABLES
  nextSequence, \* EventHubState.next_sequence
  events,       \* EventHubState.events: pairs of a sequence number and an event
  pane,         \* the pane as the main thread knows it
  pending,      \* events the current handler has still to push
  may,          \* bound: the kinds of handlers that run
  left,         \* bound: how many of them may still run
  log,          \* history: every event pushed, in order
  viewed        \* history: "yes" if the status is what viewing the pane made it

hub == <<nextSequence, events, log>>
app == <<pane, pending, may, left, viewed>>

AgentStates == {"unknown", "idle", "working", "blocked"}
Statuses == AgentStates \cup {"done"}
EventKinds == {"status", "detected", "closed", "updated", "other"}

\* An event; "status" is the new status, or a released agent's final one.
Events ==
  {ev \in [kind : EventKinds, status : Statuses \cup {"none"},
           agent : Agents \cup {NoAgent}, released : {"yes", "no"}] :
     ev.kind = "status" \/ ev.released = "yes" => ev.status \in Statuses}

\* A pane: its agent, whether the agent's process was seen to exit, the last
\* change of state, whether its text shows what a client looks for, and how
\* far it is scrolled back.
Panes == [state : AgentStates, seen : {"yes", "no"}, agent : Agents \cup {NoAgent},
          open : {"yes", "no"}, exited : {"yes", "no"}, changeSeq : Nat,
          shows : {"yes", "no"}, scroll : {"bottom", "back", "none"}]

Plain(kind) == [kind |-> kind, status |-> "none", agent |-> NoAgent, released |-> "no"]

\* pane_agent_status: an idle agent nobody has looked at is done.
Status(p) == IF p.state = "idle" /\ p.seen = "no" THEN "done" ELSE p.state

----------------------------------------------------------------------------
(* The history. *)

\* EventHub::push drops the oldest events beyond MaxEvents.
Push(ev) ==
  LET n == nextSequence + 1
      grown == Append(events, [seq |-> n, ev |-> ev])
  IN  /\ nextSequence' = n
      /\ events' = IF Len(grown) > MaxEvents
                   THEN SubSeq(grown, Len(grown) - MaxEvents + 1, Len(grown))
                   ELSE grown
      /\ log' = Append(log, ev)

\* EventHub::events_after: what is retained beyond a sequence number.
EventsAfter(s) == {i \in DOMAIN events : events[i].seq > s}

\* Mutant: the boundary is off by one, so one lost event goes unnoticed.
LostAfterLate(s) == Len(events) > 0 /\ s < events[1].seq - 2

\* Mutant: a position just before the oldest event counts as lost.
LostAfterEarly(s) == Len(events) > 0 /\ s < events[1].seq

\* EventHub::events_after_checked reports EventHistoryError::Lost.
LostAfter(s) == Len(events) > 0 /\ s < events[1].seq - 1

----------------------------------------------------------------------------
(* The main thread. *)

\* The kinds of handlers: a change of the agent's state, of the agent, of the
\* focus, the end of the pane, output or scrolling, and anything elsewhere.
Kinds == {"state", "agent", "view", "close", "draw", "other"}

\* The pane as a request finds it: without an agent, or with one in some state
\* that may have finished unseen.
AppInit(kinds, changes) ==
  /\ nextSequence = 0 /\ events = <<>> /\ log = <<>>
  /\ \E a \in AtFirst, st \in States, seen \in {"yes", "no"} :
       pane = [state |-> IF a = NoAgent THEN "unknown" ELSE st,
               seen |-> IF a # NoAgent /\ st = "idle" THEN seen ELSE "yes",
               agent |-> a, open |-> "yes", exited |-> "no", changeSeq |-> 0, shows |-> "no", scroll |-> "bottom"]
  /\ pending = <<>> /\ may = kinds /\ left = changes /\ viewed = "no"

\* The main thread takes up a handler when none is in progress.
Handle(kind) ==
  /\ pending = <<>> /\ pane.open = "yes"
  /\ kind \in may /\ left > 0 /\ left' = left - 1 /\ UNCHANGED may

\* emit_pane_state_update: the events that a change of the pane emits.  Those
\* of a release carry the label of the agent that is released.
StateEvents(p, released) ==
  LET label == IF released = "yes" THEN pane.agent ELSE p.agent
      detected == [kind |-> "detected", agent |-> label, released |-> released,
                   status |-> IF released = "yes" THEN Status(p) ELSE "none"]
      status == [kind |-> "status", agent |-> label, status |-> Status(p), released |-> "no"]
  IN  (IF p.agent # pane.agent \/ released = "yes" THEN <<detected>> ELSE <<>>)
      \o (IF Status(p) # Status(pane) THEN <<status>> ELSE <<>>)

\* update_terminal_state_with_completion_policy: the pane with another agent
\* or state.  A new label forgets an unseen completion, and an agent that has
\* just finished was seen if its tab was active.
Updated(a, st, seen) ==
  LET finished == st = "idle" /\ pane.state \in {"working", "blocked"}
      kept == IF a # pane.agent THEN "yes" ELSE pane.seen
  IN  [pane EXCEPT !.agent = a, !.state = st,
                   !.seen = IF st # "idle" THEN "yes" ELSE IF finished THEN seen ELSE kept,
                   !.changeSeq = IF st # pane.state THEN @ + 1 ELSE @]

Change(kind, p, released) ==
  /\ Handle(kind) /\ pane' = p /\ pending' = StateEvents(p, released) /\ viewed' = "no"
  /\ UNCHANGED hub

\* A detected or reported state of the agent that is there, or of one that
\* goes by the same label and that takes its place.
ChangeState(st, seen) ==
  /\ pane.agent # NoAgent /\ st # pane.state
  /\ Change("state", [Updated(pane.agent, st, seen) EXCEPT !.exited = "no"], "no")

\* An agent appears in the pane, or one of another kind takes its place.
DetectAgent(a, st, seen) ==
  /\ a # pane.agent
  /\ Change("agent", [Updated(a, st, seen) EXCEPT !.exited = "no"], "no")

\* publish_pane_process_exit_if_agent: the agent's process has ended.  The
\* label stays, for the observation can be wrong.
ProcessExits(seen) ==
  /\ pane.agent # NoAgent
  /\ Change("agent", [Updated(pane.agent, "idle", seen) EXCEPT !.exited = "yes"], "yes")

\* The pane is back at its shell: no agent is detected any more, or a
\* self-reported one is cleared (clear_self_reported_agent).
AgentLeaves(released) ==
  /\ pane.agent # NoAgent
  /\ Change("agent", [Updated(NoAgent, "unknown", "yes") EXCEPT !.exited = "no"], released)

\* mark_active_tab_seen: a done agent is looked at.  No event tells of it.
ViewPane ==
  /\ Handle("view") /\ pane.seen = "no"
  /\ pane' = [pane EXCEPT !.seen = "yes"]
  /\ viewed' = "yes"
  /\ UNCHANGED <<hub, pending>>

\* The pane is closed or moves away: its public id is gone.
ClosePane ==
  /\ Handle("close")
  /\ pane' = [pane EXCEPT !.open = "no", !.agent = NoAgent]
  /\ pending' = <<Plain("closed")>>
  /\ UNCHANGED <<hub, viewed>>

\* The agent is released when the pane's process ends.
ReleaseEvents(seen) ==
  IF pane.agent = NoAgent THEN <<>> ELSE StateEvents(Updated(pane.agent, "idle", seen), "yes")

\* AppEvent::PaneDied: the pane's process ends.  Its agent is released first,
\* then the pane is announced as exited and removed.
PaneDies(seen) ==
  /\ Handle("close")
  /\ pane' = [pane EXCEPT !.open = "no", !.agent = NoAgent]
  /\ pending' = ReleaseEvents(seen) \o <<Plain("closed")>>
  /\ viewed' = "no"
  /\ UNCHANGED hub

\* AppEvent::PaneDied for a pane that gets a shell instead: the agent's traces
\* are wiped (clear_agent_runtime_identity_after_respawn), and no event tells
\* that the status is now unknown.
Respawn(seen) ==
  /\ Handle("close")
  /\ pane' = [pane EXCEPT !.agent = NoAgent, !.state = "unknown", !.seen = "yes", !.exited = "no"]
  /\ pending' = ReleaseEvents(seen)
  /\ viewed' = "no"
  /\ UNCHANGED hub

\* Another title or label for the state: the status event is sent again.
Present ==
  /\ Handle("state") /\ pane.agent # NoAgent
  /\ pending' = <<[kind |-> "status", agent |-> pane.agent, status |-> Status(pane), released |-> "no"]>>
  /\ UNCHANGED <<hub, pane, viewed>>

\* The process writes, or a user scrolls.  No event tells of it.
Redraw(shows, scroll) ==
  /\ Handle("draw") /\ <<shows, scroll>> # <<pane.shows, pane.scroll>>
  /\ pane' = [pane EXCEPT !.shows = shows, !.scroll = scroll]
  /\ UNCHANGED <<hub, pending, viewed>>

\* An event of another pane or workspace, or PaneUpdated for this one.
EmitOther(kind) ==
  /\ Handle("other") /\ pending' = <<Plain(kind)>>
  /\ UNCHANGED <<hub, pane, viewed>>

\* emit_event, for the next event of the handler.
EmitNext ==
  /\ pending # <<>> /\ pending' = Tail(pending) /\ Push(Head(pending))
  /\ UNCHANGED <<pane, may, left, viewed>>

AppStep ==
  \/ \E st \in States, seen \in {"yes", "no"} : ChangeState(st, seen)
  \/ \E a \in Agents, st \in States, seen \in {"yes", "no"} : DetectAgent(a, st, seen)
  \/ \E seen \in {"yes", "no"} : ProcessExits(seen)
  \/ \E released \in {"yes", "no"} : AgentLeaves(released)
  \/ ViewPane
  \/ ClosePane
  \/ \E seen \in {"yes", "no"} : PaneDies(seen)
  \/ \E seen \in {"yes", "no"} : Respawn(seen)
  \/ Present
  \/ \E shows \in {"yes", "no"}, scroll \in {"bottom", "back", "none"} : Redraw(shows, scroll)
  \/ \E kind \in {"updated", "other"} : EmitOther(kind)
  \/ EmitNext

AppTypeOK ==
  /\ nextSequence \in Nat
  /\ events \in Seq([seq : Nat, ev : Events]) /\ Len(events) <= MaxEvents
  /\ log \in Seq(Events)
  /\ pane \in Panes
  /\ pending \in Seq(Events)
  /\ may \subseteq Kinds /\ left \in Nat /\ viewed \in {"yes", "no"}
=============================================================================
