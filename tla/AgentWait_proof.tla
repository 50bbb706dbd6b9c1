-------------------------- MODULE AgentWait_proof --------------------------
(* Theorems about agent.wait and agent.prompt, for any length of the event  *)
(* history and any request: a success is honest, a prompt that succeeds was *)
(* taken up, and agent_not_running is true.                                 *)
EXTENDS ApiServer_proof

\* Where the thread of a wait is once the request has begun, once it knows an
\* agent, once it has a place in the history, and once the agent is pinned.
Asked == {"first", "before", "position", "prompted", "loop", "again", "check", "last"}
Knowing == {"position", "prompted", "loop", "again", "check", "last"}
Placed == {"first", "prompted", "loop", "again", "check", "last"}
Reading == {"loop", "again", "check", "last"}

\* An agent is there.
Here == pane.open = "yes" /\ pane.agent # NoAgent

\* An event that, to a wait for an agent, tells of its end.
EndsFor(ev, a) ==
  \/ ev.kind = "closed"
  \/ ev.kind = "detected" /\ (ev.released = "yes" \/ ev.agent \notin {NoAgent, a})

Had(a, st) == [agent |-> a, status |-> st] \in held

\* What a handler has still to announce, as long as an agent is there, is of it.
News ==
  Here => \A i \in 1 .. Len(pending) :
    /\ EndsFor(pending[i], pane.agent) => pane.exited = "yes"
    /\ Tells(pending[i]) => pending[i].status = Status(pane)

\* What the variables of a wait hold, as far as the proof needs it.
WShapes ==
  /\ base \in Nat /\ pos \in Nat /\ request.method \in {"wait", "prompt"}
  /\ departed \in {"yes", "no"} /\ swapped \in {"yes", "no"} /\ missed \in {"yes", "no"}

\* Where the thread of a wait is and what that says of its state.
Methods ==
  /\ subs = <<>> => (pc \in Asked \cup {"ask"} <=> outcome = "open") /\ pc \in Asked \cup {"ask", "ended"}
  /\ subs # <<>> => answer = {} /\ outcome \notin {"success", "not_running"}
  /\ pc \in Asked \cup {"ask"} => subs = <<>> /\ call \in {"agent", "prompt", "none"}
  /\ pc = "ask" => call = "none" /\ submitted = {} /\ begun = "no" /\ phase = "wait"
  /\ pc = "first" => request.method = "wait"
  /\ pc \in {"before", "position", "prompted"} => request.method = "prompt"
  /\ pc \in Placed => base <= nextSequence /\ base <= pos /\ pos <= nextSequence

\* Since the request began: what the pane shows was seen, and so were the
\* answers, and as long as no agent has departed they are of the one there.
Seen ==
  pc \in Asked =>
    /\ Here => Had(pane.agent, Status(pane))
    /\ departed = "no" => pane.exited = "no"
    /\ pc \in Knowing /\ departed = "no" => Here /\ pane.agent = expected
    /\ \A r \in reply \cup submitted :
         /\ r.err = "none" => /\ Had(r.pane.agent, Status(r.pane)) /\ r.pane.agent # NoAgent
                              /\ departed = "no" => Here /\ r.pane.agent = pane.agent
         /\ r.err = "not_found" /\ departed = "no" => ~Here

\* What is told after the place the wait began at was so.
Told ==
  /\ pc \in Asked => \A i \in 1 .. Len(pending) :
       Tells(pending[i]) => \E h \in held : h.status = pending[i].status
  /\ pc \in Placed =>
       /\ \A q \in base + 1 .. nextSequence : Tells(log[q]) => \E h \in held : h.status = log[q].status
       /\ departed = "no" /\ Here => \A q \in base + 1 .. nextSequence :
            ~EndsFor(log[q], pane.agent) /\ (Tells(log[q]) => Had(pane.agent, log[q].status))

\* No end of an agent is told up to an event of the log, or of the handler.
Clean(a, q) == \A k \in base + 1 .. q : ~EndsFor(log[k], a)
CleanTo(a, i) == Clean(a, nextSequence) /\ \A k \in 1 .. i : ~EndsFor(pending[k], a)

\* Up to the end of an agent, what is told is told of it.
PinnedTo(a) ==
  /\ \A q \in base + 1 .. nextSequence : Clean(a, q - 1) /\ Tells(log[q]) => Had(a, log[q].status)
  /\ \A i \in 1 .. Len(pending) : CleanTo(a, i - 1) /\ Tells(pending[i]) => Had(a, pending[i].status)
  /\ CleanTo(a, Len(pending)) => pane.agent \in {NoAgent, a}

\* So it is of the pinned agent, and all that was read came before its end.
Pinned ==
  pc \in Reading /\ swapped = "no" => PinnedTo(expected) /\ (missed = "no" => Clean(expected, pos))

\* A status found in the history is one that a wait may end with.
Fits(st) == \E h \in held : h.status = st /\ (missed = "no" /\ swapped = "no" => h.agent = expected)
Matched == pc = "again" => \A st \in matched : phase # "settle" /\ st \in Until /\ Fits(st)


\* An agent.prompt gets to its settled wait only past the activity gate.
WasActive == \E h \in held : h.status \in Active
Gate ==
  request.method = "prompt" =>
    /\ begun = "yes" \/ phase = "settle" => WasActive
    /\ pc \in Reading => phase \in {"gate", "settle"}

\* What the client has been told.
Results == /\ outcome = "open" => answer = {}
           /\ SuccessIsHonest /\ PromptWasActive /\ NotRunningIsTrue

WInv == WShapes /\ News /\ Methods /\ Seen /\ Told /\ Pinned /\ Matched /\ Gate /\ Results

----------------------------------------------------------------------------
(* The main thread. *)

\* What emit_pane_state_update emits: agent_detected first if the agent changes
\* or is released, and then the new status.
Emitted(s, p, released) ==
  /\ Len(s) \in Nat
  /\ \A i \in 1 .. Len(s) :
       /\ s[i].kind = "detected" \/ (s[i].kind = "status" /\ s[i].released = "no")
       /\ s[i].kind = "detected" => s[i].released = released
       /\ s[i].agent = IF released = "yes" THEN pane.agent ELSE p.agent
       /\ Tells(s[i]) => s[i].status = Status(p)
  /\ p.agent # pane.agent \/ released = "yes" => 1 \in 1 .. Len(s) /\ s[1].kind = "detected"

\* emit_pane_state_update emits no more than that.
LEMMA StateEventsAre ==
  ASSUME NEW p, NEW released \in {"yes", "no"}
  PROVE  Emitted(StateEvents(p, released), p, released)
  <1>. DEFINE s == StateEvents(p, released)
  <1>. DEFINE label == IF released = "yes" THEN pane.agent ELSE p.agent
              detected == [kind |-> "detected", agent |-> label, released |-> released,
                           status |-> IF released = "yes" THEN Status(p) ELSE "none"]
              status == [kind |-> "status", agent |-> label, status |-> Status(p), released |-> "no"]
  <1>1. /\ detected.kind = "detected" /\ detected.released = released /\ detected.agent = label
        /\ Tells(detected) => detected.status = Status(p)
        /\ status.kind = "status" /\ status.released = "no" /\ status.agent = label
        /\ status.status = Status(p)
    BY DEF Tells
  <1>2. s = (IF p.agent # pane.agent \/ released = "yes" THEN <<detected>> ELSE <<>>)
            \o (IF Status(p) # Status(pane) THEN <<status>> ELSE <<>>)
    BY Zenon DEF StateEvents
  <1>. HIDE DEF detected, status, s
  <1>3. /\ Len(s) \in Nat
        /\ \A i \in 1 .. Len(s) : s[i] = detected \/ s[i] = status
        /\ p.agent # pane.agent \/ released = "yes" => 1 \in 1 .. Len(s) /\ s[1] = detected
    <2>1. CASE (p.agent # pane.agent \/ released = "yes") /\ Status(p) # Status(pane)
      <3>1. s = <<detected>> \o <<status>>
        BY <1>2, <2>1
      <3>2. Len(s) = 2 /\ s[1] = detected /\ s[2] = status
        BY <3>1
      <3>. QED
        BY <3>2
    <2>2. CASE (p.agent # pane.agent \/ released = "yes") /\ Status(p) = Status(pane)
      <3>1. s = <<detected>>
        BY <1>2, <2>2
      <3>. QED
        BY <3>1
    <2>3. CASE ~(p.agent # pane.agent \/ released = "yes") /\ Status(p) # Status(pane)
      <3>1. s = <<status>>
        BY <1>2, <2>3
      <3>. QED
        BY <2>3, <3>1
    <2>4. CASE ~(p.agent # pane.agent \/ released = "yes") /\ Status(p) = Status(pane)
      <3>1. s = <<>>
        BY <1>2, <2>4
      <3>. QED
        BY <2>4, <3>1
    <2>. QED
      BY <2>1, <2>2, <2>3, <2>4
  <1>. HIDE DEF label
  <1>. QED
    BY <1>1, <1>3 DEF label, s, Emitted

\* A handler announces the state of an agent that stays or comes, ...
Keeps ==
  /\ pane'.open = "yes"
  /\ pane'.agent # pane.agent => 1 \in 1 .. Len(pending') /\ pending'[1].kind = "detected"
  /\ \A i \in 1 .. Len(pending') :
       /\ pending'[i].kind # "closed" /\ pending'[i].released = "no"
       /\ pending'[i].kind = "detected" => pending'[i].agent = pane'.agent
       /\ Tells(pending'[i]) => /\ pending'[i].status = Status(pane')
                                /\ pane.agent # NoAgent \/ pane'.agent # NoAgent

\* ... or first the end of one, ...
Releases ==
  /\ pane.agent # NoAgent /\ 1 \in 1 .. Len(pending')
  /\ pending'[1].kind = "detected" /\ pending'[1].released = "yes" /\ pending'[1].agent = pane.agent
  /\ Here' => /\ pane'.exited = "yes" /\ pane'.agent = pane.agent
              /\ \A i \in 1 .. Len(pending') : Tells(pending'[i]) => pending'[i].status = Status(pane')

\* ... or no status at all, and the agent is gone.
Empties == pane'.agent = NoAgent /\ \A i \in 1 .. Len(pending') : ~Tells(pending'[i])

\* What a handler of the main thread does to the pane and announces of it.
LEMMA Handlers ==
  ASSUME AppTypeOK, AppStep, ~EmitNext
  PROVE  /\ pending = <<>> /\ UNCHANGED hub /\ pane.open = "yes"
         /\ Keeps \/ Releases \/ Empties
  <1>. DEFINE Shown == pending = <<>> /\ UNCHANGED hub /\ pane.open = "yes" /\ (Keeps \/ Releases \/ Empties)
  <1>0. pane \in Panes /\ pane' \in Panes
    BY AppTypes DEF AppTypeOK
  <1>1. ASSUME NEW kind, NEW p, NEW released \in {"yes", "no"}, Change(kind, p, released), p.open = "yes",
               pane.agent # NoAgent \/ (released = "no" /\ p.agent # NoAgent),
               released = "yes" => p.agent = NoAgent \/ (p.exited = "yes" /\ p.agent = pane.agent)
        PROVE  Shown
    <2>1. pane' = p /\ pending' = StateEvents(p, released) /\ pending = <<>> /\ UNCHANGED hub /\ pane.open = "yes"
      BY <1>1, Zenon DEF Change, Handle
    <2>2. Emitted(pending', p, released)
      BY <2>1, StateEventsAre, Zenon
    <2>3. CASE released = "yes"
      BY <1>1, <2>1, <2>2, <2>3, Zenon DEF Releases, Here, Emitted
    <2>4. CASE released = "no"
      BY <1>1, <2>1, <2>2, <2>4 DEF Keeps, Emitted, Tells
    <2>. QED
      BY <2>3, <2>4
  <1>2. ASSUME NEW kind, NEW p, NEW released, Change(kind, p, released) PROVE pane.open = "yes"
    BY <1>2, Zenon DEF Change, Handle
  <1>4. ASSUME NEW st \in States, NEW seen \in {"yes", "no"}, ChangeState(st, seen) PROVE Shown
    <2>. DEFINE p == [Updated(pane.agent, st, seen) EXCEPT !.exited = "no"]
    <2>1. p.agent = pane.agent /\ p.open = pane.open /\ p.exited = "no"
      BY <1>0 DEF Updated, Panes
    <2>2. Change("state", p, "no") /\ pane.agent # NoAgent
      BY <1>4, Zenon DEF ChangeState
    <2>. HIDE DEF p
    <2>. QED
      BY <1>1, <1>2, <2>1, <2>2, Zenon
  <1>5. ASSUME NEW a \in Agents, NEW st \in States, NEW seen \in {"yes", "no"}, DetectAgent(a, st, seen)
        PROVE  Shown
    <2>. DEFINE p == [Updated(a, st, seen) EXCEPT !.exited = "no"]
    <2>1. p.agent = a /\ p.open = pane.open /\ p.exited = "no"
      BY <1>0 DEF Updated, Panes
    <2>2. Change("agent", p, "no")
      BY <1>5, Zenon DEF DetectAgent
    <2>. HIDE DEF p
    <2>. QED
      BY <1>1, <1>2, <2>1, <2>2, HubAssumption, Zenon
  <1>6. ASSUME NEW seen \in {"yes", "no"}, ProcessExits(seen) PROVE Shown
    <2>. DEFINE p == [Updated(pane.agent, "idle", seen) EXCEPT !.exited = "yes"]
    <2>1. p.agent = pane.agent /\ p.open = pane.open /\ p.exited = "yes"
      BY <1>0 DEF Updated, Panes
    <2>2. Change("agent", p, "yes") /\ pane.agent # NoAgent
      BY <1>6, Zenon DEF ProcessExits
    <2>. HIDE DEF p
    <2>. QED
      BY <1>1, <1>2, <2>1, <2>2, Zenon
  <1>7. ASSUME NEW released \in {"yes", "no"}, AgentLeaves(released) PROVE Shown
    <2>. DEFINE p == [Updated(NoAgent, "unknown", "yes") EXCEPT !.exited = "no"]
    <2>1. p.agent = NoAgent /\ p.open = pane.open /\ p.exited = "no"
      BY <1>0 DEF Updated, Panes
    <2>2. Change("agent", p, released) /\ pane.agent # NoAgent
      BY <1>7, Zenon DEF AgentLeaves
    <2>. HIDE DEF p
    <2>. QED
      BY <1>1, <1>2, <2>1, <2>2, Zenon
  <1>8. ASSUME NEW e \in Events, e.kind \in {"updated", "other", "closed"} \/ (e.kind = "status" /\ pane.agent # NoAgent),
               e.released = "no", e.kind = "status" => e.status = Status(pane),
               pending' = <<e>>, pending = <<>>, UNCHANGED hub, pane.open = "yes",
               IF e.kind = "closed" THEN pane'.agent = NoAgent ELSE UNCHANGED pane
        PROVE  Shown
    <2>1. Len(pending') = 1 /\ \A i \in 1 .. Len(pending') : pending'[i] = e
      BY <1>8
    <2>2. CASE e.kind = "closed"
      BY <1>8, <2>1, <2>2, Zenon DEF Empties, Tells
    <2>3. CASE e.kind # "closed"
      BY <1>8, <2>1, <2>3 DEF Keeps, Tells
    <2>. QED
      BY <2>2, <2>3
  <1>9. ASSUME ViewPane PROVE Shown
    BY <1>0, <1>9 DEF ViewPane, Handle, Keeps, Panes
  <1>10. ASSUME ClosePane PROVE Shown
    <2>1. Plain("closed") \in Events /\ Plain("closed").kind = "closed" /\ Plain("closed").released = "no"
      BY DEF Plain, Events, EventKinds
    <2>2. pending = <<>> /\ pending' = <<Plain("closed")>> /\ UNCHANGED hub /\ pane.open = "yes" /\ pane'.agent = NoAgent
      BY <1>0, <1>10 DEF ClosePane, Handle, Panes
    <2>. QED
      BY <1>8, <2>1, <2>2, Zenon
  <1>11. ASSUME NEW seen \in {"yes", "no"}, NEW tail \in {<<>>, <<Plain("closed")>>},
                pending' = ReleaseEvents(seen) \o tail, pending = <<>>, UNCHANGED hub, pane.open = "yes",
                pane'.agent = NoAgent
         PROVE  Shown
    <2>1. CASE pane.agent = NoAgent
      <3>1. pending' = tail
        BY <1>11, <2>1 DEF ReleaseEvents
      <3>2. \A i \in 1 .. Len(pending') : ~Tells(pending'[i])
        BY <3>1 DEF Tells, Plain
      <3>. QED
        BY <1>11, <3>2 DEF Empties
    <2>2. CASE pane.agent # NoAgent
      <3>. DEFINE p == Updated(pane.agent, "idle", seen)
                  s == StateEvents(p, "yes")
      <3>1. p \in Panes /\ s \in Seq(Events) /\ tail \in Seq(Events)
        <4>1. p \in Panes
          BY <1>0, UpdatedType DEF Panes, AgentStates
        <4>2. Plain("closed") \in Events
          BY DEF Plain, Events, EventKinds
        <4>3. <<>> \in Seq(Events) /\ <<Plain("closed")>> \in Seq(Events)
          BY <4>2
        <4>. HIDE DEF p
        <4>4. s \in Seq(Events)
          BY <4>1, StateEventsType, Zenon
        <4>. QED
          BY <4>1, <4>3, <4>4, Zenon
      <3>2. 1 \in 1 .. Len(s) /\ s[1].kind = "detected" /\ s[1].released = "yes" /\ s[1].agent = pane.agent
        <4>. HIDE DEF p
        <4>1. Emitted(s, p, "yes")
          BY StateEventsAre, Zenon
        <4>. HIDE DEF s
        <4>. QED
          BY <4>1 DEF Emitted
      <3>3. pending' = s \o tail
        BY <1>11, <2>2, Zenon DEF ReleaseEvents
      <3>. HIDE DEF s
      <3>4. 1 \in 1 .. Len(pending') /\ pending'[1] = s[1]
        BY <3>1, <3>2, <3>3
      <3>. QED
        BY <1>11, <2>2, <3>2, <3>4, Zenon DEF Releases, Here
    <2>. QED
      BY <2>1, <2>2
  <1>12. ASSUME NEW seen \in {"yes", "no"}, PaneDies(seen) PROVE Shown
    <2>1. pane'.agent = NoAgent
      BY <1>0, <1>12 DEF PaneDies, Panes
    <2>. QED
      BY <1>11, <1>12, <2>1, Zenon DEF PaneDies, Handle
  <1>13. ASSUME NEW seen \in {"yes", "no"}, Respawn(seen) PROVE Shown
    <2>1. pane'.agent = NoAgent
      BY <1>0, <1>13 DEF Respawn, Panes
    <2>2. ReleaseEvents(seen) \in Seq(Events)
      <3>1. Updated(pane.agent, "idle", seen) \in Panes
        BY <1>0, UpdatedType DEF Panes, AgentStates
      <3>. QED
        BY <3>1, StateEventsType DEF ReleaseEvents
    <2>3. pending' = ReleaseEvents(seen) \o <<>>
      BY <1>13, <2>2 DEF Respawn
    <2>. QED
      BY <1>11, <1>13, <2>1, <2>3, Zenon DEF Respawn, Handle
  <1>14. ASSUME Present PROVE Shown
    <2>. DEFINE e == [kind |-> "status", agent |-> pane.agent, status |-> Status(pane), released |-> "no"]
    <2>1. e \in Events /\ e.kind = "status" /\ e.status = Status(pane) /\ e.released = "no"
      BY <1>0, StatusType, Zenon DEF Events, EventKinds, Panes
    <2>2. pane.agent # NoAgent /\ pending' = <<e>> /\ pending = <<>> /\ UNCHANGED <<hub, pane>> /\ pane.open = "yes"
      BY <1>14 DEF Present, Handle
    <2>. HIDE DEF e
    <2>. QED
      BY <1>8, <2>1, <2>2, Zenon
  <1>15. ASSUME NEW shows, NEW scroll, Redraw(shows, scroll) PROVE Shown
    BY <1>0, <1>15 DEF Redraw, Handle, Keeps, Panes
  <1>16. ASSUME NEW kind \in {"updated", "other"}, EmitOther(kind) PROVE Shown
    <2>1. Plain(kind) \in Events /\ Plain(kind).kind = kind /\ Plain(kind).released = "no"
      BY DEF Plain, Events, EventKinds
    <2>2. pending = <<>> /\ pending' = <<Plain(kind)>> /\ UNCHANGED <<hub, pane>> /\ pane.open = "yes"
      BY <1>16 DEF EmitOther, Handle
    <2>. QED
      BY <1>8, <2>1, <2>2, Zenon
  <1>. HIDE DEF Shown
  <1>17. Shown
    BY <1>4, <1>5, <1>6, <1>7, <1>9, <1>10, <1>12, <1>13, <1>14, <1>15, <1>16, Zenon DEF AppStep
  <1>. QED
    BY <1>17 DEF Shown

\* What a handler has still to announce is of the agent that is there.
LEMMA NewsStep ==
  ASSUME AppTypeOK, News, AppStep
  PROVE  News'
  <1>1. CASE EmitNext
    <2>1. UNCHANGED pane /\ \A i \in 1 .. Len(pending') : i + 1 \in 1 .. Len(pending) /\ pending'[i] = pending[i + 1]
      BY <1>1 DEF EmitNext, AppTypeOK
    <2>. SUFFICES ASSUME Here', NEW i \in 1 .. Len(pending')
                  PROVE  /\ EndsFor(pending'[i], pane'.agent) => pane'.exited = "yes"
                         /\ Tells(pending'[i]) => pending'[i].status = Status(pane')
      BY Zenon DEF News
    <2>2. Here
      BY <2>1 DEF Here
    <2>. QED
      BY <2>1, <2>2, Zenon DEF News
  <1>2. CASE ~EmitNext
    <2>1. Keeps \/ Releases \/ Empties
      BY <1>2, Handlers, Zenon
    <2>. SUFFICES ASSUME Here', NEW i \in 1 .. Len(pending')
                  PROVE  /\ EndsFor(pending'[i], pane'.agent) => pane'.exited = "yes"
                         /\ Tells(pending'[i]) => pending'[i].status = Status(pane')
      BY Zenon DEF News
    <2>2. CASE Keeps
      BY <2>2 DEF Keeps, EndsFor
    <2>3. CASE Releases
      BY <2>3, Zenon DEF Releases
    <2>4. CASE Empties
      BY <2>4, Zenon DEF Empties, Here
    <2>. QED
      BY <2>1, <2>2, <2>3, <2>4, Zenon
  <1>. QED
    BY <1>1, <1>2

\* What the history of a request says after a step of the main thread.
WillHave(a, st) == [agent |-> a, status |-> st] \in held'
Watched ==
  /\ held \subseteq held'
  /\ pane'.agent # NoAgent => WillHave(pane'.agent, Status(pane'))
  /\ pane'.agent = NoAgent => WillHave(pane.agent, Status(pane'))
  /\ \A i \in 1 .. Len(pending') : Tells(pending'[i]) => WillHave(pending'[i].agent, pending'[i].status)
  /\ departed' = "no" => departed = "no" /\ pane'.agent = pane.agent /\ pane'.exited = "no" /\ pane'.open = "yes" /\ pane.open = "yes"
  /\ departed' \in {"yes", "no"} /\ UNCHANGED <<swapped, missed>>

LEMMA WitnessIs ==
  ASSUME AppTypeOK, WShapes, AppStep, Witness, pc # "ask"
  PROVE  Watched
  <1>1. AppTypeOK'
    BY AppTypes
  <1>2. /\ held' = held \cup {Holding(pane, pane')} \cup Announced(pending')
        /\ departed' = IF pane'.agent # pane.agent \/ pane'.exited = "yes" \/ pane'.open = "no" THEN "yes" ELSE departed
        /\ UNCHANGED <<swapped, missed>>
    BY DEF Witness
  <1>3. Holding(pane, pane') \in held' /\ Announced(pending') \subseteq held' /\ held \subseteq held'
    BY <1>2
  <1>4. /\ pane'.agent # NoAgent => WillHave(pane'.agent, Status(pane'))
        /\ pane'.agent = NoAgent => WillHave(pane.agent, Status(pane'))
    BY <1>3 DEF Holding, WillHave
  <1>5. \A i \in 1 .. Len(pending') : Tells(pending'[i]) => WillHave(pending'[i].agent, pending'[i].status)
    <2>1. DOMAIN pending' = 1 .. Len(pending')
      BY <1>1 DEF AppTypeOK
    <2>. QED
      BY <1>3, <2>1, Zenon DEF Announced, WillHave
  <1>6. pane.open = "yes" \/ pane' = pane
    BY Handlers DEF EmitNext
  <1>7. pane' \in Panes /\ pane'.exited \in {"yes", "no"} /\ pane'.open \in {"yes", "no"}
    BY <1>1 DEF AppTypeOK, Panes
  <1>8. departed' = "no" => departed = "no" /\ pane'.agent = pane.agent /\ pane'.exited = "no" /\ pane'.open = "yes" /\ pane.open = "yes"
    BY <1>2, <1>6, <1>7, Zenon
  <1>. QED
    BY <1>2, <1>3, <1>4, <1>5, <1>8, Zenon DEF Watched, WShapes

\* emit_event moves the next event of the handler to the end of the log.
Emits ==
  /\ nextSequence \in Nat /\ nextSequence' = nextSequence + 1 /\ UNCHANGED pane
  /\ \A q \in 1 .. nextSequence : log'[q] = log[q]
  /\ log'[nextSequence + 1] = pending[1] /\ 1 \in 1 .. Len(pending)
  /\ Len(pending) \in Nat /\ Len(pending') \in Nat /\ Len(pending') + 1 = Len(pending)
  /\ \A i \in 1 .. Len(pending') : i + 1 \in 1 .. Len(pending) /\ pending'[i] = pending[i + 1]

LEMMA EmitIs ==
  ASSUME History, EmitNext
  PROVE  Emits
  <1>1. AppTypeOK /\ Len(log) = nextSequence /\ pending # <<>> /\ pending \in Seq(Events)
    BY DEF History, AppTypeOK, EmitNext
  <1>2. /\ Head(pending) \in Events /\ Head(pending) = pending[1] /\ 1 \in 1 .. Len(pending)
        /\ Len(pending) \in Nat
    BY <1>1
  <1>3. pending' = Tail(pending) /\ Push(Head(pending)) /\ UNCHANGED pane
    BY DEF EmitNext
  <1>4. /\ Len(pending') \in Nat /\ Len(pending') + 1 = Len(pending)
        /\ \A i \in 1 .. Len(pending') : i + 1 \in 1 .. Len(pending) /\ pending'[i] = pending[i + 1]
    BY <1>1, <1>3
  <1>5. /\ nextSequence' = nextSequence + 1
        /\ \A q \in 1 .. nextSequence : log'[q] = log[q]
        /\ log'[nextSequence + 1] = pending[1]
    BY <1>1, <1>2, <1>3, PushType, Zenon
  <1>. QED
    BY <1>1, <1>2, <1>3, <1>4, <1>5, Zenon DEF Emits, AppTypeOK

\* The thread of the wait and what it holds do not change.
Idle == UNCHANGED <<pc, call, reply, outcome, subs, request, wait, submitted>>

\* What was seen since the request began.
LEMMA SeenStep ==
  ASSUME Seen, Watched, Idle, pc \in Asked
  PROVE  Seen'
  <1>. USE DEF Idle, wait
  <1>1. Here' => WillHave(pane'.agent, Status(pane'))
    BY DEF Watched, Here
  <1>2. departed' = "no" => /\ pane'.exited = "no" /\ departed = "no"
                            /\ pane'.agent = pane.agent /\ (Here' <=> Here)
    BY DEF Watched, Here
  <1>3. ASSUME NEW r \in reply \cup submitted
        PROVE  /\ r.err = "none" => /\ WillHave(r.pane.agent, Status(r.pane)) /\ r.pane.agent # NoAgent
                                    /\ departed' = "no" => Here' /\ r.pane.agent = pane'.agent
               /\ r.err = "not_found" /\ departed' = "no" => ~Here'
    <2>1. Had(r.pane.agent, Status(r.pane)) => WillHave(r.pane.agent, Status(r.pane))
      BY DEF Had, WillHave, Watched
    <2>. QED
      BY <1>2, <2>1, Zenon DEF Seen
  <1>4. pc \in Knowing /\ departed' = "no" => Here' /\ pane'.agent = expected
    BY <1>2, Zenon DEF Seen
  <1>. QED
    BY <1>1, <1>2, <1>3, <1>4 DEF Seen, Had, WillHave

\* What the log and the handler tell since the request began.
LEMMA ToldStep ==
  ASSUME History, WShapes, News, Seen, Told, Watched, Idle, pc \in Asked, EmitNext \/ UNCHANGED hub
  PROVE  Told'
  <1>. USE DEF Idle, wait
  <1>1. \A i \in 1 .. Len(pending') : Tells(pending'[i]) => \E h \in held' : h.status = pending'[i].status
    BY Zenon DEF Watched, WillHave
  <1>2. ASSUME NEW st, \E h \in held : h.status = st PROVE \E h \in held' : h.status = st
    BY <1>2 DEF Watched
  <1>3. ASSUME NEW a, NEW st, Had(a, st) PROVE WillHave(a, st)
    BY <1>3 DEF Watched, Had, WillHave
  <1>4. departed' = "no" /\ Here' => departed = "no" /\ Here /\ pane'.agent = pane.agent
    BY Zenon DEF Watched, Here
  <1>. DEFINE Good(ev) == Tells(ev) => \E h \in held' : h.status = ev.status
              Fine(ev) == ~EndsFor(ev, pane'.agent) /\ (Tells(ev) => WillHave(pane'.agent, ev.status))
  <1>5. ASSUME pc \in Placed, NEW q \in base + 1 .. nextSequence', q \in 1 .. nextSequence => log'[q] = log[q]
        PROVE  Good(log'[q]) /\ (departed' = "no" /\ Here' => Fine(log'[q]))
    <2>1. CASE q \in base + 1 .. nextSequence
      <3>1. q \in 1 .. nextSequence
        BY <2>1 DEF WShapes, History, AppTypeOK
      <3>2. log'[q] = log[q]
        BY <1>5, <3>1
      <3>3. Good(log[q])
        BY <1>2, <1>5, <2>1, Zenon DEF Told
      <3>4. departed' = "no" /\ Here' => Fine(log[q])
        BY <1>3, <1>4, <1>5, <2>1, Zenon DEF Told
      <3>. QED
        BY <3>2, <3>3, <3>4, Zenon
    <2>2. CASE q \notin base + 1 .. nextSequence
      <3>1. EmitNext
        BY <2>2 DEF hub
      <3>2. Emits
        BY <3>1, EmitIs, Zenon
      <3>3. q = nextSequence + 1
        BY <2>2, <3>2 DEF Emits, WShapes
      <3>4. log'[q] = pending[1] /\ 1 \in 1 .. Len(pending)
        BY <3>2, <3>3 DEF Emits
      <3>5. Good(pending[1])
        BY <1>2, <3>4, Zenon DEF Told
      <3>6. ASSUME departed' = "no", Here' PROVE Fine(pending[1])
        <4>1. Here /\ departed = "no" /\ pane'.agent = pane.agent
          BY <1>4, <3>6
        <4>2. pane.exited = "no" /\ Had(pane.agent, Status(pane))
          BY <4>1, Zenon DEF Seen
        <4>3. ~EndsFor(pending[1], pane.agent) /\ (Tells(pending[1]) => pending[1].status = Status(pane))
          BY <3>4, <4>1, <4>2, Zenon DEF News
        <4>. QED
          BY <1>3, <4>1, <4>2, <4>3, Zenon
      <3>. QED
        BY <3>4, <3>5, <3>6, Zenon
    <2>. QED
      BY <2>1, <2>2
  <1>6. \A q \in 1 .. nextSequence : log'[q] = log[q]
    <2>1. CASE EmitNext
      BY <2>1, EmitIs, Zenon DEF Emits
    <2>. QED
      BY <2>1, Zenon DEF hub
  <1>7. pc \in Placed => \A q \in base + 1 .. nextSequence' :
           Good(log'[q]) /\ (departed' = "no" /\ Here' => Fine(log'[q]))
    BY <1>5, <1>6, Zenon
  <1>. QED
    BY <1>1, <1>7, Zenon DEF Told, Had, WillHave

\* emit_event: what was told of the agent by the handler is told by the log.
LEMMA PinnedEmit ==
  ASSUME WShapes, NEW a, PinnedTo(a), Emits, base <= nextSequence,
         held \subseteq held', UNCHANGED base
  PROVE  PinnedTo(a)'
  <1>1. base \in Nat /\ nextSequence \in Nat
    BY Zenon DEF WShapes, Emits
  <1>2. ASSUME NEW q \in Int, q <= nextSequence PROVE Clean(a, q)' <=> Clean(a, q)
    <2>1. \A k \in base + 1 .. q : k \in 1 .. nextSequence
      BY <1>1, <1>2
    <2>2. \A k \in base + 1 .. q : log'[k] = log[k]
      BY <2>1 DEF Emits
    <2>. QED
      BY <2>2 DEF Clean
  <1>3. ASSUME NEW st, Had(a, st) PROVE WillHave(a, st)
    BY <1>3, Zenon DEF Had, WillHave
  <1>4. ASSUME NEW q \in base + 1 .. nextSequence', Clean(a, q - 1)', Tells(log'[q])
        PROVE  WillHave(a, log'[q].status)
    <2>1. CASE q \in base + 1 .. nextSequence
      <3>1. q - 1 \in Int /\ q - 1 <= nextSequence /\ q \in 1 .. nextSequence
        BY <1>1, <2>1
      <3>2. Clean(a, q - 1) /\ log'[q] = log[q]
        BY <1>2, <1>4, <3>1 DEF Emits
      <3>3. Had(a, log[q].status)
        BY <1>4, <2>1, <3>2, Zenon DEF PinnedTo
      <3>. QED
        BY <1>3, <3>2, <3>3, Zenon
    <2>2. CASE q \notin base + 1 .. nextSequence
      <3>1. q = nextSequence + 1 /\ q - 1 = nextSequence /\ q - 1 \in Int /\ q - 1 <= nextSequence
        BY <1>1, <1>4, <2>2 DEF Emits
      <3>2. Clean(a, nextSequence)
        BY <1>2, <1>4, <3>1, Zenon
      <3>3. log'[q] = pending[1] /\ 1 \in 1 .. Len(pending)
        BY <3>1 DEF Emits
      <3>4. CleanTo(a, 1 - 1)
        BY <3>2 DEF CleanTo
      <3>5. Had(a, pending[1].status)
        BY <1>4, <3>3, <3>4, Zenon DEF PinnedTo
      <3>. QED
        BY <1>3, <3>3, <3>5, Zenon
    <2>. QED
      BY <2>1, <2>2, Zenon
  <1>5. ASSUME NEW i \in Nat, i <= Len(pending'), CleanTo(a, i)' PROVE CleanTo(a, i + 1)
    <2>1. /\ \A k \in base + 1 .. nextSequence + 1 : ~EndsFor(log'[k], a)
          /\ \A k \in 1 .. i : ~EndsFor(pending'[k], a)
      BY <1>5 DEF CleanTo, Clean, Emits
    <2>2. Clean(a, nextSequence)
      <3>1. \A k \in base + 1 .. nextSequence :
              k \in base + 1 .. nextSequence + 1 /\ k \in 1 .. nextSequence
        BY <1>1
      <3>2. \A k \in 1 .. nextSequence : log'[k] = log[k]
        BY Zenon DEF Emits
      <3>. QED
        BY <2>1, <3>1, <3>2, Zenon DEF Clean
    <2>3. ~EndsFor(pending[1], a)
      <3>1. nextSequence + 1 \in base + 1 .. nextSequence + 1
        BY <1>1
      <3>. QED
        BY <2>1, <3>1 DEF Emits
    <2>4. \A k \in 1 .. i + 1 : k = 1 \/ (k - 1 \in 1 .. i /\ pending[k] = pending'[k - 1])
      BY <1>5, SMTT(30) DEF Emits
    <2>. QED
      BY <2>1, <2>2, <2>3, <2>4, Zenon DEF CleanTo
  <1>6. ASSUME NEW i \in 1 .. Len(pending'), CleanTo(a, i - 1)', Tells(pending'[i])
        PROVE  WillHave(a, pending'[i].status)
    <2>1. i - 1 \in Nat /\ i - 1 <= Len(pending') /\ (i - 1) + 1 = (i + 1) - 1
      BY DEF Emits
    <2>2. CleanTo(a, (i + 1) - 1)
      BY <1>5, <1>6, <2>1, Zenon
    <2>3. i + 1 \in 1 .. Len(pending) /\ pending'[i] = pending[i + 1]
      BY DEF Emits
    <2>4. Had(a, pending[i + 1].status)
      BY <1>6, <2>2, <2>3, Zenon DEF PinnedTo
    <2>. QED
      BY <1>3, <2>3, <2>4
  <1>7. CleanTo(a, Len(pending))' => pane'.agent \in {NoAgent, a}
    <2>1. CleanTo(a, Len(pending))' => CleanTo(a, Len(pending))
      BY <1>5 DEF Emits
    <2>. QED
      BY <2>1, Zenon DEF PinnedTo, Emits
  <1>. QED
    BY <1>4, <1>6, <1>7, Zenon DEF PinnedTo, Had, WillHave

\* A handler: what it announces up to the end of the agent is of it.
LEMMA PinnedHandler ==
  ASSUME WShapes, NEW a, PinnedTo(a), pending = <<>>, UNCHANGED <<hub, base>>, Watched,
         Len(pending') \in Nat, Keeps \/ Releases \/ Empties
  PROVE  PinnedTo(a)'
  <1>1. \A q : Clean(a, q)' <=> Clean(a, q)
    BY DEF Clean, hub
  <1>2. UNCHANGED <<nextSequence, log>>
    BY Zenon DEF hub
  <1>3. ASSUME NEW st, Had(a, st) PROVE WillHave(a, st)
    BY <1>3, Zenon DEF Had, WillHave, Watched
  <1>4. ASSUME NEW q \in base + 1 .. nextSequence', Clean(a, q - 1)', Tells(log'[q])
        PROVE  WillHave(a, log'[q].status)
    BY <1>1, <1>2, <1>3, <1>4, Zenon DEF PinnedTo
  <1>5. ASSUME NEW i, CleanTo(a, i)' PROVE pane.agent \in {NoAgent, a}
    <2>1. Clean(a, nextSequence)
      BY <1>1, <1>2, <1>5, Zenon DEF CleanTo
    <2>2. CleanTo(a, Len(pending))
      BY <2>1 DEF CleanTo
    <2>. QED
      BY <2>2, Zenon DEF PinnedTo
  <1>6. ASSUME NEW i \in Nat, CleanTo(a, i)', i > 0 PROVE ~EndsFor(pending'[1], a)
    BY <1>6 DEF CleanTo
  <1>7. ASSUME NEW i \in 1 .. Len(pending'), CleanTo(a, i - 1)', Tells(pending'[i])
        PROVE  WillHave(a, pending'[i].status)
    <2>1. pane.agent \in {NoAgent, a}
      BY <1>5, <1>7, Zenon
    <2>2. i # 1 => ~EndsFor(pending'[1], a)
      <3>1. i # 1 => i - 1 \in Nat /\ i - 1 > 0
        OBVIOUS
      <3>. QED
        BY <1>6, <1>7, <3>1, Zenon
    <2>3. CASE Keeps
      <3>1. /\ pending'[i].status = Status(pane') /\ (pane.agent # NoAgent \/ pane'.agent # NoAgent)
            /\ pending'[i].kind # "closed" /\ pending'[i].released = "no"
            /\ pane'.agent # pane.agent =>
                 pending'[1].kind = "detected" /\ pending'[1].released = "no" /\ pending'[1].agent = pane'.agent
        BY <1>7, <2>3, Zenon DEF Keeps
      <3>2. pane'.agent # pane.agent => i # 1
        BY <1>7, <3>1, Zenon DEF Tells
      <3>3. pane'.agent # pane.agent => pane'.agent \in {NoAgent, a}
        BY <2>2, <3>1, <3>2, Zenon DEF EndsFor
      <3>4. (pane'.agent = a /\ a # NoAgent) \/ (pane'.agent = NoAgent /\ pane.agent = a)
        BY <2>1, <3>1, <3>3, Zenon
      <3>. QED
        BY <3>1, <3>4, Zenon DEF Watched
    <2>4. CASE Releases
      <3>1. pane.agent = a /\ EndsFor(pending'[1], a) /\ pending'[1].agent = a
        BY <2>1, <2>4, Zenon DEF Releases, EndsFor
      <3>2. i = 1
        BY <2>2, <3>1, Zenon
      <3>. QED
        BY <1>7, <3>1, <3>2, Zenon DEF Watched
    <2>5. CASE Empties
      BY <1>7, <2>5, Zenon DEF Empties
    <2>. QED
      BY <2>3, <2>4, <2>5, Zenon
  <1>8. CleanTo(a, Len(pending))' => pane'.agent \in {NoAgent, a}
    <2>. SUFFICES ASSUME CleanTo(a, Len(pending))' PROVE pane'.agent \in {NoAgent, a}
      OBVIOUS
    <2>2. pane.agent \in {NoAgent, a}
      BY <1>5, Zenon
    <2>3. 1 \in 1 .. Len(pending') => ~EndsFor(pending'[1], a)
      BY Zenon DEF CleanTo
    <2>4. CASE Keeps
      BY <2>2, <2>3, <2>4, Zenon DEF Keeps, EndsFor
    <2>5. CASE Releases
      BY <2>3, <2>5, Zenon DEF Releases, EndsFor
    <2>6. CASE Empties
      BY <2>6 DEF Empties
    <2>. QED
      BY <2>4, <2>5, <2>6, Zenon
  <1>. QED
    BY <1>4, <1>7, <1>8, Zenon DEF PinnedTo, Had, WillHave

\* A step of the main thread beside a wait.
LEMMA MainWaits ==
  ASSUME IInv, WInv, Main, subs = <<>>
  PROVE  WInv'
  <1>0. /\ History /\ AppTypeOK /\ WShapes /\ News /\ Methods /\ Seen /\ Told /\ Pinned /\ Matched /\ Gate /\ Results
    BY Zenon DEF IInv, History, WInv
  <1>1. AppStep /\ Idle /\ Witness /\ outcome = "open"
    BY Zenon DEF Main, Idle, thread, calls, subVars
  <1>2. answer = {} /\ answer' = {} /\ outcome' = "open" /\ outcome = "open"
    BY <1>0, <1>1, Zenon DEF Results, Idle, wait
  <1>3. Results'
    BY <1>2, Zenon DEF Results, SuccessIsHonest, PromptWasActive, NotRunningIsTrue
  <1>4. News'
    BY <1>0, <1>1, NewsStep, Zenon
  <1>5. History' /\ nextSequence <= nextSequence' /\ nextSequence \in Nat /\ nextSequence' \in Nat
    BY <1>0, <1>1, HistoryStep, Zenon DEF History, AppTypeOK
  <1>6. Methods'
    BY <1>0, <1>1, <1>2, <1>5 DEF Methods, Idle, wait, WShapes
  <1>7. CASE pc = "ask"
    <2>1. UNCHANGED past /\ pc' = "ask" /\ pc' \notin Asked /\ pc' \notin Reading
      BY <1>1, <1>7, Zenon DEF Witness, Idle, past, Asked, Reading
    <2>2. WShapes'
      BY <1>0, <1>1, <2>1, Zenon DEF WShapes, Idle, wait, past
    <2>3. Seen' /\ Told' /\ Pinned' /\ Matched'
      BY <2>1, Zenon DEF Seen, Told, Pinned, Matched, Asked, Placed
    <2>4. Gate'
      BY <1>0, <1>1, <2>1, Zenon DEF Gate, WasActive, Idle, wait, past
    <2>. QED
      BY <1>3, <1>4, <1>6, <2>2, <2>3, <2>4, Zenon DEF WInv
  <1>8. CASE pc # "ask"
    <2>1. pc \in Asked
      BY <1>0, <1>1, <1>8, Zenon DEF Methods
    <2>2. Watched
      BY <1>0, <1>1, <1>8, WitnessIs, Zenon
    <2>3. WShapes'
      BY <1>0, <1>1, <2>2, Zenon DEF WShapes, Idle, wait, Watched
    <2>4. Seen'
      BY <1>0, <1>1, <2>1, <2>2, SeenStep, Zenon
    <2>5. EmitNext \/ UNCHANGED hub
      BY <1>1, OnlyEmitPushes, Zenon
    <2>6. Told'
      BY <1>0, <1>1, <2>1, <2>2, <2>5, ToldStep, Zenon
    <2>7. Pinned'
      <3>. SUFFICES ASSUME pc \in Reading, swapped = "no"
                    PROVE  PinnedTo(expected)' /\ (missed' = "no" => Clean(expected, pos)')
        BY <1>1, <2>2, Zenon DEF Pinned, Idle, Watched
      <3>1. PICK a : a = expected
        OBVIOUS
      <3>2. expected' = a /\ UNCHANGED <<base, pos, missed>> /\ held \subseteq held'
        BY <1>1, <2>2, <3>1, Zenon DEF Idle, wait, Watched
      <3>3. PinnedTo(a) /\ (missed = "no" => Clean(a, pos))
        BY <1>0, <3>1, Zenon DEF Pinned
      <3>4. base \in Nat /\ pos \in Nat /\ base <= nextSequence /\ pos <= nextSequence
        BY <1>0, Zenon DEF Methods, Reading, Placed, WShapes
      <3>5. PinnedTo(a)'
        <4>1. CASE EmitNext
          BY <1>0, <3>2, <3>3, <3>4, <4>1, EmitIs, PinnedEmit, Zenon
        <4>2. CASE ~EmitNext
          <5>1. pending = <<>> /\ UNCHANGED hub /\ (Keeps \/ Releases \/ Empties)
            BY <1>0, <1>1, <4>2, Handlers, Zenon
          <5>2. Len(pending') \in Nat
            BY <1>5 DEF History, AppTypeOK
          <5>. QED
            BY <1>0, <2>2, <3>2, <3>3, <5>1, <5>2, PinnedHandler, Zenon
        <4>. QED
          BY <4>1, <4>2, Zenon
      <3>6. \A q \in 1 .. nextSequence : log'[q] = log[q]
        BY <1>0, <1>1, HistoryStep, Zenon
      <3>7. \A k \in base + 1 .. pos : k \in 1 .. nextSequence
        BY <1>5, <3>4
      <3>8. missed' = "no" => Clean(a, pos)'
        BY <3>2, <3>3, <3>6, <3>7, Zenon DEF Clean
      <3>. QED
        BY <3>2, <3>5, <3>8, Zenon DEF PinnedTo, Clean, CleanTo
    <2>8. Matched'
      BY <1>0, <1>1, <2>2, Zenon DEF Matched, Fits, Until, Settled, Idle, wait, Watched
    <2>9. Gate'
      BY <1>0, <1>1, <2>2, Zenon DEF Gate, WasActive, Idle, wait, Watched
    <2>. QED
      BY <1>3, <1>4, <1>6, <2>3, <2>4, <2>6, <2>7, <2>8, <2>9, Zenon DEF WInv
  <1>. QED
    BY <1>7, <1>8, Zenon

----------------------------------------------------------------------------
(* The thread of the wait. *)

\* An answer is given, or a prompt is on its way.
LEMMA Replied ==
  ASSUME WInv, UNCHANGED <<hub, app, pc, outcome, subs, request, phase, base, pos, expected, matched, begun, answer, past>>,
         call' = call, pc # "ask" \/ submitted' = submitted,
         pc \in Asked => \A r \in reply' \cup submitted' :
           r \in reply \cup submitted
             \/ (r.pane = pane /\ (r.err = "none" => Here) /\ (r.err = "not_found" => ~Here))
  PROVE  WInv'
  <1>. USE DEF hub, app, past
  <1>0. /\ WShapes /\ News /\ Methods /\ Seen /\ Told /\ Pinned /\ Matched /\ Gate /\ Results
    BY Zenon DEF WInv
  <1>1. WShapes' /\ Methods'
    BY <1>0, Zenon DEF WShapes, Methods
  <1>2. News'
    BY <1>0, Zenon DEF News, Here
  <1>3. Seen'
    <2>. SUFFICES ASSUME pc \in Asked
                  PROVE  /\ Here => Had(pane.agent, Status(pane))
                         /\ departed = "no" => pane.exited = "no"
                         /\ pc \in Knowing /\ departed = "no" => Here /\ pane.agent = expected
                         /\ \A r \in reply' \cup submitted' :
                              /\ r.err = "none" => /\ Had(r.pane.agent, Status(r.pane)) /\ r.pane.agent # NoAgent
                                                   /\ departed = "no" => Here /\ r.pane.agent = pane.agent
                              /\ r.err = "not_found" /\ departed = "no" => ~Here
      BY Zenon DEF Seen, Had, Here
    <2>1. Here => Had(pane.agent, Status(pane)) /\ pane.agent # NoAgent
      BY <1>0, Zenon DEF Seen, Here
    <2>2. \A r \in reply \cup submitted :
            /\ r.err = "none" => /\ Had(r.pane.agent, Status(r.pane)) /\ r.pane.agent # NoAgent
                                 /\ departed = "no" => Here /\ r.pane.agent = pane.agent
            /\ r.err = "not_found" /\ departed = "no" => ~Here
      BY <1>0, Zenon DEF Seen
    <2>3. /\ departed = "no" => pane.exited = "no"
          /\ pc \in Knowing /\ departed = "no" => Here /\ pane.agent = expected
      BY <1>0, Zenon DEF Seen
    <2>. QED
      BY <2>1, <2>2, <2>3, Zenon
  <1>4. Told'
    BY <1>0, Zenon DEF Told, Had, Here
  <1>5. Pinned' /\ Matched'
    BY <1>0, Zenon DEF Pinned, PinnedTo, Clean, CleanTo, Had, Matched, Fits, Until, Settled
  <1>6. Gate' /\ Results'
    BY <1>0, Zenon DEF Gate, WasActive, Results, SuccessIsHonest, PromptWasActive, NotRunningIsTrue, Settled
  <1>. QED
    BY <1>1, <1>2, <1>3, <1>4, <1>5, <1>6, Zenon DEF WInv

\* The wait is over.
LEMMA Ended ==
  ASSUME WInv, UNCHANGED <<hub, app, subs, request, phase, base, begun, held, departed>>, subs = <<>>, pos' \in Nat,
         swapped' \in {"yes", "no"}, missed' \in {"yes", "no"},
         pc' = "ended", outcome' # "open",
         SuccessIsHonest', PromptWasActive', NotRunningIsTrue'
  PROVE  WInv'
  <1>. USE DEF hub, app
  <1>1. pc' \notin Asked \cup {"ask"} /\ pc' \notin Placed /\ pc' \notin Reading /\ pc' # "again"
    BY Zenon DEF Asked, Placed, Reading
  <1>2. WShapes' /\ Methods'
    BY <1>1, Zenon DEF WInv, WShapes, Methods
  <1>3. News'
    BY Zenon DEF WInv, News, Here
  <1>4. Seen' /\ Told' /\ Pinned' /\ Matched'
    BY <1>1, Zenon DEF Seen, Told, Pinned, Matched
  <1>5. Gate' /\ Results'
    BY <1>1, Zenon DEF WInv, Gate, WasActive, Results
  <1>. QED
    BY <1>2, <1>3, <1>4, <1>5, Zenon DEF WInv

\* The loop goes on.
LEMMA GoesOn ==
  ASSUME WInv, subs = <<>>, outcome = "open", pc \in Reading, pc' \in Reading,
         UNCHANGED <<hub, app, outcome, subs, request, phase, base, expected, begun, answer, held, departed, swapped, submitted>>,
         reply' \subseteq reply, call' \in {call, "agent", "none"},
         missed' \in {missed, "yes"}, missed' = "no" /\ swapped = "no" => Clean(expected, pos'),
         pos' \in Nat, base <= pos', pos' <= nextSequence, Matched'
  PROVE  WInv'
  <1>. USE DEF hub, app
  <1>0. /\ WShapes /\ News /\ Methods /\ Seen /\ Told /\ Pinned /\ Gate /\ Results
    BY Zenon DEF WInv
  <1>1. /\ pc \in Asked /\ pc \in Knowing /\ pc \in Placed /\ pc' \in Asked /\ pc' \in Knowing /\ pc' \in Placed
        /\ pc' \notin {"ask", "first", "before", "position", "prompted"}
    BY Zenon DEF Asked, Knowing, Placed, Reading
  <1>2. WShapes' /\ Methods'
    BY <1>0, <1>1, Zenon DEF WShapes, Methods
  <1>3. News'
    BY <1>0, Zenon DEF News, Here
  <1>4. Seen'
    BY <1>0, <1>1, Zenon DEF Seen, Had, Here
  <1>5. Told'
    BY <1>0, <1>1, Zenon DEF Told, Had, Here
  <1>6. Pinned'
    BY <1>0, <1>1, Zenon DEF Pinned, PinnedTo, Clean, CleanTo, Had, WShapes
  <1>7. Gate' /\ Results'
    BY <1>0, <1>1, Zenon DEF Gate, WasActive, Results, SuccessIsHonest, PromptWasActive, NotRunningIsTrue, Settled
  <1>. QED
    BY <1>2, <1>3, <1>4, <1>5, <1>6, <1>7, Zenon DEF WInv

\* As long as no agent has departed, all that is told is told of the one there.
LEMMA Pins ==
  ASSUME WShapes, News, Seen, Told, pc \in Placed, Here, departed = "no"
  PROVE  PinnedTo(pane.agent)
  <1>1. pc \in Asked
    BY DEF Placed, Asked
  <1>2. Had(pane.agent, Status(pane))
    BY <1>1, Zenon DEF Seen
  <1>3. \A i \in 1 .. Len(pending) : Tells(pending[i]) => Had(pane.agent, pending[i].status)
    BY <1>2 DEF News
  <1>4. \A q \in base + 1 .. nextSequence : Tells(log[q]) => Had(pane.agent, log[q].status)
    BY Zenon DEF Told
  <1>. QED
    BY <1>3, <1>4, Zenon DEF PinnedTo

\* wait_for_resolved_agent begins.
LEMMA Entered ==
  ASSUME WInv, subs = <<>>, outcome = "open", pc \in Placed, pc' = "loop",
         UNCHANGED <<hub, app, outcome, subs, request, base, begun, answer, held, departed, submitted>>,
         reply' \subseteq reply, call' \in {call, "none"}, pos' = base,
         missed' \in {missed, "yes"}, swapped' \in {"yes", "no"},
         departed = "no" => Here /\ pane.agent = expected',
         swapped' = "no" => PinnedTo(expected'), Gate'
  PROVE  WInv'
  <1>. USE DEF hub, app
  <1>0. /\ WShapes /\ News /\ Methods /\ Seen /\ Told /\ Pinned /\ Gate /\ Results
    BY Zenon DEF WInv
  <1>1. /\ pc \in Asked /\ pc' \in Asked /\ pc' \in Knowing /\ pc' \in Placed /\ pc' \in Reading
        /\ pc' \notin {"ask", "first", "before", "position", "prompted", "again"}
    BY Zenon DEF Asked, Knowing, Placed, Reading
  <1>2. base <= nextSequence /\ base \in Nat
    BY <1>0 DEF Methods, WShapes
  <1>3. WShapes' /\ Methods'
    <2>1. base <= base
      BY <1>2
    <2>2. missed' \in {"yes", "no"}
      BY <1>0, Zenon DEF WShapes
    <2>. QED
      BY <1>0, <1>1, <1>2, <2>1, <2>2, Zenon DEF WShapes, Methods
  <1>4. News'
    BY <1>0, Zenon DEF News, Here
  <1>5. Seen'
    BY <1>0, <1>1, Zenon DEF Seen, Had, Here
  <1>6. Told'
    BY <1>0, <1>1, Zenon DEF Told, Had, Here
  <1>7. Pinned'
    <2>1. Clean(expected, pos)'
      BY <1>2 DEF Clean
    <2>2. swapped' = "no" => PinnedTo(expected)'
      BY Zenon DEF PinnedTo, Clean, CleanTo, Had
    <2>. QED
      BY <2>1, <2>2, Zenon DEF Pinned
  <1>8. Matched' /\ Results'
    BY <1>0, <1>1, Zenon DEF Matched, Results, SuccessIsHonest, PromptWasActive, NotRunningIsTrue
  <1>. QED
    BY <1>3, <1>4, <1>5, <1>6, <1>7, <1>8, Zenon DEF WInv

\* A status is found that is waited for.
LEMMA Satisfied ==
  ASSUME WInv, subs = <<>>, outcome = "open", pc \in Reading, NEW st \in Until, Match(st),
         UNCHANGED <<hub, app, subs, request, base, begun, held, departed, swapped, submitted>>,
         reply' \subseteq reply, call' \in {call, "none"}, missed' \in {missed, "yes"},
         \E h \in held : h.status = st /\ (missed' = "no" /\ swapped = "no" => h.agent = expected)
  PROVE  WInv'
  <1>0. /\ WShapes /\ News /\ Methods /\ Seen /\ Pinned /\ Gate /\ Results
    BY Zenon DEF WInv
  <1>1. pc \in Placed /\ pc \in Asked /\ pc \in Knowing
    BY Zenon DEF Asked, Knowing, Placed, Reading
  <1>2. request.method = "prompt" => WasActive
    <2>1. CASE phase = "gate"
      BY <2>1, Zenon DEF Until, WasActive
    <2>2. CASE phase # "gate"
      BY <1>0, <2>2, Zenon DEF Gate
    <2>. QED
      BY <2>1, <2>2, Zenon
  <1>3. CASE Succeed(st) /\ UNCHANGED <<phase, pos, expected, due>> /\ st \in Settled
    <2>1. SuccessIsHonest' /\ PromptWasActive' /\ NotRunningIsTrue'
      BY <1>2, <1>3, Zenon DEF SuccessIsHonest, PromptWasActive, NotRunningIsTrue, Succeed, End, Settled, WasActive
    <2>2. pc' = "ended" /\ outcome' # "open" /\ UNCHANGED <<phase, pos>>
      BY <1>3, Zenon DEF Succeed, End
    <2>3. pos' \in Nat /\ swapped' \in {"yes", "no"} /\ missed' \in {"yes", "no"}
      BY <1>0, <2>2, Zenon DEF WShapes
    <2>. QED
      BY <2>1, <2>2, <2>3, Ended, Zenon
  <1>4. CASE Enter("settle", base, expected)
    <2>1. pc' = "loop" /\ pos' = base /\ expected' = expected /\ phase' = "settle" /\ UNCHANGED <<outcome, answer>>
      BY <1>4, Zenon DEF Enter
    <2>2. Gate'
      BY <1>2, <2>1, Zenon DEF Gate, WasActive
    <2>3. departed = "no" => Here /\ pane.agent = expected'
      BY <1>0, <1>1, <2>1, Zenon DEF Seen
    <2>4. swapped' = "no" => PinnedTo(expected')
      BY <1>0, <2>1, Zenon DEF Pinned
    <2>5. swapped' \in {"yes", "no"}
      BY <1>0, Zenon DEF WShapes
    <2>. QED
      BY <1>1, <2>1, <2>2, <2>3, <2>4, <2>5, Entered, Zenon
  <1>. QED
    BY <1>3, <1>4, Zenon DEF Match, Settle, Until

\* The request begins, and its history.
LEMMA Begins ==
  ASSUME History, WInv, WaitStart \/ PromptStart, UNCHANGED subVars
  PROVE  WInv'
  <1>. USE DEF At, hub, app, wait, calls
  <1>0. WShapes /\ News /\ Methods /\ Gate /\ Results /\ pane \in Panes /\ pending \in Seq(Events) /\ nextSequence \in Nat
    BY Zenon DEF WInv, History, AppTypeOK
  <1>1. /\ pc = "ask" /\ outcome = "open" /\ Begin /\ UNCHANGED <<nextSequence, log, pane, pending, outcome, request, phase, begun, answer, subs, submitted>>
        /\ reply' = {} /\ call' = "agent" /\ subs = <<>> /\ submitted = {}
        /\ \/ pc' = "first" /\ base' = nextSequence /\ pos' = nextSequence /\ request.method = "wait"
           \/ pc' = "before" /\ UNCHANGED <<base, pos>> /\ request.method = "prompt"
    BY <1>0, Zenon DEF WaitStart, PromptStart, Ask, Methods, subVars, Begin, past
  <1>2. /\ held' = {Holding(pane, pane)} \cup Announced(pending) /\ departed' = pane.exited /\ UNCHANGED <<swapped, missed>>
    BY <1>1, Zenon DEF Begin
  <1>3. pc' \in Asked /\ pc' \notin Knowing /\ pc' \notin Reading /\ (pc' \in Placed => pc' = "first") /\ pc' # "again"
    BY <1>1, Zenon DEF Asked, Knowing, Reading, Placed
  <1>4. WShapes'
    BY <1>0, <1>1, <1>2, Zenon DEF WShapes, Panes
  <1>5. News'
    BY <1>0, <1>1, Zenon DEF News, Here
  <1>6. Methods'
    BY <1>0, <1>1, <1>3 DEF Methods
  <1>8. Seen'
    <2>1. Here' => [agent |-> pane'.agent, status |-> Status(pane')] \in held'
      BY <1>1, <1>2, Zenon DEF Here, Holding
    <2>. QED
      BY <1>1, <1>2, <1>3, <2>1, Zenon DEF Seen, Had
  <1>9. Told'
    <2>1. \A i \in 1 .. Len(pending') : Tells(pending'[i]) => \E h \in held' : h.status = pending'[i].status
      <3>1. DOMAIN pending = 1 .. Len(pending)
        BY <1>0
      <3>2. ASSUME NEW i \in 1 .. Len(pending), Tells(pending[i])
            PROVE  [agent |-> pending[i].agent, status |-> pending[i].status] \in Announced(pending)
        BY <3>1, <3>2, Zenon DEF Announced
      <3>3. Announced(pending) \subseteq held' /\ pending' = pending
        BY <1>1, <1>2, Zenon
      <3>4. ASSUME NEW i \in 1 .. Len(pending), Tells(pending[i])
            PROVE  \E h \in held' : h.status = pending[i].status
        <4>. DEFINE h == [agent |-> pending[i].agent, status |-> pending[i].status]
        <4>1. h \in held' /\ h.status = pending[i].status
          BY <3>2, <3>3, <3>4, Zenon
        <4>. QED
          BY <4>1, Zenon
      <3>. QED
        BY <3>3, <3>4, Zenon
    <2>2. pc' \in Placed => base' + 1 .. nextSequence' = {}
      BY <1>0, <1>1, <1>3
    <2>. QED
      BY <2>1, <2>2, Zenon DEF Told
  <1>10. Pinned' /\ Matched'
    BY <1>3, Zenon DEF Pinned, Matched
  <1>11. Gate' /\ Results'
    <2>1. answer' = {}
      BY <1>0, <1>1, Zenon DEF Results
    <2>2. request.method = "prompt" => begun = "no" /\ phase # "settle"
      BY <1>0, <1>1, Zenon DEF Methods
    <2>. QED
      BY <1>1, <1>3, <2>1, <2>2, Zenon DEF Gate, Results, SuccessIsHonest, PromptWasActive, NotRunningIsTrue
  <1>. QED
    BY <1>4, <1>5, <1>6, <1>8, <1>9, <1>10, <1>11, Zenon DEF WInv

\* What a taken answer says.
Says(r) ==
  /\ r \in reply /\ r.err \in Errors \cup {"none"}
  /\ r.err = "none" => /\ Had(r.pane.agent, Status(r.pane)) /\ r.pane.agent # NoAgent
                       /\ departed = "no" => Here /\ r.pane.agent = pane.agent
  /\ r.err = "not_found" /\ departed = "no" => ~Here

LEMMA AnswerSays ==
  ASSUME Shapes, Seen, pc \in Asked, Answered
  PROVE  Says(TheReply)
  <1>1. TheReply \in reply /\ TheReply.err \in Errors \cup {"none"}
    BY TheReplyIs, Zenon
  <1>. QED
    BY <1>1, Zenon DEF Seen, Says

\* An error of the main thread ends the wait with that error.
LEMMA Failed ==
  ASSUME WInv, subs = <<>>, outcome = "open",
         UNCHANGED <<hub, app, subs, request, phase, base, begun, answer, held, departed>>,
         NEW e, e \notin {"open", "success", "not_running"}, End(e), pos' \in Nat, swapped' \in {"yes", "no"}, missed' \in {"yes", "no"}
  PROVE  WInv'
  <1>1. answer = {}
    BY Zenon DEF WInv, Results
  <1>2. SuccessIsHonest' /\ PromptWasActive' /\ NotRunningIsTrue'
    BY <1>1, Zenon DEF SuccessIsHonest, PromptWasActive, NotRunningIsTrue, End
  <1>. QED
    BY <1>2, Ended, Zenon DEF End

\* agent_not_running, once an agent has departed.
LEMMA Departed ==
  ASSUME WInv, subs = <<>>, outcome = "open", departed = "yes",
         UNCHANGED <<hub, app, subs, request, phase, base, begun, answer, held, departed>>,
         End("not_running"), pos' \in Nat, swapped' \in {"yes", "no"}, missed' \in {"yes", "no"}
  PROVE  WInv'
  <1>1. answer = {}
    BY Zenon DEF WInv, Results
  <1>2. SuccessIsHonest' /\ PromptWasActive' /\ NotRunningIsTrue'
    BY <1>1, Zenon DEF SuccessIsHonest, PromptWasActive, NotRunningIsTrue, End
  <1>. QED
    BY <1>2, Ended, Zenon DEF End

\* wait_for_agent has its first answer.
LEMMA FirstKeeps ==
  ASSUME Shapes, WInv, First, UNCHANGED subVars
  PROVE  WInv'
  <1>. USE DEF At, Taken
  <1>0. WShapes /\ News /\ Methods /\ Seen /\ Told /\ Gate /\ Results
    BY Zenon DEF WInv
  <1>1. /\ pc = "first" /\ outcome = "open" /\ subs = <<>> /\ request.method = "wait" /\ pc \in Asked /\ pc \in Placed
        /\ UNCHANGED <<hub, app, subs, request, base, begun, held, departed, missed, submitted>>
        /\ swapped' = departed /\ reply' = {} /\ call' = "none" /\ missed' \in {"yes", "no"} /\ swapped' \in {"yes", "no"}
    BY <1>0, Zenon DEF First, Methods, WShapes, subVars, Asked, Placed
  <1>2. PICK r : r = TheReply /\ Says(r)
    BY <1>0, <1>1, AnswerSays, Zenon DEF First
  <1>3. CASE r.err # "none" /\ End(r.err) /\ UNCHANGED <<phase, pos, expected, due, answer>>
    <2>1. r.err \notin {"open", "success", "not_running"}
      BY <1>2, <1>3, Zenon DEF Says, Errors
    <2>2. pos' \in Nat
      BY <1>0, <1>3, Zenon DEF WShapes
    <2>. QED
      BY <1>1, <1>3, <2>1, <2>2, Failed, Zenon
  <1>4. CASE /\ r.err = "none" /\ Status(r.pane) \in Settled /\ Succeed(Status(r.pane))
             /\ expected' = r.pane.agent /\ UNCHANGED <<phase, pos, due>>
    <2>1. Had(r.pane.agent, Status(r.pane))
      BY <1>2, <1>4, Zenon DEF Says
    <2>2. pc' = "ended" /\ outcome' = "success" /\ answer' = {Status(r.pane)}
      BY <1>4, Zenon DEF Succeed, End
    <2>3. SuccessIsHonest' /\ PromptWasActive' /\ NotRunningIsTrue'
      BY <1>1, <1>4, <2>1, <2>2, Zenon DEF SuccessIsHonest, PromptWasActive, NotRunningIsTrue, Settled, Had
    <2>4. pos' \in Nat
      BY <1>0, <1>4, Zenon DEF WShapes
    <2>. QED
      BY <1>1, <1>4, <2>2, <2>3, <2>4, Ended, Zenon
  <1>5. CASE r.err = "none" /\ Enter("wait", base, r.pane.agent)
    <2>1. pc' = "loop" /\ pos' = base /\ expected' = r.pane.agent /\ phase' = "wait" /\ UNCHANGED <<outcome, answer>>
      BY <1>5, Zenon DEF Enter
    <2>2. departed = "no" => Here /\ pane.agent = expected'
      BY <1>2, <1>5, <2>1, Zenon DEF Says
    <2>3. swapped' = "no" => PinnedTo(expected')
      BY <1>0, <1>1, <2>2, Pins, Zenon
    <2>4. Gate'
      BY <1>1, Zenon DEF Gate
    <2>5. reply' \subseteq reply
      BY <1>1, Zenon
    <2>. QED
      BY <1>1, <2>1, <2>2, <2>3, <2>4, <2>5, Entered, Zenon
  <1>. QED
    BY <1>2, <1>3, <1>4, <1>5, Zenon DEF First

\* prompt_agent has its first answer.
LEMMA BeforeKeeps ==
  ASSUME Shapes, WInv, Before, UNCHANGED subVars
  PROVE  WInv'
  <1>. USE DEF At, Taken, hub, app, past
  <1>0. WShapes /\ News /\ Methods /\ Seen /\ Told /\ Gate /\ Results
    BY DEF WInv
  <1>1. /\ pc = "before" /\ outcome = "open" /\ subs = <<>> /\ request.method = "prompt" /\ pc \in Asked
        /\ UNCHANGED <<hub, app, subs, request, phase, base, pos, matched, answer, submitted, past>>
        /\ reply' = {} /\ call' = "none" /\ answer = {}
    BY <1>0, Zenon DEF Before, Methods, subVars, Asked, Results
  <1>2. PICK r : r = TheReply /\ Says(r)
    BY <1>0, <1>1, AnswerSays, Zenon DEF Before
  <1>3. CASE r.err # "none" /\ End(r.err) /\ UNCHANGED <<expected, begun>>
    <2>1. r.err \notin {"open", "success", "not_running"}
      BY <1>2, <1>3, Zenon DEF Says, Errors
    <2>2. pos' \in Nat /\ missed' \in {"yes", "no"} /\ swapped' \in {"yes", "no"}
      BY <1>0, <1>1, Zenon DEF WShapes
    <2>. QED
      BY <1>1, <1>3, <2>1, <2>2, Failed, Zenon
  <1>4. CASE /\ r.err = "none" /\ pc' = "position" /\ expected' = r.pane.agent
             /\ begun' = IF Status(r.pane) = "working" THEN "yes" ELSE "no"
             /\ UNCHANGED outcome
    <2>1. pc' \in Asked /\ pc' \in Knowing /\ pc' \notin Placed /\ pc' \notin Reading /\ pc' \notin {"ask", "first", "again"}
      BY <1>4, Zenon DEF Asked, Knowing, Placed, Reading
    <2>2. WShapes' /\ Methods'
      BY <1>0, <1>1, <1>4, <2>1, Zenon DEF WShapes, Methods
    <2>3. News'
      BY <1>0, <1>1, Zenon DEF News, Here
    <2>4. Seen'
      <3>1. departed = "no" => Here /\ pane.agent = expected'
        BY <1>2, <1>4, Zenon DEF Says
      <3>. QED
        BY <1>0, <1>1, <3>1, Zenon DEF Seen, Had, Here
    <2>5. Told'
      BY <1>0, <1>1, <2>1, Zenon DEF Told
    <2>6. Pinned' /\ Matched'
      BY <2>1, Zenon DEF Pinned, Matched
    <2>7. Gate'
      <3>1. begun' = "yes" => WasActive
        <4>1. Had(r.pane.agent, Status(r.pane))
          BY <1>2, <1>4, Zenon DEF Says
        <4>. QED
          BY <1>4, <4>1, Zenon DEF WasActive, Had, Active
      <3>2. phase = "settle" => WasActive
        BY <1>0, <1>1, Zenon DEF Gate
      <3>. QED
        BY <1>1, <2>1, <3>1, <3>2, Zenon DEF Gate, WasActive
    <2>8. Results'
      BY <1>1, <1>4, Zenon DEF Results, SuccessIsHonest, PromptWasActive, NotRunningIsTrue
    <2>. QED
      BY <2>2, <2>3, <2>4, <2>5, <2>6, <2>7, <2>8, Zenon DEF WInv
  <1>. QED
    BY <1>2, <1>3, <1>4, Zenon DEF Before

\* prompt_agent notes the position and sends the prompt.
LEMMA PositionKeeps ==
  ASSUME History, WInv, Position, UNCHANGED subVars
  PROVE  WInv'
  <1>. USE DEF At, hub, app, past
  <1>0. WShapes /\ News /\ Methods /\ Seen /\ Told /\ Gate /\ Results /\ nextSequence \in Nat
    BY Zenon DEF WInv, History, AppTypeOK
  <1>1. /\ pc = "position" /\ outcome = "open" /\ subs = <<>> /\ request.method = "prompt" /\ pc' = "prompted"
        /\ UNCHANGED <<hub, app, subs, outcome, request, phase, expected, matched, begun, answer, submitted, past>>
        /\ base' = nextSequence /\ pos' = nextSequence /\ reply' = {} /\ call' = "prompt"
    BY <1>0, Zenon DEF Position, Ask, Methods, subVars, Asked
  <1>2. /\ pc \in Asked /\ pc \in Knowing /\ pc' \in Asked /\ pc' \in Knowing /\ pc' \in Placed
        /\ pc' \notin Reading /\ pc' \notin {"ask", "first", "again"}
    BY <1>1 DEF Asked, Knowing, Placed, Reading
  <1>3. WShapes' /\ Methods'
    <2>1. base' \in Nat /\ pos' \in Nat /\ base' <= nextSequence' /\ base' <= pos' /\ pos' <= nextSequence'
      BY <1>0, <1>1
    <2>. QED
      BY <1>0, <1>1, <1>2, <2>1, Zenon DEF WShapes, Methods
  <1>4. News'
    BY <1>0, <1>1, Zenon DEF News, Here
  <1>5. Seen'
    BY <1>0, <1>1, <1>2, Zenon DEF Seen, Had, Here
  <1>6. Told'
    <2>1. base' + 1 .. nextSequence' = {}
      BY <1>0, <1>1
    <2>. QED
      BY <1>0, <1>1, <1>2, <2>1, Zenon DEF Told
  <1>7. Pinned' /\ Matched'
    BY <1>2, Zenon DEF Pinned, Matched
  <1>8. Gate' /\ Results'
    BY <1>0, <1>1, <1>2, Zenon DEF Gate, WasActive, Results, SuccessIsHonest, PromptWasActive, NotRunningIsTrue
  <1>. QED
    BY <1>3, <1>4, <1>5, <1>6, <1>7, <1>8, Zenon DEF WInv

\* prompt_agent has the answer to the prompt.
LEMMA PromptedKeeps ==
  ASSUME Shapes, WInv, Prompted, UNCHANGED subVars
  PROVE  WInv'
  <1>. USE DEF At, Taken
  <1>0. WShapes /\ News /\ Methods /\ Seen /\ Told /\ Gate /\ Results
    BY DEF WInv
  <1>1. /\ pc = "prompted" /\ outcome = "open" /\ subs = <<>> /\ request.method = "prompt"
        /\ pc \in Asked /\ pc \in Placed /\ pc \in Knowing
        /\ UNCHANGED <<hub, app, subs, request, base, begun, held, departed, missed, submitted>>
        /\ swapped' = departed /\ reply' = {} /\ call' = "none" /\ missed' \in {"yes", "no"} /\ swapped' \in {"yes", "no"}
    BY <1>0, Zenon DEF Prompted, Methods, WShapes, subVars, Asked, Placed, Knowing
  <1>2. PICK r : r = TheReply /\ Says(r)
    BY <1>0, <1>1, AnswerSays, Zenon DEF Prompted
  <1>3. UNCHANGED pos => pos' \in Nat
    BY <1>0, Zenon DEF WShapes
  <1>4. CASE r.err # "none" /\ End(r.err) /\ UNCHANGED <<phase, pos, expected, after, due, answer>>
    <2>1. r.err \notin {"open", "success", "not_running"}
      BY <1>2, <1>4, Zenon DEF Says, Errors
    <2>. QED
      BY <1>1, <1>3, <1>4, <2>1, Failed, Zenon
  <1>5. CASE /\ r.err = "none" /\ r.pane.agent # expected /\ End("not_running")
             /\ UNCHANGED <<phase, pos, expected, after, due, answer>>
    <2>1. departed = "yes"
      BY <1>0, <1>1, <1>2, <1>5, Zenon DEF Says, Seen, WShapes
    <2>. QED
      BY <1>1, <1>3, <1>5, <2>1, Departed, Zenon
  <1>6. ASSUME r.err = "none", r.pane.agent = expected, NEW ph \in {"gate", "settle"}, Enter(ph, base, r.pane.agent),
               begun = "yes" \/ ph = "settle" => WasActive
        PROVE  WInv'
    <2>1. pc' = "loop" /\ pos' = base /\ expected' = expected /\ phase' = ph /\ UNCHANGED <<outcome, answer>>
      BY <1>6, Zenon DEF Enter
    <2>2. departed = "no" => Here /\ pane.agent = expected'
      BY <1>2, <1>6, <2>1, Zenon DEF Says
    <2>3. swapped' = "no" => PinnedTo(expected')
      BY <1>0, <1>1, <2>2, Pins, Zenon
    <2>4. Gate'
      BY <1>1, <1>6, <2>1, Zenon DEF Gate, WasActive
    <2>5. reply' \subseteq reply
      BY <1>1, Zenon
    <2>. QED
      BY <1>1, <2>1, <2>2, <2>3, <2>4, <2>5, Entered, Zenon
  <1>7. CASE /\ r.err = "none" /\ r.pane.agent = expected /\ (begun = "yes" \/ Status(r.pane) \in Active)
             /\ Settle(Status(r.pane), r.pane.agent)
    <2>1. Had(r.pane.agent, Status(r.pane))
      BY <1>2, <1>7, Zenon DEF Says
    <2>2. WasActive
      BY <1>0, <1>1, <1>7, <2>1, Zenon DEF Gate, WasActive, Had
    <2>3. CASE Status(r.pane) \in Settled
      <3>1. /\ pc' = "ended" /\ outcome' = "success" /\ answer' = {Status(r.pane)} /\ UNCHANGED <<phase, pos, expected>>
        BY <1>7, <2>3, Zenon DEF Settle, Succeed, End
      <3>2. SuccessIsHonest' /\ PromptWasActive' /\ NotRunningIsTrue'
        BY <1>1, <1>7, <2>1, <2>2, <2>3, <3>1, Zenon DEF SuccessIsHonest, PromptWasActive, NotRunningIsTrue, Settled, Had, WasActive
      <3>. QED
        BY <1>1, <1>3, <3>1, <3>2, Ended, Zenon
    <2>4. CASE Status(r.pane) \notin Settled
      BY <1>6, <1>7, <2>2, <2>4, Zenon DEF Settle
    <2>. QED
      BY <2>3, <2>4, Zenon
  <1>8. CASE r.err = "none" /\ r.pane.agent = expected /\ begun = "no" /\ Enter("gate", base, r.pane.agent)
    BY <1>6, <1>8, Zenon
  <1>. QED
    BY <1>2, <1>4, <1>5, <1>7, <1>8, Zenon DEF Prompted

\* agent_wait_probe_error
LEMMA ProbeFailed ==
  ASSUME WInv, subs = <<>>, outcome = "open", pc \in Reading, NEW r, Says(r), ProbeFails(r),
         UNCHANGED <<hub, app, subs, request, base, begun, held, departed, swapped, missed>>
  PROVE  WInv'
  <1>0. WShapes /\ Seen /\ pc \in Knowing /\ pc \in Asked
    BY Zenon DEF WInv, Knowing, Reading, Asked
  <1>1. pos' \in Nat /\ swapped' \in {"yes", "no"} /\ missed' \in {"yes", "no"} /\ UNCHANGED <<phase, answer>>
    BY <1>0, Zenon DEF WShapes, ProbeFails
  <1>2. CASE r.err \in {"none", "not_found"}
    <2>1. End("not_running")
      BY <1>2, Zenon DEF ProbeFails
    <2>2. departed = "yes"
      BY <1>0, <1>2, Zenon DEF Says, Seen, WShapes, ProbeFails
    <2>. QED
      BY <1>1, <2>1, <2>2, Departed, Zenon
  <1>3. CASE r.err \notin {"none", "not_found"}
    <2>1. r.err \notin {"open", "success", "not_running"} /\ End(r.err)
      BY <1>3 DEF ProbeFails, Says, Errors
    <2>. QED
      BY <1>1, <2>1, Failed, Zenon
  <1>. QED
    BY <1>2, <1>3, Zenon

\* The events after the position, as the log has them.
LEMMA InBatch ==
  ASSUME History, WInv, pc \in Reading, NEW k \in EventsAfter(pos)
  PROVE  /\ k \in 1 .. Len(events) /\ events[k].ev = log[events[k].seq] /\ events[k].seq \in pos + 1 .. nextSequence
         /\ events[k].seq \in base + 1 .. nextSequence
  <1>1. pos \in Nat /\ base \in Nat /\ base <= pos /\ pos <= nextSequence /\ nextSequence \in Nat
    BY Zenon DEF WInv, WShapes, Methods, Reading, Placed, History, AppTypeOK
  <1>2. k \in 1 .. Len(events) /\ events[k].seq \in pos + 1 .. nextSequence /\ events[k].ev = log[events[k].seq]
    BY <1>1, Batch, Zenon
  <1>. QED
    BY <1>1, <1>2

\* If nothing before it was missed, and no event before it in the batch ends
\* the wait, then what an event of the batch tells is told of the pinned agent.
LEMMA ToldOfPinned ==
  ASSUME History, WInv, pc \in Reading, NEW k \in EventsAfter(pos), Tells(events[k].ev),
         \A j \in EventsAfter(pos) : j < k => ~Ends(events[j].ev)
  PROVE  \E h \in held : /\ h.status = events[k].ev.status
                         /\ missed = "no" /\ ~LostAfter(pos) /\ swapped = "no" => h.agent = expected
  <1>0. WShapes /\ Methods /\ Told /\ Pinned /\ pc \in Placed
    BY Zenon DEF WInv, Reading, Placed
  <1>. DEFINE q == events[k].seq
  <1>1. /\ k \in 1 .. Len(events) /\ events[k].ev = log[q] /\ q \in pos + 1 .. nextSequence /\ q \in base + 1 .. nextSequence
    BY InBatch, Zenon
  <1>2. \E h \in held : h.status = events[k].ev.status
    <2>1. \A j \in base + 1 .. nextSequence : Tells(log[j]) => \E h \in held : h.status = log[j].status
      BY <1>0, Zenon DEF Told
    <2>. HIDE DEF q
    <2>2. Tells(log[q])
      BY <1>1, Zenon
    <2>. QED
      BY <1>1, <2>1, <2>2, Zenon
  <1>3. ASSUME missed = "no", ~LostAfter(pos), swapped = "no" PROVE Had(expected, log[q].status)
    <2>1. Clean(expected, pos)
      BY <1>0, <1>3 DEF Pinned
    <2>2. ASSUME NEW j \in base + 1 .. q - 1 PROVE ~EndsFor(log[j], expected)
      <3>1. pos \in Nat /\ base \in Nat /\ base <= pos /\ q \in Nat /\ q <= nextSequence /\ nextSequence \in Nat
        <4>1. pos \in Nat /\ base \in Nat /\ base <= pos /\ nextSequence \in Nat
          BY <1>0, Zenon DEF WShapes, Methods, History, AppTypeOK
        <4>. HIDE DEF q
        <4>. QED
          BY <1>1, <4>1
      <3>2. CASE j \in base + 1 .. pos
        BY <2>1, <3>2, Zenon DEF Clean
      <3>3. CASE j \notin base + 1 .. pos
        <4>1. j \in pos + 1 .. nextSequence /\ j < q
          <5>. HIDE DEF q
          <5>. QED
            BY <2>2, <3>1, <3>3
        <4>2. PICK i \in EventsAfter(pos) : events[i].seq = j
          BY <1>3, <3>1, <4>1, Complete, Zenon
        <4>3. i < k
          <5>1. i \in 1 .. Len(events) /\ events[i].seq < events[k].seq
            BY <4>1, <4>2, InBatch, Zenon
          <5>. QED
            BY <1>1, <5>1, Numbered
        <4>4. ~Ends(events[i].ev) /\ events[i].ev = log[j]
          BY <4>2, <4>3, InBatch, Zenon
        <4>. QED
          BY <4>4, Zenon DEF Ends, EndsFor
      <3>. QED
        BY <3>2, <3>3, Zenon
    <2>3. Clean(expected, q - 1)
      BY <2>2, Zenon DEF Clean
    <2>. HIDE DEF q
    <2>. QED
      BY <1>0, <1>1, <1>3, <2>3, Zenon DEF Pinned, PinnedTo
  <1>. HIDE DEF q
  <1>. QED
    BY <1>1, <1>2, <1>3, Zenon DEF Had

\* One round of the loop.
LEMMA LoopKeeps ==
  ASSUME History, Shapes, WInv, Loop, UNCHANGED subVars
  PROVE  WInv'
  <1>. USE DEF At
  <1>0. WShapes /\ News /\ Methods /\ Seen /\ Told /\ Pinned /\ Gate /\ Results
    BY Zenon DEF WInv
  <1>1. /\ pc = "loop" /\ outcome = "open" /\ subs = <<>>
        /\ pc \in Reading /\ pc \in Asked /\ pc \in Placed /\ pc \in Knowing
        /\ UNCHANGED <<hub, app, subs, request, base, begun, held, departed, swapped, submitted>>
        /\ missed' = (IF LostAfter(pos) THEN "yes" ELSE missed)
    BY <1>0, Zenon DEF Loop, Methods, subVars, Asked, Placed, Knowing, Reading
  <1>2. /\ pos \in Nat /\ base \in Nat /\ base <= pos /\ pos <= nextSequence /\ nextSequence \in Nat
        /\ missed' \in {missed, "yes"} /\ missed' \in {"yes", "no"} /\ swapped' \in {"yes", "no"}
        /\ missed' = "no" => missed = "no" /\ ~LostAfter(pos)
    BY <1>0, <1>1, Zenon DEF WShapes, Methods, History, AppTypeOK
  <1>. DEFINE batch == EventsAfter(pos)
              ends == {k \in batch : Ends(events[k].ev)}
              m == Min(ends)
              end == events[m].ev
              before == {k \in batch : k < m}
              early == Transient(before)
              final == IF end.status \in Until THEN {end.status} ELSE early
              hits(b) == {k \in b : phase # "settle" /\ events[k].ev.kind = "status" /\ events[k].ev.status \in Until}
  <1>3. Len(events) \in Nat /\ batch \subseteq 1 .. Len(events)
    BY Numbered, InBatch, <1>1, Zenon
  <1>4. ends # {} => m \in ends /\ \A k \in ends : m <= k
    <2>1. ends \subseteq Nat
      BY <1>3
    <2>. HIDE DEF ends
    <2>. QED
      BY <2>1, Smallest, Zenon
  \* What a wait may end with.
  <1>. DEFINE Suits(st) == \E h \in held : h.status = st /\ (missed' = "no" /\ swapped = "no" => h.agent = expected)
  <1>5. ASSUME NEW b \in SUBSET batch, NEW st \in Transient(b),
               \A k \in b : \A j \in batch : j < k => ~Ends(events[j].ev)
        PROVE  phase # "settle" /\ st \in Until /\ Suits(st)
    <2>1. hits(b) # {} /\ st = events[Max(hits(b))].ev.status
      BY <1>5, Zenon DEF Transient
    <2>2. hits(b) \subseteq 1 .. Len(events)
      BY <1>3, Zenon
    <2>3. Max(hits(b)) \in hits(b)
      <3>. HIDE DEF hits
      <3>. QED
        BY <1>3, <2>1, <2>2, Greatest, Zenon
    <2>4. PICK k \in b : k = Max(hits(b)) /\ phase # "settle" /\ events[k].ev.kind = "status" /\ events[k].ev.status \in Until
      BY <2>3, Zenon
    <2>5. Tells(events[k].ev) /\ k \in batch
      BY <2>4, Zenon DEF Tells
    <2>6. \E h \in held : /\ h.status = events[k].ev.status
                          /\ missed = "no" /\ ~LostAfter(pos) /\ swapped = "no" => h.agent = expected
      BY <1>1, <1>5, <2>5, ToldOfPinned, Zenon
    <2>. QED
      BY <1>2, <2>1, <2>4, <2>6, Zenon
  <1>6. ASSUME ends # {}, end.kind = "detected", end.released = "yes", NEW st \in final
        PROVE  st \in Until /\ Suits(st)
    <2>0. m \in ends /\ (\A k \in ends : m <= k) /\ m \in Nat
      <3>1. m \in ends /\ \A k \in ends : m <= k
        BY <1>4, <1>6, Zenon
      <3>. HIDE DEF m
      <3>. QED
        BY <1>3, <3>1
    <2>1. \A j \in batch : j < m => ~Ends(events[j].ev)
      <3>. HIDE DEF m
      <3>1. \A j \in batch : Ends(events[j].ev) => m <= j
        BY <2>0, Zenon
      <3>2. \A j \in batch : j \in Nat
        BY <1>3
      <3>. QED
        BY <2>0, <3>1, <3>2
    <2>2. CASE st \in early
      <3>1. before \in SUBSET batch /\ \A k \in before : \A j \in batch : j < k => ~Ends(events[j].ev)
        <4>. HIDE DEF m
        <4>1. \A k \in batch : k \in Nat
          BY <1>3
        <4>. QED
          BY <2>0, <2>1, <4>1, SMTT(30)
      <3>. HIDE DEF before
      <3>. QED
        BY <1>5, <2>2, <3>1, Zenon
    <2>3. CASE st = end.status /\ end.status \in Until
      <3>1. m \in batch /\ Tells(events[m].ev)
        BY <1>4, <1>6, Zenon DEF Tells
      <3>2. \E h \in held : /\ h.status = events[m].ev.status
                            /\ missed = "no" /\ ~LostAfter(pos) /\ swapped = "no" => h.agent = expected
        <4>. HIDE DEF m
        <4>1. PICK k \in batch : k = m
          BY <3>1, Zenon
        <4>. QED
          BY <1>1, <2>1, <3>1, <4>1, ToldOfPinned, Zenon
      <3>. QED
        BY <1>2, <2>3, <3>2, Zenon
    <2>. QED
      BY <1>6, <2>2, <2>3, Zenon
  <1>. HIDE DEF final
  <1>7. CASE /\ ends # {} /\ end.kind = "detected" /\ end.released = "yes" /\ UNCHANGED calls
             /\ \E st \in final : Match(st)
    <2>1. PICK st \in final : Match(st)
      BY <1>7, Zenon
    <2>2. st \in Until /\ Suits(st)
      BY <1>6, <1>7, Zenon
    <2>3. reply' \subseteq reply /\ call' \in {call, "none"}
      BY <1>7, Zenon DEF calls
    <2>. QED
      BY <1>1, <1>2, <2>1, <2>2, <2>3, Satisfied, Zenon
  <1>8. CASE ends # {} /\ NotRunning
    <2>1. departed = "yes"
      <3>. SUFFICES ASSUME departed = "no" PROVE FALSE
        BY <1>0, Zenon DEF WShapes
      <3>1. Here /\ pane.agent = expected
        BY <1>0, <1>1, Zenon DEF Seen
      <3>2. PICK k \in batch : Ends(events[k].ev)
        BY <1>8, Zenon
      <3>3. events[k].ev = log[events[k].seq] /\ events[k].seq \in base + 1 .. nextSequence
        BY <1>1, InBatch, Zenon
      <3>4. ~EndsFor(log[events[k].seq], pane.agent)
        BY <1>0, <1>1, <3>1, <3>3, Zenon DEF Told
      <3>. QED
        BY <3>1, <3>2, <3>3, <3>4, Zenon DEF Ends, EndsFor
    <2>2. End("not_running") /\ UNCHANGED <<phase, answer, pos>>
      BY <1>8, Zenon DEF NotRunning
    <2>. QED
      BY <1>1, <1>2, <2>1, <2>2, Departed, Zenon
  <1>9. ASSUME ends = {}, pos' = nextSequence, pc' \in {"again", "check"}, UNCHANGED <<phase, expected, answer, outcome>>,
               reply' \subseteq reply, call' \in {call, "agent"}, Matched'
        PROVE  WInv'
    <2>1. missed' = "no" /\ swapped = "no" => Clean(expected, nextSequence)
      <3>. SUFFICES ASSUME missed' = "no", swapped = "no", NEW j \in base + 1 .. nextSequence
                    PROVE  ~EndsFor(log[j], expected)
        BY Zenon DEF Clean
      <3>1. CASE j \in base + 1 .. pos
        BY <1>0, <1>1, <1>2, <3>1, Zenon DEF Pinned, Clean
      <3>2. CASE j \notin base + 1 .. pos
        <4>1. j \in pos + 1 .. nextSequence
          BY <1>2, <3>2
        <4>2. PICK k \in batch : events[k].seq = j
          BY <1>2, <4>1, Complete, Zenon
        <4>3. events[k].ev = log[j] /\ ~Ends(events[k].ev)
          BY <1>1, <1>9, <4>2, InBatch, Zenon
        <4>. QED
          BY <4>3, Zenon DEF Ends, EndsFor
      <3>. QED
        BY <3>1, <3>2, Zenon
    <2>2. pc' \in Reading /\ pos' \in Nat /\ base <= pos' /\ pos' <= nextSequence
      BY <1>2, <1>9 DEF Reading
    <2>. QED
      BY <1>1, <1>2, <1>9, <2>1, <2>2, GoesOn, Zenon
  <1>10. CASE /\ ends = {} /\ matched' = Transient(batch) /\ pos' = nextSequence
              /\ Ask("agent") /\ pc' = "again" /\ UNCHANGED <<phase, expected, due, answer, outcome>>
    <2>1. ASSUME NEW st \in matched' PROVE phase # "settle" /\ st \in Until /\ Suits(st)
      <3>1. batch \in SUBSET batch /\ \A k \in batch : \A j \in batch : j < k => ~Ends(events[j].ev)
        BY <1>10, Zenon
      <3>2. st \in Transient(batch)
        BY <1>10, <2>1, Zenon
      <3>. HIDE DEF batch
      <3>. QED
        BY <1>5, <3>1, <3>2, Zenon
    <2>2. Matched'
      BY <1>1, <1>10, <2>1, Zenon DEF Matched, Fits, Until, Settled
    <2>. QED
      BY <1>9, <1>10, <2>2, Zenon DEF Ask
  <1>11. CASE /\ ends = {} /\ pos' = nextSequence /\ pc' = "check"
              /\ UNCHANGED <<phase, expected, due, answer, outcome, matched, calls>>
    <2>1. Matched'
      BY <1>11, Zenon DEF Matched
    <2>. QED
      BY <1>9, <1>11, <2>1, Zenon DEF calls
  <1>. QED
    BY <1>7, <1>8, <1>10, <1>11, Zenon DEF Loop, final

\* The answer after a round of events.
LEMMA AgainKeeps ==
  ASSUME Shapes, WInv, Again \/ Last, UNCHANGED subVars
  PROVE  WInv'
  <1>. USE DEF At, Taken, past
  <1>0. WShapes /\ Methods /\ Seen /\ Pinned /\ Matched /\ Results
    BY Zenon DEF WInv
  <1>1. /\ pc \in {"again", "last"} /\ outcome = "open" /\ subs = <<>> /\ pc \in Reading /\ pc \in Asked
        /\ UNCHANGED <<hub, app, subs, request, base, begun, held, departed, swapped, missed, submitted>>
        /\ reply' = {} /\ call' = "none" /\ Answered /\ missed' \in {missed, "yes"}
    BY <1>0, Zenon DEF Again, Last, Methods, subVars, Asked, Reading
  <1>2. PICK r : r = TheReply /\ Says(r)
    BY <1>0, <1>1, AnswerSays, Zenon
  <1>3. /\ pos \in Nat /\ base <= pos /\ pos <= nextSequence
        /\ missed \in {"yes", "no"} /\ swapped \in {"yes", "no"}
    BY <1>0, <1>1, Zenon DEF WShapes, Methods, Reading, Placed
  <1>4. CASE ProbeFails(r)
    BY <1>1, <1>2, <1>4, ProbeFailed, Zenon
  <1>5. ASSUME NEW st \in Until, Match(st), Fits(st) PROVE WInv'
    <2>1. reply' \subseteq reply /\ call' \in {call, "none"}
      BY <1>1, Zenon
    <2>2. \E h \in held : h.status = st /\ (missed' = "no" /\ swapped = "no" => h.agent = expected)
      BY <1>1, <1>5, Zenon DEF Fits
    <2>. QED
      BY <1>1, <1>5, <2>1, <2>2, Satisfied, Zenon
  <1>6. CASE pc = "again" /\ \E st \in matched : Match(st)
    <2>1. PICK st \in matched : Match(st)
      BY <1>6, Zenon
    <2>2. st \in Until /\ Fits(st)
      BY <1>0, <1>6, Zenon DEF Matched
    <2>. QED
      BY <1>5, <2>1, <2>2, Zenon
  <1>7. CASE ProbeWorks(r) /\ Matching(r.pane) /\ Match(Status(r.pane))
    <2>1. Status(r.pane) \in Until
      BY <1>7, Zenon DEF Matching
    <2>2. Fits(Status(r.pane))
      BY <1>2, <1>7, Zenon DEF ProbeWorks, Says, Had, Fits
    <2>. QED
      BY <1>5, <1>7, <2>1, <2>2, Zenon
  <1>8. CASE pc' = "check" /\ UNCHANGED <<phase, pos, expected, due, answer, outcome>>
    <2>1. Matched' /\ pc' \in Reading
      BY <1>8, Zenon DEF Matched, Reading
    <2>2. missed' = "no" /\ swapped = "no" => Clean(expected, pos')
      BY <1>0, <1>1, <1>8, Zenon DEF Pinned
    <2>3. reply' \subseteq reply /\ call' \in {call, "agent", "none"}
      BY <1>1, Zenon
    <2>4. pos' \in Nat /\ base <= pos' /\ pos' <= nextSequence
      BY <1>3, <1>8, Zenon
    <2>. QED
      BY <1>1, <1>8, <2>1, <2>2, <2>3, <2>4, GoesOn, Zenon
  <1>9. CASE (End("timeout") \/ End("stalled")) /\ UNCHANGED <<phase, pos, expected, due, answer>>
    <2>1. pos' \in Nat /\ swapped' \in {"yes", "no"} /\ missed' \in {"yes", "no"}
      BY <1>1, <1>3, <1>9, Zenon
    <2>. QED
      BY <1>1, <1>9, <2>1, Failed, Zenon
  <1>10. CASE Again
    BY <1>2, <1>4, <1>6, <1>7, <1>8, <1>10, Zenon DEF Again
  <1>11. CASE Last
    BY <1>2, <1>4, <1>7, <1>9, <1>11, Zenon DEF Last
  <1>. QED
    BY <1>10, <1>11, Zenon

\* The deadline is looked at, or the connection is to stop.
LEMMA CheckKeeps ==
  ASSUME WInv, Check \/ WaitStop, UNCHANGED subVars
  PROVE  WInv'
  <1>. USE DEF At, waitVars, wait, past
  <1>0. WShapes /\ Methods /\ Pinned
    BY Zenon DEF WInv
  <1>1. /\ pc \in {"check", "loop"} /\ outcome = "open" /\ subs = <<>> /\ pc \in Reading
        /\ UNCHANGED <<hub, app, subs, request, phase, base, pos, expected, begun, answer, held, departed, swapped, missed, submitted>>
    BY <1>0, Zenon DEF Check, WaitStop, Methods, subVars, Asked, Reading
  <1>2. /\ pos' \in Nat /\ base <= pos' /\ pos' <= nextSequence
        /\ missed' \in {"yes", "no"} /\ swapped' \in {"yes", "no"}
    BY <1>0, <1>1, Zenon DEF WShapes, Methods, Reading, Placed
  <1>3. CASE Check
    <2>1. /\ pc' \in Reading /\ pc' # "again" /\ UNCHANGED outcome
          /\ reply' \subseteq reply /\ call' \in {call, "agent", "none"}
      BY <1>3, Zenon DEF Check, Reading, Ask, calls
    <2>2. Matched'
      BY <2>1, Zenon DEF Matched
    <2>3. missed' = "no" /\ swapped = "no" => Clean(expected, pos')
      BY <1>0, <1>1, Zenon DEF Pinned
    <2>. QED
      BY <1>1, <1>2, <2>1, <2>2, <2>3, GoesOn, Zenon
  <1>4. CASE WaitStop
    <2>1. End("gone")
      BY <1>4, Zenon DEF WaitStop
    <2>. QED
      BY <1>1, <1>2, <2>1, Failed, Zenon
  <1>. QED
    BY <1>3, <1>4, Zenon

\* The main thread answers.
LEMMA RepliesWait ==
  ASSUME WInv, AppReplies
  PROVE  WInv'
  <1>. USE DEF waitVars, wait, past, subVars, thread, calls
  <1>0. Methods
    BY Zenon DEF WInv
  <1>1. /\ UNCHANGED <<hub, app, pc, outcome, subs, request, phase, base, pos, expected, matched, begun, answer, past, submitted>>
        /\ call' = call
    BY Zenon DEF AppReplies, Answer, AnswerLate
  <1>2. ASSUME pc \in Asked, NEW r \in reply'
        PROVE  r.pane = pane /\ (r.err = "none" => Here) /\ (r.err = "not_found" => ~Here)
    <2>1. CASE Answer
      <3>1. call = "agent"
        BY <1>0, <1>2, <2>1, Zenon DEF Answer, Methods
      <3>2. r = [err |-> IF Found("agent") THEN "none" ELSE "not_found", pane |-> pane, seq |-> nextSequence]
        BY <1>2, <2>1, <3>1, Zenon DEF Answer, Reply
      <3>3. Found("agent") <=> Here
        BY Zenon DEF Found, Here
      <3>. QED
        BY <3>2, <3>3, Zenon
    <2>2. ASSUME NEW e \in LateErrors, AnswerLate(e)
          PROVE  r.pane = pane /\ (r.err = "none" => Here) /\ (r.err = "not_found" => ~Here)
      <3>1. r = [err |-> e, pane |-> pane, seq |-> nextSequence] /\ e \notin {"none", "not_found"}
        BY <1>2, <2>2, Zenon DEF AnswerLate, Reply, LateErrors
      <3>. QED
        BY <3>1, Zenon
    <2>. QED
      BY <2>1, <2>2, Zenon DEF AppReplies
  <1>. QED
    BY <1>1, <1>2, Replied, Zenon

\* The main thread takes a prompt up or is done with it, or time passes.
LEMMA PromptsWait ==
  ASSUME WInv, AcceptPrompt \/ SubmitEnds \/ DeadlinePasses, UNCHANGED subVars
  PROVE  WInv'
  <1>. USE DEF wait, past, subVars, thread, calls
  <1>0. Methods
    BY Zenon DEF WInv
  <1>1. /\ UNCHANGED <<hub, app, pc, outcome, subs, request, phase, base, pos, expected, matched, begun, answer, past>>
        /\ call' = call
    BY Zenon DEF AcceptPrompt, SubmitEnds, DeadlinePasses
  <1>2. pc # "ask" \/ UNCHANGED submitted
    BY <1>0, Zenon DEF AcceptPrompt, SubmitEnds, DeadlinePasses, Methods
  <1>3. ASSUME NEW r \in reply' \cup submitted'
        PROVE  r \in reply \cup submitted
                 \/ (r.pane = pane /\ (r.err = "none" => Here) /\ (r.err = "not_found" => ~Here))
    <2>1. CASE AcceptPrompt
      <3>1. Found("agent") <=> Here
        BY Zenon DEF Found, Here
      <3>2. CASE \E e \in Refusals : Reply(e) /\ UNCHANGED submitted
        <4>1. PICK e \in Refusals : Reply(e) /\ UNCHANGED submitted
          BY <3>2, Zenon
        <4>2. e # "none" /\ (e = "not_found" => ~Here)
          BY <3>1, Zenon DEF Refusals
        <4>3. r \in submitted \/ r = [err |-> e, pane |-> pane, seq |-> nextSequence]
          BY <1>3, <4>1, Zenon DEF Reply
        <4>. QED
          BY <4>2, <4>3
      <3>3. CASE /\ "not_ready" \in Refusals
                 /\ submitted' = {[err |-> "none", pane |-> pane, seq |-> nextSequence]} /\ UNCHANGED reply
        <4>1. Here
          BY <3>1, <3>3, Zenon DEF Refusals
        <4>2. r \in reply \/ r = [err |-> "none", pane |-> pane, seq |-> nextSequence]
          BY <1>3, <3>3, Zenon
        <4>. QED
          BY <4>1, <4>2
      <3>. QED
        BY <2>1, <3>2, <3>3, Zenon DEF AcceptPrompt
    <2>2. CASE SubmitEnds
      <3>1. r \in submitted \/ r = [err |-> "prompt_failed", pane |-> pane, seq |-> nextSequence]
        BY <1>3, <2>2, Zenon DEF SubmitEnds, Reply
      <3>. QED
        BY <3>1
    <2>3. CASE DeadlinePasses
      BY <1>3, <2>3, Zenon DEF DeadlinePasses
    <2>. QED
      BY <2>1, <2>2, <2>3, Zenon
  <1>. QED
    BY <1>1, <1>2, <1>3, Replied, Zenon

----------------------------------------------------------------------------
(* All steps. *)

\* A stream has no part in this.
LEMMA StreamsKeep ==
  ASSUME WInv, Place', News', subs # <<>>, UNCHANGED <<subs, waitVars>>, outcome' \notin {"success", "not_running"}
  PROVE  WInv'
  <1>. USE DEF waitVars, wait, past
  <1>1. pc' \in OfStreams
    BY Zenon DEF Place
  <1>2. pc' \notin Asked /\ pc' \notin Placed /\ pc' \notin Reading /\ pc' \notin {"ask", "again", "first", "before", "position", "prompted"}
    BY <1>1, Zenon DEF OfStreams, SettingUp, Polling, Asked, Placed, Reading
  <1>3. answer = {}
    BY Zenon DEF WInv, Methods
  <1>4. WShapes' /\ Methods'
    BY <1>2, <1>3, Zenon DEF WInv, WShapes, Methods
  <1>5. Seen' /\ Told' /\ Pinned' /\ Matched'
    BY <1>2, Zenon DEF Seen, Told, Pinned, Matched
  <1>6. Gate' /\ Results'
    BY <1>2, <1>3, Zenon DEF WInv, Gate, WasActive, Results, SuccessIsHonest, PromptWasActive, NotRunningIsTrue
  <1>. QED
    BY <1>4, <1>5, <1>6, Zenon DEF WInv

\* The steps of a subscription are of a stream.
LEMMA SubStepIs ==
  ASSUME Shapes, Methods, SubStep
  PROVE  /\ subs # <<>> /\ UNCHANGED <<hub, app, subs>>
         /\ outcome' \notin {"success", "not_running"}
  <1>1. /\ outcome = "open"
        /\ pc \in {"accept", "new", "probe", "poll", "sample", "quiet", "snapshot", "write"}
        /\ UNCHANGED <<hub, app, subs>>
    BY Zenon DEF SubStep, SubRun, Accept, NewEvent, NewSampled, Probed, Started, PollBatch, PollOne, PollSample,
       Sampled, Quiet, Snapshot, Write, WriteNote, NextSub, Stop, Deadline, At, subVars
  <1>2. subs # <<>>
    BY <1>1, Zenon DEF Methods, Asked
  <1>3. Answered => TheReply.err \notin {"success", "not_running"}
    BY TheReplyIs, Zenon DEF Errors
  <1>4. Accept \/ NewEvent \/ NewSampled \/ Started \/ PollOne \/ PollSample \/ Quiet \/ NextSub => outcome' \notin {"success", "not_running"}
    BY <1>1, Zenon DEF Accept, NewEvent, NewSampled, Started, PollOne, PollSample, Quiet, NextSub, thread
  <1>5. Probed \/ Sampled \/ Snapshot => outcome' \notin {"success", "not_running"}
    BY <1>1, <1>3, Zenon DEF Probed, Sampled, Snapshot, End
  <1>6. PollBatch \/ Write \/ WriteNote \/ Stop \/ Deadline => outcome' \notin {"success", "not_running"}
    BY <1>1, Zenon DEF PollBatch, Write, WriteNote, Stop, Deadline, Written, End
  <1>. QED
    BY <1>1, <1>2, <1>4, <1>5, <1>6, Zenon DEF SubStep, SubRun

\* The invariant holds at first.
LEMMA WaitInitially ==
  ASSUME Init
  PROVE  WInv
  <1>1. /\ base = 0 /\ pos = 0 /\ phase = "wait" /\ begun = "no" /\ submitted = {} /\ answer = {} /\ departed = "no"
        /\ swapped = "no" /\ missed = "no" /\ request.method \in {"wait", "prompt"}
    <2>1. PICK rq \in Requests \cup {NoRequest} : WaitInit(rq)
      BY Zenon DEF Init
    <2>2. rq.method \in {"wait", "prompt"}
      <3>1. CASE rq \in RequestTypes
        BY <3>1, Zenon DEF RequestTypes
      <3>2. CASE rq = NoRequest
        BY <3>2, Zenon DEF NoRequest
      <3>. QED
        BY <3>1, <3>2, RequestAssumption, Zenon
    <2>. QED
      BY <2>1, <2>2, Zenon DEF WaitInit
  <1>2. pending = <<>> /\ outcome = "open" /\ call = "none"
    BY Zenon DEF Init, AppInit, CallsInit
  <1>3. (pc = "accept" /\ subs # <<>>) \/ (pc = "ask" /\ subs = <<>>)
    BY SubscriptionAssumption, Zenon DEF Init, SubInit, NoScenario, ScenarioTypes
  <1>4. pc \notin Asked /\ pc \notin Placed /\ pc \notin Reading /\ pc \notin {"again", "first", "before", "position", "prompted"}
    BY <1>3, Zenon DEF Asked, Placed, Reading
  <1>5. WShapes /\ News /\ Methods
    BY <1>1, <1>2, <1>3, <1>4, SMTT(30) DEF WShapes, News, Methods
  <1>6. Seen /\ Told /\ Pinned /\ Matched
    BY <1>4, Zenon DEF Seen, Told, Pinned, Matched
  <1>7. Gate /\ Results
    BY <1>1, <1>2, <1>4, Zenon DEF Gate, Results, SuccessIsHonest, PromptWasActive, NotRunningIsTrue
  <1>. QED
    BY <1>5, <1>6, <1>7, Zenon DEF WInv

\* Every step keeps it.
LEMMA WaitStepKeeps ==
  ASSUME IInv, IInv', WInv, [Next]_vars
  PROVE  WInv'
  <1>0. History /\ AppTypeOK /\ Shapes /\ Place' /\ Methods /\ News
    BY Zenon DEF IInv, History, WInv
  <1>1. CASE Main
    <2>1. CASE subs = <<>>
      BY <1>1, <2>1, MainWaits, Zenon
    <2>2. CASE subs # <<>>
      <3>1. News'
        BY <1>0, <1>1, NewsStep, Zenon DEF Main
      <3>2. UNCHANGED <<subs, waitVars>> /\ outcome' \notin {"success", "not_running"}
        BY <1>0, <1>1, <2>2, Zenon DEF Main, Methods, thread, subVars, waitVars
      <3>. QED
        BY <1>0, <2>2, <3>1, <3>2, StreamsKeep, Zenon
    <2>. QED
      BY <2>1, <2>2, Zenon
  <1>2. CASE AppReplies
    BY <1>2, RepliesWait, Zenon
  <1>3. CASE SubStep /\ UNCHANGED waitVars
    <2>1. subs # <<>> /\ UNCHANGED <<hub, app, subs>> /\ outcome' \notin {"success", "not_running"}
      BY <1>0, <1>3, SubStepIs, Zenon
    <2>2. News'
      BY <1>0, <2>1, Zenon DEF News, Here, app
    <2>. QED
      BY <1>0, <1>3, <2>1, <2>2, StreamsKeep, Zenon
  <1>4. CASE WaitStep /\ UNCHANGED subVars
    BY Zenon, <1>0, <1>4, Begins, FirstKeeps, BeforeKeeps, PositionKeeps, PromptedKeeps, LoopKeeps, AgainKeeps, CheckKeeps,
       PromptsWait DEF WaitStep, WaitRun
  <1>5. CASE UNCHANGED vars
    BY <1>5, Replied, Zenon DEF vars, hub, app, thread, calls, subVars, waitVars, wait, past
  <1>. QED
    BY <1>1, <1>2, <1>3, <1>4, <1>5, Zenon DEF Next, Handler

LEMMA WaitInvariance == Spec => []WInv
  <1>1. IInv /\ IInv' /\ WInv /\ [Next]_vars => WInv'
    BY WaitStepKeeps
  <1>. QED
    BY <1>1, WaitInitially, Invariance, PTL DEF Spec

\* For every length of the history and every request: a success of agent.wait
\* or agent.prompt names a status that was asked for and that the pane has had,
\* or that was being announced, since the request began.  It was the pinned
\* agent's unless events were evicted unread or an agent had left before.
THEOREM SuccessWasSo == Spec => []SuccessIsHonest
  <1>1. WInv => SuccessIsHonest
    BY Zenon DEF WInv, Results
  <1>. QED
    BY <1>1, WaitInvariance, PTL

\* agent.prompt succeeds only if an agent was working or blocked since the
\* request began: the activity gate cannot be passed otherwise.
THEOREM PromptsAreTakenUp == Spec => []PromptWasActive
  <1>1. WInv => PromptWasActive
    BY Zenon DEF WInv, Results
  <1>. QED
    BY <1>1, WaitInvariance, PTL

\* agent_not_running is only reported if since the request began an agent has
\* left or exited, or the pane was closed.
THEOREM AgentHadLeft == Spec => []NotRunningIsTrue
  <1>1. WInv => NotRunningIsTrue
    BY DEF WInv, Results
  <1>. QED
    BY <1>1, WaitInvariance, PTL
=============================================================================
