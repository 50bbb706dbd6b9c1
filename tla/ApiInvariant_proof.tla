------------------------ MODULE ApiInvariant_proof -------------------------
(* Proofs about the event history, for any length of it: it is the end of   *)
(* the log of all events, reading it from a position returns what comes     *)
(* after, and events_after_checked reports a loss exactly if there is one.  *)
(* Then the inductive invariant of a connection to the API socket, and the  *)
(* steps outside the loop of the subscriptions: the start, the main thread, *)
(* its replies, the waits for agents, and setting subscriptions up.         *)
EXTENDS ApiServer, WellFoundedInduction, TLAPS

\* The history is the end of the log of all events, numbered without a gap.
History ==
  /\ AppTypeOK
  /\ Len(log) = nextSequence /\ Len(events) <= nextSequence
  /\ nextSequence > 0 => Len(events) > 0
  /\ \A k \in 1 .. Len(events) :
       events[k].seq = nextSequence - Len(events) + k /\ events[k].ev = log[events[k].seq]

\* The greatest member of a set of integers.
LEMMA MaxIs ==
  ASSUME NEW S \in SUBSET Int, NEW m \in S, \A y \in S : y <= m
  PROVE  Max(S) = m
  <1>1. \E x \in S : \A y \in S : x >= y
    OBVIOUS
  <1>2. Max(S) \in S /\ \A y \in S : Max(S) >= y
    BY <1>1, Zenon DEF Max
  <1>3. Max(S) <= m /\ Max(S) >= m /\ Max(S) \in Int /\ m \in Int
    BY <1>2, Zenon
  <1>. QED
    BY <1>3

\* Below a natural number are only finitely many, so a set of some has a least
\* member, and a bounded one a greatest.
LEMMA NaturalOrder == \E R : IsWellFoundedOn(R, Nat) /\ \A x, y \in Nat : y < x => <<y, x>> \in R
  <1>1. IsWellFoundedOn(OpToRel(<, Nat), Nat)
    BY NatLessThanWellFounded, Zenon
  <1>2. \A x, y \in Nat : y < x => <<y, x>> \in OpToRel(<, Nat)
    BY DEF OpToRel
  <1>. QED
    BY <1>1, <1>2, Zenon

LEMMA Smallest ==
  ASSUME NEW T, T \subseteq Nat, T # {}
  PROVE  Min(T) \in T /\ \A k \in T : Min(T) <= k
  <1>1. PICK R : IsWellFoundedOn(R, Nat) /\ \A x, y \in Nat : y < x => <<y, x>> \in R
    BY NaturalOrder, Zenon
  <1>2. PICK x \in T : \A y \in T : ~ (<<y, x>> \in R)
    BY <1>1, WFMin, Zenon
  <1>3. \A y \in T : ~ (y < x)
    BY <1>1, <1>2, Zenon
  <1>4. \A y \in T : x <= y
    BY <1>3
  <1>. QED
    BY <1>4, Zenon DEF Min

LEMMA Greatest ==
  ASSUME NEW n \in Nat, NEW T, T \subseteq 1 .. n, T # {}
  PROVE  Max(T) \in T /\ \A k \in T : k <= Max(T)
  <1>. DEFINE U == {n - k : k \in T}
  <1>1. U \subseteq Nat /\ U # {}
    <2>1. PICK t : t \in T
      OBVIOUS
    <2>2. n - t \in U
      BY <2>1, Zenon
    <2>. QED
      BY <2>2
  <1>2. Min(U) \in U /\ \A k \in U : Min(U) <= k
    BY <1>1, Smallest, Zenon
  <1>3. PICK m \in T : Min(U) = n - m
    BY <1>2, Zenon
  <1>4. \A k \in T : n - m <= n - k
    BY <1>2, <1>3, Zenon
  <1>5. \A k \in T : m >= k
    BY <1>4
  <1>6. Max(T) \in T /\ \A k \in T : Max(T) >= k
    BY <1>5, Zenon DEF Max
  <1>. QED
    BY <1>6

\* A pane that changes is still a pane.
LEMMA UpdatedType ==
  ASSUME AppTypeOK, NEW a \in Agents \cup {NoAgent}, NEW st \in AgentStates, NEW seen \in {"yes", "no"}
  PROVE  Updated(a, st, seen) \in Panes
  <1>. DEFINE n == IF st # pane.state THEN pane.changeSeq + 1 ELSE pane.changeSeq
              finished == st = "idle" /\ pane.state \in {"working", "blocked"}
              kept == IF a # pane.agent THEN "yes" ELSE pane.seen
              s == IF st # "idle" THEN "yes" ELSE IF finished THEN seen ELSE kept
  <1>1. pane \in Panes
    BY DEF AppTypeOK
  <1>2. n \in Nat /\ s \in {"yes", "no"}
    BY <1>1 DEF Panes
  <1>3. Updated(a, st, seen) = [pane EXCEPT !.agent = a, !.state = st, !.seen = s, !.changeSeq = n]
    BY DEF Updated
  <1>. HIDE DEF n, s
  <1>. QED
    BY <1>1, <1>2, <1>3, Zenon DEF Panes

\* A status is one.
LEMMA StatusType ==
  ASSUME NEW p \in Panes
  PROVE  Status(p) \in Statuses
  BY DEF Status, Panes, Statuses, AgentStates

\* What a change of the pane emits are events.
LEMMA StateEventsType ==
  ASSUME AppTypeOK, NEW p \in Panes, NEW released \in {"yes", "no"}
  PROVE  StateEvents(p, released) \in Seq(Events)
  <1>. DEFINE label == IF released = "yes" THEN pane.agent ELSE p.agent
              detected == [kind |-> "detected", agent |-> label, released |-> released,
                           status |-> IF released = "yes" THEN Status(p) ELSE "none"]
              status == [kind |-> "status", agent |-> label, status |-> Status(p), released |-> "no"]
  <1>1. label \in Agents \cup {NoAgent} /\ Status(p) \in Statuses
    BY StatusType DEF AppTypeOK, Panes
  <1>2. detected \in Events /\ status \in Events
    BY <1>1 DEF Events, EventKinds
  <1>3. <<detected>> \in Seq(Events) /\ <<status>> \in Seq(Events) /\ <<>> \in Seq(Events)
    BY <1>2
  <1>. HIDE DEF detected, status
  <1>4. \A s, t \in Seq(Events) : s \o t \in Seq(Events)
    OBVIOUS
  <1>. QED
    BY <1>3, <1>4 DEF StateEvents, detected, status, label

\* EventHub::push: the history has a new last event and keeps the ones before
\* it, up to MaxEvents.
LEMMA PushType ==
  ASSUME AppTypeOK, NEW ev \in Events, Push(ev)
  PROVE  /\ nextSequence' = nextSequence + 1 /\ nextSequence' \in Nat
         /\ log' \in Seq(Events) /\ Len(log') = Len(log) + 1
         /\ \A q \in 1 .. Len(log) : log'[q] = log[q]
         /\ log'[Len(log) + 1] = ev
         /\ events' \in Seq([seq : Nat, ev : Events])
         /\ Len(events') <= MaxEvents /\ Len(events') > 0 /\ Len(events') <= Len(events) + 1
         /\ events'[Len(events')] = [seq |-> nextSequence + 1, ev |-> ev]
         /\ \A k \in 1 .. Len(events') - 1 : events'[k] = events[Len(events) + 1 - Len(events') + k]
  <1>. USE HubAssumption DEF AppTypeOK
  <1>. DEFINE E == [seq : Nat, ev : Events]
              new == [seq |-> nextSequence + 1, ev |-> ev]
              grown == Append(events, new)
  <1>1. new \in E
    OBVIOUS
  <1>. HIDE DEF new, E
  <1>2. /\ grown \in Seq(E) /\ Len(grown) = Len(events) + 1 /\ Len(events) \in Nat
        /\ grown[Len(events) + 1] = new
        /\ \A k \in 1 .. Len(events) : grown[k] = events[k]
    BY <1>1 DEF E
  <1>3. log' = Append(log, ev) /\ nextSequence' = nextSequence + 1
    BY DEF Push
  <1>4. /\ log' \in Seq(Events) /\ Len(log') = Len(log) + 1 /\ log'[Len(log) + 1] = ev
        /\ \A q \in 1 .. Len(log) : log'[q] = log[q]
    BY <1>3
  <1>. HIDE DEF grown
  <1>5. CASE Len(grown) > MaxEvents
    <2>. DEFINE from == Len(grown) - MaxEvents + 1
    <2>1. events' = SubSeq(grown, from, Len(grown))
      BY <1>5, Zenon DEF Push, grown, new
    <2>2. from \in 1 .. Len(grown) /\ MaxEvents \in Nat \ {0} /\ Len(grown) - from + 1 = MaxEvents
      BY <1>2, <1>5
    <2>3. /\ events' \in Seq(E) /\ Len(events') = MaxEvents
          /\ \A k \in 1 .. MaxEvents : events'[k] = grown[from + k - 1]
      BY <1>2, <2>1, <2>2
    <2>4. Len(events) = MaxEvents
      BY <1>2, <1>5
    <2>. HIDE DEF from
    <2>5. from = 2
      BY <1>2, <2>4 DEF from
    <2>6. events'[MaxEvents] = new /\ \A k \in 1 .. MaxEvents - 1 : events'[k] = events[k + 1]
      BY <1>2, <2>2, <2>3, <2>4, <2>5
    <2>7. \A k \in 1 .. MaxEvents - 1 : Len(events) + 1 - MaxEvents + k = k + 1
      BY <2>2, <2>4
    <2>8. /\ Len(events') > 0 /\ Len(events') <= MaxEvents /\ Len(events') <= Len(events) + 1
          /\ \A k \in 1 .. Len(events') - 1 : events'[k] = events[Len(events) + 1 - Len(events') + k]
          /\ events'[Len(events')] = new
      <3>1. Len(events') = MaxEvents
        BY <2>3
      <3>2. ASSUME NEW k \in 1 .. MaxEvents - 1 PROVE events'[k] = events[Len(events) + 1 - MaxEvents + k]
        BY <2>6, <2>7, Zenon
      <3>3. MaxEvents > 0 /\ MaxEvents <= Len(events) + 1 /\ MaxEvents <= MaxEvents
        BY <2>2, <2>4
      <3>. QED
        BY <2>6, <3>1, <3>2, <3>3
    <2>. QED
      BY <1>3, <1>4, <2>3, <2>8 DEF E, new
  <1>6. CASE ~(Len(grown) > MaxEvents)
    <2>1. events' = grown
      BY <1>6 DEF Push, grown, new
    <2>2. \A k \in 1 .. Len(events) : Len(events) + 1 - (Len(events) + 1) + k = k
      BY <1>2
    <2>3. /\ Len(events') > 0 /\ Len(events') <= MaxEvents /\ Len(events') <= Len(events) + 1
          /\ \A k \in 1 .. Len(events') - 1 : events'[k] = events[Len(events) + 1 - Len(events') + k]
          /\ events'[Len(events')] = new
      <3>1. Len(events') = Len(events) + 1 /\ Len(events) + 1 - 1 = Len(events)
        BY <1>2, <2>1
      <3>2. ASSUME NEW k \in 1 .. Len(events)
            PROVE  events'[k] = events[Len(events) + 1 - (Len(events) + 1) + k]
        BY <1>2, <2>1, <2>2
      <3>3. Len(events) + 1 > 0 /\ Len(events) + 1 <= MaxEvents /\ Len(events) + 1 <= Len(events) + 1
        BY <1>2, <1>6
      <3>4. events'[Len(events) + 1] = new
        BY <1>2, <2>1
      <3>. QED
        BY <3>1, <3>2, <3>3, <3>4
    <2>. QED
      BY <1>2, <1>3, <1>4, <2>1, <2>3 DEF E, new
  <1>. QED
    BY <1>5, <1>6

\* The pane, the events and the counters of the main thread are well typed.
LEMMA AppTypes ==
  ASSUME AppTypeOK, AppStep
  PROVE  AppTypeOK'
  <1>. USE HubAssumption DEF AppTypeOK, hub
  <1>0. ASSUME NEW kind, Handle(kind) PROVE may' \subseteq Kinds /\ left' \in Nat
    BY <1>0 DEF Handle
  <1>1. ASSUME NEW kind, NEW p \in Panes, NEW released \in {"yes", "no"}, Change(kind, p, released)
        PROVE  AppTypeOK'
    <2>1. StateEvents(p, released) \in Seq(Events)
      BY StateEventsType
    <2>. QED
      BY <1>0, <1>1, <2>1 DEF Change
  <1>2. /\ pane \in Panes /\ States \subseteq AgentStates /\ {"idle", "unknown"} \subseteq AgentStates
        /\ \A p \in Panes : p.agent \in Agents \cup {NoAgent} /\ \A e \in {"yes", "no"} : [p EXCEPT !.exited = e] \in Panes
    BY Zenon DEF Panes, AgentStates
  <1>3. \A seen \in {"yes", "no"} : ReleaseEvents(seen) \in Seq(Events)
    <2>. SUFFICES ASSUME NEW seen \in {"yes", "no"}, pane.agent # NoAgent
                  PROVE  StateEvents(Updated(pane.agent, "idle", seen), "yes") \in Seq(Events)
      BY DEF ReleaseEvents
    <2>1. Updated(pane.agent, "idle", seen) \in Panes
      BY <1>2, UpdatedType, Zenon
    <2>. QED
      BY <2>1, StateEventsType
  <1>4. \A kind \in EventKinds \ {"status"} : Plain(kind) \in Events /\ <<Plain(kind)>> \in Seq(Events)
    BY DEF Plain, Events, Statuses
  <1>5. \A s, t \in Seq(Events) : s \o t \in Seq(Events)
    OBVIOUS
  <1>6. ASSUME NEW st \in States, NEW seen \in {"yes", "no"}, ChangeState(st, seen) PROVE AppTypeOK'
    <2>1. Updated(pane.agent, st, seen) \in Panes
      BY <1>2, UpdatedType, Zenon
    <2>. QED
      BY <1>1, <1>2, <1>6, <2>1, Zenon DEF ChangeState
  <1>7. ASSUME NEW a \in Agents, NEW st \in States, NEW seen \in {"yes", "no"}, DetectAgent(a, st, seen)
        PROVE  AppTypeOK'
    <2>1. Updated(a, st, seen) \in Panes
      BY <1>2, UpdatedType
    <2>. QED
      BY <1>1, <1>2, <1>7, <2>1, Zenon DEF DetectAgent
  <1>8. ASSUME NEW seen \in {"yes", "no"}, ProcessExits(seen) PROVE AppTypeOK'
    <2>1. Updated(pane.agent, "idle", seen) \in Panes
      BY <1>2, UpdatedType, Zenon
    <2>. QED
      BY <1>1, <1>2, <1>8, <2>1, Zenon DEF ProcessExits
  <1>9. ASSUME NEW released \in {"yes", "no"}, AgentLeaves(released) PROVE AppTypeOK'
    <2>1. Updated(NoAgent, "unknown", "yes") \in Panes
      BY <1>2, UpdatedType
    <2>. QED
      BY <1>1, <1>2, <1>9, <2>1, Zenon DEF AgentLeaves
  <1>10. CASE ViewPane
    BY <1>0, <1>10, Zenon DEF ViewPane, Panes
  <1>11. CASE ClosePane
    BY <1>0, <1>4, <1>11, Zenon DEF ClosePane, Panes, EventKinds
  <1>12. ASSUME NEW seen \in {"yes", "no"}, PaneDies(seen) PROVE AppTypeOK'
    <2>1. pending' \in Seq(Events)
      BY <1>3, <1>4, <1>5, <1>12 DEF PaneDies, EventKinds
    <2>2. pane' \in Panes
      BY <1>12, Zenon DEF PaneDies, Panes
    <2>. QED
      BY <1>0, <1>12, <2>1, <2>2 DEF PaneDies
  <1>13. ASSUME NEW seen \in {"yes", "no"}, Respawn(seen) PROVE AppTypeOK'
    <2>1. pane' \in Panes
      BY <1>13, Zenon DEF Respawn, Panes, AgentStates
    <2>. QED
      BY <1>0, <1>3, <1>13, <2>1 DEF Respawn
  <1>14. CASE Present
    <2>. DEFINE e == [kind |-> "status", agent |-> pane.agent, status |-> Status(pane), released |-> "no"]
    <2>1. e \in Events
      BY <1>2, StatusType, Zenon DEF Events, EventKinds
    <2>. QED
      BY <1>0, <1>14, <2>1 DEF Present
  <1>15. ASSUME NEW shows \in {"yes", "no"}, NEW scroll \in {"bottom", "back", "none"}, Redraw(shows, scroll)
         PROVE  AppTypeOK'
    BY <1>0, <1>15, Zenon DEF Redraw, Panes
  <1>16. ASSUME NEW kind \in {"updated", "other"}, EmitOther(kind) PROVE AppTypeOK'
    BY <1>0, <1>4, <1>16 DEF EmitOther, EventKinds
  <1>17. CASE EmitNext
    <2>1. pending' \in Seq(Events) /\ Head(pending) \in Events
      BY <1>17 DEF EmitNext
    <2>2. events' \in Seq([seq : Nat, ev : Events]) /\ Len(events') <= MaxEvents /\ nextSequence' \in Nat /\ log' \in Seq(Events)
      BY <1>17, <2>1, PushType, Zenon DEF EmitNext
    <2>. QED
      BY <1>17, <2>1, <2>2 DEF EmitNext
  <1>. QED
    BY <1>6, <1>7, <1>8, <1>9, <1>10, <1>11, <1>12, <1>13, <1>14, <1>15, <1>16, <1>17, Zenon DEF AppStep

\* Of the main thread's steps only emit_event changes the history.
LEMMA OnlyEmitPushes ==
  ASSUME AppStep
  PROVE  EmitNext \/ UNCHANGED hub
  BY Zenon DEF AppStep, ChangeState, DetectAgent, ProcessExits, AgentLeaves, Change, ViewPane, ClosePane,
         PaneDies, Respawn, Present, Redraw, EmitOther

\* The history stays the end of the log, and the log only grows.
LEMMA HistoryStep ==
  ASSUME History, AppStep
  PROVE  /\ History'
         /\ nextSequence <= nextSequence'
         /\ \A q \in 1 .. nextSequence : log'[q] = log[q]
  <1>1. AppTypeOK /\ AppTypeOK' /\ nextSequence \in Nat
    BY AppTypes DEF History, AppTypeOK
  <1>2. CASE UNCHANGED hub
    BY <1>1, <1>2 DEF History, hub
  <1>3. CASE EmitNext
    <2>1. Head(pending) \in Events /\ Push(Head(pending))
      BY <1>1, <1>3 DEF EmitNext, AppTypeOK
    <2>. DEFINE ev == Head(pending)
                n == Len(events)
                m == Len(events')
    <2>2. /\ n \in Nat /\ m \in Nat /\ n <= nextSequence /\ Len(log) = nextSequence
          /\ \A k \in 1 .. n : events[k].seq = nextSequence - n + k /\ events[k].ev = log[events[k].seq]
      BY <1>1 DEF History, AppTypeOK
    <2>. HIDE DEF ev
    <2>3. /\ nextSequence' = nextSequence + 1
          /\ Len(log') = nextSequence + 1 /\ log'[nextSequence + 1] = ev
          /\ \A q \in 1 .. nextSequence : log'[q] = log[q]
          /\ m > 0 /\ m <= n + 1 /\ events'[m] = [seq |-> nextSequence + 1, ev |-> ev]
          /\ \A k \in 1 .. m - 1 : events'[k] = events[n + 1 - m + k]
      BY <1>1, <2>1, <2>2, PushType DEF ev
    <2>. HIDE DEF n, m
    <2>4. ASSUME NEW k \in 1 .. m - 1
          PROVE  events'[k].seq = nextSequence + 1 - m + k /\ events'[k].ev = log'[events'[k].seq]
      <3>1. n + 1 - m + k \in 1 .. n
        <4>1. n \in Nat /\ m \in Nat /\ m <= n + 1
          BY <2>2, <2>3
        <4>. QED
          BY <4>1
      <3>2. events'[k] = events[n + 1 - m + k]
        BY <2>3
      <3>3. events'[k].seq = nextSequence - n + (n + 1 - m + k) /\ events'[k].ev = log[events'[k].seq]
        BY <2>2, <3>1, <3>2
      <3>4. nextSequence - n + (n + 1 - m + k) = nextSequence + 1 - m + k /\ nextSequence + 1 - m + k \in 1 .. nextSequence
        BY <1>1, <2>2, <2>3, <3>1
      <3>. QED
        BY <2>3, <3>3, <3>4
    <2>5. events'[m].seq = nextSequence + 1 /\ events'[m].ev = log'[nextSequence + 1]
      BY <2>3
    <2>6. ASSUME NEW k \in 1 .. m
          PROVE  events'[k].seq = nextSequence' - m + k /\ events'[k].ev = log'[events'[k].seq]
      <3>1. k \in 1 .. m - 1 \/ k = m
        BY <2>2
      <3>2. nextSequence' = nextSequence + 1 /\ nextSequence + 1 - m + m = nextSequence + 1
        BY <1>1, <2>2, <2>3
      <3>3. CASE k \in 1 .. m - 1
        <4>1. events'[k].seq = nextSequence + 1 - m + k /\ events'[k].ev = log'[events'[k].seq]
          BY <2>4, <3>3
        <4>2. nextSequence' - m + k = nextSequence + 1 - m + k
          BY <1>1, <2>2, <3>2
        <4>. QED
          BY <4>1, <4>2, Zenon
      <3>4. CASE k = m
        <4>1. nextSequence' - m + k = nextSequence + 1
          BY <1>1, <2>2, <3>2, <3>4
        <4>. QED
          BY <2>5, <3>4, <4>1, Zenon
      <3>. QED
        BY <3>1, <3>3, <3>4
    <2>7. Len(log') = nextSequence' /\ m <= nextSequence' /\ m > 0 /\ nextSequence <= nextSequence'
      BY <1>1, <2>2, <2>3
    <2>8. History'
      BY <1>1, <2>6, <2>7 DEF History, m
    <2>. QED
      BY <2>3, <2>7, <2>8
  <1>. QED
    BY <1>1, <1>2, <1>3, OnlyEmitPushes DEF hub

\* The retained events are numbered up to the last one.
LEMMA Numbered ==
  ASSUME History
  PROVE  /\ Len(events) \in Nat /\ DOMAIN events = 1 .. Len(events) /\ nextSequence \in Nat
         /\ Len(events) <= nextSequence /\ (nextSequence > 0 => Len(events) > 0)
         /\ \A k \in 1 .. Len(events) :
              events[k].seq = nextSequence - Len(events) + k /\ events[k].ev = log[events[k].seq]
  BY DEF History, AppTypeOK

\* What events_after returns: the retained events beyond a position.
LEMMA Batch ==
  ASSUME History, NEW s \in Nat
  PROVE  /\ \A k \in EventsAfter(s) :
              /\ k \in 1 .. Len(events) /\ events[k].seq \in s + 1 .. nextSequence
              /\ events[k].ev = log[events[k].seq]
         /\ s < nextSequence => Len(events) \in EventsAfter(s) /\ events[Len(events)].seq = nextSequence
  <1>. DEFINE n == Len(events)
  <1>1. /\ n \in Nat /\ nextSequence \in Nat /\ n <= nextSequence /\ (nextSequence > 0 => n > 0)
        /\ \A k \in 1 .. n : events[k].seq = nextSequence - n + k /\ events[k].ev = log[events[k].seq]
    BY Numbered
  <1>2. EventsAfter(s) = {k \in 1 .. n : events[k].seq > s}
    BY Numbered DEF EventsAfter
  <1>. HIDE DEF n
  <1>3. ASSUME NEW k \in EventsAfter(s)
        PROVE  k \in 1 .. n /\ events[k].seq \in s + 1 .. nextSequence /\ events[k].ev = log[events[k].seq]
    BY <1>1, <1>2
  <1>4. ASSUME s < nextSequence
        PROVE  n \in EventsAfter(s) /\ events[n].seq = nextSequence
    <2>1. n \in 1 .. n /\ nextSequence - n + n = nextSequence
      BY <1>1, <1>4
    <2>2. events[n].seq = nextSequence
      BY <1>1, <2>1
    <2>. QED
      BY <1>2, <1>4, <2>1, <2>2
  <1>. QED
    BY <1>3, <1>4 DEF n

\* events_after_checked reports a loss if, and only if, there is one.
LEMMA Complete ==
  ASSUME History, NEW s \in Nat
  PROVE  /\ LostAfter(s) => \E q \in s + 1 .. nextSequence : \A k \in DOMAIN events : events[k].seq # q
         /\ ~LostAfter(s) => \A q \in s + 1 .. nextSequence : \E k \in EventsAfter(s) : events[k].seq = q
  <1>. DEFINE n == Len(events)
  <1>1. /\ n \in Nat /\ nextSequence \in Nat /\ n <= nextSequence /\ (nextSequence > 0 => n > 0)
        /\ DOMAIN events = 1 .. n /\ \A k \in 1 .. n : events[k].seq = nextSequence - n + k
    BY Numbered
  <1>2. LostAfter(s) <=> n > 0 /\ s < nextSequence - n
    <2>1. n > 0 => events[1].seq = nextSequence - n + 1
      BY <1>1
    <2>. QED
      BY <1>1, <2>1 DEF LostAfter
  <1>. HIDE DEF n
  <1>3. ASSUME LostAfter(s) PROVE \E q \in s + 1 .. nextSequence : \A k \in DOMAIN events : events[k].seq # q
    <2>1. nextSequence - n \in s + 1 .. nextSequence
      BY <1>1, <1>2, <1>3
    <2>2. \A k \in DOMAIN events : events[k].seq # nextSequence - n
      BY <1>1
    <2>. QED
      BY <2>1, <2>2
  <1>4. ASSUME ~LostAfter(s), NEW q \in s + 1 .. nextSequence PROVE \E k \in EventsAfter(s) : events[k].seq = q
    <2>. DEFINE k == q - (nextSequence - n)
    <2>1. k \in 1 .. n /\ nextSequence - n + k = q /\ q > s
      BY <1>1, <1>2, <1>4
    <2>. HIDE DEF k
    <2>2. events[k].seq = q
      BY <1>1, <2>1
    <2>. QED
      BY <1>1, <2>1, <2>2 DEF EventsAfter
  <1>. QED
    BY <1>3, <1>4

----------------------------------------------------------------------------
(* The invariant. *)

\* Where the thread of a stream sets its subscriptions up, where it polls them
\* with nothing to write, and where no request of it is out.
SettingUp == {"accept", "new", "probe"}
Polling == {"poll", "sample", "quiet", "snapshot"}
NotAsking == {"accept", "new", "poll", "quiet", "write"}
OfStreams == SettingUp \cup Polling \cup {"write", "ended"}

Shapes ==
  /\ subs \in Seq(SubTypes) /\ start \in Nat /\ cur \in Nat \ {0}
  /\ last \in [Idx -> Nat] /\ delivered \in [Idx -> SUBSET Nat] /\ asOf \in [Idx -> Nat]
  /\ initial \in [Idx -> SUBSET Notes] /\ note \in SUBSET Notes /\ out \in SUBSET Nat
  /\ reply \in SUBSET Replies /\ submitted \in SUBSET Replies

\* Where the thread is and what that says of its state.
Place ==
  /\ subs # <<>> => pc \in OfStreams /\ call # "prompt" /\ submitted = {}
  /\ pc \in SettingUp => subs # <<>>
  /\ pc = "accept" => cur = 1
  /\ pc \in Polling \cup {"write", "probe"} => cur \in Idx
  /\ pc \in NotAsking => call = "none" /\ reply = {}
  /\ pc \in SettingUp => \A i \in Idx : delivered[i] = {} /\ asOf[i] = 0
  /\ pc \in SettingUp \cup Polling => out = {} /\ note = {}
  /\ note # {} => out = {} /\ Sub.type # "event"
  /\ pc = "probe" => Sub.type # "event"
  /\ pc = "sample" => Sub.type \in {"output", "scroll"}
  /\ pc \in {"quiet", "snapshot"} => Sub.type = "status"

\* A value from the probe waits only in a status subscription, and only until
\* something newer is there.
Pending ==
  /\ \A i \in Idx : initial[i] # {} => subs[i].type = "status"
  /\ (pc = "snapshot" \/ out # {} \/ note # {}) => (cur \in Idx => initial[cur] = {})

\* Subscriptions to kinds of events: where they stand and what they have.
Gap ==
  \A i \in Idx : subs[i].type = "event" =>
    /\ pc \in Polling \cup {"write"} => start <= last[i]
    /\ pc \in {"new", "probe"} => last[i] = IF i < cur THEN start ELSE 0
    /\ pc = "accept" => last[i] = 0
    /\ delivered[i] \cup Unwritten(i) = {q \in start + 1 .. last[i] : Matches(i, log[q])}

\* Nothing is ahead of the history, and nothing to be written is older than
\* what was written.
Times ==
  /\ start <= nextSequence
  /\ \A i \in Idx :
       /\ last[i] <= nextSequence /\ asOf[i] <= nextSequence
       /\ subs[i].type \in {"event", "status"} => asOf[i] <= last[i]
       /\ \A n \in initial[i] : asOf[i] <= n.seq /\ n.seq <= nextSequence
       /\ \A r \in reply : asOf[i] <= r.seq /\ r.seq <= nextSequence
  /\ \A q \in out : asOf[cur] < q /\ q <= last[cur]
  /\ \A n \in note : /\ asOf[cur] <= n.seq /\ n.seq <= nextSequence
                     /\ Sub.type = "status" => n.seq <= last[cur]

IInv == History /\ Shapes /\ Place /\ Pending /\ Gap /\ Times /\ LostIsTrue

----------------------------------------------------------------------------
\* The invariant holds at first.
LEMMA Initially ==
  ASSUME Init
  PROVE  IInv
  <1>0. PICK kinds \in SUBSET Kinds, changes \in Nat : AppInit(kinds, changes)
    <2>1. CASE \E sc \in Scenarios : AppInit(sc.may, sc.changes)
      BY <2>1, SubscriptionAssumption DEF ScenarioTypes
    <2>2. CASE \E rq \in Requests : AppInit(rq.may, rq.changes)
      BY <2>2, RequestAssumption DEF RequestTypes
    <2>. QED
      BY <2>1, <2>2 DEF Init
  <1>1. History
    <2>1. pane \in Panes
      BY <1>0, HubAssumption DEF AppInit, Panes, AgentStates
    <2>2. /\ nextSequence = 0 /\ events = <<>> /\ log = <<>> /\ pending = <<>>
          /\ may \subseteq Kinds /\ left \in Nat /\ viewed \in {"yes", "no"}
      BY <1>0 DEF AppInit
    <2>. QED
      BY <2>1, <2>2, HubAssumption DEF History, AppTypeOK
  <1>2. CASE subs = <<>> /\ pc = "ask"
    <2>1. CallsInit /\ SubInit(NoScenario) /\ submitted = {}
      BY <1>2, SubscriptionAssumption DEF Init, SubInit, WaitInit, NoScenario
    <2>2. Idx = {} /\ nextSequence \in Nat /\ LostIsTrue
      BY <1>1, <1>2, <2>1 DEF Idx, History, AppTypeOK, CallsInit, LostIsTrue
    <2>3. Shapes
      BY <1>2, <2>1, <2>2 DEF CallsInit, SubInit, Shapes
    <2>5. pc \notin SettingUp \cup Polling \cup NotAsking \cup {"accept", "probe", "sample", "quiet", "snapshot", "write"}
      BY <1>2 DEF SettingUp, Polling, NotAsking
    <2>6. Place
      BY <1>2, <2>1, <2>5, Zenon DEF SubInit, Place
    <2>4. Pending /\ Gap /\ Times
      BY <2>1, <2>2 DEF SubInit, Pending, Gap, Times
    <2>. QED
      BY <1>1, <2>2, <2>3, <2>4, <2>6, Zenon DEF IInv
  <1>3. CASE subs # <<>> /\ pc = "accept"
    <2>1. subs \in Seq(SubTypes)
      BY <1>3, SubscriptionAssumption, Zenon DEF Init, SubInit, ScenarioTypes, NoScenario
    <2>2. nextSequence = 0 /\ CallsInit /\ submitted = {}
      BY Zenon DEF Init, AppInit, WaitInit
    <2>3. /\ cur = 1 /\ start = 0 /\ out = {} /\ note = {} /\ last = [i \in Idx |-> 0] /\ asOf = [i \in Idx |-> 0]
          /\ initial = [i \in Idx |-> {}] /\ delivered = [i \in Idx |-> {}]
      BY Zenon DEF Init, SubInit
    <2>4. call = "none" /\ reply = {} /\ outcome = "open"
      BY <2>2, Zenon DEF CallsInit
    <2>5. Shapes
      BY <2>1, <2>2, <2>3, <2>4 DEF Shapes
    <2>6. Place
      BY <1>3, <2>2, <2>3, <2>4 DEF Place, OfStreams, SettingUp, Polling, NotAsking
    <2>7. Pending /\ LostIsTrue
      BY <1>3, <2>3, <2>4 DEF Pending, LostIsTrue
    <2>8. Gap
      BY <1>3, <2>2, <2>3 DEF Gap, Unwritten, Polling
    <2>9. Times
      BY <2>2, <2>3, <2>4 DEF Times
    <2>. QED
      BY <1>1, <2>5, <2>6, <2>7, <2>8, <2>9, Zenon DEF IInv
  <1>. QED
    BY <1>2, <1>3, SubscriptionAssumption DEF Init, SubInit, NoScenario

\* The main thread only appends to the log, beyond every position.
LEMMA MainKeeps ==
  ASSUME IInv, Main
  PROVE  IInv'
  <1>1. /\ History /\ History' /\ nextSequence <= nextSequence'
        /\ \A q \in 1 .. nextSequence : log'[q] = log[q]
    BY HistoryStep DEF IInv, Main
  <1>2. UNCHANGED <<thread, subVars, submitted>> /\ outcome = "open"
    BY DEF Main
  <1>3. nextSequence \in Nat /\ nextSequence' \in Nat
    BY <1>1 DEF History, AppTypeOK
  <1>4. /\ Shapes /\ Place /\ Pending /\ Times /\ nextSequence <= nextSequence'
        /\ UNCHANGED <<pc, call, reply, outcome, subs, cur, start, last, initial, out, note, delivered, asOf, submitted>>
    BY <1>1, <1>2, Zenon DEF IInv, thread, calls, subVars, position, stream
  <1>5. Shapes' /\ Place' /\ Pending' /\ Times'
    <2>1. Shapes'
      BY <1>4 DEF Shapes, Idx
    <2>2. Place' /\ Pending'
      BY <1>4, Zenon DEF Place, Pending, Idx, Sub
    <2>3. \A i \in Idx : /\ last[i] \in Nat /\ asOf[i] \in Nat
                         /\ \A n \in initial[i] : n.seq \in Nat
      BY <1>4 DEF Shapes, Notes
    <2>4. start \in Nat /\ (\A n \in note : n.seq \in Nat) /\ (\A r \in reply : r.seq \in Nat)
      BY <1>4 DEF Shapes, Notes, Replies
    <2>5. Times'
      BY <1>3, <1>4, <2>3, <2>4 DEF Times, Idx, Sub
    <2>. QED
      BY <2>1, <2>2, <2>5
  <1>6. ASSUME NEW i \in Idx, subs[i].type = "event"
        PROVE  {q \in start + 1 .. last[i] : Matches(i, log[q])}
                 = {q \in start + 1 .. last[i] : Matches(i, log[q])'}
    <2>1. last[i] \in Nat /\ last[i] <= nextSequence /\ start \in Nat
      BY <1>6 DEF IInv, Shapes, Times
    <2>2. \A q \in start + 1 .. last[i] : log'[q] = log[q]
      BY <1>1, <1>3, <2>1
    <2>. QED
      BY <1>2, <2>2 DEF Matches, Wanted, subVars
  <1>7. Gap'
    BY <1>2, <1>6 DEF IInv, Gap, Unwritten, Idx, thread, calls, subVars, position, stream
  <1>. QED
    BY <1>1, <1>2, <1>4, <1>5, <1>7 DEF IInv, LostIsTrue

\* A step that leaves the history and the subscriptions alone.
LEMMA OthersKeep ==
  ASSUME IInv, UNCHANGED <<hub, app, subVars>>, Shapes', Place', (pc' = pc \/ Idx = {}),
         outcome' = outcome \/ outcome' # "lost",
         \A i \in Idx : \A r \in reply' : asOf[i] <= r.seq /\ r.seq <= nextSequence
  PROVE  IInv'
  <1>. USE DEF hub, app, subVars, position, stream
  <1>1. History'
    BY DEF IInv, History, AppTypeOK
  <1>2. Pending' /\ LostIsTrue'
    BY DEF IInv, Pending, LostIsTrue, Idx, Place
  <1>3. Gap'
    BY Zenon DEF IInv, Gap, Idx, Unwritten, Matches, Wanted
  <1>4. Times'
    BY Zenon DEF IInv, Times, Idx, Sub
  <1>. QED
    BY <1>1, <1>2, <1>3, <1>4 DEF IInv

\* The reply that a thread takes is one.
LEMMA TheReplyIs ==
  ASSUME Shapes, Answered
  PROVE  TheReply \in reply /\ TheReply \in Replies /\ TheReply.err \in Errors \cup {"none"}
  <1>1. TheReply \in reply
    BY Zenon DEF Answered, TheReply
  <1>. QED
    BY <1>1 DEF Shapes, Replies

\* A reply is given at the present place in the history.
LEMMA RepliesKeep ==
  ASSUME IInv, AppReplies
  PROVE  IInv'
  <1>1. /\ UNCHANGED <<hub, app, subVars, pc, outcome, call, submitted>> /\ call \in {"pane", "read", "agent"}
        /\ \E e \in Errors \cup {"none"} : Reply(e)
    BY DEF AppReplies, Answer, AnswerLate, LateErrors, Errors, waitVars
  <1>2. \A r \in reply' : r \in Replies /\ r.seq = nextSequence
    BY <1>1 DEF IInv, History, AppTypeOK, Reply, Replies
  <1>3. Shapes' /\ Place'
    BY <1>1, <1>2 DEF IInv, Shapes, Place, Idx, Sub, subVars, position, stream, NotAsking
  <1>4. \A i \in Idx : \A r \in reply' : asOf[i] <= r.seq /\ r.seq <= nextSequence
    <2>1. Times /\ nextSequence \in Nat
      BY Zenon DEF IInv, History, AppTypeOK
    <2>. QED
      BY <1>2, <2>1 DEF Times
  <1>. QED
    BY <1>1, <1>3, <1>4, OthersKeep

\* A connection that waits for an agent has no subscriptions.
LEMMA WaitKeeps ==
  ASSUME IInv, WaitStep, UNCHANGED subVars
  PROVE  IInv'
  <1>. DEFINE Places == {"first", "before", "position", "prompted", "loop", "again", "check", "last", "ended"}
              Quietly == /\ UNCHANGED <<hub, app>> /\ pc' \in Places \cup {pc}
                         /\ outcome' = outcome \/ outcome' # "lost"
                         /\ reply' \in SUBSET Replies /\ submitted' \in SUBSET Replies
  <1>1. reply \in SUBSET Replies /\ submitted \in SUBSET Replies /\ pane \in Panes /\ nextSequence \in Nat
    BY DEF IInv, Shapes, History, AppTypeOK
  <1>2. subs = <<>>
    BY Zenon DEF IInv, Place, OfStreams, SettingUp, Polling, WaitStep, WaitRun, WaitStart, First, PromptStart, Before,
       Position, Prompted, Loop, Again, Check, Last, AcceptPrompt, SubmitEnds, DeadlinePasses, WaitStop, At
  <1>3. Quietly
    <2>. USE <1>1
    <2>. USE DEF At, End, Ask, Taken, Reply, Errors
    <2>1. CASE WaitStart \/ PromptStart \/ Position \/ Check
      BY <2>1 DEF WaitStart, PromptStart, Position, Check, calls, wait, waitVars
    <2>2. CASE First
      BY <2>2, TheReplyIs DEF IInv, First, Enter, Succeed
    <2>3. CASE Before
      BY <2>3, TheReplyIs DEF IInv, Before
    <2>4. CASE Prompted
      BY <2>4, TheReplyIs, Zenon DEF IInv, Prompted, Settle, Enter, Succeed
    <2>5. CASE Loop
      <3>1. UNCHANGED <<hub, app, submitted>> /\ (UNCHANGED reply \/ reply' = {})
        BY <2>5, Zenon DEF Loop, calls
      <3>2. /\ pc' \in Places
            /\ outcome' = outcome \/ outcome' # "lost"
        BY <2>5, Zenon DEF Loop, Match, NotRunning, Settle, Enter, Succeed
      <3>. QED
        BY <3>1, <3>2
    <2>6. CASE Again
      BY <2>6, TheReplyIs DEF IInv, Again, ProbeFails, Match, Settle, Enter, Succeed
    <2>7. CASE Last
      BY <2>7, TheReplyIs DEF IInv, Last, ProbeFails, Match, Settle, Enter, Succeed
    <2>8. CASE AcceptPrompt
      <3>1. \A e \in Refusals : e \in Errors
        BY DEF Refusals
      <3>. QED
        BY <2>8, <3>1 DEF AcceptPrompt, Replies
    <2>9. CASE SubmitEnds
      BY <2>9 DEF SubmitEnds, Replies
    <2>10. CASE DeadlinePasses \/ WaitStop
      BY <2>10 DEF DeadlinePasses, WaitStop, thread, calls, waitVars
    <2>. QED
      BY <2>1, <2>2, <2>3, <2>4, <2>5, <2>6, <2>7, <2>8, <2>9, <2>10 DEF WaitStep, WaitRun
  <1>4. subs' = <<>> /\ Idx = {} /\ Idx' = {}
    BY <1>2 DEF Idx, subVars
  <1>5. Shapes'
    BY <1>3, <1>4 DEF IInv, Shapes, Idx, subVars, position, stream
  <1>6. Place'
    <2>1. pc \notin SettingUp \cup Polling \cup {"write", "probe"}
      BY <1>2, <1>4 DEF IInv, Place
    <2>2. pc' \notin SettingUp \cup Polling \cup {"write", "probe"}
      BY <1>3, <2>1 DEF SettingUp, Polling
    <2>3. (note # {} => out = {} /\ Sub.type # "event")'
      BY DEF IInv, Place, Sub, subVars, position, stream
    <2>. QED
      BY <1>4, <2>2, <2>3 DEF Place, SettingUp, Polling, NotAsking
  <1>. HIDE DEF Places
  <1>. QED
    BY <1>3, <1>4, <1>5, <1>6, OthersKeep

----------------------------------------------------------------------------
(* Setting up: ActiveSubscription::new. *)

\* What holds after every step of the set-up.
Calm ==
  /\ out = {} /\ note = {} /\ reply = {} /\ subs # <<>> /\ submitted = {} /\ start <= nextSequence
  /\ pc \in {"new", "probe", "poll", "ended"} /\ call # "prompt" /\ (pc # "probe" => call = "none")
  /\ (pc \in {"probe", "poll"} => cur \in Idx) /\ (pc = "probe" => Sub.type # "event")
  /\ \A i \in Idx :
       /\ delivered[i] = {} /\ asOf[i] = 0 /\ last[i] <= nextSequence
       /\ initial[i] # {} => subs[i].type = "status"
       /\ \A n \in initial[i] : n.seq <= nextSequence
  /\ \A i \in Idx : subs[i].type = "event" =>
       /\ last[i] <= start /\ (pc = "poll" => start <= last[i])
       /\ pc \in {"new", "probe"} => last[i] = IF i < cur THEN start ELSE 0

\* It is enough for the invariant: while nothing is delivered and no position
\* is beyond the start, there is no gap.
LEMMA CalmKeeps ==
  ASSUME History', Shapes', Calm'
  PROVE  Place' /\ Pending' /\ Gap' /\ Times'
  <1>1. Place'
    BY Zenon DEF Calm, Place, OfStreams, SettingUp, Polling, NotAsking
  <1>2. Pending'
    BY Zenon DEF Calm, Pending
  <1>3. Gap'
    <2>1. ASSUME NEW i \in Idx', subs'[i].type = "event"
          PROVE  (delivered[i] \cup Unwritten(i))' = {} /\ start' + 1 .. last'[i] = {}
      <3>1. last'[i] \in Nat /\ start' \in Nat /\ last'[i] <= start'
        BY <2>1 DEF Calm, Shapes
      <3>2. out' = {} /\ note' = {} /\ delivered'[i] = {}
        BY Zenon DEF Calm
      <3>. QED
        BY <3>1, <3>2 DEF Unwritten
    <2>. QED
      BY <2>1, Zenon DEF Gap, Calm, Polling
  <1>4. Times'
    <2>1. ASSUME NEW i \in Idx'
          PROVE  /\ last'[i] \in Nat /\ asOf'[i] = 0 /\ last'[i] <= nextSequence' /\ nextSequence' \in Nat
                 /\ \A n \in initial'[i] : n.seq \in Nat /\ n.seq <= nextSequence'
      BY DEF Calm, Shapes, Notes, History, AppTypeOK
    <2>2. start' <= nextSequence' /\ out' = {} /\ note' = {} /\ reply' = {}
      BY Zenon DEF Calm
    <2>. QED
      BY <2>1, <2>2 DEF Times
  <1>. QED
    BY <1>1, <1>2, <1>3, <1>4

\* Setting the subscriptions up.
LEMMA SetUpKeeps ==
  ASSUME IInv, SubStep, UNCHANGED waitVars, pc \in SettingUp
  PROVE  IInv'
  <1>0. History /\ Shapes /\ Place /\ Pending /\ Gap /\ Times /\ LostIsTrue
    BY Zenon DEF IInv
  <1>1. /\ nextSequence \in Nat /\ DOMAIN subs = 1 .. Len(subs) /\ Len(subs) \in Nat /\ Idx = DOMAIN subs
        /\ start \in Nat /\ cur \in Nat /\ last \in [Idx -> Nat] /\ initial \in [Idx -> SUBSET Notes]
    <2>1. nextSequence \in Nat
      BY <1>0, Zenon DEF History, AppTypeOK
    <2>2. /\ subs \in Seq(SubTypes) /\ start \in Nat /\ cur \in Nat
          /\ last \in [Idx -> Nat] /\ initial \in [Idx -> SUBSET Notes]
      BY <1>0, Zenon DEF Shapes
    <2>3. DOMAIN subs = 1 .. Len(subs) /\ Len(subs) \in Nat
      BY <2>2
    <2>. QED
      BY <2>1, <2>2, <2>3, Zenon DEF Idx
  <1>2. /\ out = {} /\ note = {} /\ subs # <<>> /\ submitted = {} /\ call # "prompt"
        /\ \A i \in Idx : delivered[i] = {} /\ asOf[i] = 0
        /\ pc # "probe" => call = "none" /\ reply = {}
        /\ pc = "accept" => cur = 1
        /\ pc = "probe" => cur \in Idx /\ Sub.type # "event"
    BY <1>0, Zenon DEF Place, SettingUp, NotAsking
  <1>3. /\ start <= nextSequence
        /\ \A i \in Idx : /\ last[i] <= nextSequence
                          /\ initial[i] # {} => subs[i].type = "status"
                          /\ \A n \in initial[i] : n.seq <= nextSequence
        /\ \A i \in Idx : subs[i].type = "event" =>
                          /\ pc \in {"new", "probe"} => last[i] = IF i < cur THEN start ELSE 0
                          /\ pc = "accept" => last[i] = 0
    BY <1>0, Zenon DEF Times, Pending, Gap
  <1>4. outcome = "open" /\ UNCHANGED <<hub, app, subs, submitted, out, note, delivered, asOf, waiting>>
    BY Zenon DEF SubStep, SubRun, Accept, NewEvent, NewSampled, Probed, Started, PollBatch, PollOne, PollSample,
       Sampled, Quiet, Snapshot, Write, WriteNote, NextSub, Stop, Deadline, SettingUp, At, subVars, stream, waitVars
  <1>5. History' /\ Idx' = Idx
    BY <1>0, <1>4 DEF History, AppTypeOK, hub, app, Idx
  <1>6. ASSUME Shapes', Calm', outcome' \in {"open", "gone", "rejected"} PROVE IInv'
    BY <1>5, <1>6, CalmKeeps, Zenon DEF IInv, LostIsTrue
  <1>7. ASSUME start' \in Nat, cur' \in Nat \ {0}, last' \in [Idx -> Nat], initial' \in [Idx -> SUBSET Notes], reply' = {}
        PROVE  Shapes'
    BY <1>0, <1>4, <1>5, <1>7, Zenon DEF Shapes
  <1>8. ASSUME reply' = {}, start' <= nextSequence,
               pc' \in {"new", "probe", "poll", "ended"} /\ call' # "prompt" /\ (pc' # "probe" => call' = "none"),
               (pc' \in {"probe", "poll"} => cur' \in Idx) /\ (pc' = "probe" => subs[cur'].type # "event"),
               \A i \in Idx : /\ last'[i] <= nextSequence
                              /\ initial'[i] # {} => subs[i].type = "status"
                              /\ \A n \in initial'[i] : n.seq <= nextSequence,
               \A i \in Idx : subs[i].type = "event" =>
                              /\ last'[i] <= start' /\ (pc' = "poll" => start' <= last'[i])
                              /\ pc' \in {"new", "probe"} => last'[i] = IF i < cur' THEN start' ELSE 0
        PROVE  Calm'
    BY <1>2, <1>4, <1>5, <1>8, Zenon DEF Calm, Sub, hub
  <1>9. cur \in Nat \ {0}
    BY <1>0 DEF Shapes
  <1>10. CASE Accept
    <2>1. /\ pc = "accept" /\ pc' = "new" /\ start' = nextSequence /\ outcome' = outcome
          /\ UNCHANGED <<call, reply, cur, last, initial>>
      BY <1>10, Zenon DEF Accept, At, calls, position
    <2>2. Shapes'
      BY <1>1, <1>2, <1>7, <1>9, <2>1
    <2>3. \A i \in Idx : subs[i].type = "event" => last'[i] <= start' /\ last'[i] = IF i < cur' THEN start' ELSE 0
      BY <1>1, <1>2, <1>3, <2>1
    <2>4. Calm'
      <3>1. start' <= nextSequence
        BY <1>1, <2>1
      <3>. QED
        BY <1>2, <1>3, <1>8, <2>1, <2>3, <3>1, Zenon
    <2>. QED
      BY <1>4, <1>6, <2>1, <2>2, <2>4, Zenon
  <1>11. CASE NewEvent
    <2>1. /\ pc = "new" /\ cur \in Idx /\ subs[cur].type = "event" /\ cur' = cur + 1
          /\ last' = [last EXCEPT ![cur] = start]
          /\ UNCHANGED <<pc, call, reply, outcome, start, initial>>
      BY <1>11, Zenon DEF NewEvent, At, thread, calls, Sub
    <2>2. Shapes'
      <3>1. cur' \in Nat \ {0} /\ last' \in [Idx -> Nat]
        BY <1>1, <1>9, <2>1
      <3>. QED
        BY <1>1, <1>2, <1>7, <2>1, <3>1, Zenon
    <2>3. \A i \in Idx : last'[i] <= nextSequence
      BY <1>1, <1>3, <2>1
    <2>4. \A i \in Idx : subs[i].type = "event" => last'[i] <= start' /\ last'[i] = IF i < cur' THEN start' ELSE 0
      BY <1>1, <1>3, <2>1
    <2>5. Calm'
      BY <1>2, <1>3, <1>8, <2>1, <2>3, <2>4, Zenon
    <2>. QED
      BY <1>4, <1>6, <2>1, <2>2, <2>5, Zenon
  <1>12. CASE NewSampled
    <2>1. /\ pc = "new" /\ cur \in Idx /\ subs[cur].type # "event" /\ reply' = {}
          /\ \/ pc' = pc /\ cur' = cur + 1 /\ call' = "none"
             \/ pc' = "probe" /\ cur' = cur /\ call' \in {"read", "pane"}
          /\ last' = [last EXCEPT ![cur] = nextSequence] \/ last' = last
          /\ UNCHANGED <<outcome, start, initial>>
      BY <1>2, <1>12 DEF NewSampled, At, Ask, calls, Sub
    <2>2. Shapes'
      <3>1. cur' \in Nat \ {0} /\ last' \in [Idx -> Nat]
        BY <1>1, <1>9, <2>1
      <3>. QED
        BY <1>1, <1>7, <2>1, <3>1, Zenon
    <2>3. \A i \in Idx : last'[i] <= nextSequence
      BY <1>1, <1>3, <2>1
    <2>4. \A i \in Idx : subs[i].type = "event" => last'[i] <= start' /\ last'[i] = IF i < cur' THEN start' ELSE 0
      BY <1>1, <1>3, <2>1
    <2>5. Calm'
      BY <1>3, <1>8, <2>1, <2>3, <2>4
    <2>. QED
      BY <1>4, <1>6, <2>1, <2>2, <2>5, Zenon
  <1>13. CASE Started
    <2>1. /\ pc = "new" /\ pc' = "poll" /\ cur \notin Idx /\ cur' = 1
          /\ UNCHANGED <<call, reply, outcome, start, last, initial>>
      BY <1>13, Zenon DEF Started, At, calls
    <2>2. Shapes'
      <3>1. 1 \in Nat \ {0}
        OBVIOUS
      <3>. QED
        BY <1>1, <1>2, <1>7, <2>1, <3>1, Zenon
    <2>3. 1 \in Idx /\ \A i \in Idx : i < cur
      <3>1. Len(subs) # 0
        BY <1>0, <1>2 DEF Shapes
      <3>. QED
        BY <1>1, <1>9, <2>1, <3>1
    <2>4. \A i \in Idx : subs[i].type = "event" => last'[i] <= start' /\ start' <= last'[i]
      BY <1>1, <1>3, <2>1, <2>3
    <2>5. Calm'
      BY <1>2, <1>3, <1>8, <2>1, <2>3, <2>4, Zenon
    <2>. QED
      BY <1>4, <1>6, <2>1, <2>2, <2>5, Zenon
  <1>14. CASE Stop
    <2>1. /\ pc = "new" /\ pc' = "ended" /\ outcome' = "gone"
          /\ UNCHANGED <<call, reply, start, cur, last, initial>>
      BY <1>14, Zenon DEF Stop, At, End, calls, subVars, position, SettingUp
    <2>2. Shapes'
      BY <1>1, <1>2, <1>7, <1>9, <2>1, Zenon
    <2>3. \A i \in Idx : subs[i].type = "event" => last'[i] <= start'
      BY <1>1, <1>3, <2>1
    <2>4. Calm'
      BY <1>2, <1>3, <1>8, <2>1, <2>3, Zenon
    <2>. QED
      BY <1>6, <2>1, <2>2, <2>4, Zenon
  <1>15. CASE Probed
    <2>1. TheReply \in reply /\ TheReply.seq \in Nat /\ TheReply.seq <= nextSequence /\ TheReply.pane \in Panes
      BY <1>0, <1>1, <1>2, <1>15, TheReplyIs DEF Probed, At, Shapes, Replies, Times
    <2>2. cur \in Idx /\ Sub.type # "event" /\ Sub \in SubTypes
      <3>1. pc = "probe"
        BY <1>15, Zenon DEF Probed, At
      <3>. QED
        BY <1>0, <1>2, <3>1 DEF Shapes, Idx, Sub
    <2>. DEFINE s == IF Sub.type = "output" THEN "no" ELSE Sample(Sub.type, TheReply.pane)
                first == IF s = Sub.want THEN {[val |-> s, seq |-> TheReply.seq]} ELSE {}
    <2>3. s \in Samples /\ (s = Sub.want => Sub.type = "status")
      BY <2>1, <2>2, StatusType DEF Sample, Samples, SubTypes, Panes, Statuses, AgentStates
    <2>4. \/ pc' = "ended" /\ outcome' = "rejected" /\ UNCHANGED <<cur, initial>>
          \/ pc' = "new" /\ cur' = cur + 1 /\ outcome' = outcome /\ initial' = [initial EXCEPT ![cur] = first]
      BY <1>15, Zenon DEF Probed, End
    <2>5. pc = "probe" /\ call' = "none" /\ reply' = {} /\ UNCHANGED <<start, last>>
      BY <1>15, Zenon DEF Probed, At, Taken
    <2>. HIDE DEF s
    <2>6. first \in SUBSET Notes /\ (first # {} => Sub.type = "status") /\ \A n \in first : n.seq <= nextSequence
      <3>1. [val |-> s, seq |-> TheReply.seq] \in Notes
        BY <2>1, <2>3, Zenon DEF Notes
      <3>2. ASSUME NEW n \in first PROVE n = [val |-> s, seq |-> TheReply.seq] /\ s = Sub.want
        BY <3>2, Zenon
      <3>3. \A n \in first : n.seq <= nextSequence
        BY <2>1, <3>2
      <3>. QED
        BY <2>3, <3>1, <3>2, <3>3, Zenon
    <2>. HIDE DEF first
    <2>7. Shapes'
      <3>1. cur' \in Nat \ {0}
        BY <1>9, <2>4
      <3>2. initial' \in [Idx -> SUBSET Notes]
        BY <1>1, <2>4, <2>6, Zenon
      <3>. QED
        BY <1>1, <1>7, <2>5, <3>1, <3>2, Zenon
    <2>8. ASSUME NEW i \in Idx
          PROVE  /\ initial'[i] # {} => subs[i].type = "status"
                 /\ \A n \in initial'[i] : n.seq <= nextSequence
      <3>1. initial'[i] = initial[i] \/ (i = cur /\ initial'[i] = first)
        BY <1>1, <2>4, Zenon
      <3>. QED
        BY <1>3, <2>6, <3>1, Zenon DEF Sub
    <2>9. \A i \in Idx : subs[i].type = "event" =>
            last'[i] <= start' /\ (pc' = "new" => last'[i] = IF i < cur' THEN start' ELSE 0)
      <3>1. ASSUME NEW i \in Idx, subs[i].type = "event"
            PROVE  i # cur /\ (last[i] = IF i < cur THEN start ELSE 0) /\ (pc' = "new" => cur' = cur + 1)
        BY <1>3, <2>2, <2>4, <2>5, <3>1, Zenon DEF Sub
      <3>. QED
        BY <1>1, <2>5, <3>1
    <2>10. Calm'
      BY <1>3, <1>8, <2>4, <2>5, <2>8, <2>9, Zenon
    <2>. QED
      BY <1>4, <1>6, <2>4, <2>7, <2>10, Zenon
  <1>. QED
    BY <1>10, <1>11, <1>12, <1>13, <1>14, <1>15, Zenon DEF SubStep, SubRun, PollBatch, PollOne, PollSample, Sampled,
       Quiet, Snapshot, Write, WriteNote, NextSub, Deadline, At, SettingUp
============================================================================
