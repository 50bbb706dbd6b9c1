--------------------------- MODULE Subscriptions ---------------------------
(* A connection that streams subscriptions or waits for one event or output:  *)
(* stream_subscriptions (runtime/src/api/server.rs), ActiveSubscription       *)
(* (api/subscriptions.rs), wait_for_event and wait_for_output (api/wait.rs).  *)
(* Each read of the history is one step under the hub's lock, and each        *)
(* request to the main thread two; the main thread runs in between.           *)
EXTENDS ApiCalls, FiniteSetsExt

CONSTANT Scenarios \* what a client asks for, and what happens meanwhile

VARIABLES
  subs,       \* the subscriptions, or the one thing waited for
  waiting,    \* "yes" for events.wait and pane.wait_for_output
  cur,        \* the subscription the thread is at
  start,      \* event_start_sequence
  last,       \* last_sequence, by subscription
  sampled,    \* last_status, currently_matching or last_scroll
  initial,    \* initial_event: a set of at most one note
  out,        \* sequence numbers of the batch that are not yet written
  note,       \* an event made from a sample, not yet written: at most one note
  delivered,  \* history: the sequence numbers written to the client
  told,       \* history: the last value the client was told
  asOf        \* history: the place in the event history that value is of

position == <<cur, last, sampled, initial>>
stream == <<out, note, delivered, told, asOf>>
subVars == <<subs, waiting, start, position, stream>>

\* A subscription: to a kind of event; to the pane's status, all of them or
\* one; to an output match; or to the scroll position.
SubTypes == [type : {"event"}, want : EventKinds]
            \cup [type : {"status"}, want : Statuses \cup {"any"}]
            \cup [type : {"output", "scroll"}, want : {"any"}]

\* A list of subscriptions, or one thing to wait for; and the bounds on what
\* the main thread does.
ScenarioTypes == [subs : Seq(SubTypes), waiting : {"yes", "no"}, may : SUBSET Kinds, changes : Nat]

\* A wait is for one status or for an output (event_match_subscription).
Waitable(list) ==
  /\ Len(list) = 1
  /\ list[1].type = "output" \/ (list[1].type = "status" /\ list[1].want # "any")

ASSUME SubscriptionAssumption ==
  /\ Scenarios \subseteq ScenarioTypes
  /\ \A sc \in Scenarios : sc.subs # <<>> /\ (sc.waiting = "yes" => Waitable(sc.subs))

Samples == Statuses \cup {"yes", "no", "bottom", "back", "none"}

\* A sampled value and the place in the history it was sampled at.
Notes == [val : Samples, seq : Nat]

Idx == DOMAIN subs
Sub == subs[cur]

Wanted(i, st) == subs[i].want \in {"any", st}

\* The events of the history a subscription is about.
Matches(i, ev) ==
  \/ subs[i].type = "event" /\ ev.kind = subs[i].want
  \/ subs[i].type = "status" /\ ev.kind = "status" /\ Wanted(i, ev.status)

\* What a subscription of a type samples from a pane.
Sample(type, p) == CASE type = "status" -> Status(p)
                     [] type = "output" -> p.shows
                     [] OTHER -> p.scroll

SubInit(sc) ==
  /\ subs = sc.subs /\ waiting = sc.waiting
  /\ cur = 1 /\ start = 0
  /\ last = [i \in Idx |-> 0]
  /\ sampled = [i \in Idx |-> "none"] /\ initial = [i \in Idx |-> {}]
  /\ out = {} /\ note = {} /\ delivered = [i \in Idx |-> {}]
  /\ told = [i \in Idx |-> "none"] /\ asOf = [i \in Idx |-> 0]

----------------------------------------------------------------------------
(* Setting up: ActiveSubscription::new for each subscription in turn. *)

\* The sequence number that subscriptions to kinds of events start from.
Accept ==
  /\ At("accept") /\ pc' = "new" /\ start' = nextSequence
  /\ UNCHANGED <<hub, app, calls, outcome, subs, waiting, position, stream>>

NewEvent ==
  /\ At("new") /\ cur \in Idx /\ Sub.type = "event"
  /\ last' = [last EXCEPT ![cur] = start] /\ cur' = cur + 1
  /\ UNCHANGED <<hub, app, thread, subs, waiting, start, sampled, initial, stream>>

\* The others probe the pane.  A status subscription reads its position in the
\* history before that.  wait_for_output has no probe.
NewSampled ==
  /\ At("new") /\ cur \in Idx /\ Sub.type # "event"
  /\ last' = IF Sub.type = "status" THEN [last EXCEPT ![cur] = nextSequence] ELSE last
  /\ \/ /\ waiting = "yes" /\ Sub.type = "output" /\ cur' = cur + 1
        /\ UNCHANGED <<pc, calls>>
     \/ /\ ~(waiting = "yes" /\ Sub.type = "output") /\ pc' = "probe"
        /\ Ask(IF Sub.type = "output" THEN "read" ELSE "pane") /\ UNCHANGED cur
  /\ UNCHANGED <<hub, app, outcome, subs, waiting, start, sampled, initial, stream>>

\* Mutant: no initial event for a status that is there already.
ProbedSilently ==
  /\ At("probe") /\ Answered /\ Taken
  /\ LET r == TheReply
         s == IF Sub.type = "output" THEN "no" ELSE Sample(Sub.type, r.pane)
     IN  \/ /\ r.err # "none" /\ End("rejected")
            /\ UNCHANGED <<cur, sampled, told>>
         \/ /\ r.err = "none" /\ pc' = "new" /\ cur' = cur + 1
            /\ sampled' = [sampled EXCEPT ![cur] = s]
            /\ told' = IF Sub.want = "any" THEN [told EXCEPT ![cur] = s] ELSE told
            /\ UNCHANGED outcome
  /\ UNCHANGED <<hub, app, subs, waiting, start, last, initial, out, note, delivered, asOf>>

\* A probe that fails rejects the request; an output match is first looked
\* for in the loop.
Probed ==
  /\ At("probe") /\ Answered /\ Taken
  /\ LET r == TheReply
         s == IF Sub.type = "output" THEN "no" ELSE Sample(Sub.type, r.pane)
     IN  \/ /\ r.err # "none" /\ End("rejected")
            /\ UNCHANGED <<cur, sampled, initial, told>>
         \/ /\ r.err = "none" /\ pc' = "new" /\ cur' = cur + 1
            /\ sampled' = [sampled EXCEPT ![cur] = s]
            /\ told' = IF Sub.want = "any" THEN [told EXCEPT ![cur] = s] ELSE told
            /\ initial' = [initial EXCEPT ![cur] = IF s = Sub.want THEN {[val |-> s, seq |-> r.seq]} ELSE {}]
            /\ UNCHANGED outcome
  /\ UNCHANGED <<hub, app, subs, waiting, start, last, out, note, delivered, asOf>>

\* The acknowledgement is written and the loop begins.
Started ==
  /\ At("new") /\ cur \notin Idx /\ pc' = "poll" /\ cur' = 1
  /\ UNCHANGED <<hub, app, calls, outcome, subs, waiting, start, last, sampled, initial, stream>>

----------------------------------------------------------------------------
(* The loop over the subscriptions. *)

\* should_stop_connection holds (the client is gone or the server stops), or
\* a write fails.
Stop ==
  /\ \/ At("new") /\ cur \notin Idx
     \/ At("poll") /\ cur = 1
     \/ At("write") /\ (out # {} \/ note # {})
  /\ End("gone")
  /\ UNCHANGED <<hub, app, calls, subVars>>

Seqs(batch) == {events[k].seq : k \in batch}

\* Mutant: an event of the history does not count as told.
LookUnnoticed(batch) ==
  LET news == {k \in batch : Sub.type = "status" /\ events[k].ev.kind = "status"}
  IN  /\ last' = IF batch = {} THEN last ELSE [last EXCEPT ![cur] = Max(Seqs(batch))]
      /\ initial' = IF news = {} THEN initial ELSE [initial EXCEPT ![cur] = {}]
      /\ UNCHANGED sampled

\* What looking at the events of a batch leaves in the subscription: its
\* position and, by event_from_history, the status, which outdates a pending
\* initial event.
Look(batch) ==
  LET news == {k \in batch : Sub.type = "status" /\ events[k].ev.kind = "status"}
  IN  /\ last' = IF batch = {} THEN last ELSE [last EXCEPT ![cur] = Max(Seqs(batch))]
      /\ sampled' = IF news = {} THEN sampled ELSE [sampled EXCEPT ![cur] = events[Max(news)].ev.status]
      /\ initial' = IF news = {} THEN initial ELSE [initial EXCEPT ![cur] = {}]

\* poll_batch takes everything new, or ends the stream with events_lost.
PollBatch ==
  /\ At("poll") /\ waiting = "no" /\ Sub.type \in {"event", "status"}
  /\ \/ /\ LostAfter(last[cur]) /\ End("lost")
        /\ UNCHANGED <<last, sampled, initial, out>>
     \/ /\ ~LostAfter(last[cur])
        /\ LET batch == EventsAfter(last[cur])
               found == {k \in batch : Matches(cur, events[k].ev)}
           IN  /\ Look(batch) /\ out' = Seqs(found)
               /\ pc' = IF found = {} /\ Sub.type = "status" THEN "quiet" ELSE "write"
        /\ UNCHANGED outcome
  /\ UNCHANGED <<hub, app, calls, subs, waiting, cur, start, note, delivered, told, asOf>>

\* Mutant: only the newest event is compared with what is waited for.
PollOneNewest ==
  /\ At("poll") /\ waiting = "yes" /\ Sub.type = "status"
  /\ LET new == EventsAfter(last[cur])
         found == {k \in new : k = Max(new) /\ Matches(cur, events[k].ev)}
     IN  /\ Look(new) /\ out' = Seqs(found)
         /\ pc' = IF found = {} THEN "quiet" ELSE "write"
  /\ UNCHANGED <<hub, app, calls, outcome, subs, waiting, cur, start, note, delivered, told, asOf>>

\* poll_result, for events.wait: up to the first match, and unchecked.
PollOne ==
  /\ At("poll") /\ waiting = "yes" /\ Sub.type = "status"
  /\ LET new == EventsAfter(last[cur])
         found == {k \in new : Matches(cur, events[k].ev)}
     IN  \/ found = {} /\ Look(new) /\ out' = {} /\ pc' = "quiet"
         \/ \E first \in found :
              /\ \A k \in found : first <= k
              /\ Look({k \in new : k <= first}) /\ out' = {events[first].seq} /\ pc' = "write"
  /\ UNCHANGED <<hub, app, calls, outcome, subs, waiting, cur, start, note, delivered, told, asOf>>

\* Output and scroll subscriptions, and wait_for_output, only sample.
PollSample ==
  /\ At("poll") /\ Sub.type \in {"output", "scroll"} /\ pc' = "sample"
  /\ Ask(IF Sub.type = "output" THEN "read" ELSE "pane")
  /\ UNCHANGED <<hub, app, outcome, subVars>>

\* The edge that ActiveOutputMatchedSubscription::poll and the scroll
\* subscription report.
Sampled ==
  /\ At("sample") /\ Answered /\ Taken
  /\ LET r == TheReply
         s == Sample(Sub.type, r.pane)
         edge == r.err = "none" /\ s # sampled[cur] /\ s \notin {"no", "none"}
     IN  /\ IF r.err # "none" /\ waiting = "yes" THEN End(r.err)
            ELSE pc' = "write" /\ UNCHANGED outcome
         /\ note' = IF edge THEN {[val |-> s, seq |-> r.seq]} ELSE {}
         /\ sampled' = IF r.err # "none" THEN sampled ELSE [sampled EXCEPT ![cur] = s]
         /\ told' = IF r.err = "none" /\ ~edge THEN [told EXCEPT ![cur] = s] ELSE told
  /\ UNCHANGED <<hub, app, subs, waiting, cur, start, last, initial, out, delivered, asOf>>

\* Mutant: the history alone tells of changes, and no snapshot is asked for.
QuietNeverAsks ==
  /\ At("quiet") /\ pc' = "write"
  /\ \/ nextSequence # last[cur] /\ UNCHANGED <<initial, note>>
     \/ /\ nextSequence = last[cur]
        /\ note' = initial[cur] /\ initial' = [initial EXCEPT ![cur] = {}]
  /\ UNCHANGED <<hub, app, calls, outcome, subs, waiting, cur, start, last, sampled, out, delivered, told, asOf>>

\* poll_snapshot up to its request: only if nothing was pushed since the batch.
Quiet ==
  /\ At("quiet")
  /\ \/ /\ nextSequence # last[cur] /\ pc' = "write"
        /\ UNCHANGED <<initial, note, calls>>
     \/ /\ nextSequence = last[cur] /\ initial[cur] # {} /\ pc' = "write"
        /\ note' = initial[cur] /\ initial' = [initial EXCEPT ![cur] = {}]
        /\ UNCHANGED calls
     \/ /\ nextSequence = last[cur] /\ initial[cur] = {} /\ pc' = "snapshot"
        /\ Ask("pane") /\ UNCHANGED <<initial, note>>
  /\ UNCHANGED <<hub, app, outcome, subs, waiting, cur, start, last, sampled, out, delivered, told, asOf>>

\* Mutant: a snapshot counts although events were pushed while it was made.
SnapshotUnguarded ==
  /\ At("snapshot") /\ Answered /\ Taken /\ pc' = "write"
  /\ LET r == TheReply
         s == Status(r.pane)
     IN  /\ sampled' = IF r.err # "none" THEN sampled ELSE [sampled EXCEPT ![cur] = s]
         /\ note' = IF r.err = "none" /\ s # sampled[cur] /\ Wanted(cur, s)
                     THEN {[val |-> s, seq |-> r.seq]} ELSE {}
  /\ UNCHANGED <<hub, app, outcome, subs, waiting, cur, start, last, initial, out, delivered, told, asOf>>

\* The rest of poll_snapshot and event_from_snapshot: the snapshot counts only
\* if no event was pushed while it was made.
Snapshot ==
  /\ At("snapshot") /\ Answered /\ Taken
  /\ LET r == TheReply
         s == Status(r.pane)
     IN  \/ /\ nextSequence # last[cur] /\ pc' = "write"
            /\ UNCHANGED <<sampled, note, outcome>>
         \/ /\ nextSequence = last[cur] /\ r.err # "none"
            /\ IF waiting = "yes" /\ r.err = "not_found" THEN End("not_found")
               ELSE pc' = "write" /\ UNCHANGED outcome
            /\ UNCHANGED <<sampled, note>>
         \/ /\ nextSequence = last[cur] /\ r.err = "none" /\ pc' = "write"
            /\ sampled' = [sampled EXCEPT ![cur] = s]
            /\ note' = IF s # sampled[cur] /\ Wanted(cur, s) THEN {[val |-> s, seq |-> r.seq]} ELSE {}
            /\ UNCHANGED outcome
  /\ UNCHANGED <<hub, app, subs, waiting, cur, start, last, initial, out, delivered, told, asOf>>

Tell(s, seq) ==
  /\ told' = IF Sub.type = "event" THEN told ELSE [told EXCEPT ![cur] = s]
  /\ asOf' = [asOf EXCEPT ![cur] = seq]

\* A wait is over with the first event it writes.
Written == IF waiting = "yes" THEN End("matched") ELSE UNCHANGED <<pc, outcome>>

\* The events of the batch are written in turn.
Write ==
  /\ At("write")
  /\ \E q \in out :
       /\ \A later \in out : q <= later
       /\ out' = out \ {q} /\ delivered' = [delivered EXCEPT ![cur] = @ \cup {q}]
       /\ Tell(log[q].status, q)
  /\ Written
  /\ UNCHANGED <<hub, app, calls, subs, waiting, start, position, note>>

WriteNote ==
  /\ At("write") /\ out = {} /\ note # {} /\ note' = {}
  /\ \E n \in note : Tell(n.val, n.seq)
  /\ Written
  /\ UNCHANGED <<hub, app, calls, subs, waiting, start, position, out, delivered>>

\* The next subscription, or after a sleep the next round.
NextSub ==
  /\ At("write") /\ out = {} /\ note = {} /\ pc' = "poll"
  /\ cur' = IF cur + 1 \in Idx THEN cur + 1 ELSE 1
  /\ UNCHANGED <<hub, app, calls, outcome, subs, waiting, start, last, sampled, initial, stream>>

\* The deadline of a wait has passed.
Deadline ==
  /\ At("write") /\ waiting = "yes" /\ out = {} /\ note = {} /\ End("timeout")
  /\ UNCHANGED <<hub, app, calls, subVars>>

\* What the connection's thread does by itself.
SubRun ==
  \/ Accept \/ NewEvent \/ NewSampled \/ Probed \/ Started
  \/ PollBatch \/ PollOne \/ PollSample \/ Sampled \/ Quiet \/ Snapshot
  \/ Write \/ WriteNote \/ NextSub

SubStep == SubRun \/ Stop \/ Deadline

----------------------------------------------------------------------------
SubTypeOK ==
  /\ subs \in Seq(SubTypes) /\ waiting \in {"yes", "no"}
  /\ cur \in Nat \ {0} /\ start \in Nat
  /\ last \in [Idx -> Nat] /\ sampled \in [Idx -> Samples]
  /\ initial \in [Idx -> SUBSET Notes]
  /\ out \in SUBSET Nat /\ note \in SUBSET Notes
  /\ delivered \in [Idx -> SUBSET Nat] /\ told \in [Idx -> Samples] /\ asOf \in [Idx -> Nat]

\* What subscription i has read and not yet written.
Unwritten(i) == IF i = cur THEN out ELSE {}

Streaming == waiting = "no" /\ pc \notin {"accept", "new", "probe"}

\* A subscription to a kind of event has delivered, or holds for writing,
\* exactly the matching events from the start of the request to its position,
\* the ones pushed during the set-up included: the client of a stream that
\* has not ended with events_lost has missed nothing.
NoSilentGap ==
  Streaming => \A i \in Idx : subs[i].type = "event" =>
    delivered[i] \cup Unwritten(i) = {q \in start + 1 .. last[i] : Matches(i, log[q])}

\* events_lost is reported only if an event beyond the position is gone.
LostIsTrue ==
  outcome = "lost" =>
    \E q \in last[cur] + 1 .. nextSequence : \A k \in DOMAIN events : events[k].seq # q

Forward ==
  \A i \in Idx : asOf'[i] >= asOf[i] /\ \A q \in delivered'[i] \ delivered[i] : q > asOf[i]

\* What a subscription writes never goes back in time: after an event, or a
\* snapshot made behind it, no event comes that was pushed before.
NeverBackwards == [][Forward]_subVars

\* Subscription i reports every value of what it samples.
Sampling(i) == waiting = "no" /\ i \in Idx /\ subs[i].type # "event" /\ subs[i].want = "any"

\* Such a subscription never takes the client to know what it was not told:
\* last_status, currently_matching and last_scroll are the value last written,
\* or the last of those about to be written.  A difference would be for good:
\* only a value that differs from them is ever reported.
SampledIsTold ==
  \A i \in Idx : Sampling(i) =>
    IF i = cur /\ note # {} THEN \A n \in note : n.val = sampled[i]
    ELSE IF i = cur /\ out # {} THEN log[Max(out)].status = sampled[i]
    ELSE told[i] = sampled[i]

\* A client that subscribes to all statuses of a pane, to an output match or to
\* the scroll position and stays connected knows the present value in the end,
\* if it knew the one at the probe, however history, probes and snapshots
\* interleave, and also if the value changed without an event
\* (mark_active_tab_seen).
LastIsTold ==
  \A i \in 1 .. 2 :
    <>[](Sampling(i) /\ outcome = "open" /\ pane.open = "yes")
      => <>[](i \in Idx /\ told[i] = Sample(subs[i].type, pane))

Only(type) == Len(subs) = 1 /\ subs[1].type = type

\* A subscription to one status is told of it if the pane stays in it.
WantedIsTold ==
  <>[](waiting = "no" /\ outcome = "open" /\ pane.open = "yes" /\ Only("status") /\ Status(pane) = subs[1].want)
    => <>[](1 \in Idx /\ told[1] = Status(pane))

\* A wait does not go on for ever while the pane shows what is waited for.
WaitIsServed ==
  ~<>[](waiting = "yes" /\ outcome = "open" /\ pane.open = "yes"
        /\ \/ Only("status") /\ Status(pane) = subs[1].want
           \/ Only("output") /\ pane.shows = "yes")
=============================================================================
