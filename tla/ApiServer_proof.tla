-------------------------- MODULE ApiServer_proof --------------------------
(* Theorems about the subscriptions that read the event history, for any    *)
(* length of the history and any list of subscriptions: a stream has no     *)
(* silent gap, events_lost is reported only when an event is lost, and what *)
(* is written to a client never goes back in time.                          *)
EXTENDS ApiInvariant_proof

----------------------------------------------------------------------------
(* The loop: samples, snapshots and writes. *)

\* Steps of the loop that read nothing from the history.
LEMMA GapKept ==
  ASSUME Gap, pc \in Polling \cup {"write"}, pc' \in Polling \cup {"write", "ended"},
         UNCHANGED <<log, subs, start, last, delivered, out>>, cur' = cur \/ out = {}
  PROVE  Gap'
  <1>1. \A i \in Idx : Unwritten(i)' = Unwritten(i)
    BY DEF Unwritten
  <1>2. \A i \in Idx : {q \in start + 1 .. last[i] : Matches(i, log[q])}'
                        = {q \in start + 1 .. last[i] : Matches(i, log[q])}
    BY DEF Matches, Wanted
  <1>3. pc' \notin {"accept", "new", "probe"} /\ Idx' = Idx
    BY DEF Polling, Idx
  <1>. QED
    BY <1>1, <1>2, <1>3 DEF Gap

\* Asking for samples and snapshots, and what comes of them.
LEMMA SamplingKeeps ==
  ASSUME IInv, UNCHANGED waitVars, PollSample \/ Sampled \/ Quiet \/ Snapshot
  PROVE  IInv'
  <1>. USE DEF At, hub, app, calls, thread, subVars, position, stream, SettingUp, Polling, NotAsking, OfStreams
  <1>1. /\ History /\ Shapes /\ Place /\ Pending /\ Gap /\ Times /\ nextSequence \in Nat
        /\ submitted' = submitted
    BY DEF IInv, History, AppTypeOK, waitVars
  <1>2. /\ UNCHANGED <<hub, app, subs, cur, start, last, out, delivered, asOf>>
        /\ pc \in Polling /\ outcome = "open" /\ cur \in Idx /\ out = {} /\ note = {}
    BY <1>1, Zenon DEF PollSample, Sampled, Quiet, Snapshot, Place
  <1>3. History'
    BY <1>1, <1>2 DEF History, AppTypeOK
  <1>4. CASE PollSample
    <2>0. /\ UNCHANGED <<outcome, initial, note>> /\ pc' = "sample" /\ Sub.type \in {"output", "scroll"}
          /\ reply' = {} /\ call' # "prompt"
      BY <1>4 DEF PollSample, Ask
    <2>1. Shapes' /\ Place' /\ Pending' /\ Times'
      BY <1>1, <1>2, <2>0, Zenon DEF Shapes, Place, Pending, Times, Idx, Sub
    <2>2. Gap'
      BY <1>1, <1>2, <1>4, GapKept DEF PollSample
    <2>. QED
      BY <1>2, <1>3, <1>4, <2>1, <2>2 DEF IInv, LostIsTrue, PollSample
  <1>5. CASE Sampled
    <2>1. /\ TheReply \in reply /\ TheReply.seq \in Nat /\ TheReply.pane \in Panes /\ TheReply.err # "lost"
          /\ asOf[cur] <= TheReply.seq /\ TheReply.seq <= nextSequence
      BY <1>1, <1>2, <1>5, TheReplyIs, Zenon DEF Sampled, Shapes, Replies, Times, Errors
    <2>2. Sub.type \in {"output", "scroll"} /\ initial[cur] = {}
      BY <1>1, <1>2, <1>5, Zenon DEF Sampled, Place, Pending, Sub
    <2>3. \A v : v = Sample(Sub.type, TheReply.pane) => v \in Samples
      BY <2>1, <2>2 DEF Sample, Samples, Panes
    <2>4. /\ pc' \in {"write", "ended"} /\ outcome' # "lost" /\ call' = "none" /\ reply' = {} /\ UNCHANGED initial
          /\ note' = {} \/ note' = {[val |-> Sample(Sub.type, TheReply.pane), seq |-> TheReply.seq]}
      BY <1>2, <1>5, <2>1 DEF Sampled, Taken, End
    <2>5. note' \in SUBSET Notes
      BY <2>1, <2>3, <2>4, SMTT(30) DEF Notes
    <2>6. Shapes' /\ Place' /\ Pending'
      BY <1>1, <1>2, <2>2, <2>4, <2>5, Zenon DEF Shapes, Place, Pending, Idx, Sub
    <2>7. Times'
      <3>1. \A n \in note' : asOf[cur] <= n.seq /\ n.seq <= nextSequence
        BY <2>1, <2>4
      <3>. QED
        BY <1>1, <1>2, <2>2, <2>4, <3>1, Zenon DEF Times, Idx, Sub
    <2>8. Gap'
      BY <1>1, <1>2, <2>4, GapKept
    <2>. QED
      BY <1>3, <2>4, <2>6, <2>7, <2>8 DEF IInv, LostIsTrue
  <1>6. CASE Quiet
    <2>1. Sub.type = "status"
      BY <1>1, <1>6 DEF Quiet, Place
    <2>2. /\ \A n \in note' : n \in initial[cur] /\ nextSequence = last[cur] /\ initial'[cur] = {}
          /\ initial' = initial \/ initial' = [initial EXCEPT ![cur] = {}]
          /\ pc' = "write" \/ (pc' = "snapshot" /\ initial'[cur] = {} /\ note' = {})
          /\ pc' = "write" => UNCHANGED calls
          /\ pc' = "snapshot" => Ask("pane")
      BY <1>1, <1>2, <1>6 DEF Quiet, Shapes
    <2>3. UNCHANGED outcome /\ call = "none" /\ reply = {}
      BY <1>1, <1>6 DEF Quiet, Place
    <2>4. Shapes'
      BY <1>1, <1>2, <2>2, <2>3, Zenon DEF Shapes, Idx, Ask
    <2>5. Place'
      BY <1>1, <1>2, <2>1, <2>2, <2>3 DEF Shapes, Place, Idx, Sub, Ask
    <2>6. Pending'
      BY <1>1, <1>2, <2>1, <2>2, Zenon DEF Shapes, Pending, Idx, Sub
    <2>7. Times'
      BY <1>1, <1>2, <2>2, <2>3, Zenon DEF Shapes, Times, Idx, Sub, Ask, Notes
    <2>8. Gap'
      BY <1>1, <1>2, <2>2, GapKept, Zenon
    <2>. QED
      BY <1>2, <1>3, <2>3, <2>4, <2>5, <2>6, <2>7, <2>8, Zenon DEF IInv, LostIsTrue
  <1>7. CASE Snapshot
    <2>1. /\ TheReply \in reply /\ TheReply.seq \in Nat /\ TheReply.pane \in Panes
          /\ asOf[cur] <= TheReply.seq /\ TheReply.seq <= nextSequence
      BY <1>1, <1>2, <1>7, TheReplyIs, Zenon DEF Snapshot, Shapes, Replies, Times
    <2>2. Sub.type = "status" /\ initial[cur] = {}
      BY <1>1, <1>2, <1>7, Zenon DEF Snapshot, Place, Pending
    <2>3. Status(TheReply.pane) \in Samples
      BY <2>1, StatusType DEF Samples
    <2>4. /\ pc' \in {"write", "ended"} /\ outcome' # "lost" /\ call' = "none" /\ reply' = {} /\ UNCHANGED initial
          /\ \/ note' = {}
             \/ nextSequence = last[cur] /\ note' = {[val |-> Status(TheReply.pane), seq |-> TheReply.seq]}
      BY <1>2, <1>7 DEF Snapshot, Taken, End
    <2>5. note' \in SUBSET Notes
      BY <2>1, <2>3, <2>4, SMTT(30) DEF Notes
    <2>6. Shapes'
      BY <1>1, <1>2, <2>4, <2>5 DEF Shapes, Idx
    <2>7. Place' /\ Pending'
      BY <1>1, <1>2, <2>2, <2>4 DEF Place, Pending, Idx, Sub
    <2>8. Times'
      <3>1. ASSUME NEW n \in note' PROVE asOf[cur] <= n.seq /\ n.seq <= nextSequence /\ n.seq <= last[cur]
        <4>1. nextSequence = last[cur] /\ n.seq = TheReply.seq
          BY <2>4, <3>1
        <4>. QED
          BY <2>1, <4>1
      <3>. QED
        BY <1>1, <1>2, <2>4, <3>1, Zenon DEF Times, Idx, Sub
    <2>9. Gap'
      BY <1>1, <1>2, <2>4, GapKept
    <2>. QED
      BY <1>3, <2>4, <2>6, <2>7, <2>8, <2>9, Zenon DEF IInv, LostIsTrue
  <1>. QED
    BY <1>4, <1>5, <1>6, <1>7

\* Writing what was read, and going on.
LEMMA WritingKeeps ==
  ASSUME IInv, UNCHANGED waitVars, Write \/ WriteNote \/ NextSub \/ Deadline \/ (Stop /\ pc # "new")
  PROVE  IInv'
  <1>. USE DEF At, hub, app, calls, thread, subVars, position, stream, SettingUp, Polling, NotAsking, OfStreams
  <1>1. /\ History /\ Shapes /\ Place /\ Pending /\ Gap /\ Times /\ nextSequence \in Nat
        /\ submitted' = submitted
    BY DEF IInv, History, AppTypeOK, waitVars
  <1>2. /\ UNCHANGED <<hub, app, calls, subs, start, last, initial>>
        /\ pc \in {"poll", "write"} /\ outcome = "open" /\ cur \in Idx /\ call = "none" /\ reply = {}
        /\ pc' \in {"poll", "write", "ended"} /\ outcome' # "lost"
    BY <1>1, Zenon DEF Write, WriteNote, NextSub, Deadline, Stop, Written, End, Place
  <1>3. History' /\ LostIsTrue'
    BY <1>1, <1>2, Zenon DEF History, AppTypeOK, LostIsTrue
  <1>4. CASE Write
    <2>1. PICK q \in out : /\ \A later \in out : q <= later
                          /\ out' = out \ {q} /\ delivered' = [delivered EXCEPT ![cur] = @ \cup {q}]
                          /\ asOf' = [asOf EXCEPT ![cur] = q]
      BY <1>4, Zenon DEF Write, Tell
    <2>2. UNCHANGED <<cur, note>> /\ note = {} /\ pc = "write" /\ pc' \in {"write", "ended"}
      BY <1>1, <1>4, <2>1 DEF Write, Written, End, Place
    <2>3. q \in Nat /\ asOf[cur] < q /\ q <= last[cur] /\ last[cur] <= nextSequence /\ initial[cur] = {}
          /\ last[cur] \in Nat
      BY <1>1, <1>2, <2>1, Zenon DEF Shapes, Times, Pending
    <2>4. Shapes'
      BY <1>1, <1>2, <2>1, <2>2, <2>3 DEF Shapes, Idx
    <2>5. Place' /\ Pending'
      BY <1>1, <1>2, <2>1, <2>2 DEF Place, Pending, Idx, Sub
    <2>6. Times'
      <3>1. asOf'[cur] = q /\ \A i \in Idx : i # cur => asOf'[i] = asOf[i]
        BY <1>1, <1>2, <2>1 DEF Shapes
      <3>2. \A later \in out' : later \in Nat /\ q < later /\ later <= last[cur]
        BY <1>1, <2>1, <2>3 DEF Shapes, Times
      <3>3. \A i \in Idx : /\ asOf'[i] <= nextSequence
                           /\ subs[i].type \in {"event", "status"} => asOf'[i] <= last[i]
                           /\ \A n \in initial[i] : asOf'[i] <= n.seq /\ n.seq <= nextSequence
        BY <1>1, <2>3, <3>1, SMTT(30) DEF Times
      <3>4. /\ Idx' = Idx /\ nextSequence' = nextSequence /\ last' = last /\ cur' = cur /\ note' = {} /\ reply' = {}
            /\ start' <= nextSequence /\ initial' = initial /\ subs' = subs
            /\ \A i \in Idx : last[i] <= nextSequence
        BY <1>1, <1>2, <2>2 DEF Times, Idx
      <3>. QED
        BY <3>1, <3>2, <3>3, <3>4, Zenon DEF Times
    <2>7. Gap'
      <3>1. \A i \in Idx : (delivered[i] \cup Unwritten(i))' = delivered[i] \cup Unwritten(i)
        BY <1>1, <1>2, <2>1, <2>2 DEF Shapes, Unwritten
      <3>2. \A i \in Idx : {p \in start + 1 .. last[i] : Matches(i, log[p])}'
                            = {p \in start + 1 .. last[i] : Matches(i, log[p])}
        BY <1>2 DEF Matches, Wanted
      <3>3. Idx' = Idx
        BY <1>2 DEF Idx
      <3>. QED
        BY <1>1, <1>2, <2>2, <3>1, <3>2, <3>3 DEF Gap
    <2>. QED
      BY <1>3, <2>4, <2>5, <2>6, <2>7 DEF IInv
  <1>5. CASE WriteNote
    <2>1. PICK n \in note : asOf' = [asOf EXCEPT ![cur] = n.seq]
      BY <1>5, Zenon DEF WriteNote, Tell
    <2>2. UNCHANGED <<cur, out, delivered>> /\ out = {} /\ note' = {} /\ pc = "write" /\ pc' \in {"write", "ended"}
      BY <1>5 DEF WriteNote, Written, End
    <2>3. /\ n.seq \in Nat /\ asOf[cur] <= n.seq /\ n.seq <= nextSequence /\ initial[cur] = {}
          /\ Sub.type = "status" => n.seq <= last[cur]
      BY <1>1, <1>2, <2>1, Zenon DEF Shapes, Times, Pending, Notes
    <2>4. Sub.type # "event"
      <3>1. note # {} /\ pc = "write"
        BY <2>1, <2>2
      <3>. QED
        BY <1>1, <3>1 DEF Place
    <2>5. Shapes'
      BY <1>1, <1>2, <2>1, <2>2, <2>3 DEF Shapes, Idx
    <2>6. Place' /\ Pending'
      BY <1>1, <1>2, <2>2 DEF Place, Pending, Idx, Sub
    <2>7. Times'
      <3>1. asOf'[cur] = n.seq /\ \A i \in Idx : i # cur => asOf'[i] = asOf[i]
        BY <1>1, <1>2, <2>1 DEF Shapes
      <3>2. \A i \in Idx : /\ asOf'[i] <= nextSequence
                           /\ subs[i].type \in {"event", "status"} => asOf'[i] <= last[i]
                           /\ \A m \in initial[i] : asOf'[i] <= m.seq /\ m.seq <= nextSequence
        BY <1>1, <2>3, <2>4, <3>1 DEF Times, Sub
      <3>3. /\ Idx' = Idx /\ nextSequence' = nextSequence /\ last' = last /\ note' = {} /\ out' = {} /\ reply' = {}
            /\ start' <= nextSequence /\ initial' = initial /\ subs' = subs
            /\ \A i \in Idx : last[i] <= nextSequence
        BY <1>1, <1>2, <2>2 DEF Times, Idx
      <3>. QED
        BY <3>2, <3>3 DEF Times
    <2>8. Gap'
      BY <1>1, <1>2, <2>2, GapKept
    <2>. QED
      BY <1>3, <2>5, <2>6, <2>7, <2>8 DEF IInv
  <1>6. CASE NextSub
    <2>0. /\ cur' = (IF cur + 1 \in Idx THEN cur + 1 ELSE 1) /\ pc' = "poll" /\ out = {} /\ note = {}
          /\ UNCHANGED <<out, note, delivered, asOf>> /\ cur \in Idx
      BY <1>1, <1>2, <1>6 DEF NextSub
    <2>1. /\ cur' \in Idx /\ cur' \in Nat \ {0} /\ pc' = "poll" /\ out = {} /\ note = {}
          /\ UNCHANGED <<out, note, delivered, asOf>>
      <3>1. Idx = 1 .. Len(subs) /\ Len(subs) \in Nat
        BY <1>1, SMTT(30) DEF Shapes, Idx
      <3>2. cur' \in Idx /\ cur' \in Nat \ {0}
        BY <2>0, <3>1, SMTT(30)
      <3>. QED
        BY <2>0, <3>2
    <2>2. Shapes' /\ Place' /\ Pending'
      BY <1>1, <1>2, <2>1, Zenon DEF Shapes, Place, Pending, Idx, Sub
    <2>3. Times'
      BY <1>1, <1>2, <2>1, Zenon DEF Times, Idx
    <2>4. Gap'
      BY <1>1, <1>2, <2>1, GapKept
    <2>. QED
      BY <1>3, <2>2, <2>3, <2>4 DEF IInv
  <1>7. CASE Deadline \/ (Stop /\ pc # "new")
    <2>1. pc' = "ended" /\ UNCHANGED subVars
      BY <1>7 DEF Deadline, Stop, End
    <2>2. Shapes' /\ Place' /\ Pending'
      BY <1>1, <1>2, <2>1, Zenon DEF Shapes, Place, Pending, Idx, Sub
    <2>3. Times'
      BY <1>1, <1>2, <2>1, Zenon DEF Times, Idx, Sub
    <2>4. Gap'
      BY <1>1, <1>2, <2>1, GapKept
    <2>. QED
      BY <1>3, <2>2, <2>3, <2>4 DEF IInv
  <1>. QED
    BY <1>4, <1>5, <1>6, <1>7

----------------------------------------------------------------------------
(* The loop: reading the history. *)

\* Having looked at all that is new, a subscription stands at the end.
LEMMA LookAll ==
  ASSUME History, Shapes, cur \in Idx, last[cur] <= nextSequence, Look(EventsAfter(last[cur]))
  PROVE  last' = [last EXCEPT ![cur] = nextSequence]
  <1>1. last \in [Idx -> Nat] /\ last[cur] \in Nat /\ nextSequence \in Nat
    BY Zenon DEF Shapes, History, AppTypeOK
  <1>. DEFINE batch == EventsAfter(last[cur])
  <1>2. /\ \A k \in batch : events[k].seq \in last[cur] + 1 .. nextSequence
        /\ last[cur] < nextSequence => Len(events) \in batch /\ events[Len(events)].seq = nextSequence
    BY <1>1, Batch, Zenon
  <1>3. last' = IF batch = {} THEN last ELSE [last EXCEPT ![cur] = Max(Seqs(batch))]
    BY Zenon DEF Look
  <1>. HIDE DEF batch
  <1>4. CASE batch = {}
    <2>1. last[cur] = nextSequence
      BY <1>1, <1>2, <1>4, SMTT(30)
    <2>. QED
      BY <1>1, <1>3, <1>4, <2>1
  <1>5. CASE batch # {}
    <2>1. last[cur] < nextSequence
      BY <1>1, <1>2, <1>5
    <2>2. Seqs(batch) \in SUBSET Int /\ nextSequence \in Seqs(batch) /\ \A y \in Seqs(batch) : y <= nextSequence
      BY <1>1, <1>2, <2>1 DEF Seqs
    <2>3. Max(Seqs(batch)) = nextSequence
      BY <2>2, MaxIs
    <2>. QED
      BY <1>3, <1>5, <2>3
  <1>. QED
    BY <1>4, <1>5

\* Having stopped at an event, it stands there.
LEMMA LookUpTo ==
  ASSUME History, Shapes, cur \in Idx, NEW first \in EventsAfter(last[cur]),
         Look({k \in EventsAfter(last[cur]) : k <= first})
  PROVE  last' = [last EXCEPT ![cur] = events[first].seq]
  <1>1. last[cur] \in Nat /\ nextSequence \in Nat /\ Len(events) \in Nat
    BY DEF Shapes, History, AppTypeOK
  <1>. DEFINE batch == {k \in EventsAfter(last[cur]) : k <= first}
  <1>2. \A k \in EventsAfter(last[cur]) : k \in 1 .. Len(events) /\ events[k].seq = nextSequence - Len(events) + k
    BY <1>1, Batch DEF History
  <1>3. first \in batch
    BY <1>1, <1>2, SMTT(30)
  <1>4. last' = [last EXCEPT ![cur] = Max(Seqs(batch))]
    BY <1>3 DEF Look
  <1>5. \A k \in batch : events[k].seq \in Int /\ events[k].seq <= events[first].seq
    BY <1>1, <1>2, SMTT(30)
  <1>. HIDE DEF batch
  <1>6. Max(Seqs(batch)) = events[first].seq
    <2>1. Seqs(batch) \in SUBSET Int /\ events[first].seq \in Seqs(batch)
          /\ \A y \in Seqs(batch) : y <= events[first].seq
      BY <1>3, <1>5 DEF Seqs
    <2>. QED
      BY <2>1, MaxIs
  <1>. QED
    BY <1>4, <1>6

\* Reading the history.
LEMMA PollKeeps ==
  ASSUME IInv, UNCHANGED waitVars, PollBatch \/ PollOne
  PROVE  IInv'
  <1>. USE DEF At, hub, app, calls, thread, SettingUp, Polling, NotAsking, OfStreams
  <1>1. /\ History /\ Shapes /\ Place /\ Pending /\ Gap /\ Times /\ nextSequence \in Nat
        /\ submitted' = submitted
    BY DEF IInv, History, AppTypeOK, waitVars
  <1>2. /\ UNCHANGED <<hub, app, calls, subs, waiting, cur, start, note, delivered, asOf>>
        /\ pc = "poll" /\ outcome = "open" /\ Sub.type \in {"event", "status"}
        /\ cur \in Idx /\ out = {} /\ note = {} /\ call = "none" /\ reply = {}
    BY <1>1, Zenon DEF PollBatch, PollOne, Place
  <1>3. /\ last[cur] \in Nat /\ last[cur] <= nextSequence /\ asOf[cur] <= last[cur] /\ asOf[cur] \in Nat
        /\ start \in Nat
    BY <1>1, <1>2, Zenon DEF Shapes, Times, Sub
  <1>4. History'
    BY <1>1, <1>2, Zenon DEF History, AppTypeOK
  <1>5. CASE PollBatch /\ LostAfter(last[cur])
    <2>1. pc' = "ended" /\ UNCHANGED <<last, initial, out>>
      BY <1>5 DEF PollBatch, End
    <2>2. Shapes' /\ Place' /\ Pending' /\ Times'
      BY <1>1, <1>2, <2>1, Zenon DEF Shapes, Place, Pending, Times, Idx, Sub
    <2>3. Gap'
      BY <1>1, <1>2, <2>1, GapKept
    <2>4. LostIsTrue'
      <3>1. \E q \in last[cur] + 1 .. nextSequence : \A k \in DOMAIN events : events[k].seq # q
        BY <1>1, <1>3, <1>5, Complete, Zenon
      <3>2. last' = last /\ cur' = cur /\ nextSequence' = nextSequence /\ events' = events
        BY <1>2, <2>1
      <3>. QED
        BY <3>1, <3>2, Zenon DEF LostIsTrue
    <2>. QED
      BY <1>4, <2>2, <2>3, <2>4 DEF IInv
  <1>6. ASSUME outcome' = outcome, pc' = "write" \/ (pc' = "quiet" /\ Sub.type = "status"),
               NEW to \in last[cur] .. nextSequence, last' = [last EXCEPT ![cur] = to],
               initial' = initial \/ initial' = [initial EXCEPT ![cur] = {}],
               \A q \in out' : q \in last[cur] + 1 .. to, pc' = "quiet" => out' = {},
               (out' # {} /\ Sub.type = "status") => initial'[cur] = {},
               Sub.type = "event" => out' = {q \in last[cur] + 1 .. to : Matches(cur, log[q])}
        PROVE  IInv'
    <2>1. /\ to \in Nat /\ last'[cur] = to /\ last[cur] <= to /\ to <= nextSequence
          /\ \A i \in Idx : i # cur => last'[i] = last[i]
      BY <1>1, <1>2, <1>3, <1>6, SMTT(30) DEF Shapes
    <2>2. Shapes'
      <3>1. \A q \in out' : q \in Nat
        <4>1. last[cur] + 1 .. to \subseteq Nat
          BY <1>3, <2>1
        <4>. QED
          BY <1>6, <4>1, Zenon
      <3>2. initial' \in [Idx -> SUBSET Notes] /\ last' \in [Idx -> Nat]
        BY <1>1, <1>6, <2>1, Zenon DEF Shapes
      <3>. QED
        BY <1>1, <1>2, <3>1, <3>2 DEF Shapes, Idx
    <2>3. Place' /\ Pending'
      BY <1>1, <1>2, <1>6, Zenon DEF Shapes, Place, Pending, Idx, Sub
    <2>4. Times'
      <3>1. \A q \in out' : asOf[cur] < q /\ q <= to
        <4>1. \A q \in last[cur] + 1 .. to : asOf[cur] < q /\ q <= to
          BY <1>3, <2>1
        <4>. QED
          BY <1>6, <4>1, Zenon
      <3>2. \A i \in Idx : /\ last'[i] <= nextSequence
                           /\ subs[i].type \in {"event", "status"} => asOf[i] <= last'[i]
                           /\ \A n \in initial'[i] : n \in initial[i]
        <4>1. ASSUME NEW i \in Idx PROVE \A n \in initial'[i] : n \in initial[i]
          BY <1>1, <1>6 DEF Shapes
        <4>2. ASSUME NEW i \in Idx, i # cur
              PROVE  /\ last'[i] <= nextSequence
                     /\ subs[i].type \in {"event", "status"} => asOf[i] <= last'[i]
          BY <1>1, <2>1, <4>2, Zenon DEF Times
        <4>3. last'[cur] <= nextSequence /\ asOf[cur] <= last'[cur]
          BY <1>3, <2>1
        <4>. QED
          BY <4>1, <4>2, <4>3, Zenon
      <3>. QED
        BY <1>1, <1>2, <2>1, <3>1, <3>2, Zenon DEF Times, Idx
    <2>5. Gap'
      <3>1. ASSUME NEW i \in Idx, subs[i].type = "event", i # cur
            PROVE  /\ last'[i] = last[i]
                   /\ (delivered[i] \cup Unwritten(i))' = delivered[i] \cup Unwritten(i)
                   /\ {q \in start + 1 .. last[i] : Matches(i, log[q])}'
                        = {q \in start + 1 .. last[i] : Matches(i, log[q])}
        BY <1>2, <2>1, <3>1 DEF Unwritten, Matches, Wanted
      <3>2. ASSUME NEW i \in Idx, subs[i].type = "event", i = cur
            PROVE  /\ start <= last'[i]
                   /\ (delivered[i] \cup Unwritten(i))' = {q \in start + 1 .. last[i] : Matches(i, log[q])}'
        <4>1. /\ start <= last[i] /\ delivered[i] = {q \in start + 1 .. last[i] : Matches(i, log[q])}
          BY <1>1, <1>2, <3>2 DEF Gap, Unwritten
        <4>2. out' = {q \in last[i] + 1 .. to : Matches(i, log[q])}
          BY <1>6, <3>2 DEF Sub
        <4>3. {q \in start + 1 .. last[i] : Matches(i, log[q])}' = {q \in start + 1 .. to : Matches(i, log[q])}
          BY <1>2, <2>1, <3>2 DEF Matches, Wanted
        <4>4. start + 1 .. to = (start + 1 .. last[i]) \cup (last[i] + 1 .. to)
          BY <1>3, <2>1, <3>2, <4>1, SMTT(30)
        <4>5. (delivered[i] \cup Unwritten(i))' = delivered[i] \cup out'
          BY <1>2, <3>2, Zenon DEF Unwritten
        <4>6. start <= last'[i]
          BY <1>3, <2>1, <3>2, <4>1
        <4>7. {q \in start + 1 .. to : Matches(i, log[q])} = delivered[i] \cup out'
          BY <4>1, <4>2, <4>4, Zenon
        <4>. QED
          BY <4>3, <4>5, <4>6, <4>7, Zenon
      <3>3. Idx' = Idx /\ subs' = subs /\ start' = start /\ cur' = cur /\ pc' \in Polling \cup {"write"}
        BY <1>2, <1>6 DEF Idx
      <3>. QED
        <4>. SUFFICES ASSUME NEW i \in Idx, subs[i].type = "event"
                      PROVE  /\ start <= last'[i]
                             /\ (delivered[i] \cup Unwritten(i))' = {q \in start + 1 .. last[i] : Matches(i, log[q])}'
          BY <3>3 DEF Gap
        <4>1. CASE i = cur
          BY <3>2, <4>1
        <4>2. CASE i # cur
          <5>1. /\ start <= last[i]
                /\ delivered[i] \cup Unwritten(i) = {q \in start + 1 .. last[i] : Matches(i, log[q])}
            BY <1>1, <1>2 DEF Gap
          <5>. QED
            BY <3>1, <4>2, <5>1, Zenon
        <4>. QED
          BY <4>1, <4>2
    <2>. QED
      BY <1>2, <1>4, <1>6, <2>2, <2>3, <2>4, <2>5 DEF IInv, LostIsTrue
  <1>. DEFINE new == EventsAfter(last[cur])
              found == {k \in new : Matches(cur, events[k].ev)}
  <1>7. /\ \A k \in new : /\ k \in 1 .. Len(events) /\ events[k].seq \in last[cur] + 1 .. nextSequence
                          /\ events[k].ev = log[events[k].seq]
        /\ ~LostAfter(last[cur]) => \A q \in last[cur] + 1 .. nextSequence : \E k \in new : events[k].seq = q
    BY <1>1, <1>3, Batch, Complete
  <1>8. ASSUME NEW batch, Look(batch)
        PROVE  /\ initial' = initial \/ initial' = [initial EXCEPT ![cur] = {}]
               /\ (Sub.type = "status" /\ \E k \in batch : Matches(cur, events[k].ev)) => initial'[cur] = {}
    BY <1>1, <1>2, <1>8, Zenon DEF Look, Matches, Sub, Shapes
  <1>. HIDE DEF new
  <1>9. CASE PollBatch /\ ~LostAfter(last[cur])
    <2>1. /\ Look(new) /\ out' = Seqs(found) /\ outcome' = outcome
          /\ pc' = IF found = {} /\ Sub.type = "status" THEN "quiet" ELSE "write"
      BY <1>9 DEF PollBatch, new
    <2>2. last' = [last EXCEPT ![cur] = nextSequence]
      BY <1>1, <1>2, <1>3, <2>1, LookAll, Zenon DEF new
    <2>3. out' = {q \in last[cur] + 1 .. nextSequence : Matches(cur, log[q])}
      <3>1. \A q \in out' : q \in last[cur] + 1 .. nextSequence /\ Matches(cur, log[q])
        BY <1>7, <2>1, Zenon DEF Seqs
      <3>2. ASSUME NEW q \in last[cur] + 1 .. nextSequence, Matches(cur, log[q])
            PROVE  q \in out'
        <4>1. PICK k \in new : events[k].seq = q
          BY <1>7, <1>9
        <4>2. events[k].ev = log[q]
          BY <1>7, <4>1
        <4>. QED
          BY <2>1, <3>2, <4>1, <4>2, Zenon DEF Seqs
      <3>. QED
        BY <3>1, <3>2
    <2>4. out' # {} => \E k \in new : Matches(cur, events[k].ev)
      BY <2>1 DEF Seqs
    <2>5. pc' = "quiet" => out' = {}
      BY <2>1 DEF Seqs
    <2>6. nextSequence \in last[cur] .. nextSequence /\ \A q \in out' : q \in last[cur] + 1 .. nextSequence
      BY <1>1, <1>3, <2>3
    <2>7. /\ initial' = initial \/ initial' = [initial EXCEPT ![cur] = {}]
          /\ (out' # {} /\ Sub.type = "status") => initial'[cur] = {}
      BY <1>8, <2>1, <2>4
    <2>. QED
      BY <1>6, <2>1, <2>2, <2>3, <2>5, <2>6, <2>7, Zenon
  <1>10. CASE PollOne
    <2>1. Sub.type = "status" /\ outcome' = outcome
      BY <1>10 DEF PollOne
    <2>2. CASE found = {} /\ Look(new) /\ out' = {} /\ pc' = "quiet"
      <3>1. last' = [last EXCEPT ![cur] = nextSequence]
        BY <1>1, <1>2, <1>3, <2>2, LookAll DEF new
      <3>2. nextSequence \in last[cur] .. nextSequence
        BY <1>1, <1>3
      <3>. QED
        BY <1>6, <1>8, <2>1, <2>2, <3>1, <3>2, Zenon
    <2>3. ASSUME NEW first \in found, Look({k \in new : k <= first}), out' = {events[first].seq}, pc' = "write"
          PROVE  IInv'
      <3>1. last' = [last EXCEPT ![cur] = events[first].seq]
        BY <1>1, <1>2, <2>3, LookUpTo DEF new
      <3>2. events[first].seq \in last[cur] + 1 .. nextSequence /\ first \in 1 .. Len(events) /\ Len(events) \in Nat
        BY <1>1, <1>7, SMTT(30) DEF History, AppTypeOK
      <3>3. events[first].seq \in last[cur] .. nextSequence /\ events[first].seq \in last[cur] + 1 .. events[first].seq
        <4>. DEFINE q == events[first].seq
        <4>1. q \in last[cur] + 1 .. nextSequence /\ last[cur] \in Nat /\ nextSequence \in Nat
          BY <1>1, <1>3, <3>2, Zenon
        <4>. HIDE DEF q
        <4>2. q \in last[cur] .. nextSequence /\ q \in last[cur] + 1 .. q
          BY <4>1
        <4>. QED
          BY <4>2, Zenon DEF q
      <3>4. first \in {k \in new : k <= first} /\ Matches(cur, events[first].ev)
        BY <3>2
      <3>5. /\ initial' = initial \/ initial' = [initial EXCEPT ![cur] = {}]
            /\ initial'[cur] = {}
        BY <1>8, <2>1, <2>3, <3>4
      <3>. QED
        BY <1>6, <2>1, <2>3, <3>1, <3>3, <3>5, Zenon
    <2>. QED
      BY <1>10, <2>2, <2>3, Zenon DEF PollOne, new
  <1>. QED
    BY <1>5, <1>9, <1>10

\* Every step keeps the invariant.
LEMMA StepKeeps ==
  ASSUME IInv, [Next]_vars
  PROVE  IInv'
  <1>1. CASE Main
    BY <1>1, MainKeeps
  <1>2. CASE AppReplies
    BY <1>2, RepliesKeep
  <1>3. CASE WaitStep /\ UNCHANGED subVars
    BY <1>3, WaitKeeps
  <1>4. CASE SubStep /\ UNCHANGED waitVars
    <2>1. CASE pc \in SettingUp
      BY <1>4, <2>1, SetUpKeeps
    <2>2. CASE pc \notin SettingUp
      <3>1. \/ PollBatch \/ PollOne \/ PollSample \/ Sampled \/ Quiet \/ Snapshot
            \/ Write \/ WriteNote \/ NextSub \/ Deadline \/ (Stop /\ pc # "new")
        BY <1>4, <2>2, Zenon DEF SubStep, SubRun, SettingUp, Accept, NewEvent, NewSampled, Probed, Started, At
      <3>. QED
        BY <1>4, <3>1, PollKeeps, SamplingKeeps, WritingKeeps
    <2>. QED
      BY <2>1, <2>2
  <1>5. CASE UNCHANGED vars
    <2>1. Shapes' /\ Place'
      BY <1>5, Zenon DEF vars, IInv, Shapes, Place, Idx, Sub, hub, thread, calls, subVars, position, stream, waitVars
    <2>. QED
      BY <1>5, <2>1, OthersKeep, Zenon DEF vars, thread, calls, IInv, Times
  <1>. QED
    BY <1>1, <1>2, <1>3, <1>4, <1>5 DEF Next, Handler

----------------------------------------------------------------------------
(* The theorems. *)

\* The invariant holds in every state.
LEMMA Invariance == Spec => []IInv
  BY Initially, StepKeeps, PTL DEF Spec

\* For every length of the history and every list of subscriptions: a stream
\* that has not ended with events_lost has delivered, or holds for writing,
\* every event of the subscribed kind up to its position (poll_batch after
\* events_after_checked).
THEOREM StreamHasNoGap == Spec => []NoSilentGap
  <1>1. IInv => NoSilentGap
    BY DEF IInv, Gap, NoSilentGap
  <1>. QED
    BY <1>1, Invariance, PTL

\* events_after_checked reports a loss only if an event is gone that the
\* subscription has not read.
THEOREM LossIsReal == Spec => []LostIsTrue
  <1>1. IInv => LostIsTrue
    BY DEF IInv
  <1>. QED
    BY <1>1, Invariance, PTL

\* What a subscription writes never goes back in time, whatever the main
\* thread pushes between the reads of the history and the snapshots.
THEOREM StreamGoesForward == Spec => NeverBackwards
  <1>1. ASSUME IInv, [Next]_vars
        PROVE  [Forward]_subVars
    <2>1. last \in [Idx -> Nat] /\ asOf \in [Idx -> Nat] /\ delivered \in [Idx -> SUBSET Nat] /\ out \in SUBSET Nat
      BY <1>1 DEF IInv, Shapes
    <2>2. CASE UNCHANGED <<asOf, delivered>>
      BY <2>1, <2>2 DEF Forward
    <2>3. CASE Write
      <3>1. PICK q \in out : /\ delivered' = [delivered EXCEPT ![cur] = @ \cup {q}]
                            /\ asOf' = [asOf EXCEPT ![cur] = q]
        BY <2>3, Zenon DEF Write, Tell
      <3>2. cur \in Idx /\ asOf[cur] < q /\ q \in Nat
        BY <1>1, <2>1, <2>3, Zenon DEF IInv, Place, Times, Write, At
      <3>. QED
        BY <2>1, <3>1, <3>2 DEF Forward
    <2>4. CASE WriteNote
      <3>1. PICK n \in note : asOf' = [asOf EXCEPT ![cur] = n.seq] /\ delivered' = delivered
        BY <2>4, Zenon DEF WriteNote, Tell
      <3>2. cur \in Idx /\ asOf[cur] <= n.seq /\ n.seq \in Nat
        BY <1>1, <2>4 DEF IInv, Place, Times, Shapes, Notes, WriteNote, At
      <3>. QED
        BY <2>1, <3>1, <3>2 DEF Forward
    <2>5. UNCHANGED <<asOf, delivered>> \/ Write \/ WriteNote
      BY <1>1, Zenon DEF Next, vars, Main, AppReplies, Handler, SubStep, SubRun, Accept, NewEvent, NewSampled, Probed,
         Started, PollBatch, PollOne, PollSample, Sampled, Quiet, Snapshot, NextSub, Deadline, Stop,
         subVars, stream
    <2>. QED
      BY <2>2, <2>3, <2>4, <2>5
  <1>. QED
    BY <1>1, Invariance, PTL DEF Spec, NeverBackwards

----------------------------------------------------------------------------
(* Type correctness: what Shapes leaves out. *)

\* Where the thread is and how the connection ended.
ThreadTypes ==
  /\ pc \in Labels /\ outcome \in Outcomes /\ timeouts \in Nat
  /\ call \in {"pane", "read", "agent", "prompt", "none"}

\* What a subscription has sampled and told.
StreamTypes == waiting \in {"yes", "no"} /\ sampled \in [Idx -> Samples] /\ told \in [Idx -> Samples]

Types == ThreadTypes /\ StreamTypes /\ WaitTypeOK

\* What an answer says can be sampled.
LEMMA ReplyValues ==
  ASSUME IInv, Answered
  PROVE  /\ TheReply.pane \in Panes /\ TheReply.err \in Errors \cup {"none"}
         /\ Status(TheReply.pane) \in Statuses /\ TheReply.pane.agent \in Agents \cup {NoAgent}
         /\ TheReply.pane.changeSeq \in Nat
         /\ \A type : Sample(type, TheReply.pane) \in Samples
  <1>1. TheReply \in Replies
    BY TheReplyIs, Zenon DEF IInv
  <1>2. TheReply.pane \in Panes /\ TheReply.err \in Errors \cup {"none"}
    BY <1>1, Zenon DEF Replies
  <1>3. Status(TheReply.pane) \in Statuses
    BY <1>2, StatusType, Zenon
  <1>4. /\ TheReply.pane.agent \in Agents \cup {NoAgent} /\ TheReply.pane.changeSeq \in Nat
        /\ TheReply.pane.shows \in {"yes", "no"} /\ TheReply.pane.scroll \in {"bottom", "back", "none"}
    BY <1>2, Zenon DEF Panes
  <1>5. ASSUME NEW type PROVE Sample(type, TheReply.pane) \in Samples
    BY <1>3, <1>4 DEF Sample, Samples
  <1>. QED
    BY <1>2, <1>3, <1>4, <1>5, Zenon

\* What looking at events of the history leaves in a subscription.
LEMMA LookTypes ==
  ASSUME IInv, StreamTypes, NEW batch, batch \subseteq DOMAIN events, Look(batch)
  PROVE  sampled' \in [Idx -> Samples]
  <1>. DEFINE news == {k \in batch : Sub.type = "status" /\ events[k].ev.kind = "status"}
  <1>1. sampled \in [Idx -> Samples]
    BY Zenon DEF StreamTypes
  <1>2. CASE news = {}
    <2>1. sampled' = sampled
      BY <1>2, Zenon DEF Look
    <2>. QED
      BY <1>1, <2>1, Zenon
  <1>3. CASE news # {}
    <2>1. sampled' = [sampled EXCEPT ![cur] = events[Max(news)].ev.status]
      BY <1>3, Zenon DEF Look
    <2>2. Len(events) \in Nat /\ DOMAIN events = 1 .. Len(events)
      BY Numbered, Zenon DEF IInv
    <2>3. news \subseteq 1 .. Len(events)
      BY <2>2, Zenon
    <2>. HIDE DEF news
    <2>4. Max(news) \in DOMAIN events
      BY <1>3, <2>2, <2>3, Greatest, Zenon
    <2>5. PICK k \in DOMAIN events : k = Max(news)
      BY <2>4, Zenon
    <2>6. events \in Seq([seq : Nat, ev : Events])
      BY Zenon DEF IInv, History, AppTypeOK
    <2>7. events[k] \in [seq : Nat, ev : Events]
      <3>1. ASSUME NEW E, NEW s \in Seq(E), NEW i \in DOMAIN s PROVE s[i] \in E
        OBVIOUS
      <3>. QED
        BY <2>5, <2>6, <3>1, Zenon
    <2>8. events[k].ev.status \in Samples
      <3>1. events[k].ev \in Events
        BY <2>7, Zenon
      <3>. QED
        BY <3>1 DEF Events, Samples
    <2>. QED
      BY <1>1, <2>1, <2>5, <2>8
  <1>. QED
    BY <1>2, <1>3

\* The steps of the subscriptions' loop, and of the set-up.
LEMMA SubTypesKept ==
  ASSUME IInv, Types, SubStep, UNCHANGED waitVars
  PROVE  Types'
  <1>1. /\ pc \in Labels /\ outcome \in Outcomes /\ timeouts \in Nat
        /\ call \in {"pane", "read", "agent", "prompt", "none"}
        /\ waiting \in {"yes", "no"} /\ sampled \in [Idx -> Samples] /\ told \in [Idx -> Samples]
    BY Zenon DEF Types, ThreadTypes, StreamTypes
  <1>2. WaitTypeOK'
    <2>1. WaitTypeOK
      BY DEF Types
    <2>. QED
      BY <2>1 DEF WaitTypeOK, waitVars, wait, past
  <1>3. UNCHANGED <<subs, waiting>> /\ UNCHANGED timeouts
    BY Zenon DEF SubStep, SubRun, Accept, NewEvent, NewSampled, Probed, Started, PollBatch, PollOne, PollSample, Sampled,
       Quiet, Snapshot, Write, WriteNote, NextSub, Stop, Deadline, subVars, calls, thread, Ask, Taken
  <1>4. call' \in {"pane", "read", "none", call}
    BY Zenon DEF SubStep, SubRun, Accept, NewEvent, NewSampled, Probed, Started, PollBatch, PollOne, PollSample, Sampled,
       Quiet, Snapshot, Write, WriteNote, NextSub, Stop, Deadline, calls, thread, Ask, Taken
  <1>5. pc' \in {"new", "probe", "poll", "sample", "quiet", "snapshot", "write", "ended", pc}
    BY Zenon DEF SubStep, SubRun, Accept, NewEvent, NewSampled, Probed, Started, PollBatch, PollOne, PollSample, Sampled,
       Quiet, Snapshot, Write, WriteNote, NextSub, Stop, Deadline, thread, End, Written
  <1>6. outcome' \in {outcome, "gone", "rejected", "lost", "matched"} \cup Errors
    <2>1. CASE Sampled
      <3>1. TheReply.err \in Errors \cup {"none"}
        BY <2>1, ReplyValues, Zenon DEF Sampled
      <3>. QED
        BY <2>1, <3>1 DEF Sampled, End
    <2>2. CASE Snapshot
      <3>1. outcome' \in {outcome, "not_found"}
        BY <2>2, Zenon DEF Snapshot, End
      <3>. QED
        BY <3>1 DEF Errors
    <2>3. CASE Deadline
      BY <2>3 DEF Deadline, End, Errors
    <2>4. CASE ~Sampled /\ ~Snapshot /\ ~Deadline
      BY <2>4, Zenon DEF SubStep, SubRun, Accept, NewEvent, NewSampled, Probed, Started, PollBatch, PollOne, PollSample,
         Quiet, Write, WriteNote, NextSub, Stop, thread, End, Written
    <2>. QED
      BY <2>1, <2>2, <2>3, <2>4
  <1>7. sampled' \in [Idx -> Samples]
    <2>1. CASE PollBatch
      <3>1. UNCHANGED sampled \/ Look(EventsAfter(last[cur]))
        BY <2>1, Zenon DEF PollBatch
      <3>2. EventsAfter(last[cur]) \subseteq DOMAIN events
        BY Zenon DEF EventsAfter
      <3>3. Look(EventsAfter(last[cur])) => sampled' \in [Idx -> Samples]
        BY <3>2, LookTypes, Zenon DEF Types
      <3>. QED
        BY <1>1, <3>1, <3>3
    <2>2. CASE PollOne
      <3>1. \E batch : batch \subseteq DOMAIN events /\ Look(batch)
        BY <2>2, Zenon DEF PollOne, EventsAfter
      <3>. QED
        BY <3>1, LookTypes, Zenon DEF Types
    <2>3. CASE Probed
      <3>. DEFINE s == IF Sub.type = "output" THEN "no" ELSE Sample(Sub.type, TheReply.pane)
      <3>1. s \in Samples
        BY <2>3, ReplyValues DEF Probed, Samples
      <3>2. sampled' \in {sampled, [sampled EXCEPT ![cur] = s]}
        BY <2>3, Zenon DEF Probed
      <3>. HIDE DEF s
      <3>. QED
        BY <1>1, <3>1, <3>2
    <2>4. CASE Sampled
      <3>1. Sample(Sub.type, TheReply.pane) \in Samples
        BY <2>4, ReplyValues, Zenon DEF Sampled
      <3>2. sampled' \in {sampled, [sampled EXCEPT ![cur] = Sample(Sub.type, TheReply.pane)]}
        BY <2>4, Zenon DEF Sampled
      <3>. QED
        BY <1>1, <3>1, <3>2
    <2>5. CASE Snapshot
      <3>1. Status(TheReply.pane) \in Samples
        BY <2>5, ReplyValues, Zenon DEF Snapshot, Samples
      <3>2. sampled' \in {sampled, [sampled EXCEPT ![cur] = Status(TheReply.pane)]}
        BY <2>5, Zenon DEF Snapshot
      <3>. QED
        BY <1>1, <3>1, <3>2
    <2>6. CASE ~PollBatch /\ ~PollOne /\ ~Probed /\ ~Sampled /\ ~Snapshot
      <3>1. UNCHANGED sampled
        BY <2>6, Zenon DEF SubStep, SubRun, Accept, NewEvent, NewSampled, Started, PollSample, Quiet, Write, WriteNote,
           NextSub, Stop, Deadline, subVars, position
      <3>. QED
        BY <1>1, <3>1
    <2>. QED
      BY <2>1, <2>2, <2>3, <2>4, <2>5, <2>6
  <1>8. told' \in [Idx -> Samples]
    <2>1. CASE Probed \/ Sampled
      <3>. DEFINE s == Sample(Sub.type, TheReply.pane)
      <3>1. s \in Samples /\ "no" \in Samples
        BY <2>1, ReplyValues DEF Probed, Sampled, Samples
      <3>2. told' \in {told, [told EXCEPT ![cur] = s], [told EXCEPT ![cur] = "no"]}
        BY <2>1, Zenon DEF Probed, Sampled
      <3>. HIDE DEF s
      <3>. QED
        BY <1>1, <3>1, <3>2
    <2>2. CASE Write
      <3>1. PICK q \in out : Tell(log[q].status, q)
        BY <2>2, Zenon DEF Write
      <3>2. log[q].status \in Samples
        <4>1. cur \in Idx /\ log \in Seq(Events) /\ Len(log) = nextSequence /\ nextSequence \in Nat
          BY <2>2 DEF IInv, History, AppTypeOK, Place, Write, At
        <4>2. q \in Nat /\ asOf[cur] \in Nat /\ last[cur] \in Nat
          BY <3>1, <4>1 DEF IInv, Shapes
        <4>3. asOf[cur] < q /\ q <= last[cur] /\ last[cur] <= nextSequence
          BY <3>1, <4>1, Zenon DEF IInv, Times
        <4>4. q \in 1 .. Len(log)
          BY <4>1, <4>2, <4>3
        <4>5. log[q] \in Events
          BY <4>1, <4>4
        <4>. QED
          BY <4>5 DEF Events, Samples
      <3>. QED
        BY <1>1, <3>1, <3>2 DEF Tell
    <2>3. CASE WriteNote
      <3>1. PICK n \in note : Tell(n.val, n.seq)
        BY <2>3, Zenon DEF WriteNote
      <3>2. n.val \in Samples
        BY <3>1 DEF IInv, Shapes, Notes
      <3>. QED
        BY <1>1, <3>1, <3>2 DEF Tell
    <2>4. CASE ~Probed /\ ~Sampled /\ ~Write /\ ~WriteNote
      <3>1. UNCHANGED told
        BY <2>4, Zenon DEF SubStep, SubRun, Accept, NewEvent, NewSampled, Started, PollBatch, PollOne, PollSample, Quiet,
           Snapshot, NextSub, Stop, Deadline, subVars, stream
      <3>. QED
        BY <1>1, <3>1
    <2>. QED
      BY <2>1, <2>2, <2>3, <2>4
  <1>9. ThreadTypes'
    BY <1>1, <1>3, <1>4, <1>5, <1>6 DEF ThreadTypes, Labels, Outcomes
  <1>10. StreamTypes'
    BY <1>1, <1>3, <1>7, <1>8 DEF StreamTypes, Idx
  <1>. QED
    BY <1>2, <1>9, <1>10 DEF Types

\* What an event tells of is a status, and who a status belongs to is an agent.
LEMMA HeldTypes ==
  ASSUME NEW p \in Panes, NEW q \in Panes, NEW evs \in Seq(Events)
  PROVE  {Holding(p, q)} \cup Announced(evs) \in SUBSET [agent : Agents \cup {NoAgent}, status : Statuses]
  <1>. DEFINE H == [agent : Agents \cup {NoAgent}, status : Statuses]
  <1>1. q.agent \in Agents \cup {NoAgent} /\ p.agent \in Agents \cup {NoAgent} /\ Status(q) \in Statuses
    BY StatusType DEF Panes
  <1>2. Holding(p, q) \in H
    BY <1>1 DEF Holding
  <1>3. ASSUME NEW k \in DOMAIN evs, Tells(evs[k])
        PROVE  [agent |-> evs[k].agent, status |-> evs[k].status] \in H
    <2>1. evs[k] \in Events
      BY <1>3
    <2>2. evs[k].agent \in Agents \cup {NoAgent} /\ evs[k].status \in Statuses
      BY <1>3, <2>1 DEF Events, Tells
    <2>. QED
      BY <2>2
  <1>4. Announced(evs) \subseteq H
    BY <1>3, Zenon DEF Announced
  <1>. QED
    BY <1>2, <1>4

\* The main thread.
LEMMA MainTypesKept ==
  ASSUME IInv, Types, Main
  PROVE  Types'
  <1>. DEFINE H == [agent : Agents \cup {NoAgent}, status : Statuses]
  <1>1. UNCHANGED <<thread, subVars, request, wait, submitted>>
    BY Zenon DEF Main
  <1>2. ThreadTypes' /\ StreamTypes'
    BY <1>1 DEF Types, ThreadTypes, StreamTypes, thread, calls, subVars, position, stream, Idx
  <1>3. AppTypeOK /\ AppTypeOK' /\ pane \in Panes
    BY AppTypes DEF IInv, History, Main, AppTypeOK
  <1>4. WaitTypeOK
    BY DEF Types
  <1>5. {Holding(pane, pane')} \cup Announced(pending') \in SUBSET H
    <2>1. pane' \in Panes /\ pending' \in Seq(Events)
      BY <1>3 DEF AppTypeOK
    <2>. QED
      BY <1>3, <2>1, HeldTypes, Zenon
  <1>6. UNCHANGED past \/ Witness
    BY Zenon DEF Main
  <1>7. held' \in SUBSET H /\ departed' \in {"yes", "no"} /\ UNCHANGED <<swapped, missed>>
    <2>1. held \in SUBSET H /\ departed \in {"yes", "no"}
      BY <1>4, Zenon DEF WaitTypeOK
    <2>2. CASE UNCHANGED past
      BY <2>1, <2>2 DEF past
    <2>3. CASE Witness
      <3>. HIDE DEF H
      <3>1. held' = held \/ held' = held \cup {Holding(pane, pane')} \cup Announced(pending')
        BY <2>3, Zenon DEF Witness
      <3>2. departed' \in {"yes", departed} /\ UNCHANGED <<swapped, missed>>
        BY <2>3, Zenon DEF Witness
      <3>. QED
        BY <1>5, <2>1, <3>1, <3>2
    <2>. QED
      BY <1>6, <2>2, <2>3
  <1>8. WaitTypeOK'
    BY <1>1, <1>4, <1>7 DEF WaitTypeOK, wait
  <1>. QED
    BY <1>2, <1>8 DEF Types

\* The main thread's answers.
LEMMA RepliesTypesKept ==
  ASSUME IInv, Types, AppReplies
  PROVE  Types'
  <1>1. UNCHANGED <<subVars, waitVars, pc, call, outcome>>
    BY Zenon DEF AppReplies, Answer, AnswerLate
  <1>2. timeouts' \in Nat
    BY DEF Types, ThreadTypes, AppReplies, Answer, AnswerLate
  <1>3. ThreadTypes' /\ StreamTypes'
    BY <1>1, <1>2 DEF Types, ThreadTypes, StreamTypes, subVars, position, stream, Idx
  <1>4. WaitTypeOK'
    BY <1>1 DEF Types, WaitTypeOK, waitVars, wait, past
  <1>. QED
    BY <1>3, <1>4 DEF Types

\* The waits for agents: the statuses they match and end with.
LEMMA MatchTypes ==
  ASSUME Types, NEW st \in Statuses, Match(st)
  PROVE  /\ phase' \in {phase, "settle"} /\ pos' \in Nat /\ expected' = expected
         /\ due' \in {"yes", "no"} /\ answer' \in SUBSET Statuses
         /\ pc' \in Labels /\ outcome' \in Outcomes
  BY DEF Types, ThreadTypes, WaitTypeOK, Match, Settle, Enter, Succeed, End, Labels, Outcomes

\* What is waited for is a status.
LEMMA UntilTypes ==
  ASSUME WaitTypeOK
  PROVE  Until \subseteq Statuses /\ Settled \subseteq Statuses
  BY DEF WaitTypeOK, Until, Settled, Active, RequestTypes, Statuses, AgentStates

\* What is found in the history is a status waited for.
LEMMA TransientTypes ==
  ASSUME History, NEW batch, batch \subseteq DOMAIN events
  PROVE  Transient(batch) \subseteq Until
  <1>. DEFINE hits == {k \in batch : phase # "settle" /\ events[k].ev.kind = "status" /\ events[k].ev.status \in Until}
  <1>1. CASE hits = {}
    BY <1>1, Zenon DEF Transient
  <1>2. CASE hits # {}
    <2>1. Len(events) \in Nat /\ hits \subseteq 1 .. Len(events)
      BY Numbered, Zenon
    <2>. HIDE DEF hits
    <2>2. Max(hits) \in hits
      BY <1>2, <2>1, Greatest, Zenon
    <2>3. events[Max(hits)].ev.status \in Until
      BY <2>2, Zenon DEF hits
    <2>4. Transient(batch) = {events[Max(hits)].ev.status}
      BY <1>2, Zenon DEF Transient, hits
    <2>. QED
      BY <2>3, <2>4, Zenon
  <1>. QED
    BY <1>1, <1>2

\* The variables that the calls of wait_for_resolved_agent move.
Going ==
  /\ phase \in {"wait", "gate", "settle"} /\ pos \in Nat /\ expected \in Agents \cup {NoAgent}
  /\ due \in {"yes", "no"} /\ answer \in SUBSET Statuses /\ pc \in Labels /\ outcome \in Outcomes

\* They stay what they are.
LEMMA GoingKept ==
  ASSUME IInv, Types, WaitStep
  PROVE  Going'
  <1>1. /\ Going /\ base \in Nat /\ nextSequence \in Nat /\ Until \subseteq Statuses /\ Settled \subseteq Statuses
        /\ matched \subseteq Statuses /\ History
    BY UntilTypes DEF Types, ThreadTypes, WaitTypeOK, Going, IInv, History, AppTypeOK
  <1>2. ASSUME NEW st \in Statuses, Match(st) PROVE Going'
    BY <1>1, <1>2, MatchTypes DEF Going
  <1>3. ASSUME NEW why \in Outcomes, End(why), UNCHANGED <<phase, pos, expected, due, answer>> PROVE Going'
    BY <1>1, <1>3 DEF Going, End, Labels
  <1>4. ASSUME NEW label \in Labels, pc' = label, UNCHANGED <<phase, expected, due, answer, outcome>>, pos' \in Nat
        PROVE  Going'
    BY <1>1, <1>4 DEF Going
  <1>5. ASSUME NEW ph \in {"wait", "gate", "settle"}, NEW agent \in Agents \cup {NoAgent}, Enter(ph, base, agent)
        PROVE  Going'
    BY <1>1, <1>5 DEF Going, Enter, Labels
  <1>6. Errors \cup {"not_running", "timeout", "stalled", "gone"} \subseteq Outcomes
    BY DEF Outcomes, Errors
  <1>7. ASSUME NEW st \in Statuses, NEW agent \in Agents \cup {NoAgent}, Settle(st, agent) PROVE Going'
    <2>1. CASE st \in Settled
      BY <1>1, <1>7, <2>1 DEF Settle, Succeed, End, Going, Labels, Outcomes
    <2>2. CASE st \notin Settled
      BY <1>5, <1>7, <2>2, Zenon DEF Settle
    <2>. QED
      BY <2>1, <2>2
  <1>8. pos \in Nat
    BY <1>1 DEF Going
  <1>9. CASE WaitStart
    BY <1>1, <1>4, <1>9, Zenon DEF WaitStart, Labels
  <1>10. CASE PromptStart
    BY <1>4, <1>8, <1>10, Zenon DEF PromptStart, wait, Labels
  <1>11. CASE Position
    BY <1>1, <1>4, <1>11, Zenon DEF Position, Labels
  <1>12. CASE Check
    BY <1>4, <1>8, <1>12, Zenon DEF Check, waitVars, wait, Labels
  <1>13. CASE First
    <2>1. /\ TheReply.err \in Errors \cup {"none"} /\ Status(TheReply.pane) \in Statuses
          /\ TheReply.pane.agent \in Agents \cup {NoAgent}
      BY <1>13, ReplyValues, Zenon DEF First
    <2>2. CASE TheReply.err # "none"
      <3>1. End(TheReply.err) /\ UNCHANGED <<phase, pos, expected, due, answer>>
        BY <1>13, <2>2, Zenon DEF First
      <3>. QED
        BY <1>3, <1>6, <2>1, <2>2, <3>1, Zenon
    <2>3. CASE TheReply.err = "none" /\ Status(TheReply.pane) \in Settled
      <3>1. Succeed(Status(TheReply.pane)) /\ expected' = TheReply.pane.agent /\ UNCHANGED <<phase, pos, due>>
        BY <1>13, <2>3, Zenon DEF First
      <3>. QED
        BY <1>1, <2>1, <3>1 DEF Going, Succeed, End, Labels, Outcomes
    <2>4. CASE TheReply.err = "none" /\ Status(TheReply.pane) \notin Settled
      <3>1. Enter("wait", base, TheReply.pane.agent)
        BY <1>13, <2>4, Zenon DEF First
      <3>. QED
        BY <1>5, <2>1, <3>1, Zenon
    <2>. QED
      BY <2>2, <2>3, <2>4
  <1>14. CASE Before
    <2>1. TheReply.err \in Errors \cup {"none"} /\ TheReply.pane.agent \in Agents \cup {NoAgent}
      BY <1>14, ReplyValues, Zenon DEF Before
    <2>2. UNCHANGED <<phase, pos, due, answer>>
      BY <1>14, Zenon DEF Before
    <2>3. CASE TheReply.err # "none"
      <3>1. End(TheReply.err) /\ UNCHANGED expected
        BY <1>14, <2>3, Zenon DEF Before
      <3>. QED
        BY <1>3, <1>6, <2>1, <2>2, <2>3, <3>1, Zenon
    <2>4. CASE TheReply.err = "none"
      <3>1. pc' = "position" /\ expected' = TheReply.pane.agent /\ UNCHANGED outcome
        BY <1>14, <2>4, Zenon DEF Before
      <3>. QED
        BY <1>1, <2>1, <2>2, <3>1 DEF Going, Labels
    <2>. QED
      BY <2>3, <2>4
  <1>15. CASE Prompted
    <2>1. /\ TheReply.err \in Errors \cup {"none"} /\ Status(TheReply.pane) \in Statuses
          /\ TheReply.pane.agent \in Agents \cup {NoAgent}
      BY <1>15, ReplyValues, Zenon DEF Prompted
    <2>2. \/ /\ \E why \in (Errors \cup {"not_running"}) : End(why)
             /\ UNCHANGED <<phase, pos, expected, due, answer>>
          \/ Settle(Status(TheReply.pane), TheReply.pane.agent)
          \/ Enter("gate", base, TheReply.pane.agent)
      BY <1>15, <2>1, Zenon DEF Prompted
    <2>. QED
      BY <1>3, <1>5, <1>6, <1>7, <2>1, <2>2, Zenon
  <1>16. CASE Loop
    <2>. DEFINE batch == EventsAfter(pos)
                ends == {k \in batch : Ends(events[k].ev)}
                end == events[Min(ends)].ev
                early == Transient({k \in batch : k < Min(ends)})
                final == IF end.status \in Until THEN {end.status} ELSE early
    <2>1. batch \subseteq DOMAIN events /\ {k \in batch : k < Min(ends)} \subseteq DOMAIN events
      BY Zenon DEF EventsAfter
    <2>2. early \subseteq Until
      BY <1>1, <2>1, TransientTypes, Zenon
    <2>3. \A st \in final : st \in Statuses
      <3>. HIDE DEF early, end
      <3>. QED
        BY <1>1, <2>2, Zenon
    <2>4. \/ \E st \in final : Match(st)
          \/ NotRunning
          \/ /\ pos' = nextSequence /\ pc' \in {"again", "check"}
             /\ UNCHANGED <<phase, expected, due, answer, outcome>>
      BY <1>16, Zenon DEF Loop
    <2>. HIDE DEF final
    <2>5. CASE NotRunning
      BY <1>3, <1>6, <2>5, Zenon DEF NotRunning
    <2>6. CASE pos' = nextSequence /\ pc' \in {"again", "check"} /\ UNCHANGED <<phase, expected, due, answer, outcome>>
      <3>1. pc' \in Labels
        BY <2>6 DEF Labels
      <3>. QED
        BY <1>1, <1>4, <2>6, <3>1, Zenon
    <2>. QED
      BY <1>2, <2>3, <2>4, <2>5, <2>6, Zenon
  <1>17. ASSUME NEW r, r.err \in Errors \cup {"none"}, ProbeFails(r) PROVE Going'
    <2>1. (IF r.err \in {"none", "not_found"} THEN "not_running" ELSE r.err) \in Outcomes
      BY <1>6, <1>17
    <2>. QED
      BY <1>3, <1>17, <2>1, Zenon DEF ProbeFails
  <1>18. CASE Again
    <2>1. TheReply.err \in Errors \cup {"none"} /\ Status(TheReply.pane) \in Statuses
      BY <1>18, ReplyValues, Zenon DEF Again
    <2>2. \/ ProbeFails(TheReply)
          \/ \E st \in Statuses : Match(st)
          \/ pc' = "check" /\ UNCHANGED <<phase, pos, expected, due, answer, outcome>>
      BY <1>1, <1>18, <2>1, Zenon DEF Again
    <2>3. "check" \in Labels
      BY DEF Labels
    <2>4. CASE pc' = "check" /\ UNCHANGED <<phase, pos, expected, due, answer, outcome>>
      BY <1>4, <1>8, <2>3, <2>4, Zenon
    <2>. QED
      BY <1>2, <1>17, <2>1, <2>2, <2>4, Zenon
  <1>19. CASE Last
    <2>1. TheReply.err \in Errors \cup {"none"} /\ Status(TheReply.pane) \in Statuses
      BY <1>19, ReplyValues, Zenon DEF Last
    <2>2. \/ ProbeFails(TheReply)
          \/ Match(Status(TheReply.pane))
          \/ (End("timeout") \/ End("stalled")) /\ UNCHANGED <<phase, pos, expected, due, answer>>
      BY <1>19, Zenon DEF Last
    <2>. QED
      BY <1>2, <1>3, <1>6, <1>17, <2>1, <2>2, Zenon
  <1>20. CASE AcceptPrompt \/ SubmitEnds
    BY <1>1, <1>20 DEF AcceptPrompt, SubmitEnds, wait, Going
  <1>21. CASE DeadlinePasses
    BY <1>1, <1>21 DEF DeadlinePasses, thread, Going
  <1>22. CASE WaitStop
    BY <1>3, <1>6, <1>22, Zenon DEF WaitStop, waitVars, wait
  <1>. QED
    BY <1>9, <1>10, <1>11, <1>12, <1>13, <1>14, <1>15, <1>16, <1>18, <1>19, <1>20, <1>21, <1>22, Zenon
       DEF WaitStep, WaitRun

\* The steps of the waits for agents.
LEMMA WaitTypesKept ==
  ASSUME IInv, IInv', Types, WaitStep, UNCHANGED subVars
  PROVE  Types'
  <1>. DEFINE H == [agent : Agents \cup {NoAgent}, status : Statuses]
  <1>1. /\ ThreadTypes /\ StreamTypes /\ WaitTypeOK /\ nextSequence \in Nat /\ History /\ AppTypeOK
        /\ Going' /\ submitted' \in SUBSET Replies /\ pane \in Panes
    BY GoingKept DEF Types, IInv, Shapes, History, AppTypeOK
  <1>2. StreamTypes'
    BY <1>1 DEF StreamTypes, subVars, position, stream, Idx
  <1>3. request' = request /\ timeouts' = timeouts
    BY Zenon DEF WaitStep, WaitRun, WaitStart, First, PromptStart, Before, Position, Prompted, Loop, Again, Check, Last,
       AcceptPrompt, SubmitEnds, DeadlinePasses, WaitStop, waitVars, thread, calls, Ask, Taken
  <1>4. call' \in {"agent", "prompt", "none", call}
    BY Zenon DEF WaitStep, WaitRun, WaitStart, First, PromptStart, Before, Position, Prompted, Loop, Again, Check, Last,
       AcceptPrompt, SubmitEnds, DeadlinePasses, WaitStop, thread, calls, Ask, Taken
  <1>5. base' \in {base, nextSequence} /\ begun' \in {"yes", "no", begun}
    BY Zenon DEF WaitStep, WaitRun, WaitStart, First, PromptStart, Before, Position, Prompted, Loop, Again, Check, Last,
       AcceptPrompt, SubmitEnds, DeadlinePasses, WaitStop, waitVars, wait
  <1>6. after' \in Nat
    <2>1. CASE Prompted
      <3>1. after' \in {after, TheReply.pane.changeSeq}
        BY <2>1, Zenon DEF Prompted
      <3>2. TheReply.pane.changeSeq \in Nat
        BY <2>1, ReplyValues, Zenon DEF Prompted
      <3>. QED
        BY <1>1, <3>1, <3>2 DEF WaitTypeOK
    <2>2. CASE ~Prompted
      <3>1. after' = after
        BY <2>2, Zenon DEF WaitStep, WaitRun, WaitStart, First, PromptStart, Before, Position, Loop, Again, Check, Last,
           AcceptPrompt, SubmitEnds, DeadlinePasses, WaitStop, waitVars, wait
      <3>. QED
        BY <1>1, <3>1 DEF WaitTypeOK
    <2>. QED
      BY <2>1, <2>2
  <1>7. matched' \in SUBSET Statuses
    <2>1. CASE Loop
      <3>1. matched' = matched \/ matched' = Transient(EventsAfter(pos))
        BY <2>1, Zenon DEF Loop
      <3>2. EventsAfter(pos) \subseteq DOMAIN events
        BY Zenon DEF EventsAfter
      <3>3. Transient(EventsAfter(pos)) \subseteq Statuses
        BY <1>1, <3>2, TransientTypes, UntilTypes, Zenon
      <3>. QED
        BY <1>1, <3>1, <3>3 DEF WaitTypeOK
    <2>2. CASE ~Loop
      <3>1. matched' \in {matched, {}}
        BY <2>2, Zenon DEF WaitStep, WaitRun, WaitStart, First, PromptStart, Before, Position, Prompted, Again, Check, Last,
           AcceptPrompt, SubmitEnds, DeadlinePasses, WaitStop, waitVars, wait
      <3>. QED
        BY <1>1, <3>1 DEF WaitTypeOK
    <2>. QED
      BY <2>1, <2>2
  <1>8. held' \in SUBSET H /\ departed' \in {"yes", "no"}
    <2>1. {Holding(pane, pane)} \cup Announced(pending) \in SUBSET H /\ pane.exited \in {"yes", "no"}
      <3>1. pending \in Seq(Events)
        BY <1>1, Zenon DEF AppTypeOK
      <3>2. {Holding(pane, pane)} \cup Announced(pending) \in SUBSET H
        BY <1>1, <3>1, HeldTypes, Zenon
      <3>. QED
        BY <1>1, <3>2, Zenon DEF Panes
    <2>2. Begin \/ UNCHANGED <<held, departed>>
      BY Zenon DEF WaitStep, WaitRun, WaitStart, First, PromptStart, Before, Position, Prompted, Loop, Again, Check, Last,
         AcceptPrompt, SubmitEnds, DeadlinePasses, WaitStop, waitVars, past
    <2>. HIDE DEF H
    <2>3. CASE Begin
      BY <2>1, <2>3, Zenon DEF Begin
    <2>4. CASE UNCHANGED <<held, departed>>
      BY <1>1, <2>4 DEF WaitTypeOK, H
    <2>. QED
      BY <2>2, <2>3, <2>4
  <1>9. swapped' \in {swapped, departed} /\ missed' \in {missed, "yes"}
    BY Zenon DEF WaitStep, WaitRun, WaitStart, First, PromptStart, Before, Position, Prompted, Loop, Again, Check, Last,
       AcceptPrompt, SubmitEnds, DeadlinePasses, WaitStop, waitVars, past, Begin
  <1>10. ThreadTypes'
    BY <1>1, <1>3, <1>4 DEF ThreadTypes, Going
  <1>11. WaitTypeOK'
    <2>1. request' \in RequestTypes /\ base' \in Nat /\ begun' \in {"yes", "no"} /\ after' \in Nat
      BY <1>1, <1>3, <1>5, <1>6 DEF WaitTypeOK
    <2>2. swapped' \in {"yes", "no"} /\ missed' \in {"yes", "no"}
      BY <1>1, <1>9 DEF WaitTypeOK
    <2>. QED
      BY <1>1, <1>7, <1>8, <2>1, <2>2 DEF WaitTypeOK, Going
  <1>. QED
    BY <1>2, <1>10, <1>11 DEF Types

\* Types hold at first.
LEMMA TypesInitially ==
  ASSUME Init
  PROVE  Types
  <1>1. ASSUME NEW sc \in ScenarioTypes, NEW rq \in RequestTypes, SubInit(sc), WaitInit(rq), pc \in {"accept", "ask"}
        PROVE  Types
    <2>1. ThreadTypes
      BY <1>1, CallsAssumption DEF Init, CallsInit, ThreadTypes, Labels, Outcomes
    <2>2. StreamTypes
      BY <1>1 DEF SubInit, StreamTypes, ScenarioTypes, Samples
    <2>3. WaitTypeOK
      BY <1>1 DEF WaitInit, WaitTypeOK
    <2>. QED
      BY <2>1, <2>2, <2>3 DEF Types
  <1>2. <<>> \in Seq(SubTypes) /\ 0 \in Nat
    OBVIOUS
  <1>3. NoScenario \in ScenarioTypes
    BY <1>2, Zenon DEF NoScenario, ScenarioTypes
  <1>4. NoRequest \in RequestTypes
    BY <1>2, Zenon DEF NoRequest, RequestTypes
  <1>. QED
    BY <1>1, <1>3, <1>4, SubscriptionAssumption, RequestAssumption, Zenon DEF Init

\* Types are kept.
LEMMA TypesKept ==
  ASSUME IInv, IInv', Types, [Next]_vars
  PROVE  Types'
  <1>1. CASE Main
    BY <1>1, MainTypesKept, Zenon
  <1>2. CASE AppReplies
    BY <1>2, RepliesTypesKept, Zenon
  <1>3. CASE Handler
    BY <1>3, SubTypesKept, WaitTypesKept, Zenon DEF Handler
  <1>4. CASE UNCHANGED vars
    <2>1. ThreadTypes' /\ StreamTypes'
      BY <1>4 DEF Types, ThreadTypes, StreamTypes, vars, thread, calls, subVars, position, stream, Idx
    <2>2. WaitTypeOK'
      BY <1>4 DEF Types, WaitTypeOK, vars, waitVars, wait, past
    <2>. QED
      BY <2>1, <2>2 DEF Types
  <1>. QED
    BY <1>1, <1>2, <1>3, <1>4 DEF Next

LEMMA TypesInvariance == Spec => []Types
  BY TypesKept, TypesInitially, Invariance, PTL DEF Spec

\* For every length of the history and every request: the main thread, a
\* connection's thread and what a stream or a wait keeps have their types, and
\* so do the events, the answers and the statuses told to the client.
THEOREM TypeCorrect == Spec => []TypeOK
  <1>1. IInv /\ Types => TypeOK
    BY DEF IInv, History, Shapes, Types, ThreadTypes, StreamTypes, TypeOK, CallsTypeOK, SubTypeOK
  <1>. QED
    BY <1>1, TypesInvariance, Invariance, PTL

----------------------------------------------------------------------------
(* What a subscription has sampled is what it has told. *)

\* Only a subscription to one status has an initial event.
AnyNeverWaits == \A i \in Idx : subs[i].want = "any" => initial[i] = {}

Telling == AnyNeverWaits /\ SampledIsTold

\* While nothing is to be written, or the subscription stays, it is enough that
\* what is to be written stays.
LEMMA TellingKept ==
  ASSUME Telling, UNCHANGED <<subs, waiting, sampled, initial, out, note, told>>,
         cur' = cur \/ (out = {} /\ note = {}),
         cur \in Idx /\ out # {} => log'[Max(out)] = log[Max(out)]
  PROVE  Telling'
  <1>1. AnyNeverWaits'
    BY DEF Telling, AnyNeverWaits, Idx
  <1>2. Idx' = Idx /\ \A i : Sampling(i)' <=> Sampling(i)
    BY DEF Idx, Sampling
  <1>3. CASE out = {} /\ note = {}
    BY <1>1, <1>2, <1>3, Zenon DEF Telling, SampledIsTold
  <1>4. CASE ~(out = {} /\ note = {})
    <2>1. cur' = cur
      BY <1>4
    <2>. QED
      BY <1>1, <1>2, <2>1, Zenon DEF Telling, SampledIsTold
  <1>5. SampledIsTold'
    BY <1>3, <1>4, Zenon DEF Telling
  <1>. QED
    BY <1>1, <1>5 DEF Telling

\* The log keeps what is to be written.
LEMMA OutIsLogged ==
  ASSUME IInv, cur \in Idx, out # {}
  PROVE  Max(out) \in out /\ Max(out) \in 1 .. nextSequence /\ \A q \in out : q <= Max(out)
  <1>1. nextSequence \in Nat /\ asOf[cur] \in Nat /\ last[cur] \in Nat /\ out \in SUBSET Nat
    BY DEF IInv, Shapes, History, AppTypeOK
  <1>2. ASSUME NEW q \in out PROVE q \in 1 .. nextSequence
    <2>1. asOf[cur] < q /\ q <= last[cur] /\ last[cur] <= nextSequence
      BY <1>2, Zenon DEF IInv, Times
    <2>2. q \in Nat
      BY <1>1, <1>2
    <2>. QED
      BY <1>1, <2>1, <2>2
  <1>3. out \subseteq 1 .. nextSequence
    BY <1>2
  <1>4. Max(out) \in out /\ \A k \in out : k <= Max(out)
    BY <1>1, <1>3, Greatest, Zenon
  <1>. QED
    BY <1>3, <1>4, Zenon

\* A step that gives the subscription at hand a value, and either tells it or
\* makes it a note to write.
LEMMA TellingChanged ==
  ASSUME Telling, StreamTypes, cur \in Idx, out = {}, note = {}, UNCHANGED <<subs, waiting, out>>,
         AnyNeverWaits',
         \A i \in Idx : i # cur => sampled'[i] = sampled[i] /\ told'[i] = told[i],
         cur' = cur \/ note' = {},
         Sampling(cur) => IF note' = {} THEN told'[cur] = sampled'[cur] ELSE \A n \in note' : n.val = sampled'[cur]
  PROVE  Telling'
  <1>1. Idx' = Idx /\ \A i : Sampling(i)' <=> Sampling(i)
    BY DEF Idx, Sampling
  <1>2. \A i \in Idx : Sampling(i) => told[i] = sampled[i]
    BY Zenon DEF Telling, SampledIsTold
  <1>3. CASE note' = {}
    <2>1. \A i \in Idx : Sampling(i) => told'[i] = sampled'[i]
      BY <1>2, <1>3, Zenon
    <2>. QED
      BY <1>1, <1>3, <2>1, Zenon DEF Telling, SampledIsTold
  <1>4. CASE note' # {}
    <2>1. cur' = cur
      BY <1>4
    <2>2. \A i \in Idx : Sampling(i) /\ i # cur => told'[i] = sampled'[i]
      BY <1>2, Zenon
    <2>3. Sampling(cur) => \A n \in note' : n.val = sampled'[cur]
      BY <1>4
    <2>. QED
      BY <1>1, <1>4, <2>1, <2>2, <2>3, Zenon DEF Telling, SampledIsTold
  <1>. QED
    BY <1>3, <1>4

\* The newest of some retained events has the greatest sequence number of them.
LEMMA NewestOf ==
  ASSUME History, NEW T \in SUBSET (1 .. Len(events)), T # {}
  PROVE  /\ Max(Seqs(T)) = events[Max(T)].seq /\ events[Max(T)].ev = log[events[Max(T)].seq]
         /\ Seqs(T) # {}
  <1>1. /\ Len(events) \in Nat /\ nextSequence \in Nat
        /\ \A k \in 1 .. Len(events) :
             events[k].seq = nextSequence - Len(events) + k /\ events[k].ev = log[events[k].seq]
    BY Numbered, Zenon
  <1>2. Max(T) \in T /\ \A k \in T : k <= Max(T)
    BY <1>1, Greatest, Zenon
  <1>3. PICK m \in T : m = Max(T)
    BY <1>2, Zenon
  <1>4. \A k \in T : k \in 1 .. Len(events) /\ k <= m
    BY <1>2, <1>3, Zenon
  <1>5. ASSUME NEW k \in T PROVE events[k].seq \in Int /\ events[k].seq <= events[m].seq
    <2>1. events[k].seq = nextSequence - Len(events) + k /\ events[m].seq = nextSequence - Len(events) + m
      BY <1>1, <1>4, <1>5, Zenon
    <2>2. k \in Int /\ m \in Int /\ k <= m
      BY <1>1, <1>4, <1>5
    <2>. QED
      BY <1>1, <2>1, <2>2
  <1>6. /\ Seqs(T) \in SUBSET Int /\ events[m].seq \in Seqs(T)
        /\ \A y \in Seqs(T) : y <= events[m].seq
    BY <1>5, Zenon DEF Seqs
  <1>7. Max(Seqs(T)) = events[m].seq
    BY <1>6, MaxIs, Zenon
  <1>. QED
    BY <1>1, <1>3, <1>4, <1>6, <1>7, Zenon

\* A batch of the history.
LEMMA BatchTelling ==
  ASSUME IInv, Types, Telling, PollBatch, ~LostAfter(last[cur])
  PROVE  Telling'
  <1>. DEFINE batch == EventsAfter(last[cur])
              found == {k \in batch : Matches(cur, events[k].ev)}
              news == {k \in batch : Sub.type = "status" /\ events[k].ev.kind = "status"}
  <1>1. /\ UNCHANGED <<hub, subs, waiting, cur, note, told>> /\ Look(batch) /\ out' = Seqs(found)
        /\ Sub.type \in {"event", "status"} /\ At("poll")
    BY Zenon DEF PollBatch
  <1>2. cur \in Idx /\ out = {} /\ note = {} /\ History
    BY <1>1, Zenon DEF IInv, Place, Polling, At
  <1>3. Idx' = Idx /\ \A i : Sampling(i)' <=> Sampling(i)
    BY <1>1 DEF Idx, Sampling
  <1>4. sampled \in [Idx -> Samples] /\ initial \in [Idx -> SUBSET Notes]
    BY DEF Types, StreamTypes, IInv, Shapes
  <1>5. /\ sampled' = IF news = {} THEN sampled ELSE [sampled EXCEPT ![cur] = events[Max(news)].ev.status]
        /\ initial' = IF news = {} THEN initial ELSE [initial EXCEPT ![cur] = {}]
    BY <1>1, Zenon DEF Look
  <1>6. AnyNeverWaits'
    <2>1. \A i \in Idx : initial'[i] \in {initial[i], {}}
      <3>. HIDE DEF news
      <3>. QED
        BY <1>4, <1>5
    <2>. QED
      BY <1>1, <1>3, <2>1, Zenon DEF Telling, AnyNeverWaits
  <1>7. \A i \in Idx : Sampling(i) => told[i] = sampled[i]
    BY <1>2, Zenon DEF Telling, SampledIsTold
  <1>8. Sampling(cur) => found = news
    BY <1>2 DEF Sampling, Matches, Wanted, Sub
  <1>9. ASSUME NEW i \in Idx, Sampling(i)
        PROVE  IF i = cur /\ out' # {} THEN log[Max(out')].status = sampled'[i] ELSE told[i] = sampled'[i]
    <2>1. CASE i # cur
      <3>1. sampled'[i] = sampled[i]
        <4>. HIDE DEF news
        <4>. QED
          BY <1>4, <1>5, <2>1
      <3>. QED
        BY <1>7, <1>9, <2>1, <3>1, Zenon
    <2>2. CASE i = cur /\ news = {}
      <3>1. out' = {} /\ sampled' = sampled
        BY <1>1, <1>5, <1>8, <1>9, <2>2, Zenon DEF Seqs
      <3>. QED
        BY <1>7, <1>9, <3>1, Zenon
    <2>3. CASE i = cur /\ news # {}
      <3>1. out' = Seqs(news)
        BY <1>1, <1>8, <1>9, <2>3, Zenon
      <3>2. news \in SUBSET (1 .. Len(events))
        BY <1>2, Numbered, Zenon DEF EventsAfter
      <3>. HIDE DEF news
      <3>3. /\ Max(Seqs(news)) = events[Max(news)].seq /\ events[Max(news)].ev = log[events[Max(news)].seq]
            /\ Seqs(news) # {}
        BY <1>2, <2>3, <3>2, NewestOf, Zenon
      <3>4. sampled'[cur] = events[Max(news)].ev.status
        BY <1>2, <1>4, <1>5, <2>3
      <3>. QED
        BY <2>3, <3>1, <3>3, <3>4, Zenon
    <2>. QED
      BY <2>1, <2>2, <2>3
  <1>10. UNCHANGED <<log, cur, note, told>>
    BY <1>1 DEF hub
  <1>11. SampledIsTold'
    <2>. HIDE DEF batch, found, news
    <2>. QED
      BY <1>2, <1>3, <1>9, <1>10, Zenon DEF SampledIsTold
  <1>. QED
    BY <1>6, <1>11 DEF Telling

\* The steps that sample: the probe, the poll of an output match or of the scroll
\* position, and the snapshot.
LEMMA SampleTelling ==
  ASSUME IInv, Types, Telling, Probed \/ Sampled \/ Snapshot
  PROVE  Telling'
  <1>. DEFINE r == TheReply
  <1>0. Answered /\ outcome = "open"
    BY Zenon DEF Probed, Sampled, Snapshot, At
  <1>1. cur \in Idx /\ out = {} /\ note = {}
    BY Zenon DEF IInv, Place, SettingUp, Polling, Probed, Sampled, Snapshot, At
  <1>2. UNCHANGED <<subs, waiting, out>> /\ Idx' = Idx
    BY DEF Probed, Sampled, Snapshot, Idx
  <1>3. /\ StreamTypes /\ sampled \in [Idx -> Samples] /\ told \in [Idx -> Samples]
        /\ initial \in [Idx -> SUBSET Notes]
    BY DEF Types, StreamTypes, IInv, Shapes
  <1>4. \A type : Sample(type, r.pane) \in Samples
    BY <1>0, ReplyValues, Zenon
  <1>5. \A i \in Idx : Sampling(i) => told[i] = sampled[i]
    BY <1>1, Zenon DEF Telling, SampledIsTold
  <1>6. Sampling(cur) => Sub.want = "any"
    BY DEF Sampling, Sub
  <1>7. CASE Probed
    <2>. DEFINE s == IF Sub.type = "output" THEN "no" ELSE Sample(Sub.type, r.pane)
    <2>1. s \in Samples /\ s # "any"
      BY <1>4 DEF Samples, Statuses, AgentStates
    <2>2. note' = note
      BY <1>7, Zenon DEF Probed
    <2>3. CASE UNCHANGED <<sampled, initial, told>>
      BY <1>1, <1>2, <2>2, <2>3, TellingKept
    <2>4. CASE /\ sampled' = [sampled EXCEPT ![cur] = s]
               /\ told' = IF Sub.want = "any" THEN [told EXCEPT ![cur] = s] ELSE told
               /\ initial' = [initial EXCEPT ![cur] = IF s = Sub.want THEN {[val |-> s, seq |-> r.seq]} ELSE {}]
      <3>. HIDE DEF s, r
      <3>1. AnyNeverWaits'
        <4>1. ASSUME NEW i \in Idx, subs[i].want = "any" PROVE initial'[i] = {}
          <5>1. CASE i = cur
            BY <1>1, <1>3, <2>1, <2>4, <4>1, <5>1 DEF Sub
          <5>2. CASE i # cur
            BY <1>3, <2>4, <4>1, <5>2 DEF Telling, AnyNeverWaits
          <5>. QED
            BY <5>1, <5>2
        <4>. QED
          BY <1>2, <4>1, Zenon DEF AnyNeverWaits
      <3>2. \A i \in Idx : i # cur => sampled'[i] = sampled[i] /\ told'[i] = told[i]
        BY <1>3, <2>4
      <3>3. Sampling(cur) => told'[cur] = sampled'[cur]
        BY <1>1, <1>3, <1>6, <2>4
      <3>. QED
        BY <1>1, <1>2, <1>3, <2>2, <3>1, <3>2, <3>3, TellingChanged, Zenon
    <2>. QED
      BY <1>7, <2>3, <2>4, Zenon DEF Probed
  <1>8. CASE Sampled
    <2>. DEFINE s == Sample(Sub.type, r.pane)
                edge == r.err = "none" /\ s # sampled[cur] /\ s \notin {"no", "none"}
    <2>1. /\ note' = IF edge THEN {[val |-> s, seq |-> r.seq]} ELSE {}
          /\ sampled' = IF r.err # "none" THEN sampled ELSE [sampled EXCEPT ![cur] = s]
          /\ told' = IF r.err = "none" /\ ~edge THEN [told EXCEPT ![cur] = s] ELSE told
          /\ initial' = initial /\ cur' = cur
      BY <1>8, Zenon DEF Sampled
    <2>2. edge => r.err = "none"
      OBVIOUS
    <2>. HIDE DEF s, r, edge
    <2>3. AnyNeverWaits'
      BY <1>2, <2>1, Zenon DEF Telling, AnyNeverWaits
    <2>4. \A i \in Idx : i # cur => sampled'[i] = sampled[i] /\ told'[i] = told[i]
      BY <1>3, <2>1
    <2>5. Sampling(cur) => IF note' = {} THEN told'[cur] = sampled'[cur] ELSE \A n \in note' : n.val = sampled'[cur]
      <3>1. CASE edge
        <4>1. sampled'[cur] = s /\ note' = {[val |-> s, seq |-> r.seq]}
          BY <1>1, <1>3, <2>1, <2>2, <3>1
        <4>2. note' # {} /\ \A n \in note' : n.val = s
          BY <4>1
        <4>. QED
          BY <4>1, <4>2, Zenon
      <3>2. CASE ~edge
        BY <1>1, <1>3, <1>5, <2>1, <3>2
      <3>. QED
        BY <3>1, <3>2
    <2>. QED
      BY <1>1, <1>2, <1>3, <2>1, <2>3, <2>4, <2>5, TellingChanged, Zenon
  <1>9. CASE Snapshot
    <2>. DEFINE s == Status(r.pane)
    <2>1. UNCHANGED <<initial, told, cur>>
      BY <1>9 DEF Snapshot
    <2>2. CASE UNCHANGED <<sampled, note>>
      BY <1>1, <1>2, <2>1, <2>2, TellingKept
    <2>3. CASE /\ sampled' = [sampled EXCEPT ![cur] = s]
               /\ note' = IF s # sampled[cur] /\ Wanted(cur, s) THEN {[val |-> s, seq |-> r.seq]} ELSE {}
      <3>. HIDE DEF s, r
      <3>1. AnyNeverWaits'
        BY <1>2, <2>1, Zenon DEF Telling, AnyNeverWaits
      <3>2. \A i \in Idx : i # cur => sampled'[i] = sampled[i] /\ told'[i] = told[i]
        BY <1>3, <2>1, <2>3
      <3>3. Sampling(cur) => IF note' = {} THEN told'[cur] = sampled'[cur] ELSE \A n \in note' : n.val = sampled'[cur]
        <4>1. CASE s # sampled[cur]
          <5>1. Sampling(cur) => Wanted(cur, s)
            BY <1>6 DEF Wanted, Sub
          <5>2. Sampling(cur) => sampled'[cur] = s /\ note' = {[val |-> s, seq |-> r.seq]}
            BY <1>1, <1>3, <2>3, <4>1, <5>1
          <5>3. ASSUME Sampling(cur) PROVE note' # {} /\ \A n \in note' : n.val = s
            <6>1. note' = {[val |-> s, seq |-> r.seq]}
              BY <5>2, <5>3
            <6>. QED
              BY <6>1
          <5>. QED
            BY <5>2, <5>3, Zenon
        <4>2. CASE s = sampled[cur]
          BY <1>1, <1>3, <1>5, <2>1, <2>3, <4>2
        <4>. QED
          BY <4>1, <4>2
      <3>. QED
        BY <1>1, <1>2, <1>3, <2>1, <3>1, <3>2, <3>3, TellingChanged, Zenon
    <2>. QED
      BY <1>9, <2>2, <2>3, Zenon DEF Snapshot
  <1>. QED
    BY <1>7, <1>8, <1>9

\* An initial event belongs to a subscription to one status, and a wait reports
\* one event: neither is about a subscription that reports every value.
LEMMA OtherTelling ==
  ASSUME IInv, Types, Telling, PollOne \/ Quiet
  PROVE  Telling'
  <1>1. cur \in Idx /\ out = {} /\ note = {}
    BY Zenon DEF IInv, Place, SettingUp, Polling, PollOne, Quiet, At
  <1>2. UNCHANGED <<subs, waiting, cur, told>> /\ Idx' = Idx /\ \A i : Sampling(i)' <=> Sampling(i)
    BY DEF PollOne, Quiet, Idx, Sampling
  <1>3. initial \in [Idx -> SUBSET Notes]
    BY DEF Types, StreamTypes, IInv, Shapes
  <1>4. CASE PollOne
    <2>1. initial' \in {initial, [initial EXCEPT ![cur] = {}]}
      BY <1>4, Zenon DEF PollOne, Look
    <2>2. AnyNeverWaits'
      BY <1>2, <1>3, <2>1 DEF Telling, AnyNeverWaits
    <2>3. waiting' # "no"
      BY <1>2, <1>4 DEF PollOne
    <2>. QED
      BY <2>2, <2>3, Zenon DEF Telling, SampledIsTold, Sampling
  <1>5. CASE Quiet
    <2>1. UNCHANGED <<sampled, out>>
      BY <1>5 DEF Quiet
    <2>2. CASE UNCHANGED <<initial, note>>
      BY <1>1, <1>2, <2>1, <2>2, TellingKept
    <2>3. CASE initial[cur] # {} /\ initial' = [initial EXCEPT ![cur] = {}]
      <3>1. AnyNeverWaits'
        BY <1>2, <1>3, <2>3 DEF Telling, AnyNeverWaits
      <3>2. ~Sampling(cur)
        BY <1>1, <2>3, Zenon DEF Telling, AnyNeverWaits, Sampling
      <3>3. SampledIsTold'
        BY <1>1, <1>2, <2>1, <3>2, Zenon DEF Telling, SampledIsTold
      <3>. QED
        BY <3>1, <3>3 DEF Telling
    <2>. QED
      BY <1>5, <2>2, <2>3, Zenon DEF Quiet
  <1>. QED
    BY <1>4, <1>5

\* What is written is told, and the last of what is to be written stays the last.
LEMMA WriteTelling ==
  ASSUME IInv, Types, Telling, Write \/ WriteNote
  PROVE  Telling'
  <1>1. cur \in Idx /\ (note # {} => out = {})
    BY Zenon DEF IInv, Place, Write, WriteNote, At
  <1>2. /\ UNCHANGED <<subs, waiting, cur, sampled, initial, log>> /\ Idx' = Idx
        /\ \A i : Sampling(i)' <=> Sampling(i)
    BY DEF Write, WriteNote, Idx, Sampling, position, hub
  <1>3. told \in [Idx -> Samples]
    BY DEF Types, StreamTypes, IInv, Shapes
  <1>4. AnyNeverWaits'
    BY <1>2, Zenon DEF Telling, AnyNeverWaits
  <1>5. Sampling(cur) => Sub.type # "event"
    BY DEF Sampling, Sub
  <1>6. \A i \in Idx : Sampling(i) /\ i # cur => told[i] = sampled[i]
    BY Zenon DEF Telling, SampledIsTold
  <1>7. CASE Write
    <2>1. PICK q \in out : /\ \A later \in out : q <= later
                          /\ out' = out \ {q} /\ Tell(log[q].status, q)
      BY <1>7, Zenon DEF Write
    <2>2. note' = note /\ note = {}
      BY <1>1, <1>7, <2>1 DEF Write
    <2>3. /\ Max(out) \in out /\ \A k \in out : k <= Max(out)
          /\ out \in SUBSET Nat
      BY <1>1, <2>1, OutIsLogged, Zenon DEF IInv, Shapes
    <2>4. told' = IF Sub.type = "event" THEN told ELSE [told EXCEPT ![cur] = log[q].status]
      BY <2>1, Zenon DEF Tell
    <2>5. \A i \in Idx : i # cur => told'[i] = told[i]
      BY <1>3, <2>4
    <2>6. Sampling(cur) => told'[cur] = log[q].status
      BY <1>1, <1>3, <1>5, <2>4
    <2>7. Sampling(cur) => log[Max(out)].status = sampled[cur]
      BY <1>1, <2>1, <2>2, Zenon DEF Telling, SampledIsTold
    <2>8. CASE out' = {}
      <3>1. Max(out) = q
        BY <2>1, <2>3, <2>8
      <3>2. \A i \in Idx : Sampling(i) => told'[i] = sampled[i]
        BY <1>6, <2>5, <2>6, <2>7, <3>1, Zenon
      <3>3. SampledIsTold'
        BY <1>2, <2>2, <2>8, <3>2, Zenon DEF SampledIsTold
      <3>. QED
        BY <1>4, <3>3 DEF Telling
    <2>9. CASE out' # {}
      <3>1. PICK k \in out : k # q
        BY <2>1, <2>9
      <3>2. Max(out) # q
        BY <2>1, <2>3, <3>1
      <3>3. /\ out' \in SUBSET Int /\ Max(out) \in out' /\ \A y \in out' : y <= Max(out)
        BY <2>1, <2>3, <3>2
      <3>4. Max(out') = Max(out)
        BY <3>3, MaxIs, Zenon
      <3>5. SampledIsTold'
        BY <1>2, <1>6, <2>2, <2>5, <2>7, <2>9, <3>4, Zenon DEF SampledIsTold
      <3>. QED
        BY <1>4, <3>5 DEF Telling
    <2>. QED
      BY <2>8, <2>9
  <1>8. CASE WriteNote
    <2>1. out = {} /\ out' = out /\ note # {} /\ note' = {}
      BY <1>8 DEF WriteNote
    <2>2. PICK n \in note : Tell(n.val, n.seq)
      BY <1>8, Zenon DEF WriteNote
    <2>3. told' = IF Sub.type = "event" THEN told ELSE [told EXCEPT ![cur] = n.val]
      BY <2>2, Zenon DEF Tell
    <2>4. \A i \in Idx : i # cur => told'[i] = told[i]
      BY <1>3, <2>3
    <2>5. Sampling(cur) => told'[cur] = n.val
      BY <1>1, <1>3, <1>5, <2>3
    <2>6. Sampling(cur) => n.val = sampled[cur]
      BY <1>1, <2>1, <2>2, Zenon DEF Telling, SampledIsTold
    <2>7. \A i \in Idx : Sampling(i) => told'[i] = sampled[i]
      BY <1>6, <2>4, <2>5, <2>6, Zenon
    <2>8. SampledIsTold'
      BY <1>2, <2>1, <2>7, Zenon DEF SampledIsTold
    <2>. QED
      BY <1>4, <2>8 DEF Telling
  <1>. QED
    BY <1>7, <1>8

\* The other steps leave the stream's values alone; what the main thread pushes
\* comes behind what is to be written.
LEMMA TellingStep ==
  ASSUME IInv, Types, Telling, [Next]_vars
  PROVE  Telling'
  <1>1. CASE Main
    <2>1. UNCHANGED <<subs, waiting, cur, sampled, initial, out, note, told>> /\ AppStep
      BY <1>1 DEF Main, subVars, position, stream
    <2>2. \A q \in 1 .. nextSequence : log'[q] = log[q]
      BY <2>1, HistoryStep, Zenon DEF IInv
    <2>3. cur \in Idx /\ out # {} => log'[Max(out)] = log[Max(out)]
      BY <2>2, OutIsLogged, Zenon
    <2>. QED
      BY <2>1, <2>3, TellingKept, Zenon
  <1>2. CASE UNCHANGED <<subs, waiting, sampled, initial, stream, hub>> /\ (cur' = cur \/ (out = {} /\ note = {}))
    <2>1. UNCHANGED <<subs, waiting, sampled, initial, out, note, told, log>>
      BY <1>2 DEF stream, hub
    <2>. QED
      BY <1>2, <2>1, TellingKept
  <1>3. CASE AppReplies
    <2>1. UNCHANGED <<subVars, hub>>
      BY <1>3, Zenon DEF AppReplies, Answer, AnswerLate
    <2>. QED
      BY <1>2, <2>1 DEF subVars, position, stream
  <1>4. CASE WaitStep /\ UNCHANGED subVars
    <2>1. UNCHANGED hub
      BY <1>4, Zenon DEF WaitStep, WaitRun, WaitStart, First, PromptStart, Before, Position, Prompted, Loop, Again, Check,
         Last, AcceptPrompt, SubmitEnds, DeadlinePasses, WaitStop
    <2>. QED
      BY <1>2, <1>4, <2>1 DEF subVars, position, stream
  <1>5. CASE SubStep
    <2>1. CASE Accept \/ PollSample \/ Stop \/ Deadline
      <3>1. UNCHANGED <<subs, waiting, cur, sampled, initial, stream, hub>>
        BY <2>1 DEF Accept, PollSample, Stop, Deadline, subVars, position
      <3>. QED
        BY <1>2, <3>1, Zenon
    <2>2. CASE NewEvent \/ NewSampled \/ Started \/ NextSub
      <3>1. out = {} /\ note = {}
        BY <2>2, Zenon DEF NewEvent, NewSampled, Started, NextSub, At, IInv, Place, SettingUp
      <3>2. UNCHANGED <<subs, waiting, sampled, initial, stream, hub>>
        BY <2>2 DEF NewEvent, NewSampled, Started, NextSub
      <3>. QED
        BY <1>2, <3>1, <3>2, Zenon
    <2>3. CASE PollBatch
      <3>1. CASE ~LostAfter(last[cur])
        BY <2>3, <3>1, BatchTelling, Zenon
      <3>2. CASE LostAfter(last[cur])
        <4>1. UNCHANGED <<subs, waiting, cur, sampled, initial, out, note, told, hub>>
          BY <2>3, <3>2, Zenon DEF PollBatch
        <4>2. log' = log
          BY <4>1 DEF hub
        <4>. QED
          BY <4>1, <4>2, TellingKept
      <3>. QED
        BY <3>1, <3>2
    <2>4. CASE Probed \/ Sampled \/ Snapshot
      BY <2>4, SampleTelling, Zenon
    <2>5. CASE PollOne \/ Quiet
      BY <2>5, OtherTelling, Zenon
    <2>6. CASE Write \/ WriteNote
      BY <2>6, WriteTelling, Zenon
    <2>. QED
      BY <1>5, <2>1, <2>2, <2>3, <2>4, <2>5, <2>6, Zenon DEF SubStep, SubRun
  <1>6. CASE UNCHANGED vars
    BY <1>2, <1>6 DEF vars, subVars, position, stream, hub
  <1>. QED
    BY <1>1, <1>3, <1>4, <1>5, <1>6, Zenon DEF Next, Handler

\* For every list of subscriptions and every length of the history: a
\* subscription that reports every value never has a value in last_status,
\* currently_matching or last_scroll that it has not told its client and is not
\* about to (ActiveSubscription::poll_batch, event_from_history,
\* event_from_snapshot and the polls that sample).
THEOREM NothingUntold == Spec => []SampledIsTold
  <1>1. Init => Telling
    <2>. SUFFICES ASSUME Init PROVE Telling
      OBVIOUS
    <2>1. PICK sc : SubInit(sc)
      BY Zenon DEF Init
    <2>. QED
      BY <2>1 DEF SubInit, Telling, AnyNeverWaits, SampledIsTold, Idx
  <1>2. IInv /\ Types /\ Telling /\ [Next]_vars => Telling'
    BY TellingStep
  <1>3. Telling => SampledIsTold
    BY DEF Telling
  <1>. QED
    BY <1>1, <1>2, <1>3, TypesInvariance, Invariance, PTL DEF Spec
=============================================================================
