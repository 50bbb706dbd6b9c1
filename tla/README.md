# A TLA+ model of Herden

Herden keeps terminal panes with coding agents alive on a host, and lets
clients (a terminal client, an iOS app, glasses) attach to them. The program is
`runtime/` (Rust: the server, its API, the terminal client, pairing), with the
iOS app in `Sources/` and `Packages/HerdenSSH`, a notification `plugin/` and
`relay/`, and `glasses/`.

This directory models the parts of the server where an order of steps nobody
wrote a test for could lose something the user cares about: typed input, a
running pane, a saved session, a line of `authorized_keys`, an event a client
waits for. TLC checks the
models on small instances, and TLAPS proves the central invariants for every
value of the constants. `PROJECT.json` maps every definition to its source lines.

## Parts, and how they interact

| Part | Source (`runtime/src`) | Module |
| --- | --- | --- |
| PTY I/O actor: one thread per pane that owns the PTY master | `pty/actor/unix.rs` | `PtyActor` |
| Live handoff: the running server passes its panes to a replacement process | `server/headless/lifecycle.rs`, `server/handoff.rs`, `server/headless/bootstrap.rs` | `LiveHandoff`, abstractly `PaneOwnership` |
| Pairing: `herden pair` and the forced command that enrolls a device | `pairing/mod.rs`, `pairing/session.rs`, `pairing/authorized_keys.rs` | `Pairing` |
| Session file: saves, clears and recovery copies on disk | `persist/writer.rs`, `persist/io.rs` | `SessionWriter` |
| Session saving: when a save happens and with which layout | `app/session.rs` and its callers | `SessionSave` |
| API connections: event streams, waits for events, output and agents, prompts | `api/event_hub.rs`, `api/server.rs`, `api/subscriptions.rs`, `api/wait.rs`, `app/api/agents.rs` | `EventHub`, `ApiCalls`, `Subscriptions`, `AgentWait`, composed in `ApiServer` |

The parts are layers. `LiveHandoff` drives one `PtyActor` per pane through
`begin_handoff`, `duplicate_for_handoff`, `rollback_handoff` and
`release_after_commit`, and assumes of it what `PtyActor` shows: a request that
returned Ok left the actor quiesced (`HeldMeansQuiesced`), with no input left in
it (`QuiescedHoldsNoInput`). It also assumes that a rollback resumes the pane.
`PtyActor` shows this of reading; the run `pty_gate_stuck` shows that it is not
always so of user writes. `SessionSave` takes one save as one atomic
write of the file; `SessionWriter` looks inside that write. A handoff ends with
the old server turning its session saving off (`FinishHandoff` in `SessionSave`)
and with a replacement whose writer starts afresh (`Replace` in `SessionWriter`).

## The modules

**PtyActor.** The actor's loop (drain commands, flush one chunk, apply controls,
poll) is a program counter; each turn's parts are actions with the names of the
functions. Clients send writes and submissions (text, then Enter, then a reply) through a
bounded data channel behind a gate; a driver sends the handoff commands through
the control channel and stops waiting when its time is over. Bytes are abstract chunks:
one per write, one for each half of a submission, and those of terminal
responses. The wake pipe is a flag that a drain clears. The
PTY may take or refuse a chunk, or fail, whenever it is touched.

**LiveHandoff.** Two programs, `perform_live_handoff` and
`run_handoff_import_server`, and the stream between them, one action per blocking
step or system call that others can observe: pausing each pane, duplicating each
descriptor, unlinking and binding each of the two socket files, each message, the
kill of a failed import server and each rollback. Either process may die anywhere,
any wait may time out, and calls that may fail may do so. The descriptors
a process holds are a set; the kernel's rule that a message on a stream outlives its
sender is kept. `PaneOwnership` is the abstract specification: the panes
have one owner, only the owner reads, and ownership passes once.

**Pairing.** A display process per code and a forced-command process per
connection, over `authorized_keys`, the pending and enrolled records, and the
lock file. The lock is taken, found stale, and broken in the separate steps of
`LockFile::acquire`; an edit reads, changes and renames in separate steps. A line
is one of the user's, a bootstrap line or a device key. `HolderFails` says whether a process may crash, or
its write fail, with the lock held.

**SessionWriter.** One save or clear at the granularity of file operations: the recovery
copy (temporary, rename, sync, prune), the session's temporary file, its rename
and the sync of the directory, and the history file. `onDisk` is what a
power loss may leave, and `unsynced` the renames it may undo. A file's
content is a layout, a foreign content this version cannot load, or torn.

**SessionSave.** The app's thread is one process (its handlers are atomic) and the
background save another. A layout is a set of panes. `wanted` is the layout a
restart should bring back: the user's last change, or the last autosaved layout,
but not the removal of panes that a host shutdown interrupted.

**EventHub.** The bounded event history and the main thread that fills it: one
pane and the agent in it. A handler changes the pane and then pushes its events
one by one; connections read the history in between, but their requests are
answered only between two handlers. `log` is every event ever pushed, for the
properties only.

**ApiCalls.** A connection's request to the main thread, its answer, and an answer
that comes after the connection stopped waiting for it.

**Subscriptions.** `stream_subscriptions` and the polls of `ActiveSubscription`,
`events.wait` and `pane.wait_for_output`: setting up each subscription of a list, reading a
batch of the history or a sample of the pane, writing it, and the losses
(`events_lost`). Every read of the history is one step, every
request two.

**AgentWait.** `agent.wait`, and `agent.prompt` with a wait: the first look at the
agent, the prompt's submission, the activity gate and the settled wait behind
it, the loop over the history with the pinned agent's label, the probe and the deadline.
`held`, `departed`, `swapped` and `missed` record, for the properties only,
which agent had which status since the request began, whether one
left, whether one had left before the agent was pinned, and whether
events were evicted before the loop read them.

**ApiServer.** One connection, which is a stream or wait of `Subscriptions` or a
request of `AgentWait`, beside the main thread. Connections share nothing but
the history they read, so one is enough.

## Runs

| Run | Shows |
| --- | --- |
| `pty_actor` | `InputConserved`: accepted input is neither lost, doubled nor reordered. `QuiescedHoldsNoInput`, `HeldMeansQuiesced`: a pane that is handed off keeps no input back. `BoundaryMatchesPhase`, `ReplyTellsTruth`: a submission's reply says what reached the PTY. `ClosingAnswersAll`, under fairness: closing or releasing a pane answers every accepted submission. |
| `handoff` | `OneReader`, `PanesSurvive`, `SocketsFollowOwner`, `OneMasterFd`, `ReplyTellsOutcome`; `HandoffSettles` under fairness; `OwnershipSpec`, the refinement of `PaneOwnership`. |
| `pairing` | `OneDevicePerCode`, `PairedMeansAuthorised`, `CleanExit`, `NoLineLost`, for two displays and two devices, no holder of the lock failing. |
| `pairing_crash` | `CeremonyEnds` under fairness, although a lock holder may die. |
| `session_writer` | `NeverTorn`, `AckedSaveIsDurable`, `UnloadedIsKept`, `PruneKeepsEnough`, `LongLivedLayoutIsKept`, `SnapshotsBounded`, with a crash or power loss, a failing operation, a clock set back and a live handoff. |
| `session_exit` | `ExitKeepsWantedLayout`, `CheckpointHolds`, `NewerSaveWins`; `EventuallySaved` under fairness. |
| `api` | Streams: `NoSilentGap` (what matched was delivered, or the stream ended with `events_lost`), `LostIsTrue`, `NeverBackwards`, `SampledIsTold` (a value kept for comparison was told to the client or is about to be); under fairness `LastIsTold`, `WantedIsTold`, `WaitIsServed`. Agent waits: `SuccessIsHonest`, `PromptWasActive`, `NotRunningIsTrue`; under fairness `WaitEnds`, `WantedEndsWait`. |

The type invariants, `SecondDrainIsEmpty` and `ExitAnswersAll` of `PtyActor` (the second
drain's error is unreachable; an actor that has ended has answered every submission) and
`NothingForgotten` of `SessionSave` (a change is in the file or a save is due) are theorems
and have no run of their own.

Five runs check what a document or test says and find that the code does
otherwise; `findings` in `PROJECT.json` quotes the lines.

| Run | What TLC finds |
| --- | --- |
| `pty_gate_stuck` | A rollback answered after its caller's one second leaves a running pane that refuses all input. A deferred handoff that drained the rollback's wake is one way to be that late. |
| `pairing_unreported` | The display says expired while a forced command enrolls. |
| `pairing_lost` | Two waiters break a dead holder's lock one after the other, both edit, and an enrolled key is lost. |
| `pairing_leftover` | A waiter gives up after 5 s, a dead holder's lock is stale after 10 s: the display cannot clean up. |
| `session_handoff` | The replacement server overwrites a session file that was never loaded. |

### Bounds

Every bound is a constant that a guard names.

- `PtyActor`: one write, two submissions (one of them with empty halves), a data channel of
  two, three handoff requests. Three requests give an abandoned one, its rollback and a
  new one in flight together; a channel of two gets full.
- `LiveHandoff`: three panes and a popup, two attempts, two faults. Loops over
  panes stop in the middle with panes on both sides; a second attempt follows a
  failed first one; one fault may hit the recovery from another.
- `Pairing`: two codes, two connections and two keys without crashes; one code, two
  connections and a crash for the liveness; two codes, a connection and a crash for the lost edit. The clock passes
  the expiry. One crash is enough for a stale lock; breaking it twice takes two waiters.
- `SessionWriter`: limits of two copies, so that pruning happens; one crash, one failing
  operation, one backward clock step, one handoff. Four jobs fill the directories
  beyond their limits.
- `SessionSave`: three panes, two changes, three interrupted panes, one failing write: a
  change before, inside or after a burst of exits, with a save running.
- `ApiServer`: a history of two events (512 in the code), so that eviction, and standing
  exactly before the oldest event, happen; two kinds of agent, one late answer. Seven
  lists of subscriptions or waits and six agent requests, each beside one to four handlers of the kinds that matter to
  it (`MCApiServer`). Agents are idle, working or done in the run; `blocked` and
  `unknown` are only in the proofs.

In the runs the limits of recovery copies are two (3 and 48 in the code); the proofs hold
for every limit from one.

Deadlock is not checked: all these systems may stop (a pane closes, a server
exits, a ceremony ends, a bound is used up).

### Fairness

- `PtyActor`: the actor's thread runs and its drain ends by its own deadline. Nothing is assumed of clients,
  the driver or the child.
- `LiveHandoff`: each process takes its next step. Every wait of the old server has a
  timeout in the code, which is one of its steps. The import server's reads have none; they end when the
  stream closes, and the code kills it on every failing path.
- `Pairing`: time passes and a started process goes on; a waiter's steps include
  giving up (`LOCK_TIMEOUT`). Nothing makes a device connect or a user cancel.
- `SessionSave`: the loop turns, wakes for its deadline, and the thread is scheduled.
- `ApiServer`: the main thread finishes the handler it is in and answers requests, the
  connection's thread goes on, and time passes. Nothing is assumed of agents, users
  or clients, nor that a prompt is ever typed: on Unix no timeout bounds it.
- `SessionWriter` has no liveness property.

## Proofs

Eight modules hold the theorems. They are for any sets of clients, panes,
processes, keys, layouts, agents and requests and for any bounds, from the named
assumptions on the constants, which TLC evaluates in the runs
(`ConstantsAssumption`, `HandoffAssumption`, `HubAssumption`, and so on).
TLC was run on every inductive invariant too, with the constants of its component's
run; those checks are not kept as runs of their own. An inductive invariant is a
conjunction of layers, and a layer is shown to be preserved given the ones below it;
Boolean variables have a layer of types of their own because the SMT backend
does not treat them well.

**PtyActor_proof**: `TypeCorrect`, `QuiesceIsClean`, `HeldIsQuiesced`,
`SecondDrainIsDead`, `BoundariesMatch`, `CallersAreToldTheTruth`, `InputIsConserved`,
`ExitLeavesNobodyWaiting`. Above the types (`Flags`, `Shapes`) come
`Protocol` and `Input`, where user bytes may be. That begin_handoff's Ok means
quiesced depends on which request an answer belongs to, so requests are
numbered: those in the control channel increase, exceed the one being served
and the deferred one (`Numbering`), at most one is a begin (`OneBegin`), and an
answer belongs to the last request with nothing behind it (`Answered`). An open
gate means no handoff anywhere (`GateOpen`), which is why no user byte can enter
while the actor drains. For the replies, `Boundaries` says that at most one
boundary chunk waits and that it is the submission in progress's, and `Once` that
a submission is in one place at a time (the channel, in progress, or over), so
that an Enter is written once and answered once (`Truth`). `InputIsConserved` compares
sequences: what was written, is queued, is owed as an Enter and is in the channel, joined,
against all that was accepted (`Balanced`). `Joined` is a recursive function over the
positions; that it exists, and what appending to a queue, taking its head or padding it with
terminal responses does to it (`JoinedAppend`, `JoinedTail`, `JoinedPadded`), is shown by taking a
least position where it fails (`Least`), which needs no induction
scheme. Each action then moves a piece across one of the joints, and concatenation is associative. For
`ExitLeavesNobodyWaiting`, an accepted submission is in the channel, in progress or
answered, and only `close_input_queue` ends the thread (`Accounted`).

**LiveHandoff_proof**: `TypeCorrect`, `OnlyOneReader`, `NoPaneIsLost`,
`ImplementsOwnership`, `SocketsAreTheOwners`, `MastersAreNotShared`,
`RepliesAreTrue`. `Protocol` ties the two programs together through the
stream: a "ready" on it means the import server is waiting for the commit or has
since died, and "committed" was written if and only if the old server is past
the point of return. `Panes` says which actors may be running in each phase and
that the import server holds every master from the moment it restores. `Ends`
says what each server has still to give back (duplicates, paused panes), and
`Sockets` who is behind each socket file in each phase. The refinement adds that
only the owner's actors run; each action is then a `Pause`, `Resume`,
`Transfer` or `Lose` of `PaneOwnership`, or a stutter.

**Pairing_proof**: `TypeCorrect`, `OnlyOneDevice`, `NothingOverwritten`,
`PairedIsAuthorised`, `ExitIsClean`, all under `HolderFails = FALSE`: the runs `pairing_lost` and
`pairing_leftover` show that they need it. Then the lock is never abandoned and whoever edits
holds it (`Exclusive`), so what is written was read under the same lock (`Buffers`). A pending record is
consumed once and for good (`Consumed`), a recorded key is written before the lock is
free (`Recorded`), and the display's last edit removes its line, which nobody brings back
(`Leaving`, `Withdrawn`).

**SessionWriter_proof**: `TypeCorrect`, `SessionIsWhole`,
`UnloadedStaysRecoverable`, `AckedStaysDurable`, `SnapshotsStayBounded`,
`PruneIsSafe`, `LongLivedIsSnapshotted`. `Dirs` ranks the copies of each
directory by their stamps: a new copy sorts after all others, and once it is
synced nothing of its directory is left unsynced. `Stage` says what each
step of a save has put on disk, `Protected` where a session that was not loaded is
safe (in `session.json` while the writer protects it, else among the durable backups), `Bounded`
counts the snapshots and `Aged` dates the newest one. That pruning leaves
enough rests on a counting lemma: the copies kept are those with fewer than the limit above them.
`UnloadedStaysRecoverable` speaks of histories without a handoff (the run
`session_handoff` shows why), and `PruneIsSafe` does not say that the backups left are the newer
ones in a step that spends a bound, such as a power loss.

**SessionSave_proof**: `TypeCorrect`, `ExitIsRight`, `CheckpointIsKept`,
`NewestWins`, `ChangesAreScheduled`. Jobs are numbered as they are captured, and a background save that
has not written is newer than the file (`Ordered`). No background save runs
beside a pending checkpoint, and the live layout is the wanted one unless a
checkpoint stands for it (`Standing`). `NothingForgotten` is inductive beside them: whoever changes the
layout sets the dirty flag or the deadline, and only a save of that layout takes them away.

**ApiInvariant_proof** and **ApiServer_proof**: `StreamHasNoGap`, `LossIsReal`,
`StreamGoesForward`, `TypeCorrect`, `NothingUntold`, for every length of the history. The retained events are the
end of the log (`History`); a subscription's position, its batch and what was delivered join without a gap
(`Place`, `Pending`, `Gap`); and what a sample shows is dated between what was
written before and what will be (`Times`). The first module states the invariant and
what the main thread's steps and the set-up of the subscriptions do to it, the
second adds the loop over the subscriptions and the theorems. `TypeCorrect` needs that the status of an
announced event is one of an agent, and that an answer is there when it is taken (`Types`). `NothingUntold`
adds that a subscription to all statuses never has an initial event
pending (`AnyNeverWaits`): then every value that a batch, a probe, a sample or a snapshot leaves for comparison is
either told at once or the last of what is to be written, and writing in order
keeps it the last.

**AgentWait_proof**: `SuccessWasSo`, `PromptsAreTakenUp`, `AgentHadLeft`. What a
handler has still to announce is of the agent that is there (`News`). Since the request began,
what the pane shows and what was answered was seen (`Seen`), and what the log
tells after the wait's place was so (`Told`). Up to the first event that ends the pinned
agent, all that is told is of it (`Pinned`): this is why a replacement does not
satisfy the wait, and why it may if its events were evicted unread. A prompt reaches its settled wait only
past the activity gate (`Gate`). `SuccessIsHonest` counts a status that
a handler was still announcing when the request came, since the wait may read that
event.

Only model-checked: the liveness properties, which are outside the prover's reach
(`ClosingAnswersAll`, `HandoffSettles`, `CeremonyEnds`, `EventuallySaved`, `LastIsTold`,
`WantedIsTold`, `WaitIsServed`, `WaitEnds`, `WantedEndsWait`). Every invariant, action property and refinement that a
passing run checks is also a theorem.

## What is abstracted, and what is not modelled

- `PtyActor`: resizes and direct controls are one action without content;
  output read from the PTY is dropped except for the responses it provokes.
- `LiveHandoff`: the manifest, screens and the batches of descriptors have no content;
  a wrong token or version is one way for the import server to fail.
- `Pairing`: a holder suspended for more than ten seconds is not distinguished from a
  crashed one. Key and code formats are left out.
- `SessionWriter`: an unlink by pruning is taken to be durable and to succeed; a symlinked
  session file's directory is the session's. One writer works at a time: the old server's background
  save overlapping the replacement's first save is listed as a hazard.
- `SessionSave`: the five-second debounce is a flag, so how long a deadline is
  pushed back is not measured.
- API: one connection and one pane; agents without names, so targets pinned by name are
  left out, as are the comparison of presentations, the empty subscription
  list, prompts without a wait or without text, invalid patterns and poisoned locks.
  A worktree's removal is an exit of its pane; process exits under full lifecycle hooks
  and releases of agents whose process a hook still owns are left out.
- Not modelled: the parts marked `not_modelled` in `PROJECT.json`, each with its
  reason; chiefly client streaming, the Windows actor,
  layout operations, restore, and the iOS, plugin, relay and glasses code.

The mapped lines are a small part of the repository, most of which is terminal
emulation, drawing, layout, configuration, application views and vendored code; the parts
modelled are those with concurrent actors, failures or files.

### Known weak spots of the code that no property promises away

- The release branch of an agent wait (`wait.rs:403`) and its status branch compare
  no labels: what is told of a predecessor can satisfy, or end, a wait that was
  pinned to its replacement in between. `SuccessIsHonest` excepts this (`swapped`).
- Agent waits read the history unchecked; evicted events are skipped (`missed`).
- Activity before the submission of a prompt can satisfy its activity gate.
- Looking at a done agent, and respawning a pane, change its status without an event;
  an untimed wait is not woken by it (`viewed`).
- `LastIsTold` speaks of changes after the probe that begins a subscription.

## Plan

1. Extend: client endpoint activation (`client/endpoint/activation.rs`); `ClientStream` (frame coalescing and
   back-pressure, `server/clients.rs`, `server/render_stream.rs`, `render_signal.rs`);
   the resize and control part of `PtyActor`; layout operations as
   pure operators with a reference definition; the plugin's activity state with
   concurrent hooks; the iOS `EventsSession` with reconnects.
2. Compose: two `SessionWriter`s on one directory during a handoff; `LiveHandoff`
   over `PtyActor`'s handles; `SessionSave` over `SessionWriter`.
3. Prove: the action properties of the parts still to be modelled, with their invariants.

Run `tlc -config <cfg> <module>` for a run of `PROJECT.json`, and `tlapm <module>`
for each of `PtyActor_proof`, `LiveHandoff_proof`, `Pairing_proof`,
`SessionWriter_proof`, `SessionSave_proof`, `ApiInvariant_proof`,
`ApiServer_proof` and `AgentWait_proof`.
