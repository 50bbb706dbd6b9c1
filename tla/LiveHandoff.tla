----------------------------- MODULE LiveHandoff -----------------------------
(* The live handoff of a running server's panes to a replacement process:  *)
(* perform_live_handoff in the old server, run_handoff_import_server in    *)
(* the import server it spawns, and the socket between them.               *)
(*                                                                         *)
(* The old server runs the handoff inside one API request, so it does      *)
(* nothing else meanwhile.  Either process may die, a wait may time out,   *)
(* and a system call may fail; Faults bounds how many of the injected      *)
(* failures happen (timeouts are free).  A pane's PTY actor is reduced to  *)
(* what PtyActor shows of it: begin_handoff leaves it quiesced or, having  *)
(* failed, running; a rollback leaves it running.                          *)
EXTENDS Naturals, Sequences, FiniteSets

CONSTANTS
  Attached,   \* terminals attached to a pane of a tab
  Loose,      \* other terminal runtimes (a popup's)
  Attempts,   \* bound on handoff requests
  Faults      \* bound on deaths and failed system calls

ASSUME HandoffAssumption ==
  /\ Attached \cap Loose = {}
  /\ Attempts \in Nat /\ Faults \in Nat

VARIABLES
  opc,        \* where perform_live_handoff is
  npc,        \* where run_handoff_import_server is
  todo,       \* terminals left in the loop the old server is in
  paused,     \* paused_terminal_ids
  dups,       \* terminals with a duplicated descriptor open in the old server
  oldActor,   \* the PTY actors of the old server
  newActor,   \* and those of the import server
  killed,     \* terminals whose processes a dropped runtime has shut down
  newFds,     \* terminals whose descriptor the import server holds
  toNew,      \* bytes on the handoff stream, in each direction
  toOld,
  api,        \* whose socket file is at the API path
  client,     \* and at the client path
  reply,      \* the answer to the API request
  commit,     \* whether "committed" has been written (history)
  attempts, faults

vars == <<opc, npc, todo, paused, dups, oldActor, newActor, killed,
          newFds, toNew, toOld, api, client, reply, commit, attempts, faults>>

Terminals == Attached \cup Loose

\* The import server exists and has not exited.
ImportAlive == npc \notin {"none", "dead"}
OldAlive == opc \notin {"exited", "crashed"}

\* The import server has been told that the panes are its own.
Committed == commit = "written"

\* A connection to the socket file would be accepted.
Live(file) == (file = "old" /\ OldAlive) \/ (file = "new" /\ ImportAlive)

Init ==
  /\ opc = "idle" /\ npc = "none"
  /\ todo = {} /\ paused = {} /\ dups = {}
  /\ oldActor = [t \in Terminals |-> "running"]
  /\ newActor = [t \in Terminals |-> "none"]
  /\ newFds = {} /\ killed = {}
  /\ toNew = <<>> /\ toOld = <<>>
  /\ api = "old" /\ client = "old"
  /\ reply = "none" /\ commit = "pending"
  /\ attempts = 0 /\ faults = 0

importVars == <<npc, newActor, newFds, killed>>
streamVars == <<toNew, toOld>>
socketVars == <<api, client>>
oldVars == <<opc, todo, paused, dups, oldActor, reply, commit, attempts>>

\* One of the bounded failures.
Fault == faults < Faults /\ faults' = faults + 1

-----------------------------------------------------------------------------
(* The old server, up to the commit.                                       *)

\* The request comes through the API socket.
StartHandoff ==
  /\ opc = "idle" /\ attempts < Attempts /\ Live(api)
  /\ attempts' = attempts + 1
  /\ opc' = "pause" /\ todo' = Attached
  /\ npc' = "none" /\ toNew' = <<>> /\ toOld' = <<>>
  /\ reply' = "none"
  /\ UNCHANGED <<paused, dups, oldActor, newActor, newFds, killed, socketVars, commit, faults>>

PausePane(t) ==
  /\ opc = "pause" /\ t \in todo
  /\ oldActor' = [oldActor EXCEPT ![t] = "quiesced"]
  /\ paused' = paused \cup {t}
  /\ todo' = todo \ {t}
  /\ UNCHANGED <<opc, dups, reply, commit, attempts, faults>>
  /\ UNCHANGED <<importVars, streamVars, socketVars>>

\* Mutant: the panes paused before the failing one are not rolled back.
PauseFailsOutright ==
  /\ opc = "pause" /\ todo # {}
  /\ opc' = "rollback" /\ todo' = {}
  /\ UNCHANGED <<paused, dups, oldActor, reply, commit, attempts, faults>>
  /\ UNCHANGED <<importVars, streamVars, socketVars>>

\* begin_handoff timed out or was refused, and put its actor back itself.
PauseFails ==
  /\ opc = "pause" /\ todo # {}
  /\ opc' = "rollback" /\ todo' = paused
  /\ UNCHANGED <<paused, dups, oldActor, reply, commit, attempts, faults>>
  /\ UNCHANGED <<importVars, streamVars, socketVars>>

SpawnImport ==
  /\ opc = "pause" /\ todo = {}
  /\ \/ npc' = "connect" /\ opc' = "dup" /\ todo' = Attached /\ UNCHANGED faults
     \/ Fault /\ opc' = "rollback" /\ todo' = paused /\ UNCHANGED npc
  /\ UNCHANGED <<paused, dups, oldActor, newActor, newFds, killed, reply, commit, attempts>>
  /\ UNCHANGED <<streamVars, socketVars>>

DuplicateFd(t) ==
  /\ opc = "dup" /\ t \in todo
  /\ \/ dups' = dups \cup {t} /\ todo' = todo \ {t} /\ UNCHANGED <<opc, faults>>
     \/ Fault /\ opc' = "kill" /\ UNCHANGED <<dups, todo>>
  /\ UNCHANGED <<paused, oldActor, reply, commit, attempts>>
  /\ UNCHANGED <<importVars, streamVars, socketVars>>

\* A line read from the stream; pc is where the old server waits for it.
OldReads(pc, line) ==
  /\ opc = pc
  /\ toOld # <<>> /\ Head(toOld) = line
  /\ toOld' = Tail(toOld)

\* accept_and_validate_on: the token, then the manifest.
SendManifest ==
  /\ todo = {} /\ OldReads("dup", "token")
  /\ toNew' = Append(toNew, "manifest")
  /\ opc' = "validate"
  /\ UNCHANGED <<todo, paused, dups, oldActor, reply, commit, attempts, faults>>
  /\ UNCHANGED <<importVars, socketVars>>

SendFds ==
  /\ OldReads("validate", "validated")
  /\ toNew' = Append(toNew, "fds")
  /\ opc' = "restored"
  /\ UNCHANGED <<todo, paused, dups, oldActor, reply, commit, attempts, faults>>
  /\ UNCHANGED <<importVars, socketVars>>

\* Mutant: the duplicates stay open.
CloseDuplicatesNever ==
  /\ OldReads("restored", "restored")
  /\ opc' = "unlinkApi"
  /\ UNCHANGED <<todo, paused, dups, oldActor, reply, commit, attempts, faults>>
  /\ UNCHANGED <<importVars, toNew, socketVars>>

\* The duplicates are closed once the import server has restored its panes.
CloseDuplicates ==
  /\ OldReads("restored", "restored")
  /\ dups' = {}
  /\ opc' = "unlinkApi"
  /\ UNCHANGED <<todo, paused, oldActor, reply, commit, attempts, faults>>
  /\ UNCHANGED <<importVars, toNew, socketVars>>

UnlinkApi ==
  /\ opc = "unlinkApi" /\ opc' = "unlinkClient"
  /\ api' = IF api = "old" THEN "none" ELSE api
  /\ UNCHANGED <<todo, paused, dups, oldActor, reply, commit, attempts, faults>>
  /\ UNCHANGED <<importVars, streamVars, client>>

UnlinkClient ==
  /\ opc = "unlinkClient" /\ opc' = "ready"
  /\ client' = IF client = "old" THEN "none" ELSE client
  /\ UNCHANGED <<todo, paused, dups, oldActor, reply, commit, attempts, faults>>
  /\ UNCHANGED <<importVars, streamVars, api>>

ReadReady ==
  /\ OldReads("ready", "ready")
  /\ opc' = "commit"
  /\ UNCHANGED <<todo, paused, dups, oldActor, reply, commit, attempts, faults>>
  /\ UNCHANGED <<importVars, toNew, socketVars>>

\* A wait ends without its line: a timeout, the end of the stream, or another
\* line.  From wait_ready on, the public sockets have to be restored.
OldWaitFails ==
  /\ \/ opc = "dup" /\ todo = {} /\ opc' = "kill"
     \/ opc \in {"validate", "restored"} /\ opc' = "kill"
     \/ opc = "ready" /\ opc' = "killRestore"
  /\ UNCHANGED <<todo, paused, dups, oldActor, reply, commit, attempts, faults>>
  /\ UNCHANGED <<importVars, streamVars, socketVars>>

\* Mutant: a failed write of the commit is taken for a success.
ReportCommittedBlindly ==
  /\ opc = "commit"
  /\ IF ImportAlive
       THEN /\ toNew' = Append(toNew, "committed")
            /\ commit' = "written"
            /\ opc' = "release" /\ todo' = Terminals
       ELSE /\ opc' = "release" /\ todo' = Terminals
            /\ UNCHANGED <<toNew, commit>>
  /\ UNCHANGED <<paused, dups, oldActor, reply, attempts, faults>>
  /\ UNCHANGED <<importVars, toOld, socketVars>>

\* report_committed: the write fails once the import server has closed.
ReportCommitted ==
  /\ opc = "commit"
  /\ IF ImportAlive
       THEN /\ toNew' = Append(toNew, "committed")
            /\ commit' = "written"
            /\ opc' = "release" /\ todo' = Terminals
       ELSE /\ opc' = "killRestore"
            /\ UNCHANGED <<toNew, commit, todo>>
  /\ UNCHANGED <<paused, dups, oldActor, reply, attempts, faults>>
  /\ UNCHANGED <<importVars, toOld, socketVars>>

-----------------------------------------------------------------------------
(* The old server, when the handoff fails.                                 *)

\* cleanup_failed_import_child kills the child and reaps it.
KillImport ==
  /\ opc \in {"kill", "killRestore"}
  /\ npc' = "dead" /\ newFds' = {}
  /\ newActor' = [t \in Terminals |-> "none"]
  /\ dups' = {}
  /\ opc' = IF opc = "kill" THEN "rollback" ELSE "restoreApi"
  /\ todo' = paused
  /\ UNCHANGED <<paused, oldActor, killed, reply, commit, attempts, faults>>
  /\ UNCHANGED <<streamVars, socketVars>>

\* The error will say that the old server could not restore its sockets.
RestoreFails == opc' = "rollback" /\ reply' = "noSockets"

\* wait_for_old_public_sockets_to_close, then the API server is started again.
RestoreApi ==
  /\ opc = "restoreApi"
  /\ ~Live(api) /\ ~Live(client)
  /\ \/ api' = "old" /\ opc' = "restoreClient" /\ UNCHANGED <<reply, faults>>
     \/ Fault /\ RestoreFails /\ UNCHANGED api
  /\ UNCHANGED <<todo, paused, dups, oldActor, commit, attempts>>
  /\ UNCHANGED <<importVars, streamVars, client>>

\* If the client socket cannot be bound, the new API server is dropped.
RestoreClient ==
  /\ opc = "restoreClient"
  /\ \/ client' = "old" /\ opc' = "rollback" /\ UNCHANGED <<api, reply, faults>>
     \/ Fault /\ RestoreFails /\ api' = "none" /\ UNCHANGED client
  /\ UNCHANGED <<todo, paused, dups, oldActor, commit, attempts>>
  /\ UNCHANGED <<importVars, streamVars>>

RollbackPane(t) ==
  /\ opc = "rollback" /\ t \in todo
  /\ oldActor' = [oldActor EXCEPT ![t] = "running"]
  /\ todo' = todo \ {t}
  /\ UNCHANGED <<opc, paused, dups, reply, commit, attempts, faults>>
  /\ UNCHANGED <<importVars, streamVars, socketVars>>

HandoffFailed ==
  /\ opc = "rollback" /\ todo = {}
  /\ opc' = "idle" /\ paused' = {}
  /\ reply' = IF reply = "noSockets" THEN reply ELSE "err"
  /\ UNCHANGED <<todo, dups, oldActor, commit, attempts, faults>>
  /\ UNCHANGED <<importVars, streamVars, socketVars>>

-----------------------------------------------------------------------------
(* The old server, after the commit.                                       *)

\* Mutant: the released runtime's actor takes up reading again.
ReleasePaneResuming(t) ==
  /\ opc = "release" /\ t \in todo
  /\ oldActor' = [oldActor EXCEPT ![t] = "running"]
  /\ killed' = IF t \in Attached THEN killed ELSE killed \cup {t}
  /\ todo' = todo \ {t}
  /\ UNCHANGED <<opc, paused, dups, reply, commit, attempts, faults>>
  /\ UNCHANGED <<npc, newActor, newFds, streamVars, socketVars>>

\* drain_for_handoff: attached runtimes are released and their processes
\* preserved; a loose one is dropped, which shuts its processes down.
ReleasePane(t) ==
  /\ opc = "release" /\ t \in todo
  /\ oldActor' = [oldActor EXCEPT ![t] = "closed"]
  /\ killed' = IF t \in Attached THEN killed ELSE killed \cup {t}
  /\ todo' = todo \ {t}
  /\ UNCHANGED <<opc, paused, dups, reply, commit, attempts, faults>>
  /\ UNCHANGED <<npc, newActor, newFds, streamVars, socketVars>>

\* Mutant: the acknowledgement is waited for without a timeout.
HandoffSucceededOnAck ==
  /\ opc = "release" /\ todo = {}
  /\ OldReads("release", "owned")
  /\ opc' = "exiting" /\ reply' = "ok"
  /\ UNCHANGED <<todo, paused, dups, oldActor, commit, attempts, faults>>
  /\ UNCHANGED <<importVars, toNew, socketVars>>

\* wait_owned_ack returns whether or not the acknowledgement comes.
HandoffSucceeded ==
  /\ opc = "release" /\ todo = {}
  /\ \/ OldReads("release", "owned")
     \/ UNCHANGED toOld
  /\ opc' = "exiting" /\ reply' = "ok"
  /\ UNCHANGED <<todo, paused, dups, oldActor, commit, attempts, faults>>
  /\ UNCHANGED <<importVars, toNew, socketVars>>

\* Mutant: the socket files are removed whoever bound them.
OldExitsUnlinking ==
  /\ opc = "exiting" /\ opc' = "exited"
  /\ api' = "none" /\ client' = "none"
  /\ UNCHANGED <<todo, paused, dups, oldActor, reply, commit, attempts, faults>>
  /\ UNCHANGED <<importVars, streamVars>>

\* complete_shutdown and the drops that follow: a socket file is removed only
\* if it is still the one this server bound.
OldExits ==
  /\ opc = "exiting" /\ opc' = "exited"
  /\ api' = IF api = "old" THEN "none" ELSE api
  /\ client' = IF client = "old" THEN "none" ELSE client
  /\ UNCHANGED <<todo, paused, dups, oldActor, reply, commit, attempts, faults>>
  /\ UNCHANGED <<importVars, streamVars>>

\* The old server dies in the middle of a handoff.
OldCrashes ==
  /\ opc \notin {"idle", "exited", "crashed"}
  /\ Fault
  /\ opc' = "crashed" /\ dups' = {}
  /\ oldActor' = [t \in Terminals |-> "closed"]
  /\ UNCHANGED <<todo, paused, reply, commit, attempts>>
  /\ UNCHANGED <<importVars, streamVars, socketVars>>

-----------------------------------------------------------------------------
(* The import server.                                                      *)

\* A line written by the import server at pc; the write fails once the old
\* server is gone.
ImportSends(pc, line) ==
  /\ npc = pc /\ OldAlive
  /\ toOld' = Append(toOld, line)

\* A message received by the import server at pc.
ImportReads(pc, message) ==
  /\ npc = pc
  /\ toNew # <<>> /\ Head(toNew) = message
  /\ toNew' = Tail(toNew)

Connect ==
  /\ ImportSends("connect", "token")
  /\ npc' = "manifest"
  /\ UNCHANGED <<newActor, newFds, killed, toNew, socketVars, oldVars, faults>>

\* receive: the manifest is of this version, is checked and acknowledged.
Validate ==
  /\ ImportReads("manifest", "manifest") /\ ImportSends("manifest", "validated")
  /\ npc' = "fds"
  /\ UNCHANGED <<newActor, newFds, killed, socketVars, oldVars, faults>>

\* recv_fds: from here on the import server holds the masters.
ReceiveFds ==
  /\ ImportReads("fds", "fds")
  /\ newFds' = Attached
  /\ npc' = "restore"
  /\ UNCHANGED <<newActor, killed, toOld, socketVars, oldVars, faults>>

\* Mutant: the imported actors start reading at once.
RestorePanesReading ==
  /\ ImportSends("restore", "restored")
  /\ newActor' = [t \in Terminals |-> IF t \in newFds THEN "running" ELSE "none"]
  /\ npc' = "sockets"
  /\ UNCHANGED <<newFds, killed, toNew, socketVars, oldVars, faults>>

\* new_from_handoff starts every pane's actor quiesced, with a runtime that
\* leaves the processes alone when it is dropped.
RestorePanes ==
  /\ ImportSends("restore", "restored")
  /\ newActor' = [t \in Terminals |-> IF t \in newFds THEN "quiesced" ELSE "none"]
  /\ npc' = "sockets"
  /\ UNCHANGED <<newFds, killed, toNew, socketVars, oldVars, faults>>

\* wait_for_old_public_sockets_to_close, then the API server binds its path.
BindApi ==
  /\ npc = "sockets"
  /\ ~Live(api) /\ ~Live(client)
  /\ api' = "new"
  /\ npc' = "bindClient"
  /\ UNCHANGED <<newActor, newFds, killed, streamVars, client, oldVars, faults>>

\* HeadlessServer::new binds the client path; the server reports ready.
BindClient ==
  /\ ImportSends("bindClient", "ready")
  /\ client' = "new"
  /\ npc' = "commit"
  /\ UNCHANGED <<newActor, newFds, killed, toNew, api, oldVars, faults>>

\* wait_committed, then assume_handoff_ownership.
AssumeOwnership ==
  /\ ImportReads("commit", "committed")
  /\ npc' = "owning"
  /\ UNCHANGED <<newActor, newFds, killed, toOld, socketVars, oldVars, faults>>

\* unpause_handoff_readers, one pane at a time.
Unpause(t) ==
  /\ npc = "owning" /\ newActor[t] = "quiesced"
  /\ newActor' = [newActor EXCEPT ![t] = "running"]
  /\ UNCHANGED <<npc, newFds, killed, streamVars, socketVars, oldVars, faults>>

\* A report_owned that fails is only logged.
ReportOwned ==
  /\ npc = "owning" /\ \A t \in newFds : newActor[t] = "running"
  /\ toOld' = IF OldAlive THEN Append(toOld, "owned") ELSE toOld
  /\ npc' = "running"
  /\ UNCHANGED <<newActor, newFds, killed, toNew, socketVars, oldVars, faults>>

\* What the death of the import server leaves behind.
ImportGone ==
  /\ npc' = "dead" /\ newFds' = {}
  /\ newActor' = [t \in Terminals |-> "none"]
  /\ UNCHANGED <<streamVars, oldVars>>

\* An error returned before ownership: the stream is closed or a wait times
\* out.  The servers and runtimes are dropped, removing the sockets they bound
\* and leaving the processes alone.
ImportGivesUp ==
  /\ \/ npc \in {"connect", "manifest", "fds", "restore", "bindClient"} /\ ~OldAlive
     \/ npc \in {"sockets", "commit"}
  /\ api' = IF api = "new" THEN "none" ELSE api
  /\ client' = IF client = "new" THEN "none" ELSE client
  /\ ImportGone
  /\ UNCHANGED <<killed, faults>>

\* A failed step before ownership returns the same way ...
ImportFails ==
  /\ npc \in {"connect", "manifest", "fds", "restore", "sockets", "bindClient"}
  /\ Fault
  /\ api' = IF api = "new" THEN "none" ELSE api
  /\ client' = IF client = "new" THEN "none" ELSE client
  /\ ImportGone
  /\ UNCHANGED killed

\* ... and a crash leaves the socket files where they are.
ImportCrashes ==
  /\ ImportAlive /\ npc # "running"
  /\ Fault
  /\ ImportGone
  /\ UNCHANGED <<killed, socketVars>>

-----------------------------------------------------------------------------
OldStep ==
  \/ StartHandoff
  \/ \E t \in Terminals :
       PausePane(t) \/ DuplicateFd(t) \/ RollbackPane(t) \/ ReleasePane(t)
  \/ PauseFails \/ SpawnImport \/ SendManifest \/ SendFds \/ CloseDuplicates
  \/ UnlinkApi \/ UnlinkClient \/ ReadReady \/ OldWaitFails \/ ReportCommitted
  \/ KillImport \/ RestoreApi \/ RestoreClient \/ HandoffFailed
  \/ HandoffSucceeded \/ OldExits

ImportStep ==
  \/ Connect \/ Validate \/ ReceiveFds \/ RestorePanes \/ BindApi \/ BindClient
  \/ AssumeOwnership \/ ReportOwned
  \/ \E t \in Terminals : Unpause(t)
  \/ ImportGivesUp

Next == OldStep \/ ImportStep \/ OldCrashes \/ ImportFails \/ ImportCrashes

Spec == Init /\ [][Next]_vars

\* Each process takes its next step, if only the one a timeout brings.
FairSpec == Spec /\ WF_vars(OldStep) /\ WF_vars(ImportStep)

-----------------------------------------------------------------------------
(* Properties.                                                             *)

\* Every variable keeps its type.
TypeOK ==
  /\ opc \in {"idle", "pause", "dup", "validate", "restored", "unlinkApi",
              "unlinkClient", "ready", "commit", "release", "exiting", "exited",
              "kill", "killRestore", "restoreApi", "restoreClient", "rollback",
              "crashed"}
  /\ npc \in {"none", "connect", "manifest", "fds", "restore", "sockets",
              "bindClient", "commit", "owning", "running", "dead"}
  /\ todo \subseteq Terminals /\ paused \subseteq Terminals /\ dups \subseteq Terminals
  /\ oldActor \in [Terminals -> {"running", "quiesced", "closed"}]
  /\ newActor \in [Terminals -> {"none", "quiesced", "running"}]
  /\ newFds \subseteq Attached /\ killed \subseteq Terminals
  /\ toNew \in Seq({"manifest", "fds", "committed"})
  /\ toOld \in Seq({"token", "validated", "restored", "ready", "owned"})
  /\ api \in {"old", "new", "none"} /\ client \in {"old", "new", "none"}
  /\ reply \in {"none", "ok", "err", "noSockets"}
  /\ commit \in {"pending", "written"}
  /\ attempts \in 0 .. Attempts /\ faults \in 0 .. Faults

\* Output is read by at most one of the two servers, and the import server
\* reads only what the old one can no longer take back: it unpauses its
\* readers after wait_committed, and no rollback follows report_committed.
OneReader ==
  \A t \in Attached : newActor[t] = "running" =>
    /\ oldActor[t] # "running"
    /\ opc \in {"release", "exiting", "exited", "crashed"}

\* The server that owns the panes has died: before the commit the old one,
\* after it the import server.
OwnerDied == (opc = "crashed" /\ ~Committed) \/ (npc = "dead" /\ Committed)

\* A pane of the layout keeps its processes and an open master unless the
\* server that owns it died, through every failure that perform_live_handoff
\* rolls back and every error run_handoff_import_server returns.
PanesSurvive ==
  \/ OwnerDied
  \/ \A t \in Attached :
       /\ t \notin killed
       /\ \/ oldActor[t] # "closed"
          \/ t \in newFds

\* Whichever server is left in charge is the one behind both public sockets,
\* unless the old server said that it could not bind them again: the exit of
\* either server removes no socket file of the other's.
SocketsFollowOwner ==
  /\ npc = "running" => api = "new" /\ client = "new"
  /\ opc = "idle" /\ reply # "noSockets" => api = "old" /\ client = "old"

\* Once a handoff has ended, each pane's master is open in one process only:
\* perform_live_handoff closes its duplicates on every path.
OneMasterFd ==
  opc \in {"idle", "exited"} =>
    /\ dups = {}
    /\ \A t \in Attached : oldActor[t] # "closed" => t \notin newFds

\* A request answered with an error leaves the old server reading every pane
\* and no import server alive; one is answered with success only after the
\* commit was written.
ReplyTellsOutcome ==
  /\ opc = "idle" /\ reply # "none" => ~Committed /\ ~ImportAlive
                      /\ \A t \in Attached : oldActor[t] = "running"
  /\ reply = "ok" => Committed

\* The panes are all read by one server, or their owner died.
Settled ==
  \/ opc = "idle" /\ ~ImportAlive /\ \A t \in Attached : oldActor[t] = "running"
  \/ npc = "running" /\ \A t \in Attached : newActor[t] = "running"
  \/ opc = "crashed" /\ ~Committed /\ ~ImportAlive
  \/ npc = "dead" /\ Committed /\ opc \in {"exited", "crashed"}

\* Every handoff settles: no failure, timeout or death leaves the two servers
\* waiting for each other or the panes paused for good.
HandoffSettles == []<>Settled

\* The owner of the panes, and the servers that read each of them.
Owner == IF OwnerDied THEN "lost" ELSE IF Committed THEN "new" ELSE "old"
Readers ==
  [t \in Attached |-> (IF oldActor[t] = "running" THEN {"old"} ELSE {})
                      \cup (IF newActor[t] = "running" THEN {"new"} ELSE {})]

Ownership == INSTANCE PaneOwnership WITH Panes <- Attached, owner <- Owner, readers <- Readers

\* The handoff implements single ownership: only the owner reads, and the
\* write of "committed" is the one step that passes the panes on.
OwnershipSpec == Ownership!Spec
==============================================================================
