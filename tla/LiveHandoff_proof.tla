-------------------------- MODULE LiveHandoff_proof --------------------------
(* Proofs about the live handoff, for any sets of terminals and any bounds  *)
(* on attempts and faults: only one server reads a pane, no pane is lost    *)
(* while its owner lives, the handoff implements PaneOwnership, the public  *)
(* sockets follow the owner, and the caller is told what happened.          *)
EXTENDS LiveHandoff, TLAPS

\* A message is somewhere on a stream.
Says(s, m) == \E i \in 1 .. Len(s) : s[i] = m

\* Where the old server can no longer take the panes up again ...
After == {"release", "exiting", "exited", "crashed"}

\* ... and where it has every pane of the layout paused or given up.
Quiet == After \cup
  {"dup", "validate", "restored", "unlinkApi", "unlinkClient", "ready", "commit",
   "kill", "killRestore", "restoreApi", "restoreClient"}

\* Where the import server holds the masters, and where it has reported ready.
Holding == {"restore", "sockets", "bindClient", "commit", "owning", "running"}
Readied == {"commit", "owning", "running", "dead"}

\* The two programs and the stream between them.
Protocol ==
  /\ opc = "pause" => npc = "none" /\ toNew = <<>> /\ toOld = <<>>
  /\ Committed => opc \in After
  /\ opc \in After \ {"crashed"} => Committed
  /\ npc \in {"owning", "running"} => Committed
  /\ Says(toNew, "committed") => Committed
  /\ Says(toOld, "ready") => npc \in Readied
  /\ Committed \/ opc = "commit" => npc \in Readied

\* The panes, in each of the two servers.
Panes ==
  /\ \A t \in Terminals : newActor[t] = "running" => npc \in {"owning", "running"}
  /\ opc \in Quiet => \A t \in Attached : oldActor[t] # "running"
  /\ opc = "pause" => \A t \in Attached \ todo : oldActor[t] # "running"
  /\ \A t \in Attached : oldActor[t] = "closed" => Committed \/ opc = "crashed"
  /\ npc \in Holding => newFds = Attached
  /\ killed \cap Attached = {}

\* Where the old server undoes a failed handoff, and where no import server is.
Undoing == {"restoreApi", "restoreClient", "rollback"}
Alone == {"idle", "pause"} \cup Undoing

\* What each server has still to give back.
Ends ==
  /\ opc \in Alone => ~ImportAlive
  /\ ~ImportAlive => newFds = {}
  /\ dups # {} => opc \in {"dup", "validate", "restored", "kill"}
  /\ opc \notin After => \A t \in Attached : oldActor[t] # "running" =>
       opc # "idle" /\ t \in (IF opc \in Undoing THEN todo ELSE paused)
  /\ opc = "release" => \A t \in Attached \ todo : oldActor[t] = "closed"
  /\ opc \in {"exiting", "exited"} => \A t \in Attached : oldActor[t] = "closed"
  /\ reply = "ok" => Committed

\* Who is behind the public sockets.
Sockets ==
  /\ opc \in {"pause", "dup", "validate", "restored", "unlinkApi", "kill"} => api = "old"
  /\ opc \in {"pause", "dup", "validate", "restored", "unlinkApi", "unlinkClient", "kill"} =>
       client = "old"
  /\ opc = "unlinkClient" => api = "none"
  /\ opc = "restoreClient" => api = "old"
  /\ opc \in {"idle", "rollback"} =>
       IF reply = "noSockets" THEN api # "old" ELSE api = "old" /\ client = "old"
  /\ reply = "noSockets" => opc \in {"idle", "rollback", "crashed"}
  /\ npc \in {"bindClient", "commit", "owning", "running"} => api = "new"
  /\ npc \in {"commit", "owning", "running"} => client = "new"

IInv == TypeOK /\ Protocol /\ Panes /\ Ends /\ Sockets

-----------------------------------------------------------------------------
\* What appending a message to a stream puts on it.
LEMMA SaysAppend ==
  ASSUME NEW S, NEW s \in Seq(S), NEW n \in S, NEW m
  PROVE  Says(Append(s, n), m) => Says(s, m) \/ m = n
  <1>1. Len(Append(s, n)) = Len(s) + 1 /\ Len(s) \in Nat
    OBVIOUS
  <1>2. \A i \in 1 .. Len(s) + 1 :
          Append(s, n)[i] = IF i = Len(s) + 1 THEN n ELSE s[i]
    OBVIOUS
  <1>. QED
    BY <1>1, <1>2 DEF Says

\* Reading the head of a stream adds nothing to it, and the head was on it.
LEMMA SaysTail ==
  ASSUME NEW S, NEW s \in Seq(S), s # <<>>, NEW m
  PROVE  /\ Says(Tail(s), m) => Says(s, m)
         /\ Says(s, Head(s))
  <1>1. Len(s) \in Nat \ {0} /\ Len(Tail(s)) = Len(s) - 1 /\ Head(s) = s[1]
    OBVIOUS
  <1>2. \A i \in 1 .. Len(s) - 1 : Tail(s)[i] = s[i + 1] /\ i + 1 \in 1 .. Len(s)
    BY <1>1
  <1>. QED
    BY <1>1, <1>2 DEF Says

\* Nothing is on an empty stream.
LEMMA SaysEmpty ==
  ASSUME NEW m
  PROVE  ~Says(<<>>, m)
  BY DEF Says

-----------------------------------------------------------------------------
\* Every state of the handoff is well typed.
LEMMA TypeStep ==
  ASSUME TypeOK, [Next]_vars
  PROVE  TypeOK'
  <1>. USE HandoffAssumption DEF TypeOK, Terminals, Fault, importVars, streamVars, socketVars
  <1>1. CASE StartHandoff
    BY <1>1 DEF StartHandoff
  <1>2. ASSUME NEW t \in Terminals, PausePane(t)
        PROVE  TypeOK'
    BY <1>2 DEF PausePane
  <1>3. ASSUME NEW t \in Terminals, DuplicateFd(t)
        PROVE  TypeOK'
    BY <1>3 DEF DuplicateFd
  <1>4. ASSUME NEW t \in Terminals, RollbackPane(t) \/ ReleasePane(t)
        PROVE  TypeOK'
    BY SMTT(40), <1>4 DEF RollbackPane, ReleasePane
  <1>5. CASE PauseFails
    BY <1>5 DEF PauseFails
  <1>6. CASE SpawnImport
    BY <1>6 DEF SpawnImport
  <1>7. CASE SendManifest
    BY <1>7 DEF SendManifest, OldReads
  <1>8. CASE SendFds
    BY <1>8 DEF SendFds, OldReads
  <1>9. CASE CloseDuplicates
    BY <1>9 DEF CloseDuplicates, OldReads
  <1>10. CASE UnlinkApi \/ UnlinkClient
    BY <1>10 DEF UnlinkApi, UnlinkClient
  <1>11. CASE ReadReady
    BY <1>11 DEF ReadReady, OldReads
  <1>12. CASE OldWaitFails
    BY <1>12 DEF OldWaitFails
  <1>13. CASE ReportCommitted
    <2>1. CASE ImportAlive
      <3>1. toNew' = Append(toNew, "committed")
        BY <1>13, <2>1 DEF ReportCommitted
      <3>2. toNew' \in Seq({"manifest", "fds", "committed"})
        BY <3>1
      <3>3. /\ opc' = "release" /\ todo' = Terminals /\ commit' = "written"
            /\ UNCHANGED <<npc, newActor, newFds, killed, toOld, api, client, paused, dups,
                           oldActor, reply, attempts, faults>>
        BY <1>13, <2>1 DEF ReportCommitted
      <3>. QED
        BY <3>2, <3>3
    <2>2. CASE ~ImportAlive
      BY <1>13, <2>2 DEF ReportCommitted
    <2>. QED
      BY <2>1, <2>2
  <1>14. CASE KillImport
    BY <1>14 DEF KillImport
  <1>15. CASE RestoreApi
    BY <1>15 DEF RestoreApi, RestoreFails
  <1>16. CASE RestoreClient
    BY <1>16 DEF RestoreClient, RestoreFails
  <1>17. CASE HandoffFailed
    BY <1>17 DEF HandoffFailed
  <1>18. CASE HandoffSucceeded
    BY SMTT(40), <1>18 DEF HandoffSucceeded, OldReads
  <1>19. CASE OldExits
    BY <1>19 DEF OldExits
  <1>20. CASE OldCrashes
    BY <1>20 DEF OldCrashes
  <1>21. CASE Connect
    BY <1>21 DEF Connect, ImportSends, oldVars
  <1>22. CASE Validate
    BY <1>22 DEF Validate, ImportReads, ImportSends, oldVars
  <1>23. CASE ReceiveFds
    BY <1>23 DEF ReceiveFds, ImportReads, oldVars
  <1>24. CASE RestorePanes
    BY <1>24 DEF RestorePanes, ImportSends, oldVars
  <1>25. CASE BindApi
    BY <1>25 DEF BindApi, oldVars
  <1>26. CASE BindClient
    BY <1>26 DEF BindClient, ImportSends, oldVars
  <1>27. CASE AssumeOwnership
    BY <1>27 DEF AssumeOwnership, ImportReads, oldVars
  <1>28. ASSUME NEW t \in Terminals, Unpause(t)
         PROVE  TypeOK'
    BY <1>28 DEF Unpause, oldVars
  <1>29. CASE ReportOwned
    BY <1>29 DEF ReportOwned, oldVars
  <1>30. CASE ImportGivesUp
    BY <1>30 DEF ImportGivesUp, ImportGone, oldVars
  <1>31. CASE ImportFails
    BY <1>31 DEF ImportFails, ImportGone, oldVars
  <1>32. CASE ImportCrashes
    BY <1>32 DEF ImportCrashes, ImportGone, oldVars
  <1>33. CASE UNCHANGED vars
    BY <1>33 DEF vars
  <1>. QED
    BY <1>1, <1>2, <1>3, <1>4, <1>5, <1>6, <1>7, <1>8, <1>9, <1>10, <1>11, <1>12,
       <1>13, <1>14, <1>15, <1>16, <1>17, <1>18, <1>19, <1>20, <1>21, <1>22, <1>23,
       <1>24, <1>25, <1>26, <1>27, <1>28, <1>29, <1>30, <1>31, <1>32, <1>33
       DEF Next, OldStep, ImportStep

-----------------------------------------------------------------------------
\* The two programs keep to the protocol: "committed" is on the stream, or
\* acted on, only once the old server is past taking the panes back.
LEMMA ProtocolStep ==
  ASSUME TypeOK, Protocol, [Next]_vars
  PROVE  Protocol'
  <1>. USE SaysEmpty DEF Protocol, Committed, After, Readied
  <1>a. /\ toNew \in Seq({"manifest", "fds", "committed"})
        /\ toOld \in Seq({"token", "validated", "restored", "ready", "owned"})
    BY DEF TypeOK
  <1>b. ASSUME toNew # <<>>, NEW m
        PROVE  (Says(Tail(toNew), m) => Says(toNew, m)) /\ Says(toNew, Head(toNew))
    BY <1>a, <1>b, SaysTail
  <1>c. ASSUME toOld # <<>>, NEW m
        PROVE  (Says(Tail(toOld), m) => Says(toOld, m)) /\ Says(toOld, Head(toOld))
    BY <1>a, <1>c, SaysTail
  <1>d. ASSUME NEW n \in {"manifest", "fds", "committed"}, NEW m
        PROVE  Says(Append(toNew, n), m) => Says(toNew, m) \/ m = n
    BY <1>a, SaysAppend
  <1>e. ASSUME NEW n \in {"token", "validated", "restored", "ready", "owned"}, NEW m
        PROVE  Says(Append(toOld, n), m) => Says(toOld, m) \/ m = n
    BY <1>a, SaysAppend
  <1>. USE DEF importVars, streamVars, socketVars, oldVars
  <1>1. CASE StartHandoff
    BY <1>1 DEF StartHandoff
  <1>2. CASE PauseFails
    BY <1>2 DEF PauseFails
  <1>3. CASE SpawnImport
    BY <1>3 DEF SpawnImport
  <1>4. CASE SendManifest
    BY <1>4, <1>c, <1>d DEF SendManifest, OldReads
  <1>5. CASE SendFds
    BY <1>5, <1>c, <1>d DEF SendFds, OldReads
  <1>6. CASE CloseDuplicates
    BY <1>6, <1>c DEF CloseDuplicates, OldReads
  <1>7. CASE UnlinkApi
    BY <1>7 DEF UnlinkApi
  <1>8. CASE UnlinkClient
    BY <1>8 DEF UnlinkClient
  <1>9. CASE ReadReady
    BY <1>9, <1>c DEF ReadReady, OldReads
  <1>10. CASE OldWaitFails
    BY <1>10 DEF OldWaitFails
  <1>11. CASE ReportCommitted
    BY <1>11, <1>d DEF ReportCommitted, ImportAlive
  <1>12. CASE KillImport
    BY <1>12 DEF KillImport
  <1>13. CASE RestoreApi
    BY <1>13 DEF RestoreApi, RestoreFails
  <1>14. CASE RestoreClient
    BY <1>14 DEF RestoreClient, RestoreFails
  <1>15. CASE HandoffFailed
    BY <1>15 DEF HandoffFailed
  <1>16. CASE HandoffSucceeded
    BY <1>16, <1>c DEF HandoffSucceeded, OldReads
  <1>17. CASE OldExits
    BY <1>17 DEF OldExits
  <1>18. CASE OldCrashes
    BY <1>18 DEF OldCrashes
  <1>19. CASE Connect
    BY <1>19, <1>e DEF Connect, ImportSends
  <1>20. CASE Validate
    BY <1>20, <1>b, <1>e DEF Validate, ImportReads, ImportSends
  <1>21. CASE ReceiveFds
    BY <1>21, <1>b DEF ReceiveFds, ImportReads
  <1>22. CASE RestorePanes
    BY <1>22, <1>e DEF RestorePanes, ImportSends
  <1>23. CASE BindApi
    BY <1>23 DEF BindApi
  <1>24. CASE BindClient
    BY <1>24, <1>e DEF BindClient, ImportSends
  <1>25. CASE AssumeOwnership
    BY <1>25, <1>b DEF AssumeOwnership, ImportReads
  <1>26. CASE ReportOwned
    BY <1>26, <1>e DEF ReportOwned
  <1>27. CASE ImportGivesUp
    BY <1>27 DEF ImportGivesUp, ImportGone
  <1>28. CASE ImportFails
    BY <1>28 DEF ImportFails, ImportGone
  <1>29. CASE ImportCrashes
    BY <1>29 DEF ImportCrashes, ImportGone, ImportAlive
  <1>30. ASSUME NEW t \in Terminals,
               PausePane(t) \/ DuplicateFd(t) \/ RollbackPane(t) \/ ReleasePane(t) \/ Unpause(t)
         PROVE  Protocol'
    BY <1>30 DEF PausePane, DuplicateFd, RollbackPane, ReleasePane, Unpause
  <1>31. CASE UNCHANGED vars
    BY <1>31 DEF vars
  <1>. QED
    BY <1>1, <1>2, <1>3, <1>4, <1>5, <1>6, <1>7, <1>8, <1>9, <1>10, <1>11, <1>12,
       <1>13, <1>14, <1>15, <1>16, <1>17, <1>18, <1>19, <1>20, <1>21, <1>22, <1>23,
       <1>24, <1>25, <1>26, <1>27, <1>28, <1>29, <1>30, <1>31
       DEF Next, OldStep, ImportStep

-----------------------------------------------------------------------------
\* The old server's actors read only outside Quiet and the import server's
\* only as an owner; masters are given up only by a server that may.
LEMMA PanesStep ==
  ASSUME TypeOK, Protocol, Panes, [Next]_vars
  PROVE  Panes'
  <1>. USE DEF Panes, Protocol, Committed, After, Quiet, Holding, Terminals
  <1>a. /\ oldActor \in [Terminals -> {"running", "quiesced", "closed"}]
        /\ newActor \in [Terminals -> {"none", "quiesced", "running"}]
    BY DEF TypeOK
  <1>. USE <1>a DEF importVars, streamVars, socketVars, oldVars
  <1>1. CASE StartHandoff
    BY <1>1 DEF StartHandoff
  <1>2. CASE PauseFails
    BY <1>2 DEF PauseFails
  <1>3. CASE SpawnImport
    BY <1>3 DEF SpawnImport
  <1>4. CASE SendManifest
    BY <1>4 DEF SendManifest, OldReads
  <1>5. CASE SendFds
    BY <1>5 DEF SendFds, OldReads
  <1>6. CASE CloseDuplicates
    BY <1>6 DEF CloseDuplicates, OldReads
  <1>7. CASE UnlinkApi
    BY <1>7 DEF UnlinkApi
  <1>8. CASE UnlinkClient
    BY <1>8 DEF UnlinkClient
  <1>9. CASE ReadReady
    BY <1>9 DEF ReadReady, OldReads
  <1>10. CASE OldWaitFails
    BY <1>10 DEF OldWaitFails
  <1>11. CASE ReportCommitted
    BY <1>11 DEF ReportCommitted, ImportAlive
  <1>12. CASE KillImport
    BY <1>12 DEF KillImport
  <1>13. CASE RestoreApi
    BY <1>13 DEF RestoreApi, RestoreFails
  <1>14. CASE RestoreClient
    BY <1>14 DEF RestoreClient, RestoreFails
  <1>15. CASE HandoffFailed
    BY <1>15 DEF HandoffFailed
  <1>16. CASE HandoffSucceeded
    BY <1>16 DEF HandoffSucceeded, OldReads
  <1>17. CASE OldExits
    BY <1>17 DEF OldExits
  <1>18. CASE OldCrashes
    BY <1>18 DEF OldCrashes
  <1>19. CASE Connect
    BY <1>19 DEF Connect, ImportSends
  <1>20. CASE Validate
    BY <1>20 DEF Validate, ImportReads, ImportSends
  <1>21. CASE ReceiveFds
    BY <1>21 DEF ReceiveFds, ImportReads
  <1>22. CASE RestorePanes
    BY <1>22 DEF RestorePanes, ImportSends
  <1>23. CASE BindApi
    BY <1>23 DEF BindApi
  <1>24. CASE BindClient
    BY <1>24 DEF BindClient, ImportSends
  <1>25. CASE AssumeOwnership
    BY <1>25 DEF AssumeOwnership, ImportReads
  <1>26. CASE ReportOwned
    BY <1>26 DEF ReportOwned
  <1>27. CASE ImportGivesUp
    BY <1>27 DEF ImportGivesUp, ImportGone
  <1>28. CASE ImportFails
    BY <1>28 DEF ImportFails, ImportGone
  <1>29. CASE ImportCrashes
    BY <1>29 DEF ImportCrashes, ImportGone, ImportAlive
  <1>30. ASSUME NEW t \in Terminals, PausePane(t)
         PROVE  Panes'
    BY <1>30 DEF PausePane
  <1>31. ASSUME NEW t \in Terminals, DuplicateFd(t)
         PROVE  Panes'
    BY <1>31 DEF DuplicateFd
  <1>32. ASSUME NEW t \in Terminals, RollbackPane(t)
         PROVE  Panes'
    BY <1>32 DEF RollbackPane
  <1>33. ASSUME NEW t \in Terminals, ReleasePane(t)
         PROVE  Panes'
    BY <1>33 DEF ReleasePane
  <1>34. ASSUME NEW t \in Terminals, Unpause(t)
         PROVE  Panes'
    BY <1>34 DEF Unpause
  <1>35. CASE UNCHANGED vars
    BY <1>35 DEF vars
  <1>. QED
    BY <1>1, <1>2, <1>3, <1>4, <1>5, <1>6, <1>7, <1>8, <1>9, <1>10, <1>11, <1>12,
       <1>13, <1>14, <1>15, <1>16, <1>17, <1>18, <1>19, <1>20, <1>21, <1>22, <1>23,
       <1>24, <1>25, <1>26, <1>27, <1>28, <1>29, <1>30, <1>31, <1>32, <1>33, <1>34,
       <1>35
       DEF Next, OldStep, ImportStep

-----------------------------------------------------------------------------
\* Each path out of a handoff gives back what it took: the import server is
\* killed and its masters closed, the duplicates are closed, every paused pane
\* is rolled back or released.
LEMMA EndsStep ==
  ASSUME TypeOK, Protocol, Panes, Ends, [Next]_vars
  PROVE  Ends'
  <1>. USE DEF Ends, Protocol, Committed, After, Undoing, Alone, ImportAlive, Terminals, importVars, streamVars, socketVars, oldVars
  <1>a. oldActor \in [Terminals -> {"running", "quiesced", "closed"}]
    BY DEF TypeOK
  <1>. USE <1>a
  <1>1. CASE StartHandoff
    BY <1>1 DEF StartHandoff
  <1>2. CASE PauseFails \/ SpawnImport
    BY <1>2 DEF PauseFails, SpawnImport
  <1>3. CASE SendManifest \/ SendFds \/ CloseDuplicates \/ ReadReady
    BY <1>3 DEF SendManifest, SendFds, CloseDuplicates, ReadReady, OldReads
  <1>4. CASE UnlinkApi \/ UnlinkClient
    BY <1>4 DEF UnlinkApi, UnlinkClient
  <1>5. CASE OldWaitFails
    BY <1>5 DEF OldWaitFails
  <1>6. CASE ReportCommitted
    BY <1>6 DEF ReportCommitted
  <1>7. CASE KillImport
    BY <1>7 DEF KillImport
  <1>8. CASE RestoreApi
    BY <1>8 DEF RestoreApi, RestoreFails
  <1>9. CASE RestoreClient
    BY <1>9 DEF RestoreClient, RestoreFails
  <1>10. CASE HandoffFailed
    BY <1>10 DEF HandoffFailed
  <1>11. CASE HandoffSucceeded \/ OldExits
    BY <1>11 DEF HandoffSucceeded, OldReads, OldExits
  <1>12. CASE OldCrashes
    BY <1>12 DEF OldCrashes
  <1>13. CASE Connect \/ Validate \/ ReceiveFds \/ RestorePanes
    BY <1>13 DEF Connect, Validate, ReceiveFds, RestorePanes, ImportReads, ImportSends
  <1>14. CASE BindApi
    BY <1>14 DEF BindApi
  <1>15. CASE BindClient
    BY <1>15 DEF BindClient, ImportSends
  <1>16. CASE AssumeOwnership \/ ReportOwned
    BY <1>16 DEF AssumeOwnership, ReportOwned, ImportReads
  <1>17. CASE ImportGivesUp \/ ImportFails \/ ImportCrashes
    BY <1>17 DEF ImportGivesUp, ImportFails, ImportCrashes, ImportGone
  <1>18. ASSUME NEW t \in Terminals, PausePane(t)
        PROVE  Ends'
    BY <1>18 DEF PausePane
  <1>19. ASSUME NEW t \in Terminals, DuplicateFd(t)
        PROVE  Ends'
    BY <1>19 DEF DuplicateFd
  <1>20. ASSUME NEW t \in Terminals, RollbackPane(t)
        PROVE  Ends'
    BY <1>20 DEF RollbackPane
  <1>21. ASSUME NEW t \in Terminals, ReleasePane(t)
        PROVE  Ends'
    BY <1>21 DEF ReleasePane
  <1>22. ASSUME NEW t \in Terminals, Unpause(t)
        PROVE  Ends'
    BY <1>22 DEF Unpause
  <1>23. CASE UNCHANGED vars
    BY <1>23 DEF vars
  <1>. QED
    BY <1>1, <1>2, <1>3, <1>4, <1>5, <1>6, <1>7, <1>8, <1>9, <1>10, <1>11, <1>12,
       <1>13, <1>14, <1>15, <1>16, <1>17, <1>18, <1>19, <1>20, <1>21, <1>22, <1>23
       DEF Next, OldStep, ImportStep

\* The socket files: the old server has both until it unlinks them, the import
\* server binds them only when nobody is behind them, and each server removes or
\* binds again only what is its own or nobody's.
LEMMA SocketsStep ==
  ASSUME TypeOK, Protocol, Ends, Sockets, [Next]_vars
  PROVE  Sockets'
  <1>. USE DEF Sockets, Ends, Live, ImportAlive, OldAlive, Alone, Undoing, importVars, streamVars, socketVars, oldVars
  <1>a. api \in {"old", "new", "none"} /\ client \in {"old", "new", "none"}
    BY DEF TypeOK
  <1>. USE <1>a
  <1>1. CASE StartHandoff
    BY <1>1 DEF StartHandoff
  <1>2. CASE PauseFails \/ SpawnImport
    BY <1>2 DEF PauseFails, SpawnImport
  <1>3. CASE SendManifest \/ SendFds \/ CloseDuplicates \/ ReadReady
    BY <1>3 DEF SendManifest, SendFds, CloseDuplicates, ReadReady, OldReads
  <1>4. CASE UnlinkApi \/ UnlinkClient
    BY <1>4 DEF UnlinkApi, UnlinkClient
  <1>5. CASE OldWaitFails
    BY <1>5 DEF OldWaitFails
  <1>6. CASE ReportCommitted
    BY <1>6 DEF ReportCommitted
  <1>7. CASE KillImport
    BY <1>7 DEF KillImport
  <1>8. CASE RestoreApi
    BY <1>8 DEF RestoreApi, RestoreFails
  <1>9. CASE RestoreClient
    BY <1>9 DEF RestoreClient, RestoreFails
  <1>10. CASE HandoffFailed
    BY <1>10 DEF HandoffFailed
  <1>11. CASE HandoffSucceeded \/ OldExits
    BY <1>11 DEF HandoffSucceeded, OldReads, OldExits
  <1>12. CASE OldCrashes
    BY <1>12 DEF OldCrashes
  <1>13. CASE Connect \/ Validate \/ ReceiveFds \/ RestorePanes
    BY <1>13 DEF Connect, Validate, ReceiveFds, RestorePanes, ImportReads, ImportSends
  <1>14. CASE BindApi
    BY <1>14 DEF BindApi
  <1>15. CASE BindClient
    BY <1>15 DEF BindClient, ImportSends
  <1>16. CASE AssumeOwnership \/ ReportOwned
    BY <1>16 DEF AssumeOwnership, ReportOwned, ImportReads
  <1>17. CASE ImportGivesUp \/ ImportFails \/ ImportCrashes
    BY <1>17 DEF ImportGivesUp, ImportFails, ImportCrashes, ImportGone
  <1>18. ASSUME NEW t \in Terminals, PausePane(t)
        PROVE  Sockets'
    BY <1>18 DEF PausePane
  <1>19. ASSUME NEW t \in Terminals, DuplicateFd(t)
        PROVE  Sockets'
    BY <1>19 DEF DuplicateFd
  <1>20. ASSUME NEW t \in Terminals, RollbackPane(t)
        PROVE  Sockets'
    BY <1>20 DEF RollbackPane
  <1>21. ASSUME NEW t \in Terminals, ReleasePane(t)
        PROVE  Sockets'
    BY <1>21 DEF ReleasePane
  <1>22. ASSUME NEW t \in Terminals, Unpause(t)
        PROVE  Sockets'
    BY <1>22 DEF Unpause
  <1>23. CASE UNCHANGED vars
    BY <1>23 DEF vars
  <1>. QED
    BY <1>1, <1>2, <1>3, <1>4, <1>5, <1>6, <1>7, <1>8, <1>9, <1>10, <1>11, <1>12,
       <1>13, <1>14, <1>15, <1>16, <1>17, <1>18, <1>19, <1>20, <1>21, <1>22, <1>23
       DEF Next, OldStep, ImportStep

-----------------------------------------------------------------------------
\* The inductive invariant holds in every reachable state.
THEOREM Invariance == Spec => []IInv
  <1>1. Init => TypeOK /\ Protocol /\ Panes
    BY HandoffAssumption, SaysEmpty
    DEF Init, TypeOK, Protocol, Panes, Terminals, Committed, After, Quiet, Holding, Readied
  <1>2. Init => Ends /\ Sockets
    BY DEF Init, Ends, Sockets, ImportAlive, Terminals
  <1>3. Init => IInv
    BY <1>1, <1>2 DEF IInv
  <1>4. IInv /\ [Next]_vars => IInv'
    BY TypeStep, ProtocolStep, PanesStep, EndsStep, SocketsStep DEF IInv
  <1>. QED
    BY <1>3, <1>4, PTL DEF Spec

\* The state of the handoff is always well typed.
THEOREM TypeCorrect == Spec => []TypeOK
  BY Invariance, PTL DEF IInv

\* No pane is ever read by both servers, and the import server reads none
\* that the old server could still take back.
THEOREM OnlyOneReader == Spec => []OneReader
  <1>1. IInv => OneReader
    BY DEF IInv, Protocol, Panes, OneReader, Committed, After, Quiet, Terminals
  <1>. QED
    BY <1>1, Invariance, PTL

\* No pane of the layout loses its processes or its last open master while
\* the server that owns it lives.
THEOREM NoPaneIsLost == Spec => []PanesSurvive
  <1>1. IInv => PanesSurvive
    BY DEF IInv, Protocol, Panes, PanesSurvive, OwnerDied, Committed, After, Holding, Readied
  <1>. QED
    BY <1>1, Invariance, PTL

\* Whichever server is left in charge is behind both public sockets, unless the
\* old server said that it could not bind them again.
THEOREM SocketsAreTheOwners == Spec => []SocketsFollowOwner
  <1>1. IInv => SocketsFollowOwner
    BY DEF IInv, Sockets, SocketsFollowOwner
  <1>. QED
    BY <1>1, Invariance, PTL

\* Once a handoff has ended, on whichever path, no pane's master is open in both
\* processes and no duplicate is left.
THEOREM MastersAreNotShared == Spec => []OneMasterFd
  <1>1. IInv => OneMasterFd
    BY DEF IInv, Ends, OneMasterFd, Alone
  <1>. QED
    BY <1>1, Invariance, PTL

\* An error means that the old server reads every pane and nobody else is left;
\* a success, that the commit was written.
THEOREM RepliesAreTrue == Spec => []ReplyTellsOutcome
  <1>1. IInv => ReplyTellsOutcome
    BY DEF IInv, Protocol, Ends, ReplyTellsOutcome, Alone, After
  <1>. QED
    BY <1>1, Invariance, PTL

-----------------------------------------------------------------------------
\* What the invariant says of the abstract state: only the owner reads.
LEMMA OwnerReads ==
  ASSUME IInv
  PROVE  /\ Committed => \A t \in Attached : oldActor[t] # "running"
         /\ ~Committed => \A t \in Attached : newActor[t] # "running"
         /\ OwnerDied => \A t \in Attached : oldActor[t] # "running"
  BY DEF IInv, Protocol, Panes, Committed, After, Quiet, OwnerDied, Terminals

\* Every step of the handoff is a step of PaneOwnership, or changes neither
\* the owner nor the readers of any pane.
LEMMA OwnershipStep ==
  ASSUME IInv, IInv', [Next]_vars
  PROVE  [Ownership!Next]_<<Owner, Readers>>
  <1>. USE DEF importVars, streamVars, socketVars, oldVars
  <1>a. ASSUME UNCHANGED <<oldActor, newActor, commit>>, OwnerDied' <=> OwnerDied
        PROVE  UNCHANGED <<Owner, Readers>>
    BY <1>a DEF Owner, Readers, Committed
  <1>b. IInv => Protocol
    BY DEF IInv
  <1>. USE DEF Protocol, After
  <1>1. CASE StartHandoff
    BY <1>1, <1>a, <1>b DEF StartHandoff, OwnerDied, Committed
  <1>2. CASE PauseFails
    BY <1>2, <1>a, <1>b DEF PauseFails, OwnerDied, Committed
  <1>3. CASE SpawnImport
    BY <1>3, <1>a, <1>b DEF SpawnImport, OwnerDied, Committed
  <1>4. CASE SendManifest
    BY <1>4, <1>a, <1>b DEF SendManifest, OldReads, OwnerDied, Committed
  <1>5. CASE SendFds
    BY <1>5, <1>a, <1>b DEF SendFds, OldReads, OwnerDied, Committed
  <1>6. CASE CloseDuplicates
    BY <1>6, <1>a, <1>b DEF CloseDuplicates, OldReads, OwnerDied, Committed
  <1>7. CASE UnlinkApi
    BY <1>7, <1>a, <1>b DEF UnlinkApi, OwnerDied, Committed
  <1>8. CASE UnlinkClient
    BY <1>8, <1>a, <1>b DEF UnlinkClient, OwnerDied, Committed
  <1>9. CASE ReadReady
    BY <1>9, <1>a, <1>b DEF ReadReady, OldReads, OwnerDied, Committed
  <1>10. CASE OldWaitFails
    BY <1>10, <1>a, <1>b DEF OldWaitFails, OwnerDied, Committed
  <1>11. CASE RestoreApi
    BY <1>11, <1>a, <1>b DEF RestoreApi, RestoreFails, OwnerDied, Committed
  <1>12. CASE RestoreClient
    BY <1>12, <1>a, <1>b DEF RestoreClient, RestoreFails, OwnerDied, Committed
  <1>13. CASE HandoffFailed
    BY <1>13, <1>a, <1>b DEF HandoffFailed, OwnerDied, Committed
  <1>14. CASE HandoffSucceeded
    BY <1>14, <1>a, <1>b DEF HandoffSucceeded, OldReads, OwnerDied, Committed
  <1>15. CASE OldExits
    BY <1>15, <1>a, <1>b DEF OldExits, OwnerDied, Committed
  <1>16. CASE Connect
    BY <1>16, <1>a, <1>b DEF Connect, ImportSends, OwnerDied, Committed
  <1>17. CASE Validate
    BY <1>17, <1>a, <1>b DEF Validate, ImportReads, ImportSends, OwnerDied, Committed
  <1>18. CASE ReceiveFds
    BY <1>18, <1>a, <1>b DEF ReceiveFds, ImportReads, OwnerDied, Committed
  <1>19. CASE BindApi
    BY <1>19, <1>a, <1>b DEF BindApi, OwnerDied, Committed
  <1>20. CASE BindClient
    BY <1>20, <1>a, <1>b DEF BindClient, ImportSends, OwnerDied, Committed
  <1>21. CASE AssumeOwnership
    BY <1>21, <1>a, <1>b DEF AssumeOwnership, ImportReads, OwnerDied, Committed
  <1>22. CASE ReportOwned
    BY <1>22, <1>a, <1>b DEF ReportOwned, OwnerDied, Committed
  <1>c. ASSUME \A t \in Attached :
                 /\ oldActor'[t] = "running" <=> oldActor[t] = "running"
                 /\ newActor'[t] = "running" <=> newActor[t] = "running"
        PROVE  UNCHANGED Readers
    BY <1>c DEF Readers
  <1>d. /\ Committed => \A t \in Attached : oldActor[t] # "running"
        /\ ~Committed => \A t \in Attached : newActor[t] # "running"
    BY OwnerReads
  <1>e. ASSUME \A t \in Attached : oldActor'[t] # "running" /\ newActor'[t] # "running"
        PROVE  Readers' = [t \in Attached |-> {}]
    BY <1>e DEF Readers
  <1>23. CASE ReportCommitted
    <2>1. /\ opc = "commit" /\ ~Committed
          /\ UNCHANGED <<oldActor, newActor, npc>>
      BY <1>23, <1>b DEF ReportCommitted
    <2>2. UNCHANGED Readers
      BY <2>1, <1>c
    <2>3. CASE ImportAlive
      <3>1. opc' = "release" /\ Committed'
        BY <1>23, <2>3 DEF ReportCommitted, Committed
      <3>2. Owner = "old" /\ Owner' = "new"
        BY <2>1, <2>3, <3>1 DEF Owner, OwnerDied, ImportAlive
      <3>3. \A t \in Attached : Readers[t] = {}
        <4>1. \A t \in Attached : oldActor[t] # "running"
          BY <2>1 DEF IInv, Panes, Quiet
        <4>. QED
          BY <4>1, <2>1, <1>d DEF Readers
      <3>. QED
        BY <2>2, <3>2, <3>3 DEF Ownership!Next, Ownership!Transfer
    <2>4. CASE ~ImportAlive
      <3>1. opc' = "killRestore" /\ UNCHANGED commit
        BY <1>23, <2>4 DEF ReportCommitted
      <3>2. UNCHANGED Owner
        BY <2>1, <3>1 DEF Owner, OwnerDied, Committed
      <3>. QED
        BY <2>2, <3>2
    <2>. QED
      BY <2>3, <2>4
  <1>24. CASE KillImport
    <2>1. ~Committed /\ opc' # "crashed" /\ opc # "crashed" /\ UNCHANGED <<oldActor, commit>>
      BY <1>24, <1>b DEF KillImport
    <2>2. newActor' = [t \in Terminals |-> "none"]
      BY <1>24 DEF KillImport
    <2>3. UNCHANGED Owner
      BY <2>1 DEF Owner, OwnerDied, Committed
    <2>4. UNCHANGED Readers
      BY <2>1, <2>2, <1>c, <1>d DEF Terminals
    <2>. QED
      BY <2>3, <2>4
  <1>25. CASE OldCrashes
    <2>1. /\ opc' = "crashed" /\ opc # "crashed"
          /\ oldActor' = [t \in Terminals |-> "closed"]
          /\ UNCHANGED <<newActor, commit, npc>>
      BY <1>25 DEF OldCrashes
    <2>2. CASE Committed
      <3>1. UNCHANGED Owner
        BY <2>1, <2>2 DEF Owner, OwnerDied, Committed
      <3>2. UNCHANGED Readers
        BY <2>1, <2>2, <1>c, <1>d DEF Terminals
      <3>. QED
        BY <3>1, <3>2
    <2>3. CASE ~Committed
      <3>1. Owner' = "lost"
        BY <2>1, <2>3 DEF Owner, OwnerDied, Committed
      <3>2. Readers' = [t \in Attached |-> {}]
        BY <2>1, <2>3, <1>d, <1>e DEF Terminals
      <3>. QED
        BY <3>1, <3>2 DEF Ownership!Next, Ownership!Lose
    <2>. QED
      BY <2>2, <2>3
  <1>26. CASE RestorePanes
    <2>1. ~Committed /\ UNCHANGED <<oldActor, commit, opc>> /\ npc' = "sockets"
      BY <1>26, <1>b DEF RestorePanes, ImportSends, Readied
    <2>2. newActor' = [t \in Terminals |-> IF t \in newFds THEN "quiesced" ELSE "none"]
      BY <1>26 DEF RestorePanes
    <2>3. UNCHANGED Owner
      BY <2>1 DEF Owner, OwnerDied, Committed
    <2>4. UNCHANGED Readers
      BY <2>1, <2>2, <1>c, <1>d DEF Terminals
    <2>. QED
      BY <2>3, <2>4
  <1>27. CASE ImportGivesUp
    <2>1. npc' = "dead" /\ newActor' = [t \in Terminals |-> "none"] /\ UNCHANGED <<oldActor, commit, opc>>
      BY <1>27 DEF ImportGivesUp, ImportGone
    <2>2. CASE Committed
      <3>1. Owner' = "lost"
        BY <2>1, <2>2 DEF Owner, OwnerDied, Committed
      <3>2. Readers' = [t \in Attached |-> {}]
        BY <2>1, <2>2, <1>d, <1>e DEF Terminals
      <3>. QED
        BY <3>1, <3>2 DEF Ownership!Next, Ownership!Lose
    <2>3. CASE ~Committed
      <3>1. UNCHANGED Owner
        BY <2>1, <2>3 DEF Owner, OwnerDied, Committed
      <3>2. UNCHANGED Readers
        BY <2>1, <2>3, <1>c, <1>d DEF Terminals
      <3>. QED
        BY <3>1, <3>2
    <2>. QED
      BY <2>2, <2>3
  <1>28. CASE ImportFails
    <2>1. npc' = "dead" /\ newActor' = [t \in Terminals |-> "none"] /\ UNCHANGED <<oldActor, commit, opc>>
      BY <1>28 DEF ImportFails, ImportGone
    <2>2. CASE Committed
      <3>1. Owner' = "lost"
        BY <2>1, <2>2 DEF Owner, OwnerDied, Committed
      <3>2. Readers' = [t \in Attached |-> {}]
        BY <2>1, <2>2, <1>d, <1>e DEF Terminals
      <3>. QED
        BY <3>1, <3>2 DEF Ownership!Next, Ownership!Lose
    <2>3. CASE ~Committed
      <3>1. UNCHANGED Owner
        BY <2>1, <2>3 DEF Owner, OwnerDied, Committed
      <3>2. UNCHANGED Readers
        BY <2>1, <2>3, <1>c, <1>d DEF Terminals
      <3>. QED
        BY <3>1, <3>2
    <2>. QED
      BY <2>2, <2>3
  <1>29. CASE ImportCrashes
    <2>1. npc' = "dead" /\ newActor' = [t \in Terminals |-> "none"] /\ UNCHANGED <<oldActor, commit, opc>>
      BY <1>29 DEF ImportCrashes, ImportGone
    <2>2. CASE Committed
      <3>1. Owner' = "lost"
        BY <2>1, <2>2 DEF Owner, OwnerDied, Committed
      <3>2. Readers' = [t \in Attached |-> {}]
        BY <2>1, <2>2, <1>d, <1>e DEF Terminals
      <3>. QED
        BY <3>1, <3>2 DEF Ownership!Next, Ownership!Lose
    <2>3. CASE ~Committed
      <3>1. UNCHANGED Owner
        BY <2>1, <2>3 DEF Owner, OwnerDied, Committed
      <3>2. UNCHANGED Readers
        BY <2>1, <2>3, <1>c, <1>d DEF Terminals
      <3>. QED
        BY <3>1, <3>2
    <2>. QED
      BY <2>2, <2>3
  <1>f. /\ oldActor \in [Terminals -> {"running", "quiesced", "closed"}]
        /\ newActor \in [Terminals -> {"none", "quiesced", "running"}]
    BY DEF IInv, TypeOK
  <1>30. ASSUME NEW u \in Terminals, PausePane(u)
         PROVE  [Ownership!Next]_<<Owner, Readers>>
    <2>1. /\ opc = "pause" /\ opc' = "pause" /\ UNCHANGED <<commit, npc, newActor>>
          /\ oldActor' = [oldActor EXCEPT ![u] = "quiesced"]
      BY <1>30 DEF PausePane
    <2>2. ~Committed /\ Owner = "old" /\ Owner' = "old"
      BY <2>1, <1>b DEF Owner, OwnerDied, Committed
    <2>3. CASE u \in Attached /\ oldActor[u] = "running"
      <3>1. Readers[u] = {"old"} /\ Readers' = [Readers EXCEPT ![u] = {}]
        BY <2>1, <2>2, <2>3, <1>d, <1>f DEF Readers, Terminals
      <3>. QED
        BY <2>2, <2>3, <3>1 DEF Ownership!Next, Ownership!Pause
    <2>4. CASE ~(u \in Attached /\ oldActor[u] = "running")
      <3>1. UNCHANGED Readers
        BY <2>1, <2>4, <1>c, <1>f DEF Terminals
      <3>. QED
        BY <2>2, <3>1
    <2>. QED
      BY <2>3, <2>4
  <1>31. ASSUME NEW u \in Terminals, RollbackPane(u)
         PROVE  [Ownership!Next]_<<Owner, Readers>>
    <2>1. /\ opc = "rollback" /\ opc' = "rollback" /\ UNCHANGED <<commit, npc, newActor>>
          /\ oldActor' = [oldActor EXCEPT ![u] = "running"]
      BY <1>31 DEF RollbackPane
    <2>2. ~Committed /\ Owner = "old" /\ Owner' = "old"
      BY <2>1, <1>b DEF Owner, OwnerDied, Committed
    <2>3. CASE u \in Attached /\ oldActor[u] # "running"
      <3>1. Readers[u] = {} /\ Readers' = [Readers EXCEPT ![u] = {"old"}]
        BY <2>1, <2>2, <2>3, <1>d, <1>f DEF Readers, Terminals
      <3>. QED
        BY <2>2, <2>3, <3>1 DEF Ownership!Next, Ownership!Resume
    <2>4. CASE ~(u \in Attached /\ oldActor[u] # "running")
      <3>1. UNCHANGED Readers
        BY <2>1, <2>4, <1>c, <1>f DEF Terminals
      <3>. QED
        BY <2>2, <3>1
    <2>. QED
      BY <2>3, <2>4
  <1>32. ASSUME NEW u \in Terminals, Unpause(u)
         PROVE  [Ownership!Next]_<<Owner, Readers>>
    <2>1. /\ npc = "owning" /\ npc' = "owning" /\ UNCHANGED <<commit, opc, oldActor>>
          /\ newActor[u] = "quiesced"
          /\ newActor' = [newActor EXCEPT ![u] = "running"]
      BY <1>32 DEF Unpause
    <2>2. Committed /\ Owner = "new" /\ Owner' = "new"
      BY <2>1, <1>b DEF Owner, OwnerDied, Committed
    <2>3. CASE u \in Attached
      <3>1. Readers[u] = {} /\ Readers' = [Readers EXCEPT ![u] = {"new"}]
        BY <2>1, <2>2, <2>3, <1>d, <1>f DEF Readers, Terminals
      <3>. QED
        BY <2>2, <2>3, <3>1 DEF Ownership!Next, Ownership!Resume
    <2>4. CASE u \notin Attached
      <3>1. UNCHANGED Readers
        BY <2>1, <2>4, <1>c, <1>f DEF Terminals
      <3>. QED
        BY <2>2, <3>1
    <2>. QED
      BY <2>3, <2>4
  <1>33. ASSUME NEW u \in Terminals, ReleasePane(u)
         PROVE  [Ownership!Next]_<<Owner, Readers>>
    <2>1. /\ opc = "release" /\ opc' = "release" /\ UNCHANGED <<commit, npc, newActor>>
          /\ oldActor' = [oldActor EXCEPT ![u] = "closed"]
      BY <1>33 DEF ReleasePane
    <2>2. Committed /\ UNCHANGED Owner
      BY <2>1, <1>b DEF Owner, OwnerDied, Committed
    <2>3. UNCHANGED Readers
      BY <2>1, <2>2, <1>c, <1>d, <1>f DEF Terminals
    <2>. QED
      BY <2>2, <2>3
  <1>34. ASSUME NEW u \in Terminals, DuplicateFd(u)
         PROVE  [Ownership!Next]_<<Owner, Readers>>
    <2>1. /\ UNCHANGED <<oldActor, newActor, commit, npc>>
          /\ opc # "crashed" /\ opc' # "crashed"
      BY <1>34 DEF DuplicateFd
    <2>. QED
      BY <2>1, <1>a DEF OwnerDied, Committed
  <1>35. CASE UNCHANGED vars
    BY <1>35, <1>a DEF vars, OwnerDied, Committed
  <1>. QED
    BY <1>1, <1>2, <1>3, <1>4, <1>5, <1>6, <1>7, <1>8, <1>9, <1>10, <1>11, <1>12,
       <1>13, <1>14, <1>15, <1>16, <1>17, <1>18, <1>19, <1>20, <1>21, <1>22, <1>23,
       <1>24, <1>25, <1>26, <1>27, <1>28, <1>29, <1>30, <1>31, <1>32, <1>33, <1>34,
       <1>35
       DEF Next, OldStep, ImportStep

\* The live handoff implements single ownership of the panes, whatever fails:
\* only the owner reads a pane, and ownership passes in one step, the write of
\* "committed", while nobody reads.
THEOREM ImplementsOwnership == Spec => OwnershipSpec
  <1>1. Init => Ownership!Init
    BY DEF Init, Ownership!Init, Owner, Readers, OwnerDied, Committed, Terminals
  <1>2. IInv /\ IInv' /\ [Next]_vars => [Ownership!Next]_<<Owner, Readers>>
    BY OwnershipStep
  <1>. QED
    BY <1>1, <1>2, Invariance, PTL DEF Spec, OwnershipSpec, Ownership!Spec
==============================================================================
