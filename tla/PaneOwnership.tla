---------------------------- MODULE PaneOwnership ----------------------------
(* What a live handoff promises about a set of panes: at any time one      *)
(* server owns them all, only the owner reads them, and ownership passes   *)
(* in a single step, while nobody reads.                                   *)
CONSTANT Panes

VARIABLES owner, readers

Init ==
  /\ owner = "old"
  /\ readers = [p \in Panes |-> {"old"}]

\* The owner stops reading a pane.
Pause(p) ==
  /\ readers[p] = {owner}
  /\ readers' = [readers EXCEPT ![p] = {}]
  /\ UNCHANGED owner

\* The owner starts reading a pane.
Resume(p) ==
  /\ owner \in {"old", "new"}
  /\ readers[p] = {}
  /\ readers' = [readers EXCEPT ![p] = {owner}]
  /\ UNCHANGED owner

Transfer ==
  /\ owner = "old" /\ owner' = "new"
  /\ \A p \in Panes : readers[p] = {}
  /\ UNCHANGED readers

\* The owner dies, and its panes with it.
Lose ==
  /\ owner' = "lost"
  /\ readers' = [p \in Panes |-> {}]

Next ==
  \/ \E p \in Panes : Pause(p) \/ Resume(p)
  \/ Transfer
  \/ Lose

Spec == Init /\ [][Next]_<<owner, readers>>
==============================================================================
