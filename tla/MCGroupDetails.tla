--------------------------- MODULE MCGroupDetails ---------------------------
(***************************************************************************)
(* A GroupDetails page over three snapshots of one group:                  *)
(*   Idle      two topics, no members; topic 1 has a lagging and a caught-  *)
(*             up partition, topic 2 one lagging partition;                 *)
(*   Consumed  the offsets of topic 1 advanced, member m1 consuming it and  *)
(*             the group in use;                                            *)
(*   Emptied   no committed offsets, no members;                            *)
(*   Restricted  Idle without the edit permission (delete is granted).      *)
(* Otherwise permissions are granted, so a button is enabled whenever the  *)
(* group is not in use and the cluster's features allow it.                *)
(***************************************************************************)
EXTENDS GroupDetails, TLC

PO(p, o, l) == [partitionId |-> p, groupOffset |-> o, lag |-> l]

Snapshot(inUse, tos, ms) ==
    [noEditPerms |-> FALSE, noDeletePerms |-> FALSE, isInUse |-> inUse,
     topicOffsets |-> tos, members |-> ms]

Idle ==
    Snapshot(FALSE,
             << [topic |-> 1, partitionOffsets |-> << PO(0, 3, 2), PO(1, 5, 0) >>],
                [topic |-> 2, partitionOffsets |-> << PO(0, 1, 1) >>] >>,
             << >>)

Consumed ==
    Snapshot(TRUE,
             << [topic |-> 1, partitionOffsets |-> << PO(0, 5, 0), PO(1, 5, 0) >>],
                [topic |-> 2, partitionOffsets |-> << PO(0, 1, 1) >>] >>,
             << [id |-> CHOOSE m \in Members : TRUE, assignments |-> (1 :> {0, 1})] >>)

Emptied == Snapshot(FALSE, << >>, << >>)

\* Idle, seen by a user without the edit permission.
Restricted == [Idle EXCEPT !.noEditPerms = TRUE]

MCSnapshots == {Idle, Consumed, Emptied, Restricted}
=============================================================================
