--------------------------- MODULE OffsetSelection ---------------------------
(***************************************************************************)
(* What the Offset Selection State promises (spec 4.3, 4.4 and 7), stated *)
(* without the page: at most one selection for edit and one for delete,   *)
(* each staged from the snapshot current at the time, only when the       *)
(* Authorizer gives no reason against it, replaced by a later staging of  *)
(* the same kind and dropped by clear().  A selection is the set of the   *)
(* (topic, partition) pairs it names; a delete selection also carries its *)
(* granularity.  Snapshots are replaced by the Offset Repository at any   *)
(* time, and the user turns the "With Lag" filter on and off at any time. *)
(***************************************************************************)
EXTENDS FiniteSets

CONSTANTS
    Snapshots,   \* the GroupDescriptions the repository may hold
    Absent,      \* the repository holds no entry for the group
    None         \* no active selection

VARIABLES
    group,       \* the repository's current snapshot, or Absent
    features,    \* the cluster capabilities
    hideZeroLag, \* TRUE while the "With Lag" filter is on
    editSel,     \* the selection for edit, a set of <<topic, partition>>, or None
    deleteSel    \* [granularity, entries] of the selection for delete, or None

absVars == <<group, features, hideZeroLag, editSel, deleteSel>>

\* Every (topic, partition) pair of a snapshot, and those of one topic.
Parts(g) ==
    UNION {{<<g.topicOffsets[i].topic, po.partitionId>> :
              po \in {g.topicOffsets[i].partitionOffsets[j] :
                        j \in DOMAIN g.topicOffsets[i].partitionOffsets}}
           : i \in DOMAIN g.topicOffsets}
TopicParts(g, t) == {e \in Parts(g) : e[1] = t}

\* The partitions of topic t the "With Lag" filter can never hide.
LaggingParts(g, t) ==
    {e \in TopicParts(g, t) :
        \E i \in DOMAIN g.topicOffsets :
           /\ g.topicOffsets[i].topic = t
           /\ \E j \in DOMAIN g.topicOffsets[i].partitionOffsets :
                 /\ g.topicOffsets[i].partitionOffsets[j].partitionId = e[2]
                 /\ g.topicOffsets[i].partitionOffsets[j].lag # 0}

\* The partitions of topic t the list shows under the filter setting hide.
VisibleParts(g, t, hide) == IF hide THEN LaggingParts(g, t) ELSE TopicParts(g, t)

(***************************************************************************)
(* The selections spec 4.4 allows at each granularity: the whole group,   *)
(* filtered or not; exactly the partitions of one topic the list shows,   *)
(* when it shows any; one partition the list shows.                        *)
(***************************************************************************)
Valid(g, gran, E, hide) ==
    CASE gran = "group"     -> E = Parts(g)
      [] gran = "topic"     -> \E t \in {e[1] : e \in Parts(g)} :
                                  /\ E # {}
                                  /\ E = VisibleParts(g, t, hide)
      [] gran = "partition" -> \E e \in Parts(g) :
                                  /\ E = {e}
                                  /\ e \in VisibleParts(g, e[1], hide)

\* spec 4.3: an operation is allowed exactly when no reason applies.
MayEdit(g) == ~g.noEditPerms /\ ~g.isInUse /\ features.patchGroup
MayDeleteGroup(g) == ~g.noDeletePerms /\ ~g.isInUse /\ features.deleteGroup
MayDeleteOffsets(g) == ~g.noEditPerms /\ ~g.isInUse /\ features.deleteGroupOffsets

Init ==
    /\ group = Absent
    /\ features \in [patchGroup : BOOLEAN, deleteGroup : BOOLEAN,
                     deleteGroupOffsets : BOOLEAN]
    /\ hideZeroLag = FALSE
    /\ editSel = None
    /\ deleteSel = None

\* The repository replaces its snapshot; selections are not touched.
Refresh(s) ==
    /\ group' = s
    /\ UNCHANGED <<features, hideZeroLag, editSel, deleteSel>>

\* The user switches the filter; selections are not touched.
SetFilter(hide) ==
    /\ hideZeroLag' = hide
    /\ UNCHANGED <<group, features, editSel, deleteSel>>

StageForEdit(gran, E) ==
    /\ group # Absent
    /\ MayEdit(group)
    /\ Valid(group, gran, E, hideZeroLag)
    /\ editSel' = E
    /\ UNCHANGED <<group, features, hideZeroLag, deleteSel>>

StageForDelete(gran, E) ==
    /\ group # Absent
    /\ IF gran = "group" THEN MayDeleteGroup(group) ELSE MayDeleteOffsets(group)
    /\ Valid(group, gran, E, hideZeroLag)
    /\ deleteSel' = [granularity |-> gran, entries |-> E]
    /\ UNCHANGED <<group, features, hideZeroLag, editSel>>

ClearEdit ==
    /\ editSel # None
    /\ editSel' = None
    /\ UNCHANGED <<group, features, hideZeroLag, deleteSel>>

ClearDelete ==
    /\ deleteSel # None
    /\ deleteSel' = None
    /\ UNCHANGED <<group, features, hideZeroLag, editSel>>

Next ==
    \/ \E s \in Snapshots \cup {Absent} : Refresh(s)
    \/ \E hide \in BOOLEAN : SetFilter(hide)
    \/ /\ group # Absent
       /\ \E gran \in {"group", "topic", "partition"} :
             \E E \in SUBSET Parts(group) : StageForEdit(gran, E) \/ StageForDelete(gran, E)
    \/ ClearEdit
    \/ ClearDelete

Spec == Init /\ [][Next]_absVars
=============================================================================
