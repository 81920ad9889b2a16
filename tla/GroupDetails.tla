---------------------------- MODULE GroupDetails ----------------------------
(***************************************************************************)
(* The GroupDetails page component (Group.Details.tsx): its observable     *)
(* fields viewMode, filterMode, edittingOffsets, deletingMode and          *)
(* deletingOffsets, the handlers that change them, the Action Authorizer   *)
(* (cannot...Reason) that enables the buttons, and the snapshot of the     *)
(* group that api.refreshConsumerGroup replaces asynchronously.            *)
(*                                                                         *)
(* The views a handler reads come from LagView.  A staged offset is        *)
(* reduced to topicName, partitionId and offset; NoOffset stands for the   *)
(* undefined offset of a lagsFlat row passed where a GroupOffset is        *)
(* expected.  Features are read once per behaviour.                        *)
(***************************************************************************)
EXTENDS LagView, FiniteSets

CONSTANTS
    Snapshots,    \* the GroupDescriptions of the group
    Absent,       \* api.consumerGroups has no entry for the group
    Null,         \* the null of edittingOffsets / deletingOffsets
    NoOffset,     \* an undefined GroupOffset.offset
    MaxInflight   \* bound on outstanding refresh requests

ASSUME Absent \notin Snapshots /\ MaxInflight \in Nat \ {0}

VARIABLES
    group,            \* api.consumerGroups.get(groupId), or Absent
    features,         \* Features.patchGroup / deleteGroup / deleteGroupOffsets
    pageInit,         \* initPage has run
    inflight,         \* refresh requests not yet answered
    viewMode,
    filterMode,
    edittingOffsets,
    deletingMode,
    deletingOffsets

vars == <<group, features, pageInit, inflight, viewMode, filterMode,
          edittingOffsets, deletingMode, deletingOffsets>>

Features == [patchGroup : BOOLEAN, deleteGroup : BOOLEAN, deleteGroupOffsets : BOOLEAN]

(***************************************************************************)
(* Action Authorizer: the first applicable reason, or "allowed" for the   *)
(* undefined the functions return when none applies.                       *)
(***************************************************************************)
CannotEditGroupReason(g) ==
    CASE g.noEditPerms -> "noEditPerms"
      [] g.isInUse -> "inUse"
      [] ~features.patchGroup -> "unsupported"
      [] OTHER -> "allowed"

CannotDeleteGroupReason(g) ==
    CASE g.noDeletePerms -> "noDeletePerms"
      [] g.isInUse -> "inUse"
      [] ~features.deleteGroup -> "unsupported"
      [] OTHER -> "allowed"

CannotDeleteGroupOffsetsReason(g) ==
    CASE g.noEditPerms -> "noEditPerms"
      [] g.isInUse -> "inUse"
      [] ~features.deleteGroupOffsets -> "unsupported"
      [] OTHER -> "allowed"

\* render(): the page (and its modals) shows only when the group is loaded.
Rendered == group # Absent

\* A modal is open; it covers the page, whose buttons cannot be clicked.
ModalOpen == edittingOffsets # Null \/ deletingOffsets # Null

\* The by-topic view the page shows, and a row of it as a GroupOffset.
ShownTopics == IF Rendered THEN TopicView(group, filterMode = "withLag").items ELSE <<>>
AsGroupOffset(r) == [topicName |-> r.topicName, partitionId |-> r.partitionId, offset |-> NoOffset]
RowsAsGroupOffsets(rows) == [i \in DOMAIN rows |-> AsGroupOffset(rows[i])]

\* editGroup/deleteGroup: every (topic, partition) with its groupOffset.
GroupOffsets(g) ==
    FlattenSeq([i \in 1..Len(g.topicOffsets) |->
        LET to == g.topicOffsets[i]
        IN [j \in 1..Len(to.partitionOffsets) |->
              [topicName |-> to.topic, partitionId |-> to.partitionOffsets[j].partitionId,
               offset |-> to.partitionOffsets[j].groupOffset]]])

Init ==
    /\ group = Absent
    /\ features \in Features
    /\ pageInit = FALSE
    /\ inflight = 0
    /\ viewMode = "topic"
    /\ filterMode = "showAll"
    /\ edittingOffsets = Null
    /\ deletingMode = "group"
    /\ deletingOffsets = Null

UserStep == Rendered /\ ~ModalOpen

(***************************************************************************)
(* initPage: refreshData(true) and the global refresh callback.           *)
(***************************************************************************)
InitPage ==
    /\ ~pageInit
    /\ pageInit' = TRUE
    /\ inflight' = inflight + 1
    /\ UNCHANGED <<group, features, viewMode, filterMode, edittingOffsets,
                   deletingMode, deletingOffsets>>

\* appGlobal.onRefresh = () => this.refreshData(true).  The code puts no
\* limit on outstanding requests; MaxInflight is the model's bound on them.
RefreshData ==
    /\ pageInit
    /\ inflight < MaxInflight
    /\ inflight' = inflight + 1
    /\ UNCHANGED <<group, features, pageInit, viewMode, filterMode,
                   edittingOffsets, deletingMode, deletingOffsets>>

\* A refresh answers with the group's current description, or without it.
ReceiveGroup(s) ==
    /\ inflight > 0
    /\ inflight' = inflight - 1
    /\ group' = s
    /\ UNCHANGED <<features, pageInit, viewMode, filterMode, edittingOffsets,
                   deletingMode, deletingOffsets>>

SetViewMode(s) ==
    /\ UserStep
    /\ viewMode' = s
    /\ UNCHANGED <<group, features, pageInit, inflight, filterMode,
                   edittingOffsets, deletingMode, deletingOffsets>>

SetFilterMode(s) ==
    /\ UserStep
    /\ filterMode' = s
    /\ UNCHANGED <<group, features, pageInit, inflight, viewMode,
                   edittingOffsets, deletingMode, deletingOffsets>>

\* Fault variant of DeleteGroup: the mode is not reset to 'group'.
DeleteGroupKeepMode ==
    /\ UserStep
    /\ CannotDeleteGroupReason(group) = "allowed"
    /\ deletingOffsets' = GroupOffsets(group)
    /\ UNCHANGED <<group, features, pageInit, inflight, viewMode, filterMode,
                   edittingOffsets, deletingMode>>

EditGroup ==
    /\ UserStep
    /\ CannotEditGroupReason(group) = "allowed"
    /\ edittingOffsets' = GroupOffsets(group)
    /\ UNCHANGED <<group, features, pageInit, inflight, viewMode, filterMode,
                   deletingMode, deletingOffsets>>

DeleteGroup ==
    /\ UserStep
    /\ CannotDeleteGroupReason(group) = "allowed"
    /\ deletingOffsets' = GroupOffsets(group)
    /\ deletingMode' = "group"
    /\ UNCHANGED <<group, features, pageInit, inflight, viewMode, filterMode,
                   edittingOffsets>>

(***************************************************************************)
(* The pencil and trash icons of a topic heading and of a partition row   *)
(* in the by-topic view: onEditOffsets / onDeleteOffsets.                 *)
(***************************************************************************)
StageEdit(offsets) ==
    /\ UserStep
    /\ viewMode = "topic"
    /\ CannotEditGroupReason(group) = "allowed"
    /\ edittingOffsets' = offsets
    /\ UNCHANGED <<group, features, pageInit, inflight, viewMode, filterMode,
                   deletingMode, deletingOffsets>>

\* Fault variant of StageDelete: the topic and row trash icons disabled by
\* cannotDeleteGroupReason, the reason of the Delete Group button.
StageDeleteGroupReason(offsets, mode) ==
    /\ UserStep
    /\ viewMode = "topic"
    /\ CannotDeleteGroupReason(group) = "allowed"
    /\ deletingMode' = mode
    /\ deletingOffsets' = offsets
    /\ UNCHANGED <<group, features, pageInit, inflight, viewMode, filterMode,
                   edittingOffsets>>

StageDelete(offsets, mode) ==
    /\ UserStep
    /\ viewMode = "topic"
    /\ CannotDeleteGroupOffsetsReason(group) = "allowed"
    /\ deletingMode' = mode
    /\ deletingOffsets' = offsets
    /\ UNCHANGED <<group, features, pageInit, inflight, viewMode, filterMode,
                   edittingOffsets>>

EditTopic(i) == StageEdit(RowsAsGroupOffsets(ShownTopics[i].rows))
DeleteTopic(i) == StageDelete(RowsAsGroupOffsets(ShownTopics[i].rows), "topic")
EditPartition(i, j) == StageEdit(<<AsGroupOffset(ShownTopics[i].rows[j])>>)
DeletePartition(i, j) == StageDelete(<<AsGroupOffset(ShownTopics[i].rows[j])>>, "partition")

\* The modals' onClose.
CloseEditModal ==
    /\ Rendered
    /\ edittingOffsets # Null
    /\ edittingOffsets' = Null
    /\ UNCHANGED <<group, features, pageInit, inflight, viewMode, filterMode,
                   deletingMode, deletingOffsets>>

CloseDeleteModal ==
    /\ Rendered
    /\ deletingOffsets # Null
    /\ deletingOffsets' = Null
    /\ UNCHANGED <<group, features, pageInit, inflight, viewMode, filterMode,
                   edittingOffsets, deletingMode>>

Next ==
    \/ InitPage
    \/ RefreshData
    \/ \E s \in Snapshots \cup {Absent} : ReceiveGroup(s)
    \/ \E s \in {"topic", "member"} : SetViewMode(s)
    \/ \E s \in {"showAll", "withLag"} : SetFilterMode(s)
    \/ EditGroup
    \/ DeleteGroup
    \/ \E i \in 1..Len(ShownTopics) : EditTopic(i) \/ DeleteTopic(i)
    \/ \E i \in 1..Len(ShownTopics) : \E j \in 1..Len(ShownTopics[i].rows) :
          EditPartition(i, j) \/ DeletePartition(i, j)
    \/ CloseEditModal
    \/ CloseDeleteModal

Spec == Init /\ [][Next]_vars

----------------------------------------------------------------------------
(***************************************************************************)
(* Refinement of OffsetSelection.  A staged offset names a (topic,        *)
(* partition) pair; the delete selection's granularity is deletingMode,   *)
(* which is only meaningful while deletingOffsets is set.                 *)
(***************************************************************************)
Entries(offsets) == {<<offsets[i].topicName, offsets[i].partitionId>> : i \in DOMAIN offsets}

Sel == INSTANCE OffsetSelection
         WITH None <- Null,
              hideZeroLag <- filterMode = "withLag",
              editSel <- IF edittingOffsets = Null THEN Null
                         ELSE Entries(edittingOffsets),
              deleteSel <- IF deletingOffsets = Null THEN Null
                           ELSE [granularity |-> deletingMode,
                                 entries |-> Entries(deletingOffsets)]

NoEmptySelection ==
    /\ edittingOffsets # Null => edittingOffsets # <<>>
    /\ deletingOffsets # Null => deletingOffsets # <<>>

(***************************************************************************)
(* spec 7: an action the Authorizer gives a reason against does not       *)
(* execute.  While a modal is shown, the Authorizer of the current        *)
(* snapshot still allows what it would commit.  About render(), which     *)
(* passes this.edittingOffsets/deletingOffsets with the latest group to   *)
(* the modals and checks no cannot...Reason again: the reason was checked *)
(* only when the icon was clicked, before any later refresh.              *)
(***************************************************************************)
OpenSelectionAuthorized ==
    Rendered =>
        /\ edittingOffsets # Null => CannotEditGroupReason(group) = "allowed"
        /\ deletingOffsets # Null =>
              IF deletingMode = "group"
              THEN CannotDeleteGroupReason(group) = "allowed"
              ELSE CannotDeleteGroupOffsetsReason(group) = "allowed"
=============================================================================
