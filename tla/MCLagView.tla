----------------------------- MODULE MCLagView -----------------------------
(***************************************************************************)
(* Checks the join and both aggregated views of LagView over every         *)
(* GroupDescription snapshot built from the bounded sets of the cfg, in    *)
(* both view modes and both filter modes of the page.                      *)
(***************************************************************************)
EXTENDS LagView, FiniteSets, TLC

VARIABLES
    group,       \* the snapshot api.consumerGroups.get(groupId)
    viewMode,    \* GroupDetails.viewMode
    filterMode   \* GroupDetails.filterMode

vars == <<group, viewMode, filterMode>>

(***************************************************************************)
(* Every snapshot over the bounded sets: topics in any order, each with   *)
(* any (possibly empty) ascending list of partition offsets, and members  *)
(* in any order with any assignments.  Assignments may overlap or name    *)
(* partitions without an offset: the snapshot is not validated (spec 7).  *)
(***************************************************************************)
PartitionOffsetSeqs ==
    UNION {{LET ps == Sorted(P)
            IN [j \in 1..Len(ps) |-> [partitionId |-> ps[j], groupOffset |-> 0,
                                      lag |-> f[ps[j]]]]
            : f \in [P -> Lags]} : P \in SUBSET Partitions}

TopicOffsetSeqs ==
    UNION {{[i \in 1..Len(order) |-> [topic |-> order[i],
                                      partitionOffsets |-> pf[order[i]]]]
            : pf \in [ToSet(order) -> PartitionOffsetSeqs]}
           : order \in SetToAllKPermutations(Topics)}

AssignmentMaps ==
    UNION {[T -> SUBSET Partitions \ {{}}] : T \in SUBSET Topics}

MemberSeqs ==
    UNION {{[i \in 1..Len(order) |-> [id |-> order[i], assignments |-> af[order[i]]]]
            : af \in [ToSet(order) -> AssignmentMaps]}
           : order \in SetToAllKPermutations(Members)}

\* Lags with one below zero: an offset beyond a truncated log end (spec 9).
NegativeLags == {-1, 0, 1}

Groups == [topicOffsets : TopicOffsetSeqs, members : MemberSeqs]

Init ==
    /\ group \in Groups
    /\ viewMode = "topic"
    /\ filterMode = "showAll"

\* The "View" OptionGroup: onChange={(s) => (this.viewMode = s)}.
SetViewMode(s) ==
    /\ viewMode' = s
    /\ UNCHANGED <<group, filterMode>>

\* The "Filter" OptionGroup: onChange={(s) => (this.filterMode = s)}.
SetFilterMode(s) ==
    /\ filterMode' = s
    /\ UNCHANGED <<group, viewMode>>

Next ==
    \/ \E s \in {"topic", "member"} : SetViewMode(s)
    \/ \E s \in {"showAll", "withLag"} : SetFilterMode(s)

Spec == Init /\ [][Next]_vars

\* Members are interchangeable: no definition names a particular member.
MemberSymmetry == Permutations(Members)

\* The view the page renders in the current mode.
Shown ==
    IF viewMode = "member" THEN MemberView(group, filterMode = "withLag")
                           ELSE TopicView(group, filterMode = "withLag")

\* The rows of all entries of a view, and how many there are.
ViewRows(v) == UNION {ToSet(v.items[i].rows) : i \in DOMAIN v.items}
RowCount(v) == FoldLeft(LAMBDA acc, e : acc + Len(e.rows), 0, v.items)

\* The lag a row of either view shows.
RowLag(r) == IF "lag" \in DOMAIN r THEN r.lag ELSE r.partitionLag

\* The entry totals (lag and partition tags) without the table rows.
Totals(e) == [f \in DOMAIN e \ {"rows"} |-> e[f]]

(***************************************************************************)
(* The by-topic view shows exactly the joined records the filter keeps,   *)
(* each once and under its own topic, topics in ascending name order.  In *)
(* particular the filter hides only zero-lag partitions and an "all       *)
(* filtered" or "no data" result means nothing with lag exists.  About    *)
(* lagsFlat, groupInto/sort and removeAll in GroupByTopics.render.        *)
(***************************************************************************)
TopicViewRowsExact ==
    \A w \in BOOLEAN :
        LET v == TopicView(group, w)
            flat == LagsFlat(group)
            kept == SelectSeq(flat, LAMBDA r : ~w \/ r.lag # 0)
        IN /\ \A i \in 1..Len(v.items) - 1 : v.items[i].key < v.items[i + 1].key
           /\ \A i \in DOMAIN v.items :
                 \A j \in DOMAIN v.items[i].rows : v.items[i].rows[j].topicName = v.items[i].key
           /\ ViewRows(v) = ToSet(kept)
           /\ RowCount(v) = Len(kept)

(***************************************************************************)
(* Switching the filter to "With Lag" only removes table rows of zero lag *)
(* and entries left without rows: every entry still shown keeps the lag   *)
(* and partition totals it had unfiltered (spec 8), in both views.  About *)
(* the order of the totals and removeAll in GroupByTopics/GroupByMembers. *)
(***************************************************************************)
FilterKeepsTotals(vAll, vLag) ==
    /\ \A i \in DOMAIN vLag.items :
          \E k \in DOMAIN vAll.items : Totals(vAll.items[k]) = Totals(vLag.items[i])
    /\ \A k \in DOMAIN vAll.items :
          \/ \E i \in DOMAIN vLag.items : vLag.items[i].key = vAll.items[k].key
          \/ \A j \in DOMAIN vAll.items[k].rows : RowLag(vAll.items[k].rows[j]) = 0

FilterPreservesTotals ==
    /\ FilterKeepsTotals(TopicView(group, FALSE), TopicView(group, TRUE))
    /\ FilterKeepsTotals(MemberView(group, FALSE), MemberView(group, TRUE))

(***************************************************************************)
(* When no partition is assigned to two members (the data model's         *)
(* invariant), the by-member view and the by-topic view attribute the     *)
(* same lag to every member: a member's lag tag equals the summed lag of  *)
(* the by-topic rows whose assigned member it is.  The two views join the *)
(* same data in opposite directions (allAssignments.find in GroupByTopics, *)
(* topicLags.find in GroupByMembers).                                     *)
(***************************************************************************)
DisjointAssignments(g) ==
    \A i, j \in DOMAIN g.members : i # j =>
        \A t \in DOMAIN g.members[i].assignments \cap DOMAIN g.members[j].assignments :
            g.members[i].assignments[t] \cap g.members[j].assignments[t] = {}

MemberLag(v, m) ==
    IF \E i \in DOMAIN v.items : v.items[i].key = m
    THEN v.items[CHOOSE i \in DOMAIN v.items : v.items[i].key = m].lag
    ELSE 0

ViewsAgreeOnMemberLag ==
    DisjointAssignments(group) =>
        LET rows == ViewRows(TopicView(group, FALSE))
            mv == MemberView(group, FALSE)
        IN \A i \in DOMAIN group.members :
              LET m == group.members[i].id
              IN MemberLag(mv, m) =
                   MapThenSumSet(LAMBDA r : r.lag, {r \in rows : r.assignedMember = m})

(***************************************************************************)
(* spec 4.2: the "all filtered" marker carries a positive candidate count; *)
(* a group with no topics (members) reports "no data".  About the Empty   *)
(* branch of GroupByTopics.render and GroupByMembers.render.              *)
(***************************************************************************)
AllFilteredHasCandidates ==
    Shown.kind = "allFiltered" => Shown.count > 0

(***************************************************************************)
(* spec 4.2: the first entry is expanded by default exactly when it is    *)
(* the only entry that survives the filter.  About defaultExpand and      *)
(* defaultExpandIndex.                                                    *)
(***************************************************************************)
ExpandSoleSurvivor ==
    Shown.kind = "list" => (Shown.expand <=> Len(Shown.items) = 1)

(***************************************************************************)
(* When assignments are disjoint and name only partitions that have an    *)
(* offset, the statistics bar's "Assigned Partitions" equals the sum of   *)
(* the by-topic view's "assigned" tags: every assigned partition is one   *)
(* row with an assigned member (spec 8).  About totalPartitions in        *)
(* GroupDetails.render against partitionsAssigned of GroupByTopics, two   *)
(* counts of the same assignments taken from opposite sides of the join.  *)
(***************************************************************************)
AssignmentsHaveOffsets(g) ==
    \A i \in DOMAIN g.members : \A t \in DOMAIN g.members[i].assignments :
        \A p \in g.members[i].assignments[t] :
            \E k \in DOMAIN LagsFlat(g) : LagsFlat(g)[k].topicName = t /\ LagsFlat(g)[k].partitionId = p

AssignedStatisticMatchesTopicTags ==
    DisjointAssignments(group) /\ AssignmentsHaveOffsets(group) =>
        TotalPartitions(group) =
            FoldLeft(LAMBDA acc, e : acc + e.assigned, 0, TopicView(group, FALSE).items)
=============================================================================
