------------------------------ MODULE LagView ------------------------------
(***************************************************************************)
(* The Lag Join Engine and the View Aggregator of the consumer-group       *)
(* details page (Group.Details.tsx): the join of a group's partition       *)
(* offsets with its member assignments (lagsFlat in GroupByTopics.render), *)
(* the by-topic view (GroupByTopics.render) and the by-member view         *)
(* (GroupByMembers.render).  All operators are pure functions of one      *)
(* GroupDescription snapshot and of the "With Lag" filter flag.            *)
(*                                                                         *)
(* Data abstraction: a topic name is a natural number and the names are    *)
(* ordered by <, standing for localeCompare; a member is a model value;    *)
(* the JSX an entry renders is reduced to the numbers it shows (the lag    *)
(* and partition tags) and to the rows of its table.                       *)
(***************************************************************************)
EXTENDS Integers, Sequences, SequencesExt

CONSTANTS
    Topics,      \* topic names, ordered by <
    Partitions,  \* partition ids
    Members,     \* member ids
    Lags,        \* lag values the backend may report
    NoMember     \* the undefined assignedMember of an unassigned partition

ASSUME Topics \subseteq Nat /\ Partitions \subseteq Nat /\ Lags \subseteq Int
ASSUME NoMember \notin Members

(***************************************************************************)
(* The GroupDescription shape read by the page (restInterfaces).          *)
(* assignments of a member maps each assigned topic to its partitionIds.  *)
(***************************************************************************)
PartitionOffset == [partitionId : Partitions, groupOffset : Nat, lag : Lags]
TopicOffset == [topic : Topics, partitionOffsets : Seq(PartitionOffset)]
Member == [id : Members, assignments : UNION {[T -> SUBSET Partitions] : T \in SUBSET Topics}]

\* Sum of a numeric field over a sequence of records (Array.sum in tsxUtils).
SumOf(s, field) == FoldLeft(LAMBDA acc, r : acc + r[field], 0, s)

\* Ascending sequence of a finite set of names.
Sorted(S) == SetToSortSeq(S, <)

(***************************************************************************)
(* allAssignments: one entry per (member, assignment), members in order.  *)
(***************************************************************************)
AllAssignments(g) ==
    FlattenSeq([i \in 1..Len(g.members) |->
        LET m == g.members[i]
            ts == Sorted(DOMAIN m.assignments)
        IN [j \in 1..Len(ts) |-> [member |-> m.id, topicName |-> ts[j],
                                  partitions |-> m.assignments[ts[j]]]]])

\* Fault variant of AssignedMember: the find without its topic check.
AssignedMemberAnyTopic(g, t, p) ==
    LET as == AllAssignments(g)
        i == SelectInSeq(as, LAMBDA e : p \in e.partitions)
    IN IF i = 0 THEN NoMember ELSE as[i].member

\* allAssignments.find(...)?.member: the first assignment holding (t, p).
AssignedMember(g, t, p) ==
    LET as == AllAssignments(g)
        i == SelectInSeq(as, LAMBDA e : e.topicName = t /\ p \in e.partitions)
    IN IF i = 0 THEN NoMember ELSE as[i].member

(***************************************************************************)
(* lagsFlat: one joined record per partition offset, topics in the order  *)
(* of topicOffsets and partitions in the order of partitionOffsets.       *)
(***************************************************************************)
LagsFlat(g) ==
    FlattenSeq([i \in 1..Len(g.topicOffsets) |->
        LET to == g.topicOffsets[i]
        IN [j \in 1..Len(to.partitionOffsets) |->
              LET po == to.partitionOffsets[j]
              IN [topicName |-> to.topic, partitionId |-> po.partitionId,
                  groupOffset |-> po.groupOffset, lag |-> po.lag,
                  assignedMember |-> AssignedMember(g, to.topic, po.partitionId)]]])

\* Fault variant of LagGroupsByTopic: groups in order of first appearance,
\* without the sort by name.
LagGroupsByTopicUnsorted(g) ==
    LET flat == LagsFlat(g)
        ne == SelectSeq(g.topicOffsets, LAMBDA to : to.partitionOffsets # <<>>)
    IN [k \in DOMAIN ne |->
          [topicName |-> ne[k].topic,
           partitions |-> SelectSeq(flat, LAMBDA r : r.topicName = ne[k].topic)]]

(***************************************************************************)
(* lagGroupsByTopic: lagsFlat grouped by topic name, groups sorted by name.*)
(***************************************************************************)
LagGroupsByTopic(g) ==
    LET flat == LagsFlat(g)
        keys == Sorted({flat[i].topicName : i \in DOMAIN flat})
    IN [k \in 1..Len(keys) |->
          [topicName |-> keys[k],
           partitions |-> SelectSeq(flat, LAMBDA r : r.topicName = keys[k])]]

\* Fault variant of WithLagOnly: keeps only positive lags (e.lag > 0).
WithLagOnlyPositive(rows, field) == SelectSeq(rows, LAMBDA r : r[field] > 0)

\* The "With Lag" filter: removeAll((e) => e.lag === 0).
WithLagOnly(rows, field) == SelectSeq(rows, LAMBDA r : r[field] # 0)

\* Stands for the null an entry of the accordion list is mapped to.
NullEntry == [key |-> NoMember]

\* Fault variant of TopicEntry: the totals are taken after the filter.
TopicEntryTotalsAfterFilter(grp, withLag) ==
    LET rows == IF withLag THEN WithLagOnly(grp.partitions, "lag")
                           ELSE grp.partitions
    IN IF rows = <<>> THEN NullEntry
       ELSE [key |-> grp.topicName,
             lag |-> SumOf(rows, "lag"),
             assigned |-> Len(SelectSeq(rows, LAMBDA r : r.assignedMember # NoMember)),
             rows |-> rows]

(***************************************************************************)
(* topicEntries: the totals are taken before the filter; a topic whose    *)
(* rows are all filtered away becomes null.                               *)
(***************************************************************************)
TopicEntry(grp, withLag) ==
    LET rows == IF withLag THEN WithLagOnly(grp.partitions, "lag")
                           ELSE grp.partitions
    IN IF rows = <<>> THEN NullEntry
       ELSE [key |-> grp.topicName,
             lag |-> SumOf(grp.partitions, "lag"),
             assigned |-> Len(SelectSeq(grp.partitions,
                                        LAMBDA r : r.assignedMember # NoMember)),
             rows |-> rows]

(***************************************************************************)
(* The rendered result: an Empty with the "all N filtered" text (kind     *)
(* allFiltered, count N) or "No data found" (kind noData), or an Accordion *)
(* of the non-null entries whose first item is expanded when expand.      *)
(***************************************************************************)
ViewOf(entries, withLag, expand) ==
    LET shown == SelectSeq(entries, LAMBDA e : e # NullEntry)
    IN IF shown = <<>>
       THEN [kind |-> IF withLag THEN "allFiltered" ELSE "noData",
             count |-> Len(entries), items |-> <<>>, expand |-> FALSE]
       ELSE [kind |-> "list", count |-> Len(entries), items |-> shown,
             expand |-> expand]

TopicView(g, withLag) ==
    LET groups == LagGroupsByTopic(g)
    IN ViewOf([i \in DOMAIN groups |-> TopicEntry(groups[i], withLag)],
              withLag, Len(groups) = 1)

(***************************************************************************)
(* GroupByMembers: the lag of an assigned partition is looked up in       *)
(* topicOffsets (first topic, first partition found) and is 0 when absent.*)
(***************************************************************************)
PartLag(g, t, p) ==
    LET ti == SelectInSeq(g.topicOffsets, LAMBDA x : x.topic = t)
        pos == IF ti = 0 THEN <<>> ELSE g.topicOffsets[ti].partitionOffsets
        pi == SelectInSeq(pos, LAMBDA x : x.partitionId = p)
    IN IF pi = 0 THEN 0 ELSE pos[pi].lag

AssignmentsFlat(g, m) ==
    LET ts == Sorted(DOMAIN m.assignments)
    IN FlattenSeq([i \in 1..Len(ts) |->
          LET ps == Sorted(m.assignments[ts[i]])
          IN [j \in 1..Len(ps) |-> [topicName |-> ts[i], partitionId |-> ps[j],
                                    partitionLag |-> PartLag(g, ts[i], ps[j])]]])

MemberEntry(g, m, withLag) ==
    LET flat == AssignmentsFlat(g, m)
        rows == IF withLag THEN WithLagOnly(flat, "partitionLag")
                           ELSE flat
    IN IF rows = <<>> THEN NullEntry
       ELSE [key |-> m.id,
             lag |-> SumOf(flat, "partitionLag"),
             partitions |-> Len(flat),
             rows |-> rows]

MemberView(g, withLag) ==
    ViewOf([i \in 1..Len(g.members) |-> MemberEntry(g, g.members[i], withLag)],
           withLag, Len(g.members) = 1)
(***************************************************************************)
(* The statistics bar's "Assigned Partitions": the number of partition    *)
(* ids over all assignments of all members.                                *)
(***************************************************************************)
\* Fault variant of TotalPartitions: the partition ids of a member are
\* merged across topics before counting.
TotalPartitionsIgnoringTopic(g) ==
    FoldLeft(LAMBDA acc, m : acc + Cardinality(UNION Range(m.assignments)), 0, g.members)

TotalPartitions(g) ==
    FoldLeft(LAMBDA acc, m :
                 acc + MapThenSumSet(LAMBDA t : Cardinality(m.assignments[t]),
                                     DOMAIN m.assignments),
             0, g.members)
=============================================================================
