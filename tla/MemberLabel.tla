----------------------------- MODULE MemberLabel -----------------------------
(***************************************************************************)
(* How the page names a consumer-group member (Group.Details.tsx):        *)
(* renderMergedID(id, clientId), used for the heading of a member in the  *)
(* by-member view and for the "Assigned Member" cell of a partition row   *)
(* in the by-topic view.  An id is a sequence of characters, so that      *)
(* startsWith and substring are what they are in the code; the empty      *)
(* sequence is the empty (falsy) string.                                   *)
(***************************************************************************)
EXTENDS Sequences, SequencesExt

\* The label: a clientId span followed by a suffix span, one span holding
\* the client id, or null.
Blank == [kind |-> "null"]

RenderMergedID(id, clientId) ==
    IF clientId # <<>> /\ IsPrefix(clientId, id)
    THEN [kind |-> "merged", name |-> clientId,
          suffix |-> SubSeq(id, Len(clientId) + 1, Len(id))]
    ELSE IF clientId # <<>> THEN [kind |-> "clientId", name |-> clientId]
    ELSE Blank

\* The text a label shows: its spans one after the other.
LabelText(l) ==
    CASE l.kind = "merged"   -> l.name \o l.suffix
      [] l.kind = "clientId" -> l.name
      [] OTHER               -> <<>>

\* The "No assigned member" cell of a row without an assigned member.
NoAssignedMember == [kind |-> "unassigned"]

\* The "Assigned Member" column: renderMergedID of the row's member, if any.
AssignedMemberCell(r) ==
    IF r.assigned THEN RenderMergedID(r.id, r.clientId) ELSE NoAssignedMember

\* The heading of a member's entry in the by-member view.
MemberHeading(m) == RenderMergedID(m.id, m.clientId)
=============================================================================
