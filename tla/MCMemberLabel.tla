---------------------------- MODULE MCMemberLabel ----------------------------
(***************************************************************************)
(* Checks renderMergedID for every member whose id and client id are     *)
(* strings of at most MaxLen characters of Alphabet, as the by-member     *)
(* view's heading and as the by-topic view's "Assigned Member" cell.      *)
(***************************************************************************)
EXTENDS MemberLabel, Naturals

CONSTANTS
    Alphabet,   \* characters
    MaxLen      \* longest id or client id

VARIABLE member   \* a member of a GroupDescription: its id and client id

Strings == SeqOf(Alphabet, MaxLen)

\* A member always has an id; its client id may be empty.
Init == member \in [id : Strings \ {<<>>}, clientId : Strings]

\* The labels are a pure function of the snapshot; nothing changes them.
Next == UNCHANGED member

Spec == Init /\ [][Next]_member

\* Reference: clientId is a non-empty start of id, stated by concatenation.
StartsWith(id, clientId) ==
    clientId # <<>> /\ \E rest \in Strings : clientId \o rest = id

=============================================================================
