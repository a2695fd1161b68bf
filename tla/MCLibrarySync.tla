--------------------------- MODULE MCLibrarySync ---------------------------
(* Small instances of LibrarySync.                                         *)
EXTENDS LibrarySync, TLC

TwoSyncs == 1 .. 2
ThreeSyncs == 1 .. 3

\* All syncs are of one user.
SameUser == [s \in Syncs |-> CHOOSE u \in Users : TRUE]

\* Two syncs of user 1 and one of user 2.
TwoUsers == 1 .. 2
LastApart == <<1, 1, 2>>

EachKind == <<"page", "member", "added">>
OneRequest == <<"member", "page", "member">>
PageAndAdded == <<"page", "added">>

Symmetry == Permutations(Conns)

=============================================================================
