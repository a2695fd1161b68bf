--------------------------- MODULE MCSharedGames ---------------------------
(* Small instances of SharedGames.                                         *)
EXTENDS SharedGames, TLC

CONSTANTS s1, s2, p1

\* Two friends and what they own; games 1 and 2 are in both libraries.
MCUsers == 1 .. 2
MCLibrary == <<<<2, 1, 3>>, <<1, 2>>>>
MCDetails == [g \in 1 .. 3 |-> IF g = 1 THEN "multiplayer" ELSE "other"]

\* One sync of each.
MCUserOf == (s1 :> 1) @@ (s2 :> 2)

\* "Get shared games" of user 1 with user 2, who is named twice and whose sync it
\* waits for; the sync of user 1 is another request's.
MCGroup == p1 :> <<1, 2, 2>>
MCAwaited == p1 :> {s2}

=============================================================================
