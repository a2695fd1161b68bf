----------------------------- MODULE SharedGames -----------------------------
(***************************************************************************)
(* The shared games of a group, computed beside running syncs              *)
(* (internal/view/party_games.go storedSharedGames, used by BuildSharedGames *)
(* for a party page and by view.go SharedGamesList.Serve for "Get shared   *)
(* games", which first waits for the syncs it has started).                *)
(***************************************************************************)
EXTENDS GameData

CONSTANTS
    Group,    \* Group[p]: the caller and the others, as asked for, repeats included
    Awaited   \* Awaited[p]: the member syncs that the request of p has started

ASSUME GroupAssumption == \A p \in Pages : Group[p] \in Seq(Users) /\ Group[p] # <<>>
ASSUME AwaitedAssumption == Awaited \in [Pages -> SUBSET Syncs]

VARIABLES
    found,     \* found[p]: the shared games that had no details at the first read
    shown,     \* shown[p]: the games of the result
    messages   \* messages[p]: the members named in a message instead of games

vars == <<row, state, tx, owner, tries, at, missing, batch, onLock, found, shown, messages>>
pageVars == <<found, shown, messages>>

Members(p) == ToSet(Group[p])
Caller(p) == Head(Group[p])

TypeOK ==
    /\ DataTypeOK
    /\ \A s \in Syncs : at[s] \in {"library", "ask", "fetch", "end"}
    /\ \A p \in Pages :
        at[p] \in {"start", "states", "shared", "ask", "fetch", "again", "unfetched",
                  "end", "short", "error"}
    /\ found \in [Pages -> SUBSET Games]
    /\ shown \in [Pages -> SUBSET Games]
    /\ messages \in [Pages -> SUBSET Users]

Init ==
    /\ DataInit
    /\ at = [c \in Callers |-> IF c \in Syncs THEN "library" ELSE "start"]
    /\ found = [p \in Pages |-> {}]
    /\ shown = [p \in Pages |-> {}]
    /\ messages = [p \in Pages |-> {}]

-----------------------------------------------------------------------------
PageTo(p, from, to) == at[p] = from /\ at' = [at EXCEPT ![p] = to]

dataButAt == <<row, state, tx, owner, tries, missing, batch, onLock>>

\* Mutant of SyncsAreDone: the page goes on once its syncs have been started.
SyncsAreStarted(p) == TRUE

\* syncMembers waits for the syncs it has started.
SyncsAreDone(p) == \A s \in Awaited[p] : at[s] = "end"

StartPage(p) ==
    /\ SyncsAreDone(p)
    /\ PageTo(p, "start", "states")
    /\ UNCHANGED <<dataButAt, pageVars>>

\* The members that the result cannot include.
Unusable == {u \in Users : state[u] # "synced"}

\* GameSyncStates: one message for each member without a library.
ReadStates(p) ==
    /\ messages' = [messages EXCEPT ![p] = Members(p) \cap Unusable]
    /\ PageTo(p, "states", IF Members(p) \cap Unusable = {} THEN "shared" ELSE "end")
    /\ UNCHANGED <<dataButAt, found, shown>>

Stored(u) == IF state[u] = "synced" THEN ToSet(Library[u]) ELSE {}

\* uniqueMembers without the caller.
Others(p) == Members(p) \ {Caller(p)}

\* Mutant of SharedStoredGames: the others are counted with their repeats.
SharedCountingRepeats(p) ==
    {g \in Stored(Caller(p)) :
        Cardinality({u \in Others(p) : g \in Stored(u)}) = Len(Group[p]) - 1}

\* SharedStoredGames: as many of the others own the game as there are others.
SharedStoredGames(p) ==
    {g \in Stored(Caller(p)) :
        Cardinality({u \in Others(p) : g \in Stored(u)}) = Cardinality(Others(p))}

\* Mutant of Playable: any details will do.
WithDetails(games) == {g \in games : row[g] \in {"multiplayer", "other"}}

Playable(games) == {g \in games : row[g] = "multiplayer"}

\* The games among these whose details have not been fetched.
Lacking(games) == {g \in games : row[g] = "missing"}

ReadShared(p) ==
    /\ found' = [found EXCEPT ![p] = Lacking(SharedStoredGames(p))]
    /\ IF Lacking(SharedStoredGames(p)) # {}
       THEN PageTo(p, "shared", "ask") /\ UNCHANGED shown
       ELSE /\ PageTo(p, "shared", "end")
            /\ shown' = [shown EXCEPT ![p] = Playable(SharedStoredGames(p))]
    /\ UNCHANGED <<dataButAt, messages>>

\* Asks once more for the ids that had no data, in the order of the caller's library.
FetchShared(p) ==
    /\ FindMissing(p, Only(Library[Caller(p)], found[p]))
    /\ UNCHANGED pageVars

\* A fetch that fails, before its first batch or in some of them, costs the games
\* it was for, not the page.
FetchSharedEnds(p) ==
    /\ FindMissingFails(p, "unfetched") \/ FetchEnds(p, "again")
    /\ UNCHANGED pageVars

ReadSharedAgain(p) ==
    /\ PageTo(p, "again", "end") \/ PageTo(p, "unfetched", "short")
    /\ shown' = [shown EXCEPT ![p] = Playable(SharedStoredGames(p))]
    /\ UNCHANGED <<dataButAt, found, messages>>

\* Any of the three reads may fail: the page shows an error and no games.
ReadFails(p) ==
    /\ \E from \in {"states", "shared", "again", "unfetched"} : PageTo(p, from, "error")
    /\ UNCHANGED <<dataButAt, pageVars>>

-----------------------------------------------------------------------------
PageProceeds(p) ==
    \/ StartPage(p) \/ ReadStates(p) \/ ReadShared(p) \/ FetchShared(p)
    \/ FetchSharedEnds(p) \/ ReadSharedAgain(p)

Proceed ==
    \/ \E p \in Pages : PageProceeds(p)
    \/ /\ \/ \E s \in Syncs : SyncProceeds(s)
          \/ \E b \in Batches : BatchProceeds(b)
          \/ LosesDeadlock
       /\ UNCHANGED pageVars

Falter ==
    \/ \E p \in Pages : ReadFails(p)
    \/ DataFalters /\ UNCHANGED pageVars

Next == Proceed \/ Falter

Spec == Init /\ [][Next]_vars

\* The machine goes on while any goroutine or transaction can, and PostgreSQL ends
\* deadlocks.  Nothing is assumed of deadlines, or of a call failing on its own.
FairSpec == Spec /\ WF_vars(Proceed)

-----------------------------------------------------------------------------
(* Properties.                                                             *)

\* Games are shown only when every member's library was stored, and each of them
\* is a multiplayer game that every member owns, though libraries and details
\* are being stored meanwhile (party_games.go:35-46, 73-102).
ShownIsSharedAndPlayable ==
    \A p \in Pages : shown[p] # {} =>
        /\ messages[p] = {}
        /\ \A u \in Members(p) : state[u] = "synced"
        /\ \A g \in shown[p] :
            row[g] = "multiplayer" /\ \A u \in Members(p) : g \in ToSet(Library[u])

\* A result without messages lacks no multiplayer game that all members own,
\* unless a batch with its details failed, or the whole fetch before its first
\* batch ("short"), however often a member is named (party_games.go:41-44, games.go:405-423).
NothingSharedIsLeftOut ==
    \A p \in Pages : at[p] = "end" /\ messages[p] = {} =>
        \A g \in Games :
            /\ Details[g] = "multiplayer"
            /\ \A u \in Members(p) : g \in ToSet(Library[u])
            => \/ g \in shown[p]
               \/ \E b \in Batches : b[1] = p /\ batch[b] = "failed" /\ g \in ToSet(Rows(b))

\* "Get shared games" never tells a member whose sync it waited for and which
\* stored a library that it has not been synced (view.go:292-296, 312-317).
AwaitedAreIncluded ==
    \A p \in Pages : \A s \in Awaited[p] :
        tx[s] = "committed" /\ at[p] \in {"end", "short"} => UserOf[s] \notin messages[p]

\* Every sync and every page comes to an end with no deadline to save it: a batch
\* that fails, panics or loses a deadlock gives back its slot and its turn on the
\* lock connection (game_sync.go:123-142, games.go:279-288).
CallersEnd == \A c \in Callers : <>(at[c] \in {"end", "short", "error"})

=============================================================================
