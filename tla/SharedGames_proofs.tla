-------------------------- MODULE SharedGames_proofs --------------------------
(***************************************************************************)
(* Theorems about SharedGames, for any users, libraries, details, syncs and *)
(* pages, and any size and number of batches.                              *)
(*                                                                         *)
(* A page reads three times without a common snapshot.  What it has read   *)
(* stays true because syncs only ever add: a stored library stays stored,  *)
(* and the details of a game are written once.  A page knows what it has   *)
(* read (PageKnows), and what the syncs it waited for have come to         *)
(* (AwaitedKnown): that is SharedInv.                                      *)
(*                                                                         *)
(* What the fetches achieve rests on it: a transaction has locked the      *)
(* first rows of its order, as many as it has (LocksInOrder), so that one  *)
(* that commits has them all; every id a fetch found is in one of its      *)
(* batches (BatchesKnow, and the arithmetic of SlicesCover); and what it   *)
(* did not find had its details (SyncsAskForAll, PagesAskForAll): that is  *)
(* FetchInv.                                                               *)
(***************************************************************************)
EXTENDS SharedGames, FiniteSetTheorems, TLAPS

\* The details of a game are none yet, or what Steam says of it.
RowsSettle == row \in [Games -> {"none", "missing", "multiplayer", "other"}]
              /\ \A g \in Games : row[g] \in {"none", "missing", Details[g]}

\* The types that the argument needs.
PageTypes ==
    /\ state \in [Users -> {"never_synced", "synced", "private_or_no_games"}]
    /\ DOMAIN at = Callers
    /\ DOMAIN tx = Txs
    /\ shown \in [Pages -> SUBSET Games]
    /\ DOMAIN messages = Pages
    /\ \A s \in Syncs : tx[s] = "open" => at[s] = "library"

\* Where a page is that has found every library stored.
Included == {"shared", "ask", "fetch", "again", "unfetched", "short"}

PageKnows ==
    \A p \in Pages :
        /\ at[p] \in {"start", "states"} => shown[p] = {}
        /\ at[p] \in Included \/ shown[p] # {} =>
              messages[p] = {} /\ \A u \in Members(p) : state[u] = "synced"
        /\ \A g \in shown[p] :
              row[g] = "multiplayer" /\ \A u \in Members(p) : g \in ToSet(Library[u])

\* A library that was committed is stored, and a page that has begun waits no more.
AwaitedKnown ==
    /\ \A s \in Syncs : tx[s] = "committed" => state[UserOf[s]] = "synced"
    /\ \A p \in Pages : \A s \in Awaited[p] :
        /\ at[p] # "start" => at[s] = "end"
        /\ at[p] \notin {"start", "states", "error"} /\ tx[s] = "committed" =>
              UserOf[s] \notin messages[p]

SharedInv == RowsSettle /\ PageTypes /\ PageKnows /\ AwaitedKnown

-----------------------------------------------------------------------------
\* Whoever is asked for is a user, and the group is finite.
LEMMA MembersAreUsers ==
    ASSUME NEW p \in Pages
    PROVE  Members(p) \subseteq Users /\ IsFiniteSet(Members(p)) /\ Caller(p) \in Members(p)
<1>1. Group[p] \in Seq(Users) /\ Group[p] # <<>>
  BY GroupAssumption
<1>2. Len(Group[p]) \in Nat /\ DOMAIN Group[p] = 1 .. Len(Group[p])
  BY <1>1
<1>3. IsFiniteSet(1 .. Len(Group[p]))
  BY <1>2, FS_Interval
<1>4. Group[p] \in [1 .. Len(Group[p]) -> Users] /\ Len(Group[p]) # 0
  BY <1>1, <1>2
<1>5. Members(p) = {Group[p][i] : i \in 1 .. Len(Group[p])}
  BY <1>2 DEF Members, ToSet
<1>6. Group[p] \in Surjection(1 .. Len(Group[p]), Members(p))
  BY <1>4, <1>5 DEF Surjection
<1>7. IsFiniteSet(Members(p))
  BY <1>3, <1>6, FS_Surjection
<1>8. Caller(p) = Group[p][1]
  BY <1>1 DEF Caller
<1> QED BY <1>2, <1>4, <1>5, <1>7, <1>8

\* Counting the others who own a game is asking whether all of them do.
LEMMA SharedByAll ==
    ASSUME NEW p \in Pages, NEW g \in SharedStoredGames(p)
    PROVE  \A u \in Members(p) : g \in Stored(u)
<1> DEFINE Owners == {u \in Others(p) : g \in Stored(u)}
<1>1. g \in Stored(Caller(p)) /\ Cardinality(Owners) = Cardinality(Others(p))
  BY DEF SharedStoredGames
<1>2. IsFiniteSet(Others(p))
  <2>1. Others(p) \in SUBSET Members(p)
    BY DEF Others
  <2> QED BY <2>1, MembersAreUsers, FS_Subset
<1>3. Owners \in SUBSET Others(p)
  OBVIOUS
<1>4. Owners = Others(p)
  <2> HIDE DEF Owners
  <2> QED BY <1>1, <1>2, <1>3, FS_Subset
<1> QED BY <1>1, <1>4 DEF Others

\* So what is found playable among them is shared by members who are synced.
LEMMA PlayableIsShared ==
    ASSUME NEW p \in Pages, NEW g \in Playable(SharedStoredGames(p))
    PROVE  /\ g \in Games /\ row[g] = "multiplayer"
           /\ \A u \in Members(p) : g \in ToSet(Library[u])
<1>1. g \in SharedStoredGames(p) /\ row[g] = "multiplayer"
  BY DEF Playable
<1>2. \A u \in Members(p) : g \in ToSet(Library[u])
  BY <1>1, SharedByAll DEF Stored
<1> QED BY <1>1, <1>2, MembersAreUsers DEF Games

-----------------------------------------------------------------------------
LEMMA InitHolds == Init => SharedInv
<1> SUFFICES ASSUME Init PROVE SharedInv
  OBVIOUS
<1>1. RowsSettle
  BY DEF Init, DataInit, RowsSettle
<1>2. PageTypes
  BY DEF Init, DataInit, PageTypes, Callers
<1>3. \A p \in Pages : at[p] = "start" /\ shown[p] = {}
  BY CallersAssumption DEF Init, Callers
<1>4. \A s \in Syncs : tx[s] # "committed"
  BY DEF Init, DataInit, Txs
<1>5. PageKnows /\ AwaitedKnown
  BY <1>3, <1>4 DEF PageKnows, AwaitedKnown, Included
<1> QED BY <1>1, <1>2, <1>5 DEF SharedInv

\* What syncs and batches do to the pages: they add to what is stored.
DataGrows ==
    /\ row' \in [Games -> {"none", "missing", "multiplayer", "other"}]
    /\ \A g \in Games :
        /\ row'[g] \in {"none", "missing", Details[g]}
        /\ row[g] = "multiplayer" => row'[g] = "multiplayer"
    /\ state' \in [Users -> {"never_synced", "synced", "private_or_no_games"}]
    /\ \A u \in Users : state[u] = "synced" => state'[u] = "synced"
    /\ DOMAIN at' = Callers /\ DOMAIN tx' = Txs
    /\ \A p \in Pages : at'[p] = at[p]
    /\ \A s \in Syncs :
        /\ at[s] = "end" => at'[s] = "end"
        /\ at[s] = "end" /\ tx'[s] = "committed" => tx[s] = "committed"
        /\ tx'[s] = "committed" => tx[s] = "committed" \/ state'[UserOf[s]] = "synced"
        /\ tx'[s] = "open" => at'[s] = "library"

\* A step of a sync.
LEMMA SyncGrows ==
    ASSUME SharedInv, NEW s \in Syncs,
           SyncProceeds(s) \/ LibraryLosesDeadlock(s) \/ LibraryFails(s)
           \/ LibraryGivenUp(s) \/ FindMissingFails(s, "end")
    PROVE  DataGrows
<1> USE UserOfAssumption, CallersAssumption
    DEF SharedInv, RowsSettle, PageTypes, DataGrows, Callers, Txs
<1>1. CASE LockRow(s)
  BY <1>1 DEF LockRow
<1>2. CASE CommitLibrary(s) \/ CommitUnheard(s)
  <2>1. \A g \in Games :
          row'[g] = IF owner[g] = s /\ row[g] = "none" THEN "missing" ELSE row[g]
    BY <1>2 DEF CommitLibrary, CommitUnheard, LibraryStored
  <2>2. row' \in [Games -> {"none", "missing", "multiplayer", "other"}]
    BY <1>2 DEF CommitLibrary, CommitUnheard, LibraryStored
  <2>3. /\ state' = [state EXCEPT ![UserOf[s]] = "synced"]
        /\ \/ /\ tx' = [tx EXCEPT ![s] = "committed"]
              /\ at[s] = "library" /\ at' = [at EXCEPT ![s] = "ask"]
           \/ tx' = [tx EXCEPT ![s] = "unheard"] /\ at' = at
    BY <1>2 DEF CommitLibrary, CommitUnheard, LibraryStored
  <2> QED BY <2>1, <2>2, <2>3
<1>3. CASE RecordEmpty(s)
  BY <1>3 DEF RecordEmpty
<1>4. CASE FindMissing(s, Library[UserOf[s]])
  BY <1>4 DEF FindMissing
<1>5. CASE FetchEnds(s, "end") \/ FindMissingFails(s, "end")
  BY <1>5 DEF FetchEnds, FindMissingFails
<1>6. CASE LibraryLosesDeadlock(s)
  <2>1. CASE UNCHANGED <<tx, at>>
    BY <1>6, <2>1 DEF LibraryLosesDeadlock
  <2>2. CASE /\ tx' = [tx EXCEPT ![s] = "rolledBack"]
             /\ at' = [at EXCEPT ![s] = "end"]
    <3>1. s \in Txs /\ at[s] # "end"
      BY <1>6 DEF LibraryLosesDeadlock, Deadlocked, Locking
    <3> QED BY <1>6, <2>2, <3>1 DEF LibraryLosesDeadlock
  <2> QED BY <1>6, <2>1, <2>2 DEF LibraryLosesDeadlock
<1>7. CASE LibraryFails(s) \/ LibraryGivenUp(s) \/ RollBackUnheard(s)
  BY <1>7 DEF LibraryFails, LibraryGivenUp, RollBackUnheard
<1> QED BY <1>1, <1>2, <1>3, <1>4, <1>5, <1>6, <1>7 DEF SyncProceeds

\* A step of a batch, of a sync or of a page.
LEMMA BatchGrows ==
    ASSUME SharedInv, NEW b \in Batches,
           \/ BatchProceeds(b) \/ RollBackBatch(b)
           \/ DetailsFail(b) \/ StoreTooLate(b) \/ StoreGivenUp(b)
    PROVE  DataGrows
<1> USE CallersAssumption
    DEF SharedInv, RowsSettle, PageTypes, DataGrows, Callers, Txs
<1>1. CASE TakeSlot(b) \/ GetDetails(b) \/ LockRow(b) \/ DetailsFail(b) \/ StoreTooLate(b)
           \/ StoreGivenUp(b)
  BY <1>1 DEF TakeSlot, GetDetails, LockRow, DetailsFail, StoreTooLate, StoreGivenUp
<1>2. CASE StoreBegins(b) \/ RollBackBatch(b)
  BY <1>2 DEF StoreBegins, RollBackBatch
<1>3. CASE CommitBatch(b)
  <2>1. row' = [g \in Games |-> IF owner[g] = b THEN Details[g] ELSE row[g]]
    BY <1>3 DEF CommitBatch
  <2>2. \A g \in Games : Details[g] \in {"multiplayer", "other"}
    BY DetailsAssumption
  <2>3. /\ row' \in [Games -> {"none", "missing", "multiplayer", "other"}]
        /\ \A g \in Games :
            /\ row'[g] \in {"none", "missing", Details[g]}
            /\ row[g] = "multiplayer" => row'[g] = "multiplayer"
    BY <2>1, <2>2
  <2>4. tx' = [tx EXCEPT ![b] = "committed"] /\ UNCHANGED <<state, at>>
    BY <1>3 DEF CommitBatch
  <2> QED BY <2>3, <2>4
<1> QED BY <1>1, <1>2, <1>3 DEF BatchProceeds

\* What is stored only grows, and so does not belie what a page has read.
LEMMA GrowthHolds ==
    ASSUME SharedInv, DataGrows, UNCHANGED pageVars
    PROVE  SharedInv'
<1> USE DEF SharedInv, DataGrows, pageVars
<1>1. RowsSettle'
  BY DEF RowsSettle
<1>2. PageTypes'
  BY DEF PageTypes
<1>3. PageKnows'
  <2> SUFFICES ASSUME NEW p \in Pages
               PROVE  /\ at'[p] \in {"start", "states"} => shown'[p] = {}
                      /\ at'[p] \in Included \/ shown'[p] # {} =>
                            messages'[p] = {} /\ \A u \in Members(p) : state'[u] = "synced"
                      /\ \A g \in shown'[p] :
                            /\ row'[g] = "multiplayer"
                            /\ \A u \in Members(p) : g \in ToSet(Library[u])
    BY DEF PageKnows
  <2>1. at'[p] = at[p] /\ shown'[p] = shown[p] /\ messages'[p] = messages[p]
    OBVIOUS
  <2>2. \A u \in Members(p) : state[u] = "synced" => state'[u] = "synced"
    BY MembersAreUsers
  <2>3. \A g \in shown[p] : row[g] = "multiplayer" => row'[g] = "multiplayer"
    BY DEF PageTypes
  <2> QED BY <2>1, <2>2, <2>3 DEF PageKnows
<1>4. AwaitedKnown'
  <2>1. \A s \in Syncs : tx'[s] = "committed" => state'[UserOf[s]] = "synced"
    BY UserOfAssumption DEF AwaitedKnown
  <2>2. ASSUME NEW p \in Pages, NEW s \in Awaited[p], at'[p] # "start"
        PROVE  /\ at'[s] = "end"
               /\ at'[p] \notin {"start", "states", "error"} /\ tx'[s] = "committed" =>
                    UserOf[s] \notin messages'[p]
    <3>1. s \in Syncs
      BY AwaitedAssumption
    <3>2. at'[p] = at[p] /\ at[s] = "end" /\ messages' = messages
      BY <2>2 DEF AwaitedKnown
    <3>3. at'[s] = "end" /\ (tx'[s] = "committed" => tx[s] = "committed")
      BY <3>1, <3>2
    <3> QED BY <3>2, <3>3 DEF AwaitedKnown
  <2> QED BY <2>1, <2>2 DEF AwaitedKnown
<1> QED BY <1>1, <1>2, <1>3, <1>4

-----------------------------------------------------------------------------
\* A step of page p changes what p knows, and nothing else that others see.
PageMoves(p) ==
    /\ UNCHANGED <<row, state, tx>>
    /\ \E to : at' = [at EXCEPT ![p] = to]
    /\ DOMAIN messages' = Pages /\ shown' \in [Pages -> SUBSET Games]
    /\ \A q \in Pages \ {p} : messages'[q] = messages[q] /\ shown'[q] = shown[q]

\* What p must still know after its step.
KnowsNext(p) ==
    /\ at[p] = "start" => \A s \in Awaited[p] : at[s] = "end"
    /\ at'[p] # "start"
    /\ at'[p] = "states" => shown'[p] = {}
    /\ at'[p] \in Included \/ shown'[p] # {} =>
          messages'[p] = {} /\ \A u \in Members(p) : state[u] = "synced"
    /\ \A g \in shown'[p] :
          row[g] = "multiplayer" /\ \A u \in Members(p) : g \in ToSet(Library[u])
    /\ at'[p] \notin {"states", "error"} =>
          \A s \in Awaited[p] : tx[s] = "committed" => UserOf[s] \notin messages'[p]

LEMMA PageHolds ==
    ASSUME SharedInv, NEW p \in Pages, PageMoves(p), KnowsNext(p)
    PROVE  SharedInv'
<1> USE CallersAssumption DEF SharedInv, PageMoves, KnowsNext, Callers
<1>1. /\ p \in Callers /\ p \notin Syncs
      /\ \A c \in Callers : c # p => at'[c] = at[c]
  BY DEF PageTypes
<1>2. RowsSettle'
  BY DEF RowsSettle
<1>3. PageTypes'
  BY <1>1 DEF PageTypes
<1>4. PageKnows'
  <2>1. ASSUME NEW q \in Pages, q # p
        PROVE  at'[q] = at[q] /\ messages'[q] = messages[q] /\ shown'[q] = shown[q]
    BY <1>1, <2>1
  <2> QED BY <1>1, <2>1 DEF PageKnows
<1>5. AwaitedKnown'
  <2>1. \A s \in Syncs : at'[s] = at[s] /\ tx'[s] = tx[s]
    BY <1>1
  <2>2. \A q \in Pages : q # p => at'[q] = at[q] /\ messages'[q] = messages[q]
    BY <1>1
  <2>3. \A q \in Pages : Awaited[q] \subseteq Syncs
    BY AwaitedAssumption
  <2>4. \A s \in Awaited[p] : at[s] = "end"
    BY DEF AwaitedKnown
  <2> QED BY <2>1, <2>2, <2>3, <2>4 DEF AwaitedKnown
<1> QED BY <1>2, <1>3, <1>4, <1>5

LEMMA PageStepHolds ==
    ASSUME SharedInv, NEW p \in Pages, PageProceeds(p) \/ ReadFails(p)
    PROVE  SharedInv'
<1> USE DEF SharedInv, PageTypes, PageTo, dataButAt, pageVars, Callers, PageMoves, KnowsNext,
            Included
<1>1. CASE StartPage(p)
  BY <1>1, PageHolds DEF StartPage, SyncsAreDone, PageKnows, AwaitedKnown
<1>2. CASE ReadStates(p)
  <2>1. PageMoves(p)
    BY <1>2 DEF ReadStates
  <2>2. /\ messages'[p] = Members(p) \cap Unusable /\ shown'[p] = {}
        /\ at[p] = "states"
        /\ at'[p] = IF Members(p) \cap Unusable = {} THEN "shared" ELSE "end"
    BY <1>2 DEF ReadStates, PageKnows
  <2>3. \A s \in Awaited[p] : tx[s] = "committed" => UserOf[s] \notin Unusable
    BY AwaitedAssumption DEF AwaitedKnown, Unusable
  <2>4. Members(p) \cap Unusable = {} => \A u \in Members(p) : state[u] = "synced"
    BY MembersAreUsers DEF Unusable
  <2>5. KnowsNext(p)
    BY <2>2, <2>3, <2>4
  <2> QED BY <2>1, <2>5, PageHolds
<1>3. CASE ReadShared(p)
  <2>1. /\ at[p] = "shared" /\ UNCHANGED <<row, state, tx, messages>>
        /\ \/ at' = [at EXCEPT ![p] = "ask"] /\ shown' = shown
           \/ /\ at' = [at EXCEPT ![p] = "end"]
              /\ shown' = [shown EXCEPT ![p] = Playable(SharedStoredGames(p))]
    BY <1>3 DEF ReadShared
  <2>2. \A g \in Playable(SharedStoredGames(p)) :
          /\ g \in Games /\ row[g] = "multiplayer"
          /\ \A u \in Members(p) : g \in ToSet(Library[u])
    BY PlayableIsShared
  <2>3. PageMoves(p)
    BY <2>1, <2>2
  <2>4. KnowsNext(p)
    BY <2>1, <2>2 DEF PageKnows, AwaitedKnown
  <2> QED BY <2>3, <2>4, PageHolds
<1>4. CASE FetchShared(p)
  <2>1. at[p] = "ask" /\ at' = [at EXCEPT ![p] = "fetch"]
        /\ UNCHANGED <<row, state, tx, shown, messages>>
    BY <1>4 DEF FetchShared, FindMissing
  <2> QED BY <2>1, PageHolds DEF PageKnows, AwaitedKnown
<1>5. CASE FetchSharedEnds(p)
  <2>1. /\ at[p] \in {"ask", "fetch"}
        /\ \E to \in {"unfetched", "again"} : at' = [at EXCEPT ![p] = to]
        /\ UNCHANGED <<row, state, tx, shown, messages>>
    BY <1>5 DEF FetchSharedEnds, FindMissingFails, FetchEnds
  <2>2. PageMoves(p)
    BY <2>1
  <2>3. at'[p] \in {"unfetched", "again"}
    BY <2>1
  <2>4. KnowsNext(p)
    BY <2>1, <2>3 DEF PageKnows, AwaitedKnown
  <2> QED BY <2>2, <2>4, PageHolds
<1>6. CASE ReadSharedAgain(p)
  <2>1. /\ at[p] \in {"again", "unfetched"}
        /\ UNCHANGED <<row, state, tx, messages>>
        /\ \E to \in {"end", "short"} : at' = [at EXCEPT ![p] = to]
        /\ shown' = [shown EXCEPT ![p] = Playable(SharedStoredGames(p))]
    BY <1>6 DEF ReadSharedAgain
  <2>2. \A g \in Playable(SharedStoredGames(p)) :
          /\ g \in Games /\ row[g] = "multiplayer"
          /\ \A u \in Members(p) : g \in ToSet(Library[u])
    BY PlayableIsShared
  <2>3. PageMoves(p)
    BY <2>1, <2>2
  <2>4. KnowsNext(p)
    BY <2>1, <2>2 DEF PageKnows, AwaitedKnown
  <2> QED BY <2>3, <2>4, PageHolds
<1>7. CASE ReadFails(p)
  <2>1. /\ at[p] \in {"states", "shared", "again", "unfetched"}
        /\ at' = [at EXCEPT ![p] = "error"]
        /\ UNCHANGED <<row, state, tx, shown, messages>>
    BY <1>7 DEF ReadFails
  <2> QED BY <2>1, PageHolds DEF PageKnows, AwaitedKnown
<1> QED BY <1>1, <1>2, <1>3, <1>4, <1>5, <1>6, <1>7 DEF PageProceeds

LEMMA NextHolds == SharedInv /\ [Next]_vars => SharedInv'
<1> SUFFICES ASSUME SharedInv, [Next]_vars PROVE SharedInv'
  OBVIOUS
<1>1. ASSUME NEW p \in Pages, PageProceeds(p) \/ ReadFails(p) PROVE SharedInv'
  BY <1>1, PageStepHolds
<1>2. ASSUME NEW s \in Syncs, UNCHANGED pageVars,
             \/ SyncProceeds(s) \/ LibraryLosesDeadlock(s)
             \/ LibraryFails(s) \/ LibraryGivenUp(s) \/ FindMissingFails(s, "end")
      PROVE  SharedInv'
  BY <1>2, SyncGrows, GrowthHolds
<1>3. ASSUME NEW b \in Batches, UNCHANGED pageVars,
             \/ BatchProceeds(b) \/ RollBackBatch(b)
             \/ DetailsFail(b) \/ StoreTooLate(b) \/ StoreGivenUp(b)
      PROVE  SharedInv'
  BY <1>3, BatchGrows, GrowthHolds
<1>4. CASE UNCHANGED vars
  BY <1>4 DEF vars, SharedInv, RowsSettle, PageTypes, PageKnows, AwaitedKnown, Members
<1> QED BY <1>1, <1>2, <1>3, <1>4 DEF Next, Proceed, Falter, LosesDeadlock, DataFalters

LEMMA InvHolds == Spec => []SharedInv
  BY InitHolds, NextHolds, PTL DEF Spec

-----------------------------------------------------------------------------
\* Whatever is being stored meanwhile, a page shows games only when every member's
\* library was stored, and each is a multiplayer game that every member owns
\* (party_games.go:35-46, 73-102).
THEOREM ShownAlwaysSharedAndPlayable == Spec => []ShownIsSharedAndPlayable
<1>1. SharedInv => ShownIsSharedAndPlayable
  BY DEF SharedInv, PageKnows, ShownIsSharedAndPlayable
<1> QED BY <1>1, InvHolds, PTL

\* A member whose sync was waited for and has stored a library is never reported as
\* not synced (view.go:292-296, 312-317).
THEOREM AwaitedAlwaysIncluded == Spec => []AwaitedAreIncluded
<1>1. SharedInv => AwaitedAreIncluded
  BY DEF SharedInv, AwaitedKnown, AwaitedAreIncluded
<1> QED BY <1>1, InvHolds, PTL

-----------------------------------------------------------------------------
(* Lists of app ids: numbers in order, picking from a list, slices.        *)

\* A finite set of numbers has as many in order, and each of them once.
LEMMA AscendingLists ==
    ASSUME NEW S \in SUBSET Nat, IsFiniteSet(S)
    PROVE  /\ Cardinality(S) \in Nat
           /\ Ascending(S) \in [1 .. Cardinality(S) -> S]
           /\ \A n \in S : \E k \in 1 .. Cardinality(S) : Ascending(S)[k] = n
           /\ \A j, k \in 1 .. Cardinality(S) : j < k => Ascending(S)[j] < Ascending(S)[k]
<1> DEFINE Below(n) == {m \in S : m <= n}
           rank == [n \in S |-> Cardinality(Below(n))]
           size == Cardinality(S)
<1>1. size \in Nat
  BY FS_CardinalityType
<1>2. ASSUME NEW n \in S
      PROVE  /\ IsFiniteSet(Below(n)) /\ Cardinality(Below(n)) \in 1 .. size
  <2>1. Below(n) \in SUBSET S /\ n \in Below(n)
    OBVIOUS
  <2>2. IsFiniteSet(Below(n)) /\ Cardinality(Below(n)) <= size
    BY <2>1, FS_Subset
  <2>3. Cardinality(Below(n)) \in Nat /\ Cardinality(Below(n)) # 0
    BY <2>1, <2>2, FS_CardinalityType, FS_EmptySet
  <2> QED BY <1>1, <2>2, <2>3
<1>3. ASSUME NEW m \in S, NEW n \in S, m < n
      PROVE  rank[m] < rank[n]
  <2>1. Below(m) \in SUBSET Below(n) /\ Below(m) # Below(n)
    <3>1. n \in Below(n) /\ n \notin Below(m)
      BY <1>3
    <3>2. \A x \in S : x <= m => x <= n
      <4> TAKE x \in S
      <4>1. x \in Nat /\ m \in Nat /\ n \in Nat
        OBVIOUS
      <4> QED BY <1>3, <4>1
    <3> QED BY <1>3, <3>1, <3>2
  <2>2. /\ Cardinality(Below(m)) <= Cardinality(Below(n))
        /\ Cardinality(Below(m)) # Cardinality(Below(n))
    BY <1>2, <2>1, FS_Subset
  <2> QED BY <1>1, <1>2, <2>2
<1>4. rank \in [S -> 1 .. size]
  BY <1>2
<1>5. \A m, n \in S : rank[m] = rank[n] => m = n
  BY <1>1, <1>3, <1>4
<1>6. rank \in Injection(S, 1 .. size)
  BY <1>4, <1>5 DEF Injection, IsInjective
<1>7. IsFiniteSet(1 .. size) /\ Cardinality(1 .. size) = size
  BY <1>1, FS_Interval
<1>8. rank \in Surjection(S, 1 .. size)
  BY <1>6, <1>7, FS_Injection
<1>9. \A k \in 1 .. size : \E n \in S : rank[n] = k
  BY <1>4, <1>8 DEF Surjection
<1>10. ASSUME NEW k \in 1 .. size
       PROVE  Ascending(S)[k] \in S /\ rank[Ascending(S)[k]] = k
  <2>1. \E n \in S : Cardinality({m \in S : m <= n}) = k
    BY <1>9
  <2>2. Ascending(S)[k] = CHOOSE n \in S : Cardinality({m \in S : m <= n}) = k
    BY DEF Ascending
  <2> QED BY <2>1, <2>2
<1>11. Ascending(S) \in [1 .. size -> S]
  BY <1>10 DEF Ascending
<1>12. \A n \in S : \E k \in 1 .. size : Ascending(S)[k] = n
  BY <1>4, <1>5, <1>10
<1>13. ASSUME NEW j \in 1 .. size, NEW k \in 1 .. size, j < k
       PROVE  Ascending(S)[j] < Ascending(S)[k]
  <2>1. Ascending(S)[j] \in S /\ Ascending(S)[k] \in S
    BY <1>10
  <2>2. rank[Ascending(S)[j]] < rank[Ascending(S)[k]]
    BY <1>10, <1>13
  <2>3. CASE Ascending(S)[k] < Ascending(S)[j]
    <3>1. rank[Ascending(S)[k]] < rank[Ascending(S)[j]]
      BY <1>3, <2>1, <2>3
    <3>2. rank[Ascending(S)[k]] = k /\ rank[Ascending(S)[j]] = j
      BY <1>10
    <3> QED BY <1>13, <3>1, <3>2
  <2>4. CASE Ascending(S)[k] = Ascending(S)[j]
    <3>1. rank[Ascending(S)[k]] = k /\ rank[Ascending(S)[j]] = j
      BY <1>10
    <3> QED BY <1>13, <2>4, <3>1
  <2>5. Ascending(S)[j] \in Nat /\ Ascending(S)[k] \in Nat
    BY <2>1
  <2> QED BY <2>3, <2>4, <2>5
<1> QED BY <1>1, <1>11, <1>12, <1>13

\* A set of numbers that is not empty has a least one.
LEMMA LeastNumber ==
    ASSUME NEW S \in SUBSET Nat, NEW w \in S
    PROVE  \E m \in S : \A n \in S : m <= n
<1> DEFINE T == {n \in S : n <= w}
           size == Cardinality(T)
<1>1. T \in SUBSET (0 .. w) /\ T \in SUBSET Nat /\ w \in T
  <2>1. w \in Nat /\ \A n \in S : n \in Nat
    OBVIOUS
  <2>2. \A n \in T : n \in 0 .. w
    BY <2>1
  <2>3. w <= w
    BY <2>1
  <2>4. w \in T
    BY <2>3
  <2> HIDE DEF T
  <2>5. T \subseteq S
    BY DEF T
  <2> QED BY <2>1, <2>2, <2>4, <2>5
<1>2. IsFiniteSet(T)
  <2>1. IsFiniteSet(0 .. w)
    BY FS_Interval
  <2> HIDE DEF T
  <2> QED BY <1>1, <2>1, FS_Subset
<1>3. /\ size \in Nat /\ Ascending(T) \in [1 .. size -> T]
      /\ \A n \in T : \E k \in 1 .. size : Ascending(T)[k] = n
      /\ \A j, k \in 1 .. size : j < k => Ascending(T)[j] < Ascending(T)[k]
  BY <1>1, <1>2, AscendingLists
<1> HIDE DEF T, size
<1>4. 1 \in 1 .. size
  BY <1>1, <1>3
<1> DEFINE m == Ascending(T)[1]
<1>5. m \in T /\ m \in Nat
  BY <1>1, <1>3, <1>4
<1>6. ASSUME NEW n \in T PROVE m <= n
  <2>1. PICK k \in 1 .. size : Ascending(T)[k] = n
    BY <1>3
  <2>2. CASE k = 1
    BY <1>5, <2>1, <2>2
  <2>3. CASE k # 1
    <3>1. 1 < k /\ n \in Nat
      BY <1>1, <1>3, <2>1, <2>3
    <3>2. m < n
      BY <1>3, <1>4, <2>1, <3>1
    <3> QED BY <1>5, <3>1, <3>2
  <2> QED BY <2>2, <2>3
<1> HIDE DEF m
<1>7. ASSUME NEW n \in S PROVE m <= n
  <2>1. n \in T \/ (n \in Nat /\ w \in Nat /\ w <= n)
    BY DEF T
  <2>2. m <= w
    BY <1>1, <1>6
  <2> QED BY <1>5, <1>6, <2>1, <2>2
<1> QED BY <1>5, <1>7 DEF T

\* The ids of a list that are in a set: each of them, once for each place, in order.
LEMMA OnlyLists ==
    ASSUME NEW T, NEW ids \in Seq(T), NEW S
    PROVE  /\ Only(ids, S) \in Seq(T)
           /\ Len(Only(ids, S)) <= Len(ids)
           /\ ToSet(Only(ids, S)) = ToSet(ids) \cap S
<1> DEFINE P == {i \in DOMAIN ids : ids[i] \in S}
           places == Ascending(P)
           size == Cardinality(P)
<1>1. Len(ids) \in Nat /\ DOMAIN ids = 1 .. Len(ids) /\ \A i \in 1 .. Len(ids) : ids[i] \in T
  OBVIOUS
<1>2. IsFiniteSet(1 .. Len(ids)) /\ Cardinality(1 .. Len(ids)) = Len(ids)
  <2>1. IsFiniteSet(1 .. Len(ids)) /\ Cardinality(1 .. Len(ids)) =
            IF 1 > Len(ids) THEN 0 ELSE Len(ids) - 1 + 1
    BY <1>1, FS_Interval
  <2> QED BY <1>1, <2>1
<1>3. P \in SUBSET (1 .. Len(ids)) /\ P \in SUBSET Nat
  BY <1>1
<1>4. IsFiniteSet(P) /\ size <= Len(ids)
  BY <1>2, <1>3, FS_Subset
<1>5. /\ size \in Nat /\ places \in [1 .. size -> P]
      /\ \A n \in P : \E k \in 1 .. size : places[k] = n
  BY <1>3, <1>4, AscendingLists
<1>6. Only(ids, S) = [k \in 1 .. size |-> ids[places[k]]]
  BY <1>5 DEF Only
<1>7. \A k \in 1 .. size : ids[places[k]] \in T \cap S
  BY <1>1, <1>5
<1> HIDE DEF P, places, size
<1>8. Only(ids, S) \in Seq(T) /\ Len(Only(ids, S)) = size
  BY <1>5, <1>6, <1>7
<1>9. ToSet(Only(ids, S)) = ToSet(ids) \cap S
  <2>1. ASSUME NEW g \in ToSet(Only(ids, S)) PROVE g \in ToSet(ids) \cap S
    <3>1. PICK k \in 1 .. size : g = ids[places[k]]
      BY <1>6 DEF ToSet
    <3> QED BY <1>3, <1>1, <1>5, <1>7, <3>1 DEF ToSet
  <2>2. ASSUME NEW g \in ToSet(ids), g \in S PROVE g \in ToSet(Only(ids, S))
    <3>1. PICK i \in P : ids[i] = g
      BY <2>2 DEF ToSet, P
    <3>2. PICK k \in 1 .. size : places[k] = i
      BY <1>5
    <3> QED BY <1>6, <3>1, <3>2 DEF ToSet
  <2> QED BY <2>1, <2>2
<1> QED BY <1>4, <1>8, <1>9

\* Whole division, and comparing products.
LEMMA DivisionBounds ==
    ASSUME NEW n \in Nat, NEW d \in Nat \ {0}
    PROVE  /\ n \div d \in Nat
           /\ (n \div d) * d <= n /\ n < (n \div d + 1) * d
  OBVIOUS

LEMMA ProductsCompare ==
    ASSUME NEW m \in Int, NEW n \in Int, NEW d \in Nat \ {0}, m * d < n * d
    PROVE  m < n
<1>1. CASE m >= n
  <2>1. m - n \in Nat /\ m * d = n * d + (m - n) * d
    BY <1>1
  <2>2. (m - n) * d \in Nat
    BY <2>1
  <2> DEFINE x == m * d
             y == n * d
             z == (m - n) * d
  <2>3. x \in Int /\ y \in Int /\ z \in Nat /\ x = y + z /\ x < y
    BY <2>1, <2>2
  <2> HIDE DEF x, y, z
  <2> QED BY <2>3
<1> QED BY <1>1

LEMMA MinOfTwo ==
    ASSUME NEW m \in Int, NEW n \in Int
    PROVE  Min({m, n}) = IF m <= n THEN m ELSE n
  BY DEF Min

\* A slice of a list.
Slice(list, k) == SubSeq(list, (k - 1) * BatchSize + 1, Min({k * BatchSize, Len(list)}))

LEMMA SliceLists ==
    ASSUME NEW T, NEW list \in Seq(T), NEW k \in Nat \ {0}
    PROVE  Slice(list, k) \in Seq(T) /\ ToSet(Slice(list, k)) \subseteq ToSet(list)
<1> DEFINE low == (k - 1) * BatchSize + 1
           high == Min({k * BatchSize, Len(list)})
<1>1. BatchSize \in Nat /\ BatchSize # 0
  BY BoundsAssumption
<1>2. low \in Nat /\ low >= 1
  <2>1. k - 1 \in Nat
    OBVIOUS
  <2>2. (k - 1) * BatchSize \in Nat
    BY <1>1, <2>1
  <2> QED BY <2>2
<1>3. high \in Nat /\ high <= Len(list)
  <2>1. k * BatchSize \in Int /\ k * BatchSize \in Nat /\ Len(list) \in Int /\ Len(list) \in Nat
    BY <1>1
  <2> HIDE DEF low
  <2> QED BY <2>1, MinOfTwo
<1> HIDE DEF low, high
<1>4. SubSeq(list, low, high) \in Seq(T) /\ ToSet(SubSeq(list, low, high)) \subseteq ToSet(list)
  BY <1>2, <1>3 DEF ToSet
<1> QED BY <1>4 DEF Slice, low, high
\* Every place of a list is in one of its slices.
LEMMA SlicesCover ==
    ASSUME NEW T, NEW list \in Seq(T), Len(list) <= MaxBatches * BatchSize,
           NEW g \in ToSet(list)
    PROVE  \E k \in 1 .. MaxBatches :
              k <= BatchCount(Len(list)) /\ g \in ToSet(Slice(list, k))
<1>1. PICK i \in 1 .. Len(list) : list[i] = g
  BY DEF ToSet
<1>2. BatchSize \in Nat \ {0} /\ MaxBatches \in Nat \ {0}
  BY BoundsAssumption
<1> DEFINE B == BatchSize
           n == Len(list)
           q == (i - 1) \div B
           low == q * B + 1
           high == Min({(q + 1) * B, n})
<1>3. q \in Nat /\ q * B <= i - 1 /\ i - 1 < (q + 1) * B
  <2>1. i - 1 \in Nat
    OBVIOUS
  <2> QED BY <1>2, <2>1, DivisionBounds
<1>4. q < MaxBatches
  <2> HIDE DEF q
  <2>1. q * B \in Int /\ MaxBatches * B \in Int /\ n \in Nat
    BY <1>2, <1>3
  <2>2. q * B < MaxBatches * B
    BY <1>3, <2>1
  <2> QED BY <1>2, <1>3, <2>2, ProductsCompare
<1>5. q + 1 <= BatchCount(n)
  <2> DEFINE c == (n + B - 1) \div B
  <2>1. n + B - 1 \in Nat
    BY <1>2
  <2>2. c \in Nat /\ n + B - 1 < (c + 1) * B
    BY <1>2, <2>1, DivisionBounds
  <2>3. c = BatchCount(n)
    BY DEF BatchCount
  <2> HIDE DEF c, q
  <2>4. (q + 1) * B = q * B + B /\ q * B \in Int /\ (c + 1) * B \in Int
    BY <1>2, <1>3, <2>2
  <2>5. (q + 1) * B < (c + 1) * B
    BY <1>2, <1>3, <2>2, <2>4
  <2>6. q + 1 < c + 1
    BY <1>2, <1>3, <2>2, <2>5, ProductsCompare
  <2> QED BY <1>3, <2>2, <2>3, <2>6
<1>6. low \in Nat /\ low >= 1 /\ low <= i
  BY <1>2, <1>3
<1>7. high \in Nat /\ i <= high /\ high <= n
  <2> HIDE DEF q
  <2>1. (q + 1) * B \in Int /\ (q + 1) * B \in Nat /\ n \in Int /\ n \in Nat
    BY <1>2, <1>3
  <2> QED BY <1>3, <2>1, MinOfTwo
<1>8. g \in ToSet(Slice(list, q + 1))
  <2>1. Slice(list, q + 1) = SubSeq(list, low, high)
    <3>1. (q + 1) - 1 = q
      BY <1>3
    <3> HIDE DEF q
    <3> QED BY <3>1 DEF Slice
  <2> HIDE DEF low, high, q
  <2>2. i - low + 1 \in 1 .. high - low + 1 /\ low + (i - low + 1) - 1 = i
    BY <1>6, <1>7
  <2>3. /\ DOMAIN SubSeq(list, low, high) = 1 .. high - low + 1
        /\ SubSeq(list, low, high)[i - low + 1] = g
    BY <1>1, <1>6, <1>7, <2>2
  <2> QED BY <2>1, <2>2, <2>3 DEF ToSet
<1> QED BY <1>2, <1>3, <1>4, <1>5, <1>8

-----------------------------------------------------------------------------
(* What a fetch and its batches know.                                      *)

Known == {"multiplayer", "other"}

\* Where a caller is that has no batches yet.
Before == {"library", "ask", "start", "states", "shared"}

\* How far the goroutine of a batch is says where its transaction is.
BatchesKnow ==
    \A b \in Batches :
        /\ at[b[1]] \in Before => batch[b] = "none"
        /\ batch[b] \in {"none", "queued", "asking", "answered"} => tx[b] = "none"
        /\ batch[b] = "storing" => tx[b] = "open"
        /\ batch[b] = "stored" => tx[b] = "committed"
        /\ b[2] <= BatchCount(Len(missing[b[1]])) => batch[b] # "none"

\* A sync is where its transaction is, and has an attempt left while that is open.
SyncsKnow ==
    \A s \in Syncs :
        /\ at[s] = "library" <=> tx[s] = "open"
        /\ at[s] \in {"ask", "fetch"} => tx[s] = "committed"
        /\ tx[s] = "open" => tries[s] < StoreAttempts

\* A library that waits for its COMMIT has all its rows locked.
UnheardHold ==
    \A s \in Syncs : tx[s] = "committing" => Held(s) = ToSet(Library[UserOf[s]])

\* A list of missing ids fits the batches, and none is made before it is asked for.
ListsFit ==
    /\ DOMAIN missing = Callers
    /\ \A c \in Callers :
        /\ Len(missing[c]) <= MaxBatches * BatchSize
        /\ at[c] \in Before => missing[c] = <<>>

\* A transaction has locked the first rows of its order, as many as it has.
LocksInOrder ==
    \A t \in Txs : \E k \in 0 .. Len(Order(t)) :
        /\ Held(t) = {Order(t)[i] : i \in 1 .. k}
        /\ IsFiniteSet(Held(t)) /\ Cardinality(Held(t)) = k

\* What is committed is there: the games of a stored library, and the details of
\* the ids of a batch.
CommitsLast ==
    /\ \A u \in Users : state[u] = "synced" => \A g \in ToSet(Library[u]) : row[g] # "none"
    /\ \A b \in Batches : tx[b] = "committed" => \A g \in ToSet(Rows(b)) : row[g] \in Known

\* What a sync fetches is all that its library lacks.
SyncsAskForAll ==
    \A s \in Syncs : missing[s] # <<>> =>
        \A g \in ToSet(Library[UserOf[s]]) : g \in ToSet(missing[s]) \/ row[g] \in Known

SharedByMembers(p) == {g \in Games : \A u \in Members(p) : g \in ToSet(Library[u])}

\* What a page fetches is all that its shared games lack.
PageAsks(p) ==
    /\ at[p] = "end" /\ messages[p] = {} => \A u \in Members(p) : state[u] = "synced"
    /\ at[p] = "ask" => \A g \in SharedByMembers(p) : g \in found[p] \/ row[g] \in Known
    /\ at[p] \in {"fetch", "again"} =>
          \A g \in SharedByMembers(p) : g \in ToSet(missing[p]) \/ row[g] \in Known
    /\ at[p] = "again" => \A b \in Batches : b[1] = p => batch[b] \notin Active

PagesAskForAll == \A p \in Pages : PageAsks(p)

FetchInv ==
    /\ TypeOK /\ BatchesKnow /\ SyncsKnow /\ ListsFit /\ LocksInOrder /\ CommitsLast
    /\ UnheardHold /\ SyncsAskForAll /\ PagesAskForAll /\ NothingSharedIsLeftOut

\* Callers, their batches, and the transactions of both are different things.
LEMMA KindsDiffer ==
    /\ \A s \in Syncs : s \in Txs /\ s \in Callers /\ s \notin Batches /\ s \notin Pages
    /\ \A b \in Batches : b \in Txs /\ b \notin Syncs /\ b[1] \in Callers /\ b[2] \in Nat \ {0}
    /\ \A p \in Pages : p \in Callers /\ p \notin Syncs
    /\ NoTx \notin Txs
  BY CallersAssumption, NoTxAssumption DEF Txs, Callers, Batches

\* What becomes of a library whose COMMIT the sync hears nothing of.
Unheard(s) == LibraryGivenUp(s) \/ CommitUnheard(s) \/ RollBackUnheard(s)

\* The steps one by one.
LEMMA StepCases ==
    ASSUME [Next]_vars
    PROVE  \/ \E t \in Txs : LockRow(t) /\ UNCHANGED pageVars
           \/ \E s \in Syncs :
                /\ \/ CommitLibrary(s) \/ RecordEmpty(s) \/ LibraryFails(s)
                   \/ LibraryLosesDeadlock(s) \/ FindMissing(s, Library[UserOf[s]])
                   \/ FindMissingFails(s, "end") \/ FetchEnds(s, "end")
                /\ UNCHANGED pageVars
           \/ \E s \in Syncs : Unheard(s) /\ UNCHANGED pageVars
           \/ \E b \in Batches :
                /\ \/ TakeSlot(b) \/ GetDetails(b) \/ DetailsFail(b) \/ StoreBegins(b)
                   \/ StoreTooLate(b) \/ StoreGivenUp(b) \/ CommitBatch(b) \/ RollBackBatch(b)
                /\ UNCHANGED pageVars
           \/ \E p \in Pages :
                \/ StartPage(p) \/ ReadStates(p) \/ ReadShared(p) \/ FetchShared(p)
                \/ FetchSharedEnds(p) \/ ReadSharedAgain(p) \/ ReadFails(p)
           \/ UNCHANGED vars
<1> USE DEF Txs
<1>1. ASSUME NEW s \in Syncs, SyncProceeds(s)
      PROVE  \/ LockRow(s) \/ CommitLibrary(s) \/ RecordEmpty(s) \/ Unheard(s)
             \/ FindMissing(s, Library[UserOf[s]]) \/ FetchEnds(s, "end")
  BY <1>1 DEF SyncProceeds, Unheard
<1>2. ASSUME NEW b \in Batches, BatchProceeds(b)
      PROVE  \/ TakeSlot(b) \/ GetDetails(b) \/ StoreBegins(b) \/ LockRow(b) \/ CommitBatch(b)
  BY <1>2 DEF BatchProceeds
<1> QED BY <1>1, <1>2
  DEF Next, Proceed, Falter, PageProceeds, LosesDeadlock, DataFalters, Unheard

\* The lists a fetch is made for.
LEMMA LibraryLists ==
    ASSUME NEW u \in Users
    PROVE  /\ Library[u] \in Seq(Games) /\ Len(Library[u]) <= MaxBatches * BatchSize
           /\ ToSet(Library[u]) \subseteq Games
           /\ IsFiniteSet(ToSet(Library[u])) /\ ToSet(Library[u]) \subseteq Nat
<1>1. Library[u] \in Seq(Nat) /\ Len(Library[u]) <= MaxBatches * BatchSize
  BY LibraryAssumption, BoundsAssumption
<1>2. ToSet(Library[u]) \subseteq Games
  BY DEF Games
<1>3. Library[u] \in Seq(Games)
  BY <1>1, <1>2 DEF ToSet
<1>4. ToSet(Library[u]) \subseteq Nat
  BY <1>1 DEF ToSet
<1>5. IsFiniteSet(ToSet(Library[u]))
  <2>1. Len(Library[u]) \in Nat /\ DOMAIN Library[u] = 1 .. Len(Library[u])
    BY <1>1
  <2>2. Library[u] \in Surjection(1 .. Len(Library[u]), ToSet(Library[u]))
    BY <1>1, <2>1 DEF Surjection, ToSet
  <2>3. IsFiniteSet(1 .. Len(Library[u]))
    BY <2>1, FS_Interval
  <2> QED BY <2>2, <2>3, FS_Surjection
<1> QED BY <1>1, <1>2, <1>3, <1>4, <1>5

\* The ids a fetch finds: those of its list without details, no more than the list has.
LEMMA FetchLists ==
    ASSUME NEW u \in Users, NEW S,
           NEW ids \in {Library[u], Only(Library[u], S)}
    PROVE  LET lacking == Only(ids, {g \in Games : row[g] = "missing"}) IN
           /\ ids \in Seq(Games)
           /\ lacking \in Seq(Games) /\ Len(lacking) <= MaxBatches * BatchSize
           /\ ToSet(lacking) = {g \in ToSet(ids) : row[g] = "missing"}
<1> DEFINE R == {g \in Games : row[g] = "missing"}
<1>1. /\ Library[u] \in Seq(Games) /\ Len(Library[u]) <= MaxBatches * BatchSize
      /\ MaxBatches * BatchSize \in Nat
  BY LibraryLists, BoundsAssumption
<1>2. Only(Library[u], S) \in Seq(Games) /\ Len(Only(Library[u], S)) <= Len(Library[u])
  BY <1>1, OnlyLists
<1>3. ids \in Seq(Games) /\ Len(ids) <= Len(Library[u])
  BY <1>1, <1>2
<1>4. Only(ids, R) \in Seq(Games) /\ Len(Only(ids, R)) <= Len(ids)
      /\ ToSet(Only(ids, R)) = ToSet(ids) \cap R
  <2> HIDE DEF R
  <2> QED BY <1>3, OnlyLists
<1>5. ToSet(ids) \subseteq Games
  BY <1>3 DEF ToSet
<1>6. Len(Only(ids, R)) <= MaxBatches * BatchSize
  <2> HIDE DEF R
  <2>1. Len(Only(ids, R)) \in Nat /\ Len(ids) \in Nat /\ Len(Library[u]) \in Nat
    BY <1>1, <1>3, <1>4
  <2> DEFINE m == MaxBatches * BatchSize
  <2>2. m \in Nat /\ Len(Library[u]) <= m
    BY <1>1
  <2> HIDE DEF m
  <2>3. Len(Only(ids, R)) <= m
    BY <1>3, <1>4, <2>1, <2>2
  <2> QED BY <2>3 DEF m
<1> QED BY <1>3, <1>4, <1>5, <1>6

\* What a transaction locks, in its order.
LEMMA OrderLists ==
    ASSUME NEW t \in Txs, \A c \in Callers : missing[c] \in Seq(Games)
    PROVE  /\ Order(t) \in Seq(Games)
           /\ t \in Syncs =>
                /\ ToSet(Order(t)) = ToSet(Library[UserOf[t]])
                /\ \A j, k \in 1 .. Len(Order(t)) : j < k => Order(t)[j] < Order(t)[k]
           /\ t \in Batches => Order(t) = Rows(t) /\ ToSet(Rows(t)) \subseteq ToSet(missing[t[1]])
<1>1. CASE t \in Syncs
  <2> DEFINE L == ToSet(Library[UserOf[t]])
  <2>1. L \in SUBSET Nat /\ L \subseteq Games /\ IsFiniteSet(L)
    BY <1>1, UserOfAssumption, LibraryLists
  <2>2. Order(t) = Ascending(L)
    BY <1>1 DEF Order
  <2> HIDE DEF L
  <2>3. /\ Cardinality(L) \in Nat
        /\ Ascending(L) \in [1 .. Cardinality(L) -> L]
        /\ \A n \in L : \E k \in 1 .. Cardinality(L) : Ascending(L)[k] = n
        /\ \A j, k \in 1 .. Cardinality(L) : j < k => Ascending(L)[j] < Ascending(L)[k]
    BY <2>1, AscendingLists
  <2>4. Order(t) \in Seq(Games) /\ Len(Order(t)) = Cardinality(L)
    <3> DEFINE n == Cardinality(L)
               order == Ascending(L)
    <3>1. n \in Nat /\ order \in [1 .. n -> Games]
      BY <2>1, <2>3
    <3> HIDE DEF n, order
    <3>2. order \in Seq(Games) /\ Len(order) = n
      BY <3>1
    <3> QED BY <2>2, <3>2 DEF n, order
  <2>5. ToSet(Order(t)) = L
    BY <2>2, <2>3 DEF ToSet
  <2>6. t \notin Batches
    BY <1>1, CallersAssumption
  <2> QED BY <2>2, <2>3, <2>4, <2>5, <2>6 DEF L
<1>2. CASE t \in Batches
  <2>1. t \notin Syncs /\ t[1] \in Callers /\ t[2] \in Nat \ {0}
    BY <1>2, CallersAssumption DEF Batches
  <2>2. Order(t) = Rows(t) /\ Rows(t) = Slice(missing[t[1]], t[2])
    BY <2>1 DEF Order, Rows, Slice
  <2>3. Slice(missing[t[1]], t[2]) \in Seq(Games)
        /\ ToSet(Slice(missing[t[1]], t[2])) \subseteq ToSet(missing[t[1]])
    BY <2>1, SliceLists
  <2> QED BY <2>1, <2>2, <2>3
<1> QED BY <1>1, <1>2 DEF Txs

-----------------------------------------------------------------------------
\* The next row of a transaction that is not done is a game it has not locked.
LEMMA NextRowIsNext ==
    ASSUME FetchInv, NEW t \in Txs, Locking(t)
    PROVE  \E k \in 0 .. Len(Order(t)) :
              /\ k + 1 \in 1 .. Len(Order(t)) /\ NextRow(t) = Order(t)[k + 1]
              /\ NextRow(t) \in Games
              /\ Held(t) = {Order(t)[i] : i \in 1 .. k}
              /\ IsFiniteSet(Held(t)) /\ Cardinality(Held(t)) = k
<1>1. Order(t) \in Seq(Games)
  BY OrderLists DEF FetchInv, TypeOK, DataTypeOK
<1>2. PICK k \in 0 .. Len(Order(t)) :
        /\ Held(t) = {Order(t)[i] : i \in 1 .. k}
        /\ IsFiniteSet(Held(t)) /\ Cardinality(Held(t)) = k
  BY DEF FetchInv, LocksInOrder
<1>3. k + 1 \in 1 .. Len(Order(t)) /\ NextRow(t) = Order(t)[k + 1]
  BY <1>1, <1>2 DEF Locking, NextRow
<1>4. NextRow(t) \in Games
  BY <1>1, <1>3
<1> WITNESS k \in 0 .. Len(Order(t))
<1> QED BY <1>2, <1>3, <1>4

LEMMA TypeHolds ==
    ASSUME SharedInv, FetchInv, [Next]_vars
    PROVE  TypeOK'
<1> USE KindsDiffer DEF FetchInv, TypeOK, DataTypeOK, pageVars
<1>a. DOMAIN at = Callers
  BY DEF SharedInv, PageTypes
<1>1. ASSUME NEW t \in Txs, LockRow(t), UNCHANGED pageVars PROVE TypeOK'
  <2>1. NextRow(t) \in Games /\ tx[t] = "open"
    BY <1>1, NextRowIsNext DEF LockRow, Locking
  <2> QED BY <1>1, <2>1 DEF LockRow
<1>2. ASSUME NEW s \in Syncs, UNCHANGED pageVars,
             CommitLibrary(s) \/ RecordEmpty(s) \/ LibraryFails(s) \/ LibraryLosesDeadlock(s)
      PROVE  TypeOK'
  <2> USE <1>a, UserOfAssumption
  <2>1. CASE CommitLibrary(s)
    <3>1. row' \in [Games -> {"none", "missing", "multiplayer", "other"}]
      BY <2>1 DEF CommitLibrary, LibraryStored
    <3>2. /\ owner' \in [Games -> Txs \cup {NoTx}]
          /\ \A g \in Games : owner'[g] # NoTx => tx'[owner'[g]] \in {"open", "committing"}
      BY <2>1 DEF CommitLibrary, LibraryStored, Without
    <3> QED BY <1>2, <2>1, <3>1, <3>2 DEF CommitLibrary, LibraryStored
  <2>2. CASE RecordEmpty(s)
    <3>1. \A g \in Games : owner[g] # s
      BY <2>2 DEF RecordEmpty, Held
    <3> QED BY <1>2, <2>2, <3>1 DEF RecordEmpty
  <2>3. CASE LibraryFails(s)
    <3>1. /\ owner' \in [Games -> Txs \cup {NoTx}]
          /\ \A g \in Games : owner'[g] # NoTx => tx'[owner'[g]] \in {"open", "committing"}
      BY <2>3 DEF LibraryFails, Without
    <3> QED BY <1>2, <2>3, <3>1 DEF LibraryFails
  <2>4. CASE LibraryLosesDeadlock(s)
    <3>1. tx[s] = "open"
      BY <2>4 DEF LibraryLosesDeadlock, Deadlocked, Locking
    <3>2. tries' \in [Syncs -> 0 .. StoreAttempts]
      BY <2>4, <3>1, BoundsAssumption DEF LibraryLosesDeadlock, SyncsKnow
    <3>a. \/ UNCHANGED <<tx, at>>
          \/ tx' = [tx EXCEPT ![s] = "rolledBack"] /\ at' = [at EXCEPT ![s] = "end"]
      BY <2>4 DEF LibraryLosesDeadlock
    <3>3. /\ tx' \in [Txs -> {"none", "open", "committing", "committed", "unheard", "rolledBack"}]
          /\ at' = at \/ at' = [at EXCEPT ![s] = "end"]
          /\ tx' = tx \/ tx' = [tx EXCEPT ![s] = "rolledBack"]
      BY <3>a
    <3>4. /\ owner' \in [Games -> Txs \cup {NoTx}]
          /\ \A g \in Games : owner'[g] # NoTx => tx'[owner'[g]] \in {"open", "committing"}
      BY <2>4, <3>3 DEF LibraryLosesDeadlock, Without
    <3>6. \A r \in Syncs : at'[r] \in {"library", "ask", "fetch", "end"}
      BY <3>3
    <3>7. \A p \in Pages : at'[p] = at[p]
      BY <3>3
    <3>8. UNCHANGED <<row, state, missing, batch, onLock>>
      BY <2>4 DEF LibraryLosesDeadlock
    <3> QED BY <1>2, <3>2, <3>3, <3>4, <3>6, <3>7, <3>8
  <2> QED BY <1>2, <2>1, <2>2, <2>3, <2>4
<1>3. ASSUME NEW c \in Callers, NEW u \in Users, NEW S,
             NEW ids \in {Library[u], Only(Library[u], S)},
             FindMissing(c, ids), UNCHANGED pageVars
      PROVE  TypeOK'
  <2>1. Only(ids, {g \in Games : row[g] = "missing"}) \in Seq(Games)
    BY FetchLists
  <2>2. \A d \in Callers : missing'[d] \in Seq(Games)
    BY <1>3, <2>1 DEF FindMissing
  <2>3. batch' \in [Batches -> Active \cup {"none", "stored", "failed"}]
    BY <1>3 DEF FindMissing, Active
  <2>4. at' = [at EXCEPT ![c] = "fetch"] /\ UNCHANGED <<row, state, tx, owner, tries, onLock>>
    BY <1>3 DEF FindMissing
  <2>5. /\ \A s \in Syncs : at'[s] \in {at[s], "fetch"}
        /\ \A p \in Pages : at'[p] \in {at[p], "fetch"}
    BY <1>a, <2>4
  <2>6. DataTypeOK'
    BY <2>2, <2>3, <2>4
  <2>7. /\ \A s \in Syncs : at'[s] \in {"library", "ask", "fetch", "end"}
        /\ \A p \in Pages : at'[p] \in {"start", "states", "shared", "ask", "fetch", "again",
              "unfetched", "end", "short", "error"}
    BY <2>5
  <2> QED BY <1>3, <2>6, <2>7
<1>4. ASSUME NEW s \in Syncs, UNCHANGED pageVars, FindMissingFails(s, "end") \/ FetchEnds(s, "end")
      PROVE  TypeOK'
  <2>1. at' = [at EXCEPT ![s] = "end"] /\ UNCHANGED dataButAt
    BY <1>4 DEF FindMissingFails, FetchEnds, dataButAt
  <2>2. /\ \A r \in Syncs : at'[r] \in {at[r], "end"}
        /\ \A p \in Pages : at'[p] = at[p]
    BY <1>a, <2>1
  <2> QED BY <1>4, <2>1, <2>2 DEF dataButAt
<1>5. ASSUME NEW b \in Batches, UNCHANGED pageVars,
             TakeSlot(b) \/ GetDetails(b) \/ DetailsFail(b) \/ StoreTooLate(b) \/ StoreGivenUp(b)
      PROVE  TypeOK'
  <2>1. /\ \E to \in {"asking", "answered", "failed"} : batch' = [batch EXCEPT ![b] = to]
        /\ onLock' \subseteq onLock
        /\ UNCHANGED <<row, state, tx, owner, tries, at, missing>>
    BY <1>5 DEF TakeSlot, GetDetails, DetailsFail, StoreTooLate, StoreGivenUp, GoOn
  <2>2. batch' \in [Batches -> Active \cup {"none", "stored", "failed"}]
    BY <2>1 DEF Active
  <2> QED BY <1>5, <2>1, <2>2
<1>6. ASSUME NEW b \in Batches, UNCHANGED pageVars,
             StoreBegins(b) \/ CommitBatch(b) \/ RollBackBatch(b)
      PROVE  TypeOK'
  <2>1. CASE StoreBegins(b)
    <3>1. batch' \in [Batches -> Active \cup {"none", "stored", "failed"}]
      BY <2>1 DEF StoreBegins, GoOn, Active
    <3> QED BY <1>6, <2>1, <3>1 DEF StoreBegins
  <2>2. CASE CommitBatch(b)
    <3>1. row' \in [Games -> {"none", "missing", "multiplayer", "other"}]
      BY <2>2, DetailsAssumption DEF CommitBatch
    <3>2. /\ owner' \in [Games -> Txs \cup {NoTx}]
          /\ \A g \in Games : owner'[g] # NoTx => tx'[owner'[g]] \in {"open", "committing"}
      BY <2>2 DEF CommitBatch, Without
    <3>3. batch' \in [Batches -> Active \cup {"none", "stored", "failed"}]
      BY <2>2 DEF CommitBatch
    <3> QED BY <1>6, <2>2, <3>1, <3>2, <3>3 DEF CommitBatch
  <2>3. CASE RollBackBatch(b)
    <3>1. /\ owner' \in [Games -> Txs \cup {NoTx}]
          /\ \A g \in Games : owner'[g] # NoTx => tx'[owner'[g]] \in {"open", "committing"}
      BY <2>3 DEF RollBackBatch, Without
    <3>2. batch' \in [Batches -> Active \cup {"none", "stored", "failed"}]
      BY <2>3 DEF RollBackBatch
    <3> QED BY <1>6, <2>3, <3>1, <3>2 DEF RollBackBatch
  <2> QED BY <1>6, <2>1, <2>2, <2>3
<1>7. ASSUME NEW p \in Pages,
             \/ StartPage(p) \/ ReadStates(p) \/ ReadShared(p) 
             \/ FetchSharedEnds(p) \/ ReadSharedAgain(p) \/ ReadFails(p)
      PROVE  TypeOK'
  <2>1. \A q \in Pages : SharedStoredGames(q) \subseteq Games /\ Members(q) \subseteq Users
    <3> TAKE q \in Pages
    <3>1. Members(q) \subseteq Users /\ Caller(q) \in Users
      BY MembersAreUsers
    <3>2. Stored(Caller(q)) \subseteq Games
      BY <3>1 DEF Stored, Games
    <3> QED BY <3>1, <3>2 DEF SharedStoredGames
  <2>2. /\ \E to \in {"states", "shared", "ask", "again", "unfetched", "end", "short", "error"} :
              at' = [at EXCEPT ![p] = to]
        /\ UNCHANGED dataButAt
    BY <1>7 DEF StartPage, ReadStates, ReadShared, FetchSharedEnds, ReadSharedAgain, ReadFails,
                PageTo, FindMissingFails, FetchEnds, dataButAt
  <2>3. found' \in [Pages -> SUBSET Games] /\ shown' \in [Pages -> SUBSET Games]
    BY <1>7, <2>1 DEF StartPage, ReadStates, ReadShared, FetchSharedEnds, ReadSharedAgain,
                      ReadFails, Playable, Lacking
  <2>4. messages' \in [Pages -> SUBSET Users]
    BY <1>7, <2>1 DEF StartPage, ReadStates, ReadShared, FetchSharedEnds, ReadSharedAgain,
       ReadFails
  <2> QED BY <1>a, <2>2, <2>3, <2>4 DEF dataButAt
<1>8. ASSUME NEW s \in Syncs, FindMissing(s, Library[UserOf[s]]), UNCHANGED pageVars PROVE TypeOK'
  BY <1>3, <1>8, UserOfAssumption
<1>9. ASSUME NEW p \in Pages, FetchShared(p) PROVE TypeOK'
  BY <1>3, <1>9, MembersAreUsers DEF FetchShared
<1>10. ASSUME NEW s \in Syncs, UNCHANGED pageVars, Unheard(s) PROVE TypeOK'
  <2> USE <1>a, UserOfAssumption
  <2>1. CASE LibraryGivenUp(s)
    <3>1. tx' = [tx EXCEPT ![s] = "committing"] /\ owner' = owner
      BY <2>1 DEF LibraryGivenUp
    <3>2. \A g \in Games : owner'[g] # NoTx => tx'[owner'[g]] \in {"open", "committing"}
      BY <3>1
    <3> QED BY <1>10, <2>1, <3>2 DEF LibraryGivenUp
  <2>2. CASE CommitUnheard(s)
    <3>1. row' \in [Games -> {"none", "missing", "multiplayer", "other"}]
      BY <2>2 DEF CommitUnheard, LibraryStored
    <3>2. /\ owner' \in [Games -> Txs \cup {NoTx}]
          /\ \A g \in Games : owner'[g] # NoTx => tx'[owner'[g]] \in {"open", "committing"}
      BY <2>2 DEF CommitUnheard, LibraryStored, Without
    <3> QED BY <1>10, <2>2, <3>1, <3>2 DEF CommitUnheard, LibraryStored
  <2>3. CASE RollBackUnheard(s)
    <3>1. /\ owner' \in [Games -> Txs \cup {NoTx}]
          /\ \A g \in Games : owner'[g] # NoTx => tx'[owner'[g]] \in {"open", "committing"}
      BY <2>3 DEF RollBackUnheard, Without
    <3> QED BY <1>10, <2>3, <3>1 DEF RollBackUnheard
  <2> QED BY <1>10, <2>1, <2>2, <2>3 DEF Unheard
<1>11. CASE UNCHANGED vars
  BY <1>11 DEF vars
<1> QED BY <1>1, <1>2, <1>4, <1>5, <1>6, <1>7, <1>8, <1>9, <1>10, <1>11, StepCases

\* Locks are taken in order, given back together, and a batch that finds its ids
\* has none yet.
LEMMA LocksHold ==
    ASSUME SharedInv, FetchInv, [Next]_vars
    PROVE  LocksInOrder'
<1> USE DEF pageVars
<1>1. CASE UNCHANGED <<owner, missing>>
  <2>1. ASSUME NEW t \in Txs PROVE Order(t)' = Order(t) /\ Held(t)' = Held(t)
    BY <1>1 DEF Held, Order, Rows
  <2> QED BY <2>1 DEF FetchInv, LocksInOrder
<1>2. ASSUME NEW t \in Txs, LockRow(t) PROVE LocksInOrder'
  <2>1. PICK k \in 0 .. Len(Order(t)) :
          /\ k + 1 \in 1 .. Len(Order(t)) /\ NextRow(t) = Order(t)[k + 1]
          /\ NextRow(t) \in Games
          /\ Held(t) = {Order(t)[i] : i \in 1 .. k}
          /\ IsFiniteSet(Held(t)) /\ Cardinality(Held(t)) = k
    BY <1>2, NextRowIsNext DEF LockRow
  <2>2. /\ owner[NextRow(t)] = NoTx /\ owner' = [owner EXCEPT ![NextRow(t)] = t]
        /\ missing' = missing
    BY <1>2 DEF LockRow
  <2>3. \A u \in Txs : Order(u)' = Order(u)
    BY <2>2 DEF Order, Rows
  <2>4. owner \in [Games -> Txs \cup {NoTx}] /\ NoTx \notin Txs
    BY NoTxAssumption DEF FetchInv, TypeOK, DataTypeOK
  <2>5. NextRow(t) \notin Held(t) /\ Held(t)' = Held(t) \cup {NextRow(t)}
    BY <2>1, <2>2, <2>4 DEF Held
  <2>6. \A u \in Txs : u # t => Held(u)' = Held(u)
    BY <2>1, <2>2, <2>4 DEF Held
  <2>7. IsFiniteSet(Held(t)') /\ Cardinality(Held(t)') = k + 1
    <3> DEFINE H == Held(t)
               g == NextRow(t)
    <3>1. IsFiniteSet(H) /\ Cardinality(H) = k /\ g \notin H /\ Held(t)' = H \cup {g}
      BY <2>1, <2>5
    <3> HIDE DEF H, g
    <3>2. IsFiniteSet(H \cup {g}) /\ Cardinality(H \cup {g}) = k + 1
      BY <3>1, FS_AddElement
    <3> QED BY <3>1, <3>2
  <2>8. Held(t)' = {Order(t)[i] : i \in 1 .. k + 1}
    <3>1. 1 .. k + 1 = (1 .. k) \cup {k + 1}
      BY <2>1
    <3> QED BY <2>1, <2>5, <3>1
  <2>9. k + 1 \in 0 .. Len(Order(t))
    BY <2>1
  <2> QED BY <2>3, <2>6, <2>7, <2>8, <2>9 DEF FetchInv, LocksInOrder
<1>3. ASSUME NEW t \in Txs, owner' = Without(t), missing' = missing PROVE LocksInOrder'
  <2>1. \A u \in Txs : Order(u)' = Order(u)
    BY <1>3 DEF Order, Rows
  <2>2. NoTx \notin Txs /\ owner \in [Games -> Txs \cup {NoTx}]
    BY NoTxAssumption DEF FetchInv, TypeOK, DataTypeOK
  <2>3. Held(t)' = {} /\ \A u \in Txs : u # t => Held(u)' = Held(u)
    BY <1>3, <2>2 DEF Held, Without
  <2>4. Order(t) \in Seq(Games)
    BY OrderLists DEF FetchInv, TypeOK, DataTypeOK
  <2>5. 0 \in 0 .. Len(Order(t)) /\ {Order(t)[i] : i \in 1 .. 0} = {}
    BY <2>4
  <2>6. IsFiniteSet({}) /\ Cardinality({}) = 0
    BY FS_EmptySet
  <2>7. SUFFICES ASSUME NEW u \in Txs
                 PROVE  \E k \in 0 .. Len(Order(u)') :
                           /\ Held(u)' = {Order(u)'[i] : i \in 1 .. k}
                           /\ IsFiniteSet(Held(u)') /\ Cardinality(Held(u)') = k
    BY DEF LocksInOrder
  <2>8. CASE u = t
    <3>1. Order(u)' = Order(u) /\ Held(u)' = {} /\ 0 \in 0 .. Len(Order(u)')
          /\ {Order(u)[i] : i \in 1 .. 0} = {}
      BY <2>1, <2>3, <2>5, <2>8
    <3> WITNESS 0 \in 0 .. Len(Order(u)')
    <3> QED BY <2>6, <3>1
  <2>9. CASE u # t
    BY <2>1, <2>3, <2>9 DEF FetchInv, LocksInOrder
  <2> QED BY <2>8, <2>9
<1>4. ASSUME NEW c \in Callers, NEW ids, FindMissing(c, ids) PROVE LocksInOrder'
  <2>1. owner' = owner /\ at[c] = "ask" /\ \A d \in Callers : d # c => missing'[d] = missing[d]
    BY <1>4 DEF FindMissing, FetchInv, TypeOK, DataTypeOK
  <2>2. \A u \in Txs : Held(u)' = Held(u)
    BY <2>1 DEF Held
  <2>3. ASSUME NEW u \in Txs, u \in Batches => u[1] # c
        PROVE  Order(u)' = Order(u)
    <3>1. CASE u \in Syncs
      BY <3>1 DEF Order
    <3>2. CASE u \in Batches /\ u \notin Syncs
      <4>1. missing'[u[1]] = missing[u[1]]
        BY <2>1, <2>3, <3>2 DEF Batches
      <4> QED BY <3>2, <4>1 DEF Order, Rows
    <3> QED BY <3>1, <3>2 DEF Txs
  <2>4. ASSUME NEW u \in Batches, u[1] = c
        PROVE  Held(u) = {} /\ 0 \in 0 .. Len(Order(u)') /\ {Order(u)'[i] : i \in 1 .. 0} = {}
    <3>1. tx[u] = "none" /\ u \in Txs
      BY <2>1, <2>4 DEF FetchInv, BatchesKnow, Before, Txs
    <3>2. NoTx \notin Txs
      BY NoTxAssumption
    <3>3. Held(u) = {}
      BY <3>1, <3>2 DEF Held, FetchInv, TypeOK, DataTypeOK
    <3>4. u \notin Syncs /\ u[1] \in Callers /\ u[2] \in Nat \ {0}
      BY CallersAssumption DEF Batches
    <3>5. Order(u)' = Slice(missing'[u[1]], u[2])
      BY <3>4 DEF Order, Rows, Slice
    <3>6. missing'[u[1]] \in Seq(Games)
      BY <3>4, TypeHolds DEF TypeOK, DataTypeOK
    <3>7. Slice(missing'[u[1]], u[2]) \in Seq(Games)
      BY <3>4, <3>6, SliceLists
    <3> QED BY <3>3, <3>5, <3>7
  <2>5. IsFiniteSet({}) /\ Cardinality({}) = 0
    BY FS_EmptySet
  <2>6. SUFFICES ASSUME NEW u \in Txs
                 PROVE  \E k \in 0 .. Len(Order(u)') :
                           /\ Held(u)' = {Order(u)'[i] : i \in 1 .. k}
                           /\ IsFiniteSet(Held(u)') /\ Cardinality(Held(u)') = k
    BY DEF LocksInOrder
  <2>7. CASE u \in Batches => u[1] # c
    BY <2>2, <2>3, <2>7 DEF FetchInv, LocksInOrder
  <2>8. CASE u \in Batches /\ u[1] = c
    BY <2>2, <2>4, <2>5, <2>8
  <2> QED BY <2>7, <2>8
<1>5. ASSUME NEW s \in Syncs,
             \/ CommitLibrary(s) \/ RecordEmpty(s) \/ LibraryFails(s)
             \/ LibraryLosesDeadlock(s) \/ FindMissing(s, Library[UserOf[s]])
             \/ FindMissingFails(s, "end") \/ FetchEnds(s, "end")
      PROVE  LocksInOrder'
  <2>1. s \in Txs /\ s \in Callers
    BY DEF Txs, Callers
  <2>2. CASE CommitLibrary(s) \/ LibraryFails(s) \/ LibraryLosesDeadlock(s)
    <3>1. owner' = Without(s) /\ missing' = missing
      BY <2>2 DEF CommitLibrary, LibraryStored, LibraryFails, LibraryLosesDeadlock
    <3> QED BY <1>3, <2>1, <3>1
  <2>3. CASE RecordEmpty(s) \/ FindMissingFails(s, "end") \/ FetchEnds(s, "end")
    BY <1>1, <2>3 DEF RecordEmpty, FindMissingFails, FetchEnds
  <2> QED BY <1>4, <1>5, <2>1, <2>2, <2>3
<1>6. ASSUME NEW b \in Batches,
             \/ TakeSlot(b) \/ GetDetails(b) \/ DetailsFail(b) \/ StoreBegins(b)
             \/ StoreTooLate(b) \/ StoreGivenUp(b) \/ CommitBatch(b) \/ RollBackBatch(b)
      PROVE  LocksInOrder'
  <2>1. b \in Txs
    BY DEF Txs
  <2>2. CASE CommitBatch(b) \/ RollBackBatch(b)
    <3>1. owner' = Without(b) /\ missing' = missing
      BY <2>2 DEF CommitBatch, RollBackBatch
    <3> QED BY <1>3, <2>1, <3>1
  <2>3. UNCHANGED <<owner, missing>> \/ CommitBatch(b) \/ RollBackBatch(b)
    BY <1>6 DEF TakeSlot, GetDetails, DetailsFail, StoreBegins, StoreTooLate, StoreGivenUp
  <2> QED BY <1>1, <2>2, <2>3
<1>7. ASSUME NEW p \in Pages,
             \/ StartPage(p) \/ ReadStates(p) \/ ReadShared(p) \/ FetchShared(p)
             \/ FetchSharedEnds(p) \/ ReadSharedAgain(p) \/ ReadFails(p)
      PROVE  LocksInOrder'
  <2>1. CASE FetchShared(p)
    BY <1>4, <2>1 DEF FetchShared, Callers
  <2>2. UNCHANGED <<owner, missing>> \/ FetchShared(p)
    BY <1>7 DEF StartPage, ReadStates, ReadShared, FetchSharedEnds, ReadSharedAgain, ReadFails,
                FindMissingFails, FetchEnds, dataButAt
  <2> QED BY <1>1, <2>1, <2>2
<1>8. ASSUME NEW s \in Syncs, Unheard(s) PROVE LocksInOrder'
  <2>1. s \in Txs /\ missing' = missing /\ (owner' = owner \/ owner' = Without(s))
    BY <1>8 DEF Unheard, LibraryGivenUp, CommitUnheard, RollBackUnheard, LibraryStored, Txs
  <2> QED BY <1>1, <1>3, <2>1
<1> QED BY <1>1, <1>2, <1>5, <1>6, <1>7, <1>8, StepCases DEF vars

\* What a step of page p does to the fetches: p goes on, and may make its list.
PageGoesOn(p) ==
    \/ /\ \E to \in {"states", "shared", "ask", "again", "unfetched", "end", "short", "error"} :
             at' = [at EXCEPT ![p] = to]
       /\ at[p] # "end"
       /\ UNCHANGED dataButAt
    \/ \E u \in Users : \E S : FindMissing(p, Only(Library[u], S))

LEMMA PagesGoOn ==
    ASSUME NEW p \in Pages,
           \/ StartPage(p) \/ ReadStates(p) \/ ReadShared(p) \/ FetchShared(p)
           \/ FetchSharedEnds(p) \/ ReadSharedAgain(p) \/ ReadFails(p)
    PROVE  PageGoesOn(p)
<1>1. CASE FetchShared(p)
  BY <1>1, MembersAreUsers DEF FetchShared, PageGoesOn
<1>2. CASE StartPage(p) \/ ReadStates(p) \/ ReadShared(p)
  BY <1>2 DEF StartPage, ReadStates, ReadShared, PageTo, PageGoesOn
<1>3. CASE FetchSharedEnds(p) \/ ReadSharedAgain(p) \/ ReadFails(p)
  BY <1>3 DEF FetchSharedEnds, ReadSharedAgain, ReadFails, PageTo, FindMissingFails, FetchEnds,
              dataButAt, PageGoesOn
<1> QED BY <1>1, <1>2, <1>3

LEMMA SyncsStillKnow ==
    ASSUME SharedInv, FetchInv, [Next]_vars
    PROVE  SyncsKnow'
<1> USE KindsDiffer DEF FetchInv, TypeOK, DataTypeOK
<1>a. DOMAIN at = Callers
  BY DEF SharedInv, PageTypes
<1>2. ASSUME NEW s \in Syncs,
             \/ CommitLibrary(s) \/ RecordEmpty(s) \/ LibraryFails(s)
             \/ FindMissing(s, Library[UserOf[s]])
             \/ FindMissingFails(s, "end") \/ FetchEnds(s, "end")
      PROVE  SyncsKnow'
  <2>1. /\ tries' = tries
        /\ \/ /\ at[s] = "library"
              /\ \/ tx' = [tx EXCEPT ![s] = "committed"] /\ at' = [at EXCEPT ![s] = "ask"]
                 \/ /\ \E to \in {"none", "rolledBack"} : tx' = [tx EXCEPT ![s] = to]
                    /\ at' = [at EXCEPT ![s] = "end"]
           \/ /\ at[s] \in {"ask", "fetch"} /\ tx' = tx
              /\ \E to \in {"fetch", "end"} : at' = [at EXCEPT ![s] = to]
    BY <1>2 DEF CommitLibrary, LibraryStored, RecordEmpty, LibraryFails, FindMissing,
                FindMissingFails, FetchEnds
  <2> QED BY <1>a, <2>1 DEF SyncsKnow
<1>3. ASSUME NEW s \in Syncs, LibraryLosesDeadlock(s) PROVE SyncsKnow'
  <2>1. tx[s] = "open"
    BY <1>3 DEF LibraryLosesDeadlock, Deadlocked, Locking
  <2>2. tries' = [tries EXCEPT ![s] = @ + 1]
    BY <1>3 DEF LibraryLosesDeadlock
  <2>3. CASE tries[s] + 1 < StoreAttempts /\ UNCHANGED <<tx, at>>
    BY <1>a, <2>1, <2>2, <2>3 DEF SyncsKnow
  <2>4. CASE /\ tx' = [tx EXCEPT ![s] = "rolledBack"]
             /\ at' = [at EXCEPT ![s] = "end"]
    BY <1>a, <2>1, <2>2, <2>4 DEF SyncsKnow
  <2> QED BY <1>3, <2>3, <2>4 DEF LibraryLosesDeadlock
<1>4. ASSUME NEW b \in Batches,
             \/ TakeSlot(b) \/ GetDetails(b) \/ DetailsFail(b) \/ StoreBegins(b)
             \/ StoreTooLate(b) \/ StoreGivenUp(b) \/ CommitBatch(b) \/ RollBackBatch(b)
      PROVE  SyncsKnow'
  <2>1. /\ tx' = tx \/ \E to : tx' = [tx EXCEPT ![b] = to]
        /\ UNCHANGED <<at, tries>>
    BY <1>4 DEF TakeSlot, GetDetails, DetailsFail, StoreBegins, StoreTooLate, StoreGivenUp,
                CommitBatch, RollBackBatch
  <2> QED BY <2>1 DEF SyncsKnow
<1>5. ASSUME NEW p \in Pages,
             \/ StartPage(p) \/ ReadStates(p) \/ ReadShared(p) \/ FetchShared(p)
             \/ FetchSharedEnds(p) \/ ReadSharedAgain(p) \/ ReadFails(p)
      PROVE  SyncsKnow'
  <2>1. (\E to : at' = [at EXCEPT ![p] = to]) /\ UNCHANGED <<tx, tries>>
    BY <1>5, PagesGoOn DEF PageGoesOn, FindMissing, dataButAt
  <2> QED BY <2>1 DEF SyncsKnow
<1>6. CASE UNCHANGED <<tx, at, tries>>
  BY <1>6 DEF SyncsKnow
<1>7. ASSUME NEW s \in Syncs, Unheard(s) PROVE SyncsKnow'
  <2>1. /\ tries' = tries
        /\ \/ /\ at[s] = "library" /\ at' = [at EXCEPT ![s] = "end"]
              /\ tx' = [tx EXCEPT ![s] = "committing"]
           \/ /\ tx[s] = "committing" /\ at' = at
              /\ \E to \in {"unheard", "rolledBack"} : tx' = [tx EXCEPT ![s] = to]
    BY <1>7 DEF Unheard, LibraryGivenUp, CommitUnheard, RollBackUnheard, LibraryStored
  <2> QED BY <1>a, <2>1 DEF SyncsKnow
<1> QED BY <1>2, <1>3, <1>4, <1>5, <1>6, <1>7, StepCases DEF LockRow, vars

LEMMA ListsStillFit ==
    ASSUME SharedInv, FetchInv, [Next]_vars
    PROVE  ListsFit'
<1> USE KindsDiffer DEF FetchInv, TypeOK, DataTypeOK
<1>a. DOMAIN at = Callers
  BY DEF SharedInv, PageTypes
<1>1. ASSUME NEW c \in Callers, missing' = missing, NEW to, at' = [at EXCEPT ![c] = to],
             to \in Before => at[c] \in Before
      PROVE  ListsFit'
  BY <1>a, <1>1 DEF ListsFit
<1>2. CASE UNCHANGED <<at, missing>>
  BY <1>2 DEF ListsFit
<1>3. ASSUME NEW c \in Callers, NEW u \in Users, NEW S,
             NEW ids \in {Library[u], Only(Library[u], S)},
             FindMissing(c, ids)
      PROVE  ListsFit'
  <2> DEFINE lacking == Only(ids, {g \in Games : row[g] = "missing"})
  <2>1. Len(lacking) <= MaxBatches * BatchSize
    BY FetchLists
  <2> HIDE DEF lacking
  <2>2. missing' = [missing EXCEPT ![c] = lacking] /\ at' = [at EXCEPT ![c] = "fetch"]
    BY <1>3 DEF FindMissing, lacking
  <2>3. ASSUME NEW d \in Callers
        PROVE  /\ Len(missing'[d]) <= MaxBatches * BatchSize
               /\ at'[d] \in Before => missing'[d] = <<>>
    <3>1. CASE d = c
      BY <1>a, <2>1, <2>2, <3>1 DEF Before, ListsFit
    <3>2. CASE d # c
      BY <1>a, <2>2, <3>2 DEF ListsFit
    <3> QED BY <3>1, <3>2
  <2> QED BY <2>2, <2>3 DEF ListsFit
<1>4. ASSUME NEW s \in Syncs,
             \/ CommitLibrary(s) \/ RecordEmpty(s) \/ LibraryFails(s)
             \/ FindMissingFails(s, "end") \/ FetchEnds(s, "end")
      PROVE  ListsFit'
  <2>1. PICK to \in {"ask", "end"} : /\ at' = [at EXCEPT ![s] = to]
                                     /\ to = "ask" => at[s] = "library"
    BY <1>4 DEF CommitLibrary, RecordEmpty, LibraryFails, FindMissingFails, FetchEnds
  <2>2. missing' = missing
    BY <1>4 DEF CommitLibrary, LibraryStored, RecordEmpty, LibraryFails, FindMissingFails, FetchEnds
  <2>3. s \in Callers /\ (to \in Before => at[s] \in Before)
    BY <2>1 DEF Before
  <2> QED BY <1>1, <2>1, <2>2, <2>3
<1>5. ASSUME NEW s \in Syncs, LibraryLosesDeadlock(s) PROVE ListsFit'
  <2>1. missing' = missing /\ (at' = at \/ at' = [at EXCEPT ![s] = "end"])
    BY <1>5 DEF LibraryLosesDeadlock
  <2>2. s \in Callers /\ "end" \notin Before
    BY DEF Before
  <2>3. CASE at' = [at EXCEPT ![s] = "end"]
    BY <1>1, <2>1, <2>2, <2>3
  <2> QED BY <1>2, <2>1, <2>3
<1>6. ASSUME NEW s \in Syncs, FindMissing(s, Library[UserOf[s]]) PROVE ListsFit'
  BY <1>3, <1>6, UserOfAssumption
<1>7. ASSUME NEW b \in Batches,
             \/ TakeSlot(b) \/ GetDetails(b) \/ DetailsFail(b) \/ StoreBegins(b)
             \/ StoreTooLate(b) \/ StoreGivenUp(b) \/ CommitBatch(b) \/ RollBackBatch(b)
      PROVE  ListsFit'
  <2>1. UNCHANGED <<at, missing>>
    BY <1>7 DEF TakeSlot, GetDetails, DetailsFail, StoreBegins, StoreTooLate, StoreGivenUp,
                CommitBatch, RollBackBatch
  <2> QED BY <1>2, <2>1
<1>8. ASSUME NEW p \in Pages,
             \/ StartPage(p) \/ ReadStates(p) \/ ReadShared(p) \/ FetchShared(p)
             \/ FetchSharedEnds(p) \/ ReadSharedAgain(p) \/ ReadFails(p)
      PROVE  ListsFit'
  <2>1. CASE FetchShared(p)
    BY <1>3, <2>1, MembersAreUsers DEF FetchShared
  <2>2. CASE StartPage(p) \/ ReadStates(p) \/ ReadShared(p)
    <3>1. /\ at[p] \in Before /\ missing' = missing
          /\ \E to : at' = [at EXCEPT ![p] = to]
      BY <2>2 DEF StartPage, ReadStates, ReadShared, PageTo, dataButAt, Before
    <3> QED BY <1>1, <3>1
  <2>3. CASE FetchSharedEnds(p) \/ ReadSharedAgain(p) \/ ReadFails(p)
    <3>1. \E to \in {"again", "unfetched", "end", "short", "error"} : at' = [at EXCEPT ![p] = to]
      BY <2>3 DEF FetchSharedEnds, ReadSharedAgain, ReadFails, PageTo, FindMissingFails, FetchEnds
    <3>2. missing' = missing
      BY <2>3 DEF FetchSharedEnds, ReadSharedAgain, ReadFails, FindMissingFails, FetchEnds,
         dataButAt
    <3> QED BY <1>1, <3>1, <3>2 DEF Before
  <2> QED BY <1>8, <2>1, <2>2, <2>3
<1>9. ASSUME NEW s \in Syncs, Unheard(s) PROVE ListsFit'
  <2>1. missing' = missing /\ (at' = at \/ at' = [at EXCEPT ![s] = "end"])
    BY <1>9 DEF Unheard, LibraryGivenUp, CommitUnheard, RollBackUnheard, LibraryStored
  <2>2. s \in Callers /\ "end" \notin Before
    BY DEF Before
  <2>3. CASE at' = [at EXCEPT ![s] = "end"]
    BY <1>1, <2>1, <2>2, <2>3
  <2> QED BY <1>2, <2>1, <2>3
<1> QED BY <1>2, <1>4, <1>5, <1>6, <1>7, <1>8, <1>9, StepCases DEF LockRow, vars

\* What has locked all its rows has locked the rows of its order.
LEMMA AllLocked ==
    ASSUME FetchInv, NEW t \in Txs, Locked(t)
    PROVE  Held(t) = ToSet(Order(t))
<1>1. Order(t) \in Seq(Games)
  BY OrderLists DEF FetchInv, TypeOK, DataTypeOK
<1>2. PICK k \in 0 .. Len(Order(t)) :
        Held(t) = {Order(t)[i] : i \in 1 .. k} /\ Cardinality(Held(t)) = k
  BY DEF FetchInv, LocksInOrder
<1>3. k = Len(Order(t))
  BY <1>2 DEF Locked
<1>4. DOMAIN Order(t) = 1 .. Len(Order(t))
  BY <1>1
<1> QED BY <1>2, <1>3, <1>4 DEF ToSet

\* A row is never lost, and details are kept.
RowsKept == \A g \in Games :
    /\ row[g] # "none" => row'[g] # "none"
    /\ row[g] \in Known => row'[g] \in Known

LEMMA RowsAreKept ==
    ASSUME FetchInv, [Next]_vars
    PROVE  RowsKept
<1> USE DEF RowsKept
<1>1. CASE row' = row
  BY <1>1
<1>2. ASSUME NEW s \in Syncs, LibraryStored(s) PROVE RowsKept
  BY <1>2 DEF LibraryStored, Known
<1>3. ASSUME NEW b \in Batches, CommitBatch(b) PROVE RowsKept
  BY <1>3, DetailsAssumption DEF CommitBatch, Known
<1>4. ASSUME NEW s \in Syncs,
             \/ CommitLibrary(s) \/ RecordEmpty(s) \/ LibraryFails(s)
             \/ LibraryLosesDeadlock(s) \/ FindMissing(s, Library[UserOf[s]])
             \/ FindMissingFails(s, "end") \/ FetchEnds(s, "end")
      PROVE  row' = row \/ LibraryStored(s)
  BY <1>4 DEF CommitLibrary, RecordEmpty, LibraryFails, LibraryLosesDeadlock, FindMissing,
     FindMissingFails, FetchEnds
<1>5. ASSUME NEW b \in Batches,
             \/ TakeSlot(b) \/ GetDetails(b) \/ DetailsFail(b) \/ StoreBegins(b)
             \/ StoreTooLate(b) \/ StoreGivenUp(b) \/ CommitBatch(b) \/ RollBackBatch(b)
      PROVE  row' = row \/ CommitBatch(b)
  BY <1>5 DEF TakeSlot, GetDetails, DetailsFail, StoreBegins, StoreTooLate, StoreGivenUp,
     RollBackBatch
<1>6. ASSUME NEW p \in Pages,
             \/ StartPage(p) \/ ReadStates(p) \/ ReadShared(p) \/ FetchShared(p)
             \/ FetchSharedEnds(p) \/ ReadSharedAgain(p) \/ ReadFails(p)
      PROVE  row' = row
  BY <1>6, PagesGoOn DEF PageGoesOn, FindMissing, dataButAt
<1>7. ASSUME NEW s \in Syncs, Unheard(s) PROVE row' = row \/ LibraryStored(s)
  BY <1>7 DEF Unheard, LibraryGivenUp, CommitUnheard, RollBackUnheard
<1> QED BY <1>1, <1>2, <1>3, <1>4, <1>5, <1>6, <1>7, StepCases DEF LockRow, vars

LEMMA BatchesStillKnow ==
    ASSUME SharedInv, FetchInv, [Next]_vars
    PROVE  BatchesKnow'
<1> USE KindsDiffer DEF FetchInv, TypeOK, DataTypeOK
<1>a. DOMAIN at = Callers
  BY DEF SharedInv, PageTypes
<1>1. ASSUME NEW c \in Callers, NEW to, at' = [at EXCEPT ![c] = to],
             to \in Before => at[c] \in Before, UNCHANGED <<batch, missing>>,
             \A b \in Batches : tx'[b] = tx[b]
      PROVE  BatchesKnow'
  <2>1. \A b \in Batches : at'[b[1]] \in Before => at[b[1]] \in Before
    BY <1>a, <1>1
  <2> QED BY <1>1, <2>1 DEF BatchesKnow
<1>2. CASE UNCHANGED <<at, batch, missing>> /\ \A b \in Batches : tx'[b] = tx[b]
  BY <1>2 DEF BatchesKnow
<1>3. ASSUME NEW c \in Callers, NEW ids, FindMissing(c, ids)
      PROVE  BatchesKnow'
  <2> DEFINE lacking == Only(ids, {g \in Games : row[g] = "missing"})
  <2> HIDE DEF lacking
  <2>1. /\ at[c] = "ask" /\ at' = [at EXCEPT ![c] = "fetch"] /\ tx' = tx
        /\ missing' = [missing EXCEPT ![c] = lacking]
        /\ batch' = [b \in Batches |->
                        IF b[1] = c /\ b[2] <= BatchCount(Len(lacking))
                        THEN "queued" ELSE batch[b]]
    BY <1>3 DEF FindMissing, lacking
  <2> SUFFICES ASSUME NEW b \in Batches
               PROVE  /\ at'[b[1]] \in Before => batch'[b] = "none"
                      /\ batch'[b] \in {"none", "queued", "asking", "answered"} => tx'[b] = "none"
                      /\ batch'[b] = "storing" => tx'[b] = "open"
                      /\ batch'[b] = "stored" => tx'[b] = "committed"
                      /\ b[2] <= BatchCount(Len(missing'[b[1]])) => batch'[b] # "none"
    BY DEF BatchesKnow
  <2>2. CASE b[1] = c
    <3>1. batch[b] = "none" /\ tx[b] = "none"
      BY <2>1, <2>2 DEF BatchesKnow, Before
    <3>2. missing'[b[1]] = lacking /\ at'[b[1]] = "fetch"
      BY <1>a, <2>1, <2>2 DEF ListsFit
    <3> QED BY <2>1, <2>2, <3>1, <3>2 DEF Before
  <2>3. CASE b[1] # c
    <3>1. missing'[b[1]] = missing[b[1]] /\ at'[b[1]] = at[b[1]]
      BY <1>a, <2>1, <2>3 DEF ListsFit
    <3> QED BY <2>1, <2>3, <3>1 DEF BatchesKnow
  <2> QED BY <2>2, <2>3
<1>4. ASSUME NEW s \in Syncs,
             \/ CommitLibrary(s) \/ RecordEmpty(s) \/ LibraryFails(s)
             \/ FindMissingFails(s, "end") \/ FetchEnds(s, "end")
      PROVE  BatchesKnow'
  <2>1. PICK to \in {"ask", "end"} : /\ at' = [at EXCEPT ![s] = to]
                                     /\ to = "ask" => at[s] = "library"
    BY <1>4 DEF CommitLibrary, RecordEmpty, LibraryFails, FindMissingFails, FetchEnds
  <2>2. /\ UNCHANGED <<batch, missing>>
        /\ tx' = tx \/ \E end : tx' = [tx EXCEPT ![s] = end]
    BY <1>4 DEF CommitLibrary, LibraryStored, RecordEmpty, LibraryFails, FindMissingFails, FetchEnds
  <2>3. s \in Callers /\ (to \in Before => at[s] \in Before) /\ \A b \in Batches : tx'[b] = tx[b]
    BY <2>1, <2>2 DEF Before
  <2> QED BY <1>1, <2>1, <2>2, <2>3
<1>5. ASSUME NEW s \in Syncs, LibraryLosesDeadlock(s) PROVE BatchesKnow'
  <2>1. /\ UNCHANGED <<batch, missing>> /\ (at' = at \/ at' = [at EXCEPT ![s] = "end"])
        /\ tx' = tx \/ tx' = [tx EXCEPT ![s] = "rolledBack"]
    BY <1>5 DEF LibraryLosesDeadlock
  <2>2. s \in Callers /\ "end" \notin Before /\ \A b \in Batches : tx'[b] = tx[b]
    BY <2>1 DEF Before
  <2>3. CASE at' = [at EXCEPT ![s] = "end"]
    BY <1>1, <2>1, <2>2, <2>3
  <2> QED BY <1>2, <2>1, <2>2, <2>3
<1>6. ASSUME NEW b \in Batches,
             \/ TakeSlot(b) \/ GetDetails(b) \/ DetailsFail(b) \/ StoreBegins(b)
             \/ StoreTooLate(b) \/ StoreGivenUp(b) \/ CommitBatch(b) \/ RollBackBatch(b)
      PROVE  BatchesKnow'
  <2>1. /\ UNCHANGED <<at, missing>>
        /\ \/ batch[b] = "queued" /\ batch' = [batch EXCEPT ![b] = "asking"] /\ tx' = tx
           \/ batch[b] = "asking" /\ batch' = [batch EXCEPT ![b] = "answered"] /\ tx' = tx
           \/ batch[b] # "none" /\ batch' = [batch EXCEPT ![b] = "failed"] /\ tx' = tx
           \/ batch[b] = "answered" /\ batch' = [batch EXCEPT ![b] = "storing"]
              /\ tx' = [tx EXCEPT ![b] = "open"]
           \/ tx[b] = "open" /\ tx' = [tx EXCEPT ![b] = "committed"]
              /\ batch' = [batch EXCEPT ![b] = IF @ = "storing" THEN "stored" ELSE @]
           \/ tx[b] = "open" /\ tx' = [tx EXCEPT ![b] = "rolledBack"]
              /\ batch' = [batch EXCEPT ![b] = "failed"]
    BY <1>6 DEF TakeSlot, GetDetails, DetailsFail, StoreBegins, StoreTooLate, StoreGivenUp,
                CommitBatch, RollBackBatch, GoOn, Locked
  <2>2. tx[b] = "open" => batch[b] \in {"storing", "failed"}
    BY DEF BatchesKnow, Active
  <2> QED BY <2>1, <2>2 DEF BatchesKnow
<1>7. ASSUME NEW p \in Pages,
             \/ StartPage(p) \/ ReadStates(p) \/ ReadShared(p) \/ FetchShared(p)
             \/ FetchSharedEnds(p) \/ ReadSharedAgain(p) \/ ReadFails(p)
      PROVE  BatchesKnow'
  <2>1. CASE FetchShared(p)
    BY <1>3, <2>1 DEF FetchShared
  <2>2. CASE StartPage(p) \/ ReadStates(p) \/ ReadShared(p)
    <3>1. /\ at[p] \in Before /\ UNCHANGED <<batch, missing, tx>>
          /\ \E to : at' = [at EXCEPT ![p] = to]
      BY <2>2 DEF StartPage, ReadStates, ReadShared, PageTo, dataButAt, Before
    <3> QED BY <1>1, <3>1
  <2>3. CASE FetchSharedEnds(p) \/ ReadSharedAgain(p) \/ ReadFails(p)
    <3>1. \E to \in {"again", "unfetched", "end", "short", "error"} : at' = [at EXCEPT ![p] = to]
      BY <2>3 DEF FetchSharedEnds, ReadSharedAgain, ReadFails, PageTo, FindMissingFails, FetchEnds
    <3>2. UNCHANGED <<batch, missing, tx>>
      BY <2>3 DEF FetchSharedEnds, ReadSharedAgain, ReadFails, FindMissingFails, FetchEnds,
         dataButAt
    <3> QED BY <1>1, <3>1, <3>2 DEF Before
  <2> QED BY <1>7, <2>1, <2>2, <2>3
<1>8. ASSUME NEW s \in Syncs, FindMissing(s, Library[UserOf[s]]) PROVE BatchesKnow'
  BY <1>3, <1>8
<1>9. ASSUME NEW s \in Syncs, Unheard(s) PROVE BatchesKnow'
  <2>1. /\ UNCHANGED <<batch, missing>> /\ (at' = at \/ at' = [at EXCEPT ![s] = "end"])
        /\ \E to : tx' = [tx EXCEPT ![s] = to]
    BY <1>9 DEF Unheard, LibraryGivenUp, CommitUnheard, RollBackUnheard, LibraryStored
  <2>2. s \in Callers /\ "end" \notin Before /\ \A b \in Batches : tx'[b] = tx[b]
    BY <2>1 DEF Before
  <2>3. CASE at' = [at EXCEPT ![s] = "end"]
    BY <1>1, <2>1, <2>2, <2>3
  <2> QED BY <1>2, <2>1, <2>2, <2>3
<1> QED BY <1>2, <1>4, <1>5, <1>6, <1>7, <1>8, <1>9, StepCases DEF LockRow, vars

\* Only a batch that is committed is committed newly, and a list is made before any
\* transaction of its batches.
LEMMA CommitsStillLast ==
    ASSUME SharedInv, FetchInv, [Next]_vars
    PROVE  CommitsLast'
<1> USE KindsDiffer DEF FetchInv, TypeOK, DataTypeOK
<1>a. RowsKept
  BY RowsAreKept
<1>b. \A u \in Users : ToSet(Library[u]) \subseteq Games
  BY LibraryLists
<1>c. ASSUME NEW b \in Batches PROVE ToSet(Rows(b)) \subseteq Games
  <2>1. missing[b[1]] \in Seq(Games) /\ Rows(b) = Slice(missing[b[1]], b[2])
    BY DEF Rows, Slice
  <2>2. Slice(missing[b[1]], b[2]) \in Seq(Games)
    BY <2>1, SliceLists
  <2> QED BY <2>1, <2>2 DEF ToSet
<1>1. ASSUME \A u \in Users : state'[u] = "synced" => state[u] = "synced",
             missing' = missing, \A b \in Batches : tx'[b] = "committed" => tx[b] = "committed"
      PROVE  CommitsLast'
  <2>1. \A b \in Batches : Rows(b)' = Rows(b)
    BY <1>1 DEF Rows
  <2> QED BY <1>1, <1>a, <1>b, <1>c, <2>1 DEF CommitsLast, RowsKept
<1>2. ASSUME NEW s \in Syncs, CommitLibrary(s) \/ CommitUnheard(s) PROVE CommitsLast'
  <2>1. Held(s) = ToSet(Library[UserOf[s]])
    BY <1>2, AllLocked, OrderLists DEF CommitLibrary, CommitUnheard, UnheardHold
  <2>2. \A g \in ToSet(Library[UserOf[s]]) : row'[g] # "none"
    BY <1>2, <2>1 DEF CommitLibrary, CommitUnheard, LibraryStored, Held
  <2>3. /\ \A u \in Users : u # UserOf[s] => state'[u] = state[u]
        /\ missing' = missing /\ \A b \in Batches : tx'[b] = tx[b]
    BY <1>2 DEF CommitLibrary, CommitUnheard, LibraryStored
  <2>4. \A b \in Batches : Rows(b)' = Rows(b)
    BY <2>3 DEF Rows
  <2>5. \A u \in Users : state'[u] = "synced" => \A g \in ToSet(Library[u]) : row'[g] # "none"
    BY <1>a, <1>b, <2>2, <2>3 DEF CommitsLast, RowsKept
  <2>6. \A b \in Batches : tx'[b] = "committed" => \A g \in ToSet(Rows(b)) : row'[g] \in Known
    BY <1>a, <1>c, <2>3 DEF CommitsLast, RowsKept
  <2> QED BY <2>4, <2>5, <2>6 DEF CommitsLast
<1>3. ASSUME NEW b \in Batches, CommitBatch(b) PROVE CommitsLast'
  <2>1. Held(b) = ToSet(Rows(b))
    BY <1>3, AllLocked, OrderLists DEF CommitBatch
  <2>2. \A g \in ToSet(Rows(b)) : row'[g] \in Known
    BY <1>3, <2>1, DetailsAssumption DEF CommitBatch, Held, Known
  <2>3. /\ UNCHANGED <<state, missing>> /\ \A d \in Batches : d # b => tx'[d] = tx[d]
    BY <1>3 DEF CommitBatch
  <2>4. \A d \in Batches : Rows(d)' = Rows(d)
    BY <2>3 DEF Rows
  <2>5. \A u \in Users : state'[u] = "synced" => \A g \in ToSet(Library[u]) : row'[g] # "none"
    BY <1>a, <1>b, <2>3 DEF CommitsLast, RowsKept
  <2>6. \A d \in Batches : tx'[d] = "committed" => \A g \in ToSet(Rows(d)) : row'[g] \in Known
    BY <1>a, <1>c, <2>2, <2>3 DEF CommitsLast, RowsKept
  <2> QED BY <2>4, <2>5, <2>6 DEF CommitsLast
<1>4. ASSUME NEW c \in Callers, NEW ids, FindMissing(c, ids) PROVE CommitsLast'
  <2>1. /\ at[c] = "ask" /\ UNCHANGED <<row, state, tx>>
        /\ \A d \in Callers : d # c => missing'[d] = missing[d]
    BY <1>4 DEF FindMissing, ListsFit
  <2>2. ASSUME NEW b \in Batches, tx[b] = "committed" PROVE Rows(b)' = Rows(b)
    <3>1. b[1] # c
      BY <2>1, <2>2 DEF BatchesKnow, Before
    <3> QED BY <2>1, <3>1 DEF Rows
  <2> QED BY <2>1, <2>2 DEF CommitsLast
<1>5. ASSUME NEW s \in Syncs, RecordEmpty(s) PROVE CommitsLast'
  BY <1>1, <1>5 DEF RecordEmpty
<1>6. ASSUME NEW s \in Syncs, LibraryFails(s) \/ LibraryLosesDeadlock(s) PROVE CommitsLast'
  <2>1. UNCHANGED <<state, missing>> /\ \A b \in Batches : tx'[b] = tx[b]
    BY <1>6 DEF LibraryFails, LibraryLosesDeadlock
  <2> QED BY <1>1, <2>1
<1>7. ASSUME NEW s \in Syncs,
             FindMissing(s, Library[UserOf[s]]) \/ FindMissingFails(s, "end")
             \/ FetchEnds(s, "end")
      PROVE CommitsLast'
  BY <1>1, <1>4, <1>7 DEF FindMissingFails, FetchEnds
<1>8. ASSUME NEW b \in Batches,
             \/ TakeSlot(b) \/ GetDetails(b) \/ DetailsFail(b) \/ StoreBegins(b)
             \/ StoreTooLate(b) \/ StoreGivenUp(b) \/ RollBackBatch(b)
      PROVE  CommitsLast'
  <2>1. /\ UNCHANGED <<state, missing>>
        /\ tx' = tx \/ \E to \in {"open", "rolledBack"} : tx' = [tx EXCEPT ![b] = to]
    BY <1>8 DEF TakeSlot, GetDetails, DetailsFail, StoreBegins, StoreTooLate, StoreGivenUp,
                RollBackBatch
  <2>2. \A d \in Batches : tx'[d] = "committed" => tx[d] = "committed"
    BY <2>1
  <2> QED BY <1>1, <2>1, <2>2
<1>9. ASSUME NEW p \in Pages, PageGoesOn(p) PROVE CommitsLast'
  BY <1>1, <1>4, <1>9 DEF PageGoesOn, dataButAt
<1>10. CASE UNCHANGED <<row, state, tx, missing>>
  BY <1>1, <1>10
<1>11. ASSUME NEW s \in Syncs, LibraryGivenUp(s) \/ RollBackUnheard(s) PROVE CommitsLast'
  <2>1. UNCHANGED <<state, missing>> /\ \A b \in Batches : tx'[b] = tx[b]
    BY <1>11 DEF LibraryGivenUp, RollBackUnheard
  <2> QED BY <1>1, <2>1
<1> QED BY <1>2, <1>3, <1>5, <1>6, <1>7, <1>8, <1>9, <1>10, <1>11, StepCases, PagesGoOn
  DEF LockRow, Unheard, vars

\* Nothing but its end takes a row from a library that waits for its COMMIT.
LEMMA UnheardStillHold ==
    ASSUME SharedInv, FetchInv, [Next]_vars
    PROVE  UnheardHold'
<1> USE KindsDiffer DEF FetchInv, TypeOK, DataTypeOK
<1>1. ASSUME NEW t \in Txs, owner' = Without(t), \A s \in Syncs \ {t} : tx'[s] = tx[s],
             tx'[t] # "committing"
      PROVE  UnheardHold'
  <2>1. \A s \in Syncs : s # t => Held(s)' = Held(s)
    BY <1>1 DEF Held, Without
  <2> QED BY <1>1, <2>1 DEF UnheardHold
<1>2. CASE owner' = owner /\ \A s \in Syncs : tx'[s] = tx[s]
  BY <1>2 DEF UnheardHold, Held
<1>3. ASSUME NEW t \in Txs, LockRow(t) PROVE UnheardHold'
  <2>1. /\ owner[NextRow(t)] = NoTx /\ owner' = [owner EXCEPT ![NextRow(t)] = t]
        /\ tx' = tx /\ tx[t] = "open"
    BY <1>3 DEF LockRow, Locking
  <2>2. \A s \in Syncs : s # t => Held(s)' = Held(s)
    BY <2>1 DEF Held
  <2> QED BY <2>1, <2>2 DEF UnheardHold
<1>4. ASSUME NEW s \in Syncs,
             \/ CommitLibrary(s) \/ RecordEmpty(s) \/ LibraryFails(s)
             \/ LibraryLosesDeadlock(s) \/ FindMissing(s, Library[UserOf[s]])
             \/ FindMissingFails(s, "end") \/ FetchEnds(s, "end")
      PROVE  UnheardHold'
  <2>1. CASE CommitLibrary(s)
    BY <1>1, <2>1 DEF CommitLibrary, LibraryStored
  <2>2. CASE LibraryFails(s)
    BY <1>1, <2>2 DEF LibraryFails
  <2>3. CASE LibraryLosesDeadlock(s)
    <3>1. tx[s] = "open" /\ owner' = Without(s)
      BY <2>3 DEF LibraryLosesDeadlock, Deadlocked, Locking
    <3>2. tx' = tx \/ tx' = [tx EXCEPT ![s] = "rolledBack"]
      BY <2>3 DEF LibraryLosesDeadlock
    <3> QED BY <1>1, <3>1, <3>2
  <2>4. CASE RecordEmpty(s)
    <3>1. owner' = owner /\ tx' = [tx EXCEPT ![s] = "none"]
      BY <2>4 DEF RecordEmpty
    <3> QED BY <3>1 DEF UnheardHold, Held
  <2>5. CASE FindMissing(s, Library[UserOf[s]]) \/ FindMissingFails(s, "end") \/ FetchEnds(s, "end")
    BY <1>2, <2>5 DEF FindMissing, FindMissingFails, FetchEnds
  <2> QED BY <1>4, <2>1, <2>2, <2>3, <2>4, <2>5
<1>5. ASSUME NEW s \in Syncs, Unheard(s) PROVE UnheardHold'
  <2>1. CASE LibraryGivenUp(s)
    <3>1. Held(s) = ToSet(Library[UserOf[s]])
      BY <2>1, AllLocked, OrderLists DEF LibraryGivenUp
    <3>2. owner' = owner /\ tx' = [tx EXCEPT ![s] = "committing"]
      BY <2>1 DEF LibraryGivenUp
    <3> QED BY <3>1, <3>2 DEF UnheardHold, Held
  <2>2. CASE CommitUnheard(s) \/ RollBackUnheard(s)
    BY <1>1, <2>2 DEF CommitUnheard, RollBackUnheard, LibraryStored
  <2> QED BY <1>5, <2>1, <2>2 DEF Unheard
<1>6. ASSUME NEW b \in Batches,
             \/ TakeSlot(b) \/ GetDetails(b) \/ DetailsFail(b) \/ StoreBegins(b)
             \/ StoreTooLate(b) \/ StoreGivenUp(b) \/ CommitBatch(b) \/ RollBackBatch(b)
      PROVE  UnheardHold'
  <2>1. CASE CommitBatch(b) \/ RollBackBatch(b)
    BY <1>1, <2>1 DEF CommitBatch, RollBackBatch
  <2>2. CASE owner' = owner /\ (tx' = tx \/ \E to : tx' = [tx EXCEPT ![b] = to])
    BY <1>2, <2>2
  <2> QED BY <1>6, <2>1, <2>2 DEF TakeSlot, GetDetails, DetailsFail, StoreBegins, StoreTooLate,
      StoreGivenUp
<1>7. ASSUME NEW p \in Pages, PageGoesOn(p) PROVE UnheardHold'
  BY <1>2, <1>7 DEF PageGoesOn, FindMissing, dataButAt
<1> QED BY <1>2, <1>3, <1>4, <1>5, <1>6, <1>7, StepCases, PagesGoOn DEF vars


\* What was found missing stays so until a batch has stored it.
LEMMA SyncsStillAsk ==
    ASSUME SharedInv, FetchInv, [Next]_vars
    PROVE  SyncsAskForAll'
<1> USE KindsDiffer DEF FetchInv, TypeOK, DataTypeOK
<1>a. RowsKept
  BY RowsAreKept
<1>b. \A s \in Syncs : ToSet(Library[UserOf[s]]) \subseteq Games
  BY LibraryLists, UserOfAssumption
<1>1. CASE \A s \in Syncs : missing'[s] = missing[s]
  BY <1>1, <1>a, <1>b DEF SyncsAskForAll, RowsKept
<1>2. ASSUME NEW s \in Syncs, FindMissing(s, Library[UserOf[s]]) PROVE SyncsAskForAll'
  <2> DEFINE lacking == Only(Library[UserOf[s]], {g \in Games : row[g] = "missing"})
  <2>1. ToSet(lacking) = {g \in ToSet(Library[UserOf[s]]) : row[g] = "missing"}
    BY FetchLists, UserOfAssumption
  <2> HIDE DEF lacking
  <2>2. /\ at[s] = "ask" /\ row' = row /\ missing' = [missing EXCEPT ![s] = lacking]
    BY <1>2 DEF FindMissing, lacking
  <2>3. missing'[s] = lacking /\ \A r \in Syncs : r # s => missing'[r] = missing[r]
    BY <2>2 DEF ListsFit
  <2>4. state[UserOf[s]] = "synced"
    BY <2>2 DEF SyncsKnow, SharedInv, AwaitedKnown
  <2>5. \A g \in ToSet(Library[UserOf[s]]) : row[g] = "missing" \/ row[g] \in Known
    BY <1>b, <2>4, UserOfAssumption DEF CommitsLast, Known
  <2> QED BY <2>1, <2>2, <2>3, <2>5 DEF SyncsAskForAll
<1>3. ASSUME NEW s \in Syncs,
             \/ CommitLibrary(s) \/ RecordEmpty(s) \/ LibraryFails(s) \/ LibraryLosesDeadlock(s)
             \/ FindMissingFails(s, "end") \/ FetchEnds(s, "end")
      PROVE  missing' = missing
  BY <1>3 DEF CommitLibrary, LibraryStored, RecordEmpty, LibraryFails, LibraryLosesDeadlock,
              FindMissingFails, FetchEnds
<1>4. ASSUME NEW b \in Batches,
             \/ TakeSlot(b) \/ GetDetails(b) \/ DetailsFail(b) \/ StoreBegins(b)
             \/ StoreTooLate(b) \/ StoreGivenUp(b) \/ CommitBatch(b) \/ RollBackBatch(b)
      PROVE  missing' = missing
  BY <1>4 DEF TakeSlot, GetDetails, DetailsFail, StoreBegins, StoreTooLate, StoreGivenUp,
              CommitBatch, RollBackBatch
<1>5. ASSUME NEW p \in Pages, PageGoesOn(p) PROVE \A s \in Syncs : missing'[s] = missing[s]
  <2>1. ASSUME NEW ids, FindMissing(p, ids) PROVE \A s \in Syncs : missing'[s] = missing[s]
    BY <2>1 DEF FindMissing, ListsFit
  <2> QED BY <1>5, <2>1 DEF PageGoesOn, dataButAt
<1>6. ASSUME NEW s \in Syncs, Unheard(s) PROVE missing' = missing
  BY <1>6 DEF Unheard, LibraryGivenUp, CommitUnheard, RollBackUnheard, LibraryStored
<1> QED BY <1>1, <1>2, <1>3, <1>4, <1>5, <1>6, StepCases, PagesGoOn DEF LockRow, vars

-----------------------------------------------------------------------------
\* What all members own is found by a page that has found every library stored.
LEMMA SharedAreFound ==
    ASSUME NEW p \in Pages, \A u \in Members(p) : state[u] = "synced"
    PROVE  SharedByMembers(p) \subseteq SharedStoredGames(p)
<1> SUFFICES ASSUME NEW g \in SharedByMembers(p) PROVE g \in SharedStoredGames(p)
  OBVIOUS
<1>1. \A u \in Members(p) : g \in Stored(u)
  BY DEF SharedByMembers, Stored
<1>2. g \in Stored(Caller(p)) /\ {u \in Others(p) : g \in Stored(u)} = Others(p)
  BY <1>1, MembersAreUsers DEF Others
<1> QED BY <1>2 DEF SharedStoredGames

\* Every id of a list is in a batch that was made for it.
LEMMA EveryIdHasABatch ==
    ASSUME FetchInv, NEW c \in Callers, NEW g \in ToSet(missing[c])
    PROVE  \E b \in Batches : b[1] = c /\ batch[b] # "none" /\ g \in ToSet(Rows(b))
<1>1. missing[c] \in Seq(Games) /\ Len(missing[c]) <= MaxBatches * BatchSize
  BY DEF FetchInv, TypeOK, DataTypeOK, ListsFit
<1>2. PICK k \in 1 .. MaxBatches :
           k <= BatchCount(Len(missing[c])) /\ g \in ToSet(Slice(missing[c], k))
  BY <1>1, SlicesCover
<1> DEFINE b == <<c, k>>
<1>3. b \in Batches /\ b[1] = c /\ b[2] = k
  BY DEF Batches
<1>4. batch[b] # "none"
  BY <1>2, <1>3 DEF FetchInv, BatchesKnow
<1>5. g \in ToSet(Rows(b))
  BY <1>2, <1>3 DEF Rows, Slice
<1> QED BY <1>3, <1>4, <1>5

\* What the steps of others leave to page p, and what they only add to.
PageUntouched(p) ==
    /\ at'[p] = at[p] /\ found'[p] = found[p] /\ shown'[p] = shown[p]
    /\ messages'[p] = messages[p] /\ missing'[p] = missing[p]
    /\ RowsKept
    /\ \A u \in Users : state[u] = "synced" => state'[u] = "synced"
    /\ \A b \in Batches : b[1] = p =>
        /\ batch[b] \notin Active => batch'[b] \notin Active
        /\ batch[b] = "failed" => batch'[b] = "failed"

PageLeavesNothing(p) ==
    at[p] = "end" /\ messages[p] = {} =>
        \A g \in SharedByMembers(p) : Details[g] = "multiplayer" =>
            \/ g \in shown[p]
            \/ \E b \in Batches : b[1] = p /\ batch[b] = "failed" /\ g \in ToSet(Rows(b))

LEMMA PagesApart == NothingSharedIsLeftOut <=> \A p \in Pages : PageLeavesNothing(p)
  BY DEF NothingSharedIsLeftOut, PageLeavesNothing, SharedByMembers

LEMMA UntouchedHolds ==
    ASSUME FetchInv, NEW p \in Pages, PageUntouched(p)
    PROVE  PageAsks(p)' /\ PageLeavesNothing(p)'
<1>1. PageAsks(p) /\ PageLeavesNothing(p)
  BY PagesApart DEF FetchInv, PagesAskForAll
<1>2. PageAsks(p)'
  BY <1>1, MembersAreUsers DEF PageAsks, PageUntouched, RowsKept, SharedByMembers, Members
<1>3. PageLeavesNothing(p)'
  <2>1. \A b \in Batches : b[1] = p => Rows(b)' = Rows(b)
    BY DEF Rows, PageUntouched
  <2> QED BY <1>1, <2>1 DEF PageLeavesNothing, PageUntouched, SharedByMembers, Members
<1> QED BY <1>2, <1>3

\* A step of p itself.
LEMMA PageStepAsks ==
    ASSUME SharedInv, FetchInv, [Next]_vars, NEW p \in Pages,
           \/ StartPage(p) \/ ReadStates(p) \/ ReadShared(p) \/ FetchShared(p)
           \/ FetchSharedEnds(p) \/ ReadSharedAgain(p) \/ ReadFails(p)
    PROVE  PageAsks(p)' /\ PageLeavesNothing(p)'
<1> USE KindsDiffer DEF FetchInv, TypeOK, DataTypeOK
<1>a. DOMAIN at = Callers /\ DOMAIN messages = Pages /\ DOMAIN missing = Callers
  BY DEF SharedInv, PageTypes, ListsFit
<1>b. PageAsks(p)
  BY DEF PagesAskForAll
<1>c. SharedByMembers(p)' = SharedByMembers(p) /\ Members(p)' = Members(p)
  BY DEF SharedByMembers, Members
<1>d. at[p] \in Included => messages[p] = {} /\ \A u \in Members(p) : state[u] = "synced"
  BY DEF SharedInv, PageKnows
<1>e. ASSUME \A u \in Members(p) : state[u] = "synced", NEW g \in SharedByMembers(p)
      PROVE  /\ g \in Games /\ row[g] \in {"missing", Details[g]} /\ Details[g] \in Known
             /\ g \in ToSet(Library[Caller(p)])
  <2>1. g \in ToSet(Library[Caller(p)]) /\ state[Caller(p)] = "synced" /\ Caller(p) \in Users
    BY <1>e, MembersAreUsers DEF SharedByMembers
  <2>2. row[g] # "none" /\ g \in Games
    BY <2>1 DEF CommitsLast, SharedByMembers
  <2> QED BY <2>1, <2>2, DetailsAssumption DEF SharedInv, RowsSettle, Known
<1>1. CASE StartPage(p) \/ ReadFails(p)
  <2>1. at'[p] \in {"states", "error"}
    BY <1>1, <1>a DEF StartPage, ReadFails, PageTo
  <2> QED BY <2>1 DEF PageAsks, PageLeavesNothing
<1>2. CASE ReadStates(p)
  <2>1. at'[p] = "shared" \/ (at'[p] = "end" /\ messages'[p] # {})
    BY <1>2, <1>a DEF ReadStates, PageTo
  <2> QED BY <2>1 DEF PageAsks, PageLeavesNothing
<1>3. CASE ReadShared(p)
  <2>1. /\ at[p] = "shared" /\ found' = [found EXCEPT ![p] = Lacking(SharedStoredGames(p))]
        /\ UNCHANGED <<row, state, messages>>
        /\ \/ at'[p] = "ask"
           \/ /\ at'[p] = "end" /\ shown' = [shown EXCEPT ![p] = Playable(SharedStoredGames(p))]
              /\ ~ \E g \in SharedStoredGames(p) : row[g] = "missing"
    BY <1>3, <1>a DEF ReadShared, Lacking, PageTo, dataButAt
  <2>2. messages[p] = {} /\ \A u \in Members(p) : state[u] = "synced"
    BY <1>d, <2>1 DEF Included
  <2>3. SharedByMembers(p) \subseteq SharedStoredGames(p)
    BY <2>2, SharedAreFound
  <2>4. CASE at'[p] = "ask"
    <3>1. \A g \in SharedByMembers(p) : g \in found'[p] \/ row'[g] \in Known
      BY <1>e, <2>1, <2>2, <2>3 DEF Lacking
    <3> QED BY <1>c, <2>4, <3>1 DEF PageAsks, PageLeavesNothing
  <2>5. CASE at'[p] = "end" /\ shown' = [shown EXCEPT ![p] = Playable(SharedStoredGames(p))]
             /\ ~ \E g \in SharedStoredGames(p) : row[g] = "missing"
    <3>1. ASSUME NEW g \in SharedByMembers(p), Details[g] = "multiplayer"
          PROVE  g \in shown'[p]
      <4>1. row[g] = "multiplayer"
        BY <1>e, <2>2, <2>3, <2>5, <3>1
      <4> QED BY <2>3, <2>5, <4>1 DEF Playable
    <3> QED BY <1>c, <2>1, <2>2, <2>5, <3>1 DEF PageAsks, PageLeavesNothing
  <2> QED BY <2>1, <2>4, <2>5
<1>4. CASE FetchShared(p)
  <2> DEFINE ids == Only(Library[Caller(p)], found[p])
             lacking == Only(ids, {g \in Games : row[g] = "missing"})
  <2>1. ToSet(lacking) = {g \in ToSet(ids) : row[g] = "missing"}
    BY FetchLists, MembersAreUsers
  <2>2. ToSet(ids) = ToSet(Library[Caller(p)]) \cap found[p]
    BY LibraryLists, MembersAreUsers, OnlyLists
  <2> HIDE DEF ids
  <2>3. /\ at[p] = "ask" /\ row' = row
        /\ missing' = [missing EXCEPT ![p] = lacking] /\ at' = [at EXCEPT ![p] = "fetch"]
    BY <1>4 DEF FetchShared, FindMissing, ids
  <2> HIDE DEF lacking
  <2>4. missing'[p] = lacking /\ at'[p] = "fetch"
    BY <1>a, <2>3
  <2>5. /\ \A g \in SharedByMembers(p) : g \in found[p] \/ row[g] \in Known
        /\ \A u \in Members(p) : state[u] = "synced"
    BY <1>b, <1>d, <2>3 DEF PageAsks, Included
  <2>6. ASSUME NEW g \in SharedByMembers(p)
        PROVE  g \in ToSet(missing'[p]) \/ row'[g] \in Known
    BY <1>e, <2>1, <2>2, <2>3, <2>4, <2>5
  <2> QED BY <1>c, <2>4, <2>6 DEF PageAsks, PageLeavesNothing
<1>5. CASE FetchSharedEnds(p)
  <2>1. CASE FindMissingFails(p, "unfetched")
    BY <1>a, <2>1 DEF FindMissingFails, PageAsks, PageLeavesNothing
  <2>2. CASE FetchEnds(p, "again")
    <3>1. /\ at[p] = "fetch" /\ at'[p] = "again" /\ UNCHANGED <<row, missing, batch>>
          /\ \A b \in Batches : b[1] = p => batch[b] \notin Active
      BY <1>a, <2>2 DEF FetchEnds
    <3> QED BY <1>b, <1>c, <3>1 DEF PageAsks, PageLeavesNothing
  <2> QED BY <1>5, <2>1, <2>2 DEF FetchSharedEnds
<1>6. CASE ReadSharedAgain(p)
  <2>1. CASE PageTo(p, "unfetched", "short")
    BY <1>a, <2>1 DEF PageTo, PageAsks, PageLeavesNothing
  <2>2. CASE PageTo(p, "again", "end")
    <3>1. /\ at[p] = "again" /\ at'[p] = "end"
          /\ UNCHANGED <<row, state, missing, batch, messages>>
          /\ shown'[p] = Playable(SharedStoredGames(p))
      BY <1>6, <1>a, <2>2 DEF PageTo, ReadSharedAgain, dataButAt
    <3>2. messages[p] = {} /\ \A u \in Members(p) : state[u] = "synced"
      BY <1>d, <3>1 DEF Included
    <3>3. ASSUME NEW g \in SharedByMembers(p), Details[g] = "multiplayer"
          PROVE  \/ g \in shown'[p]
                 \/ \E b \in Batches : b[1] = p /\ batch[b] = "failed" /\ g \in ToSet(Rows(b))
      <4>1. row[g] \in {"missing", "multiplayer"} /\ g \in Games
        BY <1>e, <3>2, <3>3
      <4>2. CASE row[g] = "multiplayer"
        BY <3>1, <3>2, <4>2, SharedAreFound DEF Playable
      <4>3. CASE row[g] = "missing"
        <5>1. g \in ToSet(missing[p])
          BY <1>b, <3>1, <4>3 DEF PageAsks, Known
        <5>2. PICK b \in Batches : b[1] = p /\ batch[b] # "none" /\ g \in ToSet(Rows(b))
          BY <5>1, EveryIdHasABatch
        <5>3. batch[b] \in {"stored", "failed"}
          BY <1>b, <3>1, <5>2 DEF PageAsks
        <5>4. batch[b] # "stored"
          BY <4>3, <5>2 DEF BatchesKnow, CommitsLast, Known
        <5> QED BY <5>2, <5>3, <5>4
      <4> QED BY <4>1, <4>2, <4>3
    <3>4. \A b \in Batches : Rows(b)' = Rows(b)
      BY <3>1 DEF Rows
    <3>5. PageAsks(p)'
      BY <1>c, <3>1, <3>2 DEF PageAsks
    <3>6. PageLeavesNothing(p)'
      BY <1>c, <3>1, <3>3, <3>4 DEF PageLeavesNothing
    <3> QED BY <3>5, <3>6
  <2> QED BY <1>6, <2>1, <2>2 DEF ReadSharedAgain
<1> QED BY <1>1, <1>2, <1>3, <1>4, <1>5, <1>6

\* A step of anything else leaves p where it was.
LEMMA OthersLeavePage ==
    ASSUME SharedInv, FetchInv, [Next]_vars, NEW p \in Pages,
           \/ \E q \in Pages \ {p} :
                \/ StartPage(q) \/ ReadStates(q) \/ ReadShared(q) \/ FetchShared(q)
                \/ FetchSharedEnds(q) \/ ReadSharedAgain(q) \/ ReadFails(q)
           \/ \E t \in Txs : LockRow(t) /\ UNCHANGED pageVars
           \/ \E s \in Syncs :
                /\ \/ CommitLibrary(s) \/ RecordEmpty(s) \/ LibraryFails(s)
                   \/ LibraryLosesDeadlock(s) \/ FindMissing(s, Library[UserOf[s]])
                   \/ FindMissingFails(s, "end") \/ FetchEnds(s, "end")
                /\ UNCHANGED pageVars
           \/ \E s \in Syncs : Unheard(s) /\ UNCHANGED pageVars
           \/ \E b \in Batches :
                /\ \/ TakeSlot(b) \/ GetDetails(b) \/ DetailsFail(b) \/ StoreBegins(b)
                   \/ StoreTooLate(b) \/ StoreGivenUp(b) \/ CommitBatch(b) \/ RollBackBatch(b)
                /\ UNCHANGED pageVars
           \/ UNCHANGED vars
    PROVE  PageUntouched(p)
<1> USE KindsDiffer DEF FetchInv, TypeOK, DataTypeOK, PageUntouched, pageVars
<1>a. DOMAIN at = Callers /\ DOMAIN missing = Callers
  BY DEF SharedInv, PageTypes, ListsFit
<1>b. RowsKept
  BY RowsAreKept
<1>1. ASSUME NEW q \in Pages, q # p,
             \/ StartPage(q) \/ ReadStates(q) \/ ReadShared(q) \/ FetchShared(q)
             \/ FetchSharedEnds(q) \/ ReadSharedAgain(q) \/ ReadFails(q)
      PROVE  PageUntouched(p)
  <2>1. found'[p] = found[p] /\ shown'[p] = shown[p] /\ messages'[p] = messages[p]
    BY <1>1 DEF StartPage, ReadStates, ReadShared, FetchShared, FetchSharedEnds, ReadSharedAgain,
                ReadFails
  <2>2. /\ state' = state /\ at'[p] = at[p] /\ missing'[p] = missing[p]
        /\ \A b \in Batches : b[1] = p => batch'[b] = batch[b]
    <3>1. ASSUME NEW ids, FindMissing(q, ids)
          PROVE  /\ state' = state /\ at'[p] = at[p] /\ missing'[p] = missing[p]
                 /\ \A b \in Batches : b[1] = p => batch'[b] = batch[b]
      BY <1>1, <1>a, <3>1 DEF FindMissing
    <3>2. CASE UNCHANGED dataButAt /\ \E to : at' = [at EXCEPT ![q] = to]
      BY <1>1, <1>a, <3>2 DEF dataButAt
    <3> QED BY <1>1, <3>1, <3>2, PagesGoOn DEF PageGoesOn
  <2> QED BY <1>b, <2>1, <2>2
<1>2. ASSUME NEW t \in Txs, LockRow(t), UNCHANGED pageVars PROVE PageUntouched(p)
  BY <1>b, <1>2 DEF LockRow
<1>3. ASSUME NEW s \in Syncs, UNCHANGED pageVars,
             \/ CommitLibrary(s) \/ RecordEmpty(s) \/ LibraryFails(s) \/ LibraryLosesDeadlock(s)
             \/ FindMissingFails(s, "end") \/ FetchEnds(s, "end")
      PROVE  PageUntouched(p)
  <2>1. at' = at \/ \E to : at' = [at EXCEPT ![s] = to]
    BY <1>3 DEF CommitLibrary, RecordEmpty, LibraryFails, LibraryLosesDeadlock, FindMissingFails,
                FetchEnds
  <2>2. UNCHANGED <<missing, batch>>
    BY <1>3 DEF CommitLibrary, LibraryStored, RecordEmpty, LibraryFails, LibraryLosesDeadlock,
                FindMissingFails, FetchEnds
  <2>3. \A u \in Users : state[u] = "synced" => state'[u] = "synced"
    BY <1>3 DEF CommitLibrary, LibraryStored, RecordEmpty, LibraryFails, LibraryLosesDeadlock,
                FindMissingFails, FetchEnds
  <2> QED BY <1>a, <1>b, <1>3, <2>1, <2>2, <2>3
<1>4. ASSUME NEW s \in Syncs, UNCHANGED pageVars, FindMissing(s, Library[UserOf[s]])
      PROVE  PageUntouched(p)
  <2>1. /\ state' = state /\ at'[p] = at[p] /\ missing'[p] = missing[p]
        /\ \A b \in Batches : b[1] = p => batch'[b] = batch[b]
    BY <1>a, <1>4 DEF FindMissing
  <2> QED BY <1>b, <1>4, <2>1
<1>5. ASSUME NEW b \in Batches, UNCHANGED pageVars,
             \/ TakeSlot(b) \/ GetDetails(b) \/ DetailsFail(b) \/ StoreBegins(b)
             \/ StoreTooLate(b) \/ StoreGivenUp(b) \/ CommitBatch(b) \/ RollBackBatch(b)
      PROVE  PageUntouched(p)
  <2>1. UNCHANGED <<at, missing, state>>
    BY <1>5 DEF TakeSlot, GetDetails, DetailsFail, StoreBegins, StoreTooLate, StoreGivenUp,
                CommitBatch, RollBackBatch
  <2>2. \/ batch[b] \in Active /\ \E to : batch' = [batch EXCEPT ![b] = to]
        \/ batch' = [batch EXCEPT ![b] = IF @ = "storing" THEN "stored" ELSE @]
        \/ batch' = [batch EXCEPT ![b] = "failed"]
    BY <1>5 DEF TakeSlot, GetDetails, DetailsFail, StoreBegins, StoreTooLate, StoreGivenUp,
                CommitBatch, RollBackBatch, GoOn, Active
  <2>3. ASSUME NEW d \in Batches
        PROVE  /\ batch[d] \notin Active => batch'[d] \notin Active
               /\ batch[d] = "failed" => batch'[d] = "failed"
    BY <2>2 DEF Active
  <2> QED BY <1>b, <1>5, <2>1, <2>3
<1>6. CASE UNCHANGED vars
  BY <1>b, <1>6 DEF vars
<1>7. ASSUME NEW s \in Syncs, UNCHANGED pageVars, Unheard(s) PROVE PageUntouched(p)
  <2>1. UNCHANGED <<missing, batch>> /\ (at' = at \/ at' = [at EXCEPT ![s] = "end"])
    BY <1>7 DEF Unheard, LibraryGivenUp, CommitUnheard, RollBackUnheard, LibraryStored
  <2>2. \A u \in Users : state[u] = "synced" => state'[u] = "synced"
    BY <1>7 DEF Unheard, LibraryGivenUp, CommitUnheard, RollBackUnheard, LibraryStored
  <2> QED BY <1>a, <1>b, <1>7, <2>1, <2>2
<1> QED BY <1>1, <1>2, <1>3, <1>4, <1>5, <1>6, <1>7

LEMMA PagesStillAsk ==
    ASSUME SharedInv, FetchInv, [Next]_vars
    PROVE  PagesAskForAll' /\ NothingSharedIsLeftOut'
<1>1. ASSUME NEW p \in Pages PROVE PageAsks(p)' /\ PageLeavesNothing(p)'
  BY StepCases, PageStepAsks, OthersLeavePage, UntouchedHolds
<1>2. NothingSharedIsLeftOut' <=> \A p \in Pages : PageLeavesNothing(p)'
  BY DEF NothingSharedIsLeftOut, PageLeavesNothing, SharedByMembers
<1> QED BY <1>1, <1>2 DEF PagesAskForAll

\* A list of nothing needs no batch.
LEMMA NoBatchOfNothing == BatchCount(0) = 0
<1>1. BatchSize \in Nat \ {0}
  BY BoundsAssumption
<1> DEFINE m == 0 + BatchSize - 1
           n == m \div BatchSize
<1>2. m \in Nat /\ m < BatchSize
  BY <1>1
<1>3. n \in Nat /\ n * BatchSize <= m
  <2> HIDE DEF m
  <2> QED BY <1>1, <1>2, DivisionBounds
<1>4. n < 1
  <2> HIDE DEF n, m
  <2>1. n * BatchSize \in Nat /\ 1 * BatchSize = BatchSize
    BY <1>1, <1>3
  <2>2. n * BatchSize < 1 * BatchSize
    BY <1>1, <1>2, <1>3, <2>1
  <2> QED BY <1>1, <1>3, <2>2, ProductsCompare
<1> QED BY <1>3, <1>4 DEF BatchCount

LEMMA FetchInitHolds == Init => FetchInv
<1> SUFFICES ASSUME Init PROVE FetchInv
  OBVIOUS
<1> USE KindsDiffer DEF Init, DataInit
<1>1. TypeOK
  BY BoundsAssumption DEF TypeOK, DataTypeOK
<1>2. BatchCount(0) = 0
  BY NoBatchOfNothing
<1>3. BatchesKnow
  BY <1>2 DEF BatchesKnow
<1>4. SyncsKnow
  BY BoundsAssumption DEF SyncsKnow
<1>5. ListsFit
  BY BoundsAssumption DEF ListsFit
<1>6. LocksInOrder
  <2> SUFFICES ASSUME NEW t \in Txs
               PROVE  \E k \in 0 .. Len(Order(t)) :
                         /\ Held(t) = {Order(t)[i] : i \in 1 .. k}
                         /\ IsFiniteSet(Held(t)) /\ Cardinality(Held(t)) = k
    BY DEF LocksInOrder
  <2>1. Held(t) = {}
    BY DEF Held
  <2>2. Order(t) \in Seq(Games)
    BY <1>1, OrderLists DEF TypeOK, DataTypeOK
  <2>3. 0 \in 0 .. Len(Order(t)) /\ {Order(t)[i] : i \in 1 .. 0} = {}
    BY <2>2
  <2> WITNESS 0 \in 0 .. Len(Order(t))
  <2> QED BY <2>1, <2>3, FS_EmptySet
<1>7. CommitsLast /\ SyncsAskForAll
  BY DEF CommitsLast, SyncsAskForAll
<1>8. PagesAskForAll /\ NothingSharedIsLeftOut
  BY DEF PagesAskForAll, PageAsks, NothingSharedIsLeftOut
<1>9. UnheardHold
  BY DEF UnheardHold
<1> QED BY <1>1, <1>3, <1>4, <1>5, <1>6, <1>7, <1>8, <1>9 DEF FetchInv

LEMMA FetchNextHolds == SharedInv /\ FetchInv /\ [Next]_vars => FetchInv'
  BY TypeHolds, BatchesStillKnow, SyncsStillKnow, ListsStillFit, LocksHold, CommitsStillLast,
     UnheardStillHold, SyncsStillAsk, PagesStillAsk DEF FetchInv

LEMMA FetchInvHolds == Spec => []FetchInv
  BY FetchInitHolds, FetchNextHolds, InvHolds, PTL DEF Spec

-----------------------------------------------------------------------------
\* The variables keep their types; what a fetch has found is a list of games, and a row
\* is only ever locked by a transaction that is open.
THEOREM TypesAlwaysOK == Spec => []TypeOK
<1>1. FetchInv => TypeOK
  BY DEF FetchInv
<1> QED BY <1>1, FetchInvHolds, PTL

\* A result without messages lacks no multiplayer game that all members own, unless a
\* batch with its details failed (party_games.go:41-44, games.go:405-423).
THEOREM NothingSharedIsEverLeftOut == Spec => []NothingSharedIsLeftOut
<1>1. FetchInv => NothingSharedIsLeftOut
  BY DEF FetchInv
<1> QED BY <1>1, FetchInvHolds, PTL

\* A fetch whose batches were all stored leaves no game of the library without details,
\* for any size of batch and length of library (game_sync.go:92-101, 142-143).
THEOREM CleanFetchAlwaysComplete == Spec => []CleanFetchIsComplete
<1>1. FetchInv => CleanFetchIsComplete
  <2> SUFFICES ASSUME FetchInv, NEW s \in Syncs, missing[s] # <<>>,
                      \A b \in Batches : b[1] = s => batch[b] \in {"none", "stored"},
                      NEW g \in ToSet(Library[UserOf[s]])
               PROVE  row[g] \in Known
    BY DEF CleanFetchIsComplete, Known
  <2>1. CASE g \in ToSet(missing[s])
    <3>1. PICK b \in Batches : b[1] = s /\ batch[b] # "none" /\ g \in ToSet(Rows(b))
      BY <2>1, EveryIdHasABatch, KindsDiffer
    <3>2. tx[b] = "committed"
      BY <3>1 DEF FetchInv, BatchesKnow
    <3> QED BY <3>1, <3>2 DEF FetchInv, CommitsLast
  <2> QED BY <2>1 DEF FetchInv, SyncsAskForAll
<1> QED BY <1>1, FetchInvHolds, PTL

\* Details appear only when a batch commits, and then for all its ids: what commits has
\* locked its whole list (game_sync.go:96-101, games.go:370-386).
THEOREM BatchesAlwaysWhole == Spec => BatchesAreWhole
<1>1. FetchInv /\ [Next]_vars =>
        [\A g \in Games : row[g] = "missing" /\ row'[g] # "missing" =>
            \E b \in Batches :
                /\ g \in ToSet(Rows(b))
                /\ tx[b] = "open" /\ tx'[b] = "committed"
                /\ \A h \in ToSet(Rows(b)) : row'[h] \in {"multiplayer", "other"}]_dataVars
  <2> SUFFICES ASSUME FetchInv, [Next]_vars, NEW g \in Games,
                      row[g] = "missing", row'[g] # "missing"
               PROVE  \E b \in Batches :
                         /\ g \in ToSet(Rows(b))
                         /\ tx[b] = "open" /\ tx'[b] = "committed"
                         /\ \A h \in ToSet(Rows(b)) : row'[h] \in {"multiplayer", "other"}
    OBVIOUS
  <2>1. \A s \in Syncs : ~ LibraryStored(s)
    BY DEF LibraryStored
  <2>2. PICK b \in Batches : CommitBatch(b)
    <3>1. ASSUME NEW s \in Syncs,
                 \/ CommitLibrary(s) \/ RecordEmpty(s) \/ LibraryFails(s)
                 \/ LibraryLosesDeadlock(s) \/ FindMissing(s, Library[UserOf[s]])
                 \/ FindMissingFails(s, "end") \/ FetchEnds(s, "end")
          PROVE  FALSE
      BY <2>1, <3>1 DEF CommitLibrary, RecordEmpty, LibraryFails, LibraryLosesDeadlock,
                        FindMissing, FindMissingFails, FetchEnds
    <3>2. ASSUME NEW p \in Pages, PageGoesOn(p) PROVE FALSE
      BY <3>2 DEF PageGoesOn, FindMissing, dataButAt
    <3>3. ASSUME NEW b \in Batches,
                 \/ TakeSlot(b) \/ GetDetails(b) \/ DetailsFail(b) \/ StoreBegins(b)
                 \/ StoreTooLate(b) \/ StoreGivenUp(b) \/ RollBackBatch(b)
          PROVE  FALSE
      BY <3>3 DEF TakeSlot, GetDetails, DetailsFail, StoreBegins, StoreTooLate, StoreGivenUp,
                  RollBackBatch
    <3>4. ~ \E t \in Txs : LockRow(t)
      BY DEF LockRow
    <3>5. ~ UNCHANGED vars
      BY DEF vars
    <3>6. \A s \in Syncs : ~ Unheard(s)
      BY <2>1 DEF Unheard, LibraryGivenUp, CommitUnheard, RollBackUnheard
    <3> QED BY <3>1, <3>2, <3>3, <3>4, <3>5, <3>6, StepCases, PagesGoOn
  <2>3. Held(b) = ToSet(Rows(b)) /\ tx[b] = "open"
    BY <2>2, AllLocked, OrderLists, KindsDiffer DEF CommitBatch, Locked, FetchInv, TypeOK,
       DataTypeOK
  <2>4. tx'[b] = "committed"
    BY <2>2, KindsDiffer DEF CommitBatch, FetchInv, TypeOK, DataTypeOK
  <2>5. \A h \in ToSet(Rows(b)) : row'[h] \in {"multiplayer", "other"}
    BY <2>2, <2>3, DetailsAssumption DEF CommitBatch, Held
  <2>6. g \in ToSet(Rows(b))
    BY <2>2, <2>3 DEF CommitBatch, Held
  <2> QED BY <2>3, <2>4, <2>5, <2>6
<1> QED BY <1>1, FetchInvHolds, PTL DEF Spec, BatchesAreWhole

\* A sync that waits has locked only rows before the one it waits for; the least row
\* that a cycle waits for would have to be held by a sync that waits for a lesser one.
LEMMA NoCycleOfSyncs ==
    ASSUME FetchInv, NEW D \in SUBSET {s \in Syncs : Locking(s)}, NEW d \in D, InDeadlock(D)
    PROVE  FALSE
<1> DEFINE awaited == {NextRow(t) : t \in D}
<1>1. ASSUME NEW t \in D
      PROVE  /\ NextRow(t) \in Nat
             /\ \A g \in Held(t) : g \in Nat /\ g < NextRow(t)
  <2>1. t \in Txs /\ t \in Syncs /\ Locking(t) /\ UserOf[t] \in Users
    BY KindsDiffer, UserOfAssumption
  <2>2. PICK k \in 0 .. Len(Order(t)) :
          /\ k + 1 \in 1 .. Len(Order(t)) /\ NextRow(t) = Order(t)[k + 1]
          /\ Held(t) = {Order(t)[i] : i \in 1 .. k}
    BY <2>1, NextRowIsNext
  <2>3. /\ Order(t) \in Seq(Games) /\ ToSet(Order(t)) \subseteq Nat
        /\ \A i, j \in 1 .. Len(Order(t)) : i < j => Order(t)[i] < Order(t)[j]
    BY <2>1, OrderLists, LibraryLists DEF FetchInv, TypeOK, DataTypeOK
  <2>4. \A i \in 1 .. Len(Order(t)) : Order(t)[i] \in Nat
    BY <2>3 DEF ToSet
  <2>5. \A i \in 1 .. k : i \in 1 .. Len(Order(t)) /\ i < k + 1
    BY <2>2, <2>3
  <2> QED BY <2>2, <2>3, <2>4, <2>5
<1>2. awaited \in SUBSET Nat /\ NextRow(d) \in awaited
  BY <1>1
<1>3. PICK m \in awaited : \A n \in awaited : m <= n
  <2> HIDE DEF awaited
  <2> QED BY <1>2, LeastNumber
<1>4. PICK t \in D : NextRow(t) = m
  OBVIOUS
<1>5. PICK u \in D : WaitsFor(u, t)
  BY DEF InDeadlock
<1>6. NextRow(u) \in Held(t)
  <2>1. u \in Txs /\ Locking(u)
    BY KindsDiffer
  <2>2. NextRow(u) \in Games
    BY <2>1, NextRowIsNext
  <2> QED BY <1>5, <2>2 DEF WaitsFor, Held
<1>7. NextRow(u) < NextRow(t) /\ NextRow(u) \in Nat /\ NextRow(t) \in Nat
  BY <1>1, <1>6
<1>8. NextRow(t) <= NextRow(u)
  BY <1>3, <1>4
<1> QED BY <1>7, <1>8

\* However many syncs there are and however their libraries overlap, no wait cycle
\* consists of syncs alone (games.go:96-102).
THEOREM LibrariesNeverDeadlock == Spec => []LibrariesDoNotDeadlock
<1>1. FetchInv => LibrariesDoNotDeadlock
  BY NoCycleOfSyncs DEF LibrariesDoNotDeadlock
<1> QED BY <1>1, FetchInvHolds, PTL

=============================================================================
