------------------------------ MODULE GameData ------------------------------
(***************************************************************************)
(* The games rows and their details (internal/db/games.go: StoreUserLibrary, *)
(* GamesMissingData, StoreGameData) and the fetch of missing details       *)
(* (internal/view/game_sync.go: SyncUserGames, FetchMissingGameData,       *)
(* fetchAndStoreBatch).  Each sync stores a library, one row lock at a     *)
(* time, and then fetches the details its games lack in batches; each      *)
(* batch is a goroutine that asks Steam and stores the answer in a         *)
(* transaction of its own.  Transactions take row locks in PostgreSQL, may *)
(* deadlock, and may outlive the client that has given them up.            *)
(***************************************************************************)
EXTENDS Naturals, SequencesExt

CONSTANTS
    Users,
    Library,        \* Library[u]: the app ids of u's games as Steam lists them, repeats dropped
    Details,        \* Details[g]: what Steam says of g, "other" when it says nothing
    Syncs,          \* the runs of SyncUserGames
    UserOf,         \* UserOf[s]: whose library s syncs
    Pages,          \* the callers that fetch details for a page, outside any sync
    BatchSize,      \* gamesDetailsBatchSize
    Slots,          \* gamesDetailsMaxConcurrency
    MaxBatches,     \* bound: the most batches one call makes
    StoreAttempts,  \* storeLibraryAttempts
    NoTx

Games == UNION {ToSet(Library[u]) : u \in Users}
Callers == Syncs \cup Pages
Batches == Callers \X (1 .. MaxBatches)
Txs == Syncs \cup Batches

ASSUME LibraryAssumption ==
    \A u \in Users : Library[u] \in Seq(Nat) \ {<<>>} /\ IsInjective(Library[u])
ASSUME DetailsAssumption == Details \in [Games -> {"multiplayer", "other"}]
ASSUME UserOfAssumption == UserOf \in [Syncs -> Users]
ASSUME BoundsAssumption ==
    /\ {BatchSize, Slots, MaxBatches, StoreAttempts} \subseteq Nat \ {0}
    /\ \A u \in Users : Len(Library[u]) <= MaxBatches * BatchSize
ASSUME NoTxAssumption == NoTx \notin Txs
ASSUME CallersAssumption == Syncs \cap (Pages \cup Batches) = {}

VARIABLES
    row,      \* row[g]: g's committed row: none, "missing" details, or what Steam said
    state,    \* state[u]: users.game_sync_state
    tx,       \* tx[t]: t's transaction in the server
    owner,    \* owner[g]: the transaction that has g's row, or its app id, locked
    tries,    \* tries[s]: the attempts at storing the library that lost a deadlock
    at,       \* at[c]: the call that c is making
    missing,  \* missing[c]: the app ids c found without details, in order
    batch,    \* batch[b]: how far the goroutine of b is
    onLock    \* the syncs whose calls still run on the connection of their lock

dataVars == <<row, state, tx, owner, tries, at, missing, batch, onLock>>

Active == {"queued", "asking", "answered", "storing"}

DataInit ==
    /\ row = [g \in Games |-> "none"]
    /\ state = [u \in Users |-> "never_synced"]
    /\ tx = [t \in Txs |-> IF t \in Syncs THEN "open" ELSE "none"]
    /\ owner = [g \in Games |-> NoTx]
    /\ tries = [s \in Syncs |-> 0]
    /\ missing = [c \in Callers |-> <<>>]
    /\ batch = [b \in Batches |-> "none"]
    /\ onLock = Syncs

-----------------------------------------------------------------------------
(* Lists of app ids.                                                       *)

\* The numbers in S, from the smallest up.
Ascending(S) ==
    [k \in 1 .. Cardinality(S) |->
        CHOOSE n \in S : Cardinality({m \in S : m <= n}) = k]

\* The ids of a list that are in S, in the order of the list.
Only(ids, S) ==
    LET places == Ascending({i \in DOMAIN ids : ids[i] \in S}) IN
    [k \in DOMAIN places |-> ids[places[k]]]

-----------------------------------------------------------------------------
(* Transactions and row locks.                                             *)

\* The ids of a batch; the last one may be short.
Rows(b) ==
    SubSeq(missing[b[1]],
           (b[2] - 1) * BatchSize + 1, Min({b[2] * BatchSize, Len(missing[b[1]])}))

\* Mutant of Order: a library is written in the order Steam lists it.
OrderAsListed(t) == IF t \in Syncs THEN Library[UserOf[t]] ELSE Rows(t)

\* A library is written in the order of the app ids, a batch in its own order.
Order(t) ==
    IF t \in Syncs THEN Ascending(ToSet(Library[UserOf[t]])) ELSE Rows(t)

Held(t) == {g \in Games : owner[g] = t}
Locking(t) == tx[t] = "open" /\ Cardinality(Held(t)) < Len(Order(t))
Locked(t) == tx[t] = "open" /\ Cardinality(Held(t)) = Len(Order(t))
NextRow(t) == Order(t)[Cardinality(Held(t)) + 1]

\* Mutant of Without: a transaction that ends leaves its rows locked.
WithoutNothing(t) == owner

Without(t) == [g \in Games |-> IF owner[g] = t THEN NoTx ELSE owner[g]]

\* Mutant of LockRow: every UPDATE of a batch commits by itself.
LockRowCommitting(t) ==
    /\ Locking(t)
    /\ owner[NextRow(t)] = NoTx
    /\ owner' = [owner EXCEPT ![NextRow(t)] = t]
    /\ row' = IF t \in Batches
              THEN [row EXCEPT ![NextRow(t)] = Details[NextRow(t)]] ELSE row
    /\ UNCHANGED <<state, tx, tries, at, missing, batch, onLock>>

LockRow(t) ==
    /\ Locking(t)
    /\ owner[NextRow(t)] = NoTx
    /\ owner' = [owner EXCEPT ![NextRow(t)] = t]
    /\ UNCHANGED <<row, state, tx, tries, at, missing, batch, onLock>>

WaitsFor(t, u) == Locking(t) /\ owner[NextRow(t)] = u

\* A set in which each waits for one and is waited for by one: wait cycles.
InDeadlock(D) ==
    \A t \in D : (\E u \in D : WaitsFor(t, u)) /\ (\E u \in D : WaitsFor(u, t))

Deadlocked(t) == \E D \in SUBSET {u \in Txs : Locking(u)} : t \in D /\ InDeadlock(D)

-----------------------------------------------------------------------------
(* SyncUserGames: the library.                                             *)

\* A library takes effect: new games have no details, known ones keep theirs.
LibraryStored(s) ==
    /\ row' = [g \in Games |->
                  IF owner[g] = s /\ row[g] = "none" THEN "missing" ELSE row[g]]
    /\ state' = [state EXCEPT ![UserOf[s]] = "synced"]
    /\ owner' = Without(s)
    /\ UNCHANGED <<tries, missing, batch, onLock>>

\* StoreUserLibrary commits, and the sync hears of it.
CommitLibrary(s) ==
    /\ at[s] = "library" /\ Locked(s)
    /\ LibraryStored(s)
    /\ tx' = [tx EXCEPT ![s] = "committed"]
    /\ at' = [at EXCEPT ![s] = "ask"]

\* The answer to COMMIT is lost, or comes too late: the sync has failed.
LibraryGivenUp(s) ==
    /\ at[s] = "library" /\ Locked(s)
    /\ tx' = [tx EXCEPT ![s] = "committing"]
    /\ at' = [at EXCEPT ![s] = "end"]
    /\ onLock' = onLock \ {s}
    /\ UNCHANGED <<row, state, owner, tries, missing, batch>>

\* The server commits what the sync has given up.
CommitUnheard(s) ==
    /\ tx[s] = "committing"
    /\ LibraryStored(s)
    /\ tx' = [tx EXCEPT ![s] = "unheard"]
    /\ UNCHANGED at

\* The server finds the client gone before it has read the COMMIT.
RollBackUnheard(s) ==
    /\ tx[s] = "committing"
    /\ tx' = [tx EXCEPT ![s] = "rolledBack"]
    /\ owner' = Without(s)
    /\ UNCHANGED <<row, state, tries, at, missing, batch, onLock>>

\* RecordEmptyLibrary: Steam lists nothing, so that there is no library to commit,
\* and what was stored before stays.
RecordEmpty(s) ==
    /\ at[s] = "library" /\ Held(s) = {} /\ tries[s] = 0
    /\ state' = [state EXCEPT ![UserOf[s]] =
                     IF @ = "synced" THEN @ ELSE "private_or_no_games"]
    /\ tx' = [tx EXCEPT ![s] = "none"]
    /\ at' = [at EXCEPT ![s] = "end"]
    /\ UNCHANGED <<row, owner, tries, missing, batch, onLock>>

\* Steam or the store fails before anything is committed.
LibraryFails(s) ==
    /\ at[s] = "library"
    /\ tx' = [tx EXCEPT ![s] = "rolledBack"]
    /\ owner' = Without(s)
    /\ at' = [at EXCEPT ![s] = "end"]
    /\ UNCHANGED <<row, state, tries, missing, batch, onLock>>

\* The server ends the deadlock at the cost of s, which tries again a few times.
LibraryLosesDeadlock(s) ==
    /\ Deadlocked(s)
    /\ owner' = Without(s)
    /\ tries' = [tries EXCEPT ![s] = @ + 1]
    /\ IF tries[s] + 1 < StoreAttempts
       THEN UNCHANGED <<tx, at>>
       ELSE /\ tx' = [tx EXCEPT ![s] = "rolledBack"]
            /\ at' = [at EXCEPT ![s] = "end"]
    /\ UNCHANGED <<row, state, missing, batch, onLock>>

-----------------------------------------------------------------------------
(* FetchMissingGameData.                                                   *)

\* Mutant of BatchCount: the short batch at the end is forgotten.
WholeBatchCount(n) == n \div BatchSize

BatchCount(n) == (n + BatchSize - 1) \div BatchSize

\* GamesMissingData, and a goroutine for every batch.
FindMissing(c, ids) ==
    /\ at[c] = "ask"
    /\ LET found == Only(ids, {g \in Games : row[g] = "missing"}) IN
       /\ missing' = [missing EXCEPT ![c] = found]
       /\ batch' = [b \in Batches |->
                       IF b[1] = c /\ b[2] <= BatchCount(Len(found))
                       THEN "queued" ELSE batch[b]]
    /\ at' = [at EXCEPT ![c] = "fetch"]
    /\ UNCHANGED <<row, state, tx, owner, tries, onLock>>

FindMissingFails(c, next) ==
    /\ at[c] = "ask"
    /\ at' = [at EXCEPT ![c] = next]
    /\ UNCHANGED <<row, state, tx, owner, tries, missing, batch, onLock>>

GoOn(b, from, to) == batch[b] = from /\ batch' = [batch EXCEPT ![b] = to]

Siblings(b) == {d \in Batches : d[1] = b[1] /\ d # b}

TakeSlot(b) ==
    /\ Cardinality({d \in Siblings(b) : batch[d] \in Active \ {"queued"}}) < Slots
    /\ GoOn(b, "queued", "asking")
    /\ UNCHANGED <<row, state, tx, owner, tries, at, missing, onLock>>

GetDetails(b) ==
    /\ GoOn(b, "asking", "answered")
    /\ UNCHANGED <<row, state, tx, owner, tries, at, missing, onLock>>

\* The context ends before there is a slot or an answer, Steam fails, or its
\* client panics and recoverToError makes that the batch's error.
DetailsFail(b) ==
    /\ \E from \in {"queued", "asking"} : GoOn(b, from, "failed")
    /\ UNCHANGED <<row, state, tx, owner, tries, at, missing, onLock>>

\* Mutant of MyTurn: a call that fails never gives the turn back.
MyTurnUnlessFailed(b) ==
    b[1] \in onLock => \A d \in Siblings(b) : batch[d] \notin {"storing", "failed"}

\* The calls of one sync take turns on its lock connection (querier, lock.mu).
MyTurn(b) == b[1] \in onLock => \A d \in Siblings(b) : batch[d] # "storing"

StoreBegins(b) ==
    /\ MyTurn(b)
    /\ GoOn(b, "answered", "storing")
    /\ tx' = [tx EXCEPT ![b] = "open"]
    /\ UNCHANGED <<row, state, owner, tries, at, missing, onLock>>

\* gameDataStoreTimeout has run out by the time it is b's turn.
StoreTooLate(b) ==
    /\ MyTurn(b)
    /\ GoOn(b, "answered", "failed")
    /\ UNCHANGED <<row, state, tx, owner, tries, at, missing, onLock>>

\* StoreGameData commits.  The goroutine hears of it unless it has given up.
CommitBatch(b) ==
    /\ Locked(b)
    /\ row' = [g \in Games |-> IF owner[g] = b THEN Details[g] ELSE row[g]]
    /\ tx' = [tx EXCEPT ![b] = "committed"]
    /\ owner' = Without(b)
    /\ batch' = [batch EXCEPT ![b] = IF @ = "storing" THEN "stored" ELSE @]
    /\ UNCHANGED <<state, tries, at, missing, onLock>>

\* The write times out or its answer is lost: the connection is closed, and the
\* server goes on until it notices.
StoreGivenUp(b) ==
    /\ GoOn(b, "storing", "failed")
    /\ onLock' = onLock \ {b[1]}
    /\ UNCHANGED <<row, state, tx, owner, tries, at, missing>>

\* The transaction is rolled back for a deadlock, or given up and noticed.
RollBackBatch(b) ==
    /\ tx[b] = "open"
    /\ Deadlocked(b) \/ batch[b] = "failed"
    /\ tx' = [tx EXCEPT ![b] = "rolledBack"]
    /\ owner' = Without(b)
    /\ batch' = [batch EXCEPT ![b] = "failed"]
    /\ UNCHANGED <<row, state, tries, at, missing, onLock>>

\* wg.Wait
FetchEnds(c, next) ==
    /\ at[c] = "fetch"
    /\ \A b \in Batches : b[1] = c => batch[b] \notin Active
    /\ at' = [at EXCEPT ![c] = next]
    /\ UNCHANGED <<row, state, tx, owner, tries, missing, batch, onLock>>

-----------------------------------------------------------------------------
\* Steps that need no failure.
BatchProceeds(b) ==
    \/ TakeSlot(b) \/ GetDetails(b) \/ StoreBegins(b) \/ LockRow(b) \/ CommitBatch(b)

SyncProceeds(s) ==
    \/ LockRow(s) \/ CommitLibrary(s) \/ CommitUnheard(s) \/ RollBackUnheard(s)
    \/ RecordEmpty(s)
    \/ FindMissing(s, Library[UserOf[s]]) \/ FetchEnds(s, "end")

LosesDeadlock ==
    \/ \E s \in Syncs : LibraryLosesDeadlock(s)
    \/ \E b \in Batches : RollBackBatch(b)

DataFalters ==
    \/ \E s \in Syncs : LibraryFails(s) \/ LibraryGivenUp(s) \/ FindMissingFails(s, "end")
    \/ \E b \in Batches : DetailsFail(b) \/ StoreTooLate(b) \/ StoreGivenUp(b)

-----------------------------------------------------------------------------
(* Properties.                                                             *)

DataTypeOK ==
    /\ row \in [Games -> {"none", "missing", "multiplayer", "other"}]
    /\ state \in [Users -> {"never_synced", "synced", "private_or_no_games"}]
    /\ tx \in [Txs -> {"none", "open", "committing", "committed", "unheard", "rolledBack"}]
    /\ owner \in [Games -> Txs \cup {NoTx}]
    /\ \A g \in Games : owner[g] # NoTx => tx[owner[g]] \in {"open", "committing"}
    /\ tries \in [Syncs -> 0 .. StoreAttempts]
    /\ \A c \in Callers : missing[c] \in Seq(Games)
    /\ batch \in [Batches -> Active \cup {"none", "stored", "failed"}]
    /\ onLock \subseteq Syncs

\* The details of a batch are stored all together or not at all, whatever the
\* batch meets on the way; so an id stays missing until a batch with it succeeds
\* as a whole (game_sync.go:96-101, games.go:370-386).
BatchesAreWhole ==
    [][\A g \in Games : row[g] = "missing" /\ row'[g] # "missing" =>
          \E b \in Batches :
              /\ g \in ToSet(Rows(b))
              /\ tx[b] = "open" /\ tx'[b] = "committed"
              /\ \A h \in ToSet(Rows(b)) : row'[h] \in {"multiplayer", "other"}]_dataVars

\* A fetch that reports no error leaves none of the ids it was asked for without
\* details: every batch failure is in the error it returns, and every id is in a
\* batch (game_sync.go:92-101, 142-143).
CleanFetchIsComplete ==
    \A s \in Syncs :
        /\ at[s] = "end" /\ tx[s] = "committed" /\ missing[s] # <<>>
        /\ \A b \in Batches : b[1] = s => batch[b] \in {"none", "stored"}
        => \A g \in ToSet(Library[UserOf[s]]) : row[g] \in {"multiplayer", "other"}

\* Syncs that store overlapping libraries never deadlock among themselves: every
\* wait cycle goes through a StoreGameData batch (games.go:96-102).
LibrariesDoNotDeadlock ==
    \A D \in SUBSET {s \in Syncs : Locking(s)} : D # {} => ~InDeadlock(D)

=============================================================================
