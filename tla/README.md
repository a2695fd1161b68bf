# Verification of Party

Party is a Go web program (one binary, PostgreSQL behind it, Steam and Google
Calendar beside it) in which a user signs in through Steam, forms parties with
Steam friends, finds the games all members own and schedules events. This
directory holds TLA+ models of the parts of it where requests meet: what they
do to shared rows, locks and connections. Every definition is translated from
the Go and SQL source; `PROJECT.json` maps each to its lines.

## 1. Inventory

| Component | Source | State it keeps | Operations | Models |
|---|---|---|---|---|
| Party store | `internal/db/db.go`, `migrations/0002`, `0004` | `parties.leader_id`, `memberships.joined_at`, `invites` | CreateParty, SendInvite, AcceptInvite, RejectInvite, LeaveParty, StepDown | `Party`, `PartyStore` |
| Users | `internal/db/db.go` | `users.ever_logged_in`, names, avatars | UpsertUser (sign-in), UpsertFriends (sync) | `PartyTables`, `Sessions` |
| Sync lock and pool | `internal/db/games.go:186-316`, `db.go:30-60` | one session-level advisory lock per user, pool slots, the lock connection carried in the context | WithUserSyncLock, querier, closeConn | `UserLock`, `SyncLock` |
| Library sync | `main.go:290-460, 965-1010`, `internal/view/view.go:330-448`, `internal/db/games.go` | `library_synced_at`, `library_sync_error`, `game_sync_state`, `user_games` | page sync, member sync, added-member sync; StoreUserLibrary, RecordEmptyLibrary, RecordSyncSuccess, RecordSyncFailure | `LibrarySync` |
| Game data | `internal/view/game_sync.go`, `internal/db/games.go` | `games` rows and their details, row locks | StoreUserLibrary, GamesMissingData, FetchMissingGameData, StoreGameData | `GameData` |
| Shared games | `internal/view/party_games.go`, `view.go` | none of its own: reads stored libraries and details | BuildSharedGames, "Get shared games" | `SharedGames` |
| Send-invite page | `main.go:833-963`, `view.go:44-136`, `db.go:584-645` | none of its own: checks before SendInvite | candidates, exclusions, invite, sync on add | `PartyPages` |
| Party pages | `main.go` | none | one handler per store call | `PartyPages` |
| Party events | `party_events.go`, `internal/db/party_events.go`, `internal/component/party_events.templ` | `party_events` | create, list | `PartyPages`, `EventTimes` |
| Sessions | `main.go`, `internal/middleware`, `internal/db/db.go` | `sessions`, the browser's cookie | sign-in callback, resolve and refresh, logout | `Sessions` |
| Boot and migrations | `main.go:100-220`, `migrations/` | `schema_migrations` | connect, migrate, serve | `Boot` |
| Failure reasons | `internal/syncreason` | none | classify an error for display | none |
| Pages | `internal/component`, `internal/template`, `static` | none | rendering | none |

How they interact. Every HTTP request runs in a goroutine of its own and reaches
PostgreSQL through one bounded `pgxpool`. Requests share nothing in memory that
a later request reads; they meet in rows, in row locks, in the advisory locks
and in the slots of the pool. A page asks for a sync by a request of its own, "Get
shared games" starts up to three member syncs at a time and reads the libraries when
they are over, and an accepted invite of a never-signed-in friend starts the sync
of that friend. All three take the same lock. A sync fetches the details of games in up
to ten batches at once, each storing its answer by itself; a page that finds details
missing does the same without a lock. Several instances of the program may boot
on one database.

What is hard here, and where each is covered:

- *Two party calls on one party.* Each is several statements under READ
  COMMITTED; only `SELECT ... FOR UPDATE` on the party row orders them
  (`db.go:337`). A call must see what the previous one committed, an emptied
  party must not be resurrected, and a unique index must never fire. (`PartyStore`)
- *A row read without its lock.* `ever_logged_in` is read under the party lock,
  which does not hold the users row (`db.go:482`). (`PartyStore`)
- *The order of time stamps.* `joined_at` is `now()`, the beginning of the
  transaction, not the time at which it got the row lock. (`PartyStore`)
- *A lock that lives on a connection.* A cancelled statement makes pgx close the
  connection, and the lock goes with it, while its holder carries on
  (`db.go:39`, `games.go:216-263`). (`SyncLock`)
- *A bounded pool and locks on its connections.* The holder of a lock must not
  wait for a connection behind those that wait for its lock. (`LibrarySync`)
- *Stale checks.* "Is a sync due" is asked before the lock and is out of date
  once the lock is granted; a page reads a party several times without any lock.
  (`LibrarySync`, `PartyPages`)
- *Partial failure.* Steam fails, answers with nothing or panics half way; a
  commit takes effect and its acknowledgement is lost. (all modules of the store)
- *Row locks in different orders.* Libraries are stored in the order of the app ids,
  batches of details in the order of the list they were found in. A batch and a library
  may deadlock; a batch that loses is not retried. (`GameData`)
- *Reads beside syncs that go on.* The shared games are read, details fetched, and the
  list read again, while a sync that nobody waits for any more stores. (`SharedGames`)
- *Responses out of order.* Every response of a page sets the session cookie again,
  also when it arrives after a logout. (`Sessions`)
- *A crash between two migrations*, two instances racing for one, a commit
  unheard. (`Boot`)
- *Offsets and clock changes.* A date, two times of day and a textual UTC offset make
  two instants; the offset is that of one of them. (`EventTimes`)

`PROJECT.json` lists these as hazards, line by line. One of them has no property: whom
`handleSendInvite` syncs after SendInvite has committed (`main.go:952`) may have left
again, and syncing them once more does no harm that any state here could show.

## 2. Modules

```
PartyTables -- Party             one step per store call (abstract)
     |           ^ implements
     +-------- PartyStore -- MCPartyStore       one SQL statement per step
                    +------- PartyStore_proofs -- PartyRefinement_proofs
Party -------- PartyPages -- MCPartyPages       handlers over the store
                    +------- PartyPages_proofs

UserLock                         a lock that may lapse (abstract)
     ^ implements
SyncLock ----- LibrarySync - MCLibrarySync      three callers under the lock
                    +------- LibrarySync_proofs

GameData ----- SharedGames - MCSharedGames      syncs, batches, pages
                    +------- SharedGames_proofs
Sessions ------------------- MCSessions, Sessions_proofs
Boot ----------------------- MCBoot, Boot_proofs
EventTimes ----------------- MCEventTimes, EventTimes_proofs
```

**`PartyTables`** holds the committed rows of `users`, `parties`, `memberships`
and `invites`, the database clock, the three steps of the users table and of the
clock, and the invariants of committed rows. `leader[p]` is `Unborn` before the
row exists and `Gone` after it is deleted; `joined[p][u]` is `joined_at` or 0.

**`Party`** is what the store promises: each call changes nothing or takes effect
in one step, under the rules written there. Two of these rules are weaker than one
would expect, because the code is: a joining user's `joined_at` may lie in the
past, and a friend who is added may have signed in by the time it takes effect.

**`PartyStore`** is `db.go`. A request has a program counter (`pc`, the next SQL
statement), its arguments and what it has read (`tx`), and its uncommitted rows
(`writes`). `SeenJoined` and `SeenInvites` are what a READ COMMITTED statement sees:
the rows committed now, under its own. `LockParty` is `SELECT leader_id ... FOR
UPDATE`; `Refuse` is every early return; `Fail` rolls back at any statement, and
`Commit` publishes all rows at once and frees the lock. A commit whose answer is
lost is `Commit` itself: the caller's view is not state, and it may call again.
The foreign keys' `ON DELETE CASCADE` is in `Commit`.

**`PartyPages`** composes the handlers that read a party several times with `Party`,
whose calls are one step each. That is the use of the refinement: what is shown
here over `Party` holds over the statements of `PartyStore`. A visit is one request
to `handleSendInvite`, `handleCreatePartyEvent` or `handlePartyDetail` (up to the
invite picker of `BuildInviteCandidates`); `step[v]` is its next query, Steam call or store
call, and `page[v]` what it has read. `Answered` is every early return and error,
possible before any step. `OtherCall` is any other request: the handlers that make a
single store call, sign-ins and syncs of friends. `library` and `events` are the
`user_games` and `party_events` rows. `rows`, `open` and `shut` are history: who
had a users row when the visit began, and who was, or was not, open to an invite
at some moment between the two queries of the picker.

**`UserLock`** is what a caller of `WithUserSyncLock` is promised: callers of one
user run one at a time, except that the lock of a caller may lapse while it runs on
and never learns of it.

**`SyncLock`** is `WithUserSyncLock`. `stage[s]` says how far a caller is:
waiting for a pool connection, asking `pg_try_advisory_lock`, asked but unanswered,
refused and polling, inside, done. `session[c]` is the session behind a taken
pool slot: `up`, `broken` (ended, its owner has not noticed) or `closed` (pgx
has closed it). `lock[u]` is the connection whose session holds the lock.
`querier` is in `Reaches` and `ReturnClosed`: calls go to the lock connection until
it is closed, and to the pool afterwards, the closed one being given back first.
`borrowed[s]` is the pool connection of a transaction after that. `lost`
is a history variable, the callers whose lock connection has died; with the callers
inside it maps to `UserLock` (`ImplementsUserLock`).

**`LibrarySync`** extends it with the three callers. `at[s]` is the call a sync is
about to make. `fresh` and `error` are `library_synced_at` (within 24 hours or
not) and `library_sync_error`; `state` is `game_sync_state`; `stored` says whether
any `user_games` rows are committed. `StoreUserLibrary` is two steps (it holds
the users row from its insert to its commit), and `RecordEmptyLibrary` is two
as well: its subquery sees the snapshot with which the statement began, and the row
it updates may be waited for. Each statement runs, fails without effect, takes
effect with its answer lost, or finds its connection gone.

**`GameData`** is what syncs do to the `games` rows. A transaction (`tx[t]`, of a sync's
library or of a batch) takes row locks one at a time (`owner[g]`, `LockRow`) in its
`Order`: a library in the order of the app ids (`Ascending`, by rank), a batch in its own, a slice
of the list that `GamesMissingData` returned (`Only`, which keeps the order of its input). `Deadlocked`
is a cycle of waits; the server ends it at the cost of one, which a library survives
`StoreAttempts` times and a batch does not. A batch (`batch[b]`) is a goroutine that waits for a
slot, asks Steam, waits for its turn on the lock connection (`MyTurn`, the mutex
of `querier`) and stores; it fails, panics, times out or is given up at each of these,
and its transaction may outlive it in the server. So may the `COMMIT` of a library whose sync has
given up (`LibraryGivenUp`): it keeps its row locks and ends committed but unheard of
(`CommitUnheard`) or rolled back. `row[g]` is the committed row:
none, without details, or what Steam said.

**`SharedGames`** puts pages beside them: `storedSharedGames` for both of its callers. A
page waits for the syncs it has started (`Awaited`, none for a party page), reads the sync
states, then the shared games, and if some lack details (`Lacking`; these are `found`) fetches
those and reads again.
`messages` and `shown` are its result.

**`Sessions`** is one browser with several requests in flight. `rows`, `userOf` and
`expires` are the `sessions` table, `standing` the users rows, `jar` the cookie.
`ResolveSession` is the `UPDATE ... RETURNING` that refreshes a live session;
`PageArrives` sets the cookie the request came with, whatever it is by then. Store
calls fail with or without effect, responses are lost or late, time passes
(`Tick`). `current` and `overlap` are history: the session of the last sign-in that
arrived, and whether a sign-in or logout arrived while a page was on its way.

**`Boot`** is `run`, `connect`, `migrate` and `serve` of several instances, which may
carry different sets of migrations. Between its `BEGIN` and `COMMIT` an instance asks
whether the migration is recorded, runs its SQL and inserts the tracking row; a
statement that meets another instance's open transaction waits for it and then
collides. `applied[m]` counts the commits of the SQL of `m`.

**`EventTimes`** follows the times of an event from the page script (`FormatOffset` of the
offset in force at the chosen start) through the handler (`ParseUTCOffset`,
`EventInstants`) to the row. Zones have an offset before and one after a change;
`InstantOf` is what JavaScript's `Date` makes of a local time that is shown twice or
never. A client that is not the page may send any two characters that `strconv.Atoi` reads.

### What is abstracted

- Names, avatars and the inviter's id are not in the state: no property tells them
  apart. Nor is the wording of messages, nor the order in which games are shown.
- In `LibrarySync`, Steam's answer is one of: games, none, error, panic. The friends refresh
  and the fetch of details are there by what they can do to the lock connection; the rows
  they write are in `PartyTables` and `GameData`.
- In `GameData`, Steam says the same of a game each time, and the syncs are given; that
  syncs of one user exclude each other is not used there.
- The advisory lock's key folds the user id to 32 bits; ids that collide are not
  modelled (a collision would delay a sync and break nothing).
- A session the client has closed is ended for the server at once in `SyncLock`. The
  server may notice later, which delays other syncs and admits no new behaviour under
  the lock; what it does meanwhile to rows is in `GameData` (`StoreGivenUp`).
- The poll's backoff and every deadline may end "at any time", and need not.
- 24 hours pass (`Age`) at any time. This is wider than the code, and every
  safety property is checked and proved with it.
- A request's context is its own; several member syncs of one "Get shared games"
  request share slots (`MemberSlots`), and one such request is modelled.
- Party ids and session tokens are random: no request names a party before it exists,
  and no token is made twice.
- How the OpenID assertion and the cookie's attributes are verified is one condition
  (`Verified`); every other answer changes nothing.
- The SQL of a migration is one effect that is applied or not. Which migrations succeed a second
  time is a constant (`Repeatable`: those that only drop a table if it exists).
- Listing upcoming events changes nothing and is left out.

### Bounds

`MaxTime` bounds the clocks, `InviteIds` the invites a party ever holds, `MaxBatches` the
batches of one fetch and `MaxFaults` the failures of a boot from other causes than a lost race;
they are guards or constants of the models only. All sets and bounds are arbitrary in the proofs.

## 3. Runs

| Run | Instance | Shows |
|---|---|---|
| `party_calls` | 3 users, 1 party, 2 invites, 2 requests | all invariants of the party rows; a membership comes with its accepted invite in one step; every call is one atomic step of `Party`, whatever fails |
| `party_succession` | a party that any of 3 users has made, 2 requests, 2 clock values, joins and leaves | leadership passes by `joined_at` and then user id, although transactions that overlap commit in another order than they began |
| `party_liveness` | 2 users, 2 requests | every call ends |
| `party_consent` | 2 users, 1 request | *violated*: a user who has signed in can be joined without answering |
| `party_pages` | 3 users, 1 party, 2 invites, 1 game, 1 visit, any other calls | a users row that was there when the request began is not rewritten; the picker offers nobody closed all along and misses nobody open all along; no event outlives its party, and its game is owned by the roster the handler read |
| `library_sync` | 3 syncs of one user, one of each kind, 2 connections | the lock is the one promised, nothing leaks, what is recorded is consistent |
| `library_sync_liveness` | 3 syncs of 2 users, 1 connection, 1 member slot | every sync ends, without any deadline |
| `library_sync_serial` | 2 syncs, 2 connections | *violated*: two syncs of one user run at once |
| `shared_games` | 2 users with overlapping libraries of 3 games, a sync of each, a page waiting for one, batches of 2, 2 slots | details are stored by whole batches; a clean fetch is complete; libraries do not deadlock among themselves; a page shows exactly what is shared; everyone ends |
| `sessions` | 2 users, 2 tokens, 2 requests, lifetime 2 of 4 clock values | whoever has a session has signed in; a dead session stays dead; the last answer decides the cookie |
| `boot` | two new instances and an old one, 3 migrations, 3 failures | each migration once, in order, with its row; nobody serves without its migrations; all come to serve |
| `event_times` | 11 zones, 2 dates, 10 times of day, every form of odd text | what is saved is what was chosen, and what the table accepts |

Why the bounds are enough for what they ask. Party calls touch one party each and
meet only in that party's row lock, so one party suffices; two requests make every
pair of calls race, and a third could only wait for the same row. Three users are
a leader, the member who succeeds or is invited, and an outsider. Two invite ids
allow an answered invite to be followed by a new one. One clock value is enough where
order does not matter; where it does, `party_succession` has two, with ties, and two requests, so
that a transaction may begin first, wait for the row and commit last. Two things keep that run
small: invite ids are symmetric, being compared for equality only, as in `party_calls`, and its constraint
(`JoinsAndLeaves` of `MCPartyStore`) leaves out the calls that make nobody a member and take no
membership away. Those race in `party_calls`, and the step theorem of section 5 has them all.
One visit is enough for `PartyPages`: visits touch each other only through rows, and
`OtherCall` takes every step that another visit could take on those, except
inserting an event, which no visit reads. One game separates owners from the others.
Four constraints of `MCPartyPages` keep that run small: libraries stay empty while a
handler runs that reads none (`LibrariesForEvents`), Steam lists everybody as a friend,
the picker treating each alone (`AllAreFriends`), nobody visits a party that has an event
already, as no visit reads events (`EventIsTheEnd`), and what others do after a visit's
last read is not explored again (`ShownIsTheEnd`). The proofs need none of the four.
For the syncs, three callers are one of each kind, all of one user, so that one
holds the lock, one waits and one comes late; two connections let a holder and a
waiter coexist, and the liveness run takes the worst pool, a single
connection, with a second user who only competes for it.
In `shared_games`, two games are in both libraries, which Steam lists in opposite orders,
and the third makes one library need two batches, the last of them short. A caller thus never has
more batches than `Slots`, and the wait for a slot is not exercised: that would take libraries of five
games, or batches of one row, which cannot deadlock. The theorems hold for any `Slots`. A user is
named twice, and the page waits for one sync while the other is somebody else's. That is a
wait cycle of each kind, a batch beside a batch and a batch beside a library. Two
requests of one browser are one page and one sign-in or logout, in every order of sending
and arriving. Three instances have a winner and a loser of each race, and a binary
that carries less; the middle migration is one that can be run twice. The zones have
whole, half and quarter hours on both sides of UTC, and clocks that go forward, back or stay.

The deadlock check is off where a system ends: a sync, a page, an instance that serves, a clock at
its bound, an event that is saved. That the first three end as they should is `SyncsEnd`,
`CallersEnd` and `AllServe`. The `PartyStore` and `PartyPages` runs leave it on.

### Properties

Party rows: `LeaderIsMember`, `NoOrphanRows`, `PendingInviteIsOpen`,
`OnlySignedInAreAsked` (invariants of what any request may read), `JoinsAreAnswered`
(an invite becomes accepted in the very step that makes its user a member: neither half of the
two statements is ever read without the other), `InsertsNeverConflict` (the duplicate-key branch is unreachable, so it hides
nothing), `ImplementsParty` and `StepsImplementParty` (refinement), `CallsEnd` (liveness).

Pages: `OldRowsUntouched`, `ListedWereOpen`, `OpenAreListed`, `EventFitsRoster` (what
several reads without a common snapshot still guarantee) and `NoOrphanEvents`.

Syncs: `ImplementsUserLock` (mutual exclusion, lapsed locks apart), `IdleHoldsNoLock` (a
pooled connection holds nobody's lock), `FreshIsLeftAlone` (nothing is recorded
over a recent success), `FreshHasLibrary` (a success means a stored outcome),
`StoredIsSynced` (stored games are never marked private), `EndedHoldsNothing`
(no leak on any exit, panics included), `SyncsEnd` (liveness).

Game data and shared games: `BatchesAreWhole` and `CleanFetchIsComplete` (what a fetch that fails in
parts leaves behind), `LibrariesDoNotDeadlock` (the order of the app ids is enough), `ShownIsSharedAndPlayable`
and `NothingSharedIsLeftOut` (the page is right, and complete), `AwaitedAreIncluded` (a member
it waited for, and whose sync heard of its commit, is not called unsynced), `CallersEnd` (liveness).

Sessions: `SessionsAreSignedIn`, `DeadTokensStayDead`, `LastWordCounts`. Boot: `AppliedOnceInOrder`,
`ServingIsMigrated`, `AllServe` (liveness). Event times: `SavedAsChosen`, `SavedWithinReason`.

### Fairness

`PartyStore!FairSpec` is strongly fair for a request's next statement: the request may
find the row locked again and again, and PostgreSQL queues the waiters of a row
lock. Failing is never assumed, except where the bound on ids has run out, which
the code does not have. Beginning a call is not fair.

`LibrarySync!FairSpec` is strongly fair for a sync's normal steps: the pool serves
its waiters in order, row locks queue, the poll repeats, and Steam's client has a
timeout of its own. A call on a dropped session eventually reports it (`NoticesLoss`, which
includes the statements of the friends refresh and of the details), and a closed connection is given
back. The friends refresh and the details end by themselves only where there is a connection to
run them on (`BestEffortEnds`); that they may also be given up without one (`BestEffortGivenUp`) is
not fair. No deadline and no failure is
assumed to come to the rescue.

`SharedGames!FairSpec` is weakly fair for the system as a whole: some goroutine or
transaction goes on while any can, and PostgreSQL ends deadlocks. Nothing repeats for ever, so
that this is enough.

`Boot!FairSpec` is weakly fair for each instance's next statement, and for its restart: the
program is a Cloud Run service (`service.yaml`), which starts a container that has ended again.
Failures from other causes are
bounded, and not fair; a lost race is neither, and may fail an instance as often as it happens.

## 4. Findings

Two statements the repository makes of itself do not hold of the code. Each has a
run whose counterexample shows the interleaving.

1. `party_consent`: `db.go:443-444` has a signed-in target accept or reject an
   invite themselves. A sign-in that commits between `SendInvite`'s read of
   `ever_logged_in` and its commit is joined without being asked.
2. `library_sync_serial`: `main.go:328-329` has syncs of one user serialized. The
   sub-deadline of the friends refresh ends a statement in flight, pgx closes the
   connection that holds the lock, and the rest of the sync goes through the pool.

Smaller observations, met while modelling. They are why some properties are stated as weakly
as they are.

- `auto_accept_integration_test.go:37-38` has an added friend rank after those already in.
  `joined_at` is the beginning of the transaction, so of two overlapping calls the one that
  waited for the lock ranks first.
- `main.go:894-895` has an add never rewrite a stored profile. The row is looked up, then
  Steam is asked, then the row is upserted; a row created in between is rewritten.
  `OldRowsUntouched` is what remains true.
- `party_events.go:85-86` has a saved event be for one of the party's current shared games. They
  are read before the insert, which checks them no more than it checks that the caller still
  leads the party. `EventFitsRoster` is what remains true.
- `games.go:319-320` has a user with stored games stay synced. Once a lock has lapsed, the
  snapshot of `RecordEmptyLibrary` may predate another sync's commit. `StoredIsSynced` leaves
  out the users of lapsed locks. That window is in `LibrarySync` only: `RecordEmpty` of
  `GameData` is one step.
- An event on the day of a clock change ends an hour off: both times are converted with the
  offset at the start (`party_events.templ:165-166`). `SavedAsChosen` says by how much.
- A page that was on its way during a logout puts the old cookie back into the browser. Its
  session is deleted, so the next page is a stranger's. `LastWordCounts` leaves that case out, and
  `DeadTokensStayDead` says why it does no harm.

## 5. Proofs

TLAPS proves the following for every value of the constants, from the named `ASSUME`s of the
modules alone (ids are naturals, the `No...` values lie outside the sets they extend, functions
have the right types, syncs are no pages, times of day lie within a day).

`PartyStore_proofs`: `TypeCorrect`, `AlwaysLedByMember` (`LeaderIsMember`) and
`NeverOrphanRows` (`NoOrphanRows`). Neither of the last two is inductive: at a
commit they depend on what the transaction read some statements before. The
invariant adds that a request past its `lock` statement owns its party's row and
that nobody else does, so the rows it read are the rows it commits over; and, per
value of `pc`, what the statements so far have established (`Stage`): that the
leader read is still the leader, that a target was a member, that the successor
written is one of those who remain, that the party is marked deleted only if none
does. Each action has a step, and the one interesting case is `Commit`.

`PartyRefinement_proofs`: `StoreImplementsParty` (`ImplementsParty`). `Progress` carries
`Stage` further: what a request has found and written before its next
statement, exactly. At a commit it becomes `Effect`: the rows written are those of
one of the eight calls of `Party`, whose conditions hold. Every other step is hidden from
the committed rows. With the refinement, what the calls of `Party` preserve needs no look at
statements: `PendingAlwaysOpen`, `MembersAlwaysInvited` and `OnlySignedInAlwaysAsked` follow
from the invariant `RowsInv` of `Party`'s steps, `JoinsAlwaysAnswered` (`JoinsAreAnswered`) from
its calls one by one, and `InsertsAlwaysClear` from `Progress`. `MembersAlwaysInvited` is what
`JoinsAreAnswered` adds up to: all members but one hold an accepted invite.
While no transaction is open the invariant speaks of committed rows only, so the step theorem
needs no particular start: `StartedStoreStepsAsParty` has it (`StepsImplementParty`) from any rows
that obey the rules, as after a crash, and `FormedPartiesStepAsParty` from the parties of the
run `party_succession`.

`PartyPages_proofs`: `EventsNeverOrphaned`, `ListedAlwaysOpen`, `OpenAlwaysListed`,
`OldRowsNeverTouched` and `EventsAlwaysFit`. The invariant says per visit what its stale reads are
still good for (`VisitInv`): candidates were open at the first query and whoever is merged
at the second; a friend dropped by both queries has been closed at one of them; a target
that is about to be upserted had no row when the request began, because rows of users are
never deleted; libraries only grow, so the game chosen is still owned by the roster read.

`LibrarySync_proofs`: first the lock by itself: an advisory lock is
on the connection of a caller that asked for it, a connection has one owner, and a
caller inside either owns the connection that holds its lock or is in `lost`
(`LockSafety`), from which `LockImplements`: every step of `SyncLock` enters, lapses or leaves, or
is hidden from the callers. The same invariant is shown to hold of `LibrarySync`, whose
steps are lock steps or leave the lock alone: `SyncsUseUserLock` (`ImplementsUserLock`),
`SyncsExcludeEachOther` and `PoolHoldsNoLock` (`IdleHoldsNoLock`). With it and with what a
sync knows at each call (its stage matches its place, work goes on only while the user is
due, a success follows a stored outcome, a user about to be marked private has
no games) come `SyncTypeCorrect`, `EndedGivesBack`, `FreshAlwaysHasLibrary`,
`StoredAlwaysSynced` and, as an action property, `FreshAlwaysLeftAlone`.
Mutual exclusion is what makes these inductive: between a sync's recheck and its
record no other sync of that user moves, unless one of them is in `lost`.

`SharedGames_proofs`, in two parts. The first, `SharedInv`, is what a page may rely on:
`ShownAlwaysSharedAndPlayable` and `AwaitedAlwaysIncluded`. What syncs and batches do
only adds (`DataGrows`: a synced user stays synced, details are written once), so that it cannot
belie what a page has read (`PageKnows`). That the count in the query of `SharedStoredGames` is
the question whether all own the game is the lemma `SharedByAll`, over finite sets.

The second, `FetchInv`, is what a fetch achieves, each theorem resting on one part of it.

- `TypesAlwaysOK` (`TypeOK`). The list a fetch finds is a list of games without repeats that
  fits into `MaxBatches` batches (`ListsFit`).
- `BatchesAlwaysWhole`. A transaction that has `n` locks has those of the first `n` rows of its
  order (`LocksInOrder`), so that one that commits has them all, a library whose sync has given up
  included (`UnheardHold`). This needs that no list has
  repeats, which `OnlyLists` and `SliceLists` show of what the code makes them with.
- `CleanFetchAlwaysComplete`. Every id that was found is in a batch (`EveryIdHasABatch`): that the
  slices of `BatchSize` cover the list, the short one at the end included, is the lemma
  `SlicesCover`. A batch counts as stored only when its transaction has committed
  (`BatchesKnow`), after which its rows have their details (`CommitsLast`). An id that was not
  found had them already, because the sync's own library is committed before it asks
  (`SyncsAskForAll`).
- `NothingSharedIsEverLeftOut`. The same for a page, through its second read of the shared
  games (`PagesAskForAll`).
- `LibrariesNeverDeadlock`. In a wait cycle of syncs take the one that waits for the least app id
  of all: whoever waits for it waits for a row that it has locked, and those come earlier
  in its order, so that their ids are less.

Sorting and filtering are defined by rank and not by recursion, so that these lemmas need no
induction over lists: `Ascending(S)` has at place `k` the number with `k` members of `S` up to
it, and finite sets are enough (`AscendingLists`).

`Sessions_proofs`: `SessionsTypeCorrect`, `SessionsOnlyOfSignedIn`, `DeadTokensAlwaysStayDead` and
`LastWordAlwaysCounts`. The invariant adds that a sign-in about to make a session has stored its
user, and that tokens carried by requests and the cookie were handed out once; for the last one,
that while there has been no overlap the pages on their way carry the current session.

`Boot_proofs`: `AlwaysAppliedOnceInOrder`, `AlwaysMigratedWhenServing` and `BootTypeCorrect`. The first needs
where the open transactions are: an instance is past recorded migrations only, and of those
that have inserted a tracking row for one migration there is one, and it is the first
(`CommitIsFirst`).

`EventTimes_proofs`: `AlwaysSavedAsChosen` and `AlwaysSavedWithinReason`, for every zone, date and time. They
rest on two lemmas: what `formatOffset` writes, `parseUTCOffset` accepts and reads as the same
offset (`OffsetIsReadBack`); and no text that is accepted stands for fifteen hours or more
(`OffsetIsBounded`).

Only model-checked: `CallsEnd`, `SyncsEnd`, `CallersEnd` and `AllServe`, the liveness properties, as
fairness is beyond the prover. Every other property of a passing run is a theorem; the two
violated properties are refuted by TLC.

## 6. Not modelled

Pages, templates, static assets and the error classification (`internal/syncreason`) are
sequential formatting with unit tests of their own; most of their code is generated. The test
database helper is not part of the program. Steam, Google
Calendar and PostgreSQL are modelled only as far as the code depends on them: lock
modes, READ COMMITTED, deadlock detection, session-level locks and lost answers as above.

## 7. Plan

What could still be added, in order of what it could show.

1. `LibrarySync` and `GameData` composed: the batches of a sync whose lock has lapsed beside the
   next sync of the same user. Today each is shown with the other's effect only.
2. Two "Get shared games" requests, whose member slots do not know of each other, on a pool
   smaller than their sum; `SyncsEnd` covers the pool, with one request's slots.
3. The safety half of the liveness properties as theorems: that in every state that is not an end some
   step's guard holds, written out, for any number of syncs and requests.
4. Whom `handleSendInvite` syncs when the answer of SendInvite was lost.
