---------------------------- MODULE LibrarySync ----------------------------
(***************************************************************************)
(* The three callers that bring a user's stored library up to date, running *)
(* concurrently, in any number of instances over one database:             *)
(*   "page"   main.go handleLibrarySync, asked for by a rendered page;     *)
(*   "member" internal/view/view.go syncMemberIfDue, one per selected      *)
(*            friend of a "Get shared games" request, in its slots;        *)
(*   "added"  main.go syncAddedMember, after an invite joined a friend.    *)
(* Each takes the user's sync lock (SyncLock) and runs its statements on   *)
(* the lock connection while that lives.  Steam may answer with games, an  *)
(* empty list, an error or a panic of the client.                          *)
(***************************************************************************)
EXTENDS SyncLock, Naturals

CONSTANTS
    Kind,         \* Kind[s]: which caller s is
    MemberSlots   \* memberSyncConcurrency: how many "member" syncs run at once

ASSUME KindAssumption == Kind \in [Syncs -> {"page", "member", "added"}]
ASSUME MemberSlotsAssumption == MemberSlots \in Nat \ {0}

VARIABLES
    at,      \* at[s]: the call s is about to make
    fresh,   \* fresh[u]: users.library_synced_at is at most 24 hours old
    error,   \* error[u]: users.library_sync_error is stored
    state,   \* state[u]: users.game_sync_state
    stored   \* stored[u]: u has committed user_games rows

data == <<fresh, error, state, stored>>
vars == <<stage, conn, session, borrowed, lock, lost, at, fresh, error, state, stored>>

\* What a sync runs under the lock.
UnderLock ==
    {"recheck", "outcome", "friends", "steam", "insert", "commit", "empty",
     "keepSynced", "markPrivate", "details", "success", "failure", "leave"}

SyncStates == {"never_synced", "synced", "private_or_no_games"}

TypeOK ==
    /\ LockTypeOK
    /\ at \in [Syncs -> {"slot", "due", "lock", "end"} \cup UnderLock]
    /\ \A s \in Syncs : stage[s] = "inside" <=> at[s] \in UnderLock
    /\ fresh \in [Users -> BOOLEAN]
    /\ error \in [Users -> BOOLEAN]
    /\ state \in [Users -> SyncStates]
    /\ stored \in [Users -> BOOLEAN]

FirstCall(s) ==
    CASE Kind[s] = "page" -> "due" [] Kind[s] = "member" -> "slot" [] OTHER -> "lock"

Init ==
    /\ LockInit
    /\ at = [s \in Syncs |-> FirstCall(s)]
    /\ fresh = [u \in Users |-> FALSE]
    /\ error = [u \in Users |-> FALSE]
    /\ state = [u \in Users |-> "never_synced"]
    /\ stored = [u \in Users |-> FALSE]

-----------------------------------------------------------------------------
To(s, from, to) == at[s] = from /\ at' = [at EXCEPT ![s] = to]

InSlots == {s \in Syncs : Kind[s] = "member" /\ at[s] \notin {"slot", "end"}}

\* The users row of u is locked by an uncommitted StoreUserLibrary, until it
\* commits or its session ends and rolls it back.
RowLocked(u) ==
    \E s \in Syncs :
        /\ UserOf[s] = u
        /\ at[s] = "commit"
        /\ conn[s] = NoConn \/ session[conn[s]] = "up"

-----------------------------------------------------------------------------
(* Before the lock.                                                        *)

\* A member sync waits for a slot, or for the request's budget to end.
TakeSlot(s) ==
    /\ Cardinality(InSlots) < MemberSlots
    /\ To(s, "slot", "due")
    /\ UNCHANGED <<lockVars, data>>

NoSlot(s) == To(s, "slot", "end") /\ UNCHANGED <<lockVars, data>>

\* LibrarySyncDue, on a connection of the pool.
CheckDue(s) ==
    /\ Free # {}
    /\ To(s, "due", IF fresh[UserOf[s]] THEN "end" ELSE "lock")
    /\ UNCHANGED <<lockVars, data>>

CheckDueFails(s) == To(s, "due", "end") /\ UNCHANGED <<lockVars, data>>

AskLock(s) ==
    /\ at[s] = "lock"
    /\ Enter(s) \/ AcquireConn(s) \/ TryLock(s) \/ LockRefused(s) \/ Poll(s)
    /\ UNCHANGED <<at, data>>

GetLock(s) == To(s, "lock", "recheck") /\ LockGranted(s) /\ UNCHANGED data

NoLock(s) ==
    /\ To(s, "lock", "end")
    /\ AttemptFails(s) \/ GiveUp(s)
    /\ UNCHANGED data

-----------------------------------------------------------------------------
(* Under the lock.                                                         *)

\* A read, or a write that takes effect and whose answer arrives.
Runs(s, from, to) == To(s, from, to) /\ StatementRuns(s)

\* The first step of a call that keeps its connection.
Begins(s, from, to) == To(s, from, to) /\ CallBegins(s)

\* A statement that fails without effect.
Fails(s, from, to) == To(s, from, to) /\ (StatementRefused(s) \/ AnswerLost(s))

\* A write that takes effect and whose answer is lost.
RunsUnheard(s, from, to) == To(s, from, to) /\ Reaches(s) /\ AnswerLost(s)

\* Mutant of Recheck: a sync that waited for the lock trusts its first check.
RecheckSkipped(s) ==
    /\ To(s, "recheck", IF Kind[s] = "page" THEN "friends" ELSE "steam")
    /\ StatementRuns(s)
    /\ UNCHANGED data

\* LibrarySyncDue again: another sync may have finished in the meantime.
Recheck(s) ==
    /\ Runs(s, "recheck",
            CASE Kind[s] = "page" /\ fresh[UserOf[s]] -> "outcome"
              [] Kind[s] = "page" /\ ~fresh[UserOf[s]] -> "friends"
              [] Kind[s] # "page" /\ fresh[UserOf[s]] -> "leave"
              [] OTHER -> "steam")
    /\ UNCHANGED data

\* storedSyncOutcome: the page is shown what the other sync recorded.
ReadOutcome(s) == Runs(s, "outcome", "leave") /\ UNCHANGED data

ReadFails(s) ==
    /\ \E from \in {"recheck", "outcome"} : Fails(s, from, "leave")
    /\ UNCHANGED data

\* syncLoginFriends and FetchMissingGameData make any number of statements, all on
\* other tables or rows.  The failure of one, or the end of the friends' own
\* deadline, stops nothing else, though it may cost the lock connection.
BestEffort(s) ==
    /\ \E here \in {"friends", "details"} : Fails(s, here, here)
    /\ UNCHANGED data

\* They are over without a connection: Steam or the deadline has ended them early,
\* the last one has failed, or there was no friend to write.
BestEffortGivenUp(s) ==
    /\ To(s, "friends", "steam") \/ To(s, "details", "success")
    /\ UNCHANGED <<lockVars, data>>

\* All of them have run, which takes a connection.
BestEffortEnds(s) == Reaches(s) /\ BestEffortGivenUp(s)

\* Mutant of FetchGames: an empty list is nothing to store.
FetchGamesIgnoringEmpty(s) ==
    /\ \E to \in {"insert", "success", "failure"} : To(s, "steam", to)
    /\ UNCHANGED <<lockVars, data>>

\* Steam answers with games, an empty list or an error.
FetchGames(s) ==
    /\ \E to \in {"insert", "empty", "failure"} : To(s, "steam", to)
    /\ UNCHANGED <<lockVars, data>>

\* Mutant of Panics: the panic passes by the deferred release.
PanicsPastRelease(s) ==
    /\ To(s, "steam", IF Kind[s] = "page" THEN "failure" ELSE "end")
    /\ UNCHANGED <<lockVars, data>>

\* A panic of the Steam client: syncFriendsAndLibrary makes it an error of the
\* page's sync; the others unwind through the release, recording nothing.
Panics(s) ==
    /\ To(s, "steam", IF Kind[s] = "page" THEN "failure" ELSE "leave")
    /\ UNCHANGED <<lockVars, data>>

-----------------------------------------------------------------------------
(* StoreUserLibrary: one transaction.  An attempt that loses a deadlock is  *)
(* rolled back and made again, which changes nothing.                      *)

InsertGames(s) ==
    /\ ~RowLocked(UserOf[s])
    /\ Begins(s, "insert", "commit")
    /\ UNCHANGED data

LibraryStored(s) ==
    /\ stored' = [stored EXCEPT ![UserOf[s]] = TRUE]
    /\ state' = [state EXCEPT ![UserOf[s]] = "synced"]
    /\ UNCHANGED <<fresh, error>>

CommitGames(s) ==
    \/ Runs(s, "commit", "details") /\ LibraryStored(s)
    \/ RunsUnheard(s, "commit", "failure") /\ LibraryStored(s)

StoreFails(s) ==
    /\ \E from \in {"insert", "commit"} : Fails(s, from, "failure")
    /\ UNCHANGED data

-----------------------------------------------------------------------------
(* RecordEmptyLibrary: one UPDATE.  Its subquery sees the rows committed    *)
(* when the statement began; the row is written when its lock is free.     *)

\* Mutant of LookForGames: stored games are not looked for.
LookForNothing(s) == Begins(s, "empty", "markPrivate") /\ UNCHANGED data

LookForGames(s) ==
    /\ Begins(s, "empty", IF stored[UserOf[s]] THEN "keepSynced" ELSE "markPrivate")
    /\ UNCHANGED data

EmptyStored(s) ==
    /\ ~RowLocked(UserOf[s])
    /\ state' = [state EXCEPT ![UserOf[s]] =
                     IF at[s] = "keepSynced" THEN "synced" ELSE "private_or_no_games"]
    /\ UNCHANGED <<fresh, error, stored>>

\* Mutant of RecordEmpty: the state has a name the column's check refuses.
RecordEmptyMisnamed(s) ==
    /\ \E from \in {"keepSynced", "markPrivate"} : Runs(s, from, "success")
    /\ state' = [state EXCEPT ![UserOf[s]] = "private"]
    /\ UNCHANGED <<fresh, error, stored>>

RecordEmpty(s) ==
    /\ \E from \in {"keepSynced", "markPrivate"} :
           Runs(s, from, "success") \/ RunsUnheard(s, from, "failure")
    /\ EmptyStored(s)

EmptyFails(s) ==
    /\ \E from \in {"empty", "keepSynced", "markPrivate"} : Fails(s, from, "failure")
    /\ UNCHANGED data

-----------------------------------------------------------------------------
(* The outcome is recorded on a context of its own, and the lock released.  *)

RecordSyncSuccess(s) ==
    /\ ~RowLocked(UserOf[s])
    /\ Runs(s, "success", "leave") \/ RunsUnheard(s, "success", "leave")
    /\ fresh' = [fresh EXCEPT ![UserOf[s]] = TRUE]
    /\ error' = [error EXCEPT ![UserOf[s]] = FALSE]
    /\ UNCHANGED <<state, stored>>

RecordSyncFailure(s) ==
    /\ ~RowLocked(UserOf[s])
    /\ Runs(s, "failure", "leave") \/ RunsUnheard(s, "failure", "leave")
    /\ error' = [error EXCEPT ![UserOf[s]] = TRUE]
    /\ UNCHANGED <<fresh, state, stored>>

RecordFails(s) ==
    /\ \E from \in {"success", "failure"} : Fails(s, from, "leave")
    /\ UNCHANGED data

Leave(s) == To(s, "leave", "end") /\ Release(s) /\ UNCHANGED data

-----------------------------------------------------------------------------
\* Steps that no failure is needed for.
Proceed(s) ==
    \/ TakeSlot(s) \/ CheckDue(s) \/ AskLock(s) \/ GetLock(s)
    \/ Recheck(s) \/ ReadOutcome(s) \/ BestEffortEnds(s)
    \/ FetchGames(s) \/ InsertGames(s) \/ CommitGames(s)
    \/ LookForGames(s) \/ RecordEmpty(s)
    \/ RecordSyncSuccess(s) \/ RecordSyncFailure(s) \/ Leave(s)

Falter(s) ==
    \/ NoSlot(s) \/ CheckDueFails(s) \/ NoLock(s)
    \/ ReadFails(s) \/ BestEffort(s) \/ BestEffortGivenUp(s) \/ Panics(s)
    \/ StoreFails(s) \/ EmptyFails(s) \/ RecordFails(s)

\* The lock connection between two calls.
Connection(s) == (ReturnClosed(s) \/ LoseSession(s)) /\ UNCHANGED <<at, data>>

\* 24 hours pass since the last success.
Age(u) ==
    /\ fresh' = [fresh EXCEPT ![u] = FALSE]
    /\ UNCHANGED <<lockVars, at, error, state, stored>>

Next ==
    \/ \E s \in Syncs : Proceed(s) \/ Falter(s) \/ Connection(s)
    \/ \E u \in Users : Age(u)

Spec == Init /\ [][Next]_vars

\* A call on a dropped session fails.
NoticesLoss(s) ==
    /\ OnLockConn(s)
    /\ session[conn[s]] = "broken"
    /\ ReadFails(s) \/ BestEffort(s) \/ StoreFails(s) \/ EmptyFails(s) \/ RecordFails(s)

\* The goroutine of a sync runs, the pool and the row locks serve those waiting
\* in turn.  Nothing is assumed of deadlines, or of a call failing on its own.
FairSpec ==
    /\ Spec
    /\ \A s \in Syncs :
        /\ SF_vars(Proceed(s))
        /\ WF_vars(ReturnClosed(s) /\ UNCHANGED <<at, data>>)
        /\ SF_vars(NoticesLoss(s))

-----------------------------------------------------------------------------
(* Properties.                                                             *)

LostBy(u) == \E s \in lost : UserOf[s] = u

\* Once a sync of u has succeeded, nothing is recorded over it, success or
\* failure, until 24 hours have passed: a sync that waited for the lock, or that
\* judged u due before the other one finished, leaves u alone (main.go:363-373,
\* view.go:401-409).  Only a sync whose lock connection was lost may break this.
FreshIsLeftAlone ==
    [][\A s \in Syncs :
          at[s] \in {"success", "failure"} /\ at'[s] = "leave" /\ fresh[UserOf[s]]
              => LostBy(UserOf[s])]_vars

\* A user whose sync counts as successful has been stored as synced or as
\* private: no page shows a fresh user as never synced, whatever failed on the
\* way (view.go:409-417, main.go:385-397).
FreshHasLibrary == \A u \in Users : fresh[u] => state[u] # "never_synced"

\* A user with stored games is synced, even after a later sync finds the library
\* empty or private, unless a sync ran without its lock (games.go:318-338).
StoredIsSynced == \A u \in Users : stored[u] => state[u] = "synced" \/ LostBy(u)

\* A sync that has ended, in success, error or panic, keeps no connection of the
\* pool (games.go:235-239, 294-306).
EndedHoldsNothing ==
    \A s \in Syncs : at[s] = "end" => conn[s] = NoConn /\ borrowed[s] = NoConn

\* Every sync ends, however small the pool: the holder of a lock never waits for
\* a second connection behind those that wait for its lock (games.go:226-232).
SyncsEnd == \A s \in Syncs : <>(at[s] = "end")

-----------------------------------------------------------------------------
(* What the repository says of the program, and the code does not keep.    *)

\* s has judged its user due and has not yet recorded an outcome.
Running(s) ==
    at[s] \in {"friends", "steam", "insert", "commit", "empty", "keepSynced",
               "markPrivate", "details", "success", "failure"}

\* "Syncs of one user are serialized by the user's sync lock" (main.go:328-329).
SyncsAreSerialized ==
    \A s, t \in Syncs : s # t /\ UserOf[s] = UserOf[t] => ~(Running(s) /\ Running(t))

=============================================================================
