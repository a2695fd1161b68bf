------------------------------ MODULE SyncLock ------------------------------
(***************************************************************************)
(* internal/db/games.go: WithUserSyncLock.  A session-level advisory lock  *)
(* of PostgreSQL per user, taken on a connection of a bounded pool and     *)
(* polled for without keeping a connection in between; the calls made      *)
(* under it run on the connection that holds it, until that connection is  *)
(* lost, and on the pool from then on.                                     *)
(***************************************************************************)
EXTENDS FiniteSets

CONSTANTS
    Syncs,     \* the callers of WithUserSyncLock
    Users,
    UserOf,    \* UserOf[s]: whose lock s asks for
    Conns,     \* the slots of the connection pool
    NoConn

ASSUME UserOfAssumption == UserOf \in [Syncs -> Users]
ASSUME NoConnAssumption == NoConn \notin Conns

VARIABLES
    stage,    \* stage[s]: how far s is in WithUserSyncLock
    conn,     \* conn[s]: the pool connection s has taken for the lock
    session,  \* session[c]: the session behind a taken slot, as its owner may find it
    borrowed, \* borrowed[s]: the pool connection of a call that s is in the middle of
    lock,     \* lock[u]: the connection whose session holds u's advisory lock
    lost      \* history: the callers that have lost the connection of their lock

lockVars == <<stage, conn, session, borrowed, lock, lost>>

Stages == {"out", "acquire", "asked", "granted", "refused", "waiting", "inside", "done"}

\* "broken" has ended and its owner does not know; "closed", and it does.
Sessions == {"up", "broken", "closed"}

LockTypeOK ==
    /\ stage \in [Syncs -> Stages]
    /\ conn \in [Syncs -> Conns \cup {NoConn}]
    /\ session \in [Conns -> Sessions]
    /\ borrowed \in [Syncs -> Conns \cup {NoConn}]
    /\ lock \in [Users -> Conns \cup {NoConn}]
    /\ lost \subseteq Syncs

LockInit ==
    /\ stage = [s \in Syncs |-> "out"]
    /\ conn = [s \in Syncs |-> NoConn]
    /\ session = [c \in Conns |-> "up"]
    /\ borrowed = [s \in Syncs |-> NoConn]
    /\ lock = [u \in Users |-> NoConn]
    /\ lost = {}

-----------------------------------------------------------------------------
Free == {c \in Conns : \A s \in Syncs : c \notin {conn[s], borrowed[s]}}

Move(s, from, to) ==
    /\ stage[s] = from
    /\ stage' = [stage EXCEPT ![s] = to]

\* A session that ends frees every advisory lock it holds.
LocksWithout(c) == [u \in Users |-> IF lock[u] = c THEN NoConn ELSE lock[u]]

\* The connection goes back: a live session stays in the pool with whatever
\* locks it holds, an ended one is replaced by a new session.
GiveBack(s) == conn' = [conn EXCEPT ![s] = NoConn]

\* closeConn, then Release: the session ends and the slot is free for a new one.
CloseAndGiveBack(s) ==
    /\ lock' = LocksWithout(conn[s])
    /\ session' = [session EXCEPT ![conn[s]] = "up"]
    /\ GiveBack(s)
    /\ UNCHANGED <<borrowed, lost>>

-----------------------------------------------------------------------------
(* acquireUserSyncLock                                                     *)

Enter(s) ==
    /\ Move(s, "out", "acquire")
    /\ UNCHANGED <<conn, session, borrowed, lock, lost>>

\* pool.Acquire waits for a free slot.
AcquireConn(s) ==
    /\ Move(s, "acquire", "asked")
    /\ \E c \in Free : conn' = [conn EXCEPT ![s] = c]
    /\ UNCHANGED <<session, borrowed, lock, lost>>

\* Mutant of TryLock: the lock is taken to be free.
TryLockBlindly(s) ==
    /\ Move(s, "asked", "granted")
    /\ lock' = [lock EXCEPT ![UserOf[s]] = conn[s]]
    /\ UNCHANGED <<conn, session, borrowed, lost>>

\* pg_try_advisory_lock in the server: a session that already holds the lock is
\* given it again.
TryLock(s) ==
    /\ \/ /\ lock[UserOf[s]] \in {NoConn, conn[s]}
          /\ Move(s, "asked", "granted")
          /\ lock' = [lock EXCEPT ![UserOf[s]] = conn[s]]
       \/ /\ lock[UserOf[s]] \notin {NoConn, conn[s]}
          /\ Move(s, "asked", "refused")
          /\ UNCHANGED lock
    /\ UNCHANGED <<conn, session, borrowed, lost>>

\* The answer arrives: fn runs.
LockGranted(s) ==
    /\ Move(s, "granted", "inside")
    /\ UNCHANGED <<conn, session, borrowed, lock, lost>>

\* The answer arrives: the connection goes back while s waits.
LockRefused(s) ==
    /\ Move(s, "refused", "waiting")
    /\ GiveBack(s)
    /\ UNCHANGED <<session, borrowed, lock, lost>>

Poll(s) ==
    /\ Move(s, "waiting", "acquire")
    /\ UNCHANGED <<conn, session, borrowed, lock, lost>>

\* Mutant of AttemptFails: the connection goes back as it is.
AttemptFailsGivingBack(s) ==
    /\ \E from \in {"asked", "granted", "refused"} : Move(s, from, "done")
    /\ GiveBack(s)
    /\ UNCHANGED <<session, borrowed, lock, lost>>

\* The attempt is cancelled or fails, before or after the server has answered.
AttemptFails(s) ==
    /\ \E from \in {"asked", "granted", "refused"} : Move(s, from, "done")
    /\ CloseAndGiveBack(s)

\* The context ends while s waits for a connection or between two attempts.
GiveUp(s) ==
    /\ \E from \in {"acquire", "waiting"} : Move(s, from, "done")
    /\ UNCHANGED <<conn, session, borrowed, lock, lost>>

-----------------------------------------------------------------------------
(* Under the lock: querier, and the calls of fn on the store.              *)

OnPool(s) == stage[s] = "inside" /\ conn[s] = NoConn

OnLockConn(s) == stage[s] = "inside" /\ conn[s] # NoConn /\ session[conn[s]] # "closed"

\* querier: a closed lock connection goes back before the call goes to the pool,
\* so the call never waits for a slot that its own sync occupies.
ReturnClosed(s) ==
    /\ stage[s] = "inside"
    /\ conn[s] # NoConn
    /\ session[conn[s]] = "closed"
    /\ CloseAndGiveBack(s)
    /\ UNCHANGED stage

\* The call reaches a session that will run it.
Reaches(s) ==
    \/ OnLockConn(s) /\ session[conn[s]] = "up"
    \/ OnPool(s) /\ (borrowed[s] # NoConn \/ Free # {})

\* A call of several steps keeps its connection until it ends.
CallBegins(s) ==
    /\ Reaches(s)
    /\ IF OnPool(s)
       THEN \E c \in Free : borrowed' = [borrowed EXCEPT ![s] = c]
       ELSE UNCHANGED borrowed
    /\ UNCHANGED <<stage, conn, session, lock, lost>>

CallEnds(s) == borrowed' = [borrowed EXCEPT ![s] = NoConn]

\* Mutant of StatementRuns: every call under the lock takes a second connection.
StatementOnSecondConn(s) ==
    /\ stage[s] = "inside"
    /\ Free # {}
    /\ CallEnds(s)
    /\ UNCHANGED <<stage, conn, session, lock, lost>>

StatementRuns(s) ==
    /\ Reaches(s)
    /\ CallEnds(s)
    /\ UNCHANGED <<stage, conn, session, lock, lost>>

\* Refused by the server, or its context ended before it was sent: no effect,
\* and the connection stays as it was.
StatementRefused(s) ==
    /\ OnLockConn(s) \/ OnPool(s)
    /\ CallEnds(s)
    /\ UNCHANGED <<stage, conn, session, lock, lost>>

\* The connection fails, or the context ends with the statement in flight: the
\* client closes the connection and cannot tell whether the statement ran.  The
\* server may notice later; until then the lock only delays the others.
AnswerLost(s) ==
    /\ \/ /\ OnLockConn(s)
          /\ session' = [session EXCEPT ![conn[s]] = "closed"]
          /\ lock' = LocksWithout(conn[s])
          /\ lost' = lost \cup {s}
       \/ OnPool(s) /\ UNCHANGED <<session, lock, lost>>
    /\ CallEnds(s)
    /\ UNCHANGED <<stage, conn>>

\* The server or the network drops the session while s is not using it.
LoseSession(s) ==
    /\ OnLockConn(s)
    /\ session' = [session EXCEPT ![conn[s]] = "broken"]
    /\ lock' = LocksWithout(conn[s])
    /\ lost' = lost \cup {s}
    /\ UNCHANGED <<stage, conn, borrowed>>

\* fn returns or panics, its calls ended: unlock and give the connection back, or
\* close it if the unlock fails.  Either way its session holds the lock no more.
Release(s) ==
    /\ borrowed[s] = NoConn
    /\ Move(s, "inside", "done")
    /\ IF conn[s] = NoConn
       THEN UNCHANGED <<conn, session, borrowed, lock, lost>>
       ELSE CloseAndGiveBack(s)

LockNext ==
    \E s \in Syncs :
        \/ Enter(s) \/ AcquireConn(s) \/ TryLock(s)
        \/ LockGranted(s) \/ LockRefused(s) \/ Poll(s)
        \/ AttemptFails(s) \/ GiveUp(s)
        \/ ReturnClosed(s) \/ CallBegins(s) \/ StatementRuns(s)
        \/ StatementRefused(s) \/ AnswerLost(s) \/ LoseSession(s) \/ Release(s)

LockSpec == LockInit /\ [][LockNext]_lockVars

-----------------------------------------------------------------------------
(* Properties.                                                             *)

Inside == {s \in Syncs : stage[s] = "inside"}

Exclusive == INSTANCE UserLock WITH Callers <- Syncs, inside <- Inside, lapsed <- lost

\* Polling for an advisory lock of a session, with answers that get lost and
\* connections that are shared by turns, is a lock: fn never runs for two callers
\* of one user while the first one's connection lives (games.go:216-316).
ImplementsUserLock == Exclusive!Spec

\* Two callers run under the lock of one user only if one of them has lost the
\* connection that held it, whatever attempts were cancelled, refused or left
\* unanswered before (games.go:216-232).
OneHolder ==
    \A s, t \in Syncs :
        /\ s # t /\ UserOf[s] = UserOf[t]
        /\ stage[s] = "inside" /\ stage[t] = "inside"
        => s \in lost \/ t \in lost

\* A connection in the pool holds nobody's lock: whichever way an attempt or a
\* sync ended, the next request to take the connection does not inherit a lock
\* that nobody will ever release (games.go:258-263, 294-316).
IdleHoldsNoLock ==
    \A u \in Users : lock[u] # NoConn =>
        \E s \in Syncs : conn[s] = lock[u] /\ UserOf[s] = u

=============================================================================
