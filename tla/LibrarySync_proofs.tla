------------------------- MODULE LibrarySync_proofs -------------------------
(***************************************************************************)
(* Theorems about SyncLock, for every set of callers, users and pool       *)
(* connections, and what LibrarySync inherits from them.                   *)
(*                                                                         *)
(* OneHolder is not inductive: it says nothing of the attempts that are    *)
(* still on their way.  LockInv adds, for every connection of the pool,    *)
(* who has it, whether its session lives and which locks that session has. *)
(***************************************************************************)
EXTENDS LibrarySync, TLAPS

\* No connection serves two callers.
ConnNotShared ==
    \A s, t \in Syncs : s # t /\ conn[s] # NoConn => conn[s] # conn[t]

\* A connection in the pool has a live session.
FreeIsUp == \A c \in Conns : (\A s \in Syncs : conn[s] # c) => session[c] = "up"

\* Who has a connection, and in what state.
ConnByStage ==
    \A s \in Syncs :
        /\ stage[s] \in {"out", "acquire", "waiting", "done"} => conn[s] = NoConn
        /\ stage[s] \in {"asked", "granted", "refused"} =>
               conn[s] \in Conns /\ session[conn[s]] = "up"
        /\ stage[s] = "inside" /\ s \notin lost =>
               conn[s] \in Conns /\ session[conn[s]] = "up"

\* A caller that was given the lock still has it, unless its connection is lost.
GivenIsHeld ==
    \A s \in Syncs :
        stage[s] = "granted" \/ (stage[s] = "inside" /\ s \notin lost)
            => lock[UserOf[s]] = conn[s]

\* A lock is held by the connection of a caller that was given it.
HeldIsGiven ==
    \A u \in Users : lock[u] # NoConn =>
        \E s \in Syncs :
            /\ conn[s] = lock[u]
            /\ UserOf[s] = u
            /\ stage[s] \in {"granted", "inside"}

LockInv ==
    LockTypeOK /\ ConnNotShared /\ FreeIsUp /\ ConnByStage /\ GivenIsHeld /\ HeldIsGiven

-----------------------------------------------------------------------------
\* Starting, being told of the lock, polling again and giving up move no
\* connection.
LEMMA MovePreserves ==
    ASSUME LockInv, NEW s \in Syncs,
           Enter(s) \/ LockGranted(s) \/ Poll(s) \/ GiveUp(s)
    PROVE  LockInv'
<1> USE DEF LockInv, LockTypeOK
<1>1. /\ UNCHANGED <<conn, session, borrowed, lock, lost>>
      /\ \/ stage[s] \in {"out", "acquire", "waiting"} /\ stage' = [stage EXCEPT ![s] = "acquire"]
         \/ stage[s] \in {"acquire", "waiting"} /\ stage' = [stage EXCEPT ![s] = "done"]
         \/ stage[s] = "granted" /\ stage' = [stage EXCEPT ![s] = "inside"]
  BY DEF Enter, LockGranted, Poll, GiveUp, Move
<1>2. LockTypeOK'
  BY <1>1 DEF Stages
<1>3. ConnNotShared' /\ FreeIsUp'
  BY <1>1 DEF ConnNotShared, FreeIsUp
<1>4. ConnByStage'
  BY <1>1 DEF ConnByStage, Stages
<1>5. GivenIsHeld'
  BY <1>1 DEF GivenIsHeld, Stages
<1>6. HeldIsGiven'
  <2> SUFFICES ASSUME NEW u \in Users, lock[u] # NoConn
               PROVE  \E t \in Syncs : /\ conn[t] = lock[u]
                                       /\ UserOf[t] = u
                                       /\ stage'[t] \in {"granted", "inside"}
    BY <1>1 DEF HeldIsGiven
  <2>1. PICK t \in Syncs : /\ conn[t] = lock[u]
                           /\ UserOf[t] = u
                           /\ stage[t] \in {"granted", "inside"}
    BY DEF HeldIsGiven
  <2>2. stage'[t] \in {"granted", "inside"}
    BY <1>1, <2>1 DEF Stages
  <2> QED
    BY <2>1, <2>2
<1> QED
  BY <1>2, <1>3, <1>4, <1>5, <1>6

\* Taking a free connection.
LEMMA AcquirePreserves ==
    ASSUME LockInv, NEW s \in Syncs, AcquireConn(s)
    PROVE  LockInv'
<1> USE DEF LockInv, LockTypeOK
<1>1. PICK c \in Conns : /\ \A t \in Syncs : conn[t] # c
                         /\ conn' = [conn EXCEPT ![s] = c]
  BY DEF AcquireConn, Free
<1>2. /\ stage[s] = "acquire"
      /\ stage' = [stage EXCEPT ![s] = "asked"]
      /\ UNCHANGED <<session, borrowed, lock, lost>>
  BY DEF AcquireConn, Move
<1>3. LockTypeOK'
  BY <1>1, <1>2 DEF Stages
<1>4. ConnNotShared'
  BY <1>1, <1>2 DEF ConnNotShared
<1>5. FreeIsUp'
  BY <1>1, <1>2, NoConnAssumption DEF FreeIsUp, ConnByStage
<1>6. ConnByStage'
  BY <1>1, <1>2, NoConnAssumption DEF ConnByStage, FreeIsUp, Stages
<1>7. GivenIsHeld'
  BY <1>1, <1>2 DEF GivenIsHeld, Stages
<1>8. HeldIsGiven'
  <2> SUFFICES ASSUME NEW u \in Users, lock[u] # NoConn
               PROVE  \E t \in Syncs : /\ conn'[t] = lock[u]
                                       /\ UserOf[t] = u
                                       /\ stage'[t] \in {"granted", "inside"}
    BY <1>2 DEF HeldIsGiven
  <2>1. PICK t \in Syncs : /\ conn[t] = lock[u]
                           /\ UserOf[t] = u
                           /\ stage[t] \in {"granted", "inside"}
    BY DEF HeldIsGiven
  <2>2. t # s
    BY <1>2, <2>1
  <2> QED
    BY <1>1, <1>2, <2>1, <2>2
<1> QED
  BY <1>3, <1>4, <1>5, <1>6, <1>7, <1>8

\* The server's answer to an attempt: no lock is taken from another connection.
LEMMA TryPreserves ==
    ASSUME LockInv, NEW s \in Syncs, TryLock(s)
    PROVE  LockInv'
<1> USE DEF LockInv, LockTypeOK
<1>1. /\ stage[s] = "asked"
      /\ conn[s] \in Conns
      /\ session[conn[s]] = "up"
      /\ UserOf[s] \in Users
      /\ UNCHANGED <<conn, session, borrowed, lost>>
  BY UserOfAssumption DEF TryLock, Move, ConnByStage
<1>2. CASE /\ lock[UserOf[s]] \in {NoConn, conn[s]}
           /\ stage' = [stage EXCEPT ![s] = "granted"]
           /\ lock' = [lock EXCEPT ![UserOf[s]] = conn[s]]
  <2>1. LockTypeOK' /\ ConnNotShared' /\ FreeIsUp'
    BY <1>1, <1>2 DEF ConnNotShared, FreeIsUp, Stages
  <2>2. ConnByStage'
    BY <1>1, <1>2 DEF ConnByStage, Stages
  <2>3. GivenIsHeld'
    <3> SUFFICES ASSUME NEW t \in Syncs,
                        stage'[t] = "granted" \/ (stage'[t] = "inside" /\ t \notin lost)
                 PROVE  lock'[UserOf[t]] = conn[t]
      BY <1>1 DEF GivenIsHeld
    <3>1. CASE t = s
      BY <1>1, <1>2, <3>1
    <3>2. CASE t # s
      <4>1. lock[UserOf[t]] = conn[t] /\ conn[t] \in Conns
        BY <1>2, <3>2 DEF GivenIsHeld, ConnByStage, Stages
      <4>2. UserOf[t] # UserOf[s]
        BY <1>1, <1>2, <3>2, <4>1, NoConnAssumption DEF ConnNotShared
      <4> QED
        BY <1>1, <1>2, <4>1, <4>2, UserOfAssumption
    <3> QED
      BY <3>1, <3>2
  <2>4. HeldIsGiven'
    <3> SUFFICES ASSUME NEW u \in Users, lock'[u] # NoConn
                 PROVE  \E t \in Syncs : /\ conn[t] = lock'[u]
                                         /\ UserOf[t] = u
                                         /\ stage'[t] \in {"granted", "inside"}
      BY <1>1 DEF HeldIsGiven
    <3>1. CASE u = UserOf[s]
      BY <1>1, <1>2, <3>1 DEF Stages
    <3>2. CASE u # UserOf[s]
      <4>1. lock'[u] = lock[u]
        BY <1>1, <1>2, <3>2
      <4>2. PICK t \in Syncs : /\ conn[t] = lock[u]
                               /\ UserOf[t] = u
                               /\ stage[t] \in {"granted", "inside"}
        BY <4>1 DEF HeldIsGiven
      <4> QED
        BY <1>2, <3>2, <4>1, <4>2 DEF Stages
    <3> QED
      BY <3>1, <3>2
  <2> QED
    BY <2>1, <2>2, <2>3, <2>4
<1>3. CASE stage' = [stage EXCEPT ![s] = "refused"] /\ UNCHANGED lock
  <2>1. LockTypeOK' /\ ConnNotShared' /\ FreeIsUp' /\ ConnByStage'
    BY <1>1, <1>3 DEF ConnNotShared, FreeIsUp, ConnByStage, Stages
  <2>2. GivenIsHeld'
    BY <1>1, <1>3 DEF GivenIsHeld, Stages
  <2>3. HeldIsGiven'
    <3> SUFFICES ASSUME NEW u \in Users, lock[u] # NoConn
                 PROVE  \E t \in Syncs : /\ conn[t] = lock[u]
                                         /\ UserOf[t] = u
                                         /\ stage'[t] \in {"granted", "inside"}
      BY <1>1, <1>3 DEF HeldIsGiven
    <3>1. PICK t \in Syncs : /\ conn[t] = lock[u]
                             /\ UserOf[t] = u
                             /\ stage[t] \in {"granted", "inside"}
      BY DEF HeldIsGiven
    <3>2. t # s
      BY <1>1, <3>1
    <3> QED
      BY <1>3, <3>1, <3>2
  <2> QED
    BY <2>1, <2>2, <2>3
<1> QED
  BY <1>2, <1>3 DEF TryLock, Move

\* A refused attempt gives its connection back, and no lock with it.
LEMMA RefusedPreserves ==
    ASSUME LockInv, NEW s \in Syncs, LockRefused(s)
    PROVE  LockInv'
<1> USE DEF LockInv, LockTypeOK
<1>1. /\ stage[s] = "refused"
      /\ stage' = [stage EXCEPT ![s] = "waiting"]
      /\ conn' = [conn EXCEPT ![s] = NoConn]
      /\ UNCHANGED <<session, borrowed, lock, lost>>
      /\ conn[s] \in Conns
      /\ session[conn[s]] = "up"
  BY DEF LockRefused, Move, GiveBack, ConnByStage
<1>2. LockTypeOK' /\ ConnNotShared'
  BY <1>1 DEF ConnNotShared, Stages
<1>3. FreeIsUp'
  BY <1>1 DEF FreeIsUp
<1>4. ConnByStage'
  BY <1>1 DEF ConnByStage, Stages
<1>5. GivenIsHeld'
  BY <1>1 DEF GivenIsHeld, Stages
<1>6. HeldIsGiven'
  <2> SUFFICES ASSUME NEW u \in Users, lock[u] # NoConn
               PROVE  \E t \in Syncs : /\ conn'[t] = lock[u]
                                       /\ UserOf[t] = u
                                       /\ stage'[t] \in {"granted", "inside"}
    BY <1>1 DEF HeldIsGiven
  <2>1. PICK t \in Syncs : /\ conn[t] = lock[u]
                           /\ UserOf[t] = u
                           /\ stage[t] \in {"granted", "inside"}
    BY DEF HeldIsGiven
  <2>2. t # s
    BY <1>1, <2>1
  <2> QED
    BY <1>1, <2>1, <2>2
<1> QED
  BY <1>2, <1>3, <1>4, <1>5, <1>6


\* A closed connection leaves no lock and no dead session behind, whoever
\* closes it.
LEMMA ClosePreserves ==
    ASSUME LockInv, NEW s \in Syncs, conn[s] \in Conns, CloseAndGiveBack(s),
           NEW to \in {"done", "inside"},
           to = "inside" => s \in lost,
           stage' = [stage EXCEPT ![s] = to]
    PROVE  LockInv'
<1> USE DEF LockInv, LockTypeOK
<1>1. /\ lock' = [u \in Users |-> IF lock[u] = conn[s] THEN NoConn ELSE lock[u]]
      /\ session' = [session EXCEPT ![conn[s]] = "up"]
      /\ conn' = [conn EXCEPT ![s] = NoConn]
      /\ UNCHANGED <<borrowed, lost>>
  BY DEF CloseAndGiveBack, LocksWithout, GiveBack
<1>2. LockTypeOK' /\ ConnNotShared'
  BY <1>1 DEF ConnNotShared, Stages, Sessions
<1>3. FreeIsUp'
  BY <1>1 DEF FreeIsUp
<1>4. ConnByStage'
  BY <1>1, NoConnAssumption DEF ConnByStage, ConnNotShared, Stages
<1>5. GivenIsHeld'
  <2> SUFFICES ASSUME NEW t \in Syncs,
                      stage'[t] = "granted" \/ (stage'[t] = "inside" /\ t \notin lost)
               PROVE  lock'[UserOf[t]] = conn'[t]
    BY <1>1 DEF GivenIsHeld
  <2>1. t # s
    BY DEF Stages
  <2>2. lock[UserOf[t]] = conn[t] /\ conn[t] \in Conns
    BY <2>1 DEF GivenIsHeld, ConnByStage
  <2>3. conn[t] # conn[s]
    BY <2>1, <2>2, NoConnAssumption DEF ConnNotShared
  <2> QED
    BY <1>1, <2>1, <2>2, <2>3, UserOfAssumption
<1>6. HeldIsGiven'
  <2> SUFFICES ASSUME NEW u \in Users, lock'[u] # NoConn
               PROVE  \E t \in Syncs : /\ conn'[t] = lock'[u]
                                       /\ UserOf[t] = u
                                       /\ stage'[t] \in {"granted", "inside"}
    BY DEF HeldIsGiven
  <2>1. lock[u] # NoConn /\ lock[u] # conn[s] /\ lock'[u] = lock[u]
    BY <1>1
  <2>2. PICK t \in Syncs : /\ conn[t] = lock[u]
                           /\ UserOf[t] = u
                           /\ stage[t] \in {"granted", "inside"}
    BY <2>1 DEF HeldIsGiven
  <2>3. t # s
    BY <2>1, <2>2
  <2> QED
    BY <1>1, <2>1, <2>2, <2>3
<1> QED
  BY <1>2, <1>3, <1>4, <1>5, <1>6

\* A session that ends under its holder frees the lock.
LEMMA EndPreserves ==
    ASSUME LockInv, NEW s \in Syncs, OnLockConn(s),
           NEW how \in {"broken", "closed"},
           session' = [session EXCEPT ![conn[s]] = how],
           lock' = LocksWithout(conn[s]),
           lost' = lost \cup {s},
           borrowed' \in [Syncs -> Conns \cup {NoConn}],
           UNCHANGED <<stage, conn>>
    PROVE  LockInv'
<1> USE DEF LockInv, LockTypeOK
<1>1. /\ stage[s] = "inside"
      /\ conn[s] \in Conns
      /\ lock' = [u \in Users |-> IF lock[u] = conn[s] THEN NoConn ELSE lock[u]]
      /\ UNCHANGED <<stage, conn>>
  BY DEF OnLockConn, LocksWithout
<1>2. LockTypeOK' /\ ConnNotShared'
  BY <1>1 DEF ConnNotShared, Sessions
<1>3. FreeIsUp'
  BY <1>1 DEF FreeIsUp
<1>4. ConnByStage'
  BY <1>1, NoConnAssumption DEF ConnByStage, ConnNotShared, Stages
<1>5. GivenIsHeld'
  <2> SUFFICES ASSUME NEW t \in Syncs,
                      stage[t] = "granted" \/ (stage[t] = "inside" /\ t \notin lost')
               PROVE  lock'[UserOf[t]] = conn[t]
    BY <1>1 DEF GivenIsHeld
  <2>1. t # s /\ lock[UserOf[t]] = conn[t] /\ conn[t] \in Conns
    BY <1>1 DEF GivenIsHeld, ConnByStage
  <2>2. conn[t] # conn[s]
    BY <2>1, NoConnAssumption DEF ConnNotShared
  <2> QED
    BY <1>1, <2>1, <2>2, UserOfAssumption
<1>6. HeldIsGiven'
  <2> SUFFICES ASSUME NEW u \in Users, lock'[u] # NoConn
               PROVE  \E t \in Syncs : /\ conn[t] = lock'[u]
                                       /\ UserOf[t] = u
                                       /\ stage[t] \in {"granted", "inside"}
    BY <1>1 DEF HeldIsGiven
  <2>1. lock[u] # NoConn /\ lock'[u] = lock[u]
    BY <1>1
  <2> QED
    BY <2>1 DEF HeldIsGiven
<1> QED
  BY <1>2, <1>3, <1>4, <1>5, <1>6

\* A caller whose connection is gone has nothing to give back.
LEMMA ReleaseLostPreserves ==
    ASSUME LockInv, NEW s \in Syncs, conn[s] = NoConn, Release(s)
    PROVE  LockInv'
<1> USE DEF LockInv, LockTypeOK
<1>1. /\ stage[s] = "inside"
      /\ stage' = [stage EXCEPT ![s] = "done"]
      /\ UNCHANGED <<conn, session, borrowed, lock, lost>>
  BY DEF Release, Move
<1>2. LockTypeOK' /\ ConnNotShared' /\ FreeIsUp' /\ ConnByStage'
  BY <1>1 DEF ConnNotShared, FreeIsUp, ConnByStage, Stages
<1>3. GivenIsHeld'
  BY <1>1 DEF GivenIsHeld, Stages
<1>4. HeldIsGiven'
  <2> SUFFICES ASSUME NEW u \in Users, lock[u] # NoConn
               PROVE  \E t \in Syncs : /\ conn[t] = lock[u]
                                       /\ UserOf[t] = u
                                       /\ stage'[t] \in {"granted", "inside"}
    BY <1>1 DEF HeldIsGiven
  <2>1. PICK t \in Syncs : /\ conn[t] = lock[u]
                           /\ UserOf[t] = u
                           /\ stage[t] \in {"granted", "inside"}
    BY DEF HeldIsGiven
  <2> QED
    BY <1>1, <2>1
<1> QED
  BY <1>2, <1>3, <1>4

\* The connections of calls on the pool hold no lock.
LEMMA BorrowPreserves ==
    ASSUME LockInv, NEW s \in Syncs,
           borrowed' \in [Syncs -> Conns \cup {NoConn}],
           UNCHANGED <<stage, conn, session, lock, lost>>
    PROVE  LockInv'
BY DEF LockInv, LockTypeOK, ConnNotShared, FreeIsUp, ConnByStage, GivenIsHeld, HeldIsGiven

\* What a call does to the connections it borrows.
LEMMA BorrowType ==
    ASSUME LockTypeOK, NEW s \in Syncs,
           \/ CallBegins(s) \/ StatementRuns(s) \/ StatementRefused(s)
           \/ AnswerLost(s) \/ LoseSession(s)
    PROVE  borrowed' \in [Syncs -> Conns \cup {NoConn}]
BY DEF LockTypeOK, CallBegins, StatementRuns, StatementRefused, AnswerLost,
   LoseSession, CallEnds, Free

LEMMA InitHolds == LockInit => LockInv
BY NoConnAssumption DEF LockInit, LockInv, LockTypeOK, Stages, Sessions, ConnNotShared,
   FreeIsUp, ConnByStage, GivenIsHeld, HeldIsGiven

LEMMA StepPreserves == LockInv /\ [LockNext]_lockVars => LockInv'
<1> SUFFICES ASSUME LockInv, [LockNext]_lockVars
             PROVE  LockInv'
  OBVIOUS
<1>1. CASE UNCHANGED lockVars
  BY <1>1 DEF lockVars, LockInv, LockTypeOK, ConnNotShared, FreeIsUp, ConnByStage,
     GivenIsHeld, HeldIsGiven
<1>2. ASSUME NEW s \in Syncs,
             Enter(s) \/ LockGranted(s) \/ Poll(s) \/ GiveUp(s)
      PROVE  LockInv'
  BY <1>2, MovePreserves
<1>3. ASSUME NEW s \in Syncs, AcquireConn(s) PROVE LockInv'
  BY <1>3, AcquirePreserves
<1>4. ASSUME NEW s \in Syncs, TryLock(s) PROVE LockInv'
  BY <1>4, TryPreserves
<1>5. ASSUME NEW s \in Syncs, LockRefused(s) PROVE LockInv'
  BY <1>5, RefusedPreserves
<1>6. ASSUME NEW s \in Syncs, AttemptFails(s) PROVE LockInv'
  <2>1. conn[s] \in Conns /\ CloseAndGiveBack(s) /\ stage' = [stage EXCEPT ![s] = "done"]
    BY <1>6 DEF AttemptFails, Move, LockInv, ConnByStage
  <2> QED
    BY <2>1, ClosePreserves
<1>7. ASSUME NEW s \in Syncs, ReturnClosed(s) PROVE LockInv'
  <2>1. conn[s] \in Conns /\ CloseAndGiveBack(s) /\ stage' = [stage EXCEPT ![s] = "inside"]
    BY <1>7 DEF ReturnClosed, LockInv, LockTypeOK
  <2>2. s \in lost
    BY <1>7 DEF ReturnClosed, LockInv, ConnByStage
  <2> QED
    BY <2>1, <2>2, ClosePreserves
<1>8. ASSUME NEW s \in Syncs, Release(s) PROVE LockInv'
  <2>1. CASE conn[s] # NoConn
    <3>1. conn[s] \in Conns /\ CloseAndGiveBack(s) /\ stage' = [stage EXCEPT ![s] = "done"]
      BY <1>8, <2>1 DEF Release, Move, LockInv, LockTypeOK
    <3> QED
      BY <3>1, ClosePreserves
  <2>2. CASE conn[s] = NoConn
    BY <1>8, <2>2, ReleaseLostPreserves
  <2> QED
    BY <2>1, <2>2
<1>9. ASSUME NEW s \in Syncs, AnswerLost(s) PROVE LockInv'
  <2>1. borrowed' \in [Syncs -> Conns \cup {NoConn}]
    BY <1>9, BorrowType DEF LockInv
  <2>2. CASE UNCHANGED <<session, lock, lost>>
    BY <1>9, <2>1, <2>2, BorrowPreserves DEF AnswerLost
  <2>3. CASE ~UNCHANGED <<session, lock, lost>>
    BY <1>9, <2>1, <2>3, EndPreserves DEF AnswerLost
  <2> QED
    BY <2>2, <2>3
<1>10. ASSUME NEW s \in Syncs, LoseSession(s) PROVE LockInv'
  BY <1>10, BorrowType, EndPreserves DEF LoseSession, LockInv
<1>11. ASSUME NEW s \in Syncs,
              CallBegins(s) \/ StatementRuns(s) \/ StatementRefused(s)
       PROVE  LockInv'
  <2>1. borrowed' \in [Syncs -> Conns \cup {NoConn}]
    BY <1>11, BorrowType DEF LockInv
  <2> QED
    BY <1>11, <2>1, BorrowPreserves DEF CallBegins, StatementRuns, StatementRefused
<1> QED
  BY <1>1, <1>2, <1>3, <1>4, <1>5, <1>6, <1>7, <1>8, <1>9, <1>10, <1>11 DEF LockNext

LEMMA SafetyFollows == LockInv => OneHolder /\ IdleHoldsNoLock
<1> SUFFICES ASSUME LockInv PROVE OneHolder /\ IdleHoldsNoLock
  OBVIOUS
<1>1. OneHolder
  BY NoConnAssumption DEF LockInv, ConnByStage, GivenIsHeld, ConnNotShared, OneHolder
<1>2. IdleHoldsNoLock
  BY DEF LockInv, HeldIsGiven, IdleHoldsNoLock
<1> QED
  BY <1>1, <1>2


\* SyncLock's mutual exclusion and its clean pool, for any code run under the
\* lock (games.go:220-316).
THEOREM LockSafety == LockSpec => []OneHolder /\ []IdleHoldsNoLock
<1>1. LockSpec => []LockInv
  BY InitHolds, StepPreserves, PTL DEF LockSpec
<1> QED
  BY <1>1, SafetyFollows, PTL

\* The lock as its callers know it: every step of SyncLock enters, lapses or
\* leaves UserLock, or is hidden from it.
LEMMA StepImplements ==
    LockInv /\ [LockNext]_lockVars => [Exclusive!Next]_(Exclusive!lockState)
<1> SUFFICES ASSUME LockInv, [LockNext]_lockVars
             PROVE  Exclusive!Next \/ UNCHANGED <<Inside, lost>>
  BY DEF Exclusive!lockState
<1> USE DEF LockInv, LockTypeOK, Inside
<1>1. CASE UNCHANGED lockVars
  BY <1>1 DEF lockVars
<1>2. ASSUME NEW s \in Syncs,
             \/ Enter(s) \/ AcquireConn(s) \/ TryLock(s) \/ LockRefused(s) \/ Poll(s)
             \/ AttemptFails(s) \/ GiveUp(s)
      PROVE  UNCHANGED <<Inside, lost>>
  <2>1. lost' = lost
    BY <1>2 DEF Enter, AcquireConn, TryLock, LockRefused, Poll, AttemptFails, GiveUp,
       CloseAndGiveBack
  <2>2. \E to \in Stages \ {"inside"} :
            stage[s] # "inside" /\ stage' = [stage EXCEPT ![s] = to]
    BY <1>2 DEF Enter, AcquireConn, TryLock, LockRefused, Poll, AttemptFails, GiveUp,
       Move, Stages
  <2>3. Inside' = Inside
    BY <2>2
  <2> QED
    BY <2>1, <2>3
<1>3. ASSUME NEW s \in Syncs, LockGranted(s) PROVE Exclusive!Enter(s)
  <2>1. /\ stage[s] = "granted"
        /\ stage' = [stage EXCEPT ![s] = "inside"]
        /\ lost' = lost
    BY <1>3 DEF LockGranted, Move
  <2>2. ASSUME NEW t \in Inside, UserOf[t] = UserOf[s], t \notin lost PROVE FALSE
    <3>1. lock[UserOf[s]] = conn[s] /\ lock[UserOf[s]] = conn[t]
      BY <2>1, <2>2 DEF GivenIsHeld
    <3>2. conn[s] # NoConn /\ s # t
      BY <2>1, <2>2, NoConnAssumption DEF ConnByStage
    <3> QED
      BY <3>1, <3>2, <2>2 DEF ConnNotShared
  <2>3. Inside' = Inside \cup {s} /\ s \notin Inside
    BY <2>1
  <2> QED
    BY <2>1, <2>2, <2>3 DEF Exclusive!Enter
<1>4. ASSUME NEW s \in Syncs, Release(s) PROVE Exclusive!Leave(s)
  <2>1. /\ stage[s] = "inside"
        /\ stage' = [stage EXCEPT ![s] = "done"]
        /\ lost' = lost
    BY <1>4 DEF Release, Move, CloseAndGiveBack
  <2>2. Inside' = Inside \ {s} /\ s \in Inside
    BY <2>1
  <2> QED
    BY <2>1, <2>2 DEF Exclusive!Leave
<1>5. ASSUME NEW s \in Syncs, AnswerLost(s) \/ LoseSession(s)
      PROVE  Exclusive!Lapse(s) \/ UNCHANGED <<Inside, lost>>
  <2>1. s \in Inside /\ stage' = stage /\ (lost' = lost \cup {s} \/ lost' = lost)
    BY <1>5 DEF AnswerLost, LoseSession, OnLockConn, OnPool
  <2> QED
    BY <2>1 DEF Exclusive!Lapse
<1>6. ASSUME NEW s \in Syncs,
             ReturnClosed(s) \/ CallBegins(s) \/ StatementRuns(s) \/ StatementRefused(s)
      PROVE  UNCHANGED <<Inside, lost>>
  BY <1>6 DEF ReturnClosed, CallBegins, StatementRuns, StatementRefused, CloseAndGiveBack
<1>7. CASE LockNext
  BY <1>7, <1>2, <1>3, <1>4, <1>5, <1>6 DEF LockNext, Exclusive!Next
<1> QED
  BY <1>1, <1>7

\* For any callers, users and pool, SyncLock implements UserLock (games.go:216-316).
THEOREM LockImplements == LockSpec => ImplementsUserLock
<1>1. LockInit => Exclusive!Init
  BY DEF LockInit, Exclusive!Init, Inside
<1>2. LockSpec => []LockInv
  BY InitHolds, StepPreserves, PTL DEF LockSpec
<1> QED
  BY <1>1, <1>2, StepImplements, PTL DEF LockSpec, ImplementsUserLock, Exclusive!Spec

-----------------------------------------------------------------------------
(* LibrarySync.  The invariant ties each step of a sync to its stage in    *)
(* SyncLock, and says what a sync on its way may still rely on: that its    *)
(* user is due, that a library stands behind a success, that no games stand *)
(* behind a user about to be marked private.                               *)

\* From the re-check to the record of the outcome.
Work ==
    {"friends", "steam", "insert", "commit", "empty", "keepSynced",
     "markPrivate", "details", "success", "failure"}

\* The calls of more than one step: StoreUserLibrary and RecordEmptyLibrary.
MidCall == {"commit", "keepSynced", "markPrivate"}

AtMatchesStage(s) ==
    /\ at[s] \in {"slot", "due"} => stage[s] = "out"
    /\ at[s] = "lock" =>
           stage[s] \in {"out", "acquire", "asked", "granted", "refused", "waiting"}
    /\ at[s] \in UnderLock <=> stage[s] = "inside"
    /\ at[s] = "end" => stage[s] \in {"out", "done"}
    /\ borrowed[s] # NoConn => at[s] \in MidCall

AtByStage == \A s \in Syncs : AtMatchesStage(s)

WorkIsDue ==
    \A s \in Syncs : at[s] \in Work /\ fresh[UserOf[s]] => LostBy(UserOf[s])

SuccessHasLibrary ==
    \A s \in Syncs : at[s] \in {"details", "success"} => state[UserOf[s]] # "never_synced"

PrivateHasNoGames ==
    \A s \in Syncs : at[s] = "markPrivate" => ~stored[UserOf[s]] \/ LostBy(UserOf[s])

SyncInv ==
    /\ LockInv
    /\ TypeOK
    /\ AtByStage
    /\ WorkIsDue
    /\ SuccessHasLibrary
    /\ PrivateHasNoGames
    /\ FreshHasLibrary
    /\ StoredIsSynced


\* A statement under the lock, and the loss of the connection, are steps of
\* SyncLock that move no caller and forget no loss.
LEMMA CallIsLockStep ==
    ASSUME NEW s \in Syncs, LockTypeOK,
           \/ CallBegins(s) \/ StatementRuns(s) \/ StatementRefused(s)
           \/ AnswerLost(s) \/ ReturnClosed(s) \/ LoseSession(s)
    PROVE  /\ LockNext
           /\ stage' = stage
           /\ lost \subseteq lost'
           /\ \A t \in Syncs : t # s => borrowed'[t] = borrowed[t]
<1>1. LockNext
  BY DEF LockNext
<1>2. stage' = stage /\ lost \subseteq lost'
  BY DEF CallBegins, StatementRuns, StatementRefused, AnswerLost, ReturnClosed,
     LoseSession, CloseAndGiveBack
<1>3. \A t \in Syncs : t # s => borrowed'[t] = borrowed[t]
  BY DEF CallBegins, StatementRuns, StatementRefused, AnswerLost, ReturnClosed,
     LoseSession, CloseAndGiveBack, CallEnds, LockTypeOK
<1> QED
  BY <1>1, <1>2, <1>3

\* A statement is the end of its call.
LEMMA StatementEndsCall ==
    ASSUME NEW s \in Syncs, LockTypeOK,
           StatementRuns(s) \/ StatementRefused(s) \/ AnswerLost(s)
    PROVE  borrowed'[s] = NoConn
BY DEF StatementRuns, StatementRefused, AnswerLost, CallEnds, LockTypeOK

\* So is every step of a sync on its way through WithUserSyncLock.
LEMMA AttemptIsLockStep ==
    ASSUME NEW s \in Syncs, LockTypeOK,
           \/ Enter(s) \/ AcquireConn(s) \/ TryLock(s) \/ LockRefused(s) \/ Poll(s)
           \/ LockGranted(s) \/ AttemptFails(s) \/ GiveUp(s) \/ Release(s)
    PROVE  /\ LockNext
           /\ lost \subseteq lost'
           /\ borrowed' = borrowed
           /\ \A t \in Syncs : t # s => stage'[t] = stage[t]
<1>1. LockNext
  BY DEF LockNext
<1>2. lost' = lost /\ borrowed' = borrowed
  BY DEF Enter, AcquireConn, TryLock, LockRefused, Poll, LockGranted, AttemptFails,
     GiveUp, Release, CloseAndGiveBack
<1>3. \A t \in Syncs : t # s => stage'[t] = stage[t]
  BY DEF Enter, AcquireConn, TryLock, LockRefused, Poll, LockGranted, AttemptFails,
     GiveUp, Release, Move, LockTypeOK
<1> QED
  BY <1>1, <1>2, <1>3

\* A step that leaves the users' data alone keeps the invariant if what it moves
\* s to is what s may rely on there.
LEMMA QuietStep ==
    ASSUME SyncInv, LockInv', lost \subseteq lost', UNCHANGED data,
           NEW s \in Syncs,
           NEW to \in {"slot", "due", "lock", "end"} \cup UnderLock,
           at' = [at EXCEPT ![s] = to],
           \A t \in Syncs : t # s => stage'[t] = stage[t] /\ borrowed'[t] = borrowed[t],
           AtMatchesStage(s)',
           to \in Work => at[s] \in Work \/ ~fresh[UserOf[s]],
           to \in {"details", "success"} =>
               at[s] \in {"details", "success"} \/ state[UserOf[s]] # "never_synced",
           to = "markPrivate" => at[s] = "markPrivate" \/ ~stored[UserOf[s]]
    PROVE  SyncInv'
<1> USE DEF SyncInv
<1>1. /\ \A t \in Syncs : t # s => at'[t] = at[t]
      /\ at'[s] = to
      /\ \A u \in Users : LostBy(u) => LostBy(u)'
  BY DEF TypeOK, LostBy
<1>2. UNCHANGED <<fresh, error, state, stored>>
  BY DEF data
<1>3. AtByStage'
  BY <1>1 DEF AtByStage, AtMatchesStage
<1>4. TypeOK'
  BY <1>2, <1>3 DEF TypeOK, LockInv, AtByStage, AtMatchesStage
<1>5. WorkIsDue'
  BY <1>1, <1>2, UserOfAssumption DEF WorkIsDue
<1>6. SuccessHasLibrary'
  BY <1>1, <1>2 DEF SuccessHasLibrary
<1>7. PrivateHasNoGames'
  BY <1>1, <1>2, UserOfAssumption DEF PrivateHasNoGames
<1>8. FreshHasLibrary' /\ StoredIsSynced'
  BY <1>1, <1>2 DEF FreshHasLibrary, StoredIsSynced
<1> QED
  BY <1>3, <1>4, <1>5, <1>6, <1>7, <1>8

\* Two syncs at work on one user: one of them has lost its connection.
LEMMA WorkIsExclusive ==
    ASSUME SyncInv, NEW s \in Syncs, NEW t \in Syncs, s # t,
           UserOf[s] = UserOf[t], at[s] \in Work, at[t] \in Work
    PROVE  LostBy(UserOf[s])
<1>1. stage[s] = "inside" /\ stage[t] = "inside"
  BY DEF SyncInv, AtByStage, AtMatchesStage, Work, UnderLock
<1> QED
  BY <1>1, SafetyFollows DEF SyncInv, OneHolder, LostBy

-----------------------------------------------------------------------------
\* The steps before the lock.
LEMMA BeforeLock ==
    ASSUME SyncInv, NEW s \in Syncs,
           TakeSlot(s) \/ NoSlot(s) \/ CheckDue(s) \/ CheckDueFails(s)
    PROVE  SyncInv'
<1>1. /\ UNCHANGED lockVars /\ UNCHANGED data
      /\ \/ at[s] = "slot" /\ at' = [at EXCEPT ![s] = "due"]
         \/ at[s] = "slot" /\ at' = [at EXCEPT ![s] = "end"]
         \/ at[s] = "due" /\ at' = [at EXCEPT ![s] = "end"]
         \/ at[s] = "due" /\ at' = [at EXCEPT ![s] = "lock"]
  BY DEF TakeSlot, NoSlot, CheckDue, CheckDueFails, To
<1>2. LockInv' /\ UNCHANGED <<lost, stage, borrowed>>
  BY <1>1, StepPreserves DEF SyncInv, lockVars
<1>3. PICK to \in {"due", "end", "lock"} : at' = [at EXCEPT ![s] = to]
  BY <1>1
<1>4. stage[s] = "out" /\ borrowed[s] = NoConn
  BY <1>1 DEF SyncInv, AtByStage, AtMatchesStage, MidCall
<1>5. AtMatchesStage(s)'
  BY <1>2, <1>3, <1>4 DEF AtMatchesStage, SyncInv, TypeOK, UnderLock
<1> QED
  BY <1>1, <1>2, <1>3, <1>5, QuietStep DEF Work

\* The steps through WithUserSyncLock.
LEMMA TakingLock ==
    ASSUME SyncInv, NEW s \in Syncs,
           AskLock(s) \/ GetLock(s) \/ NoLock(s) \/ Leave(s)
    PROVE  SyncInv'
<1>1. UNCHANGED data
  BY DEF AskLock, GetLock, NoLock, Leave
<1>2. PICK to \in {"lock", "recheck", "end"} :
          /\ at' = [at EXCEPT ![s] = to]
          /\ to = "lock" => /\ at[s] = "lock"
                            /\ Enter(s) \/ AcquireConn(s) \/ TryLock(s) \/ LockRefused(s) \/ Poll(s)
          /\ to = "recheck" => LockGranted(s)
          /\ to = "end" => AttemptFails(s) \/ GiveUp(s) \/ Release(s)
  BY DEF AskLock, GetLock, NoLock, Leave, To, SyncInv, TypeOK
<1>3. /\ LockNext
      /\ lost \subseteq lost'
      /\ borrowed' = borrowed
      /\ \A t \in Syncs : t # s => stage'[t] = stage[t]
  BY <1>2, AttemptIsLockStep DEF SyncInv, TypeOK
<1>4. LockInv'
  BY <1>3, StepPreserves DEF SyncInv
<1>5. AtMatchesStage(s)'
  <2>1. stage'[s] \in CASE to = "lock" -> {"acquire", "asked", "granted", "refused", "waiting"}
                        [] to = "recheck" -> {"inside"}
                        [] to = "end" -> {"done"}
    BY <1>2 DEF Enter, AcquireConn, TryLock, LockRefused, Poll, LockGranted,
       AttemptFails, GiveUp, Release, Move, SyncInv, TypeOK, LockTypeOK
  <2>2. at'[s] = to
    BY <1>2 DEF SyncInv, TypeOK
  <2>3. at[s] \in {"lock", "leave"} /\ borrowed'[s] = NoConn
    BY <1>3 DEF AskLock, GetLock, NoLock, Leave, To, SyncInv, AtByStage, AtMatchesStage, MidCall
  <2> QED
    BY <2>1, <2>2, <2>3 DEF AtMatchesStage, UnderLock
<1> QED
  BY <1>1, <1>2, <1>3, <1>4, <1>5, QuietStep DEF Work, UnderLock


\* What a call under the lock does to SyncLock, whichever way it ends.
LEMMA UnderLockFrame ==
    ASSUME SyncInv, NEW s \in Syncs,
           \/ UNCHANGED lockVars
           \/ CallBegins(s) \/ StatementRuns(s) \/ StatementRefused(s)
           \/ AnswerLost(s) \/ ReturnClosed(s) \/ LoseSession(s)
    PROVE  /\ LockInv'
           /\ stage' = stage
           /\ lost \subseteq lost'
           /\ \A t \in Syncs : t # s => borrowed'[t] = borrowed[t]
<1>1. CASE UNCHANGED lockVars
  BY <1>1, StepPreserves DEF SyncInv, lockVars
<1>2. CASE ~UNCHANGED lockVars
  BY <1>2, CallIsLockStep, StepPreserves DEF SyncInv, LockInv
<1> QED
  BY <1>1, <1>2

\* A step of a sync at work, or reading, that leaves the users' data alone.
LEMMA QuietUnderLock ==
    ASSUME SyncInv, NEW s \in Syncs, NEW to \in UnderLock,
           \/ UNCHANGED lockVars
           \/ CallBegins(s) \/ StatementRuns(s) \/ StatementRefused(s)
           \/ AnswerLost(s) \/ ReturnClosed(s) \/ LoseSession(s),
           at[s] \in UnderLock, at' = [at EXCEPT ![s] = to], UNCHANGED data,
           borrowed'[s] # NoConn => to \in MidCall,
           to \in Work => at[s] \in Work \/ ~fresh[UserOf[s]],
           to \in {"details", "success"} =>
               at[s] \in {"details", "success"} \/ state[UserOf[s]] # "never_synced",
           to = "markPrivate" => at[s] = "markPrivate" \/ ~stored[UserOf[s]]
    PROVE  SyncInv'
<1>1. /\ LockInv' /\ stage' = stage /\ lost \subseteq lost'
      /\ \A t \in Syncs : t # s => borrowed'[t] = borrowed[t]
  BY UnderLockFrame
<1>2. AtMatchesStage(s)'
  BY <1>1 DEF SyncInv, TypeOK, AtByStage, AtMatchesStage, UnderLock
<1> QED
  BY <1>1, <1>2, QuietStep

\* The checks that come first under the lock.
LEMMA Reading ==
    ASSUME SyncInv, NEW s \in Syncs, Recheck(s) \/ ReadOutcome(s) \/ ReadFails(s)
    PROVE  SyncInv'
<1>1. CASE Recheck(s)
  <2>1. PICK to \in {"outcome", "friends", "leave", "steam"} :
            /\ at[s] = "recheck" /\ at' = [at EXCEPT ![s] = to]
            /\ to \in {"friends", "steam"} => ~fresh[UserOf[s]]
    BY <1>1 DEF Recheck, Runs, To
  <2>2. StatementRuns(s) /\ UNCHANGED data
    BY <1>1 DEF Recheck, Runs
  <2>3. borrowed'[s] = NoConn
    BY <2>2, StatementEndsCall DEF SyncInv, LockInv
  <2> QED
    BY <2>1, <2>2, <2>3, QuietUnderLock DEF UnderLock, Work
<1>2. CASE ReadOutcome(s) \/ ReadFails(s)
  <2>1. /\ at[s] \in {"recheck", "outcome"} /\ at' = [at EXCEPT ![s] = "leave"]
        /\ StatementRuns(s) \/ StatementRefused(s) \/ AnswerLost(s)
        /\ UNCHANGED data
    BY <1>2 DEF ReadOutcome, ReadFails, Runs, Fails, To
  <2>2. borrowed'[s] = NoConn
    BY <2>1, StatementEndsCall DEF SyncInv, LockInv
  <2> QED
    BY <2>1, <2>2, QuietUnderLock DEF UnderLock, Work
<1> QED
  BY <1>1, <1>2

\* The calls to Steam, and the store calls around them that no step depends on.
LEMMA Fetching ==
    ASSUME SyncInv, NEW s \in Syncs,
           BestEffort(s) \/ BestEffortGivenUp(s) \/ FetchGames(s) \/ Panics(s)
    PROVE  SyncInv'
<1>1. CASE BestEffort(s)
  <2>1. PICK here \in {"friends", "details"} :
            at[s] = here /\ at' = [at EXCEPT ![s] = here] /\ (StatementRefused(s) \/ AnswerLost(s))
    BY <1>1 DEF BestEffort, Fails, To
  <2>2. UNCHANGED data
    BY <1>1 DEF BestEffort
  <2>3. borrowed'[s] = NoConn
    BY <2>1, StatementEndsCall DEF SyncInv, LockInv
  <2> QED
    BY <2>1, <2>2, <2>3, QuietUnderLock DEF UnderLock, Work
<1>2. CASE BestEffortGivenUp(s)
  <2>1. /\ \/ at[s] = "friends" /\ at' = [at EXCEPT ![s] = "steam"]
           \/ at[s] = "details" /\ at' = [at EXCEPT ![s] = "success"]
        /\ UNCHANGED lockVars /\ UNCHANGED data
    BY <1>2 DEF BestEffortGivenUp, To
  <2>2. borrowed'[s] = NoConn
    BY <2>1 DEF SyncInv, AtByStage, AtMatchesStage, MidCall, lockVars
  <2> QED
    BY <2>1, <2>2, QuietUnderLock DEF UnderLock, Work
<1>3. CASE FetchGames(s) \/ Panics(s)
  <2>1. PICK to \in {"insert", "empty", "failure", "leave"} :
            at[s] = "steam" /\ at' = [at EXCEPT ![s] = to]
    BY <1>3 DEF FetchGames, Panics, To
  <2>2. UNCHANGED lockVars /\ UNCHANGED data
    BY <1>3 DEF FetchGames, Panics
  <2>3. borrowed'[s] = NoConn
    BY <2>1, <2>2 DEF SyncInv, AtByStage, AtMatchesStage, MidCall, lockVars
  <2> QED
    BY <2>1, <2>2, <2>3, QuietUnderLock DEF UnderLock, Work
<1> QED
  BY <1>1, <1>2, <1>3

\* Statements of the two ways to store a library that change nothing yet, and
\* every failure.
LEMMA Storing ==
    ASSUME SyncInv, NEW s \in Syncs,
           \/ InsertGames(s) \/ StoreFails(s) \/ LookForGames(s)
           \/ EmptyFails(s) \/ RecordFails(s)
    PROVE  SyncInv'
<1>1. UNCHANGED data
  BY DEF InsertGames, StoreFails, LookForGames, EmptyFails, RecordFails
<1>2. CASE LookForGames(s)
  <2>1. PICK to \in {"keepSynced", "markPrivate"} :
            /\ at[s] = "empty" /\ at' = [at EXCEPT ![s] = to]
            /\ to = "markPrivate" => ~stored[UserOf[s]]
    BY <1>2 DEF LookForGames, Begins, To
  <2>2. CallBegins(s)
    BY <1>2 DEF LookForGames, Begins
  <2> QED
    BY <1>1, <2>1, <2>2, QuietUnderLock DEF UnderLock, Work, MidCall
<1>3. CASE InsertGames(s)
  <2>1. /\ at[s] = "insert" /\ at' = [at EXCEPT ![s] = "commit"]
        /\ CallBegins(s)
    BY <1>3 DEF InsertGames, Begins, To
  <2> QED
    BY <1>1, <2>1, QuietUnderLock DEF UnderLock, Work, MidCall
<1>4. CASE StoreFails(s) \/ EmptyFails(s) \/ RecordFails(s)
  <2>1. PICK to \in {"failure", "leave"} : at[s] \in Work /\ at' = [at EXCEPT ![s] = to]
    BY <1>4 DEF StoreFails, EmptyFails, RecordFails, Fails, To, Work
  <2>2. StatementRefused(s) \/ AnswerLost(s)
    BY <1>4 DEF StoreFails, EmptyFails, RecordFails, Fails
  <2>3. borrowed'[s] = NoConn
    BY <2>2, StatementEndsCall DEF SyncInv, LockInv
  <2> QED
    BY <1>1, <2>1, <2>2, <2>3, QuietUnderLock DEF UnderLock, Work
<1> QED
  BY <1>2, <1>3, <1>4

LEMMA Reconnecting ==
    ASSUME SyncInv, NEW s \in Syncs, Connection(s)
    PROVE  SyncInv'
<1>1. at' = at /\ UNCHANGED data /\ (ReturnClosed(s) \/ LoseSession(s))
  BY DEF Connection
<1>2. at[s] \in UnderLock
  BY <1>1 DEF ReturnClosed, LoseSession, OnLockConn, SyncInv, AtByStage, AtMatchesStage
<1>3. at' = [at EXCEPT ![s] = at[s]]
  BY <1>1 DEF SyncInv, TypeOK
<1>4. borrowed'[s] # NoConn => at[s] \in MidCall
  BY <1>1 DEF ReturnClosed, LoseSession, CloseAndGiveBack, SyncInv, AtByStage, AtMatchesStage
<1> QED
  BY <1>1, <1>2, <1>3, <1>4, QuietUnderLock


-----------------------------------------------------------------------------
\* What every write under the lock leaves as it was.
LEMMA WriteFrame ==
    ASSUME SyncInv, NEW s \in Syncs, NEW to \in UnderLock, at[s] \in UnderLock,
           at' = [at EXCEPT ![s] = to],
           StatementRuns(s) \/ AnswerLost(s)
    PROVE  /\ LockInv' /\ AtByStage'
           /\ at' \in [Syncs -> {"slot", "due", "lock", "end"} \cup UnderLock]
           /\ at'[s] = to
           /\ \A t \in Syncs : t # s => at'[t] = at[t]
           /\ \A u \in Users : LostBy(u) => LostBy(u)'
<1>1. /\ LockInv' /\ stage' = stage /\ lost \subseteq lost'
      /\ \A t \in Syncs : t # s => borrowed'[t] = borrowed[t]
      /\ borrowed'[s] = NoConn
  BY UnderLockFrame, StatementEndsCall DEF SyncInv, LockInv
<1>2. /\ at' \in [Syncs -> {"slot", "due", "lock", "end"} \cup UnderLock]
      /\ at'[s] = to
      /\ \A t \in Syncs : t # s => at'[t] = at[t]
  BY DEF SyncInv, TypeOK
<1>3. AtByStage'
  BY <1>1, <1>2 DEF SyncInv, AtByStage, AtMatchesStage, UnderLock
<1>4. \A u \in Users : LostBy(u) => LostBy(u)'
  BY <1>1 DEF LostBy
<1> QED
  BY <1>1, <1>2, <1>3, <1>4

\* A library is stored.  Another sync about to mark the user private runs only
\* because one of the two has lost its lock.
LEMMA Committing ==
    ASSUME SyncInv, NEW s \in Syncs, CommitGames(s)
    PROVE  SyncInv'
<1> DEFINE u == UserOf[s]
<1> USE DEF SyncInv
<1>1. PICK to \in {"details", "failure"} : at[s] = "commit" /\ at' = [at EXCEPT ![s] = to]
  BY DEF CommitGames, Runs, RunsUnheard, To
<1>2. StatementRuns(s) \/ AnswerLost(s)
  BY DEF CommitGames, Runs, RunsUnheard
<1>3. /\ stored' = [stored EXCEPT ![u] = TRUE]
      /\ state' = [state EXCEPT ![u] = "synced"]
      /\ UNCHANGED <<fresh, error>>
  BY DEF CommitGames, LibraryStored
<1>4. /\ LockInv' /\ AtByStage'
      /\ at' \in [Syncs -> {"slot", "due", "lock", "end"} \cup UnderLock]
      /\ at'[s] = to
      /\ \A t \in Syncs : t # s => at'[t] = at[t]
      /\ \A v \in Users : LostBy(v) => LostBy(v)'
  BY <1>1, <1>2, WriteFrame DEF UnderLock
<1>5. u \in Users
  BY UserOfAssumption
<1>6. TypeOK'
  BY <1>3, <1>4, <1>5 DEF TypeOK, LockInv, AtByStage, AtMatchesStage, SyncStates
<1>7. WorkIsDue'
  BY <1>1, <1>3, <1>4, UserOfAssumption DEF WorkIsDue, Work
<1>8. SuccessHasLibrary'
  BY <1>1, <1>3, <1>4, <1>5, UserOfAssumption DEF SuccessHasLibrary, TypeOK
<1>9. PrivateHasNoGames'
  <2> SUFFICES ASSUME NEW t \in Syncs, at'[t] = "markPrivate"
               PROVE  ~stored'[UserOf[t]] \/ LostBy(UserOf[t])'
    BY DEF PrivateHasNoGames
  <2>1. t # s /\ at[t] = "markPrivate" /\ UserOf[t] \in Users
    BY <1>4, UserOfAssumption
  <2>2. CASE UserOf[t] = u
    BY <1>1, <1>4, <2>1, <2>2, WorkIsExclusive DEF Work
  <2>3. CASE UserOf[t] # u
    BY <1>3, <1>4, <2>1, <2>3 DEF PrivateHasNoGames, TypeOK
  <2> QED
    BY <2>2, <2>3
<1>10. FreshHasLibrary' /\ StoredIsSynced'
  BY <1>3, <1>4, <1>5 DEF FreshHasLibrary, StoredIsSynced, TypeOK
<1> QED
  BY <1>4, <1>6, <1>7, <1>8, <1>9, <1>10

\* An empty list is recorded.
LEMMA MarkingEmpty ==
    ASSUME SyncInv, NEW s \in Syncs, RecordEmpty(s)
    PROVE  SyncInv'
<1> DEFINE u == UserOf[s]
<1> USE DEF SyncInv
<1>1. PICK to \in {"success", "failure"} :
          at[s] \in {"keepSynced", "markPrivate"} /\ at' = [at EXCEPT ![s] = to]
  BY DEF RecordEmpty, Runs, RunsUnheard, To
<1>2. StatementRuns(s) \/ AnswerLost(s)
  BY DEF RecordEmpty, Runs, RunsUnheard
<1>3. PICK mark \in {"synced", "private_or_no_games"} :
          /\ state' = [state EXCEPT ![u] = mark]
          /\ mark = "synced" \/ at[s] = "markPrivate"
          /\ UNCHANGED <<fresh, error, stored>>
  BY <1>1 DEF RecordEmpty, EmptyStored
<1>4. /\ LockInv' /\ AtByStage'
      /\ at' \in [Syncs -> {"slot", "due", "lock", "end"} \cup UnderLock]
      /\ at'[s] = to
      /\ \A t \in Syncs : t # s => at'[t] = at[t]
      /\ \A v \in Users : LostBy(v) => LostBy(v)'
  BY <1>1, <1>2, WriteFrame DEF UnderLock
<1>5. u \in Users
  BY UserOfAssumption
<1>6. TypeOK'
  BY <1>3, <1>4, <1>5 DEF TypeOK, LockInv, AtByStage, AtMatchesStage, SyncStates
<1>7. WorkIsDue'
  BY <1>1, <1>3, <1>4, UserOfAssumption DEF WorkIsDue, Work
<1>8. SuccessHasLibrary'
  BY <1>1, <1>3, <1>4, <1>5, UserOfAssumption DEF SuccessHasLibrary, TypeOK
<1>9. PrivateHasNoGames'
  BY <1>1, <1>3, <1>4, UserOfAssumption DEF PrivateHasNoGames
<1>10. FreshHasLibrary'
  BY <1>3, <1>5 DEF FreshHasLibrary, TypeOK
<1>11. StoredIsSynced'
  BY <1>1, <1>3, <1>4, <1>5 DEF StoredIsSynced, PrivateHasNoGames, TypeOK
<1> QED
  BY <1>4, <1>6, <1>7, <1>8, <1>9, <1>10, <1>11

\* A success is recorded: another sync still at work on the user runs only
\* because one of the two has lost its lock.
LEMMA RecordingSuccess ==
    ASSUME SyncInv, NEW s \in Syncs, RecordSyncSuccess(s)
    PROVE  SyncInv'
<1> DEFINE u == UserOf[s]
<1> USE DEF SyncInv
<1>1. at[s] = "success" /\ at' = [at EXCEPT ![s] = "leave"]
  BY DEF RecordSyncSuccess, Runs, RunsUnheard, To
<1>2. StatementRuns(s) \/ AnswerLost(s)
  BY DEF RecordSyncSuccess, Runs, RunsUnheard
<1>3. /\ fresh' = [fresh EXCEPT ![u] = TRUE]
      /\ error' = [error EXCEPT ![u] = FALSE]
      /\ UNCHANGED <<state, stored>>
  BY DEF RecordSyncSuccess
<1>4. /\ LockInv' /\ AtByStage'
      /\ at' \in [Syncs -> {"slot", "due", "lock", "end"} \cup UnderLock]
      /\ at'[s] = "leave"
      /\ \A t \in Syncs : t # s => at'[t] = at[t]
      /\ \A v \in Users : LostBy(v) => LostBy(v)'
  BY <1>1, <1>2, WriteFrame DEF UnderLock
<1>5. u \in Users
  BY UserOfAssumption
<1>6. TypeOK'
  BY <1>3, <1>4, <1>5 DEF TypeOK, LockInv, AtByStage, AtMatchesStage
<1>7. WorkIsDue'
  <2> SUFFICES ASSUME NEW t \in Syncs, at'[t] \in Work, fresh'[UserOf[t]]
               PROVE  LostBy(UserOf[t])'
    BY DEF WorkIsDue
  <2>1. t # s /\ at[t] \in Work /\ UserOf[t] \in Users
    BY <1>4, UserOfAssumption DEF Work
  <2>2. CASE UserOf[t] = u
    BY <1>1, <1>4, <2>1, <2>2, WorkIsExclusive DEF Work
  <2>3. CASE UserOf[t] # u
    BY <1>3, <1>4, <2>1, <2>3 DEF WorkIsDue, TypeOK
  <2> QED
    BY <2>2, <2>3
<1>8. SuccessHasLibrary' /\ PrivateHasNoGames'
  BY <1>3, <1>4, UserOfAssumption DEF SuccessHasLibrary, PrivateHasNoGames
<1>9. FreshHasLibrary'
  BY <1>1, <1>3, <1>5 DEF FreshHasLibrary, SuccessHasLibrary, TypeOK
<1>10. StoredIsSynced'
  BY <1>3, <1>4 DEF StoredIsSynced
<1> QED
  BY <1>4, <1>6, <1>7, <1>8, <1>9, <1>10

\* A failure is recorded.
LEMMA RecordingFailure ==
    ASSUME SyncInv, NEW s \in Syncs, RecordSyncFailure(s)
    PROVE  SyncInv'
<1> USE DEF SyncInv
<1>1. at[s] = "failure" /\ at' = [at EXCEPT ![s] = "leave"]
  BY DEF RecordSyncFailure, Runs, RunsUnheard, To
<1>2. StatementRuns(s) \/ AnswerLost(s)
  BY DEF RecordSyncFailure, Runs, RunsUnheard
<1>3. /\ error' = [error EXCEPT ![UserOf[s]] = TRUE]
      /\ UNCHANGED <<fresh, state, stored>>
  BY DEF RecordSyncFailure
<1>4. /\ LockInv' /\ AtByStage'
      /\ at' \in [Syncs -> {"slot", "due", "lock", "end"} \cup UnderLock]
      /\ at'[s] = "leave"
      /\ \A t \in Syncs : t # s => at'[t] = at[t]
      /\ \A v \in Users : LostBy(v) => LostBy(v)'
  BY <1>1, <1>2, WriteFrame DEF UnderLock
<1>5. TypeOK'
  BY <1>3, <1>4, UserOfAssumption DEF TypeOK, LockInv, AtByStage, AtMatchesStage
<1>6. WorkIsDue' /\ SuccessHasLibrary' /\ PrivateHasNoGames'
  BY <1>3, <1>4, UserOfAssumption DEF WorkIsDue, SuccessHasLibrary, PrivateHasNoGames, Work
<1>7. FreshHasLibrary' /\ StoredIsSynced'
  BY <1>3, <1>4 DEF FreshHasLibrary, StoredIsSynced
<1> QED
  BY <1>4, <1>5, <1>6, <1>7

\* A day passes.
LEMMA Aging ==
    ASSUME SyncInv, NEW u \in Users, Age(u)
    PROVE  SyncInv'
<1> USE DEF SyncInv
<1>1. /\ fresh' = [fresh EXCEPT ![u] = FALSE]
      /\ UNCHANGED <<stage, conn, session, borrowed, lock, lost, at, error, state, stored>>
  BY DEF Age, lockVars
<1>2. LockInv'
  BY <1>1, StepPreserves DEF lockVars
<1>3. TypeOK' /\ AtByStage'
  BY <1>1, <1>2 DEF TypeOK, LockInv, AtByStage, AtMatchesStage
<1>4. WorkIsDue' /\ SuccessHasLibrary' /\ PrivateHasNoGames'
  BY <1>1, UserOfAssumption DEF WorkIsDue, SuccessHasLibrary, PrivateHasNoGames, LostBy, TypeOK
<1>5. FreshHasLibrary' /\ StoredIsSynced'
  BY <1>1 DEF FreshHasLibrary, StoredIsSynced, LostBy, TypeOK
<1> QED
  BY <1>2, <1>3, <1>4, <1>5


-----------------------------------------------------------------------------
LEMMA SyncInitHolds == Init => SyncInv
<1> SUFFICES ASSUME Init PROVE SyncInv
  OBVIOUS
<1>1. \A s \in Syncs : FirstCall(s) \in {"due", "slot", "lock"}
  BY KindAssumption DEF FirstCall
<1>2. LockInv
  BY InitHolds DEF Init
<1>3. TypeOK
  BY <1>1, <1>2 DEF Init, TypeOK, LockInv, LockInit, UnderLock, SyncStates
<1>4. AtByStage
  BY <1>1 DEF Init, LockInit, AtByStage, AtMatchesStage, UnderLock
<1>5. WorkIsDue /\ SuccessHasLibrary /\ PrivateHasNoGames
  BY <1>1, UserOfAssumption
     DEF Init, WorkIsDue, SuccessHasLibrary, PrivateHasNoGames, Work
<1>6. FreshHasLibrary /\ StoredIsSynced
  BY DEF Init, FreshHasLibrary, StoredIsSynced
<1> QED
  BY <1>2, <1>3, <1>4, <1>5, <1>6 DEF SyncInv

LEMMA SyncStepPreserves == SyncInv /\ [Next]_vars => SyncInv'
<1> SUFFICES ASSUME SyncInv, [Next]_vars
             PROVE  SyncInv'
  OBVIOUS
<1>1. CASE UNCHANGED vars
  <2>1. LockInv'
    BY <1>1, StepPreserves DEF SyncInv, vars, lockVars
  <2>2. UNCHANGED <<stage, conn, session, borrowed, lock, lost, at, fresh, error, state, stored>>
    BY <1>1 DEF vars
  <2>3. TypeOK' /\ AtByStage'
    BY <2>1, <2>2 DEF SyncInv, TypeOK, LockInv, AtByStage, AtMatchesStage
  <2>4. WorkIsDue' /\ SuccessHasLibrary' /\ PrivateHasNoGames' /\ FreshHasLibrary' /\ StoredIsSynced'
    BY <2>2 DEF SyncInv, WorkIsDue, SuccessHasLibrary, PrivateHasNoGames,
       FreshHasLibrary, StoredIsSynced, LostBy
  <2> QED
    BY <2>1, <2>3, <2>4 DEF SyncInv
<1>2. ASSUME NEW s \in Syncs, Proceed(s) PROVE SyncInv'
  <2>1. CASE TakeSlot(s) \/ CheckDue(s)
    BY <2>1, BeforeLock
  <2>2. CASE AskLock(s) \/ GetLock(s) \/ Leave(s)
    BY <2>2, TakingLock
  <2>3. CASE Recheck(s) \/ ReadOutcome(s)
    BY <2>3, Reading
  <2>4. CASE BestEffortEnds(s) \/ FetchGames(s)
    BY <2>4, Fetching DEF BestEffortEnds
  <2>5. CASE InsertGames(s) \/ LookForGames(s)
    BY <2>5, Storing
  <2>6. CASE CommitGames(s) \/ RecordEmpty(s)
    BY <2>6, Committing, MarkingEmpty
  <2>7. CASE RecordSyncSuccess(s) \/ RecordSyncFailure(s)
    BY <2>7, RecordingSuccess, RecordingFailure
  <2> QED
    BY <1>2, <2>1, <2>2, <2>3, <2>4, <2>5, <2>6, <2>7 DEF Proceed
<1>3. ASSUME NEW s \in Syncs, Falter(s) PROVE SyncInv'
  <2>1. CASE NoSlot(s) \/ CheckDueFails(s)
    BY <2>1, BeforeLock
  <2>2. CASE NoLock(s)
    BY <2>2, TakingLock
  <2>3. CASE ReadFails(s)
    BY <2>3, Reading
  <2>4. CASE BestEffort(s) \/ BestEffortGivenUp(s) \/ Panics(s)
    BY <2>4, Fetching
  <2>5. CASE StoreFails(s) \/ EmptyFails(s) \/ RecordFails(s)
    BY <2>5, Storing
  <2> QED
    BY <1>3, <2>1, <2>2, <2>3, <2>4, <2>5 DEF Falter
<1> QED
  BY <1>1, <1>2, <1>3, Reconnecting, Aging DEF Next

LEMMA SyncInvAlways == Spec => []SyncInv
BY SyncInitHolds, SyncStepPreserves, PTL DEF Spec

\* Every variable keeps its type, and a sync runs its calls exactly while it is
\* under its user's lock (main.go:332-381, view.go:391-421).
THEOREM SyncTypeCorrect == Spec => []TypeOK
<1>1. SyncInv => TypeOK
  BY DEF SyncInv
<1> QED
  BY <1>1, SyncInvAlways, PTL

\* However many syncs of however many users run over a pool of any size, two
\* syncs of a user are under the lock together only if one has lost the
\* connection that held it (games.go:216-235).
THEOREM SyncsExcludeEachOther == Spec => []OneHolder
<1>1. SyncInv => OneHolder
  BY SafetyFollows DEF SyncInv
<1> QED
  BY <1>1, SyncInvAlways, PTL

\* A step of a sync is a step of the lock, or leaves the lock alone.
LEMMA SyncIsLockStep == [Next]_vars => [LockNext]_lockVars
<1> SUFFICES ASSUME [Next]_vars PROVE LockNext \/ UNCHANGED lockVars
  OBVIOUS
<1>1. CASE UNCHANGED vars
  BY <1>1 DEF vars, lockVars
<1>2. ASSUME NEW s \in Syncs, Proceed(s) PROVE LockNext \/ UNCHANGED lockVars
  BY <1>2 DEF Proceed, TakeSlot, CheckDue, AskLock, GetLock, Recheck, ReadOutcome,
     BestEffortEnds, BestEffortGivenUp, FetchGames, InsertGames, CommitGames, LookForGames,
     RecordEmpty, RecordSyncSuccess, RecordSyncFailure, Leave, Runs, Begins, RunsUnheard, LockNext
<1>3. ASSUME NEW s \in Syncs, Falter(s) PROVE LockNext \/ UNCHANGED lockVars
  BY <1>3 DEF Falter, NoSlot, CheckDueFails, NoLock, ReadFails, BestEffort, BestEffortGivenUp,
     Panics, StoreFails, EmptyFails, RecordFails, Fails, LockNext
<1>4. ASSUME NEW s \in Syncs, Connection(s) PROVE LockNext \/ UNCHANGED lockVars
  BY <1>4 DEF Connection, LockNext
<1>5. ASSUME NEW u \in Users, Age(u) PROVE UNCHANGED lockVars
  BY <1>5 DEF Age
<1> QED
  BY <1>1, <1>2, <1>3, <1>4, <1>5 DEF Next

\* The syncs use the lock as UserLock specifies it, whatever they do under it and
\* however they fail (games.go:216-316, main.go:326-426, view.go:318-421).
THEOREM SyncsUseUserLock == Spec => ImplementsUserLock
<1>1. Init => LockInit
  BY DEF Init
<1>2. LockInit => Exclusive!Init
  BY DEF LockInit, Exclusive!Init, Inside
<1>3. SyncInv /\ [Next]_vars => [Exclusive!Next]_(Exclusive!lockState)
  BY SyncIsLockStep, StepImplements DEF SyncInv
<1> QED
  BY <1>1, <1>2, <1>3, SyncInvAlways, PTL DEF Spec, ImplementsUserLock, Exclusive!Spec

\* No connection in the pool holds anybody's lock (games.go:257-266, 294-316).
THEOREM PoolHoldsNoLock == Spec => []IdleHoldsNoLock
<1>1. SyncInv => IdleHoldsNoLock
  BY SafetyFollows DEF SyncInv
<1> QED
  BY <1>1, SyncInvAlways, PTL

\* A sync that has ended has given its connection back (games.go:235-239).
THEOREM EndedGivesBack == Spec => []EndedHoldsNothing
<1>1. SyncInv => EndedHoldsNothing
  BY DEF SyncInv, LockInv, ConnByStage, AtByStage, AtMatchesStage, MidCall,
     EndedHoldsNothing
<1> QED
  BY <1>1, SyncInvAlways, PTL

\* A user whose sync counts as successful has a recorded library state
\* (view.go:409-417, main.go:385-397).
THEOREM FreshAlwaysHasLibrary == Spec => []FreshHasLibrary
<1>1. SyncInv => FreshHasLibrary
  BY DEF SyncInv
<1> QED
  BY <1>1, SyncInvAlways, PTL

\* Stored games are never hidden behind "private", unless a sync ran without
\* its lock (games.go:318-338).
THEOREM StoredAlwaysSynced == Spec => []StoredIsSynced
<1>1. SyncInv => StoredIsSynced
  BY DEF SyncInv
<1> QED
  BY <1>1, SyncInvAlways, PTL

\* Nothing is recorded over a success less than a day old, unless a sync ran
\* without its lock (main.go:363-373, view.go:401-409).
THEOREM FreshAlwaysLeftAlone == Spec => FreshIsLeftAlone
<1> DEFINE Leaves ==
        \A s \in Syncs :
            at[s] \in {"success", "failure"} /\ at'[s] = "leave" /\ fresh[UserOf[s]]
                => LostBy(UserOf[s])
<1>1. SyncInv => Leaves
  BY DEF SyncInv, WorkIsDue, Work
<1>2. SyncInv => [Leaves]_vars
  BY <1>1
<1> HIDE DEF Leaves
<1>3. Spec => [][Leaves]_vars
  BY <1>2, SyncInvAlways, PTL
<1> QED
  BY <1>3 DEF FreshIsLeftAlone, Leaves

=============================================================================
