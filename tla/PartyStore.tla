----------------------------- MODULE PartyStore -----------------------------
(***************************************************************************)
(* internal/db/db.go: the party calls of the store, one SQL statement per  *)
(* step.  Each request runs one call at a time in a READ COMMITTED         *)
(* transaction: it sees the committed rows as they are at each statement,  *)
(* with its own writes on top, and SELECT ... FOR UPDATE on the party row  *)
(* is the only thing that orders it against the other requests.  A         *)
(* transaction may fail at any statement, which rolls it back.             *)
(***************************************************************************)
EXTENDS PartyTables

CONSTANTS
    Requests,   \* the HTTP requests in flight, each calling the store
    NoRequest,
    NoUser,
    NoInvite

ASSUME NoRequestAssumption == NoRequest \notin Requests
ASSUME NoUserAssumption == NoUser \notin Users
ASSUME NoInviteAssumption == NoInvite \notin InviteIds

Ops == {"CreateParty", "SendInvite", "AcceptInvite",
        "RejectInvite", "LeaveParty", "StepDown"}

\* The statement a transaction executes next.
Statements ==
    {"insertParty", "insertLeader", "lock",
     "checkMember", "checkPending", "readTarget", "invite", "admit", "joinFriend",
     "lookup", "join", "accept", "reject",
     "leave", "succeed", "count",
     "countMembers", "checkTarget", "handOver", "commit"}

VARIABLES
    lock,    \* lock[p]: the request whose transaction holds the party row
    pc,      \* pc[r]: r's next statement, "idle" outside a transaction
    tx,      \* tx[r]: the call's arguments, its now(), and what it has read
    writes   \* writes[r]: rows written and not yet committed

vars == <<users, leader, joined, invites, clock, lock, pc, tx, writes>>

NoTx == [op |-> "none", party |-> Unborn, actor |-> NoUser, target |-> NoUser,
         at |-> 0, leader |-> NoUser, invite |-> NoInvite]

NoWrites == [leader |-> NoUser, joins |-> {}, leaves |-> {},
             invites |-> {}, deleted |-> FALSE]

Tx == [op : Ops \cup {"none"}, party : Parties \cup {Unborn},
       actor : Users \cup {NoUser}, target : Users \cup {NoUser}, at : Nat,
       leader : Users \cup {NoUser}, invite : InviteIds \cup {NoInvite}]

Writes == [leader : Users \cup {NoUser}, joins : SUBSET Users,
           leaves : SUBSET Users, invites : SUBSET Invite, deleted : BOOLEAN]

TypeOK ==
    /\ TablesTypeOK
    /\ lock \in [Parties -> Requests \cup {NoRequest}]
    /\ pc \in [Requests -> Statements \cup {"idle"}]
    /\ tx \in [Requests -> Tx]
    /\ writes \in [Requests -> Writes]

\* No request is in a transaction.
Idle ==
    /\ lock = [p \in Parties |-> NoRequest]
    /\ pc = [r \in Requests |-> "idle"]
    /\ tx = [r \in Requests |-> NoTx]
    /\ writes = [r \in Requests |-> NoWrites]

Init == TablesInit /\ Idle

-----------------------------------------------------------------------------
(* What r's transaction sees of its party: the committed rows under its    *)
(* own writes.                                                             *)

SeenJoined(r) ==
    [u \in Users |-> IF u \in writes[r].leaves THEN 0
                     ELSE IF u \in writes[r].joins THEN tx[r].at
                     ELSE joined[tx[r].party][u]]

SeenInvites(r) ==
    {i \in invites[tx[r].party] : \A n \in writes[r].invites : n.id # i.id}
        \cup writes[r].invites

\* Statement stmt of r runs, and next is the statement after it.
Step(r, stmt, next) ==
    /\ pc[r] = stmt
    /\ pc' = [pc EXCEPT ![r] = next]

ReadOnly == UNCHANGED <<tables, lock, tx, writes>>

Write(r, rows) ==
    /\ writes' = [writes EXCEPT ![r] = rows]
    /\ UNCHANGED <<tables, lock, tx>>

\* INSERT INTO memberships: the primary key refuses a second row.
InsertMembership(r, u) ==
    /\ u \notin Members(SeenJoined(r))
    /\ Write(r, [writes[r] EXCEPT !.joins = @ \cup {u}])

\* INSERT INTO invites; the partial unique index refuses a second pending row.
InsertInvite(r, status) ==
    /\ status = "pending" => PendingFor(SeenInvites(r), tx[r].target) = {}
    /\ \E i \in InviteIds :
          /\ \A row \in SeenInvites(r) : row.id # i
          /\ Write(r, [writes[r] EXCEPT !.invites = @ \cup
                         {[id |-> i, user |-> tx[r].target, status |-> status]}])

\* UPDATE invites SET status = ... WHERE id = the invite looked up.
UpdateInvite(r, status) ==
    Write(r, [writes[r] EXCEPT !.invites = @ \cup
                {[i EXCEPT !.status = status] :
                    i \in {row \in SeenInvites(r) : row.id = tx[r].invite}}])

\* Mutant of End: an early return that forgets to roll back.
EndKeepingLock(r) ==
    /\ pc' = [pc EXCEPT ![r] = "idle"]
    /\ tx' = [tx EXCEPT ![r] = NoTx]
    /\ writes' = [writes EXCEPT ![r] = NoWrites]
    /\ UNCHANGED lock

\* The transaction is over: its row locks go and its memory with it.
End(r) ==
    /\ lock' = [p \in Parties |-> IF lock[p] = r THEN NoRequest ELSE lock[p]]
    /\ pc' = [pc EXCEPT ![r] = "idle"]
    /\ tx' = [tx EXCEPT ![r] = NoTx]
    /\ writes' = [writes EXCEPT ![r] = NoWrites]

-----------------------------------------------------------------------------
(* Beginning, locking, ending.                                             *)

\* BEGIN fixes the transaction's now().  The actor has a session; the party
\* and the target come from the request: any party that exists or has existed
\* (its id is random, so nobody names it before), and anybody.
Begin(r, op, p, a, t) ==
    /\ pc[r] = "idle"
    /\ users[a] = "signedIn"
    /\ (p = Unborn) <=> (op = "CreateParty")
    /\ p \in Parties => leader[p] # Unborn
    /\ (t # NoUser) <=> (op \in {"SendInvite", "StepDown"})
    /\ pc' = [pc EXCEPT ![r] = IF op = "CreateParty" THEN "insertParty" ELSE "lock"]
    /\ tx' = [tx EXCEPT ![r] = [NoTx EXCEPT !.op = op, !.party = p, !.actor = a,
                                            !.target = t, !.at = clock]]
    /\ UNCHANGED <<tables, lock, writes>>

AfterLock(op) ==
    CASE op = "SendInvite" -> "checkMember"
      [] op = "AcceptInvite" -> "lookup"
      [] op = "RejectInvite" -> "lookup"
      [] op = "LeaveParty" -> "leave"
      [] op = "StepDown" -> "countMembers"
      [] OTHER -> "commit"

\* Whether the leader just read lets the call go on.
MayAct(r) ==
    tx[r].op \in {"SendInvite", "StepDown"} => leader[tx[r].party] = tx[r].actor

RowFree(r) == Live(tx[r].party) /\ lock[tx[r].party] = NoRequest

\* Mutant of LockParty: SELECT without FOR UPDATE.
ReadPartyUnlocked(r) ==
    /\ Step(r, "lock", AfterLock(tx[r].op))
    /\ Live(tx[r].party)
    /\ MayAct(r)
    /\ tx' = [tx EXCEPT ![r].leader = leader[tx[r].party]]
    /\ UNCHANGED <<tables, lock, writes>>

\* SELECT leader_id FROM parties WHERE id = $1 FOR UPDATE waits for the row.
LockParty(r) ==
    /\ Step(r, "lock", AfterLock(tx[r].op))
    /\ RowFree(r)
    /\ MayAct(r)
    /\ lock' = [lock EXCEPT ![tx[r].party] = r]
    /\ tx' = [tx EXCEPT ![r].leader = leader[tx[r].party]]
    /\ UNCHANGED <<tables, writes>>

\* The early returns of the calls: what r has just read ends it.
Refused(r) ==
    \/ pc[r] = "lock" /\ ~Live(tx[r].party)
    \/ pc[r] = "lock" /\ RowFree(r) /\ ~MayAct(r)
    \/ pc[r] = "checkMember" /\ tx[r].target \in Members(SeenJoined(r))
    \/ pc[r] = "checkPending" /\ PendingFor(SeenInvites(r), tx[r].target) # {}
    \/ pc[r] = "readTarget" /\ users[tx[r].target] = "unknown"
    \/ pc[r] = "lookup" /\ PendingFor(SeenInvites(r), tx[r].actor) = {}
    \/ pc[r] = "countMembers" /\ ~\E u, v \in Members(SeenJoined(r)) : u # v
    \/ pc[r] = "checkTarget" /\ tx[r].target \notin Members(SeenJoined(r))

Refuse(r) == Refused(r) /\ End(r) /\ UNCHANGED tables

\* A statement fails, the request is cancelled or its connection is lost.
Fail(r) ==
    /\ pc[r] # "idle"
    /\ End(r)
    /\ UNCHANGED tables

\* COMMIT; the rows of a deleted party go with it (ON DELETE CASCADE).  Its
\* acknowledgement may still be lost: the caller then sees an error although
\* the call took effect, and may repeat it.
Commit(r) ==
    LET p == tx[r].party  w == writes[r]
    IN  /\ pc[r] = "commit"
        /\ leader' = [leader EXCEPT ![p] = IF w.deleted THEN Gone
                                           ELSE IF w.leader # NoUser THEN w.leader
                                           ELSE @]
        /\ joined' = [joined EXCEPT ![p] = IF w.deleted THEN [u \in Users |-> 0]
                                           ELSE SeenJoined(r)]
        /\ invites' = [invites EXCEPT ![p] = IF w.deleted THEN {}
                                             ELSE SeenInvites(r)]
        /\ End(r)
        /\ UNCHANGED <<users, clock>>

-----------------------------------------------------------------------------
(* CreateParty                                                             *)

\* The new row gets an id nobody used and stays locked and invisible to the
\* others until the commit.
CreateInsertParty(r) ==
    /\ Step(r, "insertParty", "insertLeader")
    /\ \E p \in Parties :
          /\ leader[p] = Unborn /\ lock[p] = NoRequest
          /\ lock' = [lock EXCEPT ![p] = r]
          /\ tx' = [tx EXCEPT ![r].party = p]
    /\ writes' = [writes EXCEPT ![r].leader = tx[r].actor]
    /\ UNCHANGED tables

CreateInsertLeader(r) ==
    /\ Step(r, "insertLeader", "commit")
    /\ InsertMembership(r, tx[r].actor)

-----------------------------------------------------------------------------
(* SendInvite                                                              *)

\* Mutant of SendCheckMember: membership is not checked.
SendSkipMember(r) == Step(r, "checkMember", "checkPending") /\ ReadOnly

SendCheckMember(r) ==
    /\ Step(r, "checkMember", "checkPending")
    /\ tx[r].target \notin Members(SeenJoined(r))
    /\ ReadOnly

\* Mutant of SendCheckPending: pending invites are left to the index.
SendSkipPending(r) == Step(r, "checkPending", "readTarget") /\ ReadOnly

SendCheckPending(r) ==
    /\ Step(r, "checkPending", "readTarget")
    /\ PendingFor(SeenInvites(r), tx[r].target) = {}
    /\ ReadOnly

\* ever_logged_in is read once; the party lock does not hold the users row.
SendReadTarget(r) ==
    /\ \/ Step(r, "readTarget", "admit") /\ users[tx[r].target] = "friend"
       \/ Step(r, "readTarget", "invite") /\ users[tx[r].target] = "signedIn"
    /\ ReadOnly

SendInsertPending(r) ==
    /\ Step(r, "invite", "commit")
    /\ InsertInvite(r, "pending")

SendInsertAccepted(r) ==
    /\ Step(r, "admit", "joinFriend")
    /\ InsertInvite(r, "accepted")

SendInsertMembership(r) ==
    /\ Step(r, "joinFriend", "commit")
    /\ InsertMembership(r, tx[r].target)

-----------------------------------------------------------------------------
(* AcceptInvite and RejectInvite                                           *)

\* The pending invite addressed to the actor.
LookupInvite(r, next) ==
    /\ Step(r, "lookup", next)
    /\ \E i \in PendingFor(SeenInvites(r), tx[r].actor) :
          tx' = [tx EXCEPT ![r].invite = i.id]
    /\ UNCHANGED <<tables, lock, writes>>

AcceptLookup(r) == tx[r].op = "AcceptInvite" /\ LookupInvite(r, "join")

\* Mutant of AcceptInsertMembership: the invite is answered and nobody joins.
AcceptSkipMembership(r) == Step(r, "join", "accept") /\ ReadOnly

AcceptInsertMembership(r) ==
    /\ Step(r, "join", "accept")
    /\ InsertMembership(r, tx[r].actor)

AcceptUpdateInvite(r) ==
    /\ Step(r, "accept", "commit")
    /\ UpdateInvite(r, "accepted")

RejectLookup(r) == tx[r].op = "RejectInvite" /\ LookupInvite(r, "reject")

\* Mutant of RejectUpdateInvite: a status the readers do not know.
RejectAsDeclined(r) ==
    /\ Step(r, "reject", "commit")
    /\ UpdateInvite(r, "declined")

RejectUpdateInvite(r) ==
    /\ Step(r, "reject", "commit")
    /\ UpdateInvite(r, "rejected")

-----------------------------------------------------------------------------
(* LeaveParty                                                              *)

\* DELETE FROM memberships; the leader is the one read with the lock.
LeaveDeleteMembership(r) ==
    /\ \/ Step(r, "leave", "succeed") /\ tx[r].leader = tx[r].actor
       \/ Step(r, "leave", "count") /\ tx[r].leader # tx[r].actor
    /\ Write(r, [writes[r] EXCEPT !.leaves = {tx[r].actor}])

\* Mutant of LeaveFindSuccessor: ORDER BY user_id.
LeaveFindLowestId(r) ==
    /\ Step(r, "succeed", "count")
    /\ \/ \E s \in Members(SeenJoined(r)) :
             /\ \A v \in Members(SeenJoined(r)) : s <= v
             /\ Write(r, [writes[r] EXCEPT !.leader = s])
       \/ Members(SeenJoined(r)) = {} /\ ReadOnly

\* The earliest-joined remaining member, if any, is made leader.
LeaveFindSuccessor(r) ==
    /\ Step(r, "succeed", "count")
    /\ \/ \E s \in Users : /\ Earliest(SeenJoined(r), s)
                           /\ Write(r, [writes[r] EXCEPT !.leader = s])
       \/ Members(SeenJoined(r)) = {} /\ ReadOnly

\* An emptied party is deleted, and its rows cascade.
LeaveCountRemaining(r) ==
    /\ Step(r, "count", "commit")
    /\ Write(r, [writes[r] EXCEPT !.deleted = Members(SeenJoined(r)) = {}])

-----------------------------------------------------------------------------
(* StepDown                                                                *)

StepDownCountMembers(r) ==
    /\ Step(r, "countMembers", "checkTarget")
    /\ \E u, v \in Members(SeenJoined(r)) : u # v
    /\ ReadOnly

\* Mutant of StepDownCheckTarget: any user may be named.
StepDownAnyTarget(r) == Step(r, "checkTarget", "handOver") /\ ReadOnly

StepDownCheckTarget(r) ==
    /\ Step(r, "checkTarget", "handOver")
    /\ tx[r].target \in Members(SeenJoined(r))
    /\ ReadOnly

StepDownUpdateLeader(r) ==
    /\ Step(r, "handOver", "commit")
    /\ Write(r, [writes[r] EXCEPT !.leader = tx[r].target])

-----------------------------------------------------------------------------
\* r's next statement, whichever call it runs.
Statement(r) ==
    \/ LockParty(r) \/ Refuse(r) \/ Commit(r)
    \/ CreateInsertParty(r) \/ CreateInsertLeader(r)
    \/ SendCheckMember(r) \/ SendCheckPending(r) \/ SendReadTarget(r)
    \/ SendInsertPending(r) \/ SendInsertAccepted(r) \/ SendInsertMembership(r)
    \/ AcceptLookup(r) \/ AcceptInsertMembership(r) \/ AcceptUpdateInvite(r)
    \/ RejectLookup(r) \/ RejectUpdateInvite(r)
    \/ LeaveDeleteMembership(r) \/ LeaveFindSuccessor(r) \/ LeaveCountRemaining(r)
    \/ StepDownCountMembers(r) \/ StepDownCheckTarget(r) \/ StepDownUpdateLeader(r)

UsersStep ==
    /\ \/ \E u \in Users : UpsertUser(u) \/ UpsertFriend(u)
       \/ Tick
    /\ UNCHANGED <<lock, pc, tx, writes>>

Next ==
    \/ UsersStep
    \/ \E r \in Requests :
          \/ \E op \in Ops, p \in Parties \cup {Unborn},
                a \in Users, t \in Users \cup {NoUser} : Begin(r, op, p, a, t)
          \/ Statement(r)
          \/ Fail(r)

Spec == Init /\ [][Next]_vars

\* Parties as CreateParty leaves them, each led by its creator; all other users
\* are friends that a library sync has brought in.
FormedInit ==
    /\ \E creator \in [Parties -> Users] :
          /\ leader = creator
          /\ joined = [p \in Parties |-> [u \in Users |-> IF u = creator[p] THEN 1 ELSE 0]]
          /\ users = [u \in Users |->
                         IF \E p \in Parties : creator[p] = u THEN "signedIn" ELSE "friend"]
    /\ invites = [p \in Parties |-> {}]
    /\ clock = 1
    /\ Idle

\* The store from there on.
FormedSpec == FormedInit /\ [][Next]_vars

\* The bound on party or invite ids stops r; the code has no such limit.
OutOfIds(r) ==
    \/ /\ pc[r] = "insertParty"
       /\ \A p \in Parties : leader[p] # Unborn \/ lock[p] # NoRequest
    \/ /\ pc[r] \in {"invite", "admit"}
       /\ \A i \in InviteIds : \E row \in SeenInvites(r) : row.id = i

\* A transaction keeps executing statements.  Strong fairness, because a
\* request may find the party's row locked again and again, and PostgreSQL
\* queues the waiters of a row lock.
FairSpec ==
    /\ Spec
    /\ \A r \in Requests : /\ SF_vars(Statement(r))
                           /\ WF_vars(OutOfIds(r) /\ Fail(r))

-----------------------------------------------------------------------------
(* Properties.                                                             *)

P == INSTANCE Party WITH users <- users, leader <- leader, joined <- joined,
                         invites <- invites, clock <- clock

\* The party lock makes every duplicate-key failure unreachable: when a call
\* inserts a membership or a pending invite, no such row is there, so the
\* 23505 branch of SendInvite (db.go:502-509) never hides a lost invitation.
InsertsNeverConflict ==
    \A r \in Requests :
        /\ pc[r] = "invite" => PendingFor(SeenInvites(r), tx[r].target) = {}
        /\ pc[r] = "joinFriend" => joined[tx[r].party][tx[r].target] = 0
        /\ pc[r] = "join" => joined[tx[r].party][tx[r].actor] = 0

\* Every call of the store is one step of Party or none, whatever else runs.
ImplementsParty == P!Spec

\* The same, from a state in which a party exists already: leadership passes
\* by joined_at and user id, whatever order the members came in.
StepsImplementParty == [][P!Next]_tables

\* Every call ends: no request holds or waits for a party for ever.
CallsEnd == \A r \in Requests : pc[r] # "idle" ~> pc[r] = "idle"

\* What SendInvite's comment says of a user who has signed in (db.go:443-446):
\* they join a party by their own answer, or by creating it.
SignedInJoinByThemselves ==
    [][\A p \in Parties, u \in Users :
          joined[p][u] = 0 /\ joined'[p][u] # 0 /\ users[u] = "signedIn" =>
              \E r \in Requests : pc[r] = "commit" /\ pc'[r] = "idle" /\ tx[r].actor = u]_vars

=============================================================================
