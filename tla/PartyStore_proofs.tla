------------------------- MODULE PartyStore_proofs -------------------------
(***************************************************************************)
(* Proofs about PartyStore for any users, parties and requests: the types, *)
(* and that a live party is always led by one of its members and a party   *)
(* that is not live holds no rows.                                         *)
(*                                                                         *)
(* The argument: a transaction past its SELECT ... FOR UPDATE owns the     *)
(* party's row lock, so the rows it reads at one statement are the rows    *)
(* its commit changes (RowLocked); and at each statement what it has       *)
(* written so far is enough for the next one (Stage), up to the commit,    *)
(* whose outcome is a party led by a member or no party.                   *)
(***************************************************************************)
EXTENDS PartyStore, TLAPS

\* The statements that run under the party's row lock.
Locked == Statements \ {"insertParty", "lock"}

\* The statements that name a target.
Targeting == {"checkMember", "checkPending", "readTarget", "invite", "admit",
              "joinFriend", "countMembers", "checkTarget", "handOver"}

\* The arguments of a running call.
Call(r) ==
    /\ pc[r] \in {"idle", "insertParty", "lock"} => writes[r] = NoWrites
    /\ pc[r] # "idle" =>
          /\ tx[r].op \in Ops
          /\ tx[r].actor \in Users
          /\ tx[r].at # 0
          /\ pc[r] # "insertParty" => tx[r].party \in Parties
          /\ tx[r].op \in {"SendInvite", "StepDown"} => tx[r].target \in Users
          /\ pc[r] \in Targeting => tx[r].target \in Users

RowLocked(r) == pc[r] \in Locked => lock[tx[r].party] = r

\* The leader of r's party once r commits, if the party survives.
NewLeader(r) ==
    IF writes[r].leader # NoUser THEN writes[r].leader ELSE leader[tx[r].party]

LedByMember(r) == NewLeader(r) \in Members(SeenJoined(r))

Outcome(r) ==
    IF writes[r].deleted THEN Members(SeenJoined(r)) = {} ELSE LedByMember(r)

\* What holds of r's writes before its next statement.
Stage(r) ==
    /\ pc[r] \in Locked \ {"insertLeader", "succeed", "count", "commit"} =>
          /\ writes[r].leader = NoUser
          /\ writes[r].leaves = {}
          /\ writes[r].deleted = FALSE
          /\ leader[tx[r].party] \in Users
          /\ tx[r].leader = leader[tx[r].party]
    /\ pc[r] = "insertLeader" =>
          /\ leader[tx[r].party] = Unborn
          /\ writes[r].leader = tx[r].actor
          /\ writes[r].leaves = {}
          /\ writes[r].deleted = FALSE
    /\ pc[r] = "succeed" =>
          /\ writes[r].leader = NoUser
          /\ writes[r].deleted = FALSE
          /\ tx[r].actor \in writes[r].leaves
          /\ leader[tx[r].party] = tx[r].actor
    /\ pc[r] = "count" =>
          /\ writes[r].deleted = FALSE
          /\ LedByMember(r) \/ Members(SeenJoined(r)) = {}
    /\ pc[r] = "handOver" => tx[r].target \in Members(SeenJoined(r))
    /\ pc[r] = "commit" => Outcome(r)

Inv ==
    /\ TypeOK
    /\ clock # 0
    /\ \A r \in Requests : Call(r) /\ RowLocked(r) /\ Stage(r)
    /\ LeaderIsMember
    /\ NoOrphanRows

-----------------------------------------------------------------------------
(* Frame: what a step of one request leaves alone for another.             *)

\* A request whose own state and whose party's rows do not change keeps its
\* stage: it sees the same memberships and leader as before.
LEMMA StageFrame ==
    ASSUME NEW s \in Requests,
           pc'[s] = pc[s], tx'[s] = tx[s], writes'[s] = writes[s],
           leader'[tx[s].party] = leader[tx[s].party],
           joined'[tx[s].party] = joined[tx[s].party],
           Stage(s)
    PROVE  Stage(s)'
<1>1. SeenJoined(s)' = SeenJoined(s)
  BY DEF SeenJoined
<1>2. Members(SeenJoined(s))' = Members(SeenJoined(s))
  BY <1>1 DEF Members
<1>3. NewLeader(s)' = NewLeader(s)
  BY DEF NewLeader
<1>4. Outcome(s)' <=> Outcome(s)
  BY <1>2, <1>3 DEF Outcome, LedByMember
<1>5. LedByMember(s)' <=> LedByMember(s)
  BY <1>2, <1>3 DEF LedByMember
<1> QED
  BY <1>2, <1>4, <1>5 DEF Stage

\* The same for the arguments of the call and the row lock.
LEMMA CallFrame ==
    ASSUME NEW s \in Requests,
           pc'[s] = pc[s], tx'[s] = tx[s], writes'[s] = writes[s], Call(s)
    PROVE  Call(s)'
BY DEF Call

\* A statement under the row lock changes only the memory of its own request:
\* the invariant is kept if the request's next stage is reached.
LEMMA LocalStep ==
    ASSUME Inv, UNCHANGED <<tables, lock>>,
           NEW r \in Requests, NEW q \in Locked, NEW t \in Tx, NEW w \in Writes,
           pc[r] \in Locked,
           pc' = [pc EXCEPT ![r] = q],
           tx' = [tx EXCEPT ![r] = t],
           writes' = [writes EXCEPT ![r] = w],
           t.op = tx[r].op, t.party = tx[r].party, t.actor = tx[r].actor,
           t.target = tx[r].target, t.at = tx[r].at,
           q \in Targeting => t.target \in Users,
           Stage(r)'
    PROVE  Inv'
<1>1. TypeOK'
  BY DEF Inv, TypeOK, TablesTypeOK, Locked, tables
<1>2. clock' # 0 /\ LeaderIsMember' /\ NoOrphanRows'
  BY DEF Inv, tables, LeaderIsMember, NoOrphanRows, Live, Members
<1>3. \A s \in Requests : Call(s)' /\ RowLocked(s)' /\ Stage(s)'
  <2> SUFFICES ASSUME NEW s \in Requests
               PROVE  Call(s)' /\ RowLocked(s)' /\ Stage(s)'
    OBVIOUS
  <2>1. CASE s = r
    <3>1. pc'[r] = q /\ tx'[r] = t /\ writes'[r] = w
      BY DEF Inv, TypeOK
    <3>2. Call(r)'
      BY <3>1 DEF Inv, Call, Locked, Statements
    <3>3. RowLocked(r)'
      BY <3>1 DEF Inv, RowLocked
    <3> QED
      BY <2>1, <3>2, <3>3
  <2>2. CASE s # r
    <3>1. pc'[s] = pc[s] /\ tx'[s] = tx[s] /\ writes'[s] = writes[s]
      BY <2>2 DEF Inv, TypeOK
    <3>2. Call(s)'
      BY <3>1, CallFrame DEF Inv
    <3>3. Stage(s)'
      BY <3>1, StageFrame DEF Inv, tables
    <3>4. RowLocked(s)'
      BY <3>1 DEF Inv, RowLocked
    <3> QED
      BY <3>2, <3>3, <3>4
  <2> QED
    BY <2>1, <2>2
<1> QED
  BY <1>1, <1>2, <1>3 DEF Inv

-----------------------------------------------------------------------------
(* Initial states and what a transaction sees.                             *)

LEMMA NoMemoryTyped == NoTx \in Tx /\ NoWrites \in Writes
BY DEF NoTx, Tx, NoWrites, Writes

\* With no request in a transaction, the invariant asks only for the rows.
LEMMA IdleInv ==
    ASSUME Idle, TablesTypeOK, clock # 0, LeaderIsMember, NoOrphanRows
    PROVE  Inv
<1>1. TypeOK
  BY NoMemoryTyped DEF Idle, TypeOK
<1>2. ASSUME NEW r \in Requests PROVE Call(r) /\ RowLocked(r) /\ Stage(r)
  <2>1. pc[r] = "idle" /\ writes[r] = NoWrites
    BY DEF Idle
  <2> QED
    BY <2>1 DEF Call, RowLocked, Stage, Locked, Statements
<1> QED
  BY <1>1, <1>2 DEF Inv

LEMMA InitInv == Init => Inv
<1> SUFFICES ASSUME Init PROVE Inv
  OBVIOUS
<1> USE DEF Init, TablesInit
<1>1. TablesTypeOK /\ clock # 0
  BY DEF TablesTypeOK, Standings
<1>2. LeaderIsMember /\ NoOrphanRows
  BY UsersAssumption DEF LeaderIsMember, NoOrphanRows, Live, Members, Unborn
<1> QED
  BY <1>1, <1>2, IdleInv

\* What a transaction sees under the lock is well typed.
LEMMA SeenTyped ==
    ASSUME Inv, NEW r \in Requests, pc[r] \in Locked
    PROVE  /\ tx[r] \in Tx /\ writes[r] \in Writes
           /\ tx[r].party \in Parties /\ tx[r].actor \in Users /\ tx[r].at \in Nat \ {0}
           /\ SeenJoined(r) \in [Users -> Nat]
           /\ SeenInvites(r) \subseteq Invite
<1>1. tx[r] \in Tx /\ writes[r] \in Writes
  BY DEF Inv, TypeOK
<1>2. tx[r].party \in Parties /\ tx[r].actor \in Users /\ tx[r].at \in Nat \ {0}
  BY <1>1 DEF Inv, Call, Locked, Statements, Tx
<1>3. joined[tx[r].party] \in [Users -> Nat] /\ invites[tx[r].party] \subseteq Invite
  BY <1>2 DEF Inv, TypeOK, TablesTypeOK
<1>4. SeenJoined(r) \in [Users -> Nat]
  BY <1>2, <1>3 DEF SeenJoined
<1>5. SeenInvites(r) \subseteq Invite
  BY <1>1, <1>3 DEF SeenInvites, Writes
<1> QED
  BY <1>1, <1>2, <1>4, <1>5

\* While nothing has touched the leader, r's party is led by a member as r
\* sees it: an insert never removes a membership.
LEMMA LeaderSeen ==
    ASSUME Inv, NEW r \in Requests, pc[r] \in Locked,
           writes[r].leader = NoUser, leader[tx[r].party] \in Users,
           leader[tx[r].party] \notin writes[r].leaves
    PROVE  LedByMember(r)
<1>1. tx[r].party \in Parties /\ tx[r].at # 0
  BY SeenTyped
<1>2. joined[tx[r].party][leader[tx[r].party]] # 0
  BY <1>1 DEF Inv, LeaderIsMember, Live
<1> QED
  BY <1>1, <1>2 DEF LedByMember, NewLeader, Members, SeenJoined

-----------------------------------------------------------------------------
(* The end of a transaction.                                               *)

\* Ending a transaction forgets its memory; if the rows of its own party are
\* all that changed, and they are consistent, the invariant is kept.
LEMMA EndStep ==
    ASSUME Inv, NEW r \in Requests, End(r), TablesTypeOK', clock' # 0,
           LeaderIsMember', NoOrphanRows',
           \A s \in Requests \ {r} : pc[s] \in Locked =>
              /\ leader'[tx[s].party] = leader[tx[s].party]
              /\ joined'[tx[s].party] = joined[tx[s].party]
    PROVE  Inv'
<1>1. TypeOK'
  BY NoMemoryTyped DEF Inv, TypeOK, End
<1>2. ASSUME NEW s \in Requests PROVE Call(s)' /\ RowLocked(s)' /\ Stage(s)'
  <2>1. CASE s = r
    <3>1. pc'[s] = "idle" /\ writes'[s] = NoWrites
      BY <2>1 DEF Inv, TypeOK, End
    <3> QED
      BY <3>1 DEF Call, RowLocked, Stage, Locked, Statements
  <2>2. CASE s # r
    <3>1. pc'[s] = pc[s] /\ tx'[s] = tx[s] /\ writes'[s] = writes[s]
      BY <2>2 DEF Inv, TypeOK, End
    <3>2. Call(s)'
      BY <3>1, CallFrame DEF Inv
    <3>3. RowLocked(s)'
      <4> SUFFICES ASSUME pc[s] \in Locked PROVE lock'[tx[s].party] = s
        BY <3>1 DEF RowLocked
      <4>1. tx[s].party \in Parties /\ lock[tx[s].party] = s
        BY SeenTyped DEF Inv, RowLocked
      <4> QED
        BY <2>2, <4>1 DEF End
    <3>4. Stage(s)'
      <4>1. CASE pc[s] \in Locked
        BY <2>2, <3>1, <4>1, StageFrame DEF Inv
      <4>2. CASE pc[s] \notin Locked
        BY <3>1, <4>2 DEF Stage, Locked, Statements
      <4> QED
        BY <4>1, <4>2
    <3> QED
      BY <3>2, <3>3, <3>4
  <2> QED
    BY <2>1, <2>2
<1> QED
  BY <1>1, <1>2 DEF Inv

LEMMA RollbackStep ==
    ASSUME Inv, NEW r \in Requests, Fail(r) \/ Refuse(r)
    PROVE  Inv'
<1>1. End(r) /\ UNCHANGED tables
  BY DEF Fail, Refuse
<1>2. TablesTypeOK' /\ clock' # 0 /\ LeaderIsMember' /\ NoOrphanRows'
  BY <1>1 DEF Inv, TypeOK, TablesTypeOK, tables, LeaderIsMember, NoOrphanRows, Live
<1> QED
  BY <1>1, <1>2, EndStep DEF tables

LEMMA CommitStep ==
    ASSUME Inv, NEW r \in Requests, Commit(r)
    PROVE  Inv'
<1> DEFINE p == tx[r].party
<1> DEFINE w == writes[r]
<1> DEFINE new == IF w.deleted THEN Gone
                  ELSE IF w.leader # NoUser THEN w.leader ELSE leader[p]
<1> DEFINE kept == IF w.deleted THEN [u \in Users |-> 0] ELSE SeenJoined(r)
<1> DEFINE left == IF w.deleted THEN {} ELSE SeenInvites(r)
<1>1. /\ pc[r] = "commit" /\ pc[r] \in Locked
      /\ End(r) /\ UNCHANGED <<users, clock>>
      /\ leader' = [leader EXCEPT ![p] = new]
      /\ joined' = [joined EXCEPT ![p] = kept]
      /\ invites' = [invites EXCEPT ![p] = left]
  BY DEF Commit, Locked, Statements
<1>2. /\ p \in Parties /\ w \in Writes
      /\ SeenJoined(r) \in [Users -> Nat] /\ SeenInvites(r) \subseteq Invite
  BY <1>1, SeenTyped
<1>3. Outcome(r)
  BY <1>1 DEF Inv, Stage
<1>4. w.deleted \in BOOLEAN
  BY <1>2 DEF Writes
<1>5. \/ new = Gone /\ Members(kept) = {} /\ left = {}
      \/ new \in Users /\ kept[new] # 0
  BY <1>3, <1>4 DEF Outcome, LedByMember, NewLeader, Members
<1>6. TablesTypeOK'
  <2>1. /\ left \subseteq Invite /\ new \in Users \cup {Unborn, Gone}
        /\ kept \in [Users -> Nat]
    BY <1>2, <1>5
  <2>2. TablesTypeOK
    BY DEF Inv, TypeOK
  <2> QED
    BY <1>1, <1>2, <2>1, <2>2 DEF TablesTypeOK
<1>7. leader \in [Parties -> Users \cup {Unborn, Gone}] /\ joined \in [Parties -> [Users -> Nat]]
      /\ invites \in [Parties -> SUBSET Invite]
  BY DEF Inv, TypeOK, TablesTypeOK
<1>8. Gone \notin Users
  BY UsersAssumption DEF Gone
<1>9. LeaderIsMember'
  <2> SUFFICES ASSUME NEW o \in Parties, leader'[o] \in Users
               PROVE  joined'[o][leader'[o]] # 0
    BY DEF LeaderIsMember, Live
  <2>1. CASE o = p
    BY <1>1, <1>2, <1>5, <1>7, <1>8, <2>1
  <2>2. CASE o # p
    BY <1>1, <1>7, <2>2 DEF Inv, LeaderIsMember, Live
  <2> QED
    BY <2>1, <2>2
<1>10. NoOrphanRows'
  <2> SUFFICES ASSUME NEW o \in Parties, leader'[o] \notin Users
               PROVE  Members(joined'[o]) = {} /\ invites'[o] = {}
    BY DEF NoOrphanRows, Live, Members
  <2>1. CASE o = p
    BY <1>1, <1>2, <1>5, <1>7, <2>1
  <2>2. CASE o # p
    BY <1>1, <1>7, <2>2 DEF Inv, NoOrphanRows, Live
  <2> QED
    BY <2>1, <2>2
<1>11. ASSUME NEW s \in Requests \ {r}, pc[s] \in Locked
       PROVE  leader'[tx[s].party] = leader[tx[s].party] /\ joined'[tx[s].party] = joined[tx[s].party]
  <2>1. tx[s].party \in Parties /\ lock[tx[s].party] = s /\ lock[p] = r
    BY <1>1, <1>11, SeenTyped DEF Inv, RowLocked
  <2> QED
    BY <1>1, <1>7, <2>1
<1>12. clock' # 0
  BY <1>1 DEF Inv
<1> HIDE DEF p, w, new, kept, left
<1> QED
  BY <1>1, <1>6, <1>9, <1>10, <1>11, <1>12, EndStep

-----------------------------------------------------------------------------
(* Beginning a transaction and taking the row lock.                        *)

LEMMA BeginStep ==
    ASSUME Inv, NEW r \in Requests, NEW op \in Ops, NEW p \in Parties \cup {Unborn},
           NEW a \in Users, NEW t \in Users \cup {NoUser}, Begin(r, op, p, a, t)
    PROVE  Inv'
<1> DEFINE q == IF op = "CreateParty" THEN "insertParty" ELSE "lock"
<1> DEFINE args == [NoTx EXCEPT !.op = op, !.party = p, !.actor = a, !.target = t, !.at = clock]
<1>1. /\ pc[r] = "idle" /\ pc' = [pc EXCEPT ![r] = q] /\ tx' = [tx EXCEPT ![r] = args]
      /\ UNCHANGED <<tables, lock, writes>>
      /\ p = Unborn <=> op = "CreateParty"
      /\ (t # NoUser) <=> (op \in {"SendInvite", "StepDown"})
  BY DEF Begin
<1>2. args \in Tx
  BY DEF Inv, TypeOK, TablesTypeOK, Tx, NoTx
<1>3. /\ args.op = op /\ args.party = p /\ args.actor = a /\ args.target = t
      /\ args.at = clock
  BY DEF NoTx
<1>4. TypeOK' /\ clock' # 0 /\ LeaderIsMember' /\ NoOrphanRows'
  <2>1. q \in Statements
    BY DEF Statements
  <2> QED
    BY <1>1, <1>2, <2>1 DEF Inv, TypeOK, TablesTypeOK, tables, LeaderIsMember, NoOrphanRows, Live
<1> HIDE DEF args
<1>5. ASSUME NEW s \in Requests PROVE Call(s)' /\ RowLocked(s)' /\ Stage(s)'
  <2>1. CASE s = r
    <3>1. pc'[s] = q /\ tx'[s] = args /\ writes'[s] = writes[s]
      BY <1>1, <2>1 DEF Inv, TypeOK
    <3>2. writes[s] = NoWrites
      BY <1>1, <2>1 DEF Inv, Call
    <3> QED
      BY <1>1, <1>3, <3>1, <3>2 DEF Inv, Call, RowLocked, Stage, Locked, Targeting
  <2>2. CASE s # r
    <3>1. pc'[s] = pc[s] /\ tx'[s] = tx[s] /\ writes'[s] = writes[s]
      BY <1>1, <2>2 DEF Inv, TypeOK
    <3> QED
      BY <1>1, <3>1, CallFrame, StageFrame DEF Inv, RowLocked, tables
  <2> QED
    BY <2>1, <2>2
<1> QED
  BY <1>4, <1>5 DEF Inv

\* Taking a free row lock disturbs no other request: whoever is past its own
\* lock holds another party.
LEMMA AcquireStep ==
    ASSUME Inv, UNCHANGED tables,
           NEW r \in Requests, NEW q \in Locked, NEW t \in Tx, NEW w \in Writes,
           t.party \in Parties, lock[t.party] = NoRequest,
           lock' = [lock EXCEPT ![t.party] = r],
           pc[r] \in {"lock", "insertParty"},
           pc' = [pc EXCEPT ![r] = q],
           tx' = [tx EXCEPT ![r] = t],
           writes' = [writes EXCEPT ![r] = w],
           t.op = tx[r].op, t.actor = tx[r].actor, t.target = tx[r].target, t.at = tx[r].at,
           q \in Targeting => t.target \in Users,
           Stage(r)'
    PROVE  Inv'
<1>1. TypeOK'
  BY DEF Inv, TypeOK, TablesTypeOK, Locked, tables
<1>2. clock' # 0 /\ LeaderIsMember' /\ NoOrphanRows'
  BY DEF Inv, tables, LeaderIsMember, NoOrphanRows, Live, Members
<1>3. ASSUME NEW s \in Requests PROVE Call(s)' /\ RowLocked(s)' /\ Stage(s)'
  <2>1. CASE s = r
    <3>1. pc'[r] = q /\ tx'[r] = t /\ writes'[r] = w /\ lock'[t.party] = r
      BY DEF Inv, TypeOK
    <3>2. Call(r)'
      BY <3>1 DEF Inv, Call, Locked, Statements
    <3>3. RowLocked(r)'
      BY <3>1 DEF RowLocked
    <3> QED
      BY <2>1, <3>2, <3>3
  <2>2. CASE s # r
    <3>1. pc'[s] = pc[s] /\ tx'[s] = tx[s] /\ writes'[s] = writes[s]
      BY <2>2 DEF Inv, TypeOK
    <3>2. Call(s)'
      BY <3>1, CallFrame DEF Inv
    <3>3. Stage(s)'
      BY <3>1, StageFrame DEF Inv, tables
    <3>4. RowLocked(s)'
      BY <3>1, NoRequestAssumption DEF Inv, RowLocked, TypeOK
    <3> QED
      BY <3>2, <3>3, <3>4
  <2> QED
    BY <2>1, <2>2
<1> QED
  BY <1>1, <1>2, <1>3 DEF Inv

LEMMA LockPartyStep ==
    ASSUME Inv, NEW r \in Requests, LockParty(r)
    PROVE  Inv'
<1> DEFINE p == tx[r].party
<1> DEFINE q == AfterLock(tx[r].op)
<1> DEFINE t == [tx[r] EXCEPT !.leader = leader[p]]
<1>1. /\ pc[r] = "lock" /\ pc' = [pc EXCEPT ![r] = q]
      /\ leader[p] \in Users /\ lock[p] = NoRequest
      /\ lock' = [lock EXCEPT ![p] = r]
      /\ tx' = [tx EXCEPT ![r] = t]
      /\ UNCHANGED <<tables, writes>>
  BY DEF LockParty, Step, RowFree, Live
<1>2. /\ tx[r] \in Tx /\ writes[r] \in Writes /\ p \in Parties
      /\ tx[r].op \in Ops /\ tx[r].at # 0 /\ writes[r] = NoWrites
      /\ tx[r].op \in {"SendInvite", "StepDown"} => tx[r].target \in Users
  BY <1>1 DEF Inv, TypeOK, Call
<1>3. /\ q \in {"checkMember", "lookup", "leave", "countMembers", "commit"}
      /\ q \in {"checkMember", "countMembers"} => tx[r].op \in {"SendInvite", "StepDown"}
  BY <1>2 DEF AfterLock, Ops
<1>4. /\ t \in Tx /\ t.op = tx[r].op /\ t.party = p /\ t.actor = tx[r].actor
      /\ t.target = tx[r].target /\ t.at = tx[r].at /\ t.leader = leader[p]
  BY <1>1, <1>2 DEF Tx
<1> HIDE DEF t, q
<1>5. writes' = [writes EXCEPT ![r] = writes[r]]
  BY <1>1 DEF Inv, TypeOK
<1>6. pc'[r] = q /\ tx'[r] = t /\ writes'[r] = NoWrites
  BY <1>1, <1>2 DEF Inv, TypeOK
<1>7. SeenJoined(r)' = joined[p]
  <2>1. joined[p] \in [Users -> Nat] /\ joined' = joined
    BY <1>1, <1>2 DEF Inv, TypeOK, TablesTypeOK, tables
  <2> QED
    BY <1>4, <1>6, <2>1 DEF SeenJoined, NoWrites
<1>8. LedByMember(r)'
  BY <1>1, <1>2, <1>4, <1>6, <1>7
  DEF LedByMember, NewLeader, NoWrites, Members, Inv, LeaderIsMember, Live, tables
<1>9. Stage(r)'
  BY <1>1, <1>3, <1>4, <1>6, <1>8 DEF Stage, Outcome, NoWrites, Locked, tables
<1>10. q \in Locked /\ (q \in Targeting => t.target \in Users)
  BY <1>2, <1>3, <1>4 DEF Locked, Statements, Targeting
<1> QED
  BY <1>1, <1>2, <1>4, <1>5, <1>9, <1>10, AcquireStep

LEMMA CreateInsertPartyStep ==
    ASSUME Inv, NEW r \in Requests, CreateInsertParty(r)
    PROVE  Inv'
<1>1. PICK p \in Parties : /\ leader[p] = Unborn /\ lock[p] = NoRequest
                           /\ lock' = [lock EXCEPT ![p] = r]
                           /\ tx' = [tx EXCEPT ![r].party = p]
  BY DEF CreateInsertParty
<1> DEFINE t == [tx[r] EXCEPT !.party = p]
<1> DEFINE w == [writes[r] EXCEPT !.leader = tx[r].actor]
<1>2. /\ pc[r] = "insertParty" /\ pc' = [pc EXCEPT ![r] = "insertLeader"]
      /\ writes' = [writes EXCEPT ![r] = w] /\ tx' = [tx EXCEPT ![r] = t]
      /\ UNCHANGED tables
  BY <1>1 DEF CreateInsertParty, Step
<1>3. /\ tx[r] \in Tx /\ writes[r] = NoWrites /\ tx[r].actor \in Users
  BY <1>2 DEF Inv, TypeOK, Call
<1>4. /\ t \in Tx /\ t.op = tx[r].op /\ t.party = p /\ t.actor = tx[r].actor
      /\ t.target = tx[r].target /\ t.at = tx[r].at
  BY <1>3 DEF Tx
<1>5. /\ w \in Writes /\ w.leader = tx[r].actor /\ w.leaves = {} /\ w.deleted = FALSE
  <2>1. writes[r] \in Writes /\ writes[r].leaves = {} /\ writes[r].deleted = FALSE
    BY <1>3, NoMemoryTyped DEF NoWrites
  <2> QED
    BY <1>3, <2>1 DEF Writes
<1> HIDE DEF t, w
<1>6. pc'[r] = "insertLeader" /\ tx'[r] = t /\ writes'[r] = w
  BY <1>2 DEF Inv, TypeOK
<1>7. Stage(r)'
  BY <1>1, <1>2, <1>4, <1>5, <1>6 DEF Stage, Locked, tables
<1>8. "insertLeader" \in Locked /\ "insertLeader" \notin Targeting
  BY DEF Locked, Statements, Targeting
<1> QED
  BY <1>1, <1>2, <1>4, <1>5, <1>7, <1>8, AcquireStep

-----------------------------------------------------------------------------
(* Statements under the lock.                                              *)

\* The statements at which a call has not yet touched its party's leadership.
Early == Locked \ {"insertLeader", "succeed", "count", "commit"}

\* A statement that writes no leader and removes no membership leads to
\* another such statement or to a commit that leaves the leader in place.
LEMMA EarlyStep ==
    ASSUME Inv, UNCHANGED <<tables, lock>>,
           NEW r \in Requests, NEW q \in (Early \ {"handOver"}) \cup {"commit"},
           NEW t \in Tx, NEW w \in Writes,
           pc[r] \in Early,
           pc' = [pc EXCEPT ![r] = q],
           tx' = [tx EXCEPT ![r] = t],
           writes' = [writes EXCEPT ![r] = w],
           t.op = tx[r].op, t.party = tx[r].party, t.actor = tx[r].actor,
           t.target = tx[r].target, t.at = tx[r].at, t.leader = tx[r].leader,
           w.leader = writes[r].leader, w.leaves = writes[r].leaves,
           w.deleted = writes[r].deleted,
           q \in Targeting => t.target \in Users
    PROVE  Inv'
<1>1. pc[r] \in Locked /\ q \in Locked
  BY DEF Early, Locked, Statements
<1>2. pc'[r] = q /\ tx'[r] = t /\ writes'[r] = w
  BY DEF Inv, TypeOK
<1>3. /\ writes[r].leader = NoUser /\ writes[r].leaves = {} /\ writes[r].deleted = FALSE
      /\ leader[tx[r].party] \in Users /\ tx[r].leader = leader[tx[r].party]
  BY DEF Inv, Stage, Early
<1>4. tx[r].party \in Parties /\ tx[r].at # 0
  BY <1>1, SeenTyped
<1>5. joined[tx[r].party][leader[tx[r].party]] # 0
  BY <1>3, <1>4 DEF Inv, LeaderIsMember, Live
<1>6. LedByMember(r)'
  BY <1>2, <1>3, <1>4, <1>5 DEF LedByMember, NewLeader, Members, SeenJoined, tables
<1>7. Stage(r)'
  BY <1>2, <1>3, <1>6 DEF Stage, Outcome, Early, Locked, tables
<1> QED
  BY <1>1, <1>7, LocalStep

\* The statements that only read.
LEMMA EarlyReadStep ==
    ASSUME Inv, NEW r \in Requests, ReadOnly,
           NEW q \in (Early \ {"handOver"}) \cup {"commit"},
           pc[r] \in Early, pc' = [pc EXCEPT ![r] = q],
           q \in Targeting => tx[r].target \in Users
    PROVE  Inv'
<1>1. tx[r] \in Tx /\ writes[r] \in Writes
  BY DEF Inv, TypeOK
<1>2. tx' = [tx EXCEPT ![r] = tx[r]] /\ writes' = [writes EXCEPT ![r] = writes[r]]
  BY DEF Inv, TypeOK, ReadOnly
<1>3. UNCHANGED <<tables, lock>>
  BY DEF ReadOnly
<1> QED
  BY <1>1, <1>2, <1>3, EarlyStep

\* The statements that insert a row.
LEMMA EarlyWriteStep ==
    ASSUME Inv, NEW r \in Requests, NEW w \in Writes, Write(r, w),
           NEW q \in (Early \ {"handOver"}) \cup {"commit"},
           pc[r] \in Early, pc' = [pc EXCEPT ![r] = q],
           w.leader = writes[r].leader, w.leaves = writes[r].leaves,
           w.deleted = writes[r].deleted,
           q \in Targeting => tx[r].target \in Users
    PROVE  Inv'
<1>1. tx[r] \in Tx
  BY DEF Inv, TypeOK
<1>2. tx' = [tx EXCEPT ![r] = tx[r]] /\ writes' = [writes EXCEPT ![r] = w]
  BY DEF Inv, TypeOK, Write
<1>3. UNCHANGED <<tables, lock>>
  BY DEF Write
<1> QED
  BY <1>1, <1>2, <1>3, EarlyStep

LEMMA InsertMembershipStep ==
    ASSUME Inv, NEW r \in Requests, NEW u \in Users, InsertMembership(r, u),
           NEW q \in {"accept", "commit"},
           pc[r] \in Early, pc' = [pc EXCEPT ![r] = q]
    PROVE  Inv'
<1> DEFINE w == [writes[r] EXCEPT !.joins = @ \cup {u}]
<1>1. Write(r, w)
  BY DEF InsertMembership
<1>2. writes[r] \in Writes
  BY DEF Inv, TypeOK
<1>3. w \in Writes /\ w.leader = writes[r].leader /\ w.leaves = writes[r].leaves
      /\ w.deleted = writes[r].deleted
  BY <1>2 DEF Writes
<1>4. q \in (Early \ {"handOver"}) \cup {"commit"} /\ q \notin Targeting
  BY DEF Early, Locked, Statements, Targeting
<1> HIDE DEF w
<1> QED
  BY <1>1, <1>3, <1>4, EarlyWriteStep

LEMMA InviteRowsStep ==
    ASSUME Inv, NEW r \in Requests, NEW rows \in SUBSET Invite,
           Write(r, [writes[r] EXCEPT !.invites = @ \cup rows]),
           NEW q \in {"joinFriend", "commit"},
           pc[r] \in Early, pc' = [pc EXCEPT ![r] = q],
           q = "joinFriend" => tx[r].target \in Users
    PROVE  Inv'
<1> DEFINE w == [writes[r] EXCEPT !.invites = @ \cup rows]
<1>1. Write(r, w)
  OBVIOUS
<1>2. writes[r] \in Writes
  BY DEF Inv, TypeOK
<1>3. w \in Writes /\ w.leader = writes[r].leader /\ w.leaves = writes[r].leaves
      /\ w.deleted = writes[r].deleted
  BY <1>2 DEF Writes
<1>4. /\ q \in (Early \ {"handOver"}) \cup {"commit"}
      /\ q \in Targeting => tx[r].target \in Users
  BY DEF Early, Locked, Statements, Targeting
<1> HIDE DEF w
<1> QED
  BY <1>1, <1>3, <1>4, EarlyWriteStep

LEMMA SendStep ==
    ASSUME Inv, NEW r \in Requests,
           \/ SendCheckMember(r) \/ SendCheckPending(r) \/ SendReadTarget(r)
           \/ SendInsertPending(r) \/ SendInsertAccepted(r) \/ SendInsertMembership(r)
    PROVE  Inv'
<1> USE DEF Step, Early, Locked, Statements, Targeting
<1>1. pc[r] \in Targeting => tx[r].target \in Users
  BY DEF Inv, Call
<1>2. CASE SendCheckMember(r)
  BY <1>1, <1>2, EarlyReadStep DEF SendCheckMember
<1>3. CASE SendCheckPending(r)
  BY <1>1, <1>3, EarlyReadStep DEF SendCheckPending
<1>4. CASE SendReadTarget(r)
  BY <1>1, <1>4, EarlyReadStep DEF SendReadTarget
<1>5. ASSUME NEW status \in Statuses, InsertInvite(r, status), tx[r].target \in Users
      PROVE  \E rows \in SUBSET Invite : Write(r, [writes[r] EXCEPT !.invites = @ \cup rows])
  <2>1. PICK i \in InviteIds : Write(r, [writes[r] EXCEPT !.invites = @ \cup
                         {[id |-> i, user |-> tx[r].target, status |-> status]}])
    BY <1>5 DEF InsertInvite
  <2>2. {[id |-> i, user |-> tx[r].target, status |-> status]} \in SUBSET Invite
    BY <1>5 DEF Invite
  <2> QED
    BY <2>1, <2>2
<1>6. CASE SendInsertPending(r)
  BY <1>1, <1>5, <1>6, InviteRowsStep DEF SendInsertPending, Statuses
<1>7. CASE SendInsertAccepted(r)
  BY <1>1, <1>5, <1>7, InviteRowsStep DEF SendInsertAccepted, Statuses
<1>8. CASE SendInsertMembership(r)
  BY <1>1, <1>8, InsertMembershipStep DEF SendInsertMembership
<1> QED
  BY <1>2, <1>3, <1>4, <1>6, <1>7, <1>8

LEMMA AnswerStep ==
    ASSUME Inv, NEW r \in Requests,
           \/ AcceptLookup(r) \/ AcceptInsertMembership(r) \/ AcceptUpdateInvite(r)
           \/ RejectLookup(r) \/ RejectUpdateInvite(r)
    PROVE  Inv'
<1>1. ASSUME NEW q \in {"join", "reject"}, LookupInvite(r, q)
      PROVE  Inv'
  <2>1. PICK i \in PendingFor(SeenInvites(r), tx[r].actor) : tx' = [tx EXCEPT ![r].invite = i.id]
    BY <1>1 DEF LookupInvite
  <2> DEFINE t == [tx[r] EXCEPT !.invite = i.id]
  <2>2. /\ pc[r] = "lookup" /\ pc' = [pc EXCEPT ![r] = q]
        /\ UNCHANGED <<tables, lock, writes>> /\ tx' = [tx EXCEPT ![r] = t]
    BY <1>1, <2>1 DEF LookupInvite, Step
  <2>3. pc[r] \in Early /\ pc[r] \in Locked
    BY <2>2 DEF Early, Locked, Statements
  <2>4. i.id \in InviteIds
    BY <2>3, SeenTyped DEF PendingFor, Invite
  <2>5. tx[r] \in Tx /\ writes[r] \in Writes
    BY DEF Inv, TypeOK
  <2>6. /\ t \in Tx /\ t.op = tx[r].op /\ t.party = tx[r].party /\ t.actor = tx[r].actor
        /\ t.target = tx[r].target /\ t.at = tx[r].at /\ t.leader = tx[r].leader
    BY <2>4, <2>5 DEF Tx
  <2>7. writes' = [writes EXCEPT ![r] = writes[r]]
    BY <2>2 DEF Inv, TypeOK
  <2>8. q \in (Early \ {"handOver"}) \cup {"commit"} /\ q \notin Targeting
    BY DEF Early, Locked, Statements, Targeting
  <2> HIDE DEF t
  <2> QED
    BY <2>2, <2>3, <2>5, <2>6, <2>7, <2>8, EarlyStep
<1>2. ASSUME NEW status \in Statuses, UpdateInvite(r, status),
             pc[r] \in {"accept", "reject"}, pc' = [pc EXCEPT ![r] = "commit"]
      PROVE  Inv'
  <2> DEFINE rows == {[i EXCEPT !.status = status] :
                         i \in {row \in SeenInvites(r) : row.id = tx[r].invite}}
  <2>1. pc[r] \in Early /\ pc[r] \in Locked
    BY <1>2 DEF Early, Locked, Statements
  <2>2. rows \in SUBSET Invite
    BY <2>1, SeenTyped DEF Invite
  <2>3. Write(r, [writes[r] EXCEPT !.invites = @ \cup rows])
    BY <1>2 DEF UpdateInvite
  <2> HIDE DEF rows
  <2> QED
    BY <1>2, <2>1, <2>2, <2>3, InviteRowsStep
<1>3. CASE AcceptLookup(r) \/ RejectLookup(r)
  BY <1>1, <1>3 DEF AcceptLookup, RejectLookup
<1>4. CASE AcceptInsertMembership(r)
  <2>1. pc[r] = "join" /\ pc' = [pc EXCEPT ![r] = "accept"] /\ InsertMembership(r, tx[r].actor)
    BY <1>4 DEF AcceptInsertMembership, Step
  <2>2. pc[r] \in Early /\ tx[r].actor \in Users
    BY <2>1 DEF Inv, Call, Early, Locked, Statements
  <2> QED
    BY <2>1, <2>2, InsertMembershipStep
<1>5. CASE AcceptUpdateInvite(r)
  BY <1>2, <1>5 DEF AcceptUpdateInvite, Step, Statuses
<1>6. CASE RejectUpdateInvite(r)
  BY <1>2, <1>6 DEF RejectUpdateInvite, Step, Statuses
<1> QED
  BY <1>3, <1>4, <1>5, <1>6

\* A statement that writes rows other than an insert: the next stage is shown
\* where the lemma is used.
LEMMA LockedWriteStep ==
    ASSUME Inv, NEW r \in Requests, NEW w \in Writes, Write(r, w),
           NEW q \in Locked \ Targeting,
           pc[r] \in Locked, pc' = [pc EXCEPT ![r] = q], Stage(r)'
    PROVE  Inv'
<1>1. tx[r] \in Tx
  BY DEF Inv, TypeOK
<1>2. tx' = [tx EXCEPT ![r] = tx[r]] /\ writes' = [writes EXCEPT ![r] = w]
  BY DEF Inv, TypeOK, Write
<1>3. UNCHANGED <<tables, lock>>
  BY DEF Write
<1> QED
  BY <1>1, <1>2, <1>3, LocalStep

LEMMA CreateInsertLeaderStep ==
    ASSUME Inv, NEW r \in Requests, CreateInsertLeader(r)
    PROVE  Inv'
<1> DEFINE w == [writes[r] EXCEPT !.joins = @ \cup {tx[r].actor}]
<1>1. /\ pc[r] = "insertLeader" /\ pc' = [pc EXCEPT ![r] = "commit"] /\ Write(r, w)
  BY DEF CreateInsertLeader, Step, InsertMembership
<1>2. pc[r] \in Locked /\ "commit" \in Locked \ Targeting
  BY <1>1 DEF Locked, Statements, Targeting
<1>3. tx[r].actor \in Users /\ tx[r].at # 0 /\ writes[r] \in Writes
  BY <1>2, SeenTyped
<1>4. writes[r].leader = tx[r].actor /\ writes[r].leaves = {} /\ writes[r].deleted = FALSE
  BY <1>1 DEF Inv, Stage
<1>5. w \in Writes /\ w.leader = tx[r].actor /\ w.leaves = {} /\ w.deleted = FALSE
      /\ tx[r].actor \in w.joins
  BY <1>3, <1>4 DEF Writes
<1> HIDE DEF w
<1>6. pc'[r] = "commit" /\ tx'[r] = tx[r] /\ writes'[r] = w
  BY <1>1 DEF Inv, TypeOK, Write
<1>7. LedByMember(r)'
  BY <1>3, <1>5, <1>6, NoUserAssumption DEF LedByMember, NewLeader, Members, SeenJoined
<1>8. Stage(r)'
  BY <1>5, <1>6, <1>7 DEF Stage, Outcome
<1> QED
  BY <1>1, <1>2, <1>5, <1>8, LockedWriteStep

LEMMA LeaveDeleteStep ==
    ASSUME Inv, NEW r \in Requests, LeaveDeleteMembership(r)
    PROVE  Inv'
<1> DEFINE a == tx[r].actor
<1> DEFINE w == [writes[r] EXCEPT !.leaves = {a}]
<1>1. PICK q \in {"succeed", "count"} :
         /\ pc[r] = "leave" /\ pc' = [pc EXCEPT ![r] = q] /\ Write(r, w)
         /\ q = "succeed" <=> tx[r].leader = a
  BY DEF LeaveDeleteMembership, Step
<1>2. pc[r] \in Locked /\ q \in Locked \ Targeting
  BY <1>1 DEF Locked, Statements, Targeting
<1>3. a \in Users /\ tx[r].at # 0 /\ writes[r] \in Writes /\ tx[r].party \in Parties
  BY <1>2, SeenTyped
<1>4. /\ writes[r].leader = NoUser /\ writes[r].deleted = FALSE
      /\ leader[tx[r].party] \in Users /\ tx[r].leader = leader[tx[r].party]
  BY <1>1, <1>2 DEF Inv, Stage
<1>5. w \in Writes /\ w.leader = NoUser /\ w.leaves = {a} /\ w.deleted = FALSE
  BY <1>3, <1>4 DEF Writes
<1> HIDE DEF w
<1>6. pc'[r] = q /\ tx'[r] = tx[r] /\ writes'[r] = w /\ leader' = leader /\ joined' = joined
  BY <1>1 DEF Inv, TypeOK, Write, tables
<1>7. CASE q = "succeed"
  <2>1. Stage(r)'
    BY <1>1, <1>4, <1>5, <1>6, <1>7 DEF Stage
  <2> QED
    BY <1>1, <1>2, <1>5, <2>1, LockedWriteStep
<1>8. CASE q = "count"
  <2>1. joined[tx[r].party][leader[tx[r].party]] # 0
    BY <1>3, <1>4 DEF Inv, LeaderIsMember, Live
  <2>2. LedByMember(r)'
    BY <1>1, <1>3, <1>4, <1>5, <1>6, <1>8, <2>1 DEF LedByMember, NewLeader, Members, SeenJoined
  <2>3. Stage(r)'
    BY <1>5, <1>6, <1>8, <2>2 DEF Stage
  <2> QED
    BY <1>1, <1>2, <1>5, <2>3, LockedWriteStep
<1> QED
  BY <1>7, <1>8

LEMMA LeaveFindStep ==
    ASSUME Inv, NEW r \in Requests, LeaveFindSuccessor(r)
    PROVE  Inv'
<1>1. pc[r] = "succeed" /\ pc' = [pc EXCEPT ![r] = "count"]
  BY DEF LeaveFindSuccessor, Step
<1>2. pc[r] \in Locked /\ "count" \in Locked \ Targeting
  BY <1>1 DEF Locked, Statements, Targeting
<1>3. tx[r] \in Tx /\ writes[r] \in Writes
  BY <1>2, SeenTyped
<1>4. writes[r].deleted = FALSE
  BY <1>1 DEF Inv, Stage
<1>5. ASSUME NEW s \in Users, Earliest(SeenJoined(r), s),
             Write(r, [writes[r] EXCEPT !.leader = s])
      PROVE  Inv'
  <2> DEFINE w == [writes[r] EXCEPT !.leader = s]
  <2>1. w \in Writes /\ w.leader = s /\ w.leaves = writes[r].leaves
        /\ w.joins = writes[r].joins /\ w.deleted = FALSE
    BY <1>3, <1>4 DEF Writes
  <2>2. Write(r, w)
    BY <1>5
  <2> HIDE DEF w
  <2>3. pc'[r] = "count" /\ tx'[r] = tx[r] /\ writes'[r] = w /\ joined' = joined
    BY <1>1, <2>2 DEF Inv, TypeOK, Write, tables
  <2>4. SeenJoined(r)' = SeenJoined(r)
    BY <2>1, <2>3 DEF SeenJoined
  <2>5. s \in Members(SeenJoined(r))'
    BY <1>5, <2>4 DEF Earliest, Members
  <2>6. LedByMember(r)'
    BY <2>1, <2>3, <2>5, NoUserAssumption DEF LedByMember, NewLeader
  <2>7. Stage(r)'
    BY <2>1, <2>3, <2>6 DEF Stage
  <2> QED
    BY <1>1, <1>2, <2>1, <2>2, <2>7, LockedWriteStep
<1>6. ASSUME Members(SeenJoined(r)) = {}, ReadOnly
      PROVE  Inv'
  <2>1. /\ writes' = [writes EXCEPT ![r] = writes[r]] /\ Write(r, writes[r])
    BY <1>6 DEF Inv, TypeOK, ReadOnly, Write
  <2>2. pc'[r] = "count" /\ tx'[r] = tx[r] /\ writes'[r] = writes[r] /\ joined' = joined
    BY <1>1, <1>6 DEF Inv, TypeOK, ReadOnly, tables
  <2>3. Members(SeenJoined(r))' = {}
    BY <1>6, <2>2 DEF SeenJoined, Members
  <2>4. Stage(r)'
    BY <1>4, <2>2, <2>3 DEF Stage
  <2> QED
    BY <1>1, <1>2, <1>3, <2>1, <2>4, LockedWriteStep
<1> QED
  BY <1>5, <1>6 DEF LeaveFindSuccessor

LEMMA LeaveCountStep ==
    ASSUME Inv, NEW r \in Requests, LeaveCountRemaining(r)
    PROVE  Inv'
<1> DEFINE empty == Members(SeenJoined(r)) = {}
<1> DEFINE w == [writes[r] EXCEPT !.deleted = empty]
<1>1. pc[r] = "count" /\ pc' = [pc EXCEPT ![r] = "commit"] /\ Write(r, w)
  BY DEF LeaveCountRemaining, Step
<1>2. pc[r] \in Locked /\ "commit" \in Locked \ Targeting
  BY <1>1 DEF Locked, Statements, Targeting
<1>3. tx[r] \in Tx /\ writes[r] \in Writes
  BY <1>2, SeenTyped
<1>4. LedByMember(r) \/ empty
  BY <1>1 DEF Inv, Stage
<1>5. empty \in BOOLEAN
  OBVIOUS
<1>6. /\ w \in Writes /\ w.leader = writes[r].leader /\ w.leaves = writes[r].leaves
      /\ w.joins = writes[r].joins /\ w.deleted = empty
  <2> HIDE DEF empty
  <2> QED
    BY <1>3, <1>5 DEF Writes
<1> HIDE DEF w
<1>7. /\ pc'[r] = "commit" /\ tx'[r] = tx[r] /\ writes'[r] = w
      /\ leader' = leader /\ joined' = joined
  BY <1>1 DEF Inv, TypeOK, Write, tables
<1>8. SeenJoined(r)' = SeenJoined(r) /\ NewLeader(r)' = NewLeader(r)
  BY <1>6, <1>7 DEF SeenJoined, NewLeader
<1>9. Outcome(r)'
  BY <1>4, <1>6, <1>7, <1>8 DEF Outcome, LedByMember, Members
<1>10. Stage(r)'
  BY <1>7, <1>9 DEF Stage
<1> HIDE DEF empty
<1> QED
  BY <1>1, <1>2, <1>6, <1>10, LockedWriteStep

LEMMA StepDownStep ==
    ASSUME Inv, NEW r \in Requests,
           StepDownCountMembers(r) \/ StepDownCheckTarget(r) \/ StepDownUpdateLeader(r)
    PROVE  Inv'
<1>1. pc[r] \in Targeting => tx[r].target \in Users
  BY DEF Inv, Call, Targeting
<1>2. CASE StepDownCountMembers(r)
  BY <1>1, <1>2, EarlyReadStep DEF StepDownCountMembers, Step, Early, Locked, Statements, Targeting
<1>3. CASE StepDownCheckTarget(r)
  <2>1. /\ pc[r] = "checkTarget" /\ pc' = [pc EXCEPT ![r] = "handOver"] /\ ReadOnly
        /\ tx[r].target \in Members(SeenJoined(r))
    BY <1>3 DEF StepDownCheckTarget, Step
  <2>2. pc[r] \in Locked /\ "handOver" \in Locked /\ pc[r] \in Targeting
    BY <2>1 DEF Locked, Statements, Targeting
  <2>3. tx[r] \in Tx /\ writes[r] \in Writes
    BY <2>2, SeenTyped
  <2>4. /\ tx' = [tx EXCEPT ![r] = tx[r]] /\ writes' = [writes EXCEPT ![r] = writes[r]]
        /\ UNCHANGED <<tables, lock>> /\ joined' = joined /\ leader' = leader
    BY <2>1 DEF Inv, TypeOK, ReadOnly, tables
  <2>5. pc'[r] = "handOver" /\ tx'[r] = tx[r] /\ writes'[r] = writes[r]
    BY <2>1, <2>4 DEF Inv, TypeOK
  <2>6. tx[r].target \in Members(SeenJoined(r))'
    BY <2>1, <2>4, <2>5 DEF Members, SeenJoined
  <2>7. Stage(r)'
    BY <2>1, <2>4, <2>5, <2>6 DEF Inv, Stage, Locked, Statements
  <2> QED
    BY <1>1, <2>1, <2>2, <2>3, <2>4, <2>7, LocalStep
<1>4. CASE StepDownUpdateLeader(r)
  <2> DEFINE w == [writes[r] EXCEPT !.leader = tx[r].target]
  <2>1. pc[r] = "handOver" /\ pc' = [pc EXCEPT ![r] = "commit"] /\ Write(r, w)
    BY <1>4 DEF StepDownUpdateLeader, Step
  <2>2. pc[r] \in Locked /\ "commit" \in Locked \ Targeting /\ tx[r].target \in Users
    BY <1>1, <2>1 DEF Locked, Statements, Targeting
  <2>3. tx[r] \in Tx /\ writes[r] \in Writes
    BY <2>2, SeenTyped
  <2>4. writes[r].deleted = FALSE /\ tx[r].target \in Members(SeenJoined(r))
    BY <2>1, <2>2 DEF Inv, Stage
  <2>5. /\ w \in Writes /\ w.leader = tx[r].target /\ w.leaves = writes[r].leaves
        /\ w.joins = writes[r].joins /\ w.deleted = FALSE
    BY <2>2, <2>3, <2>4 DEF Writes
  <2> HIDE DEF w
  <2>6. pc'[r] = "commit" /\ tx'[r] = tx[r] /\ writes'[r] = w /\ joined' = joined
    BY <2>1 DEF Inv, TypeOK, Write, tables
  <2>7. tx[r].target \in Members(SeenJoined(r))'
    BY <2>4, <2>5, <2>6 DEF Members, SeenJoined
  <2>8. LedByMember(r)'
    BY <2>2, <2>5, <2>6, <2>7, NoUserAssumption DEF LedByMember, NewLeader
  <2>9. Stage(r)'
    BY <2>5, <2>6, <2>8 DEF Stage, Outcome
  <2> QED
    BY <2>1, <2>2, <2>5, <2>9, LockedWriteStep
<1> QED
  BY <1>2, <1>3, <1>4

-----------------------------------------------------------------------------
(* The theorems.                                                           *)

\* Sign-ins, friend rows and the clock touch no party.
LEMMA UsersStepInv == Inv /\ UsersStep => Inv'
<1> SUFFICES ASSUME Inv, UsersStep PROVE Inv'
  OBVIOUS
<1>1. /\ UNCHANGED <<lock, pc, tx, writes>>
      /\ leader' = leader /\ joined' = joined /\ invites' = invites
  BY DEF UsersStep, UpsertUser, UpsertFriend, Tick
<1>2. users' \in [Users -> Standings] /\ clock' \in Nat /\ clock' # 0
  <2>1. users \in [Users -> Standings] /\ clock \in Nat /\ clock # 0
    BY DEF Inv, TypeOK, TablesTypeOK
  <2>2. ASSUME NEW u \in Users, UpsertUser(u) \/ UpsertFriend(u)
        PROVE  users' \in [Users -> Standings] /\ clock' = clock
    BY <2>1, <2>2 DEF UpsertUser, UpsertFriend, Standings
  <2>3. CASE Tick
    BY <2>1, <2>3 DEF Tick
  <2> QED
    BY <2>1, <2>2, <2>3 DEF UsersStep
<1>3. TypeOK' /\ LeaderIsMember' /\ NoOrphanRows'
  BY <1>1, <1>2 DEF Inv, TypeOK, TablesTypeOK, LeaderIsMember, NoOrphanRows, Live
<1>4. ASSUME NEW s \in Requests PROVE Call(s)' /\ RowLocked(s)' /\ Stage(s)'
  BY <1>1, CallFrame, StageFrame DEF Inv, RowLocked
<1> QED
  BY <1>2, <1>3, <1>4 DEF Inv

\* Inv is inductive.
LEMMA NextInv == Inv /\ [Next]_vars => Inv'
<1> SUFFICES ASSUME Inv, [Next]_vars PROVE Inv'
  OBVIOUS
<1>1. CASE UsersStep
  BY <1>1, UsersStepInv
<1>2. ASSUME NEW r \in Requests, NEW op \in Ops, NEW p \in Parties \cup {Unborn},
             NEW a \in Users, NEW t \in Users \cup {NoUser}, Begin(r, op, p, a, t)
      PROVE  Inv'
  BY <1>2, BeginStep
<1>3. ASSUME NEW r \in Requests, Statement(r) PROVE Inv'
  BY <1>3, LockPartyStep, RollbackStep, CommitStep, CreateInsertPartyStep,
     CreateInsertLeaderStep, SendStep, AnswerStep, LeaveDeleteStep, LeaveFindStep,
     LeaveCountStep, StepDownStep DEF Statement
<1>4. ASSUME NEW r \in Requests, Fail(r) PROVE Inv'
  BY <1>4, RollbackStep
<1>5. CASE UNCHANGED vars
  <2>1. UNCHANGED <<lock, pc, tx, writes>> /\ UNCHANGED tables
    BY <1>5 DEF vars, tables
  <2>2. TypeOK' /\ clock' # 0 /\ LeaderIsMember' /\ NoOrphanRows'
    BY <2>1 DEF Inv, TypeOK, TablesTypeOK, tables, LeaderIsMember, NoOrphanRows, Live
  <2>3. ASSUME NEW s \in Requests PROVE Call(s)' /\ RowLocked(s)' /\ Stage(s)'
    BY <2>1, CallFrame, StageFrame DEF Inv, RowLocked, tables
  <2> QED
    BY <2>2, <2>3 DEF Inv
<1> QED
  BY <1>1, <1>2, <1>3, <1>4, <1>5 DEF Next

\* The rows, the locks and every transaction's memory keep their types.
THEOREM TypeCorrect == Spec => []TypeOK
<1>1. Inv => TypeOK
  BY DEF Inv
<1> QED
  BY InitInv, NextInv, <1>1, PTL DEF Spec

\* Whatever the requests do at once and wherever they fail, a live party is led
\* by one of its members.
THEOREM AlwaysLedByMember == Spec => []LeaderIsMember
<1>1. Inv => LeaderIsMember
  BY DEF Inv
<1> QED
  BY InitInv, NextInv, <1>1, PTL DEF Spec

\* A party that was never committed, or was deleted, has no members and no
\* invites: nothing that raced the last leave has brought a row back.
THEOREM NeverOrphanRows == Spec => []NoOrphanRows
<1>1. Inv => NoOrphanRows
  BY DEF Inv
<1> QED
  BY InitInv, NextInv, <1>1, PTL DEF Spec

=============================================================================
