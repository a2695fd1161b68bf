----------------------- MODULE PartyRefinement_proofs -----------------------
(***************************************************************************)
(* PartyStore implements Party, for any users, parties, invites and        *)
(* requests: every statement but the commit is hidden from the committed   *)
(* rows, and every commit is one step of Party.  With the refinement, what *)
(* the atomic calls of Party keep true of the rows is true of PartyStore.  *)
(*                                                                         *)
(* The argument: a request past its row lock is the only one that can      *)
(* change its party's rows, so what each of its statements has found stays *)
(* true until the commit (Progress); at the commit, what it has found and  *)
(* written is what one of the calls of Party requires and does (Effect).   *)
(***************************************************************************)
EXTENDS PartyStore_proofs

\* The rows written are these, and no party is deleted.
Wrote(w, l, js, ls, is) ==
    /\ w.leader = l /\ w.joins = js /\ w.leaves = ls
    /\ w.invites = is /\ w.deleted = FALSE

Row(i, u, status) == [id |-> i, user |-> u, status |-> status]

\* The members that r's LeaveParty leaves behind.
Rest(r) == [joined[tx[r].party] EXCEPT ![tx[r].actor] = 0]

\* What a commit of r writes, and what has been found for it to be written:
\* one of these for each call of Party.
Creating(r) ==
    LET p == tx[r].party  a == tx[r].actor
    IN  /\ leader[p] = Unborn
        /\ Wrote(writes[r], a, {a}, {}, {})

Inviting(r) ==
    LET p == tx[r].party  t == tx[r].target
    IN  /\ leader[p] = tx[r].actor /\ t \in Users /\ users[t] = "signedIn"
        /\ joined[p][t] = 0 /\ PendingFor(invites[p], t) = {}
        /\ \E i \in InviteIds :
              /\ P!FreshInvite(p, i)
              /\ Wrote(writes[r], NoUser, {}, {}, {Row(i, t, "pending")})

Adding(r) ==
    LET p == tx[r].party  t == tx[r].target
    IN  /\ leader[p] = tx[r].actor /\ t \in Users /\ users[t] # "unknown"
        /\ joined[p][t] = 0 /\ PendingFor(invites[p], t) = {}
        /\ \E i \in InviteIds :
              /\ P!FreshInvite(p, i)
              /\ Wrote(writes[r], NoUser, {t}, {}, {Row(i, t, "accepted")})

Accepting(r) ==
    LET p == tx[r].party  a == tx[r].actor
    IN  /\ joined[p][a] = 0
        /\ \E i \in PendingFor(invites[p], a) :
              Wrote(writes[r], NoUser, {a}, {}, {[i EXCEPT !.status = "accepted"]})

Rejecting(r) ==
    \E i \in PendingFor(invites[tx[r].party], tx[r].actor) :
        Wrote(writes[r], NoUser, {}, {}, {[i EXCEPT !.status = "rejected"]})

Leaving(r) ==
    LET p == tx[r].party  a == tx[r].actor  w == writes[r]
    IN  /\ leader[p] \in Users /\ Members(Rest(r)) # {}
        /\ Wrote(w, w.leader, {}, {a}, {})
        /\ \/ leader[p] # a /\ w.leader = NoUser
           \/ leader[p] = a /\ Earliest(Rest(r), w.leader)

Disbanding(r) ==
    /\ leader[tx[r].party] \in Users
    /\ Members(Rest(r)) = {}
    /\ writes[r].deleted = TRUE

HandingOver(r) ==
    LET p == tx[r].party  a == tx[r].actor  t == tx[r].target
    IN  /\ leader[p] = a /\ t \in Users /\ joined[p][t] # 0
        /\ \E other \in Members(joined[p]) : other # a
        /\ Wrote(writes[r], t, {}, {}, {})

Effect(r) ==
    \/ Creating(r) \/ Inviting(r) \/ Adding(r) \/ Accepting(r)
    \/ Rejecting(r) \/ Leaving(r) \/ Disbanding(r) \/ HandingOver(r)

\* The statements before which nothing is written.
Reading == {"checkMember", "checkPending", "readTarget", "invite", "admit",
            "lookup", "join", "reject", "leave",
            "countMembers", "checkTarget", "handOver"}

\* The statements that only the leader's call reaches.
Leading == {"checkMember", "checkPending", "readTarget", "invite", "admit",
            "joinFriend", "countMembers", "checkTarget", "handOver", "succeed"}

\* r has written the friend's invite and not yet the membership.
Friended(r) ==
    \E i \in InviteIds :
        /\ P!FreshInvite(tx[r].party, i)
        /\ Wrote(writes[r], NoUser, {}, {}, {Row(i, tx[r].target, "accepted")})

\* r has looked up the actor's pending invite.
LookedUp(r) ==
    \E i \in PendingFor(invites[tx[r].party], tx[r].actor) : tx[r].invite = i.id

\* The leader is not the only member.
Accompanied(r) == \E other \in Members(joined[tx[r].party]) : other # tx[r].actor

\* r has deleted the membership, and the leader's successor is found.
Succeeded(r) ==
    LET p == tx[r].party  a == tx[r].actor  w == writes[r]
    IN  /\ leader[p] \in Users
        /\ Wrote(w, w.leader, {}, {a}, {})
        /\ \/ leader[p] # a /\ w.leader = NoUser
           \/ leader[p] = a /\ Earliest(Rest(r), w.leader)
           \/ Members(Rest(r)) = {}

\* What r has found and written before its next statement: in any call, in
\* SendInvite, in AcceptInvite and RejectInvite, and in the others.
AnyProgress(r) ==
    /\ pc[r] # "idle" => users[tx[r].actor] = "signedIn" /\ tx[r].at \in 1 .. clock
    /\ pc[r] = "lock" => tx[r].op # "CreateParty"
    /\ pc[r] \in Reading => writes[r] = NoWrites
    /\ pc[r] \in Leading => leader[tx[r].party] = tx[r].actor

SendProgress(r) ==
    LET p == tx[r].party  t == tx[r].target
    IN  /\ pc[r] \in {"checkPending", "readTarget", "invite", "admit", "joinFriend"} =>
               joined[p][t] = 0
        /\ pc[r] \in {"readTarget", "invite", "admit", "joinFriend"} =>
               PendingFor(invites[p], t) = {}
        /\ pc[r] = "invite" => users[t] = "signedIn"
        /\ pc[r] \in {"admit", "joinFriend"} => users[t] # "unknown"
        /\ pc[r] = "joinFriend" => Friended(r)

AnswerProgress(r) ==
    LET p == tx[r].party  a == tx[r].actor
    IN  /\ pc[r] \in {"join", "accept", "reject"} => LookedUp(r)
        /\ pc[r] \in {"join", "accept"} => joined[p][a] = 0
        /\ pc[r] = "accept" => Wrote(writes[r], NoUser, {a}, {}, {})

OtherProgress(r) ==
    LET p == tx[r].party  a == tx[r].actor
    IN  /\ pc[r] = "insertLeader" => Wrote(writes[r], a, {}, {}, {})
        /\ pc[r] = "succeed" => Wrote(writes[r], NoUser, {}, {a}, {})
        /\ pc[r] = "count" => Succeeded(r)
        /\ pc[r] \in {"checkTarget", "handOver"} => Accompanied(r)
        /\ pc[r] = "handOver" => joined[p][tx[r].target] # 0

Progress(r) ==
    /\ AnyProgress(r)
    /\ SendProgress(r)
    /\ AnswerProgress(r)
    /\ OtherProgress(r)
    /\ pc[r] = "commit" => Effect(r)

UniqueIds == \A p \in Parties : \A i, k \in invites[p] : i.id = k.id => i = k

RowsInv ==
    /\ UniqueIds
    /\ PendingInviteIsOpen
    /\ MembersWereInvited
    /\ OnlySignedInAreAsked

RefInv == Inv /\ RowsInv /\ \A r \in Requests : Progress(r)

-----------------------------------------------------------------------------
(* What the calls of Party keep true of the committed rows.                *)

\* Party is instantiated with the same rows, and its helpers mean the same.
LEMMA SameHelpers ==
    /\ P!tables = tables
    /\ \A p : P!Live(p) <=> Live(p)
    /\ \A j : P!Members(j) = Members(j)
    /\ \A j, u : P!Earliest(j, u) <=> Earliest(j, u)
    /\ \A rows, u : P!PendingFor(rows, u) = PendingFor(rows, u)
    /\ P!Unborn = Unborn /\ P!Gone = Gone
BY DEF P!tables, tables, P!Live, Live, P!Members, Members, P!Earliest, Earliest,
   P!PendingFor, PendingFor, P!Unborn, Unborn, P!Gone, Gone

LEMMA InitRows == Init => RowsInv
BY DEF Init, TablesInit, RowsInv, UniqueIds, PendingInviteIsOpen, MembersWereInvited,
   OnlySignedInAreAsked, Members

\* A row that is added to a party's invites.
LEMMA InviteAdded ==
    ASSUME TablesTypeOK, TablesTypeOK', RowsInv, NEW p \in Parties, NEW t \in Users,
           NEW i \in InviteIds, NEW status \in {"pending", "accepted"},
           P!FreshInvite(p, i), PendingFor(invites[p], t) = {}, joined[p][t] = 0,
           invites' = [invites EXCEPT ![p] = @ \cup {Row(i, t, status)}],
           status = "pending" => users[t] = "signedIn" /\ joined' = joined,
           \A q \in Parties : \A u \in Users :
               joined'[q][u] # joined[q][u] => q = p /\ u = t,
           users' = users
    PROVE  RowsInv'
<1> DEFINE new == Row(i, t, status)
<1>1. /\ \A q \in Parties : q # p => invites'[q] = invites[q]
      /\ invites'[p] = invites[p] \cup {new}
      /\ new.id = i /\ new.user = t /\ new.status = status
      /\ \A k \in invites[p] : k.id # i
  BY DEF TablesTypeOK, Row, P!FreshInvite
<1> HIDE DEF new
<1>2. UniqueIds'
  BY <1>1 DEF RowsInv, UniqueIds
<1>3. PendingInviteIsOpen'
  <2> SUFFICES ASSUME NEW q \in Parties, NEW k \in invites'[q], k.status = "pending"
               PROVE  PendingFor(invites'[q], k.user) = {k} /\ joined'[q][k.user] = 0
    BY DEF PendingInviteIsOpen, PendingFor
  <2>1. k.user \in Users
    BY DEF TablesTypeOK, Invite
  <2>2. CASE q # p
    BY <1>1, <2>1, <2>2 DEF RowsInv, PendingInviteIsOpen
  <2>3. CASE q = p /\ k = new
    BY <1>1, <2>3 DEF PendingFor
  <2>4. CASE q = p /\ k \in invites[p]
    <3>1. PendingFor(invites[p], k.user) = {k} /\ joined[p][k.user] = 0
      BY <2>4 DEF RowsInv, PendingInviteIsOpen
    <3>2. k.user # t
      BY <2>4 DEF PendingFor
    <3> QED
      BY <1>1, <2>1, <2>4, <3>1, <3>2 DEF PendingFor
  <2> QED
    BY <1>1, <2>2, <2>3, <2>4
<1>4. MembersWereInvited'
  <2> SUFFICES ASSUME NEW q \in Parties, NEW u \in Members(joined'[q]),
                      NEW v \in Members(joined'[q]), u # v
               PROVE  \E k \in invites'[q] : k.user \in {u, v} /\ k.status = "accepted"
    BY DEF MembersWereInvited, Members
  <2>1. CASE u \in Members(joined[q]) /\ v \in Members(joined[q])
    <3>1. PICK k \in invites[q] : k.user \in {u, v} /\ k.status = "accepted"
      BY <2>1 DEF RowsInv, MembersWereInvited
    <3> QED
      BY <1>1, <3>1
  <2>2. CASE ~(u \in Members(joined[q]) /\ v \in Members(joined[q]))
    <3>1. q = p /\ t \in {u, v} /\ status = "accepted"
      BY <2>2 DEF Members
    <3> QED
      BY <1>1, <3>1
  <2> QED
    BY <2>1, <2>2
<1>5. OnlySignedInAreAsked'
  BY <1>1 DEF RowsInv, OnlySignedInAreAsked
<1> QED
  BY <1>2, <1>3, <1>4, <1>5 DEF RowsInv

\* A pending row that is answered.
LEMMA InviteAnswered ==
    ASSUME TablesTypeOK, TablesTypeOK', RowsInv, NEW p \in Parties, NEW a \in Users,
           NEW i \in PendingFor(invites[p], a), NEW status \in {"accepted", "rejected"},
           invites' = [invites EXCEPT ![p] = (@ \ {i}) \cup {[i EXCEPT !.status = status]}],
           \A q \in Parties : \A u \in Users :
               joined'[q][u] # joined[q][u] => q = p /\ u = a /\ status = "accepted",
           users' = users
    PROVE  RowsInv'
<1> DEFINE new == [i EXCEPT !.status = status]
<1>0. i \in invites[p] /\ i.user = a /\ i.status = "pending" /\ i \in Invite
  BY DEF PendingFor, TablesTypeOK
<1>1. /\ \A q \in Parties : q # p => invites'[q] = invites[q]
      /\ invites'[p] = (invites[p] \ {i}) \cup {new}
      /\ new.id = i.id /\ new.user = a /\ new.status = status
      /\ PendingFor(invites[p], a) = {i}
  BY <1>0 DEF TablesTypeOK, Invite, RowsInv, PendingInviteIsOpen
<1> HIDE DEF new
<1>2. UniqueIds'
  BY <1>0, <1>1 DEF RowsInv, UniqueIds
<1>3. PendingInviteIsOpen'
  <2> SUFFICES ASSUME NEW q \in Parties, NEW k \in invites'[q], k.status = "pending"
               PROVE  PendingFor(invites'[q], k.user) = {k} /\ joined'[q][k.user] = 0
    BY DEF PendingInviteIsOpen, PendingFor
  <2>1. k.user \in Users
    BY DEF TablesTypeOK, Invite
  <2>2. CASE q # p
    BY <1>1, <2>1, <2>2 DEF RowsInv, PendingInviteIsOpen
  <2>3. CASE q = p
    <3>1. k \in invites[p] /\ k # i
      BY <1>1, <2>3
    <3>2. PendingFor(invites[p], k.user) = {k} /\ joined[p][k.user] = 0
      BY <3>1 DEF RowsInv, PendingInviteIsOpen
    <3>3. k.user # a
      BY <1>1, <3>1, <3>2
    <3> QED
      BY <1>1, <2>1, <2>3, <3>1, <3>2, <3>3 DEF PendingFor
  <2> QED
    BY <2>2, <2>3
<1>4. MembersWereInvited'
  <2> SUFFICES ASSUME NEW q \in Parties, NEW u \in Members(joined'[q]),
                      NEW v \in Members(joined'[q]), u # v
               PROVE  \E k \in invites'[q] : k.user \in {u, v} /\ k.status = "accepted"
    BY DEF MembersWereInvited, Members
  <2>1. CASE u \in Members(joined[q]) /\ v \in Members(joined[q])
    <3>1. PICK k \in invites[q] : k.user \in {u, v} /\ k.status = "accepted"
      BY <2>1 DEF RowsInv, MembersWereInvited
    <3> QED
      BY <1>0, <1>1, <3>1
  <2>2. CASE ~(u \in Members(joined[q]) /\ v \in Members(joined[q]))
    <3>1. q = p /\ a \in {u, v} /\ status = "accepted"
      BY <2>2 DEF Members
    <3> QED
      BY <1>1, <3>1
  <2> QED
    BY <2>1, <2>2
<1>5. OnlySignedInAreAsked'
  BY <1>1 DEF RowsInv, OnlySignedInAreAsked
<1> QED
  BY <1>2, <1>3, <1>4, <1>5 DEF RowsInv

\* The rows after a call of Party.
LEMMA CallKeepsRows ==
    ASSUME TablesTypeOK, TablesTypeOK', NoOrphanRows, RowsInv,
           NEW p \in Parties, NEW a \in Users, NEW t \in Users, P!PartyCall(p, a, t)
    PROVE  RowsInv'
<1>1. /\ leader \in [Parties -> Users \cup {Unborn, Gone}]
      /\ joined \in [Parties -> [Users -> Nat]]
      /\ invites \in [Parties -> SUBSET Invite]
  BY DEF TablesTypeOK
<1>2. CASE P!CreateParty(p, a)
  <2>1. /\ leader[p] = Unborn /\ UNCHANGED <<users, invites>>
        /\ \E at \in P!JoinTimes : joined' = [joined EXCEPT ![p][a] = at]
    BY <1>2, SameHelpers DEF P!CreateParty
  <2>2. invites[p] = {} /\ Members(joined[p]) = {}
    BY <2>1, UsersAssumption DEF NoOrphanRows, Live, Unborn
  <2>3. /\ \A q \in Parties : q # p => joined'[q] = joined[q]
        /\ \A u \in Users : u # a => joined'[p][u] = 0
    BY <1>1, <2>1, <2>2 DEF Members
  <2> QED
    BY <2>1, <2>2, <2>3
    DEF RowsInv, UniqueIds, PendingInviteIsOpen, MembersWereInvited, OnlySignedInAreAsked,
        Members
<1>3. CASE P!SendInvite(p, a, t)
  <2>1. PICK i \in InviteIds :
           /\ P!FreshInvite(p, i)
           /\ invites' = [invites EXCEPT ![p] = @ \cup {Row(i, t, "pending")}]
    BY <1>3 DEF P!SendInvite, Row
  <2>2. /\ users[t] = "signedIn" /\ joined[p][t] = 0 /\ PendingFor(invites[p], t) = {}
        /\ users' = users /\ joined' = joined
    BY <1>3, SameHelpers DEF P!SendInvite
  <2> QED
    BY <2>1, <2>2, InviteAdded
<1>4. CASE P!AddFriend(p, a, t)
  <2>1. PICK i \in InviteIds :
           /\ P!FreshInvite(p, i)
           /\ invites' = [invites EXCEPT ![p] = @ \cup {Row(i, t, "accepted")}]
    BY <1>4 DEF P!AddFriend, Row
  <2>2. /\ joined[p][t] = 0 /\ PendingFor(invites[p], t) = {} /\ users' = users
        /\ \E at \in P!JoinTimes : joined' = [joined EXCEPT ![p][t] = at]
    BY <1>4, SameHelpers DEF P!AddFriend
  <2>3. \A q \in Parties : \A u \in Users :
            joined'[q][u] # joined[q][u] => q = p /\ u = t
    BY <1>1, <2>2
  <2> QED
    BY <2>1, <2>2, <2>3, InviteAdded
<1>5. CASE P!AcceptInvite(p, a)
  <2>1. PICK i \in PendingFor(invites[p], a) :
           invites' = [invites EXCEPT ![p] =
                          (@ \ {i}) \cup {[i EXCEPT !.status = "accepted"]}]
    BY <1>5, SameHelpers DEF P!AcceptInvite, P!Answer
  <2>2. users' = users /\ \E at \in P!JoinTimes : joined' = [joined EXCEPT ![p][a] = at]
    BY <1>5 DEF P!AcceptInvite
  <2>3. \A q \in Parties : \A u \in Users :
            joined'[q][u] # joined[q][u] => q = p /\ u = a /\ "accepted" = "accepted"
    BY <1>1, <2>2
  <2> QED
    BY <2>1, <2>2, <2>3, InviteAnswered
<1>6. CASE P!RejectInvite(p, a)
  <2>1. PICK i \in PendingFor(invites[p], a) :
           invites' = [invites EXCEPT ![p] =
                          (@ \ {i}) \cup {[i EXCEPT !.status = "rejected"]}]
    BY <1>6, SameHelpers DEF P!RejectInvite, P!Answer
  <2>2. users' = users /\ joined' = joined
    BY <1>6 DEF P!RejectInvite
  <2> QED
    BY <2>1, <2>2, InviteAnswered
<1>7. ASSUME users' = users,
             \A q \in Parties : invites'[q] \subseteq invites[q],
             \A q \in Parties : invites'[q] = invites[q] \/ Members(joined'[q]) = {},
             \A q \in Parties : \A u \in Users :
                 joined'[q][u] = joined[q][u] \/ joined'[q][u] = 0
      PROVE  RowsInv'
  <2>1. \A q \in Parties : Members(joined'[q]) \subseteq Members(joined[q])
    BY <1>7 DEF Members
  <2>2. UniqueIds' /\ OnlySignedInAreAsked'
    BY <1>7 DEF RowsInv, UniqueIds, OnlySignedInAreAsked
  <2>3. MembersWereInvited'
    BY <1>7, <2>1 DEF RowsInv, MembersWereInvited
  <2>4. PendingInviteIsOpen'
    <3> SUFFICES ASSUME NEW q \in Parties, NEW k \in invites'[q], k.status = "pending"
                 PROVE  PendingFor(invites'[q], k.user) = {k} /\ joined'[q][k.user] = 0
      BY DEF PendingInviteIsOpen, PendingFor
    <3>1. k \in invites[q] /\ k.user \in Users
      BY <1>1, <1>7 DEF Invite
    <3>2. PendingFor(invites[q], k.user) = {k} /\ joined[q][k.user] = 0
      BY <3>1 DEF RowsInv, PendingInviteIsOpen
    <3>3. joined'[q][k.user] = 0
      BY <1>7, <3>1, <3>2
    <3>4. PendingFor(invites'[q], k.user) \subseteq PendingFor(invites[q], k.user)
      BY <1>7 DEF PendingFor
    <3>5. k \in PendingFor(invites'[q], k.user)
      BY DEF PendingFor
    <3> QED
      BY <3>2, <3>3, <3>4, <3>5
  <2> QED
    BY <2>2, <2>3, <2>4 DEF RowsInv
<1>8. CASE P!LeaveParty(p, a)
  <2>1. /\ users' = users /\ invites' = invites
        /\ joined' = [joined EXCEPT ![p] = [joined[p] EXCEPT ![a] = 0]]
    BY <1>8 DEF P!LeaveParty
  <2> QED
    BY <1>1, <1>7, <2>1
<1>9. CASE P!DisbandParty(p, a)
  <2>1. /\ users' = users /\ invites' = [invites EXCEPT ![p] = {}]
        /\ joined' = [joined EXCEPT ![p] = [u \in Users |-> 0]]
    BY <1>9 DEF P!DisbandParty
  <2>2. \A q \in Parties : invites'[q] = invites[q] \/ Members(joined'[q]) = {}
    BY <1>1, <2>1 DEF Members
  <2> QED
    BY <1>1, <1>7, <2>1, <2>2
<1>10. CASE P!StepDown(p, a, t)
  <2>1. users' = users /\ invites' = invites /\ joined' = joined
    BY <1>10 DEF P!StepDown
  <2> QED
    BY <1>7, <2>1
<1> QED
  BY <1>2, <1>3, <1>4, <1>5, <1>6, <1>8, <1>9, <1>10 DEF P!PartyCall

\* Sign-ins and friend rows never take a sign-in back, and the clock goes on.
LEMMA UsersGrow ==
    ASSUME TablesTypeOK, UsersStep
    PROVE  /\ UNCHANGED <<leader, joined, invites, lock, pc, tx, writes>>
           /\ \A u \in Users : users[u] = "signedIn" => users'[u] = "signedIn"
           /\ \A u \in Users : users[u] # "unknown" => users'[u] # "unknown"
           /\ clock' \in Nat /\ clock <= clock'
<1>1. users \in [Users -> Standings] /\ clock \in Nat
  BY DEF TablesTypeOK
<1>2. ASSUME NEW u \in Users, UpsertUser(u) \/ UpsertFriend(u)
      PROVE  /\ UNCHANGED <<leader, joined, invites, clock>>
             /\ \A v \in Users : users[v] = "signedIn" => users'[v] = "signedIn"
             /\ \A v \in Users : users[v] # "unknown" => users'[v] # "unknown"
  BY <1>1, <1>2 DEF UpsertUser, UpsertFriend
<1>3. UNCHANGED <<lock, pc, tx, writes>>
  BY DEF UsersStep
<1>4. CASE Tick
  BY <1>1, <1>3, <1>4 DEF Tick
<1>5. CASE \E u \in Users : UpsertUser(u) \/ UpsertFriend(u)
  BY <1>1, <1>2, <1>3, <1>5
<1> QED
  BY <1>4, <1>5 DEF UsersStep

LEMMA UsersKeepRows ==
    ASSUME TablesTypeOK, RowsInv, UsersStep
    PROVE  RowsInv'
<1>1. \A q \in Parties : \A i \in invites[q] : i.user \in Users
  BY DEF TablesTypeOK, Invite
<1> QED
  BY <1>1, UsersGrow
  DEF RowsInv, UniqueIds, PendingInviteIsOpen, MembersWereInvited, OnlySignedInAreAsked

-----------------------------------------------------------------------------
(* The commit of a request is one step of Party.                           *)

\* What r's own writes make of the rows of its party.
LEMMA SeenRows ==
    ASSUME Inv, NEW r \in Requests, pc[r] \in Locked
    PROVE  LET p == tx[r].party  w == writes[r]
           IN  /\ w.joins = {} /\ w.leaves = {} => SeenJoined(r) = joined[p]
               /\ w.joins = {} /\ w.leaves = {tx[r].actor} => SeenJoined(r) = Rest(r)
               /\ \A u \in Users : w.joins = {u} /\ w.leaves = {} =>
                     SeenJoined(r) = [joined[p] EXCEPT ![u] = tx[r].at]
               /\ w.invites = {} => SeenInvites(r) = invites[p]
<1> DEFINE p == tx[r].party
<1>1. p \in Parties /\ joined[p] \in [Users -> Nat]
  BY SeenTyped DEF Inv, TypeOK, TablesTypeOK
<1> QED
  BY <1>1 DEF SeenJoined, SeenInvites, Rest

\* A row that is added to the party's invites, and one that replaces a row.
LEMMA SeenAdded ==
    ASSUME NEW r \in Requests, NEW row, writes[r].invites = {row},
           P!FreshInvite(tx[r].party, row.id)
    PROVE  SeenInvites(r) = invites[tx[r].party] \cup {row}
BY DEF SeenInvites, P!FreshInvite

LEMMA SeenAnswered ==
    ASSUME UniqueIds, NEW r \in Requests, tx[r].party \in Parties,
           NEW i \in invites[tx[r].party], NEW row, row.id = i.id, writes[r].invites = {row}
    PROVE  SeenInvites(r) = (invites[tx[r].party] \ {i}) \cup {row}
<1>1. \A k \in invites[tx[r].party] : k.id = i.id <=> k = i
  BY DEF UniqueIds
<1> QED
  BY <1>1 DEF SeenInvites

LEMMA CommitIsCall ==
    ASSUME RefInv, NEW r \in Requests, Commit(r)
    PROVE  \E p \in Parties, a, t \in Users : P!PartyCall(p, a, t)
<1> DEFINE p == tx[r].party
<1> DEFINE a == tx[r].actor
<1> DEFINE t == tx[r].target
<1> DEFINE at == tx[r].at
<1> DEFINE w == writes[r]
<1>1. /\ pc[r] = "commit" /\ pc[r] \in Locked /\ pc[r] # "idle"
      /\ UNCHANGED <<users, clock>>
      /\ leader' = [leader EXCEPT ![p] = IF w.deleted THEN Gone
                                         ELSE IF w.leader # NoUser THEN w.leader
                                         ELSE leader[p]]
      /\ joined' = [joined EXCEPT ![p] = IF w.deleted THEN [u \in Users |-> 0]
                                         ELSE SeenJoined(r)]
      /\ invites' = [invites EXCEPT ![p] = IF w.deleted THEN {} ELSE SeenInvites(r)]
  BY DEF Commit, Locked, Statements
<1>2. /\ Inv /\ UniqueIds /\ TablesTypeOK
      /\ p \in Parties /\ a \in Users /\ at \in P!JoinTimes
      /\ users[a] = "signedIn"
  BY <1>1, SeenTyped DEF RefInv, RowsInv, Progress, AnyProgress, P!JoinTimes, Inv, TypeOK
<1>3. Effect(r)
  BY <1>1 DEF RefInv, Progress
<1>4. /\ leader \in [Parties -> Users \cup {Unborn, Gone}]
      /\ joined \in [Parties -> [Users -> Nat]]
      /\ invites \in [Parties -> SUBSET Invite]
  BY <1>2 DEF TablesTypeOK
<1>5. NoUser \notin Users
  BY NoUserAssumption
<1>6. /\ w.joins = {} /\ w.leaves = {} => SeenJoined(r) = joined[p]
      /\ w.joins = {} /\ w.leaves = {a} => SeenJoined(r) = Rest(r)
      /\ \A u \in Users : w.joins = {u} /\ w.leaves = {} =>
            SeenJoined(r) = [joined[p] EXCEPT ![u] = at]
      /\ w.invites = {} => SeenInvites(r) = invites[p]
  BY <1>1, <1>2, SeenRows
<1>7. Rest(r) = [joined[p] EXCEPT ![a] = 0]
  BY DEF Rest
<1>8. /\ \A row : w.invites = {row} /\ P!FreshInvite(p, row.id) =>
            SeenInvites(r) = invites[p] \cup {row}
      /\ \A i \in invites[p] : \A row :
            w.invites = {row} /\ row.id = i.id =>
                SeenInvites(r) = (invites[p] \ {i}) \cup {row}
  BY <1>2, SeenAdded, SeenAnswered
<1> HIDE DEF p, a, t, at, w
<1>9. ASSUME leader[p] = Unborn, Wrote(w, a, {a}, {}, {})
      PROVE  P!CreateParty(p, a)
  <2>1. w.leader = a /\ w.joins = {a} /\ w.leaves = {} /\ w.invites = {} /\ w.deleted = FALSE
    BY <1>9 DEF Wrote
  <2>2. SeenJoined(r) = [joined[p] EXCEPT ![a] = at] /\ SeenInvites(r) = invites[p]
    BY <1>2, <1>6, <2>1
  <2>3. /\ leader' = [leader EXCEPT ![p] = a] /\ invites' = invites
        /\ joined' = [joined EXCEPT ![p][a] = at]
    BY <1>1, <1>2, <1>4, <1>5, <2>1, <2>2
  <2> QED
    BY <1>1, <1>2, <1>9, <2>3, SameHelpers DEF P!CreateParty
<1>10. ASSUME leader[p] = a, t \in Users, users[t] = "signedIn",
              joined[p][t] = 0, PendingFor(invites[p], t) = {},
              NEW i \in InviteIds, P!FreshInvite(p, i),
              Wrote(w, NoUser, {}, {}, {Row(i, t, "pending")})
       PROVE  P!SendInvite(p, a, t)
  <2> DEFINE row == Row(i, t, "pending")
  <2>1. /\ w.leader = NoUser /\ w.joins = {} /\ w.leaves = {} /\ w.invites = {row}
        /\ w.deleted = FALSE /\ row.id = i
    BY <1>10 DEF Wrote, Row
  <2> HIDE DEF row
  <2>2. SeenJoined(r) = joined[p] /\ SeenInvites(r) = invites[p] \cup {row}
    BY <1>6, <1>8, <1>10, <2>1
  <2>3. /\ leader' = leader /\ joined' = joined
        /\ invites' = [invites EXCEPT ![p] = @ \cup {row}]
    BY <1>1, <1>2, <1>4, <2>1, <2>2
  <2> QED
    BY <1>1, <1>10, <2>3, SameHelpers DEF P!SendInvite, row, Row
<1>11. ASSUME leader[p] = a, users[t] # "unknown", t \in Users,
              joined[p][t] = 0, PendingFor(invites[p], t) = {},
              NEW i \in InviteIds, P!FreshInvite(p, i),
              Wrote(w, NoUser, {t}, {}, {Row(i, t, "accepted")})
       PROVE  P!AddFriend(p, a, t)
  <2> DEFINE row == Row(i, t, "accepted")
  <2>1. /\ w.leader = NoUser /\ w.joins = {t} /\ w.leaves = {} /\ w.invites = {row}
        /\ w.deleted = FALSE /\ row.id = i
    BY <1>11 DEF Wrote, Row
  <2> HIDE DEF row
  <2>2. /\ SeenJoined(r) = [joined[p] EXCEPT ![t] = at]
        /\ SeenInvites(r) = invites[p] \cup {row}
    BY <1>6, <1>8, <1>11, <2>1
  <2>3. /\ leader' = leader /\ joined' = [joined EXCEPT ![p][t] = at]
        /\ invites' = [invites EXCEPT ![p] = @ \cup {row}]
    BY <1>1, <1>2, <1>4, <2>1, <2>2
  <2> QED
    BY <1>1, <1>2, <1>11, <2>3, SameHelpers DEF P!AddFriend, row, Row
<1>12. ASSUME joined[p][a] = 0, NEW i \in PendingFor(invites[p], a),
              Wrote(w, NoUser, {a}, {}, {[i EXCEPT !.status = "accepted"]})
       PROVE  P!AcceptInvite(p, a)
  <2> DEFINE row == [i EXCEPT !.status = "accepted"]
  <2>1. i \in invites[p] /\ i \in Invite
    BY <1>2, <1>4 DEF PendingFor
  <2>2. /\ w.leader = NoUser /\ w.joins = {a} /\ w.leaves = {} /\ w.invites = {row}
        /\ w.deleted = FALSE /\ row.id = i.id
    BY <1>12, <2>1 DEF Wrote, Invite
  <2> HIDE DEF row
  <2>3. /\ SeenJoined(r) = [joined[p] EXCEPT ![a] = at]
        /\ SeenInvites(r) = (invites[p] \ {i}) \cup {row}
    BY <1>2, <1>6, <1>8, <2>1, <2>2
  <2>4. /\ leader' = leader /\ joined' = [joined EXCEPT ![p][a] = at]
        /\ invites' = [invites EXCEPT ![p] = (@ \ {i}) \cup {row}]
    BY <1>1, <1>2, <1>4, <2>2, <2>3
  <2> QED
    BY <1>1, <1>2, <1>12, <2>4, SameHelpers DEF P!AcceptInvite, P!Answer, row
<1>13. ASSUME NEW i \in PendingFor(invites[p], a),
              Wrote(w, NoUser, {}, {}, {[i EXCEPT !.status = "rejected"]})
       PROVE  P!RejectInvite(p, a)
  <2> DEFINE row == [i EXCEPT !.status = "rejected"]
  <2>1. i \in invites[p] /\ i \in Invite
    BY <1>2, <1>4 DEF PendingFor
  <2>2. /\ w.leader = NoUser /\ w.joins = {} /\ w.leaves = {} /\ w.invites = {row}
        /\ w.deleted = FALSE /\ row.id = i.id
    BY <1>13, <2>1 DEF Wrote, Invite
  <2> HIDE DEF row
  <2>3. SeenJoined(r) = joined[p] /\ SeenInvites(r) = (invites[p] \ {i}) \cup {row}
    BY <1>6, <1>8, <2>1, <2>2
  <2>4. /\ leader' = leader /\ joined' = joined
        /\ invites' = [invites EXCEPT ![p] = (@ \ {i}) \cup {row}]
    BY <1>1, <1>2, <1>4, <2>2, <2>3
  <2> QED
    BY <1>1, <1>2, <1>13, <2>4, SameHelpers DEF P!RejectInvite, P!Answer, row
<1>14. ASSUME leader[p] \in Users, Members(Rest(r)) # {},
              Wrote(w, w.leader, {}, {a}, {}),
              \/ leader[p] # a /\ w.leader = NoUser
              \/ leader[p] = a /\ Earliest(Rest(r), w.leader)
       PROVE  P!LeaveParty(p, a)
  <2>1. w.joins = {} /\ w.leaves = {a} /\ w.invites = {} /\ w.deleted = FALSE
    BY <1>14 DEF Wrote
  <2>2. joined' = [joined EXCEPT ![p] = Rest(r)] /\ invites' = invites
    BY <1>1, <1>2, <1>4, <1>6, <2>1
  <2>3. \/ leader[p] # a /\ leader' = leader
        \/ /\ leader[p] = a
           /\ \E s \in Users : /\ Earliest(Rest(r), s)
                               /\ leader' = [leader EXCEPT ![p] = s]
    <3>1. CASE leader[p] # a /\ w.leader = NoUser
      BY <1>1, <1>2, <1>4, <2>1, <3>1
    <3>2. CASE leader[p] = a /\ Earliest(Rest(r), w.leader)
      <4>1. w.leader \in Users
        BY <3>2 DEF Earliest, Members
      <4> QED
        BY <1>1, <1>5, <2>1, <3>2, <4>1
    <3> QED
      BY <1>14, <3>1, <3>2
  <2>4. /\ P!Live(p) /\ P!Members(Rest(r)) # {}
        /\ \A s \in Users : P!Earliest(Rest(r), s) <=> Earliest(Rest(r), s)
    BY <1>14, SameHelpers DEF Live
  <2> QED
    BY <1>1, <1>7, <2>2, <2>3, <2>4 DEF P!LeaveParty
<1>15. ASSUME leader[p] \in Users, Members(Rest(r)) = {}, w.deleted = TRUE
       PROVE  P!DisbandParty(p, a)
  <2>1. Members(joined[p]) \subseteq {a}
    BY <1>2, <1>4, <1>7, <1>15 DEF Members
  <2>2. /\ leader' = [leader EXCEPT ![p] = Gone] /\ invites' = [invites EXCEPT ![p] = {}]
        /\ joined' = [joined EXCEPT ![p] = [u \in Users |-> 0]]
    BY <1>1, <1>15
  <2> QED
    BY <1>1, <1>15, <2>1, <2>2, SameHelpers DEF P!DisbandParty, Live
<1>16. ASSUME leader[p] = a, t \in Users, joined[p][t] # 0,
              \E other \in Members(joined[p]) : other # a,
              Wrote(w, t, {}, {}, {})
       PROVE  P!StepDown(p, a, t)
  <2>1. w.leader = t /\ w.joins = {} /\ w.leaves = {} /\ w.invites = {} /\ w.deleted = FALSE
    BY <1>16 DEF Wrote
  <2>2. leader' = [leader EXCEPT ![p] = t] /\ joined' = joined /\ invites' = invites
    BY <1>1, <1>2, <1>4, <1>5, <1>6, <1>16, <2>1
  <2> QED
    BY <1>1, <1>16, <2>2, SameHelpers DEF P!StepDown
<1>17. P!PartyCall(p, a, a) \/ (t \in Users /\ P!PartyCall(p, a, t))
  <2> USE DEF p, a, t, w, P!PartyCall
  <2>1. CASE Creating(r)
    BY <1>9, <2>1 DEF Creating
  <2>2. CASE Inviting(r)
    BY <1>10, <2>2 DEF Inviting
  <2>3. CASE Adding(r)
    BY <1>11, <2>3 DEF Adding
  <2>4. CASE Accepting(r)
    BY <1>12, <2>4 DEF Accepting
  <2>5. CASE Rejecting(r)
    BY <1>13, <2>5 DEF Rejecting
  <2>6. CASE Leaving(r)
    BY <1>14, <2>6 DEF Leaving
  <2>7. CASE Disbanding(r)
    BY <1>15, <2>7 DEF Disbanding
  <2>8. CASE HandingOver(r)
    BY <1>16, <2>8 DEF HandingOver
  <2> QED
    BY <1>3, <2>1, <2>2, <2>3, <2>4, <2>5, <2>6, <2>7, <2>8 DEF Effect
<1> QED
  BY <1>2, <1>17

-----------------------------------------------------------------------------
(* What a request has found stays true until it commits.                   *)

\* A request that does not move keeps what it has found, if the rows of its
\* party have not changed under its lock.
LEMMA ProgressFrame ==
    ASSUME Inv, NEW s \in Requests, Progress(s),
           pc'[s] = pc[s], tx'[s] = tx[s], writes'[s] = writes[s],
           \A u \in Users : users[u] = "signedIn" => users'[u] = "signedIn",
           \A u \in Users : users[u] # "unknown" => users'[u] # "unknown",
           clock' \in Nat, clock <= clock',
           pc[s] \in Locked =>
               /\ leader'[tx[s].party] = leader[tx[s].party]
               /\ joined'[tx[s].party] = joined[tx[s].party]
               /\ invites'[tx[s].party] = invites[tx[s].party]
    PROVE  Progress(s)'
<1> DEFINE p == tx[s].party
<1>1. /\ clock \in Nat
      /\ pc[s] # "idle" => tx[s].actor \in Users /\ tx[s] \in Tx
      /\ pc[s] \in Targeting => tx[s].target \in Users
  <2>1. Call(s) /\ clock \in Nat /\ tx[s] \in Tx
    BY DEF Inv, TypeOK, TablesTypeOK
  <2> QED
    BY <2>1 DEF Call, Targeting
<1>2. AnyProgress(s)'
  BY <1>1 DEF Progress, AnyProgress, Leading, Locked, Statements
<1>3. CASE pc[s] \notin Locked
  BY <1>2, <1>3
  DEF Progress, SendProgress, AnswerProgress, OtherProgress, Locked, Statements
<1>4. CASE pc[s] \in Locked
  <2>1. leader'[p] = leader[p] /\ joined'[p] = joined[p] /\ invites'[p] = invites[p]
    BY <1>4
  <2>2. pc[s] = "commit" => Effect(s)'
    <3> SUFFICES ASSUME pc[s] = "commit" PROVE Effect(s)'
      OBVIOUS
    <3>1. CASE Creating(s)
      BY <2>1, <3>1 DEF Effect, Creating
    <3>2. CASE Inviting(s)
      BY <2>1, <3>2 DEF Effect, Inviting, P!FreshInvite
    <3>3. CASE Adding(s)
      BY <2>1, <3>3 DEF Effect, Adding, P!FreshInvite
    <3>4. CASE Accepting(s)
      BY <2>1, <3>4 DEF Effect, Accepting
    <3>5. CASE Rejecting(s)
      BY <2>1, <3>5 DEF Effect, Rejecting
    <3>6. CASE Leaving(s)
      BY <2>1, <3>6 DEF Effect, Leaving, Rest
    <3>7. CASE Disbanding(s)
      BY <2>1, <3>7 DEF Effect, Disbanding, Rest
    <3>8. CASE HandingOver(s)
      BY <2>1, <3>8 DEF Effect, HandingOver
    <3> QED
      BY <3>1, <3>2, <3>3, <3>4, <3>5, <3>6, <3>7, <3>8 DEF Progress, Effect
  <2>3. SendProgress(s)'
    <3>1. Friended(s) => Friended(s)'
      BY <2>1 DEF Friended, P!FreshInvite
    <3>2. PendingFor(invites'[p], tx[s].target) = PendingFor(invites[p], tx[s].target)
      BY <2>1
    <3> QED
      BY <1>1, <2>1, <3>1, <3>2 DEF Progress, SendProgress, Targeting
  <2>4. AnswerProgress(s)'
    <3>1. LookedUp(s) => LookedUp(s)'
      BY <2>1 DEF LookedUp
    <3> QED
      BY <2>1, <3>1 DEF Progress, AnswerProgress
  <2>5. OtherProgress(s)'
    <3>1. Succeeded(s) => Succeeded(s)'
      BY <2>1 DEF Succeeded, Rest
    <3>2. Accompanied(s) => Accompanied(s)'
      BY <2>1 DEF Accompanied
    <3> QED
      BY <2>1, <3>1, <3>2 DEF Progress, OtherProgress
  <2> QED
    BY <1>2, <2>2, <2>3, <2>4, <2>5 DEF Progress
<1> QED
  BY <1>3, <1>4

\* A request that is idle has nothing to keep.
LEMMA IdleProgress ==
    ASSUME NEW r \in Requests, pc'[r] = "idle"
    PROVE  Progress(r)'
BY DEF Progress, AnyProgress, SendProgress, AnswerProgress, OtherProgress, Reading, Leading

\* A step of r that leaves the committed rows alone: the others keep what they
\* have found, and r's own progress is shown where the lemma is used.
LEMMA ProgressStep ==
    ASSUME RefInv, NEW r \in Requests, UNCHANGED tables, Inv', Progress(r)',
           \A s \in Requests \ {r} :
               pc'[s] = pc[s] /\ tx'[s] = tx[s] /\ writes'[s] = writes[s]
    PROVE  RefInv'
<1>1. /\ users' = users /\ leader' = leader /\ joined' = joined /\ invites' = invites
      /\ clock' = clock
  BY DEF tables
<1>2. RowsInv'
  BY <1>1 DEF RefInv, RowsInv, UniqueIds, PendingInviteIsOpen, MembersWereInvited,
              OnlySignedInAreAsked
<1>3. clock \in Nat
  BY DEF RefInv, Inv, TypeOK, TablesTypeOK
<1>4. ASSUME NEW s \in Requests \ {r} PROVE Progress(s)'
  BY <1>1, <1>3, ProgressFrame DEF RefInv
<1> QED
  BY <1>2, <1>4 DEF RefInv

\* The end of a transaction of r that leaves the committed rows alone.
LEMMA RollbackProgress ==
    ASSUME RefInv, NEW r \in Requests, Fail(r) \/ Refuse(r)
    PROVE  RefInv'
<1>1. Inv /\ End(r) /\ UNCHANGED tables
  BY DEF RefInv, Fail, Refuse
<1>2. Inv'
  BY <1>1, RollbackStep
<1>3. pc'[r] = "idle" /\ \A s \in Requests \ {r} :
         pc'[s] = pc[s] /\ tx'[s] = tx[s] /\ writes'[s] = writes[s]
  BY <1>1 DEF End, Inv, TypeOK
<1> QED
  BY <1>1, <1>2, <1>3, IdleProgress, ProgressStep

LEMMA CommitProgress ==
    ASSUME RefInv, NEW r \in Requests, Commit(r)
    PROVE  RefInv'
<1> DEFINE p == tx[r].party
<1>1. /\ Inv /\ pc[r] = "commit" /\ End(r) /\ users' = users /\ clock' = clock
  BY DEF RefInv, Commit
<1>2. p \in Parties /\ lock[p] = r /\ pc[r] \in Locked
  <2>1. pc[r] \in Locked
    BY <1>1 DEF Locked, Statements
  <2> QED
    BY <1>1, <2>1, SeenTyped DEF Inv, RowLocked
<1>3. Inv'
  BY <1>1, CommitStep
<1>4. RowsInv'
  <2>1. PICK o \in Parties, a \in Users, t \in Users : P!PartyCall(o, a, t)
    BY CommitIsCall
  <2>2. TablesTypeOK /\ TablesTypeOK' /\ NoOrphanRows /\ RowsInv
    BY <1>3 DEF RefInv, Inv, TypeOK
  <2> QED
    BY <2>1, <2>2, CallKeepsRows
<1>5. pc'[r] = "idle" /\ \A s \in Requests \ {r} :
         pc'[s] = pc[s] /\ tx'[s] = tx[s] /\ writes'[s] = writes[s]
  BY <1>1 DEF End, Inv, TypeOK
<1>6. ASSUME NEW s \in Requests \ {r} PROVE Progress(s)'
  <2>1. pc[s] \in Locked => tx[s].party # p
    BY <1>1, <1>2 DEF Inv, RowLocked
  <2>2. \A o \in Parties \ {p} :
            leader'[o] = leader[o] /\ joined'[o] = joined[o] /\ invites'[o] = invites[o]
    BY <1>1 DEF Commit, Inv, TypeOK, TablesTypeOK
  <2>3. pc[s] \in Locked => tx[s].party \in Parties
    BY <1>1, SeenTyped
  <2>4. clock \in Nat
    BY <1>1 DEF Inv, TypeOK, TablesTypeOK
  <2> HIDE DEF p
  <2> QED
    BY <1>1, <1>5, <2>1, <2>2, <2>3, <2>4, ProgressFrame DEF RefInv
<1> QED
  BY <1>3, <1>4, <1>5, <1>6, IdleProgress DEF RefInv

LEMMA UsersProgress ==
    ASSUME RefInv, UsersStep
    PROVE  RefInv'
<1>1. Inv /\ TablesTypeOK /\ RowsInv
  BY DEF RefInv, Inv, TypeOK
<1>2. Inv' /\ RowsInv'
  BY <1>1, UsersStepInv, UsersKeepRows
<1>3. ASSUME NEW s \in Requests PROVE Progress(s)'
  BY <1>1, UsersGrow, ProgressFrame DEF RefInv
<1> QED
  BY <1>2, <1>3 DEF RefInv

-----------------------------------------------------------------------------
(* Every statement makes the progress that the next one needs.             *)

\* The next statement, arguments and writes of r, and nothing of the others.
Moves(r, q, x, w) ==
    /\ pc'[r] = q /\ tx'[r] = x /\ writes'[r] = w
    /\ \A s \in Requests \ {r} :
          pc'[s] = pc[s] /\ tx'[s] = tx[s] /\ writes'[s] = writes[s]

\* r goes on in the same call, to a statement whose own progress is shown where
\* the lemma is used.
LEMMA OnwardStep ==
    ASSUME RefInv, NEW r \in Requests, Statement(r), UNCHANGED tables,
           NEW q \in Statements \ {"lock"}, NEW x, NEW w, Moves(r, q, x, w),
           pc[r] # "idle", x.actor = tx[r].actor, x.at = tx[r].at,
           q \in Reading => w = NoWrites,
           q \in Leading => leader[x.party] = x.actor,
           SendProgress(r)', AnswerProgress(r)', OtherProgress(r)',
           q = "commit" => Effect(r)'
    PROVE  RefInv'
<1>1. Inv'
  BY NextInv DEF RefInv, Next
<1>2. users' = users /\ leader' = leader /\ clock' = clock
  BY DEF tables
<1>3. AnyProgress(r)'
  BY <1>2 DEF RefInv, Progress, AnyProgress, Moves
<1>4. Progress(r)'
  BY <1>3 DEF Progress, Moves
<1> QED
  BY <1>1, <1>4, ProgressStep DEF Moves

\* Steps that keep the arguments, or the writes, of r.
LEMMA ReadMoves ==
    ASSUME Inv, NEW r \in Requests, NEW q, ReadOnly, pc' = [pc EXCEPT ![r] = q]
    PROVE  Moves(r, q, tx[r], writes[r]) /\ UNCHANGED tables
BY DEF Inv, TypeOK, Moves, ReadOnly

LEMMA WriteMoves ==
    ASSUME Inv, NEW r \in Requests, NEW q, NEW w, Write(r, w), pc' = [pc EXCEPT ![r] = q]
    PROVE  Moves(r, q, tx[r], w) /\ UNCHANGED tables
BY DEF Inv, TypeOK, Moves, Write

LEMMA NothingWritten == Wrote(NoWrites, NoUser, {}, {}, {})
BY DEF NoWrites, Wrote

\* What the statements change of the rows written.
LEMMA WroteMore ==
    ASSUME NEW w \in Writes, NEW l, NEW js, NEW ls, NEW is, Wrote(w, l, js, ls, is)
    PROVE  /\ \A v \in Users : Wrote([w EXCEPT !.leader = v], v, js, ls, is)
           /\ \A u : Wrote([w EXCEPT !.joins = @ \cup {u}], l, js \cup {u}, ls, is)
           /\ \A u : Wrote([w EXCEPT !.leaves = {u}], l, js, {u}, is)
           /\ \A rows : Wrote([w EXCEPT !.invites = @ \cup rows], l, js, ls, is \cup rows)
BY DEF Wrote, Writes

LEMMA BeginProgress ==
    ASSUME RefInv, NEW r \in Requests, NEW op \in Ops, NEW p \in Parties \cup {Unborn},
           NEW a \in Users, NEW t \in Users \cup {NoUser}, Begin(r, op, p, a, t)
    PROVE  RefInv'
<1>1. Inv /\ Inv'
  BY BeginStep DEF RefInv
<1> DEFINE x == [NoTx EXCEPT !.op = op, !.party = p, !.actor = a, !.target = t, !.at = clock]
<1> DEFINE q == IF op = "CreateParty" THEN "insertParty" ELSE "lock"
<1>2. x.actor = a /\ x.at = clock /\ x.op = op
  BY DEF NoTx
<1>3. /\ Moves(r, q, x, writes[r]) /\ UNCHANGED tables
      /\ users[a] = "signedIn"
  BY <1>1 DEF Begin, Inv, TypeOK, Moves
<1>4. clock \in 1 .. clock /\ clock' = clock /\ users' = users
  BY <1>1, <1>3 DEF Inv, TypeOK, TablesTypeOK, tables
<1> HIDE DEF x
<1>5. Progress(r)'
  BY <1>2, <1>3, <1>4
  DEF Moves, Progress, AnyProgress, SendProgress, AnswerProgress, OtherProgress,
      Reading, Leading
<1> QED
  BY <1>1, <1>3, <1>5, ProgressStep DEF Moves

LEMMA LockProgress ==
    ASSUME RefInv, NEW r \in Requests, LockParty(r)
    PROVE  RefInv'
<1> DEFINE p == tx[r].party
<1> DEFINE q == AfterLock(tx[r].op)
<1> DEFINE x == [tx[r] EXCEPT !.leader = leader[p]]
<1>1. Inv /\ pc[r] = "lock" /\ pc' = [pc EXCEPT ![r] = q] /\ MayAct(r)
      /\ tx' = [tx EXCEPT ![r] = x] /\ UNCHANGED <<tables, writes>>
  BY DEF RefInv, LockParty, Step
<1>2. tx[r] \in Tx /\ writes[r] = NoWrites /\ tx[r].op \in Ops \ {"CreateParty"}
  BY <1>1 DEF Inv, TypeOK, Call, RefInv, Progress, AnyProgress
<1>3. /\ q \in {"checkMember", "lookup", "leave", "countMembers"}
      /\ q \in {"checkMember", "countMembers"} => leader[p] = tx[r].actor
  BY <1>1, <1>2 DEF AfterLock, Ops, MayAct
<1>4. x.party = p /\ x.actor = tx[r].actor /\ x.at = tx[r].at
  BY <1>2 DEF Tx
<1>5. Moves(r, q, x, NoWrites)
  BY <1>1, <1>2 DEF Inv, TypeOK, Moves
<1> HIDE DEF x, q
<1>6. SendProgress(r)' /\ AnswerProgress(r)' /\ OtherProgress(r)'
  BY <1>3, <1>5 DEF Moves, SendProgress, AnswerProgress, OtherProgress
<1>7. q \in Statements \ {"lock"} /\ (q \in Leading => leader[p] = tx[r].actor)
  BY <1>3 DEF Statements, Leading
<1>8. Statement(r)
  BY DEF Statement
<1> QED
  BY <1>1, <1>3, <1>4, <1>5, <1>6, <1>7, <1>8, OnwardStep

LEMMA CreateProgress ==
    ASSUME RefInv, NEW r \in Requests, CreateInsertParty(r) \/ CreateInsertLeader(r)
    PROVE  RefInv'
<1>0. Inv /\ Statement(r) /\ tx[r] \in Tx /\ writes[r] \in Writes
  BY DEF RefInv, Statement, Inv, TypeOK
<1>1. CASE CreateInsertParty(r)
  <2>1. PICK p \in Parties : tx' = [tx EXCEPT ![r].party = p]
    BY <1>1 DEF CreateInsertParty
  <2> DEFINE x == [tx[r] EXCEPT !.party = p]
  <2> DEFINE w == [writes[r] EXCEPT !.leader = tx[r].actor]
  <2>2. /\ pc[r] = "insertParty" /\ UNCHANGED tables
        /\ Moves(r, "insertLeader", x, w)
    BY <1>0, <1>1, <2>1 DEF CreateInsertParty, Step, Inv, TypeOK, Moves
  <2>3. x.actor = tx[r].actor /\ x.at = tx[r].at
    BY <1>0 DEF Tx
  <2>4. Wrote(w, x.actor, {}, {}, {})
    <3>1. Wrote(writes[r], NoUser, {}, {}, {}) /\ tx[r].actor \in Users
      BY <1>0, <2>2, NothingWritten DEF Inv, Call
    <3> QED
      BY <1>0, <2>3, <3>1, WroteMore
  <2> HIDE DEF x, w
  <2>5. SendProgress(r)' /\ AnswerProgress(r)' /\ OtherProgress(r)'
    BY <2>2, <2>4 DEF Moves, SendProgress, AnswerProgress, OtherProgress
  <2>6. "insertLeader" \in Statements \ {"lock"} /\ "insertLeader" \notin Reading \cup Leading
    BY DEF Statements, Reading, Leading
  <2> QED
    BY <1>0, <2>2, <2>3, <2>5, <2>6, OnwardStep
<1>2. CASE CreateInsertLeader(r)
  <2> DEFINE w == [writes[r] EXCEPT !.joins = @ \cup {tx[r].actor}]
  <2>1. pc[r] = "insertLeader" /\ pc' = [pc EXCEPT ![r] = "commit"] /\ Write(r, w)
    BY <1>2 DEF CreateInsertLeader, Step, InsertMembership
  <2>2. Moves(r, "commit", tx[r], w) /\ UNCHANGED tables
    BY <1>0, <2>1, WriteMoves
  <2>3. Wrote(w, tx[r].actor, {tx[r].actor}, {}, {})
    <3>1. Wrote(writes[r], tx[r].actor, {}, {}, {})
      BY <2>1 DEF RefInv, Progress, OtherProgress
    <3>2. Wrote(w, tx[r].actor, {} \cup {tx[r].actor}, {}, {})
      BY <1>0, <3>1, WroteMore
    <3>3. {} \cup {tx[r].actor} = {tx[r].actor}
      OBVIOUS
    <3> HIDE DEF w
    <3> QED
      BY <3>2, <3>3
  <2>4. leader[tx[r].party] = Unborn /\ leader' = leader
    BY <2>1, <2>2 DEF RefInv, Inv, Stage, tables
  <2> HIDE DEF w
  <2>5. Effect(r)'
    BY <2>2, <2>3, <2>4 DEF Moves, Effect, Creating
  <2>6. SendProgress(r)' /\ AnswerProgress(r)' /\ OtherProgress(r)'
    BY <2>2 DEF Moves, SendProgress, AnswerProgress, OtherProgress
  <2>7. "commit" \in Statements \ {"lock"} /\ "commit" \notin Reading \cup Leading
    BY DEF Statements, Reading, Leading
  <2> QED
    BY <1>0, <2>1, <2>2, <2>5, <2>6, <2>7, OnwardStep
<1> QED
  BY <1>1, <1>2

\* A request that has written nothing sees the committed rows.
LEMMA SeenCommitted ==
    ASSUME Inv, NEW r \in Requests, pc[r] \in Locked, writes[r] = NoWrites
    PROVE  SeenJoined(r) = joined[tx[r].party] /\ SeenInvites(r) = invites[tx[r].party]
BY SeenRows DEF NoWrites

\* The statements of SendInvite that only read.
LEMMA SendReadProgress ==
    ASSUME RefInv, NEW r \in Requests,
           SendCheckMember(r) \/ SendCheckPending(r) \/ SendReadTarget(r)
    PROVE  RefInv'
<1> DEFINE p == tx[r].party
<1> DEFINE t == tx[r].target
<1>1. PICK q \in {"checkPending", "readTarget", "admit", "invite"} :
         /\ pc' = [pc EXCEPT ![r] = q] /\ ReadOnly
         /\ \/ /\ pc[r] = "checkMember" /\ q = "checkPending"
               /\ t \notin Members(SeenJoined(r))
            \/ /\ pc[r] = "checkPending" /\ q = "readTarget"
               /\ PendingFor(SeenInvites(r), t) = {}
            \/ /\ pc[r] = "readTarget" /\ q = "admit" /\ users[t] = "friend"
            \/ /\ pc[r] = "readTarget" /\ q = "invite" /\ users[t] = "signedIn"
  BY DEF SendCheckMember, SendCheckPending, SendReadTarget, Step
<1>2. Inv /\ Statement(r)
  BY DEF RefInv, Statement
<1>3. /\ pc[r] \in Locked \cap Reading \cap Leading \cap Targeting /\ pc[r] # "idle"
      /\ q \in (Statements \cap Reading \cap Leading) \ {"lock", "commit"}
  BY <1>1 DEF Locked, Statements, Reading, Leading, Targeting
<1>4. writes[r] = NoWrites /\ leader[p] = tx[r].actor
  BY <1>3 DEF RefInv, Progress, AnyProgress
<1>5. SeenJoined(r) = joined[p] /\ SeenInvites(r) = invites[p] /\ t \in Users
  BY <1>2, <1>3, <1>4, SeenCommitted DEF Inv, Call
<1>6. Moves(r, q, tx[r], writes[r]) /\ UNCHANGED tables
  BY <1>1, <1>2, ReadMoves
<1>7. users' = users /\ joined' = joined /\ invites' = invites
  BY <1>6 DEF tables
<1>8. joined[p][t] = 0
  <2>1. CASE pc[r] = "checkMember"
    BY <1>1, <1>5, <2>1 DEF Members
  <2>2. CASE pc[r] # "checkMember"
    BY <1>1, <2>2 DEF RefInv, Progress, SendProgress
  <2> QED
    BY <2>1, <2>2
<1>9. q # "checkPending" => PendingFor(invites[p], t) = {}
  BY <1>1, <1>5 DEF RefInv, Progress, SendProgress
<1>10. SendProgress(r)' /\ AnswerProgress(r)' /\ OtherProgress(r)'
  BY <1>1, <1>6, <1>7, <1>8, <1>9 DEF Moves, SendProgress, AnswerProgress, OtherProgress
<1> HIDE DEF p, t
<1> QED
  BY <1>2, <1>3, <1>4, <1>6, <1>10, OnwardStep DEF p

\* The statements of SendInvite that write.
LEMMA SendWriteProgress ==
    ASSUME RefInv, NEW r \in Requests,
           SendInsertPending(r) \/ SendInsertAccepted(r) \/ SendInsertMembership(r)
    PROVE  RefInv'
<1> DEFINE p == tx[r].party
<1> DEFINE t == tx[r].target
<1>1. /\ Inv /\ Statement(r) /\ writes[r] \in Writes
      /\ pc[r] \in {"invite", "admit", "joinFriend"}
  BY DEF RefInv, Statement, Inv, TypeOK, SendInsertPending, SendInsertAccepted,
         SendInsertMembership, Step
<1>2. /\ pc[r] \in Locked \cap Leading \cap Targeting /\ pc[r] # "idle"
      /\ pc[r] # "joinFriend" => pc[r] \in Reading
  BY <1>1 DEF Locked, Statements, Leading, Targeting, Reading
<1>3. /\ leader[p] = tx[r].actor /\ t \in Users
      /\ joined[p][t] = 0 /\ PendingFor(invites[p], t) = {}
      /\ pc[r] = "invite" => users[t] = "signedIn"
      /\ pc[r] # "invite" => users[t] # "unknown"
      /\ pc[r] = "joinFriend" => Friended(r)
      /\ pc[r] # "joinFriend" => writes[r] = NoWrites
  BY <1>1, <1>2 DEF RefInv, Progress, AnyProgress, SendProgress, Inv, Call
<1>4. ASSUME NEW status, InsertInvite(r, status), pc[r] # "joinFriend"
      PROVE  \E i \in InviteIds, w \in Writes \cup {writes'[r]} :
                /\ P!FreshInvite(p, i) /\ Write(r, w)
                /\ Wrote(w, NoUser, {}, {}, {Row(i, t, status)})
  <2>1. PICK i \in InviteIds :
           /\ \A row \in SeenInvites(r) : row.id # i
           /\ Write(r, [writes[r] EXCEPT !.invites = @ \cup {Row(i, t, status)}])
    BY <1>4 DEF InsertInvite, Row
  <2> DEFINE w == [writes[r] EXCEPT !.invites = @ \cup {Row(i, t, status)}]
  <2>2. P!FreshInvite(p, i)
    BY <1>1, <1>2, <1>3, <1>4, <2>1, SeenCommitted DEF P!FreshInvite
  <2>3. Wrote(w, NoUser, {}, {}, {} \cup {Row(i, t, status)})
    <3>1. Wrote(writes[r], NoUser, {}, {}, {})
      BY <1>3, <1>4, NothingWritten
    <3> QED
      BY <1>1, <3>1, WroteMore
  <2>4. {} \cup {Row(i, t, status)} = {Row(i, t, status)}
    OBVIOUS
  <2>5. writes'[r] = w
    BY <1>1, <2>1 DEF Write, Inv, TypeOK
  <2> HIDE DEF w
  <2>6. Wrote(w, NoUser, {}, {}, {Row(i, t, status)})
    BY <2>3, <2>4
  <2>7. Write(r, w)
    BY <2>1 DEF w
  <2> QED
    BY <2>2, <2>5, <2>6, <2>7
<1>5. ASSUME NEW q \in {"joinFriend", "commit"}, NEW w,
             Moves(r, q, tx[r], w), UNCHANGED tables,
             q = "joinFriend" => users[t] # "unknown" /\ Friended(r)',
             q = "commit" => Effect(r)'
      PROVE  RefInv'
  <2>1. users' = users /\ joined' = joined /\ invites' = invites
    BY <1>5 DEF tables
  <2>2. SendProgress(r)' /\ AnswerProgress(r)' /\ OtherProgress(r)'
    BY <1>3, <1>5, <2>1 DEF Moves, SendProgress, AnswerProgress, OtherProgress
  <2>3. q \in Statements \ {"lock"} /\ q \notin Reading
    BY <1>5 DEF Statements, Reading
  <2> HIDE DEF p, t
  <2> QED
    BY <1>1, <1>2, <1>3, <1>5, <2>2, <2>3, OnwardStep DEF p
<1>6. CASE SendInsertPending(r)
  <2>1. /\ pc[r] = "invite" /\ pc' = [pc EXCEPT ![r] = "commit"]
        /\ InsertInvite(r, "pending")
    BY <1>6 DEF SendInsertPending, Step
  <2>2. PICK i \in InviteIds, w \in Writes \cup {writes'[r]} :
           /\ P!FreshInvite(p, i) /\ Write(r, w)
           /\ Wrote(w, NoUser, {}, {}, {Row(i, t, "pending")})
    BY <1>4, <2>1
  <2>3. Moves(r, "commit", tx[r], w) /\ UNCHANGED tables
    BY <1>1, <2>1, <2>2, WriteMoves
  <2>4. Effect(r)'
    BY <1>3, <2>1, <2>2, <2>3 DEF Moves, tables, Effect, Inviting, P!FreshInvite
  <2> HIDE DEF p, t
  <2> QED
    BY <1>5, <2>3, <2>4
<1>7. CASE SendInsertAccepted(r)
  <2>1. /\ pc[r] = "admit" /\ pc' = [pc EXCEPT ![r] = "joinFriend"]
        /\ InsertInvite(r, "accepted")
    BY <1>7 DEF SendInsertAccepted, Step
  <2>2. PICK i \in InviteIds, w \in Writes \cup {writes'[r]} :
           /\ P!FreshInvite(p, i) /\ Write(r, w)
           /\ Wrote(w, NoUser, {}, {}, {Row(i, t, "accepted")})
    BY <1>4, <2>1
  <2>3. Moves(r, "joinFriend", tx[r], w) /\ UNCHANGED tables
    BY <1>1, <2>1, <2>2, WriteMoves
  <2>4. Friended(r)'
    BY <2>2, <2>3 DEF Moves, tables, Friended, P!FreshInvite
  <2>5. users[t] # "unknown"
    BY <1>3, <2>1
  <2> HIDE DEF p, t
  <2> QED
    BY <1>5, <2>3, <2>4, <2>5
<1>8. CASE SendInsertMembership(r)
  <2> DEFINE w == [writes[r] EXCEPT !.joins = @ \cup {t}]
  <2>1. pc[r] = "joinFriend" /\ pc' = [pc EXCEPT ![r] = "commit"] /\ Write(r, w)
    BY <1>8 DEF SendInsertMembership, Step, InsertMembership
  <2>2. Moves(r, "commit", tx[r], w) /\ UNCHANGED tables
    BY <1>1, <2>1, WriteMoves
  <2>3. PICK i \in InviteIds :
           /\ P!FreshInvite(p, i)
           /\ Wrote(writes[r], NoUser, {}, {}, {Row(i, t, "accepted")})
    BY <1>3, <2>1 DEF Friended
  <2>4. Wrote(w, NoUser, {} \cup {t}, {}, {Row(i, t, "accepted")})
    BY <1>1, <2>3, WroteMore
  <2>5. {} \cup {t} = {t}
    OBVIOUS
  <2> HIDE DEF w
  <2>6. Wrote(w, NoUser, {t}, {}, {Row(i, t, "accepted")})
    BY <2>4, <2>5
  <2>7. Effect(r)'
    BY <1>3, <2>1, <2>2, <2>3, <2>6 DEF Moves, tables, Effect, Adding, P!FreshInvite
  <2> HIDE DEF p, t
  <2> QED
    BY <1>5, <2>2, <2>7
<1> QED
  BY <1>6, <1>7, <1>8

\* The statements of AcceptInvite and RejectInvite.
LEMMA LookupProgress ==
    ASSUME RefInv, NEW r \in Requests, AcceptLookup(r) \/ RejectLookup(r)
    PROVE  RefInv'
<1> DEFINE p == tx[r].party
<1> DEFINE a == tx[r].actor
<1>1. Inv /\ Statement(r) /\ tx[r] \in Tx /\ pc[r] = "lookup"
  BY DEF RefInv, Statement, Inv, TypeOK, AcceptLookup, RejectLookup, LookupInvite, Step
<1>2. pc[r] \in Locked \cap Reading
  BY <1>1 DEF Locked, Statements, Reading
<1>3. writes[r] = NoWrites /\ SeenInvites(r) = invites[p] /\ p \in Parties
  BY <1>1, <1>2, SeenCommitted, SeenTyped DEF RefInv, Progress, AnyProgress
<1>4. PICK q \in {"join", "reject"}, i \in PendingFor(invites[p], a) :
         /\ pc' = [pc EXCEPT ![r] = q]
         /\ tx' = [tx EXCEPT ![r].invite = i.id]
         /\ UNCHANGED <<tables, lock, writes>>
  BY <1>3 DEF AcceptLookup, RejectLookup, LookupInvite, Step
<1> DEFINE x == [tx[r] EXCEPT !.invite = i.id]
<1>5. /\ x.actor = a /\ x.at = tx[r].at /\ x.party = p /\ x.invite = i.id
      /\ Moves(r, q, x, NoWrites) /\ UNCHANGED tables
  BY <1>1, <1>3, <1>4 DEF Tx, Inv, TypeOK, Moves
<1>6. joined[p][a] = 0
  BY <1>3, <1>4 DEF RefInv, RowsInv, PendingInviteIsOpen, PendingFor
<1> HIDE DEF x
<1>7. LookedUp(r)'
  <2>1. invites' = invites
    BY <1>5 DEF tables
  <2> QED
    BY <1>4, <1>5, <2>1 DEF Moves, LookedUp
<1>8. SendProgress(r)' /\ AnswerProgress(r)' /\ OtherProgress(r)'
  <2>1. joined' = joined
    BY <1>5 DEF tables
  <2> QED
    BY <1>5, <1>6, <1>7, <2>1 DEF Moves, SendProgress, AnswerProgress, OtherProgress
<1>9. q \in Statements \ {"lock", "commit"} /\ q \notin Leading
  BY DEF Statements, Leading
<1> HIDE DEF p, a
<1>10. x.actor = tx[r].actor
  BY <1>5 DEF a
<1> QED
  BY <1>1, <1>5, <1>8, <1>9, <1>10, OnwardStep

LEMMA JoinProgress ==
    ASSUME RefInv, NEW r \in Requests, AcceptInsertMembership(r)
    PROVE  RefInv'
<1> DEFINE a == tx[r].actor
<1> DEFINE w == [writes[r] EXCEPT !.joins = @ \cup {a}]
<1>1. /\ Inv /\ Statement(r) /\ writes[r] \in Writes /\ pc[r] = "join"
      /\ pc' = [pc EXCEPT ![r] = "accept"] /\ Write(r, w)
  BY DEF RefInv, Statement, Inv, TypeOK, AcceptInsertMembership, Step, InsertMembership
<1>2. Moves(r, "accept", tx[r], w) /\ UNCHANGED tables
  BY <1>1, WriteMoves
<1>3. Wrote(w, NoUser, {a}, {}, {})
  <2>1. Wrote(writes[r], NoUser, {}, {}, {})
    BY <1>1, NothingWritten DEF RefInv, Progress, AnyProgress, Reading
  <2>2. Wrote(w, NoUser, {} \cup {a}, {}, {})
    BY <1>1, <2>1, WroteMore
  <2>3. {} \cup {a} = {a}
    OBVIOUS
  <2> HIDE DEF w
  <2> QED
    BY <2>2, <2>3
<1>4. LookedUp(r) /\ joined[tx[r].party][a] = 0
  BY <1>1 DEF RefInv, Progress, AnswerProgress
<1> HIDE DEF w
<1>5. SendProgress(r)' /\ AnswerProgress(r)' /\ OtherProgress(r)'
  <2>1. joined' = joined /\ LookedUp(r)'
    BY <1>2, <1>4 DEF Moves, tables, LookedUp
  <2> QED
    BY <1>2, <1>3, <1>4, <2>1 DEF Moves, SendProgress, AnswerProgress, OtherProgress
<1>6. "accept" \in Statements \ {"lock", "commit"} /\ "accept" \notin Reading \cup Leading
  BY DEF Statements, Reading, Leading
<1> QED
  BY <1>1, <1>2, <1>5, <1>6, OnwardStep

LEMMA UpdateProgress ==
    ASSUME RefInv, NEW r \in Requests, AcceptUpdateInvite(r) \/ RejectUpdateInvite(r)
    PROVE  RefInv'
<1> DEFINE p == tx[r].party
<1> DEFINE a == tx[r].actor
<1>1. PICK status \in {"accepted", "rejected"} :
         /\ pc' = [pc EXCEPT ![r] = "commit"] /\ UpdateInvite(r, status)
         /\ \/ pc[r] = "accept" /\ status = "accepted"
            \/ pc[r] = "reject" /\ status = "rejected"
  BY DEF AcceptUpdateInvite, RejectUpdateInvite, Step
<1>2. /\ Inv /\ Statement(r) /\ writes[r] \in Writes
      /\ pc[r] \in Locked /\ pc[r] # "idle"
  BY <1>1 DEF RefInv, Statement, Inv, TypeOK, Locked, Statements
<1>3. /\ p \in Parties /\ invites[p] \subseteq Invite
      /\ \A i, k \in invites[p] : i.id = k.id => i = k
  BY <1>2, SeenTyped DEF RefInv, RowsInv, UniqueIds, Inv, TypeOK, TablesTypeOK
<1>4. PICK i \in PendingFor(invites[p], a) : tx[r].invite = i.id
  BY <1>1 DEF RefInv, Progress, AnswerProgress, LookedUp
<1> DEFINE js == IF status = "accepted" THEN {a} ELSE {}
<1>5. Wrote(writes[r], NoUser, js, {}, {})
  <2>1. CASE pc[r] = "accept"
    BY <1>1, <2>1 DEF RefInv, Progress, AnswerProgress
  <2>2. CASE pc[r] = "reject"
    BY <1>1, <2>2, NothingWritten DEF RefInv, Progress, AnyProgress, Reading
  <2> QED
    BY <1>1, <2>1, <2>2
<1>6. SeenInvites(r) = invites[p]
  BY <1>2, <1>5, SeenRows DEF Wrote
<1> DEFINE row == [i EXCEPT !.status = status]
<1> DEFINE w == [writes[r] EXCEPT !.invites = @ \cup {row}]
<1>7. Write(r, w)
  <2>1. {k \in SeenInvites(r) : k.id = tx[r].invite} = {i}
    BY <1>3, <1>4, <1>6 DEF PendingFor
  <2>2. {[k EXCEPT !.status = status] : k \in {i}} = {row}
    OBVIOUS
  <2> HIDE DEF row
  <2> QED
    BY <1>1, <2>1, <2>2 DEF UpdateInvite
<1>8. Moves(r, "commit", tx[r], w) /\ UNCHANGED tables
  BY <1>1, <1>2, <1>7, WriteMoves
<1>9. Wrote(w, NoUser, js, {}, {row})
  <2>1. Wrote(w, NoUser, js, {}, {} \cup {row})
    BY <1>2, <1>5, WroteMore
  <2>2. {} \cup {row} = {row}
    OBVIOUS
  <2> HIDE DEF w, row, js
  <2> QED
    BY <2>1, <2>2
<1> HIDE DEF w
<1>10. Effect(r)'
  <2>1. joined' = joined /\ invites' = invites /\ tx'[r] = tx[r] /\ writes'[r] = w
    BY <1>8 DEF tables, Moves
  <2>2. CASE pc[r] = "accept"
    <3>1. joined[p][a] = 0 /\ status = "accepted"
      BY <1>1, <2>2 DEF RefInv, Progress, AnswerProgress
    <3> QED
      BY <1>4, <1>9, <2>1, <3>1 DEF Effect, Accepting
  <2>3. CASE pc[r] = "reject"
    <3>1. status = "rejected"
      BY <1>1, <2>3
    <3> QED
      BY <1>4, <1>9, <2>1, <3>1 DEF Effect, Rejecting
  <2> QED
    BY <1>1, <2>2, <2>3
<1>11. SendProgress(r)' /\ AnswerProgress(r)' /\ OtherProgress(r)'
  BY <1>8 DEF Moves, SendProgress, AnswerProgress, OtherProgress
<1>12. "commit" \in Statements \ {"lock"} /\ "commit" \notin Reading \cup Leading
  BY DEF Statements, Reading, Leading
<1> QED
  BY <1>2, <1>8, <1>10, <1>11, <1>12, OnwardStep

\* The statements of LeaveParty.
LEMMA LeaveProgress ==
    ASSUME RefInv, NEW r \in Requests,
           LeaveDeleteMembership(r) \/ LeaveFindSuccessor(r) \/ LeaveCountRemaining(r)
    PROVE  RefInv'
<1> DEFINE p == tx[r].party
<1> DEFINE a == tx[r].actor
<1>1. /\ Inv /\ Statement(r) /\ writes[r] \in Writes
      /\ pc[r] \in {"leave", "succeed", "count"}
  BY DEF RefInv, Statement, Inv, TypeOK, LeaveDeleteMembership, LeaveFindSuccessor,
         LeaveCountRemaining, Step
<1>2. pc[r] \in Locked /\ pc[r] # "idle"
  BY <1>1 DEF Locked, Statements
<1>3. p \in Parties /\ a \in Users /\ joined[p] \in [Users -> Nat]
  BY <1>1, <1>2, SeenTyped DEF Inv, TypeOK, TablesTypeOK
<1>4. Rest(r) = [joined[p] EXCEPT ![a] = 0] /\ Stage(r)
  BY <1>1 DEF Rest, Inv
<1>5. Wrote(writes[r], writes[r].leader, {}, {a}, {}) => SeenJoined(r) = Rest(r)
  BY <1>1, <1>2, SeenRows DEF Wrote
<1>6. ASSUME NEW q \in {"succeed", "count", "commit"}, NEW w,
             Moves(r, q, tx[r], w), UNCHANGED tables,
             q = "succeed" => Wrote(w, NoUser, {}, {a}, {}) /\ leader[p] = a,
             q = "count" => Succeeded(r)',
             q = "commit" => Effect(r)'
      PROVE  RefInv'
  <2>1. SendProgress(r)' /\ AnswerProgress(r)' /\ OtherProgress(r)'
    BY <1>6 DEF Moves, SendProgress, AnswerProgress, OtherProgress
  <2>2. q \in Statements \ {"lock"} /\ q \notin Reading /\ (q \in Leading => q = "succeed")
    BY <1>6 DEF Statements, Reading, Leading
  <2>3. q \in Leading => leader[tx[r].party] = tx[r].actor
    BY <1>6, <2>2
  <2> HIDE DEF p, a
  <2> QED
    BY <1>1, <1>2, <1>6, <2>1, <2>2, <2>3, OnwardStep
<1>7. CASE LeaveDeleteMembership(r)
  <2> DEFINE w == [writes[r] EXCEPT !.leaves = {a}]
  <2>1. PICK q \in {"succeed", "count"} :
           /\ pc' = [pc EXCEPT ![r] = q] /\ pc[r] = "leave" /\ Write(r, w)
           /\ \/ q = "succeed" /\ tx[r].leader = a
              \/ q = "count" /\ tx[r].leader # a
    BY <1>7 DEF LeaveDeleteMembership, Step
  <2>2. Moves(r, q, tx[r], w) /\ UNCHANGED tables
    BY <1>1, <2>1, WriteMoves
  <2>3. Wrote(w, NoUser, {}, {a}, {})
    <3>1. Wrote(writes[r], NoUser, {}, {}, {})
      BY <2>1, NothingWritten DEF RefInv, Progress, AnyProgress, Reading
    <3> QED
      BY <1>1, <3>1, WroteMore
  <2>4. tx[r].leader = leader[p] /\ leader[p] \in Users
    BY <1>4, <2>1 DEF Stage, Locked, Statements
  <2> HIDE DEF w
  <2>5. q = "count" => Succeeded(r)'
    <3> SUFFICES ASSUME q = "count" PROVE Succeeded(r)'
      OBVIOUS
    <3>1. leader' = leader /\ joined' = joined /\ tx'[r] = tx[r] /\ writes'[r] = w
      BY <2>2 DEF tables, Moves
    <3>2. w.leader = NoUser /\ leader[p] # a
      BY <2>1, <2>3, <2>4 DEF Wrote
    <3> QED
      BY <2>3, <2>4, <3>1, <3>2 DEF Succeeded
  <2>6. q = "succeed" => leader[p] = a
    BY <2>1, <2>4
  <2> HIDE DEF p, a
  <2> QED
    BY <1>6, <2>1, <2>2, <2>3, <2>5, <2>6
<1>8. CASE LeaveFindSuccessor(r)
  <2>1. pc[r] = "succeed" /\ pc' = [pc EXCEPT ![r] = "count"]
    BY <1>8 DEF LeaveFindSuccessor, Step
  <2>2. /\ Wrote(writes[r], NoUser, {}, {a}, {}) /\ leader[p] = a
        /\ writes[r].leader = NoUser
    BY <2>1 DEF RefInv, Progress, AnyProgress, OtherProgress, Leading, Wrote
  <2>3. SeenJoined(r) = Rest(r)
    BY <1>5, <2>2
  <2>4. \E w \in Writes :
           /\ Moves(r, "count", tx[r], w) /\ UNCHANGED tables
           /\ Wrote(w, w.leader, {}, {a}, {})
           /\ Earliest(Rest(r), w.leader) \/ Members(Rest(r)) = {}
    <3>1. ASSUME NEW s \in Users, Earliest(SeenJoined(r), s),
                 Write(r, [writes[r] EXCEPT !.leader = s])
          PROVE  <2>4
      <4> DEFINE w == [writes[r] EXCEPT !.leader = s]
      <4>1. w \in Writes /\ w.leader = s
        BY <1>1 DEF Writes
      <4>2. Wrote(w, s, {}, {a}, {})
        BY <1>1, <2>2, WroteMore
      <4>3. Moves(r, "count", tx[r], w) /\ UNCHANGED tables
        BY <1>1, <2>1, <3>1, WriteMoves
      <4> HIDE DEF w
      <4> QED
        BY <2>3, <3>1, <4>1, <4>2, <4>3
    <3>2. ASSUME Members(SeenJoined(r)) = {}, ReadOnly
          PROVE  <2>4
      <4>1. Moves(r, "count", tx[r], writes[r]) /\ UNCHANGED tables
        BY <1>1, <2>1, <3>2, ReadMoves
      <4> QED
        BY <1>1, <2>2, <2>3, <3>2, <4>1
    <3> QED
      BY <1>8, <3>1, <3>2 DEF LeaveFindSuccessor
  <2>5. PICK w \in Writes :
           /\ Moves(r, "count", tx[r], w) /\ UNCHANGED tables
           /\ Wrote(w, w.leader, {}, {a}, {})
           /\ Earliest(Rest(r), w.leader) \/ Members(Rest(r)) = {}
    BY <2>4
  <2>6. Succeeded(r)'
    <3>1. leader' = leader /\ joined' = joined /\ tx'[r] = tx[r] /\ writes'[r] = w
      BY <2>5 DEF tables, Moves
    <3>2. Rest(r)' = Rest(r)
      BY <3>1 DEF Rest
    <3> QED
      BY <1>3, <2>2, <2>5, <3>1, <3>2 DEF Succeeded
  <2> HIDE DEF p, a
  <2> QED
    BY <1>6, <2>5, <2>6
<1>9. CASE LeaveCountRemaining(r)
  <2> DEFINE w == [writes[r] EXCEPT !.deleted = Members(SeenJoined(r)) = {}]
  <2>1. pc[r] = "count" /\ pc' = [pc EXCEPT ![r] = "commit"] /\ Write(r, w)
    BY <1>9 DEF LeaveCountRemaining, Step
  <2>2. Moves(r, "commit", tx[r], w) /\ UNCHANGED tables
    BY <1>1, <2>1, WriteMoves
  <2>3. Succeeded(r) /\ SeenJoined(r) = Rest(r)
    BY <1>5, <2>1 DEF RefInv, Progress, OtherProgress, Succeeded
  <2>4. /\ w.leader = writes[r].leader /\ w.joins = {} /\ w.leaves = {a} /\ w.invites = {}
        /\ w.deleted = (Members(Rest(r)) = {})
    BY <1>1, <2>3 DEF Succeeded, Wrote, Writes
  <2> HIDE DEF w
  <2>5. Effect(r)'
    <3>1. leader' = leader /\ joined' = joined /\ tx'[r] = tx[r] /\ writes'[r] = w
      BY <2>2 DEF tables, Moves
    <3>2. Rest(r)' = Rest(r)
      BY <3>1 DEF Rest
    <3>3. CASE Members(Rest(r)) = {}
      BY <2>3, <2>4, <3>1, <3>2, <3>3 DEF Succeeded, Effect, Disbanding
    <3>4. CASE Members(Rest(r)) # {}
      <4>1. Wrote(w, w.leader, {}, {a}, {})
        BY <2>4, <3>4 DEF Wrote
      <4> QED
        BY <2>3, <2>4, <3>1, <3>2, <3>4, <4>1 DEF Succeeded, Effect, Leaving
    <3> QED
      BY <3>3, <3>4
  <2> HIDE DEF p, a
  <2> QED
    BY <1>6, <2>2, <2>5
<1> QED
  BY <1>7, <1>8, <1>9

\* The statements of StepDown.
LEMMA StepDownProgress ==
    ASSUME RefInv, NEW r \in Requests,
           StepDownCountMembers(r) \/ StepDownCheckTarget(r) \/ StepDownUpdateLeader(r)
    PROVE  RefInv'
<1> DEFINE p == tx[r].party
<1> DEFINE t == tx[r].target
<1>1. /\ Inv /\ Statement(r) /\ writes[r] \in Writes
      /\ pc[r] \in {"countMembers", "checkTarget", "handOver"}
  BY DEF RefInv, Statement, Inv, TypeOK, StepDownCountMembers, StepDownCheckTarget,
         StepDownUpdateLeader, Step
<1>2. pc[r] \in Locked \cap Reading \cap Leading \cap Targeting /\ pc[r] # "idle"
  BY <1>1 DEF Locked, Statements, Reading, Leading, Targeting
<1>3. writes[r] = NoWrites /\ leader[p] = tx[r].actor /\ t \in Users
  BY <1>1, <1>2 DEF RefInv, Progress, AnyProgress, Inv, Call
<1>4. SeenJoined(r) = joined[p]
  BY <1>1, <1>2, <1>3, SeenCommitted
<1>5. ASSUME NEW q \in {"checkTarget", "handOver", "commit"}, NEW w,
             Moves(r, q, tx[r], w), UNCHANGED tables,
             q # "commit" => w = NoWrites /\ Accompanied(r),
             q = "handOver" => joined[p][t] # 0,
             q = "commit" => Effect(r)'
      PROVE  RefInv'
  <2>1. joined' = joined
    BY <1>5 DEF tables
  <2>2. SendProgress(r)' /\ AnswerProgress(r)' /\ OtherProgress(r)'
    BY <1>5, <2>1 DEF Moves, SendProgress, AnswerProgress, OtherProgress, Accompanied
  <2>3. q \in Statements \ {"lock"} /\ (q \in Reading => q # "commit")
    BY <1>5 DEF Statements, Reading
  <2>4. q \in Reading => w = NoWrites
    BY <1>5, <2>3
  <2> HIDE DEF p, t
  <2> QED
    BY <1>1, <1>2, <1>3, <1>5, <2>2, <2>3, <2>4, OnwardStep DEF p
<1>6. CASE StepDownCountMembers(r)
  <2>1. Moves(r, "checkTarget", tx[r], writes[r]) /\ UNCHANGED tables
    BY <1>1, <1>6, ReadMoves DEF StepDownCountMembers, Step
  <2>2. Accompanied(r)
    BY <1>4, <1>6 DEF StepDownCountMembers, Accompanied
  <2> HIDE DEF p, t
  <2> QED
    BY <1>3, <1>5, <2>1, <2>2
<1>7. CASE StepDownCheckTarget(r)
  <2>1. Moves(r, "handOver", tx[r], writes[r]) /\ UNCHANGED tables
    BY <1>1, <1>7, ReadMoves DEF StepDownCheckTarget, Step
  <2>2. Accompanied(r) /\ joined[p][t] # 0
    BY <1>4, <1>7
    DEF StepDownCheckTarget, Step, Members, RefInv, Progress, OtherProgress
  <2> HIDE DEF p, t
  <2> QED
    BY <1>3, <1>5, <2>1, <2>2
<1>8. CASE StepDownUpdateLeader(r)
  <2> DEFINE w == [writes[r] EXCEPT !.leader = t]
  <2>1. pc[r] = "handOver" /\ pc' = [pc EXCEPT ![r] = "commit"] /\ Write(r, w)
    BY <1>8 DEF StepDownUpdateLeader, Step
  <2>2. Moves(r, "commit", tx[r], w) /\ UNCHANGED tables
    BY <1>1, <2>1, WriteMoves
  <2>3. Wrote(w, t, {}, {}, {})
    BY <1>1, <1>3, NothingWritten, WroteMore
  <2>4. Accompanied(r) /\ joined[p][t] # 0
    BY <2>1 DEF RefInv, Progress, OtherProgress
  <2> HIDE DEF w
  <2>5. Effect(r)'
    BY <1>3, <2>2, <2>3, <2>4 DEF Moves, tables, Effect, HandingOver, Accompanied
  <2> HIDE DEF p, t
  <2> QED
    BY <1>5, <2>2, <2>5
<1> QED
  BY <1>6, <1>7, <1>8

-----------------------------------------------------------------------------
(* The invariant, and the refinement step by step.                         *)

\* Nothing is in progress while no request is in a transaction.
LEMMA NoneInProgress ==
    ASSUME Idle, NEW r \in Requests
    PROVE  Progress(r)
<1>1. pc[r] = "idle"
  BY DEF Idle
<1> QED
  BY <1>1 DEF Progress, AnyProgress, SendProgress, AnswerProgress, OtherProgress,
              Reading, Leading

LEMMA RefInit == Init => RefInv /\ P!TablesInit
<1> SUFFICES ASSUME Init PROVE RefInv /\ P!TablesInit
  OBVIOUS
<1>1. Inv /\ RowsInv
  BY InitInv, InitRows
<1>2. \A r \in Requests : Progress(r)
  BY NoneInProgress DEF Init
<1>3. P!TablesInit
  BY DEF Init, TablesInit, P!TablesInit, Unborn, P!Unborn
<1> QED
  BY <1>1, <1>2, <1>3 DEF RefInv

\* What the store can be started on: rows that obey the rules, whoever is in
\* which party already, and no transaction open, as after a crash.
Started ==
    /\ Idle
    /\ TablesTypeOK /\ clock # 0
    /\ LeaderIsMember /\ NoOrphanRows /\ RowsInv

LEMMA StartedInv == Started => RefInv
<1> SUFFICES ASSUME Started PROVE RefInv
  OBVIOUS
<1>1. Inv
  BY IdleInv DEF Started
<1>2. \A r \in Requests : Progress(r)
  BY NoneInProgress DEF Started
<1> QED
  BY <1>1, <1>2 DEF Started, RefInv

\* Parties as their creators have just made them are one such start.
LEMMA FormedIsStarted == FormedInit => Started
<1> SUFFICES ASSUME FormedInit PROVE Started
  OBVIOUS
<1>1. PICK creator \in [Parties -> Users] :
        /\ leader = creator
        /\ joined = [p \in Parties |-> [u \in Users |-> IF u = creator[p] THEN 1 ELSE 0]]
        /\ users = [u \in Users |->
                       IF \E p \in Parties : creator[p] = u THEN "signedIn" ELSE "friend"]
  BY DEF FormedInit
<1>2. Idle /\ clock = 1 /\ \A p \in Parties : invites[p] = {}
  BY DEF FormedInit
<1>3. ASSUME NEW p \in Parties
      PROVE  leader[p] \in Users /\ Members(joined[p]) = {leader[p]}
  <2>1. leader[p] = creator[p] /\ creator[p] \in Users
    BY <1>1
  <2>2. joined[p] = [u \in Users |-> IF u = creator[p] THEN 1 ELSE 0]
    BY <1>1
  <2>3. ASSUME NEW u \in Users PROVE joined[p][u] # 0 <=> u \in {creator[p]}
    BY <2>2
  <2>4. Members(joined[p]) \subseteq {creator[p]}
    BY <2>3 DEF Members
  <2>5. creator[p] \in Members(joined[p])
    BY <2>1, <2>3 DEF Members
  <2> QED
    BY <2>1, <2>4, <2>5
<1>4. TablesTypeOK
  <2>1. users \in [Users -> Standings] /\ leader \in [Parties -> Users \cup {Unborn, Gone}]
    BY <1>1 DEF Standings
  <2>2. joined \in [Parties -> [Users -> Nat]]
    BY <1>1
  <2>3. invites \in [Parties -> SUBSET Invite]
    BY DEF FormedInit
  <2> QED
    BY <1>2, <2>1, <2>2, <2>3 DEF TablesTypeOK
<1>5. LeaderIsMember /\ NoOrphanRows
  <2>1. \A p \in Parties : leader[p] \in Users /\ joined[p][leader[p]] # 0
    BY <1>3 DEF Members
  <2> QED
    BY <2>1 DEF LeaderIsMember, NoOrphanRows, Live
<1>6. RowsInv
  BY <1>2, <1>3 DEF RowsInv, UniqueIds, PendingInviteIsOpen, MembersWereInvited,
                    OnlySignedInAreAsked
<1> QED
  BY <1>2, <1>4, <1>5, <1>6 DEF Started

LEMMA StatementProgress ==
    ASSUME RefInv, NEW r \in Requests, Statement(r)
    PROVE  RefInv'
BY LockProgress, RollbackProgress, CommitProgress, CreateProgress, SendReadProgress,
   SendWriteProgress, LookupProgress, JoinProgress, UpdateProgress, LeaveProgress,
   StepDownProgress
DEF Statement

LEMMA RefNext == RefInv /\ [Next]_vars => RefInv'
<1> SUFFICES ASSUME RefInv, [Next]_vars PROVE RefInv'
  OBVIOUS
<1>1. CASE UsersStep
  BY <1>1, UsersProgress
<1>2. ASSUME NEW r \in Requests, NEW op \in Ops, NEW p \in Parties \cup {Unborn},
             NEW a \in Users, NEW t \in Users \cup {NoUser}, Begin(r, op, p, a, t)
      PROVE  RefInv'
  BY <1>2, BeginProgress
<1>3. ASSUME NEW r \in Requests, Statement(r) \/ Fail(r)
      PROVE  RefInv'
  BY <1>3, StatementProgress, RollbackProgress
<1>4. CASE UNCHANGED vars
  <2>1. UNCHANGED <<users, leader, joined, invites, clock, pc, tx, writes>>
    BY <1>4 DEF vars
  <2>2. RowsInv'
    BY <2>1 DEF RefInv, RowsInv, UniqueIds, PendingInviteIsOpen, MembersWereInvited,
                OnlySignedInAreAsked
  <2>3. Inv'
    BY NextInv DEF RefInv
  <2>4. clock \in Nat
    BY DEF RefInv, Inv, TypeOK, TablesTypeOK
  <2>5. ASSUME NEW s \in Requests PROVE Progress(s)'
    BY <2>1, <2>4, ProgressFrame DEF RefInv
  <2> QED
    BY <2>2, <2>3, <2>5 DEF RefInv
<1> QED
  BY <1>1, <1>2, <1>3, <1>4 DEF Next

\* A step of the store is a step of Party or leaves the committed rows alone.
LEMMA StepIsCall ==
    ASSUME RefInv, [Next]_vars
    PROVE  [P!Next]_(P!tables)
<1>1. UsersStep => P!Next
  BY DEF UsersStep, P!Next, UpsertUser, UpsertFriend, Tick,
           P!UpsertUser, P!UpsertFriend, P!Tick
<1>2. ASSUME NEW r \in Requests, Commit(r)
      PROVE  P!Next
  BY <1>2, CommitIsCall DEF P!Next
<1>3. ASSUME NEW r \in Requests, Statement(r), ~Commit(r)
      PROVE  UNCHANGED tables
  BY <1>3
  DEF Statement, LockParty, Refuse, CreateInsertParty, CreateInsertLeader,
      SendCheckMember, SendCheckPending, SendReadTarget, SendInsertPending,
      SendInsertAccepted, SendInsertMembership, AcceptLookup, AcceptInsertMembership,
      AcceptUpdateInvite, RejectLookup, RejectUpdateInvite, LookupInvite,
      LeaveDeleteMembership, LeaveFindSuccessor, LeaveCountRemaining,
      StepDownCountMembers, StepDownCheckTarget, StepDownUpdateLeader,
      InsertMembership, InsertInvite, UpdateInvite, Write, ReadOnly
<1>4. ASSUME NEW r \in Requests, NEW op \in Ops, NEW p \in Parties \cup {Unborn},
             NEW a \in Users, NEW t \in Users \cup {NoUser}, Begin(r, op, p, a, t)
      PROVE  UNCHANGED tables
  BY <1>4 DEF Begin
<1>5. ASSUME NEW r \in Requests, Fail(r)
      PROVE  UNCHANGED tables
  BY <1>5 DEF Fail
<1>6. Next => P!Next \/ UNCHANGED tables
  BY <1>1, <1>2, <1>3, <1>4, <1>5 DEF Next
<1>7. UNCHANGED vars => UNCHANGED tables
  BY DEF vars, tables
<1>8. UNCHANGED tables => UNCHANGED P!tables
  BY DEF tables, P!tables
<1> QED
  BY <1>6, <1>7, <1>8

\* The invariant holds of every reachable state.
LEMMA AlwaysRefInv == Spec => []RefInv
<1>1. Init => RefInv
  BY RefInit
<1> QED
  BY <1>1, RefNext, PTL DEF Spec

\* Every call of the store takes effect in one step that follows the rules of
\* Party, or not at all, however the statements of many requests interleave
\* (db.go:187-658): what READ COMMITTED and the party row's lock give together.
THEOREM StoreImplementsParty == Spec => ImplementsParty
<1>1. RefInv /\ [Next]_vars => [P!Next]_(P!tables)
  BY StepIsCall
<1>2. Init => P!TablesInit
  BY RefInit
<1> QED
  BY <1>1, <1>2, AlwaysRefInv, PTL DEF Spec, ImplementsParty, P!Spec

\* The same of a store that is started on any rows that obey the rules, with the
\* transactions of an earlier process rolled back: no call needs the parties to have
\* been made while it ran (db.go:187-658).
THEOREM StartedStoreStepsAsParty == Started /\ [][Next]_vars => StepsImplementParty
<1>1. RefInv /\ [Next]_vars => [P!Next]_tables
  <2>1. ASSUME RefInv, [Next]_vars PROVE [P!Next]_(P!tables)
    BY <2>1, StepIsCall
  <2>2. UNCHANGED P!tables => UNCHANGED tables
    BY DEF P!tables, tables
  <2> QED
    BY <2>1, <2>2
<1> QED
  BY <1>1, StartedInv, RefNext, PTL DEF StepsImplementParty

\* From parties with a creator each on, every step of the store is one of Party: in
\* particular leadership passes to the earliest joined_at, whatever order the
\* transactions commit in (LeaveParty's successor, db.go:345-352).
THEOREM FormedPartiesStepAsParty == FormedSpec => StepsImplementParty
BY FormedIsStarted, StartedStoreStepsAsParty, PTL DEF FormedSpec

\* At most one pending invite per user and party, and none to a member: an
\* answer and a second invitation that race leave no invite nobody can answer
\* (SendInvite and AcceptInvite, db.go:447-605).
THEOREM PendingAlwaysOpen == Spec => []PendingInviteIsOpen
<1>1. RefInv => PendingInviteIsOpen
  BY DEF RefInv, RowsInv
<1> QED
  BY <1>1, AlwaysRefInv, PTL

\* Nobody but the creator is ever in a party without an accepted invite to it:
\* the two tables agree although separate statements write them.
THEOREM MembersAlwaysInvited == Spec => []MembersWereInvited
<1>1. RefInv => MembersWereInvited
  BY DEF RefInv, RowsInv
<1> QED
  BY <1>1, AlwaysRefInv, PTL

\* What a call of Party does to the members and the accepted invites.
LEMMA CallJoins ==
    ASSUME TablesTypeOK, RowsInv, NEW p \in Parties, NEW a \in Users, NEW t \in Users,
           P!PartyCall(p, a, t), NEW q \in Parties, NEW u \in Users, Live(q), Live(q)'
    PROVE  joined[q][u] = 0 /\ joined'[q][u] # 0
             <=> AcceptedFor(invites'[q], u) \ AcceptedFor(invites[q], u) # {}
<1> USE DEF TablesTypeOK
<1>1. CASE P!CreateParty(p, a)
  <2>1. q # p /\ invites' = invites
    BY <1>1, SameHelpers, UsersAssumption DEF P!CreateParty, Live, Unborn
  <2>2. joined'[q] = joined[q]
    BY <1>1, <2>1 DEF P!CreateParty
  <2> QED
    BY <2>1, <2>2
<1>2. CASE P!SendInvite(p, a, t)
  <2>1. PICK i \in InviteIds :
            invites' = [invites EXCEPT ![p] = @ \cup {Row(i, t, "pending")}]
    BY <1>2 DEF P!SendInvite, Row
  <2>2. joined' = joined /\ Row(i, t, "pending").status = "pending"
    BY <1>2 DEF P!SendInvite, Row
  <2> QED
    BY <2>1, <2>2 DEF AcceptedFor
<1>3. CASE P!AddFriend(p, a, t)
  <2>1. PICK i \in InviteIds :
            /\ P!FreshInvite(p, i)
            /\ invites' = [invites EXCEPT ![p] = @ \cup {Row(i, t, "accepted")}]
    BY <1>3 DEF P!AddFriend, Row
  <2>2. PICK at \in P!JoinTimes : joined' = [joined EXCEPT ![p][t] = at]
    BY <1>3 DEF P!AddFriend
  <2>3. at # 0 /\ joined[p][t] = 0
    BY <1>3, SameHelpers DEF P!AddFriend, P!JoinTimes
  <2> DEFINE new == Row(i, t, "accepted")
  <2>4. new.user = t /\ new.status = "accepted" /\ new \notin invites[p]
    BY <2>1 DEF Row, P!FreshInvite
  <2> HIDE DEF new
  <2>5. invites'[p] = invites[p] \cup {new} /\ (q # p => invites'[q] = invites[q])
    BY <2>1 DEF new
  <2>6. /\ joined'[p][t] = at /\ (u # t => joined'[p][u] = joined[p][u])
        /\ q # p => joined'[q] = joined[q]
    BY <2>2
  <2>7. CASE q = p /\ u = t
    <3>1. new \in AcceptedFor(invites'[q], u) \ AcceptedFor(invites[q], u)
      BY <2>4, <2>5, <2>7 DEF AcceptedFor
    <3> QED
      BY <2>3, <2>6, <2>7, <3>1
  <2>8. CASE ~(q = p /\ u = t)
    <3>1. AcceptedFor(invites'[q], u) = AcceptedFor(invites[q], u)
      BY <2>4, <2>5, <2>8 DEF AcceptedFor
    <3> QED
      BY <2>6, <2>8, <3>1
  <2> QED
    BY <2>7, <2>8
<1>4. CASE P!AcceptInvite(p, a)
  <2>1. PICK i \in PendingFor(invites[p], a) :
            invites' = [invites EXCEPT ![p] =
                           (@ \ {i}) \cup {[i EXCEPT !.status = "accepted"]}]
    BY <1>4, SameHelpers DEF P!AcceptInvite, P!Answer
  <2>2. PICK at \in P!JoinTimes : joined' = [joined EXCEPT ![p][a] = at]
    BY <1>4 DEF P!AcceptInvite
  <2>3. at # 0 /\ joined[p][a] = 0
    BY <1>4, SameHelpers DEF P!AcceptInvite, P!JoinTimes
  <2> DEFINE new == [i EXCEPT !.status = "accepted"]
  <2>4. i \in invites[p] /\ i \in Invite /\ i.user = a /\ i.status = "pending"
    BY DEF PendingFor
  <2>5. /\ new.user = a /\ new.status = "accepted" /\ new.id = i.id
        /\ new # i
    BY <2>4 DEF Invite
  <2> HIDE DEF new
  <2>6. new \notin invites[p]
    BY <2>4, <2>5 DEF RowsInv, UniqueIds
  <2>7. /\ invites'[p] = (invites[p] \ {i}) \cup {new}
        /\ q # p => invites'[q] = invites[q]
    BY <2>1 DEF new
  <2>8. /\ joined'[p][a] = at /\ (u # a => joined'[p][u] = joined[p][u])
        /\ q # p => joined'[q] = joined[q]
    BY <2>2
  <2>9. CASE q = p /\ u = a
    <3>1. new \in AcceptedFor(invites'[q], u) \ AcceptedFor(invites[q], u)
      BY <2>5, <2>6, <2>7, <2>9 DEF AcceptedFor
    <3> QED
      BY <2>3, <2>8, <2>9, <3>1
  <2>10. CASE ~(q = p /\ u = a)
    <3>1. AcceptedFor(invites'[q], u) \subseteq AcceptedFor(invites[q], u)
      BY <2>5, <2>7, <2>10 DEF AcceptedFor
    <3> QED
      BY <2>8, <2>10, <3>1
  <2> QED
    BY <2>9, <2>10
<1>5. CASE P!RejectInvite(p, a)
  <2>1. PICK i \in PendingFor(invites[p], a) :
            invites' = [invites EXCEPT ![p] =
                           (@ \ {i}) \cup {[i EXCEPT !.status = "rejected"]}]
    BY <1>5, SameHelpers DEF P!RejectInvite, P!Answer
  <2>2. i \in Invite
    BY DEF PendingFor
  <2>3. joined' = joined /\ [i EXCEPT !.status = "rejected"].status = "rejected"
    BY <1>5, <2>2 DEF P!RejectInvite, Invite
  <2>4. AcceptedFor(invites'[q], u) \subseteq AcceptedFor(invites[q], u)
    BY <2>1, <2>3 DEF AcceptedFor
  <2> QED
    BY <2>3, <2>4
<1>6. CASE P!LeaveParty(p, a)
  <2>1. invites' = invites /\ joined' = [joined EXCEPT ![p] = [joined[p] EXCEPT ![a] = 0]]
    BY <1>6 DEF P!LeaveParty
  <2>2. joined[q][u] = 0 => joined'[q][u] = 0
    BY <2>1
  <2> QED
    BY <2>1, <2>2
<1>7. CASE P!DisbandParty(p, a)
  <2>1. q # p
    BY <1>7, SameHelpers, UsersAssumption DEF P!DisbandParty, Live, Gone
  <2>2. invites'[q] = invites[q] /\ joined'[q] = joined[q]
    BY <1>7, <2>1 DEF P!DisbandParty
  <2> QED
    BY <2>2
<1>8. CASE P!StepDown(p, a, t)
  BY <1>8 DEF P!StepDown
<1> QED
  BY <1>1, <1>2, <1>3, <1>4, <1>5, <1>6, <1>7, <1>8 DEF P!PartyCall

\* A user joins a party exactly when an invite of theirs is accepted, although the two
\* rows are written by different statements (db.go:486-500, 530-547).
THEOREM JoinsAlwaysAnswered == Spec => JoinsAreAnswered
<1>1. RefInv /\ [Next]_vars =>
        [\A p \in Parties, u \in Users : Live(p) /\ Live(p)' =>
            (joined[p][u] = 0 /\ joined'[p][u] # 0
                <=> AcceptedFor(invites'[p], u) \ AcceptedFor(invites[p], u) # {})]_tables
  <2> SUFFICES ASSUME RefInv, [Next]_vars, tables' # tables,
                      NEW q \in Parties, NEW u \in Users, Live(q), Live(q)'
               PROVE  joined[q][u] = 0 /\ joined'[q][u] # 0
                        <=> AcceptedFor(invites'[q], u) \ AcceptedFor(invites[q], u) # {}
    OBVIOUS
  <2>1. P!Next
    BY StepIsCall DEF P!tables, tables
  <2>2. TablesTypeOK /\ RowsInv
    BY DEF RefInv, Inv, TypeOK
  <2>3. CASE \E v \in Users : P!UpsertUser(v) \/ P!UpsertFriend(v)
    BY <2>3 DEF P!UpsertUser, P!UpsertFriend
  <2>4. CASE P!Tick
    BY <2>4 DEF P!Tick
  <2>5. ASSUME NEW p \in Parties, NEW a \in Users, NEW t \in Users, P!PartyCall(p, a, t)
        PROVE  joined[q][u] = 0 /\ joined'[q][u] # 0
                 <=> AcceptedFor(invites'[q], u) \ AcceptedFor(invites[q], u) # {}
    BY <2>2, <2>5, CallJoins
  <2> QED
    BY <2>1, <2>3, <2>4, <2>5 DEF P!Next
<1> QED
  BY <1>1, AlwaysRefInv, PTL DEF Spec, JoinsAreAnswered

\* Only users who have signed in hold pending invites, although ever_logged_in
\* is read without locking the users row (db.go:483-500).
THEOREM OnlySignedInAlwaysAsked == Spec => []OnlySignedInAreAsked
<1>1. RefInv => OnlySignedInAreAsked
  BY DEF RefInv, RowsInv
<1> QED
  BY <1>1, AlwaysRefInv, PTL

\* No insert of a membership or a pending invite ever meets a duplicate key, so
\* the 23505 branch of SendInvite (db.go:502-509) is unreachable.
THEOREM InsertsAlwaysClear == Spec => []InsertsNeverConflict
<1>1. RefInv => InsertsNeverConflict
  <2> SUFFICES ASSUME RefInv, NEW r \in Requests
               PROVE  /\ pc[r] = "invite" =>
                            PendingFor(SeenInvites(r), tx[r].target) = {}
                      /\ pc[r] = "joinFriend" => joined[tx[r].party][tx[r].target] = 0
                      /\ pc[r] = "join" => joined[tx[r].party][tx[r].actor] = 0
    BY DEF InsertsNeverConflict
  <2>1. ASSUME pc[r] = "invite"
        PROVE  PendingFor(SeenInvites(r), tx[r].target) = {}
    <3>1. Inv /\ pc[r] \in Locked /\ writes[r] = NoWrites
      BY <2>1 DEF RefInv, Progress, AnyProgress, Reading, Locked, Statements
    <3>2. PendingFor(invites[tx[r].party], tx[r].target) = {}
      BY <2>1 DEF RefInv, Progress, SendProgress
    <3> QED
      BY <3>1, <3>2, SeenCommitted
  <2> QED
    BY <2>1 DEF RefInv, Progress, SendProgress, AnswerProgress
<1> QED
  BY <1>1, AlwaysRefInv, PTL

=============================================================================
