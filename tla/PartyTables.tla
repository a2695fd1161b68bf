---------------------------- MODULE PartyTables ----------------------------
(***************************************************************************)
(* The committed rows of the tables users, parties, memberships and        *)
(* invites (migrations/0001, 0002 and 0004), and what must be true of them *)
(* whenever any request may read them.  Party and PartyStore both extend   *)
(* this module: the first changes these rows in one step per store call,   *)
(* the second one SQL statement at a time.                                 *)
(***************************************************************************)
EXTENDS Integers

CONSTANTS
    Users,      \* ids of the users table; bigserial, so ordered numbers
    Parties,    \* party ids (random UUIDs, never used twice)
    InviteIds,  \* invite ids; bounds how many invites a party ever holds
    MaxTime     \* bound on the database clock

ASSUME UsersAssumption == Users \subseteq Nat
ASSUME MaxTimeAssumption == MaxTime \in Nat \ {0}

\* leader[p] of a party row not inserted yet, and of a deleted one.
Unborn == -1
Gone == -2

Statuses == {"pending", "accepted", "rejected"}

Invite == [id : InviteIds, user : Users, status : Statuses]

\* No row, a row made for a friend, a row of a user who has signed in.
Standings == {"unknown", "friend", "signedIn"}

VARIABLES
    users,    \* users[u]: the row's ever_logged_in, or "unknown" without a row
    leader,   \* leader[p]: parties.leader_id
    joined,   \* joined[p][u]: memberships.joined_at, 0 without a row
    invites,  \* invites[p]: the invites rows of the party
    clock     \* the database clock, read by now()

tables == <<users, leader, joined, invites, clock>>

TablesTypeOK ==
    /\ users \in [Users -> Standings]
    /\ leader \in [Parties -> Users \cup {Unborn, Gone}]
    /\ joined \in [Parties -> [Users -> Nat]]
    /\ invites \in [Parties -> SUBSET Invite]
    /\ clock \in Nat

TablesInit ==
    /\ users = [u \in Users |-> "unknown"]
    /\ leader = [p \in Parties |-> Unborn]
    /\ joined = [p \in Parties |-> [u \in Users |-> 0]]
    /\ invites = [p \in Parties |-> {}]
    /\ clock = 1

Live(p) == leader[p] \in Users

Members(j) == {u \in Users : j[u] # 0}

\* ORDER BY joined_at, user_id LIMIT 1 over the membership rows j.
Earliest(j, u) ==
    /\ u \in Members(j)
    /\ \A v \in Members(j) : j[u] < j[v] \/ (j[u] = j[v] /\ u <= v)

PendingFor(rows, u) == {i \in rows : i.user = u /\ i.status = "pending"}

AcceptedFor(rows, u) == {i \in rows : i.user = u /\ i.status = "accepted"}

-----------------------------------------------------------------------------
(* Steps of the users table and of the clock: one statement each.          *)

\* A sign-in records the verified user and marks the row signed in.
UpsertUser(u) ==
    /\ users' = [users EXCEPT ![u] = "signedIn"]
    /\ UNCHANGED <<leader, joined, invites, clock>>

\* Mutant of UpsertFriend: the conflict overwrites ever_logged_in.
UpsertFriendDemoting(u) ==
    /\ users' = [users EXCEPT ![u] = "friend"]
    /\ UNCHANGED <<leader, joined, invites, clock>>

\* A sync or an invitation records a friend; an existing row keeps its flag.
UpsertFriend(u) ==
    /\ users' = [users EXCEPT ![u] = IF @ = "unknown" THEN "friend" ELSE @]
    /\ UNCHANGED <<leader, joined, invites, clock>>

Tick ==
    /\ clock < MaxTime
    /\ clock' = clock + 1
    /\ UNCHANGED <<users, leader, joined, invites>>

-----------------------------------------------------------------------------
(* Safety of the committed rows.                                           *)

\* Every live party is led by one of its own members, so no party survives
\* its last member and none is left without someone who may invite, schedule
\* or step down (LeaveParty, StepDown; db.go:327-427).
LeaderIsMember ==
    \A p \in Parties : Live(p) => joined[p][leader[p]] # 0

\* A party that does not exist, or no longer exists, holds no row: a reply or
\* an invitation that races the last member's leave must not resurrect one.
NoOrphanRows ==
    \A p \in Parties : ~Live(p) => Members(joined[p]) = {} /\ invites[p] = {}

\* A user has at most one pending invite to a party, and none to a party they
\* already belong to (SendInvite against AcceptInvite and itself).
PendingInviteIsOpen ==
    \A p \in Parties : \A i \in invites[p] :
        i.status = "pending" =>
            /\ PendingFor(invites[p], i.user) = {i}
            /\ joined[p][i.user] = 0

\* Apart from the one who created it, nobody is in a party without an accepted
\* invite to it: two tables written by different statements agree.
MembersWereInvited ==
    \A p \in Parties : \A u, v \in Members(joined[p]) :
        \/ u = v
        \/ \E i \in invites[p] : i.user \in {u, v} /\ i.status = "accepted"

\* A user joins a party exactly when an invite of theirs is accepted: no request
\* ever reads an accepted invite without the membership, nor a membership that
\* came without an invite, whichever statement of the call failed and whoever left
\* or asked meanwhile (AcceptInvite and the friend branch of SendInvite,
\* db.go:486-500, 530-547).  The creator joins with the party itself.
JoinsAreAnswered ==
    [][\A p \in Parties, u \in Users : Live(p) /\ Live(p)' =>
          (joined[p][u] = 0 /\ joined'[p][u] # 0
              <=> AcceptedFor(invites'[p], u) \ AcceptedFor(invites[p], u) # {})]_tables

\* Only a user who has signed in holds an invite to answer; one who has not
\* could never answer it (SendInvite, db.go:483-500).
OnlySignedInAreAsked ==
    \A p \in Parties : \A i \in invites[p] :
        i.status = "pending" => users[i.user] = "signedIn"

=============================================================================
