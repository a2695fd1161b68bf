------------------------------- MODULE Party -------------------------------
(***************************************************************************)
(* What the party store promises its callers: every call either changes    *)
(* nothing or takes effect in one step, under the rules below, however     *)
(* many requests run at once.  PartyStore implements it.                   *)
(***************************************************************************)
EXTENDS PartyTables

\* A joining user's joined_at: the time their transaction began, which is not
\* later than now and may be earlier than the rows committed meanwhile.
JoinTimes == 1 .. clock

FreshInvite(p, i) == \A row \in invites[p] : row.id # i

\* The creator leads the new party and is its only member.
CreateParty(p, a) ==
    /\ leader[p] = Unborn
    /\ users[a] = "signedIn"
    /\ leader' = [leader EXCEPT ![p] = a]
    /\ \E at \in JoinTimes : joined' = [joined EXCEPT ![p][a] = at]
    /\ UNCHANGED <<users, invites, clock>>

\* The leader asks a signed-in user who is neither a member nor asked already.
SendInvite(p, a, t) ==
    /\ leader[p] = a
    /\ users[t] = "signedIn"
    /\ joined[p][t] = 0
    /\ PendingFor(invites[p], t) = {}
    /\ \E i \in InviteIds :
          /\ FreshInvite(p, i)
          /\ invites' = [invites EXCEPT ![p] =
                             @ \cup {[id |-> i, user |-> t, status |-> "pending"]}]
    /\ UNCHANGED <<users, leader, joined, clock>>

\* The leader joins a user seen not to have signed in.  The user may have
\* signed in since the flag was read, so the standing here is only "known".
AddFriend(p, a, t) ==
    /\ leader[p] = a
    /\ users[t] # "unknown"
    /\ joined[p][t] = 0
    /\ PendingFor(invites[p], t) = {}
    /\ \E i \in InviteIds :
          /\ FreshInvite(p, i)
          /\ invites' = [invites EXCEPT ![p] =
                             @ \cup {[id |-> i, user |-> t, status |-> "accepted"]}]
    /\ \E at \in JoinTimes : joined' = [joined EXCEPT ![p][t] = at]
    /\ UNCHANGED <<users, leader, clock>>

Answer(p, i, status) ==
    invites' = [invites EXCEPT ![p] = (@ \ {i}) \cup {[i EXCEPT !.status = status]}]

\* The invitee joins and consumes the invite.
AcceptInvite(p, a) ==
    /\ \E i \in PendingFor(invites[p], a) : Answer(p, i, "accepted")
    /\ joined[p][a] = 0
    /\ \E at \in JoinTimes : joined' = [joined EXCEPT ![p][a] = at]
    /\ UNCHANGED <<users, leader, clock>>

\* The invitee declines and consumes the invite.
RejectInvite(p, a) ==
    /\ \E i \in PendingFor(invites[p], a) : Answer(p, i, "rejected")
    /\ UNCHANGED <<users, leader, joined, clock>>

\* A member leaves; others remain, and a leaving leader is succeeded by the
\* earliest-joined of them.
LeaveParty(p, a) ==
    /\ Live(p)
    /\ LET rest == [joined[p] EXCEPT ![a] = 0]
       IN  /\ Members(rest) # {}
           /\ joined' = [joined EXCEPT ![p] = rest]
           /\ \/ leader[p] # a /\ UNCHANGED leader
              \/ /\ leader[p] = a
                 /\ \E s \in Users : /\ Earliest(rest, s)
                                     /\ leader' = [leader EXCEPT ![p] = s]
    /\ UNCHANGED <<users, invites, clock>>

\* The only member leaves and takes the party and its rows with them.
DisbandParty(p, a) ==
    /\ Live(p)
    /\ Members(joined[p]) \subseteq {a}
    /\ leader' = [leader EXCEPT ![p] = Gone]
    /\ joined' = [joined EXCEPT ![p] = [u \in Users |-> 0]]
    /\ invites' = [invites EXCEPT ![p] = {}]
    /\ UNCHANGED <<users, clock>>

\* The leader of a party of two or more hands leadership to a member.
StepDown(p, a, t) ==
    /\ leader[p] = a
    /\ \E other \in Members(joined[p]) : other # a
    /\ joined[p][t] # 0
    /\ leader' = [leader EXCEPT ![p] = t]
    /\ UNCHANGED <<users, joined, invites, clock>>

-----------------------------------------------------------------------------
PartyCall(p, a, t) ==
    \/ CreateParty(p, a)
    \/ SendInvite(p, a, t)
    \/ AddFriend(p, a, t)
    \/ AcceptInvite(p, a)
    \/ RejectInvite(p, a)
    \/ LeaveParty(p, a)
    \/ DisbandParty(p, a)
    \/ StepDown(p, a, t)

Next ==
    \/ \E u \in Users : UpsertUser(u) \/ UpsertFriend(u)
    \/ Tick
    \/ \E p \in Parties, a, t \in Users : PartyCall(p, a, t)

Spec == TablesInit /\ [][Next]_tables

=============================================================================
