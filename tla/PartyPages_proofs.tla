------------------------- MODULE PartyPages_proofs -------------------------
(***************************************************************************)
(* What the handlers of PartyPages still guarantee although each of their  *)
(* reads is a statement of its own, for any users, parties, games and      *)
(* number of requests at once.                                             *)
(*                                                                         *)
(* The argument: users rows are never deleted and libraries never shrink,  *)
(* so what a visit has read of them stays true (VisitInv); memberships and *)
(* invites may change at any time, but open and shut have seen each of     *)
(* their states since the first query of the picker.                       *)
(***************************************************************************)
EXTENDS PartyPages, TLAPS

Steps == {"idle", "member", "roster", "friends", "resolve", "pending", "upsert",
          "send", "added", "sync", "games", "insert", "known", "excluded", "shown"}

Pages == [handler : Handlers \cup {"none"}, party : Parties \cup {Unborn},
          actor : Users \cup {Nobody}, target : Users \cup {Nobody},
          game : Games \cup {NoGame}, roster : SUBSET Users,
          friends : SUBSET Users, known : SUBSET Users, merged : SUBSET Users]

PagesTypeOK ==
    /\ TablesTypeOK
    /\ step \in [Visits -> Steps]
    /\ page \in [Visits -> Pages]
    /\ library \in [Users -> SUBSET Games]
    /\ events \in [Parties -> SUBSET Games]
    /\ rows \in [Visits -> SUBSET Users]
    /\ open \in [Visits -> SUBSET Users]
    /\ shut \in [Visits -> SUBSET Users]

\* Whoever is in a party, or asked to join one, has a users row.
RowsAreKnown ==
    \A p \in Parties : \A u \in Users :
        joined[p][u] # 0 \/ PendingFor(invites[p], u) # {} => u \in Known

\* The game of v is owned by a roster of two or more.
Fits(v) ==
    /\ \A u \in page[v].roster : page[v].game \in library[u]
    /\ \E u, w \in page[v].roster : u # w

\* The histories of v have seen who is open, and who is not.
Watched(v) ==
    /\ Open(page[v].party) \subseteq open[v]
    /\ Users \ Open(page[v].party) \subseteq shut[v]

VisitInv(v) ==
    /\ step[v] # "idle" => /\ rows[v] \subseteq Known
                           /\ page[v].party \in Parties /\ page[v].actor \in Users
                           /\ page[v].handler = "invite" => page[v].target \in Users
    /\ step[v] \in {"resolve", "pending", "upsert", "send", "added"} =>
           page[v].target \in Users
    /\ step[v] = "upsert" => page[v].target \notin rows[v]
    /\ step[v] = "insert" => Fits(v)
    /\ step[v] \in Building => Watched(v)
    /\ step[v] = "excluded" => page[v].known \subseteq open[v]
    /\ step[v] = "shown" => /\ Listed(v) \subseteq open[v]
                            /\ page[v].friends \ shut[v] \subseteq Listed(v)

PagesInv ==
    /\ PagesTypeOK
    /\ RowsAreKnown
    /\ NoOrphanEvents
    /\ \A v \in Visits : VisitInv(v)

-----------------------------------------------------------------------------
(* The rows of the store.                                                  *)

\* What every step does to the rows, as far as the handlers rely on it.
RowsGoOn ==
    /\ TablesTypeOK'
    /\ Known \subseteq Known'
    /\ RowsAreKnown'
    /\ \A p \in Parties : Live(p) => Live(p)' \/ leader'[p] = Gone

LEMMA SameRowsGoOn ==
    ASSUME TablesTypeOK, RowsAreKnown, UNCHANGED tables
    PROVE  RowsGoOn
BY DEF tables, RowsGoOn, TablesTypeOK, RowsAreKnown, Known, PendingFor, Live

LEMMA UsersGoOn ==
    ASSUME TablesTypeOK, RowsAreKnown,
           Tick \/ \E u \in Users : UpsertUser(u) \/ UpsertFriend(u)
    PROVE  RowsGoOn
<1>1. /\ users \in [Users -> Standings] /\ clock \in Nat
      /\ UNCHANGED <<leader, joined, invites>>
  BY DEF TablesTypeOK, Tick, UpsertUser, UpsertFriend
<1>2. users' \in [Users -> Standings] /\ clock' \in Nat /\ Known \subseteq Known'
  BY <1>1 DEF Tick, UpsertUser, UpsertFriend, Standings, Known
<1> QED
  BY <1>1, <1>2 DEF RowsGoOn, TablesTypeOK, RowsAreKnown, Known, PendingFor, Live

\* The rows of one party change, and nobody without a users row enters them.
LEMMA PartyGoesOn ==
    ASSUME TablesTypeOK, RowsAreKnown, NEW p \in Parties,
           NEW l \in Users \cup {Gone}, NEW j \in [Users -> Nat], NEW is \in SUBSET Invite,
           UNCHANGED <<users, clock>>,
           leader' = [leader EXCEPT ![p] = l] \/ UNCHANGED leader,
           joined' = [joined EXCEPT ![p] = j],
           invites' = [invites EXCEPT ![p] = is],
           \A u \in Users : j[u] # 0 \/ PendingFor(is, u) # {} => u \in Known
    PROVE  RowsGoOn
<1>1. TablesTypeOK'
  BY DEF TablesTypeOK
<1>2. Known' = Known
  BY DEF Known
<1>3. RowsAreKnown'
  <2> SUFFICES ASSUME NEW q \in Parties, NEW u \in Users,
                      joined'[q][u] # 0 \/ PendingFor(invites'[q], u) # {}
               PROVE  u \in Known
    BY <1>2 DEF RowsAreKnown, PendingFor
  <2>1. CASE q = p
    BY <2>1 DEF TablesTypeOK
  <2>2. CASE q # p
    BY <2>2 DEF TablesTypeOK, RowsAreKnown
  <2> QED
    BY <2>1, <2>2
<1>4. \A q \in Parties : Live(q) => Live(q)' \/ leader'[q] = Gone
  BY DEF Live, TablesTypeOK
<1> QED
  BY <1>1, <1>2, <1>3, <1>4 DEF RowsGoOn

\* The rows of p as they are.
LEMMA AsTheyAre ==
    ASSUME TablesTypeOK, RowsAreKnown, NEW p \in Parties
    PROVE  /\ joined[p] \in [Users -> Nat] /\ invites[p] \in SUBSET Invite
           /\ joined = [joined EXCEPT ![p] = joined[p]]
           /\ invites = [invites EXCEPT ![p] = invites[p]]
           /\ \A u \in Users : joined[p][u] # 0 \/ PendingFor(invites[p], u) # {} => u \in Known
BY DEF TablesTypeOK, RowsAreKnown

\* A call of the store.
LEMMA CallGoesOn ==
    ASSUME TablesTypeOK, RowsAreKnown, NEW p \in Parties, NEW a \in Users, NEW t \in Users,
           PartyCall(p, a, t)
    PROVE  RowsGoOn
<1>1. /\ joined[p] \in [Users -> Nat] /\ invites[p] \in SUBSET Invite
      /\ joined = [joined EXCEPT ![p] = joined[p]]
      /\ invites = [invites EXCEPT ![p] = invites[p]]
      /\ \A u \in Users : joined[p][u] # 0 \/ PendingFor(invites[p], u) # {} => u \in Known
  BY AsTheyAre
<1>2. /\ joined \in [Parties -> [Users -> Nat]] /\ invites \in [Parties -> SUBSET Invite]
      /\ clock \in Nat /\ JoinTimes \subseteq Nat
  BY DEF TablesTypeOK, JoinTimes
<1>3. ASSUME NEW u \in Users, u \in Known, NEW at \in JoinTimes
      PROVE  LET j == [joined[p] EXCEPT ![u] = at]
             IN  /\ j \in [Users -> Nat]
                 /\ [joined EXCEPT ![p][u] = at] = [joined EXCEPT ![p] = j]
                 /\ \A v \in Users : j[v] # 0 => v \in Known
  BY <1>1, <1>2, <1>3
<1>4. CASE CreateParty(p, a)
  <2>1. PICK at \in JoinTimes : joined' = [joined EXCEPT ![p][a] = at]
    BY <1>4 DEF CreateParty
  <2> DEFINE j == [joined[p] EXCEPT ![a] = at]
  <2>2. /\ a \in Known /\ leader' = [leader EXCEPT ![p] = a]
        /\ UNCHANGED <<users, invites, clock>>
    BY <1>4 DEF CreateParty, Known
  <2>3. /\ j \in [Users -> Nat] /\ joined' = [joined EXCEPT ![p] = j]
        /\ \A v \in Users : j[v] # 0 => v \in Known
    BY <1>3, <2>1, <2>2
  <2> HIDE DEF j
  <2> QED
    BY <1>1, <2>2, <2>3, PartyGoesOn
<1>5. ASSUME NEW u \in Users, u \in Known, NEW i \in InviteIds,
             NEW status \in {"pending", "accepted"}
      PROVE  LET is == invites[p] \cup {[id |-> i, user |-> u, status |-> status]}
             IN  /\ is \in SUBSET Invite
                 /\ \A v \in Users : PendingFor(is, v) # {} => v \in Known
  <2> DEFINE new == [id |-> i, user |-> u, status |-> status]
  <2>1. new \in Invite /\ new.user = u
    BY DEF Invite, Statuses
  <2> HIDE DEF new
  <2>2. \A v \in Users : PendingFor(invites[p] \cup {new}, v) # {} => v \in Known
    BY <1>1, <1>5, <2>1 DEF PendingFor
  <2> QED
    BY <1>1, <2>1, <2>2 DEF new
<1>6. CASE SendInvite(p, a, t)
  <2>1. PICK i \in InviteIds : invites' = [invites EXCEPT ![p] =
                  invites[p] \cup {[id |-> i, user |-> t, status |-> "pending"]}]
    BY <1>6 DEF SendInvite
  <2> DEFINE is == invites[p] \cup {[id |-> i, user |-> t, status |-> "pending"]}
  <2>2. t \in Known /\ UNCHANGED <<users, leader, joined, clock>>
    BY <1>6 DEF SendInvite, Known
  <2>3. /\ is \in SUBSET Invite /\ invites' = [invites EXCEPT ![p] = is]
        /\ \A v \in Users : PendingFor(is, v) # {} => v \in Known
    BY <1>5, <2>1, <2>2
  <2> HIDE DEF is
  <2> QED
    BY <1>1, <2>2, <2>3, PartyGoesOn
<1>7. CASE AddFriend(p, a, t)
  <2>1. PICK i \in InviteIds : invites' = [invites EXCEPT ![p] =
                  invites[p] \cup {[id |-> i, user |-> t, status |-> "accepted"]}]
    BY <1>7 DEF AddFriend
  <2>2. PICK at \in JoinTimes : joined' = [joined EXCEPT ![p][t] = at]
    BY <1>7 DEF AddFriend
  <2> DEFINE is == invites[p] \cup {[id |-> i, user |-> t, status |-> "accepted"]}
  <2> DEFINE j == [joined[p] EXCEPT ![t] = at]
  <2>3. t \in Known /\ UNCHANGED <<users, leader, clock>>
    BY <1>7 DEF AddFriend, Known
  <2>4. /\ is \in SUBSET Invite /\ invites' = [invites EXCEPT ![p] = is]
        /\ \A v \in Users : PendingFor(is, v) # {} => v \in Known
    BY <1>5, <2>1, <2>3
  <2>5. /\ j \in [Users -> Nat] /\ joined' = [joined EXCEPT ![p] = j]
        /\ \A v \in Users : j[v] # 0 => v \in Known
    BY <1>3, <2>2, <2>3
  <2> HIDE DEF is, j
  <2> QED
    BY <2>3, <2>4, <2>5, PartyGoesOn
<1>8. ASSUME NEW i \in PendingFor(invites[p], a), NEW status \in {"accepted", "rejected"}
      PROVE  LET is == (invites[p] \ {i}) \cup {[i EXCEPT !.status = status]}
             IN  /\ is \in SUBSET Invite
                 /\ \A v \in Users : PendingFor(is, v) # {} => v \in Known
  <2> DEFINE new == [i EXCEPT !.status = status]
  <2>1. new \in Invite /\ new.status # "pending"
    BY <1>1 DEF PendingFor, Invite, Statuses
  <2> HIDE DEF new
  <2>2. \A v \in Users : PendingFor((invites[p] \ {i}) \cup {new}, v) # {} => v \in Known
    BY <1>1, <2>1 DEF PendingFor
  <2> QED
    BY <1>1, <2>1, <2>2 DEF new
<1>9. CASE AcceptInvite(p, a)
  <2>1. PICK i \in PendingFor(invites[p], a) : invites' = [invites EXCEPT ![p] =
                  (invites[p] \ {i}) \cup {[i EXCEPT !.status = "accepted"]}]
    BY <1>9 DEF AcceptInvite, Answer
  <2>2. PICK at \in JoinTimes : joined' = [joined EXCEPT ![p][a] = at]
    BY <1>9 DEF AcceptInvite
  <2> DEFINE is == (invites[p] \ {i}) \cup {[i EXCEPT !.status = "accepted"]}
  <2> DEFINE j == [joined[p] EXCEPT ![a] = at]
  <2>3. a \in Known /\ UNCHANGED <<users, leader, clock>>
    BY <1>1, <1>9, <2>1 DEF AcceptInvite
  <2>4. /\ is \in SUBSET Invite /\ invites' = [invites EXCEPT ![p] = is]
        /\ \A v \in Users : PendingFor(is, v) # {} => v \in Known
    BY <1>8, <2>1
  <2>5. /\ j \in [Users -> Nat] /\ joined' = [joined EXCEPT ![p] = j]
        /\ \A v \in Users : j[v] # 0 => v \in Known
    BY <1>3, <2>2, <2>3
  <2> HIDE DEF is, j
  <2> QED
    BY <2>3, <2>4, <2>5, PartyGoesOn
<1>10. CASE RejectInvite(p, a)
  <2>1. PICK i \in PendingFor(invites[p], a) : invites' = [invites EXCEPT ![p] =
                  (invites[p] \ {i}) \cup {[i EXCEPT !.status = "rejected"]}]
    BY <1>10 DEF RejectInvite, Answer
  <2> DEFINE is == (invites[p] \ {i}) \cup {[i EXCEPT !.status = "rejected"]}
  <2>2. /\ is \in SUBSET Invite /\ invites' = [invites EXCEPT ![p] = is]
        /\ \A v \in Users : PendingFor(is, v) # {} => v \in Known
    BY <1>8, <2>1
  <2>3. UNCHANGED <<users, leader, joined, clock>>
    BY <1>10 DEF RejectInvite
  <2> HIDE DEF is
  <2> QED
    BY <1>1, <2>2, <2>3, PartyGoesOn
<1>11. CASE LeaveParty(p, a)
  <2> DEFINE rest == [joined[p] EXCEPT ![a] = 0]
  <2>1. joined' = [joined EXCEPT ![p] = rest] /\ UNCHANGED <<users, invites, clock>>
    BY <1>11 DEF LeaveParty
  <2>2. UNCHANGED leader \/ \E s \in Users : leader' = [leader EXCEPT ![p] = s]
    BY <1>11 DEF LeaveParty
  <2>3. rest \in [Users -> Nat] /\ \A v \in Users : rest[v] # 0 => v \in Known
    BY <1>1
  <2> HIDE DEF rest
  <2>4. \A u \in Users : rest[u] # 0 \/ PendingFor(invites[p], u) # {} => u \in Known
    BY <1>1, <2>3
  <2>5. invites' = [invites EXCEPT ![p] = invites[p]]
    BY <1>1, <2>1
  <2>6. PICK l \in Users \cup {Gone} :
           UNCHANGED leader \/ leader' = [leader EXCEPT ![p] = l]
    BY <2>2
  <2>7. invites[p] \in SUBSET Invite /\ UNCHANGED <<users, clock>>
    BY <1>1, <2>1
  <2> QED
    BY <2>1, <2>3, <2>4, <2>5, <2>6, <2>7, PartyGoesOn
<1>12. CASE DisbandParty(p, a)
  <2> DEFINE none == [u \in Users |-> 0]
  <2>1. /\ leader' = [leader EXCEPT ![p] = Gone] /\ UNCHANGED <<users, clock>>
        /\ joined' = [joined EXCEPT ![p] = none] /\ invites' = [invites EXCEPT ![p] = {}]
    BY <1>12 DEF DisbandParty
  <2>2. none \in [Users -> Nat] /\ \A v \in Users : none[v] = 0 /\ PendingFor({}, v) = {}
    BY DEF PendingFor
  <2> HIDE DEF none
  <2> QED
    BY <2>1, <2>2, PartyGoesOn
<1>13. CASE StepDown(p, a, t)
  <2>1. leader' = [leader EXCEPT ![p] = t] /\ UNCHANGED <<users, joined, invites, clock>>
    BY <1>13 DEF StepDown
  <2> QED
    BY <1>1, <2>1, PartyGoesOn
<1> QED
  BY <1>4, <1>6, <1>7, <1>9, <1>10, <1>11, <1>12, <1>13 DEF PartyCall

LEMMA NextGoesOn ==
    ASSUME TablesTypeOK, RowsAreKnown, Next
    PROVE  RowsGoOn
BY UsersGoOn, CallGoesOn DEF Next

-----------------------------------------------------------------------------
(* One visit.                                                              *)

\* The step of every visit but v, and what all visits rely on.
Others(v) ==
    \A o \in Visits \ {v} : step'[o] = step[o] /\ page'[o] = page[o] /\ rows'[o] = rows[o]

Grow == RowsGoOn /\ \A u \in Users : library[u] \subseteq library'[u]

\* What Watch makes of the histories of v.
LEMMA WatchSees ==
    ASSUME PagesTypeOK, RowsGoOn, Watch, NEW v \in Visits
    PROVE  /\ open'[v] \in SUBSET Users /\ shut'[v] \in SUBSET Users
           /\ step'[v] \in Building => Watched(v)'
           /\ step'[v] \in Building /\ step[v] \in Building =>
                  open[v] \subseteq open'[v] /\ shut[v] \subseteq shut'[v]
           /\ step'[v] = "shown" => open'[v] = open[v] /\ shut'[v] = shut[v]
<1>1. Open(page[v].party)' \subseteq Users
  BY DEF Open
<1> DEFINE now == IF step'[v] \in Building THEN Open(page[v].party)' ELSE {}
<1>2. open'[v] = Since(v, open, now) /\ shut'[v] = Since(v, shut, Users \ now)
  BY DEF Watch
<1>3. open[v] \in SUBSET Users /\ shut[v] \in SUBSET Users /\ "shown" \notin Building
  BY DEF PagesTypeOK, Building
<1>4. CASE step'[v] \in Building
  BY <1>1, <1>2, <1>3, <1>4 DEF Since, Watched
<1>5. CASE step'[v] = "shown"
  BY <1>2, <1>3, <1>5 DEF Since
<1>6. CASE step'[v] \notin Building \cup {"shown"}
  BY <1>2, <1>6 DEF Since
<1> QED
  BY <1>4, <1>5, <1>6, <1>3

\* A visit that does not move keeps what it has found.
LEMMA VisitFrame ==
    ASSUME PagesTypeOK, Grow, Watch, NEW v \in Visits, VisitInv(v),
           step'[v] = step[v], page'[v] = page[v], rows'[v] = rows[v]
    PROVE  VisitInv(v)'
<1>1. /\ step'[v] \in Building => Watched(v)' /\ open[v] \subseteq open'[v]
      /\ step'[v] = "shown" => open'[v] = open[v] /\ shut'[v] = shut[v]
  BY WatchSees DEF Grow
<1>2. Known \subseteq Known' /\ (page[v] \in Pages /\ (Fits(v) => Fits(v)'))
  <2>1. page[v] \in Pages
    BY DEF PagesTypeOK
  <2>2. page[v].roster \subseteq Users
    BY <2>1 DEF Pages
  <2>3. Fits(v) => Fits(v)'
    BY <2>2 DEF Grow, Fits
  <2> QED
    BY <2>1, <2>3 DEF Grow, RowsGoOn
<1>3. "excluded" \in Building
  BY DEF Building
<1> QED
  BY <1>1, <1>2, <1>3 DEF VisitInv, Listed

\* A step of v alone keeps the invariant, if v reaches its next stage and its
\* party keeps its events in order.
LEMMA VisitStep ==
    ASSUME PagesInv, Grow, Watch, NEW v \in Visits, Others(v),
           NEW st \in Steps, NEW pg \in Pages, NEW rs \in SUBSET Users,
           step' = [step EXCEPT ![v] = st], page' = [page EXCEPT ![v] = pg],
           rows' = [rows EXCEPT ![v] = rs] ,
           library' \in [Users -> SUBSET Games], events' \in [Parties -> SUBSET Games],
           NoOrphanEvents', VisitInv(v)'
    PROVE  PagesInv'
<1>1. PagesTypeOK'
  <2>1. \A o \in Visits : open'[o] \in SUBSET Users /\ shut'[o] \in SUBSET Users
    BY WatchSees DEF PagesInv, Grow
  <2>2. open' \in [Visits -> SUBSET Users] /\ shut' \in [Visits -> SUBSET Users]
    <3>1. /\ open' = [o \in Visits |-> open'[o]]
          /\ shut' = [o \in Visits |-> shut'[o]]
      BY DEF Watch
    <3> QED
      BY <2>1, <3>1
  <2> QED
    BY <2>2 DEF PagesInv, PagesTypeOK, Grow, RowsGoOn
<1>2. ASSUME NEW o \in Visits \ {v} PROVE VisitInv(o)'
  BY VisitFrame DEF PagesInv, Others
<1> QED
  BY <1>1, <1>2 DEF PagesInv, Grow, RowsGoOn

\* A read of v, which leaves the rows alone and what it brings with it is enough
\* for the next step.
LEMMA ReadStep ==
    ASSUME PagesInv, Watch, NEW v \in Visits, NEW from \in Steps \ {"idle"},
           NEW to \in Steps \ {"idle"}, NEW what \in Pages, Reads(v, from, to, what),
           what.party = page[v].party, what.actor = page[v].actor,
           what.handler = page[v].handler, what.target = page[v].target,
           to \in {"resolve", "pending", "upsert", "send", "added"} => what.target \in Users,
           to = "upsert" => what.target \notin Known,
           to = "insert" => /\ \A u \in what.roster : what.game \in library[u]
                            /\ \E u, w \in what.roster : u # w,
           to = "excluded" => from = "known" /\ what.known \subseteq open[v],
           to = "shown" => /\ what.known \cup what.merged \subseteq open[v]
                           /\ what.friends \ shut[v] \subseteq what.known \cup what.merged
    PROVE  PagesInv'
<1>1. /\ step[v] = from /\ step' = [step EXCEPT ![v] = to]
      /\ page' = [page EXCEPT ![v] = what]
      /\ UNCHANGED tables /\ UNCHANGED library /\ UNCHANGED events /\ UNCHANGED rows
  BY DEF Reads, Goes
<1>2. PagesTypeOK /\ RowsAreKnown /\ VisitInv(v)
  BY DEF PagesInv
<1>3. Grow
  BY <1>1, <1>2, SameRowsGoOn DEF PagesTypeOK, Grow
<1>4. /\ rows = [rows EXCEPT ![v] = rows[v]] /\ rows[v] \in SUBSET Users
      /\ step'[v] = to /\ page'[v] = what /\ rows'[v] = rows[v]
      /\ library' \in [Users -> SUBSET Games] /\ events' \in [Parties -> SUBSET Games]
      /\ Known' = Known
  BY <1>1, <1>2 DEF PagesTypeOK, tables, Known
<1>5. Others(v)
  BY <1>1, <1>2 DEF Others, PagesTypeOK
<1>6. /\ to \in Building => Watched(v)'
      /\ to = "excluded" => open[v] \subseteq open'[v]
      /\ to = "shown" => open'[v] = open[v] /\ shut'[v] = shut[v]
  BY <1>1, <1>2, <1>3, <1>4, WatchSees DEF Grow, Building
<1>7. VisitInv(v)'
  <2>1. /\ rows'[v] \subseteq Known' /\ page'[v].party \in Parties /\ page'[v].actor \in Users
        /\ page'[v].handler = "invite" => page'[v].target \in Users
        /\ to = "upsert" => page'[v].target \notin rows'[v]
    BY <1>1, <1>2, <1>4 DEF VisitInv
  <2>2. to = "insert" => Fits(v)'
    BY <1>1, <1>4 DEF Fits
  <2> QED
    BY <1>4, <1>6, <2>1, <2>2 DEF VisitInv, Listed
<1>8. NoOrphanEvents'
  BY <1>1 DEF PagesInv, NoOrphanEvents, Live, tables
<1>9. rows' = [rows EXCEPT ![v] = rows[v]]
  BY <1>1, <1>4
<1> HIDE DEF PagesInv
<1> QED
  BY <1>1, <1>3, <1>4, <1>5, <1>7, <1>8, <1>9, VisitStep

\* The reads of all three handlers.
LEMMA CommonReads ==
    ASSUME PagesInv, Watch, NEW v \in Visits, CheckMember(v) \/ ReadRoster(v)
    PROVE  PagesInv'
<1> DEFINE pg == page[v]
<1>1. pg \in Pages /\ step[v] # "idle"
  BY DEF PagesInv, PagesTypeOK, CheckMember, ReadRoster
<1>2. CASE CheckMember(v)
  BY <1>1, <1>2, ReadStep DEF CheckMember, Steps
<1>3. CASE ReadRoster(v)
  <2>1. CASE Reads(v, "roster", "friends", pg)
    BY <1>1, <2>1, ReadStep DEF Steps
  <2>2. CASE Reads(v, "roster", "games", [pg EXCEPT !.roster = Members(joined[pg.party])])
    <3> DEFINE what == [pg EXCEPT !.roster = Members(joined[pg.party])]
    <3>1. /\ what \in Pages /\ what.party = pg.party /\ what.actor = pg.actor
          /\ what.handler = pg.handler /\ what.target = pg.target
      BY <1>1 DEF Pages, Members
    <3>2. Reads(v, "roster", "games", what)
      BY <2>2
    <3> HIDE DEF what
    <3> QED
      BY <3>1, <3>2, ReadStep DEF Steps
  <2> QED BY <1>3, <2>1, <2>2 DEF ReadRoster
<1> QED
  BY <1>2, <1>3

\* The reads of handleSendInvite.
LEMMA InviteReads ==
    ASSUME PagesInv, Watch, NEW v \in Visits,
           VerifyFriend(v) \/ ResolveTarget(v) \/ CheckPending(v) \/ CheckAdded(v)
    PROVE  PagesInv'
<1>1. page[v] \in Pages
  BY DEF PagesInv, PagesTypeOK
<1>2. step[v] \in {"resolve", "pending", "added"} => page[v].target \in Users
  BY DEF PagesInv, VisitInv
<1>3. CASE VerifyFriend(v)
  <2>1. Reads(v, "friends", "resolve", page[v]) /\ page[v].target \in Users
    BY <1>3 DEF VerifyFriend, Reads, Goes, PagesInv, VisitInv
  <2> QED
    BY <1>1, <2>1, ReadStep DEF Steps
<1>4. CASE ResolveTarget(v)
  <2>1. page[v].target \in Users
    BY <1>2, <1>4 DEF ResolveTarget, Reads, Goes
  <2>2. CASE page[v].target \in Known
    BY <1>1, <1>4, <2>1, <2>2, ReadStep DEF ResolveTarget, Steps
  <2>3. CASE page[v].target \notin Known
    BY <1>1, <1>4, <2>1, <2>3, ReadStep DEF ResolveTarget, Steps
  <2> QED
    BY <2>2, <2>3
<1>5. CASE CheckPending(v)
  BY <1>1, <1>2, <1>5, ReadStep DEF CheckPending, Steps
<1>6. CASE CheckAdded(v)
  BY <1>1, <1>2, <1>6, ReadStep DEF CheckAdded, Steps
<1> QED
  BY <1>3, <1>4, <1>5, <1>6

\* The read of handleCreatePartyEvent.
LEMMA ChooseReads ==
    ASSUME PagesInv, Watch, NEW v \in Visits, ChooseGame(v)
    PROVE  PagesInv'
<1> DEFINE pg == page[v]
<1>1. pg \in Pages
  BY DEF PagesInv, PagesTypeOK
<1>2. PICK g \in SharedGames(pg.roster) :
         Reads(v, "games", "insert", [pg EXCEPT !.game = g])
  BY DEF ChooseGame
<1> DEFINE what == [pg EXCEPT !.game = g]
<1>3. /\ g \in Games /\ \A u \in pg.roster : g \in library[u]
      /\ \E u, w \in pg.roster : u # w
  BY <1>2 DEF SharedGames
<1>4. /\ what \in Pages /\ what.party = pg.party /\ what.actor = pg.actor
      /\ what.handler = pg.handler /\ what.target = pg.target
      /\ what.game = g /\ what.roster = pg.roster
  BY <1>1, <1>3 DEF Pages
<1> HIDE DEF what
<1>5. Reads(v, "games", "insert", what)
  BY <1>2 DEF what
<1> QED
  BY <1>3, <1>4, <1>5, ReadStep DEF Steps

\* The reads of the invite picker.
LEMMA PickerReads ==
    ASSUME PagesInv, Watch, NEW v \in Visits,
           ListFriends(v) \/ ReadKnown(v) \/ ReadExcluded(v)
    PROVE  PagesInv'
<1> DEFINE pg == page[v]
<1> DEFINE p == pg.party
<1>1. pg \in Pages /\ pg.friends \subseteq Users /\ VisitInv(v)
  <2>1. pg \in Pages /\ VisitInv(v)
    BY DEF PagesInv, PagesTypeOK
  <2> QED
    BY <2>1 DEF Pages
<1>2. CASE ListFriends(v)
  <2>1. PICK fs \in SUBSET Users :
           Reads(v, "friends", "known", [pg EXCEPT !.friends = fs])
    BY <1>2 DEF ListFriends
  <2> DEFINE what == [pg EXCEPT !.friends = fs]
  <2>2. /\ what \in Pages /\ what.party = pg.party /\ what.actor = pg.actor
        /\ what.handler = pg.handler /\ what.target = pg.target
    BY <1>1 DEF Pages
  <2>3. Reads(v, "friends", "known", what)
    BY <2>1
  <2> HIDE DEF what
  <2> QED
    BY <2>2, <2>3, ReadStep DEF Steps
<1>3. CASE ReadKnown(v)
  <2> DEFINE known == Candidates(p, pg.actor, pg.friends)
  <2> DEFINE what == [pg EXCEPT !.known = known]
  <2>1. Reads(v, "known", "excluded", what) /\ step[v] = "known"
    BY <1>3 DEF ReadKnown, Reads, Goes
  <2>2. Open(p) \subseteq open[v]
    BY <1>1, <2>1 DEF VisitInv, Watched, Building
  <2>3. known \subseteq open[v] /\ known \subseteq Users
    BY <1>1, <2>2 DEF Candidates
  <2> HIDE DEF known
  <2>4. /\ what \in Pages /\ what.party = pg.party /\ what.actor = pg.actor
        /\ what.handler = pg.handler /\ what.target = pg.target /\ what.known = known
    BY <1>1, <2>3 DEF Pages
  <2> HIDE DEF what
  <2> QED
    BY <2>1, <2>3, <2>4, ReadStep DEF Steps
<1>4. CASE ReadExcluded(v)
  <2> DEFINE merged == (pg.friends \ pg.known) \ Exclusions(p, pg.friends)
  <2> DEFINE what == [pg EXCEPT !.merged = merged]
  <2>1. Reads(v, "excluded", "shown", what) /\ step[v] = "excluded"
    BY <1>4 DEF ReadExcluded
  <2>2. Watched(v) /\ pg.known \subseteq open[v] /\ p \in Parties
    BY <1>1, <2>1 DEF VisitInv, Building
  <2>3. merged \subseteq Open(p)
    <3> SUFFICES ASSUME NEW u \in merged PROVE u \in Open(p)
      OBVIOUS
    <3>1. u \in Users /\ (u \in Known => u \in Open(p))
      BY <1>1 DEF Exclusions
    <3>2. u \notin Known => joined[p][u] = 0 /\ PendingFor(invites[p], u) = {}
      BY <2>2, <3>1 DEF PagesInv, RowsAreKnown
    <3> QED
      BY <3>1, <3>2 DEF Open
  <2>4. pg.friends \ shut[v] \subseteq pg.known \cup merged
    BY <1>1, <2>2 DEF Watched, Exclusions
  <2>5. merged \subseteq open[v] /\ merged \subseteq Users
    BY <1>1, <2>2, <2>3 DEF Watched
  <2> HIDE DEF merged
  <2>6. /\ what \in Pages /\ what.party = pg.party /\ what.actor = pg.actor
        /\ what.handler = pg.handler /\ what.target = pg.target
        /\ what.known = pg.known /\ what.merged = merged /\ what.friends = pg.friends
    BY <1>1, <2>5 DEF Pages
  <2> HIDE DEF what
  <2> QED
    BY <2>1, <2>2, <2>4, <2>5, <2>6, ReadStep DEF Steps
<1> QED
  BY <1>2, <1>3, <1>4

-----------------------------------------------------------------------------
(* The steps that write, and those outside every visit.                    *)

LEMMA ArriveStep ==
    ASSUME PagesInv, Watch, NEW v \in Visits, NEW h \in Handlers, NEW p \in Parties,
           NEW a \in Users, NEW t \in Users \cup {Nobody}, Arrive(v, h, p, a, t)
    PROVE  PagesInv'
<1> DEFINE pg == [NoPage EXCEPT !.handler = h, !.party = p, !.actor = a, !.target = t]
<1> DEFINE st == IF h = "invite" THEN "roster" ELSE "member"
<1>1. /\ step' = [step EXCEPT ![v] = st] /\ page' = [page EXCEPT ![v] = pg]
      /\ rows' = [rows EXCEPT ![v] = Known]
      /\ UNCHANGED tables /\ UNCHANGED library /\ UNCHANGED events
      /\ h = "invite" => t \in Users
  BY DEF Arrive
<1>2. PagesTypeOK /\ RowsAreKnown
  BY DEF PagesInv
<1>3. Grow /\ Known \in SUBSET Users /\ Known' = Known
  BY <1>1, <1>2, SameRowsGoOn DEF PagesTypeOK, Grow, Known, tables
<1>4. /\ pg \in Pages /\ pg.party = p /\ pg.actor = a /\ pg.target = t /\ pg.handler = h
      /\ st \in {"roster", "member"} /\ st \in Steps
  BY DEF NoPage, Pages, Steps
<1> HIDE DEF pg, st
<1>5. Others(v) /\ step'[v] = st /\ page'[v] = pg /\ rows'[v] = Known
  BY <1>1, <1>2 DEF Others, PagesTypeOK
<1>6. VisitInv(v)'
  BY <1>1, <1>3, <1>4, <1>5 DEF VisitInv, Building
<1>7. /\ NoOrphanEvents' /\ library' \in [Users -> SUBSET Games]
      /\ events' \in [Parties -> SUBSET Games]
  BY <1>1, <1>2 DEF PagesInv, NoOrphanEvents, Live, tables, PagesTypeOK
<1> QED
  BY <1>1, <1>3, <1>4, <1>5, <1>6, <1>7, VisitStep

\* The request of v is over: InsertEvent ends it as well.
LEMMA EndStep ==
    ASSUME PagesInv, Watch, NEW v \in Visits,
           step' = [step EXCEPT ![v] = "idle"], page' = [page EXCEPT ![v] = NoPage],
           rows' = [rows EXCEPT ![v] = {}], UNCHANGED tables, UNCHANGED library,
           events' \in [Parties -> SUBSET Games], NoOrphanEvents'
    PROVE  PagesInv'
<1>1. PagesTypeOK /\ RowsAreKnown
  BY DEF PagesInv
<1>2. Grow /\ library' \in [Users -> SUBSET Games]
  BY <1>1, SameRowsGoOn DEF PagesTypeOK, Grow
<1>3. NoPage \in Pages /\ "idle" \in Steps /\ {} \in SUBSET Users
  BY DEF NoPage, Pages, Steps
<1>4. Others(v) /\ step'[v] = "idle"
  BY <1>1 DEF Others, PagesTypeOK
<1>5. VisitInv(v)'
  BY <1>4 DEF VisitInv, Building
<1> QED
  BY <1>2, <1>3, <1>4, <1>5, VisitStep

LEMMA AnsweredStep ==
    ASSUME PagesInv, Watch, NEW v \in Visits, Answered(v)
    PROVE  PagesInv'
<1>1. NoOrphanEvents' /\ events' \in [Parties -> SUBSET Games]
  BY DEF Answered, PagesInv, NoOrphanEvents, Live, tables, PagesTypeOK
<1> QED
  BY <1>1, EndStep DEF Answered

LEMMA InsertEventStep ==
    ASSUME PagesInv, Watch, NEW v \in Visits, InsertEvent(v)
    PROVE  PagesInv'
<1> DEFINE pg == page[v]
<1>1. /\ UNCHANGED tables /\ Live(pg.party)
      /\ events' = [events EXCEPT ![pg.party] = @ \cup {pg.game}]
  BY DEF InsertEvent
<1>2. pg.party \in Parties /\ pg.game \in Games
  <2>1. /\ pg \in Pages /\ library \in [Users -> SUBSET Games] /\ pg.party \in Parties
        /\ Fits(v)
    BY DEF InsertEvent, Goes, PagesInv, PagesTypeOK, VisitInv
  <2>2. PICK u \in pg.roster : pg.game \in library[u]
    BY <2>1 DEF Fits
  <2>3. u \in Users
    BY <2>1, <2>2 DEF Pages
  <2> QED
    BY <2>1, <2>2, <2>3
<1>3. events' \in [Parties -> SUBSET Games]
  BY <1>1, <1>2 DEF PagesInv, PagesTypeOK
<1>4. NoOrphanEvents'
  BY <1>1, <1>2 DEF PagesInv, PagesTypeOK, NoOrphanEvents, Live, tables
<1> QED
  BY <1>1, <1>3, <1>4, EndStep DEF InsertEvent, Goes

\* v writes through the store and goes on: no step of the store that it takes
\* changes who leads.
LEMMA WriteStep ==
    ASSUME PagesInv, Watch, NEW v \in Visits, NEW to \in {"send", "added"},
           step[v] \in {"upsert", "send"},
           step' = [step EXCEPT ![v] = to], RowsGoOn, UNCHANGED leader,
           UNCHANGED <<page, library, events, rows>>
    PROVE  PagesInv'
<1>1. PagesTypeOK /\ VisitInv(v)
  BY DEF PagesInv
<1>2. /\ Grow /\ Others(v) /\ step'[v] = to
      /\ page' = [page EXCEPT ![v] = page[v]] /\ page[v] \in Pages
      /\ rows' = [rows EXCEPT ![v] = rows[v]] /\ rows[v] \in SUBSET Users
      /\ library' \in [Users -> SUBSET Games] /\ events' \in [Parties -> SUBSET Games]
      /\ to \in Steps
  BY <1>1 DEF Grow, Others, PagesTypeOK, Steps
<1>3. VisitInv(v)'
  BY <1>1, <1>2 DEF VisitInv, RowsGoOn, Building
<1>4. NoOrphanEvents'
  BY DEF PagesInv, NoOrphanEvents, Live
<1> QED
  BY <1>2, <1>3, <1>4, VisitStep

LEMMA UpsertTargetStep ==
    ASSUME PagesInv, Watch, NEW v \in Visits, UpsertTarget(v)
    PROVE  PagesInv'
<1>1. TablesTypeOK /\ RowsAreKnown /\ page[v].target \in Users
  BY DEF PagesInv, PagesTypeOK, VisitInv, UpsertTarget, Goes
<1>2. RowsGoOn
  BY <1>1, UsersGoOn DEF UpsertTarget
<1> QED
  BY <1>2, WriteStep DEF UpsertTarget, Goes, UpsertFriend

LEMMA SendStep ==
    ASSUME PagesInv, Watch, NEW v \in Visits, Send(v)
    PROVE  PagesInv'
<1>1. /\ TablesTypeOK /\ RowsAreKnown /\ page[v].target \in Users
      /\ page[v].party \in Parties /\ page[v].actor \in Users
  BY DEF PagesInv, PagesTypeOK, VisitInv, Send, Goes
<1>2. PartyCall(page[v].party, page[v].actor, page[v].target) /\ UNCHANGED leader
  BY DEF Send, PartyCall, SendInvite, AddFriend
<1>3. RowsGoOn
  BY <1>1, <1>2, CallGoesOn
<1> QED
  BY <1>2, <1>3, WriteStep DEF Send, Goes

\* What no visit does.
LEMMA OutsideStep ==
    ASSUME PagesInv, Watch, Grow, UNCHANGED <<step, page, rows>>,
           library' \in [Users -> SUBSET Games], events' \in [Parties -> SUBSET Games],
           NoOrphanEvents'
    PROVE  PagesInv'
<1>1. PagesTypeOK'
  <2>1. \A o \in Visits : open'[o] \in SUBSET Users /\ shut'[o] \in SUBSET Users
    BY WatchSees DEF PagesInv, Grow
  <2>2. open' \in [Visits -> SUBSET Users] /\ shut' \in [Visits -> SUBSET Users]
    <3>1. open' = [o \in Visits |-> open'[o]] /\ shut' = [o \in Visits |-> shut'[o]]
      BY DEF Watch
    <3> QED
      BY <2>1, <3>1
  <2> QED
    BY <2>2 DEF PagesInv, PagesTypeOK, Grow, RowsGoOn
<1>2. ASSUME NEW o \in Visits PROVE VisitInv(o)'
  BY VisitFrame DEF PagesInv
<1> QED
  BY <1>1, <1>2 DEF PagesInv, Grow, RowsGoOn

LEMMA OtherCallStep ==
    ASSUME PagesInv, Watch, OtherCall
    PROVE  PagesInv'
<1>1. PagesTypeOK /\ RowsAreKnown /\ RowsGoOn
  BY NextGoesOn DEF PagesInv, PagesTypeOK, OtherCall
<1>2. Grow
  BY <1>1 DEF Grow, OtherCall
<1>3. events' \in [Parties -> SUBSET Games]
  BY <1>1 DEF OtherCall, PagesTypeOK
<1>4. NoOrphanEvents'
  BY <1>1 DEF OtherCall, PagesInv, NoOrphanEvents, RowsGoOn, Live
<1> QED
  BY <1>1, <1>2, <1>3, <1>4, OutsideStep DEF OtherCall, PagesTypeOK

LEMMA SyncLibraryStep ==
    ASSUME PagesInv, Watch, NEW u \in Users, SyncLibrary(u)
    PROVE  PagesInv'
<1>1. PagesTypeOK /\ RowsAreKnown /\ UNCHANGED tables
  BY DEF PagesInv, SyncLibrary
<1>2. RowsGoOn
  BY <1>1, SameRowsGoOn DEF PagesTypeOK
<1>3. Grow /\ library' \in [Users -> SUBSET Games]
  BY <1>1, <1>2 DEF Grow, SyncLibrary, PagesTypeOK
<1>4. NoOrphanEvents' /\ events' \in [Parties -> SUBSET Games]
  BY <1>1 DEF SyncLibrary, PagesInv, NoOrphanEvents, Live, tables, PagesTypeOK
<1> QED
  BY <1>3, <1>4, OutsideStep DEF SyncLibrary

-----------------------------------------------------------------------------
(* The invariant and the theorems.                                         *)

LEMMA InitHolds == PagesInit => PagesInv
<1> SUFFICES ASSUME PagesInit PROVE PagesInv
  OBVIOUS
<1>1. NoPage \in Pages
  BY DEF NoPage, Pages
<1>2. PagesTypeOK
  BY <1>1 DEF PagesInit, TablesInit, PagesTypeOK, TablesTypeOK, Steps, Standings
<1>3. RowsAreKnown /\ NoOrphanEvents
  BY DEF PagesInit, TablesInit, RowsAreKnown, PendingFor, NoOrphanEvents
<1>4. ASSUME NEW v \in Visits PROVE VisitInv(v)
  BY DEF PagesInit, VisitInv, Building
<1> QED
  BY <1>2, <1>3, <1>4 DEF PagesInv

LEMMA StutterHolds ==
    ASSUME PagesInv, UNCHANGED vars
    PROVE  PagesInv'
<1>1. /\ UNCHANGED <<users, leader, joined, invites, clock>>
      /\ UNCHANGED <<step, page, library, events, rows, open, shut>>
  BY DEF vars, tables
<1>2. PagesTypeOK' /\ RowsAreKnown' /\ NoOrphanEvents'
  BY <1>1 DEF PagesInv, PagesTypeOK, TablesTypeOK, RowsAreKnown, Known, PendingFor,
              NoOrphanEvents, Live
<1>3. ASSUME NEW v \in Visits PROVE VisitInv(v)'
  <2>1. VisitInv(v)
    BY DEF PagesInv
  <2> QED
    BY <1>1, <2>1
    DEF VisitInv, Known, Fits, Watched, Open, PendingFor, Listed
<1> QED
  BY <1>2, <1>3 DEF PagesInv

LEMMA StepHolds == PagesInv /\ [PagesNext]_vars => PagesInv'
<1> SUFFICES ASSUME PagesInv, [PagesNext]_vars PROVE PagesInv'
  OBVIOUS
<1>1. ASSUME Watch, OtherCall \/ \E u \in Users : SyncLibrary(u)
      PROVE  PagesInv'
  BY <1>1, OtherCallStep, SyncLibraryStep
<1>2. ASSUME Watch, NEW v \in Visits, NEW h \in Handlers, NEW p \in Parties,
             NEW a \in Users, NEW t \in Users \cup {Nobody}, Arrive(v, h, p, a, t)
      PROVE  PagesInv'
  BY <1>2, ArriveStep
<1>3. ASSUME Watch, NEW v \in Visits, Handle(v)
      PROVE  PagesInv'
  BY <1>3, CommonReads, InviteReads, ChooseReads, PickerReads, AnsweredStep,
     InsertEventStep, UpsertTargetStep, SendStep DEF Handle
<1>4. CASE UNCHANGED vars
  BY <1>4, StutterHolds
<1> QED
  BY <1>1, <1>2, <1>3, <1>4 DEF PagesNext

LEMMA AlwaysPagesInv == PagesSpec => []PagesInv
BY InitHolds, StepHolds, PTL DEF PagesSpec

\* No party that is gone has events: the foreign key and its cascade are enough,
\* whatever a leader's request had read before (party_events.go:133-160).
THEOREM EventsNeverOrphaned == PagesSpec => []NoOrphanEvents
<1>1. PagesInv => NoOrphanEvents
  BY DEF PagesInv
<1> QED
  BY <1>1, AlwaysPagesInv, PTL

\* The picker offers nobody who was a member, or asked, throughout its two queries
\* (view.go:58-103).
THEOREM ListedAlwaysOpen == PagesSpec => []ListedWereOpen
<1>1. PagesInv => ListedWereOpen
  BY DEF PagesInv, VisitInv, ListedWereOpen
<1> QED
  BY <1>1, AlwaysPagesInv, PTL

\* The picker misses no friend who could have been invited throughout its two
\* queries (view.go:92-103).
THEOREM OpenAlwaysListed == PagesSpec => []OpenAreListed
<1>1. PagesInv => OpenAreListed
  BY DEF PagesInv, VisitInv, OpenAreListed
<1> QED
  BY <1>1, AlwaysPagesInv, PTL

\* A request never rewrites a users row that was there when it began, although it
\* looks the target up long before it writes (main.go:894-931).
THEOREM OldRowsNeverTouched == PagesSpec => OldRowsUntouched
<1>1. PagesInv =>
          \A v \in Visits : Upserts(v) => page[v].target \notin rows[v]
  BY DEF PagesInv, VisitInv, Upserts
<1> QED
  BY <1>1, AlwaysPagesInv, PTL DEF PagesSpec, OldRowsUntouched

\* An event is for a game that all of the roster read for it own, and the roster
\* has two members or more, whatever has happened since it was read
\* (party_events.go:133-148).
THEOREM EventsAlwaysFit == PagesSpec => EventFitsRoster
<1>1. PagesInv =>
          \A v \in Visits : Inserts(v) =>
              /\ \A u \in page[v].roster : page[v].game \in library[u]
              /\ \E u, w \in page[v].roster : u # w
  BY DEF PagesInv, VisitInv, Inserts, Fits
<1> QED
  BY <1>1, AlwaysPagesInv, PTL DEF PagesSpec, EventFitsRoster

=============================================================================
