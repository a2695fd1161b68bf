----------------------------- MODULE PartyPages -----------------------------
(***************************************************************************)
(* The handlers of main.go and party_events.go that read a party several   *)
(* times before they write or show something, over the party store as      *)
(* Party specifies it (which PartyStore implements):                       *)
(*   "invite"  handleSendInvite;                                           *)
(*   "event"   handleCreatePartyEvent;                                     *)
(*   "detail"  handlePartyDetail with the invite picker of                 *)
(*             view.BuildInviteCandidates.                                 *)
(* Every read is a statement of its own, without any lock.  The handlers   *)
(* that make a single store call (create, leave, step down, accept,        *)
(* reject) are the steps of Party itself.                                  *)
(***************************************************************************)
EXTENDS Party

CONSTANTS
    Visits,     \* the requests in flight to one of the handlers
    Handlers,   \* which of them the requests are for
    Games,      \* the multiplayer games
    NoGame,
    Nobody

ASSUME HandlersAssumption == Handlers \subseteq {"invite", "event", "detail"}
ASSUME NoGameAssumption == NoGame \notin Games
ASSUME NobodyAssumption == Nobody \notin Users

VARIABLES
    step,      \* step[v]: what the handler of v does next
    page,      \* page[v]: the request of v and what its handler has read
    library,   \* library[u]: the user_games rows of u
    events,    \* events[p]: the games of the party_events rows of p
    rows,      \* history: who had a users row when v began
    open,      \* history: who has been open to an invite while v's picker is built
    shut       \* history: who has not been, in the same time

vars == <<tables, step, page, library, events, rows, open, shut>>

NoPage == [handler |-> "none", party |-> Unborn, actor |-> Nobody,
           target |-> Nobody, game |-> NoGame, roster |-> {},
           friends |-> {}, known |-> {}, merged |-> {}]

PagesInit ==
    /\ TablesInit
    /\ step = [v \in Visits |-> "idle"]
    /\ page = [v \in Visits |-> NoPage]
    /\ library = [u \in Users |-> {}]
    /\ events = [p \in Parties |-> {}]
    /\ rows = [v \in Visits |-> {}]
    /\ open = [v \in Visits |-> {}]
    /\ shut = [v \in Visits |-> {}]

-----------------------------------------------------------------------------
Known == {u \in Users : users[u] # "unknown"}

\* Who may be invited to p: neither a member nor asked already.
Open(p) == {u \in Users : joined[p][u] = 0 /\ PendingFor(invites[p], u) = {}}

\* The handler of v passes from one step to the next, having learnt what.
Goes(v, from, to) ==
    /\ step[v] = from
    /\ step' = [step EXCEPT ![v] = to]

Reads(v, from, to, what) ==
    /\ Goes(v, from, to)
    /\ page' = [page EXCEPT ![v] = what]
    /\ UNCHANGED <<tables, library, events, rows>>

\* A request begins, for a party that exists or has existed.  The session names
\* the actor; the target is anybody's SteamID64.
Arrive(v, h, p, a, t) ==
    /\ step[v] = "idle"
    /\ users[a] = "signedIn"
    /\ leader[p] # Unborn
    /\ (t = Nobody) <=> (h # "invite")
    /\ step' = [step EXCEPT ![v] = IF h = "invite" THEN "roster" ELSE "member"]
    /\ page' = [page EXCEPT ![v] = [NoPage EXCEPT !.handler = h, !.party = p,
                                                  !.actor = a, !.target = t]]
    /\ rows' = [rows EXCEPT ![v] = Known]
    /\ UNCHANGED <<tables, library, events>>

\* The answer is sent: a refusal, an error of any read or of Steam, or the page.
Answered(v) ==
    /\ step[v] # "idle"
    /\ step' = [step EXCEPT ![v] = "idle"]
    /\ page' = [page EXCEPT ![v] = NoPage]
    /\ rows' = [rows EXCEPT ![v] = {}]
    /\ UNCHANGED <<tables, library, events>>

-----------------------------------------------------------------------------
(* What the handlers begin with.                                           *)

\* IsMember, of the actor.
CheckMember(v) ==
    /\ step[v] = "member"
    /\ joined[page[v].party][page[v].actor] # 0
    /\ Reads(v, "member", "roster", page[v])

\* PartyMembers, one query: the members, and which of them leads.  They matter
\* later on to an event, whose game they share.
ReadRoster(v) ==
    LET now == page[v]  p == now.party
    IN  /\ step[v] = "roster"
        /\ leader[p] = now.actor
        /\ now.target \notin Members(joined[p])
        /\ \/ /\ now.handler = "event"
              /\ Reads(v, "roster", "games", [now EXCEPT !.roster = Members(joined[p])])
           \/ /\ now.handler # "event"
              /\ Reads(v, "roster", "friends", now)

-----------------------------------------------------------------------------
(* handleSendInvite                                                        *)

\* The target is among the friends Steam lists.
VerifyFriend(v) ==
    /\ page[v].handler = "invite"
    /\ Reads(v, "friends", "resolve", page[v])

\* Mutant of ResolveTarget: the target's row is written whether it is there or not.
ResolveNobody(v) == Reads(v, "resolve", "upsert", page[v])

\* ResolveUserID; the profile of a target without a row is asked of Steam.  The
\* roster is searched again by id, and says what it said by SteamID64.
ResolveTarget(v) ==
    Reads(v, "resolve", IF page[v].target \in Known THEN "pending" ELSE "upsert",
          page[v])

\* UserPendingInvites, of the target.
CheckPending(v) ==
    /\ step[v] = "pending"
    /\ PendingFor(invites[page[v].party], page[v].target) = {}
    /\ Reads(v, "pending", "send", page[v])

UpsertTarget(v) ==
    /\ Goes(v, "upsert", "send")
    /\ UpsertFriend(page[v].target)
    /\ UNCHANGED <<page, library, events, rows>>

\* Store.SendInvite takes effect, in one of its two ways.
Send(v) ==
    LET now == page[v]
    IN  /\ Goes(v, "send", "added")
        /\ \/ SendInvite(now.party, now.actor, now.target)
           \/ AddFriend(now.party, now.actor, now.target)
        /\ UNCHANGED <<page, library, events, rows>>

\* IsMember, of the target: a member is synced (syncAddedMember, in LibrarySync).
CheckAdded(v) ==
    /\ step[v] = "added"
    /\ joined[page[v].party][page[v].target] # 0
    /\ Reads(v, "added", "sync", page[v])

-----------------------------------------------------------------------------
(* handleCreatePartyEvent                                                  *)

\* Mutant of SharedGames: a game that one of the roster owns.
OwnedBySome(roster) == UNION {library[u] : u \in roster}

\* BuildSharedGames of a roster of two or more.  It reads the sync states before
\* the libraries; rows of user_games are never deleted, so one read stands for both.
SharedGames(roster) ==
    {g \in Games : /\ \E u, w \in roster : u # w
                   /\ \A u \in roster : g \in library[u]}

ChooseGame(v) ==
    /\ step[v] = "games"
    /\ \E g \in SharedGames(page[v].roster) :
           Reads(v, "games", "insert", [page[v] EXCEPT !.game = g])

\* Mutant of InsertEvent: party_events.party_id does not reference parties.
InsertEventUnreferenced(v) ==
    /\ Goes(v, "insert", "idle")
    /\ events' = [events EXCEPT ![page[v].party] = @ \cup {page[v].game}]
    /\ page' = [page EXCEPT ![v] = NoPage]
    /\ rows' = [rows EXCEPT ![v] = {}]
    /\ UNCHANGED <<tables, library>>

\* CreatePartyEvent: the foreign key refuses a party that is gone.
InsertEvent(v) ==
    /\ Goes(v, "insert", "idle")
    /\ Live(page[v].party)
    /\ events' = [events EXCEPT ![page[v].party] = @ \cup {page[v].game}]
    /\ page' = [page EXCEPT ![v] = NoPage]
    /\ rows' = [rows EXCEPT ![v] = {}]
    /\ UNCHANGED <<tables, library>>

-----------------------------------------------------------------------------
(* BuildInviteCandidates, for the leader's page.                           *)

ListFriends(v) ==
    /\ page[v].handler = "detail"
    /\ \E fs \in SUBSET (Users \ {page[v].actor}) :
           Reads(v, "friends", "known", [page[v] EXCEPT !.friends = fs])

\* InviteCandidates: nobody at all unless the actor still leads.
Candidates(p, a, fs) ==
    IF leader[p] = a THEN fs \cap Known \cap Open(p) ELSE {}

ReadKnown(v) ==
    LET now == page[v]
    IN  Reads(v, "known", "excluded",
              [now EXCEPT !.known = Candidates(now.party, now.actor, now.friends)])

\* Mutant of Exclusions: pending invites are not looked at.
ExclusionsOfMembers(p, fs) == fs \cap Members(joined[p])

\* Mutant of Exclusions: an answered invite excludes as well.
ExclusionsForEver(p, fs) ==
    {u \in fs : joined[p][u] # 0 \/ \E i \in invites[p] : i.user = u}

\* InviteExclusions: the friends with a row who are members or asked.
Exclusions(p, fs) == (fs \cap Known) \ Open(p)

\* The friends in neither answer are added to the picker from their Steam profile.
ReadExcluded(v) ==
    LET now == page[v]
    IN  /\ step[v] = "excluded"
        /\ Reads(v, "excluded", "shown",
                 [now EXCEPT !.merged = (now.friends \ now.known)
                                            \ Exclusions(now.party, now.friends)])

-----------------------------------------------------------------------------
Handle(v) ==
    \/ CheckMember(v) \/ ReadRoster(v) \/ Answered(v)
    \/ VerifyFriend(v) \/ ResolveTarget(v) \/ CheckPending(v)
    \/ UpsertTarget(v) \/ Send(v) \/ CheckAdded(v)
    \/ ChooseGame(v) \/ InsertEvent(v)
    \/ ListFriends(v) \/ ReadKnown(v) \/ ReadExcluded(v)

\* Other requests change the rows; the events of a deleted party go with it.
OtherCall ==
    /\ Next
    /\ events' = [p \in Parties |-> IF leader'[p] = Gone THEN {} ELSE events[p]]
    /\ UNCHANGED <<step, page, library, rows>>

\* StoreUserLibrary: stored games missing from Steam's answer are kept.
SyncLibrary(u) ==
    /\ u \in Known
    /\ \E g \in Games : library' = [library EXCEPT ![u] = @ \cup {g}]
    /\ UNCHANGED <<tables, step, page, events, rows>>

Building == {"known", "excluded"}

\* hist[v] grows by now while v's picker makes its queries, and is kept with it.
Since(v, hist, now) ==
    CASE step'[v] \in Building -> now \cup IF step[v] \in Building THEN hist[v] ELSE {}
      [] step'[v] = "shown" -> hist[v]
      [] OTHER -> {}

Watch ==
    LET openNow(v) == IF step'[v] \in Building THEN Open(page[v].party)' ELSE {}
    IN  /\ open' = [v \in Visits |-> Since(v, open, openNow(v))]
        /\ shut' = [v \in Visits |-> Since(v, shut, Users \ openNow(v))]

PagesNext ==
    /\ \/ OtherCall
       \/ \E u \in Users : SyncLibrary(u)
       \/ \E v \in Visits :
             \/ \E h \in Handlers, p \in Parties, a \in Users, t \in Users \cup {Nobody} :
                    Arrive(v, h, p, a, t)
             \/ Handle(v)
    /\ Watch

PagesSpec == PagesInit /\ [][PagesNext]_vars

-----------------------------------------------------------------------------
(* Properties.                                                             *)

Listed(v) == page[v].known \cup page[v].merged

\* Whoever the leader is offered could have been invited at some moment while
\* the picker was built: two queries without a common snapshot never offer one
\* who was a member, or asked, all along (view.go:58-103).
ListedWereOpen == \A v \in Visits : step[v] = "shown" => Listed(v) \subseteq open[v]

\* Whoever could have been invited all along is offered: a friend who falls
\* between the two queries is not lost (view.go:92-103).
OpenAreListed ==
    \A v \in Visits : step[v] = "shown" => page[v].friends \ shut[v] \subseteq Listed(v)

Upserts(v) == step[v] = "upsert" /\ step'[v] = "send"

\* The users row of a target who had one when the request began is not touched by
\* it (main.go:894-895): no member, invitee or signed-in user loses their profile.
OldRowsUntouched ==
    [][\A v \in Visits : Upserts(v) => page[v].target \notin rows[v]]_vars

\* A party that is gone has no events, whatever a leader's request found before.
NoOrphanEvents == \A p \in Parties : events[p] # {} => Live(p)

Inserts(v) == step[v] = "insert" /\ events' # events

\* An event is for a game that every member owns who has been one since the
\* handler read the roster, and there were two of them then (party_events.go:133-148).
EventFitsRoster ==
    [][\A v \in Visits : Inserts(v) =>
          /\ \A u \in page[v].roster : page[v].game \in library[u]
          /\ \E u, w \in page[v].roster : u # w]_vars

=============================================================================
