---------------------------- MODULE MCPartyPages ----------------------------
(* Small instances of PartyPages.                                          *)
EXTENDS PartyPages, TLC

MCUsers == 1 .. 3
MCInviteIds == 1 .. 2

\* No handler but that of events reads a library: during a visit to another one,
\* and before it, every library is as it was at first.
LibrariesForEvents ==
    \A v \in Visits : page[v].handler \in {"invite", "detail"} =>
                          library = [u \in Users |-> {}]

\* The picker treats one friend independently of the others: Steam lists all users.
AllAreFriends ==
    \A v \in Visits : step[v] \in Building => page[v].friends = Users \ {page[v].actor}

\* No visit reads the events: nobody visits a party that has one.
EventIsTheEnd ==
    (\E p \in Parties : events[p] # {}) => \A v \in Visits : step[v] = "idle"

\* A visit whose page is shown, or which passes on to a sync, reads nothing more;
\* what the other calls do then, they do as well beside a visit that was refused.
ShownIsTheEnd == \A v \in Visits : step[v] \notin {"shown", "sync"}

=============================================================================
