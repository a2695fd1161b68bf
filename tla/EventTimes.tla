----------------------------- MODULE EventTimes -----------------------------
(***************************************************************************)
(* The times of a party event, from the leader's browser to the row of     *)
(* party_events: the page script writes the UTC offset in force at the     *)
(* chosen start (internal/component/party_events.templ: formatOffset, the  *)
(* submit listener), the handler turns the local fields into instants      *)
(* (party_events.go: parseUTCOffset, eventInstants) and the row is checked *)
(* (CHECK end_at > start_at).  All times are in minutes: a time of day     *)
(* since midnight, a local time and an instant since the first day.        *)
(***************************************************************************)
EXTENDS Integers

CONSTANTS
    Zones,     \* the zones of browsers: an offset before and one after a change
    Days,      \* the dates that are chosen, as days since the first
    Times,     \* the times of day that are chosen
    OddTexts,  \* offset texts of a client that is not the page: [sign, hours, minutes]
    Unread     \* what does not parse as a date, a time or an offset

DayLength == 24 * 60

\* Offsets are east of UTC, and less than fifteen hours.
IsOffset(n) == n \in Int /\ -900 < n /\ n < 900

ASSUME ZonesAssumption ==
    \A z \in Zones : IsOffset(z.before) /\ IsOffset(z.after) /\ z.change \in Int
ASSUME FieldsAssumption ==
    /\ \A d \in Days : d \in Int
    /\ \A t \in Times : t \in Int /\ 0 <= t /\ t < DayLength

\* What strconv.Atoi reads in two characters: two digits, or a digit with a sign.
TwoCharacters == {n \in Int : -10 < n /\ n < 100}
Texts == [sign : {"+", "-"}, hours : TwoCharacters, minutes : TwoCharacters]

ASSUME TextsAssumption == OddTexts \subseteq Texts
ASSUME UnreadAssumption == Unread \notin Days \cup Times \cup Texts

VARIABLES
    stage,  \* "open", "posted", "saved" or "refused"
    zone,   \* the zone of the leader's browser
    form,   \* the fields of the posted form
    sender, \* who posted it: the "page" with its script, or another "client"
    saved   \* the row of party_events

vars == <<stage, zone, form, sender, saved>>

NoEvent == [start |-> 0, end |-> 0]
EmptyForm == [date |-> Unread, start |-> Unread, end |-> Unread, offset |-> Unread]

Init ==
    /\ stage = "open"
    /\ zone \in Zones
    /\ form = EmptyForm
    /\ sender = "nobody"
    /\ saved = NoEvent

-----------------------------------------------------------------------------
(* The browser's clock.                                                    *)

OffsetAt(z, instant) == IF instant < z.change THEN z.before ELSE z.after

LocalTime(z, instant) == instant + OffsetAt(z, instant)

\* Whether clocks in z ever show this local time.
IsShown(z, local) == local - z.before < z.change \/ local - z.after >= z.change

\* new Date(y, m, d, h, min): the earlier instant of a local time shown twice,
\* and the offset before the change for one that is skipped.
InstantOf(z, local) ==
    IF local - z.before < z.change \/ local - z.after < z.change
    THEN local - z.before
    ELSE local - z.after

-----------------------------------------------------------------------------
(* The page script.                                                        *)

\* Mutant of FormatOffset: hours and minutes are cut before the sign is taken off.
FormatOffsetFloored(east) ==
    [sign |-> IF east < 0 THEN "-" ELSE "+",
     hours |-> LET h == east \div 60 IN IF h < 0 THEN -h ELSE h, minutes |-> east % 60]

FormatOffset(east) ==
    LET abs == IF east < 0 THEN -east ELSE east
    IN  [sign |-> IF east < 0 THEN "-" ELSE "+", hours |-> abs \div 60, minutes |-> abs % 60]

ChosenStart(f) == f.date * DayLength + f.start
ChosenEnd(f) == f.date * DayLength + f.end

\* The submit listener takes the offset at the chosen start.
PageSubmits ==
    /\ stage = "open"
    /\ \E d \in Days, s, e \in Times :
        LET local == d * DayLength + s
        IN  form' = [date |-> d, start |-> s, end |-> e,
                     offset |-> FormatOffset(OffsetAt(zone, InstantOf(zone, local)))]
    /\ stage' = "posted" /\ sender' = "page"
    /\ UNCHANGED <<zone, saved>>

\* Any other client sends any fields.
ClientSubmits ==
    /\ stage = "open"
    /\ \E d \in Days \cup {Unread}, s, e \in Times \cup {Unread}, o \in OddTexts \cup {Unread} :
        form' = [date |-> d, start |-> s, end |-> e, offset |-> o]
    /\ stage' = "posted" /\ sender' = "client"
    /\ UNCHANGED <<zone, saved>>

-----------------------------------------------------------------------------
(* The handler.                                                            *)

\* Mutant of InRange: hours are taken as they come.
InRangeOfMinutes(text) == text.minutes <= 59

\* parseUTCOffset refuses what is too much, not what is too little.
InRange(text) == text.hours <= 14 /\ text.minutes <= 59

ParseUTCOffset(text) ==
    LET minutes == text.hours * 60 + text.minutes
    IN  IF text.sign = "-" THEN -minutes ELSE minutes

\* Every field is there and parses, and the end is after the start.
IsAccepted(f) ==
    /\ Unread \notin {f.date, f.start, f.end, f.offset}
    /\ InRange(f.offset)
    /\ ChosenEnd(f) > ChosenStart(f)

\* eventInstants: one zone of a fixed offset for both times.
EventInstants(f) ==
    [start |-> ChosenStart(f) - ParseUTCOffset(f.offset),
     end |-> ChosenEnd(f) - ParseUTCOffset(f.offset)]

\* handleCreatePartyEvent, for a leader and a shared game.
CreateEvent ==
    /\ stage = "posted"
    /\ IF IsAccepted(form)
       THEN stage' = "saved" /\ saved' = EventInstants(form)
       ELSE stage' = "refused" /\ UNCHANGED saved
    /\ UNCHANGED <<zone, form, sender>>

Next == PageSubmits \/ ClientSubmits \/ CreateEvent

Spec == Init /\ [][Next]_vars

-----------------------------------------------------------------------------
(* Properties.                                                             *)

\* The event that a leader submits on the page is saved whatever their zone, and
\* their clock will show the chosen start when it begins, if it ever shows that
\* time.  At its end it shows the chosen end too, unless the clocks have changed
\* since the start: then it is off by that change, because both times were
\* converted with one offset (party_events.go:66-80, party_events.templ:165-172).
SavedAsChosen ==
    sender = "page" =>
        /\ stage = "refused" => form.end <= form.start
        /\ stage = "saved" =>
            LET atStart == OffsetAt(zone, saved.start)
                atEnd == OffsetAt(zone, saved.end)
            IN  IsShown(zone, ChosenStart(form)) =>
                    /\ LocalTime(zone, saved.start) = ChosenStart(form)
                    /\ LocalTime(zone, saved.end) = ChosenEnd(form) + (atEnd - atStart)

\* Whatever a client sends as the offset, a saved event passes the CHECK of its
\* table, keeps its length of less than a day, and is less than fifteen hours away
\* from the same time in UTC (party_events.go:23-40, 73-80).
SavedWithinReason ==
    stage = "saved" =>
        /\ saved.start < saved.end /\ saved.end < saved.start + DayLength
        /\ IsOffset(saved.start - ChosenStart(form))
        /\ saved.end - saved.start = form.end - form.start

=============================================================================
