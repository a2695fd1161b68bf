-------------------------- MODULE EventTimes_proofs --------------------------
(***************************************************************************)
(* Theorems about EventTimes, for every zone, date, time of day and offset *)
(* text.  They rest on one lemma: what the page script writes for an       *)
(* offset is accepted by the handler and read as the same offset.          *)
(***************************************************************************)
EXTENDS EventTimes, TLAPS

\* formatOffset and parseUTCOffset agree on every offset below fifteen hours.
LEMMA OffsetIsReadBack ==
    ASSUME NEW o, IsOffset(o)
    PROVE  /\ FormatOffset(o) \in Texts
           /\ InRange(FormatOffset(o))
           /\ ParseUTCOffset(FormatOffset(o)) = o
<1> DEFINE abs == IF o < 0 THEN -o ELSE o
<1>1. /\ abs \in Nat /\ abs < 900
      /\ abs \div 60 \in 0 .. 14 /\ abs % 60 \in 0 .. 59
      /\ (abs \div 60) * 60 + (abs % 60) = abs
  BY DEF IsOffset
<1>2. FormatOffset(o) =
        [sign |-> IF o < 0 THEN "-" ELSE "+", hours |-> abs \div 60, minutes |-> abs % 60]
  BY DEF FormatOffset
<1> HIDE DEF abs
<1>3. FormatOffset(o) \in Texts /\ InRange(FormatOffset(o))
  BY <1>1, <1>2 DEF Texts, TwoCharacters, InRange
<1>4. ParseUTCOffset(FormatOffset(o)) = IF o < 0 THEN -abs ELSE abs
  BY <1>1, <1>2 DEF ParseUTCOffset
<1> QED BY <1>3, <1>4 DEF abs, IsOffset

\* Whatever text is accepted, its offset is less than fifteen hours: a sign of
\* Atoi's own leaves room for one digit only.
LEMMA OffsetIsBounded ==
    ASSUME NEW text \in Texts, InRange(text)
    PROVE  IsOffset(ParseUTCOffset(text))
<1>1. /\ text.hours \in Int /\ -10 < text.hours /\ text.hours <= 14
      /\ text.minutes \in Int /\ -10 < text.minutes /\ text.minutes <= 59
  BY DEF Texts, TwoCharacters, InRange
<1> QED BY <1>1 DEF ParseUTCOffset, IsOffset

-----------------------------------------------------------------------------
\* The form that was posted, and what has become of it.
PostedFits ==
    stage # "open" =>
        /\ form.date \in Days \cup {Unread}
        /\ form.start \in Times \cup {Unread} /\ form.end \in Times \cup {Unread}
        /\ form.offset \in Texts \cup {Unread}

PageFits ==
    sender = "page" =>
        /\ form.date \in Days /\ form.start \in Times /\ form.end \in Times
        /\ form.offset =
              FormatOffset(OffsetAt(zone, InstantOf(zone, ChosenStart(form))))

OutcomeFits ==
    /\ stage = "saved" => IsAccepted(form) /\ saved = EventInstants(form)
    /\ stage = "refused" => ~IsAccepted(form)

EventInv ==
    /\ zone \in Zones
    /\ stage \in {"open", "posted", "saved", "refused"}
    /\ stage = "open" => sender = "nobody"
    /\ PostedFits /\ PageFits /\ OutcomeFits

\* Every offset that a browser's clock has is one of its zone.
LEMMA OffsetOfZone ==
    ASSUME NEW z \in Zones, NEW u
    PROVE  IsOffset(OffsetAt(z, u))
  BY ZonesAssumption DEF OffsetAt

\* A date and a time of day make a local time, and keep their order.
LEMMA LocalTimes ==
    ASSUME NEW f, f.date \in Days, f.start \in Times, f.end \in Times
    PROVE  /\ f.start \in Int /\ f.end \in Int
           /\ f.end - f.start < DayLength /\ DayLength \in Int
           /\ ChosenStart(f) \in Int /\ ChosenEnd(f) \in Int
           /\ ChosenEnd(f) - ChosenStart(f) = f.end - f.start
<1>1. DayLength = 1440
  BY DEF DayLength
<1>2. /\ f.date \in Int
      /\ f.start \in Int /\ 0 <= f.start /\ f.start < 1440
      /\ f.end \in Int /\ 0 <= f.end /\ f.end < 1440
  BY <1>1, FieldsAssumption
<1>3. ChosenStart(f) = f.date * 1440 + f.start /\ ChosenEnd(f) = f.date * 1440 + f.end
  BY <1>1 DEF ChosenStart, ChosenEnd
<1>4. f.date * 1440 \in Int
  BY <1>2
<1> QED BY <1>1, <1>2, <1>3, <1>4

LEMMA InvHolds == Spec => []EventInv
<1>1. Init => EventInv
  BY DEF Init, EventInv, PostedFits, PageFits, OutcomeFits
<1>2. EventInv /\ [Next]_vars => EventInv'
  <2> SUFFICES ASSUME EventInv, [Next]_vars PROVE EventInv'
    OBVIOUS
  <2> USE DEF EventInv
  <2>1. CASE PageSubmits
    <3>1. PICK d \in Days, s \in Times, e \in Times :
            form' = [date |-> d, start |-> s, end |-> e,
                     offset |-> FormatOffset(OffsetAt(zone, InstantOf(zone, d * DayLength + s)))]
      BY <2>1 DEF PageSubmits
    <3>2. form'.offset \in Texts
      BY <3>1, OffsetOfZone, OffsetIsReadBack
    <3> QED BY <2>1, <3>1, <3>2
            DEF PageSubmits, PostedFits, PageFits, OutcomeFits, ChosenStart
  <2>2. CASE ClientSubmits
    BY <2>2, TextsAssumption DEF ClientSubmits, PostedFits, PageFits, OutcomeFits
  <2>3. CASE CreateEvent
    BY <2>3 DEF CreateEvent, PostedFits, PageFits, OutcomeFits, IsAccepted, EventInstants,
                ChosenStart, ChosenEnd
  <2>4. CASE UNCHANGED vars
    BY <2>4 DEF vars, PostedFits, PageFits, OutcomeFits, IsAccepted, EventInstants,
                ChosenStart, ChosenEnd
  <2> QED BY <2>1, <2>2, <2>3, <2>4 DEF Next
<1> QED BY <1>1, <1>2, PTL DEF Spec

-----------------------------------------------------------------------------
\* The event of any zone's page is saved, and shows the times that were chosen
\* (party_events.go:23-81, party_events.templ:145-172).
THEOREM AlwaysSavedAsChosen == Spec => []SavedAsChosen
<1>1. EventInv => SavedAsChosen
  <2> SUFFICES ASSUME EventInv, sender = "page"
               PROVE  /\ stage = "refused" => form.end <= form.start
                      /\ stage = "saved" /\ IsShown(zone, ChosenStart(form)) =>
                            /\ LocalTime(zone, saved.start) = ChosenStart(form)
                            /\ LocalTime(zone, saved.end) = ChosenEnd(form)
                                + (OffsetAt(zone, saved.end) - OffsetAt(zone, saved.start))
    BY DEF SavedAsChosen
  <2> USE DEF EventInv
  <2> DEFINE offset == OffsetAt(zone, InstantOf(zone, ChosenStart(form)))
  <2>1. /\ form.start \in Int /\ form.end \in Int
        /\ ChosenStart(form) \in Int /\ ChosenEnd(form) \in Int
        /\ ChosenEnd(form) - ChosenStart(form) = form.end - form.start
        /\ Unread \notin {form.date, form.start, form.end}
    BY LocalTimes, UnreadAssumption DEF PageFits
  <2>2. IsOffset(offset)
    BY OffsetOfZone
  <2>3. /\ form.offset \in Texts /\ InRange(form.offset)
        /\ ParseUTCOffset(form.offset) = offset
    BY <2>2, OffsetIsReadBack DEF PageFits
  <2>4. form.offset # Unread
    BY <2>3, UnreadAssumption
  <2>5. ASSUME stage = "refused" PROVE form.end <= form.start
    <3>1. ~(ChosenEnd(form) > ChosenStart(form))
      BY <2>1, <2>3, <2>4, <2>5 DEF OutcomeFits, IsAccepted
    <3> QED BY <3>1, <2>1
  <2>6. ASSUME stage = "saved", IsShown(zone, ChosenStart(form))
        PROVE  /\ LocalTime(zone, saved.start) = ChosenStart(form)
               /\ LocalTime(zone, saved.end) = ChosenEnd(form)
                    + (OffsetAt(zone, saved.end) - OffsetAt(zone, saved.start))
    <3>1. saved.start = ChosenStart(form) - offset /\ saved.end = ChosenEnd(form) - offset
      BY <2>3, <2>6 DEF OutcomeFits, EventInstants
    <3>2. OffsetAt(zone, saved.start) = offset
      BY <3>1, <2>1, <2>6, ZonesAssumption DEF OffsetAt, InstantOf, IsShown, IsOffset
    <3>3. OffsetAt(zone, saved.end) \in Int
      BY OffsetOfZone DEF IsOffset
    <3> QED BY <3>1, <3>2, <3>3, <2>1, <2>2 DEF LocalTime, IsOffset
  <2> QED BY <2>5, <2>6
<1> QED BY <1>1, InvHolds, PTL

\* No text that a client can send as the offset makes an event that the table
\* refuses, or moves it by fifteen hours (party_events.go:23-40).
THEOREM AlwaysSavedWithinReason == Spec => []SavedWithinReason
<1>1. EventInv => SavedWithinReason
  <2> SUFFICES ASSUME EventInv, stage = "saved"
               PROVE  /\ saved.start < saved.end /\ saved.end < saved.start + DayLength
                      /\ IsOffset(saved.start - ChosenStart(form))
                      /\ saved.end - saved.start = form.end - form.start
    BY DEF SavedWithinReason
  <2>1. /\ form.date \in Days /\ form.start \in Times /\ form.end \in Times
        /\ form.offset \in Texts /\ InRange(form.offset)
        /\ ChosenEnd(form) > ChosenStart(form)
        /\ saved = EventInstants(form)
    BY DEF EventInv, PostedFits, OutcomeFits, IsAccepted
  <2>2. IsOffset(ParseUTCOffset(form.offset))
    BY <2>1, OffsetIsBounded
  <2>3. /\ form.start \in Int /\ form.end \in Int
        /\ form.end - form.start < DayLength /\ DayLength \in Int
        /\ ChosenStart(form) \in Int /\ ChosenEnd(form) \in Int
        /\ ChosenEnd(form) - ChosenStart(form) = form.end - form.start
    BY <2>1, LocalTimes
  <2>4. /\ saved.start = ChosenStart(form) - ParseUTCOffset(form.offset)
        /\ saved.end = ChosenEnd(form) - ParseUTCOffset(form.offset)
    BY <2>1 DEF EventInstants
  <2> QED BY <2>1, <2>2, <2>3, <2>4 DEF IsOffset
<1> QED BY <1>1, InvHolds, PTL

=============================================================================
