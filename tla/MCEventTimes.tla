--------------------------- MODULE MCEventTimes ---------------------------
(* A small instance of EventTimes: zones of whole, half and quarter hours  *)
(* on both sides of UTC, whose clocks go forward, back or stay on the      *)
(* second day, and every form of text that Atoi reads in two characters.   *)
EXTENDS EventTimes

Zone(before, after, change) == [before |-> before, after |-> after, change |-> change]

MCZones == {
    Zone(0, 0, 0), Zone(840, 840, 0), Zone(-570, -570, 0), Zone(345, 345, 0),
    Zone(-300, -240, 1440 + 420), Zone(-240, -300, 1440 + 360),
    Zone(60, 120, 1440 + 60), Zone(120, 60, 1440 + 60),
    Zone(-210, -150, 1440 + 330), Zone(660, 630, 900), Zone(570, 630, 990)}

MCDays == {0, 1}
MCTimes == {0, 1, 60, 90, 119, 120, 150, 180, 719, 1439}
MCOddTexts ==
    [sign : {"+", "-"}, hours : {-9, -1, 0, 9, 13, 14, 15, 99}, minutes : {-9, 0, 30, 59, 60, 99}]

=============================================================================
