----------------------------- MODULE HistoryTime -----------------------------
(***************************************************************************)
(* Times of history entries: raw ones, in micro seconds since 1601         *)
(* (Chromium) or 1970 (Firefox), and seconds since 1970.                   *)
(***************************************************************************)
EXTENDS Integers

CONSTANTS
    DaySeconds,     \* 86400, scaled down
    Micro,          \* 10^6, scaled down
    EpochOffset,    \* 11644473600: the seconds from 1601 to 1970
    Now             \* time(NULL), for the length of a run

ASSUME TimeAssumption == {DaySeconds, Micro, EpochOffset, Now} \subseteq Nat \ {0}

NoTime == -1        \* the empty last_visit_time

\* browser_normalize_timestamp, of the formats that browsers use
Normalize(raw, format) ==
    IF format = "chromium" THEN (raw - EpochOffset * Micro) \div Micro ELSE raw \div Micro

\* The oldest raw time of the last days.
Cutoff(days_back, format) ==
    LET unix == Now - days_back * DaySeconds
    IN IF format = "chromium" THEN (unix + EpochOffset) * Micro ELSE unix * Micro
=============================================================================
