----------------------------- MODULE BusinessHours -----------------------------
(***************************************************************************)
(* Whether an instant is within business hours (business_hours.go).        *)
(*                                                                         *)
(* An instant is a minute of the week in UTC, counted from Monday 0:00; a  *)
(* time zone is its offset in minutes.  Zones without a name known to the  *)
(* system, and days and numbers that cannot be read, are values of their   *)
(* own: Unknown.                                                           *)
(***************************************************************************)
EXTENDS Integers, Sequences

CONSTANTS
    Weekdays,   \* Weekdays[i]: the name of day i, Monday is 0
    Offset,     \* Offset[z]: the offset of time zone z, for the known zones
    Unknown     \* a number or zone that cannot be read

DayLength == 24 * 60
WeekLength == 7 * DayLength

\* The digits of a part of the time, or 0 when Atoi fails.
Atoi(part) == IF part = Unknown THEN 0 ELSE part

\* A time is the sequence of its parts between colons.
ParseTimeStr(parts) ==
    IF Len(parts) # 2 THEN <<0, 0>> ELSE <<Atoi(parts[1]), Atoi(parts[2])>>

Minutes(time) == LET hm == ParseTimeStr(time) IN hm[1] * 60 + hm[2]

\* LoadLocation, or UTC when it fails.
LocalOffset(zone) == IF zone \in DOMAIN Offset THEN Offset[zone] ELSE 0

Local(zone, now) == (now + LocalOffset(zone)) % WeekLength

\* Mutant: the weekday is that of UTC.
OpenByUTCDay(hours, now) ==
    /\ Weekdays[now \div DayLength] \in hours.days
    /\ Local(hours.timezone, now) % DayLength \in Minutes(hours.start) .. Minutes(hours.end) - 1

\* Both bounds belong to the same day: a window over midnight holds no minute.
OpenAt(hours, now) ==
    LET local == Local(hours.timezone, now)
        minute == local % DayLength
    IN  /\ Weekdays[local \div DayLength] \in hours.days
        /\ minute >= Minutes(hours.start)
        /\ minute < Minutes(hours.end)

IsWithinBusinessHours(hours, now) == hours.enabled => OpenAt(hours, now)

=============================================================================
