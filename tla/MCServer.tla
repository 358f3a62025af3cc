------------------------------- MODULE MCServer -------------------------------
(***************************************************************************)
(* An instance of Server for TLC.                                          *)
(***************************************************************************)
EXTENDS Server

CONSTANTS u1, u2

WeekdayNames ==
    [i \in 0..6 |-> <<"mon", "tue", "wed", "thu", "fri", "sat", "sun">>[i + 1]]

\* Two hours east and five hours west of UTC.
Zones == [z \in {"east", "west"} |-> IF z = "east" THEN 120 ELSE -300]

OfficeHours(zone, from, to) ==
    [enabled |-> TRUE, timezone |-> zone, days |-> {"mon", "tue", "wed", "thu", "fri"},
     start |-> from, end |-> to]

\* The file of the start, as config.example.json has it.
Example == [host |-> "uplink", username |-> "number", users |-> {u1},
    filterSourceIP |-> TRUE, hours |-> OfficeHours("east", <<10, 0>>, <<17, 0>>)]

\* Another number and other users; a window from a time that cannot be read to
\* midnight, west of UTC.
Changed == [host |-> "uplink", username |-> "other number", users |-> {u2},
    filterCalledNo |-> TRUE, hours |-> OfficeHours("west", <<10>>, <<24, 0>>)]

\* Another uplink; a window over midnight, in a zone nobody knows.
Moved == [host |-> "other", username |-> "number", users |-> {u1, u2},
    filterCalledNo |-> TRUE, filterSourceIP |-> TRUE,
    hours |-> OfficeHours("nowhere", <<22, 0>>, <<6, Unknown>>)]

\* A file that records nowhere: no more use than one that is no JSON.
Rejected == [host |-> "uplink", username |-> "number", users |-> {u1}, recording |-> TRUE]

Files == {Example, Changed, Moved, Rejected}

\* At h o'clock of a day: Monday before, at and after the hours in each zone,
\* and the night to a Saturday.
Moment(day, h) == day * DayLength + h * 60

Moments == {Moment(0, 0), Moment(0, 8) - 1, Moment(0, 8), Moment(0, 15), Moment(5, 4)}

=============================================================================
