-------------------------- MODULE MCEventSchedule --------------------------
(***************************************************************************)
(* Small instances of EventSchedule for TLC.                               *)
(***************************************************************************)
EXTENDS EventSchedule

\* Two opt-out schedules that overlap each other and the later events.
From == [o \in OptIds |-> o + 1]
To   == [o \in OptIds |-> o + 3]

AllCommands == {"optevent", "createopt", "cancelopt"}
Schedules   == {"createopt", "cancelopt"}
OptOuts     == {"optevent", "createopt"}
NoCommands  == {}

JustValid == {"valid"}
Withdrawn == {"valid", "cancelled"}
Refused   == {"valid", "badsignals"}

=============================================================================
