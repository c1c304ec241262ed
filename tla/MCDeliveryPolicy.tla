--------------------------- MODULE MCDeliveryPolicy ---------------------------
(***************************************************************************)
(* Model checking of DeliveryPolicy: a short day and week, all pairs of    *)
(* windows.                                                                *)
(***************************************************************************)
EXTENDS DeliveryPolicy

CONSTANT LastDay     \* the day on which time stops

\* Windows of every day, listed or by default.
MCWindows == [from_hour : Hour, to_hour : Hour, weekdays : {{}, Weekday}]

MCSettings == {{v, w} : v \in MCWindows, w \in MCWindows} \cup {{}}

\* /quiet sets one window of every day, or none.
MCCommands == {{w} : w \in [from_hour : Hour, to_hour : Hour, weekdays : {Weekday}]} \cup {{}}

MCHourly == (now.day < LastDay \/ now.hour + 1 < HOURS) /\ Hourly

MCNext == Claim \/ Mute \/ Defer \/ Send \/ SetQuietHours \/ SetPriority \/ MCHourly

MCSpec == Init /\ [][MCNext]_vars
=============================================================================
