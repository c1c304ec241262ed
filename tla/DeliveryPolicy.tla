---------------------------- MODULE DeliveryPolicy ----------------------------
(***************************************************************************)
(* Quiet hours (runtime/delivery_policy.py): when the outbox worker sends, *)
(* mutes or defers one message of a user who may change his settings       *)
(* meanwhile.  How a row is claimed and sent is module OutboxDelivery,     *)
(* which leaves the decision open.                                         *)
(*                                                                         *)
(* Time is the user's local time, a day and an hour: windows begin and end *)
(* on the hour, so minutes decide nothing.                                 *)
(***************************************************************************)
EXTENDS Integers

CONSTANTS HOURS,      \* hours of a day
          WEEK,       \* days of a week
          Settings,   \* the quiet_hours a profile may begin with
          Commands,   \* the quiet_hours the user may set
          None

Weekday == 0 .. WEEK - 1
Hour == 0 .. HOURS - 1
Time == [day : Nat, hour : Hour]
Window == [from_hour : Hour, to_hour : Hour, weekdays : SUBSET Weekday]

ASSUME PolicyAssumption ==
    /\ HOURS \in Nat \ {0} /\ WEEK \in Nat \ {0}
    /\ Settings \subseteq SUBSET Window /\ Commands \subseteq SUBSET Window
    /\ None \notin Time

VARIABLES
    now,
    windows,       \* tenant_user_profiles.quiet_hours_json
    priority,      \* notification_priority of the message's skill
    interactive,   \* outbox_messages.is_interactive
    status,        \* outbox_messages.status
    scheduled_at,
    tickAt,        \* now_utc of the worker's tick that holds the row, or None
    decided        \* the windows by which the row was last deferred

vars == <<now, windows, priority, interactive, status, scheduled_at, tickAt, decided>>

-----------------------------------------------------------------------------
Before(t, u) == t.day < u.day \/ (t.day = u.day /\ t.hour < u.hour)
NotAfter(t, u) == t = u \/ Before(t, u)

\* An empty list of weekdays stands for every day.
DaysOf(w) == IF w.weekdays = {} THEN Weekday ELSE w.weekdays

\* Mutant: a window never goes past midnight.
InWindowSameDay(t, w) == w.from_hour <= t.hour /\ t.hour < w.to_hour

InWindow(t, w) ==
    /\ w.from_hour # w.to_hour
    /\ t.day % WEEK \in DaysOf(w)
    /\ IF w.from_hour < w.to_hour
       THEN w.from_hour <= t.hour /\ t.hour < w.to_hour
       ELSE t.hour >= w.from_hour \/ t.hour < w.to_hour

\* Mutant: the end of a window is always tomorrow.
NextExitTomorrow(t, w) == [day |-> t.day + 1, hour |-> w.to_hour]

\* The next time it is to_hour: today or tomorrow.
NextExit(t, w) ==
    [day |-> IF w.to_hour <= t.hour THEN t.day + 1 ELSE t.day, hour |-> w.to_hour]

Active(t) == {w \in windows : InWindow(t, w)}

\* Quiet hours apply to what the user did not ask for, unless it is urgent.
Silenceable == ~ interactive /\ priority # "urgent"

-----------------------------------------------------------------------------
Init ==
    /\ now = [day |-> 0, hour |-> 0]
    /\ windows \in Settings
    /\ priority \in {"normal", "mute", "urgent"}
    /\ interactive \in BOOLEAN
    /\ status = "pending"
    /\ scheduled_at = None
    /\ tickAt = None
    /\ decided = {}

\* A tick of the worker claims the row once it is due.
Claim ==
    /\ status = "pending" /\ tickAt = None
    /\ scheduled_at # None => NotAfter(scheduled_at, now)
    /\ tickAt' = now
    /\ UNCHANGED <<now, windows, priority, interactive, status, scheduled_at, decided>>

Mute ==
    /\ tickAt # None
    /\ ~ interactive /\ priority = "mute"
    /\ status' = "muted"
    /\ tickAt' = None
    /\ UNCHANGED <<now, windows, priority, interactive, scheduled_at, decided>>

\* The row waits for the last of the windows it is in to end.
Defer ==
    /\ tickAt # None
    /\ Silenceable /\ priority # "mute"
    /\ \E w \in Active(tickAt) :
        /\ \A v \in Active(tickAt) : NotAfter(NextExit(tickAt, v), NextExit(tickAt, w))
        /\ scheduled_at' = NextExit(tickAt, w)
    /\ decided' = windows
    /\ tickAt' = None
    /\ UNCHANGED <<now, windows, priority, interactive, status>>

Send ==
    /\ tickAt # None
    /\ \/ ~ Silenceable
       \/ priority # "mute" /\ Active(tickAt) = {}
    /\ status' = "sent"
    /\ tickAt' = None
    /\ UNCHANGED <<now, windows, priority, interactive, scheduled_at, decided>>

\* The command /quiet.
SetQuietHours ==
    /\ windows' \in Commands
    /\ UNCHANGED <<now, priority, interactive, status, scheduled_at, tickAt, decided>>

SetPriority ==
    /\ priority' \in {"normal", "mute", "urgent"}
    /\ UNCHANGED <<now, windows, interactive, status, scheduled_at, tickAt, decided>>

Hourly ==
    /\ now' = IF now.hour + 1 = HOURS THEN [day |-> now.day + 1, hour |-> 0]
              ELSE [now EXCEPT !.hour = @ + 1]
    /\ UNCHANGED <<windows, priority, interactive, status, scheduled_at, tickAt, decided>>

Next == Claim \/ Mute \/ Defer \/ Send \/ SetQuietHours \/ SetPriority \/ Hourly

Spec == Init /\ [][Next]_vars

-----------------------------------------------------------------------------
\* Type invariant.
TypeOK ==
    /\ now \in Time
    /\ windows \in Settings \cup Commands /\ decided \in Settings \cup Commands \cup {{}}
    /\ priority \in {"normal", "mute", "urgent"}
    /\ interactive \in BOOLEAN
    /\ status \in {"pending", "sent", "muted"}
    /\ scheduled_at \in Time \cup {None}
    /\ tickAt \in Time \cup {None}

\* A message waits only while the quiet hours it was deferred by last: every
\* hour from now up to scheduled_at is in one of those windows, however many
\* of them overlap or follow one another (_next_exit: the time at which the
\* window ends for the current activation).
HeldOnlyWhileQuiet ==
    scheduled_at # None =>
        \A d \in now.day .. scheduled_at.day, h \in Hour :
            LET t == [day |-> d, hour |-> h]
            IN  NotAfter(now, t) /\ Before(t, scheduled_at) => \E w \in decided : InWindow(t, w)

\* The hours of a window, counted on the face of the clock from its start.
Face(w) == {(w.from_hour + k) % HOURS : k \in 0 .. ((w.to_hour - w.from_hour) % HOURS) - 1}

\* A message the user did not ask for and did not call urgent is not sent in
\* his quiet hours, at the time its batch was claimed.
NotDisturbed ==
    [][status' = "sent" /\ status = "pending" /\ Silenceable =>
        \A w \in windows : ~ (tickAt.day % WEEK \in DaysOf(w) /\ tickAt.hour \in Face(w))]_vars
=============================================================================
