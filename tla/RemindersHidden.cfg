SPECIFICATION MCSpec
CONSTANTS
    Reminders = {r1}
    Workers = {w1}
    Turn = Turn
    App = App
    Channels = {telegram}
    Triggers = {0, 2}
    Period = 2
    Count = 2
    ESCALATION_MAX_FIRES = 1
    ESCALATION_INTERVAL = 1
    SNOOZE_DEFAULT = 2
    LATE_FIRE_GRACE = 1
    Done = Done
    None = None
    MaxTime = 4
    MaxFaults = 0
    MaxCommands = 2
INVARIANT
    NoHiddenTrigger
CHECK_DEADLOCK FALSE
