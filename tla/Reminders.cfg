SPECIFICATION MCFairSpec
CONSTANTS
    Reminders = {r1}
    Workers = {w1, w2}
    Turn = Turn
    App = App
    Channels = {telegram}
    Triggers = {0, 2}
    Period = 2
    Count = 2
    ESCALATION_MAX_FIRES = 2
    ESCALATION_INTERVAL = 1
    SNOOZE_DEFAULT = 2
    LATE_FIRE_GRACE = 1
    Done = Done
    None = None
    MaxTime = 3
    MaxFaults = 1
    MaxCommands = 3
INVARIANTS
    KeptPromise
    RingsWhenDue
    FiredIsOver
    MissedStaysSilent
PROPERTIES
    DoneStaysQuiet
    EveryReminderFires
CHECK_DEADLOCK FALSE
