SPECIFICATION MCSpec
CONSTANTS
    HOURS = 3
    WEEK = 2
    LastDay = 1
    Settings <- MCSettings
    Commands <- MCCommands
    None = None
INVARIANTS
    HeldOnlyWhileQuiet
PROPERTY
    NotDisturbed
