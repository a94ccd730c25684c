SPECIFICATION Spec
CONSTANTS
    Tasks <- MCTasks
    xTimeIncrement <- MCIncrements
    TICK_MODULUS = 5
    MAX_PENDED = 2
INVARIANTS
    ListsOK
    WrapFindsEmptyList
PROPERTIES
    ImplementsDelays
    SleepersWake
