SPECIFICATION Spec
CONSTANTS
    NUM_OF_TASK = 4
    configNUMBER_OF_CORES = 2
    configMAX_PRIORITIES = 5
    UNIT = 12
    Utilization_Bound = 9
    RunPeriodTables <- MCTables
    OVERFLOW_TICKS = 15
    HORIZON = 60
INVARIANTS
    TopTasksRun
    TopTasksNeverOverflow
PROPERTIES
    OverflowEndsInPanic
