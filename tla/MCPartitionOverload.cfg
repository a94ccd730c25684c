SPECIFICATION Spec
CONSTANTS
    NUM_OF_TASK = 4
    configNUMBER_OF_CORES = 2
    configMAX_PRIORITIES = 3
    UNIT = 12
    Utilization_Bound = 9
    HeapSizes = {6}
    Periods = {12}
    TaskTables <- MCTables
INVARIANTS
    OverloadIsReported
