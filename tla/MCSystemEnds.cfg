SPECIFICATION SystemSpec
CONSTANTS
    NUM_OF_TASK = 3
    configNUMBER_OF_CORES = 2
    configMAX_PRIORITIES = 4
    UNIT = 12
    Utilization_Bound = 9
    HeapSizes = {3, 4, 5}
    Periods = {4, 6}
    TaskTables <- MCTables
    DEADLINE_MODULUS = 16
PROPERTIES
    ExperimentEnds
    OverflowIsExact
