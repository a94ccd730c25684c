SPECIFICATION SystemSpec
CONSTANTS
    NUM_OF_TASK = 7
    configNUMBER_OF_CORES = 2
    configMAX_PRIORITIES = 5
    UNIT = 2100
    Utilization_Bound = 1530
    HeapSizes = {9}
    Periods = {1}
    TaskTables <- RepositoryTables
    DEADLINE_MODULUS = 65536
INVARIANTS
    ConfiguredPriorityRuns
