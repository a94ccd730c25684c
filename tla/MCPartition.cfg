SPECIFICATION BootSpec
CONSTANTS
    NUM_OF_TASK = 4
    configNUMBER_OF_CORES = 2
    configMAX_PRIORITIES = 3
    UNIT = 12
    Utilization_Bound = 9
    HeapSizes = {3, 5, 6}
    Periods = {4, 6}
    TaskTables <- MCTables
INVARIANTS
    TypeOK
    AdmissionOK
    SplitKeepsWork
    SplitPartsApart
    BodyIsFirstOnItsCore
    CoreLedger
PROPERTIES
    AssignmentIsFinal
    ImplementsPlacement
    Spa1Admission
