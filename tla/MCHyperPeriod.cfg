SPECIFICATION Spec
CONSTANTS
    NUM_OF_TASK = 3
    INT_MAX = 63
    Periods = {1, 2, 3, 4, 6, 8, 9, 10}
    PeriodTables <- MCTables
INVARIANTS
    HyperperiodIsRight
PROPERTIES
    HyperperiodIsFound
