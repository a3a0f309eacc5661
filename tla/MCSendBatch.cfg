\* Four requests, two permits: tasks queue, and permits change hands.
CONSTANTS
    N = 4
    Concurrency = 2
SPECIFICATION FairSpec
INVARIANTS PermitsConserved ResultsInInputOrder
PROPERTIES PromiseKept BatchReturns
CHECK_DEADLOCK FALSE
