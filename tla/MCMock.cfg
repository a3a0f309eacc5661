\* A stream that Python consumes itself, and the mock's batches and calls.
CONSTANTS
    N = 3
    Concurrency = 2
    ChunkMax = 2
    MaxElapsed = 1
    MaxCancels = 1
    None = None
    Scenarios <- MCScenarios
    Excluded = {"x"}
SPECIFICATION MockFairSpec
INVARIANTS CompletionOrder MockOrder HandlersFifo
PROPERTIES PromiseKept DispatchRunsToCompletion CallsEnd
CHECK_DEADLOCK FALSE
