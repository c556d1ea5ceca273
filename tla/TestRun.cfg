\* Two processes, three test runs between them; one thing fails.
SPECIFICATION Spec
CONSTANTS
    Proc = {p, q}
    Step <- Steps
    Tests <- AllTests
    MinRuns = 2
    Threshold = 90
    Quarantine = TRUE
    MaxRuns = 3
    MaxErrors = 1
SYMMETRY Processes
INVARIANTS
    EachFailureHasItsShot
    HistoryCountsAddUp
    QuarantineOnlyIntermittent
