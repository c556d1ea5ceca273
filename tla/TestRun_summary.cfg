\* Two processes of the bridge write the summary of a test each.
SPECIFICATION Spec
CONSTANTS
    Proc = {p, q}
    Step <- Steps
    Tests <- Summed
    MinRuns = 2
    Threshold = 90
    Quarantine = FALSE
    MaxRuns = 2
    MaxErrors = 0
INVARIANT SummaryKeepsAll
