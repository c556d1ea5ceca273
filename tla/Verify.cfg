CONSTANTS
    Scripts <- MCScripts
    Timeout = 2
    MaxChanges = 2
    MaxErrors = 2
    Tolerance = 1
SPECIFICATION Spec
INVARIANTS
    PassWasWitnessed
    TruthPasses
    ExplicitTypeWins
PROPERTIES
    BaselineOnRequest
    VerifyEnds
CHECK_DEADLOCK FALSE
