\* Apps of one to four screens; twice the app moves on by itself or an alert comes
\* up, and two accesses to the driver fail.
SPECIFICATION Spec
CONSTANTS
    Word <- Words
    Letters <- LettersOf
    FieldWord <- FieldWords
    Scripts <- Apps
    Polls = 2
    MaxChanges = 2
    MaxErrors = 2
INVARIANTS
    ContextRestored
    RepeatsOnlyTransient
    AimsFit
    CompactionKeepsOutcome
PROPERTY MobileStepsEnd
