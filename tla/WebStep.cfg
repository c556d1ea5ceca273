SPECIFICATION Spec
CONSTANTS
    Word <- Words
    Inside <- InsideOf
    Folded <- FoldedOf
    Stop <- StopWords
    Option <- Options
    Holds <- HeldBy
    MaxOthers = 6
    MaxRemovals = 1
    Scenarios <- Pages
    TextOf <- LabelText
    MaxEvents = 2
    Retries = 1
INVARIANTS
    LandsWhereFound
    DoneAsSaid
    WordsDecide
    PassedMeansSelected
    OthersUntouched
    PanelAllOrNothing
PROPERTY StepsEnd
CHECK_DEADLOCK FALSE
