SPECIFICATION Spec
CONSTANTS
    Word <- Words
    Inside <- InsideOf
    Folded <- FoldedOf
    Stop <- StopWords
    Option <- Options
    Holds <- HeldBy
    MaxOthers = 6
    MaxRemovals = 1
    Scenarios <- HalfOffered
    TextOf <- LabelText
    MaxEvents = 2
    Retries = 1
INVARIANT PanelAppliesItsOwn
CHECK_DEADLOCK FALSE
