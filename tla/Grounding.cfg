CONSTANTS
    Save = Save
    Apply = Apply
    SaveAll = SaveAll
    SaveDraftChanges = SaveDraftChanges
    Home = Home
    noName = noName
    Label = {Save, Apply, SaveAll, SaveDraftChanges, Home}
    NoName = noName
    NameMatch <- MCNameMatch
    FuzzyRatio <- MCFuzzyRatio
    c2 = c2
    Call = {c1, c2}
    Screen <- AllPages
    Intents <- MCSteps
    Option <- AllOptions
    Stray <- MCStray
    ModelConfidence = {4000, 6000, 7500, 9000}
    EscalateBelow = 7000
    Budget = 2
    Price = 1
    MaxSpent = 1
    MaxRetries = 1
    NoMemo = NoMemo
SPECIFICATION EngineSpec
CONSTRAINT MCCases
INVARIANTS NoGuessBetweenRivals AIOffIsDeterministic WarmCallsAgree SpendBounded
