CONSTANTS
    Save = Save
    Apply = Apply
    SaveDraft = SaveDraft
    noName = noName
    Label = {Save, Apply, SaveDraft}
    NoName = noName
    NoMemo = NoMemo
    NoRef = NoRef
    NameMatch <- MCNameMatch
    FuzzyRatio <- MCFuzzyRatio
    Drift <- MCDrift
    Page <- MCPages
    Step <- ClickStep
    Outage <- MCOutages
    Selector <- MCSelector
    Safety <- MCSafety
    Retries = 1
    Suites <- MCSuites
SPECIFICATION Spec
INVARIANTS HealedStepsAreReported SafetyNetTried RowsMatchTheirPage
