CONSTANTS
    laptop = laptop
    ci = ci
    step = step
    oldRef = oldRef
    newRef = newRef
    Site = {laptop, ci}
    Key = {step}
    Payload = {oldRef, newRef}
    NoRow = NoRow
    NoFile = NoFile
    TTLDays = 1
    MaxFailures = 2
    MaxDay = 2
    MaxWins = 3
    MaxFails = 2
SPECIFICATION Spec
SYMMETRY Symmetry
INVARIANTS TypeOK Provenance CountsNotInflated
PROPERTIES RevivedOnlyByEvidence
CHECK_DEADLOCK FALSE
