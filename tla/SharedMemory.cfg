CONSTANTS
    Worker = {gw0, gw1}
    Key = {step1, step2}
    Payload = {ref}
    NoRow = NoRow
    NoWorker = NoWorker
    NoJob = NoJob
    NoFile = NoFile
    TTLDays = 0
    MaxFailures = 1
    MaxWins = 1
    MaxFails = 0
    MaxBreaks = 1
\* two processes, two keys
SPECIFICATION FairSpec
INVARIANTS NothingStaysOpen SharedUnlessGaveUp
PROPERTIES ImplementsLayer CallsReturn
