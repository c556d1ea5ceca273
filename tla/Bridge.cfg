\* Calls, reports, two sessions, and an engine that may crash.
CONSTANTS
    MaxId = 5
    MaxSteps = 2
    Channels <- BothChannels
    MayCrash = TRUE

SPECIFICATION Spec

INVARIANTS
    CallsUseLiveHandles
    OrphansAreReported
    EachStepReportedOnce

PROPERTIES
    ImplementsCalls
    EveryCallSettles

\* A closed client has nothing more to do.
CHECK_DEADLOCK FALSE
