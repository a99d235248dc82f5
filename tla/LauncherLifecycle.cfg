SPECIFICATION FairSpec
CONSTANTS
    FailuresBeforeDown = 2
    MaxRequests = 2
    MaxGivenUp = 1
    MaxCrashes = 1
    None = None
INVARIANTS
    OneScriptActs
    NothingLeftUnsaid
PROPERTIES
    ExitIsDealtWith
    DownIsNoticed
CHECK_DEADLOCK FALSE
