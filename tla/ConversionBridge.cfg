SPECIFICATION Spec
CONSTANTS
    TargetCount = 3
    Contents = {good, odd}
    Refused = {odd}
    MaxRuns = 2
    MaxPolls = 2
    MaxVersion = 1
    MaxMishaps = 2
    None = None
    good = good
    odd = odd
INVARIANTS
    GraphsAreTheirOwn
    ToldTheSame
    BrowsersAreAccountedFor
CHECK_DEADLOCK FALSE
