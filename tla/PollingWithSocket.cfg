SPECIFICATION CoupledSpec
CONSTANTS
    Polls = {planned}
    UserInterval = 2
    PushInterval = 4
    MaxRetryAfter = 3
    RetryAfterSupported = FALSE
    MaxFailures = 2
    BackoffMax = 4
INVARIANTS
    NeverAsleep
    OneWarning
    PaceFits
PROPERTIES
    PauseRespected
    SteadyPace
    PolledAgain
    Reconnects
    ImplementsLink
