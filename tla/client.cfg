SPECIFICATION Spec
CONSTANTS
    TimerId = {t1, t2}
    None = none
    MaxInbox = 2
    MaxBackoff = 2
    MaxWriters = 1
INVARIANTS
    TypeOK
    TimerMatchesState
    SocketToClose
    PassMatchesState
    HandlersMatchState
    NoStuckOutput
PROPERTIES
    BackoffGrows
    AttemptEnds
    RetryHappens
    SilenceNoticed
