\* Two invocations, one of which registers a passkey, each asked for twice; a
\* window of two ticks in a clock of four windows, so it is opened, used and outlived.
CONSTANTS
    Requests = {delete, register}
    Registering = {register}
    NoRequest = none
    Grace = 2
    ServerTTL = 2
    StorageMayFail = TRUE
    MaxTime = 8
    MaxAsks = 2
SPECIFICATION FairSpec
INVARIANTS
    RunsAtMostAsked
PROPERTIES
    RunsOnlyUnderStepUp
    CancelledStaysOff
    ImplementsPromise
    DialogUnlocks
