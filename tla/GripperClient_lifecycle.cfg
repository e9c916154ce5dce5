\* Start, Stop and thread creation failures; is_ok window of 2 samples.
SPECIFICATION FairSpec
CONSTANTS
    Raw <- ZeroOnly
    IntMin <- MCIntMin
    FilterMax = 3
    Configs <- DefaultConfig
    WindowLimit = 2
INVARIANTS TypeOK CleanWhenStopped ServedWhenConnected AbortNeedsFailedStart ReaderOwnsSocket
PROPERTIES StopReturns FlagFollowsBus ImplementsLifecycle
