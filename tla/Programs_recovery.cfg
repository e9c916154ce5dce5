\* A fault before the first command: where the recovery goes.
SPECIFICATION ProgramsSpec
CONSTANTS
    Directions <- SomeDirections
    NoCommand = NoCommand
    Home = Home
    SilenceLimit = 10
    MaxLost = 2
    MaxFetches = 3
    Robots = {0, 1}
    Values = {1}
    MaxMessages = 2
INVARIANTS RecoversToKnownPose
CHECK_DEADLOCK FALSE
