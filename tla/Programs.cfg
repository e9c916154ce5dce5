\* Both remote control programs, every input and faults at any time; the whole teach script;
\* three fetches, with and without a fall; two messages for two robots.
SPECIFICATION ProgramsSpec
CONSTANTS
    Directions <- SomeDirections
    NoCommand = NoCommand
    Home = Home
    SilenceLimit = 10
    MaxLost = 2
    MaxFetches = 3
    Robots = {0, 1}
    Values = {1}
    MaxMessages = 2
INVARIANTS NewestCounts ScriptsKept
PROPERTIES ProgramsEnd
CHECK_DEADLOCK FALSE
