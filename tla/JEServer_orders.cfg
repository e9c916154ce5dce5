\* Two robots, three messages of every kind, a pipe that can fill up.
SPECIFICATION Spec
CONSTANTS
    RN = 2
    Kinds <- AllKinds
    MaxMessages = 3
    Hwm = 2
    PollsInTime = TRUE
INVARIANTS TypeOK OneRecorder CaughtUp
