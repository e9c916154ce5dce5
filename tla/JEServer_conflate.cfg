\* One robot: the comment at the conflate option against the code.
SPECIFICATION Spec
CONSTANTS
    RN = 1
    Kinds <- SwitchKinds
    MaxMessages = 2
    Hwm = 2
    PollsInTime = TRUE
INVARIANT OnlyLastKept
