\* Three threads at the cool-down; two robots, every configuration of up to three slots;
\* every Piper command; frames and bytes at their boundaries.
SPECIFICATION EESpec
CONSTANTS
    t1 = t1
    t2 = t2
    t3 = t3
    Unset = Unset
    Threads <- ThreeThreads
    Cooldown = 2
    MaxTime = 3
    RobotNum = 2
    Kinds <- AllKinds
    MaxTry = 2
    MaxRaw = 3
    Lo = 0
    Hi = 2
    Raw <- SomeRaw
    Base = 4
    FrameAngles <- SomeAngles
    Efforts <- SomeEfforts
    Statuses = {3}
    CtrlId = 345
    FeedbackId = 680
    OtherId = 681
    Modes = {0, 1, 2}
    Positions <- SomePositions
    Presets <- SomePresets
    HandIds = {1, 255}
    FingerValues = {0, 255, 1000}
    FirstBytes <- AllBytes
    RestBytes <- SomeBytes
    Damages <- SomeDamages
    Length = 3
INVARIANTS ClaimsSpaced AllOrNothing DamageSeen
PROPERTIES  CallsEnd
CHECK_DEADLOCK FALSE
