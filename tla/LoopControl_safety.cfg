\* Three commands of four types, with and without equal times; every mode change,
\* refused calls, faults.
SPECIFICATION Spec
CONSTANTS
    Types <- MCTypes
    Times <- MCTimes
    MaxPush = 3
    MaxTime = 2
INVARIANTS TypeOK AtMostOneLateBatch BatchNeverEmpty InOrder EachStopClearsOnce
