\* Any client: two commands, known and unknown, every mode change. The piano program: the
\* whole score, one cycle of the loop for a second. Refused calls, slow motions and a
\* fault at any point; the loop and the motions are fair, the client is not.
SPECIFICATION ClientsSpec
CONSTANTS
    Types <- PianoTypes
    Times <- PianoTimes
    MaxPush = 13
    MaxTime = 29
PROPERTIES BatchIsMoved StopSettles FaultEndsLoop PlayedAsWritten
CHECK_DEADLOCK FALSE
