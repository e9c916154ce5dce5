\* Every command of the slot; every fault of the line, two tries, at most three stale
\* bytes at a call; both serial profiles and TCP, writes of up to three bytes.
SPECIFICATION DevicesSpec
CONSTANTS
    target = target
    status = status
    Regs <- MCRegs
    Values <- Bit
    Moving <- MCMoving
    Nothing = Nothing
    EchoLen = 3
    ReplyLen = 2
    WriteTries = 2
    ReadTries = 2
    Faults <- AllFaults
    Backlog = 3
    Positions <- MCPositions
    Forces = {20}
    WordSize = 65536
    Fds = {1, 2, 3}
    MaxLen = 3
INVARIANTS RepliesSound ReportHolds
PROPERTIES CalmAccess  EveryCallEnds
