\* Two robots, switched on and off; the threads are fair, the client is not.
SPECIFICATION FairSpec
CONSTANTS
    RN = 2
    Kinds <- SwitchKinds
    MaxMessages = 2
    Hwm = 1
    PollsInTime = TRUE
PROPERTIES RecordingSettles PublishedFollows MailboxDrained
