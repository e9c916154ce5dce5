\* The show: three commands of every kind at any moment, faults at any point. One client:
\* five commands, up to four points measured. Two clients: two commands together,
\* reconnecting while a measurement runs. The clients stop at some point.
SPECIFICATION ServersSpec
CONSTANTS
    MaxCommands = 3
    Alone <- OneClient
    Together <- TwoClients
INVARIANTS ShowsYield MeasurementsWhole
PROPERTIES ServersServe
CHECK_DEADLOCK FALSE
