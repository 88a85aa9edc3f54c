SPECIFICATION FairSpec
CONSTANTS
    c1 = c1
    c2 = c2
    Conns <- MCConns
    NoConn = NoConn
    NbSensors = 1
    StatMode = 1
    NbSamples = 1
    InitSize = 5
    Margin = 4
    MaxLine = 2
    MaxOverhead = 2
    Command = TRUE
    Signals = {"CHLD"}
PROPERTIES
    CommandEndStops
CHECK_DEADLOCK FALSE
