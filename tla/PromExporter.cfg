SPECIFICATION FairSpec
CONSTANTS
    c1 = c1
    c2 = c2
    Conns <- MCConns
    NoConn = NoConn
    NbSensors = 2
    StatMode = 0
    NbSamples = 2
    InitSize = 3
    Margin = 2
    MaxLine = 1
    MaxOverhead = 1
    Command = TRUE
    Signals = {"TERM", "CHLD"}
INVARIANTS
    TypeOK
    ExactlyOnce
    InBuffer
    NoTornSample
PROPERTIES
    RefinesQueue
    TimerStops
    ExitLeads
CHECK_DEADLOCK FALSE
