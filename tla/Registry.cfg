SPECIFICATION Spec
CONSTANTS
    Opts <- SmallOpts
    Outcomes <- SmallOutcomes
    Fatal = {"load", "counters"}
    Static = {"load"}
    Keeps = {"disk"}
    MaxRequests = 3
    Signals = {"TERM", "INT"}
INVARIANTS
    TypeOK
    Aligned
    ColumnsMatch
    CrashOnlyInInit
    ClosedOnce
PROPERTIES
    StableColumns
