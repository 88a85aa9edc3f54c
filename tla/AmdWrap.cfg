SPECIFICATION Spec
CONSTANTS
    Sensors = {"amd_rapl"}
    Word = 16
    RaplMax = 3
    RawRange = 8
    UnitNum = 3
    UnitDen = 2
    MaxStep = 5
INVARIANTS
    AmdIncrements
