SPECIFICATION Spec
CONSTANTS
    Sensors = {"network", "rapl"}
    Word = 6
    RaplMax = 3
    RawRange = 3
    UnitNum = 3
    UnitDen = 2
    MaxStep = 5
INVARIANTS
    ExactIncrements
