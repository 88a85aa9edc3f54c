SPECIFICATION Spec
CONSTANTS
    Second = 12
    Frequencies = {0, 1, 2, 3, 5, 13}
    Times = {0, 1, 2}
    StatModes = {0, 1}
    NbSensors = 2
    MaxCost = 14
    MaxLate = 2
INVARIANTS
    OverheadReported
    AtMostFrequency
    OnTheGrid
