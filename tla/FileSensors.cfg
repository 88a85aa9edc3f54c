SPECIFICATION Spec
CONSTANTS
    Machines <- AllMachines
    Coretemp <- MCCoretemp
    Name <- MCName
    NbFields = 2
    NbCounters = 2
    MaxUnplugs = 2
INVARIANTS
    ListFits
    ColumnsMatch
    LabelsDistinct
    AllMeasured
    NothingLeftOpen
