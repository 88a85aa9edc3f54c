SPECIFICATION Spec
CONSTANTS
    Files <- AllFiles
    KeyLists <- AllKeyLists
    Begins <- SomeBegin
    Capacity = 2
    MaxSamples = 2
INVARIANTS
    TypeOK
    RecordsRight
    InStorage
