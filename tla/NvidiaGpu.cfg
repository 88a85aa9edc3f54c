SPECIFICATION Spec
CONSTANTS
    MaxDevices = 2
    Kinds <- SomeKinds
    Items <- SomeItems
INVARIANTS
    TypeOK
    ColumnsMatch
    AllReleased
