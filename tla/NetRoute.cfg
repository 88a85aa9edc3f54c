SPECIFICATION RouteSpec
CONSTANTS
    Tables <- SmallTables
    Letters = {"e", "0", "w", "l"}
    Interfaces <- Names
    LineLength = 7
    Block = 36
    MaxDev = 3
INVARIANTS
    TypeOK
    DevicesDistinct
    FindsInterfaces
