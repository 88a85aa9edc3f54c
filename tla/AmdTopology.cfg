SPECIFICATION Spec
CONSTANTS
    NbCpus = 4
    Topologies <- MCTopologies
    OnlineSets <- MCOnlineSets
    MaxHotplugs = 2
INVARIANTS
    TypeOK
    InMap
    OnePerCore
    EveryCoreMeasured
