SPECIFICATION ArgsSpec
CONSTANTS
    Items <- AllItems
    MaxItems = 3
    Endings <- AllEndings
    opts <- MainOpts
    moj_opts <- SensorOpts
    Memory = 5
INVARIANTS
    ParserTypeOK
    CommandRight
    SettingsRight
    SensorsRight
PROPERTIES
    Stops
