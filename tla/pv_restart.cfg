CONSTANTS
    NoFile = NoFile
    Files <- AllFiles
    DbTypes = {"sqlite", "log", "mysql"}
    MaxId = 4
    MaxFaults = 2
SPECIFICATION Spec
INVARIANTS TypeOK SettingsKept IdentifierHasRow RowPerLostAnswer
PROPERTIES Provisioned
CHECK_DEADLOCK FALSE
