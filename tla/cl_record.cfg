CONSTANTS
    Open = Open
    MaxCommands = 2
    Codes = {0}
    Times = {1, 2}
    MaxFaults = 3
SPECIFICATION Spec
INVARIANTS TypeOK RunsOnce RowTellsEnd
PROPERTIES PromiseSpec CommandsSettle
CHECK_DEADLOCK FALSE
