CONSTANTS
    r1 = r1
    r2 = r2
    sda = sda
    NoSystem = NoSystem
    Reporters = {r1, r2}
    Devs = {sda}
    Machines <- Upgrades
    StartIds <- NewOrOld
    MaxSessions = 3
    MaxCommands = 1
    MaxFaults = 1
SYMMETRY ReporterSymmetry
SPECIFICATION SerialSpec
INVARIANTS TypeOK IdentifiersDistinct RowsOwned SystemStored DevicesStored
