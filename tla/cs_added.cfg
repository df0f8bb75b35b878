CONSTANTS
    r1 = r1
    r2 = r2
    sda = sda
    NoSystem = NoSystem
    Reporters = {r1}
    Devs = {sda}
    Machines <- OneDisk
    StartIds <- New
    MaxSessions = 2
    MaxCommands = 0
    MaxFaults = 0
SPECIFICATION Spec
INVARIANTS AddedDeviceStored
