SPECIFICATION MemorySpec
CONSTANTS
    turn = turn
    phase = phase
    keeper = keeper
    Size = 2
    Contents = {"tea", "trip"}
    Episodes = {"trip"}
    Clients = {turn}
    Keeper = keeper
    AtOnce = 1
    MaxOps = 2
    MaxFaults = 1
INVARIANTS HasHeir
PROPERTIES NoRevival MaintenanceSettles
