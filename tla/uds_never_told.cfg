SPECIFICATION FairSpec
CONSTANTS
    N = 2
    Backend = "UDS"
    ram = ram
    bus = bus
    irq = irq
    Socket = {ram, bus}
    Home <- Pair
    Users <- PairUsers
    SetupCalls <- NoCalls
    RunCalls <- NoCalls
    Stoppers = {1}
    Failing = {}
    Quitters = {}
    Increments = {1}
    MaxCalls = 0
PROPERTIES
    EverybodyLeaves
