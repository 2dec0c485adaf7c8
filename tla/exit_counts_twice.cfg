SPECIFICATION Spec
CONSTANTS
    N = 2
    Backend = "TCP"
    ram = ram
    bus = bus
    irq = irq
    Socket = {ram, bus}
    Home <- Pair
    Users <- PairUsers
    SetupCalls <- NoCalls
    RunCalls <- ExitCalls
    Stoppers = {1, 2}
    Failing = {}
    Quitters = {}
    Increments = {1}
    MaxCalls = 1
INVARIANTS
    ReturnsLast
