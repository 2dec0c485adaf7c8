SPECIFICATION Spec
CONSTANTS
    N = 2
    Backend = "TCP"
    ram = ram
    bus = bus
    irq = irq
    Socket = {ram, bus}
    Home <- Pair
    Users <- PairUsers
    SetupCalls <- SbrkCalls
    RunCalls <- MixedCalls
    Stoppers = {1, 2}
    Failing = {}
    Quitters = {1}
    Increments <- SignedIncrements
    MaxCalls = 2
INVARIANTS
    OneVerdict
    QuitIsNoSuccess
    HeapDisjoint
    OneHeap
