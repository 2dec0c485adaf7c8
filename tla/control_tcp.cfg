SPECIFICATION FairSpec
CONSTANTS
    N = 3
    Backend = "TCP"
    ram = ram
    bus = bus
    irq = irq
    Socket = {ram, bus, irq}
    Home <- Ring
    Users <- RingUsers
    SetupCalls <- FileCalls
    RunCalls <- FileCalls
    Stoppers = {1, 2}
    Failing = {3}
    Quitters = {}
    Increments = {1}
    MaxCalls = 2
INVARIANTS
    TypeOK
    StartTogether
    BindsToHome
    EndingCount
    ReturnsLast
    CallbacksInOrder
PROPERTIES
    EverybodyLeaves
    ImplementsLifecycle
