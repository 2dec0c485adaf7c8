SPECIFICATION FairSpec
CONSTANTS
    N = 3
    Backend = "MPI"
    ram = ram
    bus = bus
    irq = irq
    Socket = {ram, bus, irq}
    Home <- Ring
    Users <- RingUsers
    SetupCalls <- NoCalls
    RunCalls <- FileCalls
    Stoppers = {1, 2}
    Failing = {3}
    Quitters = {}
    Increments = {1}
    MaxCalls = 2
INVARIANTS
    StartTogether
    ReturnsLast
    NoMissedQuery
    AnswersAtMostOneLate
PROPERTIES
    EverybodyStarts
    EverybodyLeaves
    ImplementsLifecycle
