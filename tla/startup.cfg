SPECIFICATION FairSpec
CONSTANTS
    Nobody = nobody
    controller = controller
    remote = remote
    client1 = client1
    client2 = client2
    proxy1 = proxy1
    proxy2 = proxy2
    Server = {controller, remote}
    Dialer = {client1, client2, proxy1, proxy2}
    Remotes = {remote}
    Goal <- Goals
    Domain <- Domains
    Tries = 2
    Leavers = {controller, remote}
    Refusable = {remote}
    MaxChanges = 1
INVARIANTS
    TypeOK
    RecordsAreDialable
    PortsSuffice
    ServesOwn
    AllRegistered
PROPERTIES
    FullHouse
CHECK_DEADLOCK FALSE
