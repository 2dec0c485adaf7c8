SPECIFICATION Spec
CONSTANTS
    Socket = {ram, bus}
INVARIANTS
    TypeOK
    VerdictFits
PROPERTIES
    ImplementsLifecycle
