SPECIFICATION Spec
CONSTANTS
    Route <- Chain
    Transactions = {1, 2, 3}
    Masked = {2}
    Pointers = {1, 2}
    Capacity = 1
INVARIANTS
    TypeOK
    OneCarrier
    NoStray
    RightAnswer
PROPERTIES
    Returns
