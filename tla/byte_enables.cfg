SPECIFICATION Spec
CONSTANTS
    Route <- Direct
    Transactions = {1, 2}
    Masked = {2}
    Pointers = {1, 2}
    Capacity = 1
INVARIANTS
    AnswerKept
