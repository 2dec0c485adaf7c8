SPECIFICATION Spec
CONSTANTS
    Texts <- Frames
    Base = 2
    Header = 2
    Buffer = 2
    EarlyPolls = TRUE
INVARIANTS
    Intact
