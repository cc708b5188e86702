\* Requests wait until a new thread has reported EXTRACTING; two discs.
SPECIFICATION Spec
CONSTANTS
    Discs = {d1, d2}
    Workers = {w1, w2}
    None = None
    Unopened = Unopened
    Freed = Freed
    PromptStart = TRUE
INVARIANTS
    NoCrash
    ExtractionHoldsLock
PROPERTIES
    CancelLeavesNone
SYMMETRY DiscSymmetry
