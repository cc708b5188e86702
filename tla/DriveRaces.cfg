\* Requests at any moment, two threads, one disc.
SPECIFICATION FairSpec
CONSTANTS
    Discs = {d1}
    Workers = {w1, w2}
    None = None
    Unopened = Unopened
    Freed = Freed
    PromptStart = FALSE
INVARIANTS
    TypeOK
    BusyHasOwner
PROPERTIES
    NeverLockedForever
    CancelReturns
CHECK_DEADLOCK FALSE
