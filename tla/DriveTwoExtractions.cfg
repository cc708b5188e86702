\* Expected to fail: two requests before the first thread starts.
SPECIFICATION Spec
CONSTANTS
    Discs = {d1}
    Workers = {w1, w2}
    None = None
    Unopened = Unopened
    Freed = Freed
    PromptStart = FALSE
INVARIANT
    OneExtraction
SYMMETRY ThreadSymmetry
CHECK_DEADLOCK FALSE
