\* Expected to fail: close, swap the disc, open, extract.
SPECIFICATION Spec
CONSTANTS
    Discs = {d1, d2}
    Workers = {w1, w2}
    None = None
    Unopened = Unopened
    Freed = Freed
    PromptStart = TRUE
PROPERTY
    DiscInfoIsCurrent
SYMMETRY DiscSymmetry
CHECK_DEADLOCK FALSE
