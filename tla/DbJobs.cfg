\* Two jobs of any kind and stores of discs at any moment.
SPECIFICATION Spec
CONSTANTS
    Discs = {d1, d2}
    Threads = {t1, t2}
    None = None
INVARIANTS
    TypeOK
    BusyModeHasJob
    IndexIsBack
    LibraryIsConsistent
PROPERTIES
    ScanIsComplete
SYMMETRY Symmetry
CHECK_DEADLOCK FALSE
