\* Two threads, three stores in all, of two discs with two tracks.
SPECIFICATION Spec
CONSTANTS
    Threads = {t1, t2}
    Discs = {d1, d2}
    Tracks = 2
    None = None
    MaxStores = 3
SYMMETRY Symmetry
INVARIANTS
    TypeOK
    OneTransaction
    ReportedIsStored
    NamesExist
PROPERTIES
    DiscIsWhole
    ImplementsAtomicStore
