\* Three tracks of two, three and one sectors.
SPECIFICATION FairSpec
CONSTANTS
    NTracks = 3
    Toc <- MCToc
INVARIANTS
    TypeOK
    KeptTrackIsWhole
    NoPartialFile
PROPERTIES
    CancelInTimeIsFinal
    ImplementsRipDisc
CHECK_DEADLOCK FALSE
