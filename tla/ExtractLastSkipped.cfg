\* Expected to fail: the last track is skipped.
SPECIFICATION Spec
CONSTANTS
    NTracks = 3
    Toc <- MCToc
INVARIANTS
    SkippedTracksComplete
CHECK_DEADLOCK FALSE
