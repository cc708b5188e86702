\* Every walk over up to seven folders and files, nested three deep.
SPECIFICATION Spec
CONSTANTS
    MaxTracks = 2
    MaxDepth = 3
    MaxEntries = 7
    Row = Row
    None = None
INVARIANTS
    TypeOK
    SourceIsThere
    AlbumIsAhead
    EveryFolderCounted
PROPERTIES
    JsonIsOwn
    TidyAlbumIsIsolated
CHECK_DEADLOCK FALSE
