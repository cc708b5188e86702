\* Two requests, and a rebuild or a scan, over two discs and two files.
SPECIFICATION Spec
CONSTANTS
  MaxTracks = 3
  Discs <- MCDiscs
  Entries <- MCEntries
  Files <- MCFiles
  Foreign <- MCForeign
  Names <- MCNames
  WriteCddb = TRUE
  MaxRows = 3
  MaxRequests = 2
  MaxJobs = 1
INVARIANTS
  TypeOK
  TempIsIndex
  KeptIsThere
  ReportedIsServed
PROPERTIES
  CueReadBack
  AlbumIsFound
CHECK_DEADLOCK FALSE
