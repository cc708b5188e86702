\* A connection that controls the extraction, and one that plays tracks.
SPECIFICATION Spec
CONSTANTS
  Conns = {"control", "player"}
  Tracks = {"wav", "flac", "short"}
  Library <- MCLibrary
  Ripped = {"wav", "flac"}
  NoTrack = "no track"
  BodyLength = {2, 3}
  Asked <- MCAsked
  MaxPost = 3
  MaxBlock = 2
  MaxRips = 1
INVARIANTS TypeOK SentIsContent NothingLeftOpen
PROPERTIES RequestsEnd
CHECK_DEADLOCK FALSE
