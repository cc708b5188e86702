\* Two extractions over discs with awkward names.
SPECIFICATION Spec
CONSTANTS
  Discs <- MCDiscs
  TokenSize = 9
  LongWord = "long"
  Buffer = 40
  MaxNumber = 9
  MaxWrites = 2
INVARIANTS
  JsonReadBack
CHECK_DEADLOCK FALSE
