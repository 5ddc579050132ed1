\* A document, a blob and a digest are done at some point.
CONSTANTS
  MaxFields = 3
  MaxBytes = 24
  MaxFrames = 2
  CodeBytes = 1
  MaxTemperature = 5
  MaxFloat = 8
  MaxU64 = 2
  Word = 64
  FixedHeader = 3
  Entry = 1
  MaxBlob = 11
  MaxSections = 3
  MaxSection = 2
  MaxLength = 132
  CountRange = 1064
  Pieces = {1, 4, 32, 63, 70}
SPECIFICATION FormatsSpec
INVARIANTS
  RequestsKeepTheirMeaning
  OnlySavedBlobsRead
  DigestIsStandard
CHECK_DEADLOCK FALSE
