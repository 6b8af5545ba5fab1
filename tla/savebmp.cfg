SPECIFICATION Spec
CONSTANTS
  MAX_FILES_OPENED = 3
  SectorSize = 2
  CardSectors = 8
  TableEntries = 10
  RootSectors = 1
  RecordsPerSector = 3
  MaxChecks = 12
  Cards <- MCCards
  Header = 2
  Lengths <- MCLengths
  Attempts = 5
  MaxSaves = 3
  MaxPulls = 2
INVARIANTS
  OthersKept
  TablesSound
  ImageOnCard
CHECK_DEADLOCK FALSE
