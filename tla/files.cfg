SPECIFICATION FilesSpec
CONSTANTS
  MAX_FILES_OPENED = 2
  SectorSize = 2
  CardSectors = 8
  TableEntries = 8
  RootSectors = 2
  RecordsPerSector = 2
  MaxChecks = 4
  Volumes <- MCVolumes
  MaxCallsPulled = 3
  MaxPulls = 1
INVARIANTS
  Terminates
  ListingComplete
  ContentsHold
  CardSound
CHECK_DEADLOCK FALSE
