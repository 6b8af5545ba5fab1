SPECIFICATION FairSpec
CONSTANTS
  W = 2
  H = 1
  White = White
  Red = Red
  Black = Black
  GridColor = GridColor
  Color <- MCColor
  GridPixels <- MCGrid
  Cmds <- AllButLines
  Targets <- InImage
  Garbage <- ZeroOnly
  Pace = "framed"
INVARIANTS
  StaleIsPending
  ScreenShowsImage
PROPERTIES
  RedrawDone
  KeepsPolling
CHECK_DEADLOCK FALSE
