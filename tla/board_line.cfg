SPECIFICATION Spec
CONSTANTS
  W = 3
  H = 2
  White = White
  Red = Red
  Black = Black
  GridColor = GridColor
  Color <- MCColor
  GridPixels <- MCGrid
  Cmds <- LinesOnly
  Targets <- InImage
  Garbage <- ZeroOnly
  Pace = "framed"
INVARIANTS
  ScreenShowsImage
CHECK_DEADLOCK FALSE
