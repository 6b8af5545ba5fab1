SPECIFICATION Spec
CONSTANTS
  W = 3
  H = 1
  White = White
  Red = Red
  Black = Black
  GridColor = GridColor
  Color <- MCColor
  GridPixels <- MCGrid
  Cmds <- FillAndPixel
  Targets <- InImage
  Garbage <- ZeroOnly
  Pace = "started"
INVARIANTS
  ScreenShowsImage
CHECK_DEADLOCK FALSE
