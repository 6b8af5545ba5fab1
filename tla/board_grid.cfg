SPECIFICATION Spec
CONSTANTS
  W = 2
  H = 1
  White = White
  Red = Red
  Black = Black
  GridColor = GridColor
  Color <- MCColor
  GridPixels <- MCGrid
  Cmds <- FillAndPixel
  Targets <- InImage
  Garbage <- ZeroOnly
  Pace = "framed"
INVARIANTS
  NoGridLeft
CHECK_DEADLOCK FALSE
