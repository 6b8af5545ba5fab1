SPECIFICATION Spec
CONSTANTS
  W = 2
  H = 1
  White = White
  Red = Red
  Black = Black
  GridColor = GridColor
  Color <- MCColor
  GridPixels <- MCGrid
  Cmds <- Drawing
  Targets <- EndPixels
  Garbage <- Beyond
  Pace = "free"
INVARIANTS
  TypeOK
  DrawHidden
  CopyInside
PROPERTIES
  FullRedrawRepairs
  GridGoes
CHECK_DEADLOCK FALSE
