SPECIFICATION PartsSpec
CONSTANTS
  Cmds <- MCCmds
  ImageSize = 76800
  Offsets <- EdgeOffsets
  Shades <- EdgeShades
  NameLength = 3
  ExtLength = 2
  Texts <- ShortTexts
  Media <- EdgeMedia
  XRes = 6
  YRes = 4
  XBits = 3
  YBits = 2
  UIntSize = 256
  Coords <- EdgeCoords
  GridLines = 3
  HexPlaces = 4
  HexCalls <- HexNumbers
  ScreenSizes <- TextSizes
  TextCalls <- TextPlaces
  LcdPlaces <- CursorPlaces
  Shifts <- EdgeShifts
  Keys = {"x"}
  Ps2Depth = 6
  MaxKeys = 2
  MaxRates = 1
  AudioDepth = 2
  BufThreshold = 1
  AudioLengths = {3}
  AudioNumbers = 4
  AlarmSet = {"a", "b", "c"}
  Wrap = 5
  Delays = {0, 2, 3}
  Intervals = {0, 1, 4}
  Us = 6
  TickRate = 3
  Word = 32
  Times <- EdgeTimes
  MaxFds = 5
  Devices = {"jtag", "lcd"}
  Filesystems = {"fs"}
  Standard = "jtag"
  Modes = {"O_RDONLY", "O_RDWR"}
  Lines = {0, 5}
  Contexts = {"c", "d"}
  Sizes = {3, 4}
  HeapLimit = 8
  Screens <- SmallScreens
  Colours <- EdgeColours
  CacheLine = 2
  DataLines = 2
  CodeLines = 2
  MemoryLines = 3
  Ranges <- FlushRanges
  MaxStores = 2
  Functions = {"f"}
  Callers = {"a", "b"}
  TextBytes = 8
  BucketBytes = 4
  SlabBytes = 28
  MaxCalls = 4
  Drivers <- SomeDrivers
  Paths <- ShortPaths
  IntMax = 31
  Rate = 4
  Half = 3
  Waits <- EdgeWaits
  WordSize = 256
  EchoLength = 4
  Text <- ThreeLetters
  Formats <- ShortFormats
  Arguments <- EqualArguments
  LogWrites <- ShortWrites
  RoWords = 2
  RwWords = 3
  BssWords = 2
  CppObjects = 2
  SysRate = 3
  MaxUpTicks = 6
  CodeLength = 2
  MaxRaised = 1
  SerialDepth = 4
  MessageSize = 2
  SpaceWanted = 1
  MaxLine = 5
  CfgAddrs = {0, 1}
  CfgWords = {1}
  MaxConfigs = 3
  MaxScans = 2
  LogLevels <- AllLevels
  ClockInterval = 1
  JtagTicks = 2
  MaxLogTicks = 4
  LineLength = 2
  PortDepth = 1
  PortBits = {{"RE", "WI"}}
  MaxPictures = 1
INVARIANTS
  InstructionsCross
  FoundOnCard
  ShownAsAsked
  BitmapHolds
  KeysKnown
  PortsWhole
  DescriptorsHold
  HandlersHold
  MemoryAsMeant
  ProfileHolds
  LogTells
PROPERTIES
  TimesKept
CHECK_DEADLOCK FALSE
