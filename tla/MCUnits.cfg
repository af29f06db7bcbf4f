SPECIFICATION UnitsSpec
CONSTANTS
  MaxOptions = 1
  FrameLengths = {65, 66, 70, 71, 78, 79, 110}
  MemSize = 13
  Memory0 <- MoveContents
  Fill = 99
  RAND_MAX = 1000
  IntMax = 8191
  Seeds <- IntSeeds
  MaxDraws = 6
  Half = 32
  Lengths <- BufferLengths
  Bases = {2, 10, 16}
  Integrals <- PrintedNumbers
  Scale = 256
  Doubles <- PrintedDoubles
  Precision = 2
  Room = 16
  MaxFields = 2
  TickMod = 6
  Nap = 2
  Colours = {"green"}
  HeapSize = 17
  HdrSize = 1
  Ring = 2
  List = 2
  Table = 3
  FrameCopy = 2
  Block = 1
  NHeaders = 2
  TotalPages = 11
  DirPage = 1
  TablesCount = 2
  Sizes = {1, 2, 3}
INVARIANTS
  ScreenIsFrame OnlyShortFramesOverrun MovedWhole NumbersSurvive FormatsStandard
  DrawnInRange StrokeMeant Listening ColourRestored EveryAreaItsOwn
  RunsDisjoint BitmapExact RefusedOnlyWhenNone
PROPERTIES KeyEndsDonut OverrunOnlyWhenNone
CHECK_DEADLOCK FALSE
