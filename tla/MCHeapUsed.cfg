CONSTANTS
  HeapSize = 17
  HdrSize = 4
  Requests = {0, 3, 13}
  SizeMod = 20
SPECIFICATION Spec
INVARIANT UsedIsLiveBytes
