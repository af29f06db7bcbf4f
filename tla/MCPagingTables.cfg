CONSTANTS
  TotalPages = 11
  DirPage = 1
  TablesCount = 2
  Sizes = {1, 2, 3}
SPECIFICATION PagingSpec
INVARIANT TablesNotHandedOut
