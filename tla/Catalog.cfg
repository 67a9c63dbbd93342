SPECIFICATION FairSpec
CONSTANTS
  Byte = 2
  ComponentSize <- Sizes
  BlockSize = 16
  IndexSize = 2
  SizeWord = 16
  LinearLimit = 2
  Component = {0, 1, 2}
  MaxCount = 2
  MaxArchetypes = 4
  LayoutMayFail = TRUE
INVARIANTS
  TypeOK
  IndexSound
  SearchBrackets
  PartsApart
  ColumnsApart
  WalksAgree
PROPERTIES
  DirectoryKept
  CallsEnd
CHECK_DEADLOCK FALSE
