CONSTANTS
  ALT_MAX_FD = 6
  Null = Null
  Uart = Uart
  NoDev = NoDev
  Nowhere = Nowhere
  Names <- MCNames
SPECIFICATION FSpec
INVARIANT HolderIsAlone
