CONSTANTS
  BYTES_PER_BLOCK = 2
  WORDS = 3
  FILE_NAME_CHARMAX = 2
  MAX_FD = 4
  MAX_PROGS = 2
  LINE_BUFFER_SIZE = 2
  Images <- MCImages
  Paths <- MCPaths
  Commands <- MCCommands
  Lengths <- MCLengths
SPECIFICATION Spec
INVARIANTS
  TypeOK
  TableCounts
  StandardStreams
  ReadBounds
  ListedOpens
PROPERTIES
  ImplementsStreams
CHECK_DEADLOCK TRUE
