CONSTANTS
  NUM_TERMS = 3
  MAX_PROGS = 3
  WORD = 16
  NULL = NULL
SPECIFICATION ShellsSpec
INVARIANTS
  SavedContexts
  OneOnScreen
PROPERTIES
  NoStarvation
