CONSTANTS
  NUM_TERMS = 2
  MAX_PROGS = 2
  WORD = 8
  NULL = NULL
SPECIFICATION Spec
INVARIANT ProgramLimit
