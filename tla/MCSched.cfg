CONSTANTS
  NUM_TERMS = 2
  MAX_PROGS = 2
  WORD = 8
  NULL = NULL
SPECIFICATION FairSpec
INVARIANTS
  TypeOK
  IndInv
  SavedContexts
  ProcessStack
  EntersOnOwnStack
  TerminalIsolation
  HaltStatus
  OneOnScreen
PROPERTIES
  SwitchAtomic
  ImplementsProcStacks
CHECK_DEADLOCK TRUE
