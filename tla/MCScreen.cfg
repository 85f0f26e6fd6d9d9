SPECIFICATION FairSpec
CONSTANTS
  NUM_TERMS = 2
  NUM_COLS = 2
  NUM_ROWS = 2
  MAX_LINE = 2
  DrawCells = {0}
INVARIANTS
  TypeOK
  OnScreen
  LineOnScreen
PROPERTIES
  
  CursorFollows
