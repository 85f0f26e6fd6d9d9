SPECIFICATION Spec
CONSTANTS
  NUM_TERMS = 2
  LINE_BUFFER_SIZE = 2
  MAX_LINE = 1
  MAX_HANDLERS = 1
  Programs <- MCPrograms
  Outputs <- MCOutputs
  Sizes = {3}
INVARIANTS
  TypeOK
  
PROPERTIES
  
  OutputKept
