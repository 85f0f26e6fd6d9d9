CONSTANTS
  NUM_TERMS = 2
  MAX_PROGS = 2
  RTC_HZ = 4
  Calls <- MCCalls
SPECIFICATION FairSpec
INVARIANTS
  TypeOK
  
  ReadWaits
  CountInPeriod
  LineOpen
PROPERTIES
  ReaderWakes
CHECK_DEADLOCK TRUE
