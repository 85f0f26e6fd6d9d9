CONSTANTS
  NUM_TERMS = 2
  MAX_PROGS = 2
  RTC_HZ = 4
  Calls <- MCCalls
SPECIFICATION FairSpec
PROPERTIES
  OwnReturnValue
CHECK_DEADLOCK TRUE
