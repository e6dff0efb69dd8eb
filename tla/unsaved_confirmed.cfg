SPECIFICATION EdSpec
CONSTANTS
  MaxEdits = 2
  MaxWrites = 2
INVARIANT UnsavedIsConfirmed
CHECK_DEADLOCK FALSE
