SPECIFICATION Spec
CONSTANTS
  Controllers = {c1}
  NULL = NULL
  Timeouts = TRUE
  MaxSpawns = 2
PROPERTY StartNeverAborts
