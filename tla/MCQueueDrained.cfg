SPECIFICATION Spec
CONSTANTS
  t1 = t1
  t2 = t2
  t3 = t3
  Thread = {t1}
  Cap = 2
  Initial = {0}
  MaxValues = 3
  MaxPops = 3
  Ranges = {}
  Pushers = {t1}
  Poppers = {t1}
  Replacers = {}
  Readers = {}
  AllocFails = FALSE
  ClearAlone = TRUE
CHECK_DEADLOCK FALSE
PROPERTIES ImplementsQueue
