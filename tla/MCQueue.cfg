SPECIFICATION Spec
CONSTANTS
  t1 = t1
  t2 = t2
  t3 = t3
  Thread = {t1, t2, t3}
  Cap = 3
  Initial = {2, 3}
  MaxValues = 2
  MaxPops = 2
  Ranges = {1}
  Pushers = {t1, t2}
  Poppers = {t2, t3}
  Replacers = {t1}
  Readers = {t3}
  AllocFails = TRUE
  ClearAlone = TRUE
CHECK_DEADLOCK FALSE
INVARIANTS TypeOK OneMover NoUseAfterDestroy AnswersAreCurrent WalkMeetsAll
PROPERTIES ImplementsQueue
