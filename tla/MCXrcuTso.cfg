SPECIFICATION Spec
CONSTANTS
  NoThread = NoThread
  Thread = {t1, t2}
  Updaters = {t1}
  Leavers = {}
  Forkers = {}
  ForkInCs = FALSE
  Object = {o1}
  MaxNest = 1
  MaxFins = 1
  StoreBuffer = TRUE
INVARIANTS NoUseAfterReclaim
