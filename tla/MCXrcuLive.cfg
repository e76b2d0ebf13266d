SPECIFICATION FairSpec
CONSTANTS
  NoThread = NoThread
  Thread = {t1, t2}
  Updaters = {t1, t2}
  Leavers = {t2}
  Forkers = {t1}
  ForkInCs = FALSE
  Object = {}
  MaxNest = 2
  MaxFins = 1
  StoreBuffer = TRUE
INVARIANTS NobodyStranded
PROPERTIES SyncEnds
