SPECIFICATION Spec
CONSTANTS
  NoThread = NoThread
  Thread = {t1, t2}
  Updaters = {t1, t2}
  Leavers = {t1, t2}
  Forkers = {}
  ForkInCs = FALSE
  Object = {o1, o2}
  MaxNest = 2
  MaxFins = 2
  StoreBuffer = FALSE
SYMMETRY Symmetry
INVARIANTS TypeOK NoUseAfterReclaim FlushNotForgotten RetiredOnce
PROPERTIES ImplementsGracePeriod
