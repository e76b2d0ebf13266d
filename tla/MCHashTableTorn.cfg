SPECIFICATION Spec
CONSTANTS
  t1 = t1
  t2 = t2
  t3 = t3
  k1 = k1
  k2 = k2
  Thread = {t1, t2}
  Key = {k1, k2}
  FREE = FREE
  DELT = DELT
  Null = Null
  Hash <- SameHash
  Step <- OneStep
  Entries <- Sizes
  LoadPct = 85
  Copies = 2
  Values = 3
  Vectors = 2
  Roles <- TwoInserters
  Alone = {"assign", "clear"}
  TornCopy = TRUE
CHECK_DEADLOCK FALSE
PROPERTIES ImplementsMap
