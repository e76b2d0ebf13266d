SPECIFICATION FairSpec
CONSTANTS
  t1 = t1
  t2 = t2
  t3 = t3
  s1 = s1
  s2 = s2
  n1 = n1
  n2 = n2
  n3 = n3
  Null = Null
  Thread = {t1, t2, t3}
  Stack = {s1, s2}
  Node = {n1, n2}
  Initial <- OneEach
  MaxChain = 1
  Copies = {}
  SwapPairs <- OnePair
  Pushers = {t2}
  Poppers = {t1, t2}
  Replacers = {t1}
  Swappers = {t2, t3}
  Readers = {}
  Sizers = {}
  BareBegin = FALSE
PROPERTIES ImplementsStack CallsComplete
