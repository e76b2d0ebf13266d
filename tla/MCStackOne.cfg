SPECIFICATION Spec
CONSTANTS
  t1 = t1
  t2 = t2
  t3 = t3
  s1 = s1
  s2 = s2
  n1 = n1
  n2 = n2
  n3 = n3
  Null = Null
  Thread = {t1, t2, t3}
  Stack = {s1}
  Node = {n1, n2, n3}
  Initial <- NoItems
  MaxChain = 2
  Copies = {1}
  SwapPairs <- NoPairs
  Pushers = {t1}
  Poppers = {t1, t2, t3}
  Replacers = {t2}
  Swappers = {}
  Readers = {t3}
  Sizers = {t3}
  BareBegin = FALSE
SYMMETRY Symmetry
INVARIANTS TypeOK Linked NodesAccounted NoUseAfterDestroy WalkInOrder
PROPERTIES ImplementsStack
