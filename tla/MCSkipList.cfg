SPECIFICATION FairSpec
CONSTANTS
  t1 = t1
  t2 = t2
  t3 = t3
  Thread = {t1, t2, t3}
  Key = {1, 2, 3}
  Null = Null
  MaxLevel = 2
  Copies = 3
  Roots = 3
  Roles <- Workloads
INVARIANTS TypeOK Sorted NoUseAfterDestroy LengthExact AnswersAreCurrent
PROPERTIES ImplementsMap ProgramsEnd
