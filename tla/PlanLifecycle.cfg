SPECIFICATION FairSpec
CONSTANTS
  c1 = c1
  c2 = c2
  Calls = {c1, c2}
  Impatient = {c2}
  Queries = {q}
  MaxWorld = 2
  None = None
  Configs <- MCConfigs
  Flawed <- MCFlawed
INVARIANTS
  TypeOK
  PayloadsBelongTogether
  SourcePlanIsCurrent
  StoredUnderItsInputs
  ActionsAddUp
  RefinementIsCurrent
PROPERTY PlansEnd
CHECK_DEADLOCK FALSE
