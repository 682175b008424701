SPECIFICATION Spec
CONSTANTS
  t1 = t1
  t2 = t2
  NoTab = NoTab
  Tabs <- MCTabs
  Jtis <- MCJtis
  Second = 2
  Window = 1
  Life = 1
  MaxClicks = 3
  Budget = 7
INVARIANTS
  TypeOK
  MismatchNeedsOverlap
PROPERTY
  TakenAgainOnlyAtTheEdge
SYMMETRY MCSymmetry
CHECK_DEADLOCK FALSE
