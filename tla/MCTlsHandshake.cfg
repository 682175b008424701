SPECIFICATION FairSpec
CONSTANT MaxNoise <- MCMaxNoise
INVARIANTS
  TypeOK
  FinishedComesOfOneView
  NobodyWaitsInVain
PROPERTIES
  AgreementSpec
  Terminates
CHECK_DEADLOCK FALSE
