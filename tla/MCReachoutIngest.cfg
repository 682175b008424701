\* One number and the open route, one text, two requests at a time; each sends
\* it three times at most.
CONSTANTS
  ann = ann
  anonymous = anonymous
  c1 = c1
  c2 = c2
  x1 = x1
  Senders <- MCSenders
  Anonymous = anonymous
  Texts <- MCTexts
  Calls <- MCCalls
  MaxSends = 3
SPECIFICATION Spec
SYMMETRY MCSymmetry
INVARIANTS
  TypeOK
  LedgerBalances
\* Everybody may have sent as often as they may.
CHECK_DEADLOCK FALSE
