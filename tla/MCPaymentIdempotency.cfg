\* Two requests with the same basket, one declined card each.
CONSTANTS
  r1 = r1
  r2 = r2
  r3 = r3
  r4 = r4
  Requests = {r1, r2}
  Basket <- SameBaskets
  PriceCents <- Prices
  MinCharge = 5
  MaxInteger = 15
  HalfWord = 32
  MaxDeclines = 1
SPECIFICATION Spec
PROPERTIES
  ProcessedEventChangesNothing
CHECK_DEADLOCK FALSE
