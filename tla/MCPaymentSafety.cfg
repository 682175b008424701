\* A basket that is fine, one whose price wraps around, one with an unknown product, one too expensive.
CONSTANTS
  r1 = r1
  r2 = r2
  r3 = r3
  r4 = r4
  Requests = {r1, r2, r3, r4}
  Basket <- Baskets
  PriceCents <- Prices
  MinCharge = 5
  MaxInteger = 15
  HalfWord = 32
  MaxDeclines = 1
SPECIFICATION FairSpec
INVARIANTS
  TypeOK
  StatusIsTrue
  EventsReachTheTable
  RightPrice
PROPERTIES
  BookSpec
  PaidIsRecorded
\* Nobody need pay, and every event may be acknowledged.
CHECK_DEADLOCK FALSE
