\* Two clicks on Checkout, two payments and two fetches in flight.
CONSTANTS
  r1 = r1
  r2 = r2
  k1 = k1
  k2 = k2
  f1 = f1
  f2 = f2
  Requests = {r1, r2}
  Basket <- AppBasket
  PriceCents <- Prices
  MinCharge = 5
  MaxInteger = 15
  HalfWord = 32
  MaxDeclines = 1
  PayCalls = {k1, k2}
  FetchCalls = {f1, f2}
  NoSecret = NoSecret
  Free = Free
  Asked = Asked
SPECIFICATION AppSpec
SYMMETRY AppSymmetry
VIEW AppView
INVARIANTS
  AppTypeOK
  EveryPaymentHasOrder
  ShownIsTrue
PROPERTIES
  ReplacedIsNeverCharged
CHECK_DEADLOCK FALSE
