SPECIFICATION OfferSpec
CONSTANTS
  Offers <- SteepOffers
  Base = 3
  NumDigits = 3
  Collateral = 8
  Reach = 4
  MostK = 1
INVARIANTS EvaluatesTheFunction
CHECK_DEADLOCK FALSE
