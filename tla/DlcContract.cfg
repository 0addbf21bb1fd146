SPECIFICATION OfferSpec
CONSTANTS
  Offers <- AllOffers
  Base = 3
  NumDigits = 3
  Collateral = 4
  Reach = 11
  MostK = 12
INVARIANTS PaidAsDrawn OnePrefix Balances SelectionWorks
PROPERTIES LoopsEnd
CHECK_DEADLOCK FALSE
