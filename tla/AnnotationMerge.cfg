SPECIFICATION Spec
CONSTANTS
  N = 5
  Sizes <- TwoSizes
  MaxOffers = 2
INVARIANTS
  PlanTiles
  OneSentencePerToken
  TopUpAsksWholeSentences
CHECK_DEADLOCK FALSE
