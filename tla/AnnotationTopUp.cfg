SPECIFICATION FaithfulSpec
CONSTANTS
  N = 4
  Sizes <- OneSize
  MaxOffers = 1
PROPERTY
  GapsAreFilled
CHECK_DEADLOCK FALSE
