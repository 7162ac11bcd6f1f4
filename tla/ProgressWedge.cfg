\* Does the outbox drain when the article of its head was deleted elsewhere?
CONSTANTS
  d1 = d1
  d2 = d2
  Devices <- TwoDevices
  Skew <- FirstAhead
  Fraction = 2
  MaxWrites <- TwoAndOne
  MaxTime = 1
  MaxReloads = 0
SPECIFICATION OnlineSpec
PROPERTY OutboxDrains
