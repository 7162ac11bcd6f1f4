\* Two writes within a second.
CONSTANTS
  d1 = d1
  d2 = d2
  Devices <- TwoDevices
  Skew <- FirstAhead
  Fraction = 3
  MaxWrites <- TwoAndOne
  MaxTime = 1
  MaxReloads = 1
SPECIFICATION Spec
INVARIANT NewestInstantWins
