\* Two devices, the first with a clock two thirds of a second ahead; two writes and one,
\* over two seconds of that clock; a page closed.
CONSTANTS
  d1 = d1
  d2 = d2
  Devices <- TwoDevices
  Skew <- FirstAhead
  Fraction = 3
  MaxWrites <- TwoAndOne
  MaxTime = 1
  MaxReloads = 1
SPECIFICATION OnlineSpec
INVARIANTS LastSecondWins NoProgressLost
PROPERTIES DevicesAgree OutboxMoves
