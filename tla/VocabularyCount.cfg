\* A pull commits between the reading and the writing of a local row.
CONSTANTS
  Devices = {d1}
  Positions = {p1}
  Times = {1}
  BatchSize = 1
  MaxTaps = 1
  MaxRemovals = 0
  MaxReloads = 0
  MaxHeld = 0
SPECIFICATION Spec
INVARIANT ShownCountIsCurrent
