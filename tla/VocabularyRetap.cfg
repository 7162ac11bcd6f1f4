\* The word is tapped, removed, and tapped again where it was.
CONSTANTS
  Devices = {d1}
  Positions = {p1}
  Times = {1}
  BatchSize = 1
  MaxTaps = 2
  MaxRemovals = 1
  MaxReloads = 1
  MaxHeld = 0
CONSTRAINT Prompt
SPECIFICATION Spec
INVARIANT MisclickCostsOneTap
