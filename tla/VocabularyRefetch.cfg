\* The word is tapped where another word was tapped before the text, or the target
\* language, was another.
CONSTANTS
  Devices = {d1}
  Positions = {p1}
  Times = {1}
  BatchSize = 1
  MaxTaps = 1
  MaxRemovals = 0
  MaxReloads = 0
  MaxHeld = 1
SPECIFICATION Spec
INVARIANT TapsAreRecorded
