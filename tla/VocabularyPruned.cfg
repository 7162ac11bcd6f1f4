\* A device is offline while another removes the word, until its tombstone is gone.
CONSTANTS
  Devices = {d1, d2}
  Positions = {p1}
  Times = {1}
  BatchSize = 1
  MaxTaps = 1
  MaxRemovals = 1
  MaxReloads = 0
  MaxHeld = 0
SPECIFICATION PruningSpec
PROPERTY PrunedWordForgotten
