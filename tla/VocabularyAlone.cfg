\* One device, which taps twice, removes the word and is loaded anew.
CONSTANTS
  Devices = {d1}
  Positions = {p1, p2}
  Times = {1, 2}
  BatchSize = 1
  MaxTaps = 2
  MaxRemovals = 1
  MaxReloads = 1
  MaxHeld = 1
SPECIFICATION Spec
SYMMETRY Symmetry
INVARIANTS TypeOK TapsAreNotLost EachTapCountsOnce LiveEntryShown
PROPERTIES RetryDoesNotRevive LatestNeverOlder
