\* Two devices and two places of the word: any three taps, removals, reloads,
\* taps of other words and moves of the clock.
CONSTANTS
  Devices = {d1, d2}
  Positions = {p1, p2}
  Times = {1, 2}
  BatchSize = 1
  MaxTaps = 2
  MaxRemovals = 1
  MaxReloads = 1
  MaxHeld = 1
CONSTRAINTS Turns Budget
SPECIFICATION Spec
SYMMETRY Symmetry
INVARIANTS TypeOK TapsAreNotLost EachTapCountsOnce LiveEntryShown
PROPERTIES RetryDoesNotRevive LatestNeverOlder
