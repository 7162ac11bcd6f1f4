\* One worker: is a re-translation asked for during a run a fresh one?
CONSTANTS
  Articles = {a1}
  Workers = {w1}
  NoJob = NoJob
  NChunks = 2
  BatchSize = 2
  NTexts = 1
  Length <- Lengths
  MaxAsks = 2
  MaxRestarts = 0
SPECIFICATION Spec
INVARIANT ResetIsFresh
