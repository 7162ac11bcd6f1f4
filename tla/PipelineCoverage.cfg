\* Two workers, and two texts of different length: is the coverage that is shown
\* the coverage of this text?
CONSTANTS
  Articles = {a1}
  Workers = {w1, w2}
  NoJob = NoJob
  NChunks = 2
  BatchSize = 1
  NTexts = 2
  Length <- Lengths
  MaxAsks = 2
  MaxRestarts = 0
SPECIFICATION Spec
INVARIANT CoverageFitsText
