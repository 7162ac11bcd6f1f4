\* One worker: what processArticle takes for granted.  Two chunks, so that a run
\* can be resumed half way, and two texts, so that a re-fetch can change the text.
CONSTANTS
  Articles = {a1, a2}
  Workers = {w1}
  NoJob = NoJob
  NChunks = 2
  BatchSize = 2
  NTexts = 2
  Length <- Lengths
  MaxAsks = 3
  MaxRestarts = 1
SPECIFICATION Spec
SYMMETRY Symmetry
INVARIANTS BlobMatchesContent CoverageFitsText FailureNamesStage
PROPERTIES OnlyUserReopens ChunksKept
