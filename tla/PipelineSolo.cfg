\* One worker: what processArticle takes for granted, and the lifecycle with its
\* progress.  Two chunks, so that a run can be resumed half way; two texts, so that
\* a re-fetch can change the text.
CONSTANTS
  Articles = {a1, a2}
  Workers = {w1}
  NoJob = NoJob
  NChunks = 2
  BatchSize = 2
  NTexts = 2
  Length <- Lengths
  MaxAsks = 2
  MaxRestarts = 1
SPECIFICATION AnsweringSpec
INVARIANTS BlobMatchesContent CoverageFitsText FailureNamesStage
PROPERTIES OnlyUserReopens ChunksKept ImplementsLife
