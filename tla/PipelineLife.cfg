\* One worker, batches of one: the lifecycle and its progress.
CONSTANTS
  Articles = {a1, a2}
  Workers = {w1}
  NoJob = NoJob
  NChunks = 1
  BatchSize = 1
  NTexts = 1
  Length <- Lengths
  MaxAsks = 3
  MaxRestarts = 1
SPECIFICATION AnsweringSpec
PROPERTY ImplementsLife
