\* Two workers, the default of LLM_MAX_CONCURRENT, and batches of one, so that
\* every batch is full and the loop of drain matters.
CONSTANTS
  Articles = {a1, a2}
  Workers = {w1, w2}
  NoJob = NoJob
  NChunks = 1
  BatchSize = 1
  NTexts = 1
  Length <- Lengths
  MaxAsks = 3
  MaxRestarts = 0
SPECIFICATION Spec
SYMMETRY Symmetry
INVARIANTS RowsConsistent NoLostWakeup
PROPERTY DeletedForever
