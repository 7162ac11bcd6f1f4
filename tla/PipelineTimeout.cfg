\* No site is assumed to answer in time: is every article taken up then?  Two
\* articles and batches of one, so that one that times out fills a batch.
CONSTANTS
  Articles = {a1, a2}
  Workers = {w1}
  NoJob = NoJob
  NChunks = 1
  BatchSize = 1
  NTexts = 1
  Length <- Lengths
  MaxAsks = 2
  MaxRestarts = 0
SPECIFICATION ScheduledSpec
PROPERTY TakenUp
