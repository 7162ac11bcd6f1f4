\* Two workers and one article: is an article processed by one worker at a time?
CONSTANTS
  Articles = {a1}
  Workers = {w1, w2}
  NoJob = NoJob
  NChunks = 1
  BatchSize = 1
  NTexts = 1
  Length <- Lengths
  MaxAsks = 2
  MaxRestarts = 0
SPECIFICATION Spec
PROPERTY OnlyUserReopens
