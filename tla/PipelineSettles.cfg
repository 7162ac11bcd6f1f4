\* No site is assumed to answer in time: does a fetch fail terminally then?
CONSTANTS
  Articles = {a1}
  Workers = {w1}
  NoJob = NoJob
  NChunks = 1
  BatchSize = 2
  NTexts = 1
  Length <- Lengths
  MaxAsks = 2
  MaxRestarts = 0
SPECIFICATION ScheduledSpec
PROPERTY Settles
