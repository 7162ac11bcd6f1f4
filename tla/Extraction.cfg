\* Two extractions at a time, a limit that pays for two conversions and leaves a
\* unit over, a midnight and a restart.
CONSTANTS
  Slots = {s1, s2}
  Cost = 2
  DailyLimit = 5
  Ranges = {"public", "loopback", "linkLocal"}
  MaxRedirects = 1
  MaxDays = 2
  MaxRestarts = 1
SPECIFICATION Spec
INVARIANTS WithinLimit BooksBalance StraysBoundTheLoss
