\* A conversion that fails across midnight.
CONSTANTS
  Slots = {s1, s2}
  Cost = 1
  DailyLimit = 1
  Ranges = {"public"}
  MaxRedirects = 0
  MaxDays = 2
  MaxRestarts = 0
SPECIFICATION Spec
INVARIANT DayPaysForItsConversions
