\* Is a request that gets no answer made again?
CONSTANTS
  Callers = {c1}
  MaxRetries = 1
  EnvConfigured = TRUE
  MaxEditions = 1
  MaxRestarts = 0
SPECIFICATION LLMSpec
INVARIANT LostAnswersRetried
