\* The last profile is deleted and the server restarted.
CONSTANTS
  Callers = {c1}
  MaxRetries = 0
  EnvConfigured = TRUE
  MaxEditions = 3
  MaxRestarts = 1
SPECIFICATION LLMSpec
PROPERTY RestartKeepsProfiles
