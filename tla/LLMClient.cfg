\* One caller, as callers share nothing but the table; three attempts; two
\* profiles more than the seeded one, or as many edits.
CONSTANTS
  Callers = {c1}
  MaxRetries = 2
  EnvConfigured = TRUE
  MaxEditions = 3
  MaxRestarts = 1
SPECIFICATION LLMSpec
INVARIANTS LLMTypeOK OneActive ReplacedConnectionFadesOut GivesUpForAReason
PROPERTY EveryCallEnds
