\* Two clients with two requests at a time, so that both can be past the
\* guard when the lock of a client begins; two attempts in a window of two.
CONSTANTS
  Keys = {k1, k2}
  Requests = {r1, r2}
  MaxAttempts = 2
  Window = 2
  Lockout = 2
  MaxTokens = 2
  MaxRestarts = 1
  NoKey = NoKey
SPECIFICATION Spec
INVARIANTS StreakIsBounded OneSetupWins
PROPERTY LockYieldsToItsClient
