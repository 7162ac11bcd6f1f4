\* A wrong password is compared while the lock begins and its window ends.
CONSTANTS
  Keys = {k1}
  Requests = {r1, r2}
  MaxAttempts = 2
  Window = 2
  Lockout = 2
  MaxTokens = 2
  MaxRestarts = 0
  NoKey = NoKey
SPECIFICATION Spec
PROPERTY LockRunsItsCourse
