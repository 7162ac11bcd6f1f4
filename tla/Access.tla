------------------------------- MODULE Access -------------------------------
(***************************************************************************)
(* The one account and its sessions: internal/api/auth_handlers.go,        *)
(* internal/api/bruteforce.go, internal/store/auth.go.  Logins of several  *)
(* clients run at the same time; each asks loginGuard first, then compares *)
(* the password, which is slow, and only then tells the guard how it went. *)
(*                                                                         *)
(* Covered: setup, login, logout, at the grain of their calls; the guard   *)
(* with its window, its lock and its sweep; failed writes; restarts, which *)
(* empty the guard.                                                        *)
(*                                                                         *)
(* Abstracted: a password is right or wrong, and a token is its number.    *)
(* Instants are kept as the time that has passed since, or that is left    *)
(* until, them: what lies outside every window is not told apart.          *)
(***************************************************************************)
EXTENDS Integers, FiniteSets

CONSTANTS
  Keys,        \* client addresses
  Requests,    \* requests the server handles at the same time
  MaxAttempts, \* LOGIN_MAX_ATTEMPTS, 0 for no guard
  Window,      \* LOGIN_ATTEMPT_WINDOW
  Lockout,     \* LOGIN_LOCKOUT_DURATION
  MaxTokens,   \* bound: tokens minted
  MaxRestarts, \* bound: restarts of the server
  NoKey

ASSUME AccessAssumption ==
  /\ IsFiniteSet(Requests)
  /\ MaxAttempts \in Nat
  /\ Window \in Nat
  /\ Lockout \in Nat
  /\ MaxTokens \in Nat
  /\ MaxRestarts \in Nat
  /\ NoKey \notin Keys

VARIABLES
  account,    \* the row of app_user exists
  sessions,   \* tokens of the rows of the sessions table
  minted,     \* tokens minted so far are 1 .. minted
  entries,    \* loginGuard.entries
  sinceSweep, \* time since loginGuard.lastSweep
  req,        \* where each request is
  founded,    \* history: tokens issued by setup
  restarts

table == <<account, sessions, minted, founded>>
guard == <<entries, sinceSweep>>
vars  == <<table, guard, req, restarts>>

Token == 1 .. MaxTokens

\* age is the time since windowStart, left that until lockedUntil, and locked
\* says that lockedUntil is not zero.
Entry == [failures : Nat, age : 0 .. Window + 1, left : 0 .. Lockout,
          locked : BOOLEAN]

NoEntry == [failures |-> 0, age |-> Window + 1, left |-> 0, locked |-> FALSE]
Fresh   == [NoEntry EXCEPT !.age = 0]

Request == [step : {"idle", "verify", "issue"}, key : Keys \union {NoKey},
            setup : BOOLEAN]
Idle    == [step |-> "idle", key |-> NoKey, setup |-> FALSE]

TypeOK ==
  /\ account \in BOOLEAN
  /\ minted \in 0 .. MaxTokens
  /\ sessions \subseteq 1 .. minted
  /\ founded \subseteq 1 .. minted
  /\ entries \in [Keys -> Entry]
  /\ sinceSweep \in 0 .. Window
  /\ req \in [Requests -> Request]
  /\ restarts \in 0 .. MaxRestarts

Init ==
  /\ account = FALSE
  /\ sessions = {}
  /\ minted = 0
  /\ entries = [k \in Keys |-> NoEntry]
  /\ sinceSweep = Window
  /\ req = [r \in Requests |-> Idle]
  /\ founded = {}
  /\ restarts = 0

-----------------------------------------------------------------------------
(* loginGuard *)

Enabled == MaxAttempts > 0

\* Mutant: the lock is only seen once it has been overstepped.
LockedLate(k) == entries[k].left > 0 /\ entries[k].failures > MaxAttempts + 1

\* retryAfter
Locked(k) == entries[k].left > 0

\* sweepLocked drops what neither locks nor counts any more.
Swept(k) ==
  LET e == entries[k]
  IN IF sinceSweep >= Window /\ e.left = 0 /\ e.age > Window THEN NoEntry ELSE e

\* Mutant: a lock that is still running is over, too.
StartsOverLocked(e) == e.age > Window \/ e.locked

\* A streak that has aged out, or whose lock has ended.
StartsOver(e) == e.age > Window \/ (e.locked /\ e.left = 0)

Counted(e) ==
  LET streak == IF StartsOver(e) THEN Fresh ELSE e
      failures == streak.failures + 1
  IN IF failures >= MaxAttempts
     THEN [streak EXCEPT !.failures = failures, !.left = Lockout, !.locked = TRUE]
     ELSE [streak EXCEPT !.failures = failures]

recordFailure(k) ==
  IF Enabled
  THEN /\ entries' = [j \in Keys |->
            IF j = k THEN Counted(Swept(j)) ELSE Swept(j)]
       /\ sinceSweep' = IF sinceSweep >= Window THEN 0 ELSE sinceSweep
  ELSE UNCHANGED guard

recordSuccess(k) ==
  /\ entries' = [entries EXCEPT ![k] = NoEntry]
  /\ UNCHANGED sinceSweep

-----------------------------------------------------------------------------
(* Handlers *)

\* Mutant: setup replaces the account it finds.
SetupAgain(r) ==
  /\ req[r].step = "idle"
  /\ account' = TRUE
  /\ req' = [req EXCEPT ![r] = [Idle EXCEPT !.step = "issue", !.setup = TRUE]]
  /\ UNCHANGED <<sessions, minted, founded, guard, restarts>>

\* POST /api/setup: CreateUser, whose unique key turns the second one into 409.
Setup(r) ==
  /\ req[r].step = "idle"
  /\ ~account
  /\ account' = TRUE
  /\ req' = [req EXCEPT ![r] = [Idle EXCEPT !.step = "issue", !.setup = TRUE]]
  /\ UNCHANGED <<sessions, minted, founded, guard, restarts>>

\* POST /api/login, past the guard.
Login(r, k) ==
  /\ req[r].step = "idle"
  /\ ~Locked(k)
  /\ req' = [req EXCEPT ![r] = [Idle EXCEPT !.step = "verify", !.key = k]]
  /\ UNCHANGED <<table, guard, restarts>>

\* Wrong, or no account yet.
Reject(r) ==
  /\ req[r].step = "verify"
  /\ recordFailure(req[r].key)
  /\ req' = [req EXCEPT ![r] = Idle]
  /\ UNCHANGED <<table, restarts>>

Accept(r) ==
  /\ req[r].step = "verify"
  /\ account
  /\ recordSuccess(req[r].key)
  /\ req' = [req EXCEPT ![r].step = "issue"]
  /\ UNCHANGED <<table, restarts>>

\* issueSession.  After a setup the account stays when this fails.
Issue(r) ==
  /\ req[r].step = "issue"
  /\ minted < MaxTokens
  /\ minted' = minted + 1
  /\ sessions' = sessions \union {minted + 1}
  /\ founded' = IF req[r].setup THEN founded \union {minted + 1} ELSE founded
  /\ req' = [req EXCEPT ![r] = Idle]
  /\ UNCHANGED <<account, guard, restarts>>

\* The store cannot be read or written: a 5xx.
Break(r) ==
  /\ req[r].step # "idle"
  /\ req' = [req EXCEPT ![r] = Idle]
  /\ UNCHANGED <<table, guard, restarts>>

\* POST /api/logout, behind requireAuth: the token's own session.
Logout(t) ==
  /\ t \in sessions
  /\ sessions' = sessions \ {t}
  /\ UNCHANGED <<account, minted, founded, guard, req, restarts>>

-----------------------------------------------------------------------------
(* The environment *)

Tick ==
  /\ entries' = [k \in Keys |->
       LET e == entries[k]
       IN [e EXCEPT !.age = IF @ > Window THEN @ ELSE @ + 1,
                    !.left = IF @ = 0 THEN 0 ELSE @ - 1]]
  /\ sinceSweep' = IF sinceSweep = Window THEN Window ELSE sinceSweep + 1
  /\ UNCHANGED <<table, req, restarts>>

Restart ==
  /\ restarts < MaxRestarts
  /\ restarts' = restarts + 1
  /\ entries' = [k \in Keys |-> NoEntry]
  /\ sinceSweep' = Window
  /\ req' = [r \in Requests |-> Idle]
  /\ UNCHANGED table

Handle(r) == Reject(r) \/ Accept(r) \/ Issue(r) \/ Break(r)

Next ==
  \/ \E r \in Requests : Setup(r) \/ (\E k \in Keys : Login(r, k)) \/ Handle(r)
  \/ \E t \in Token : Logout(t)
  \/ Tick
  \/ Restart

Spec == Init /\ [][Next]_vars

-----------------------------------------------------------------------------
(* Properties *)

\* Between two new starts a client has its allowance of wrong passwords and at
\* most one more for each other request that was past the guard already
\* (retryAfter is asked long before recordFailure is told).
StreakIsBounded ==
  \A k \in Keys :
    Enabled => entries[k].failures < MaxAttempts + Cardinality(Requests)

\* A request of the client that was past the guard is answered.
Answered(r, k) == req[r].step = "verify" /\ req[r].key = k /\ req'[r].step # "verify"

\* A running lock is shortened by a restart, which forgets it, and by an answer
\* to a request of the same client that was past the guard already: that it was
\* the right password, or that it was a wrong one when the streak has left the
\* window meanwhile.  Other clients, sweeps and new requests leave it alone
\* (recordFailure, sweepLocked).
LockYieldsToItsClient ==
  [][\A k \in Keys : entries'[k].left < entries[k].left =>
       \/ entries'[k].left = entries[k].left - 1 /\ UNCHANGED req
       \/ restarts' # restarts
       \/ \E r \in Requests :
            Answered(r, k) /\ (req'[r].step = "issue" \/ entries[k].age > Window)]_vars

\* Violated: "lockedUntil is the instant the key becomes usable again"
\* (bruteforce.go:42-43), so no wrong password makes it usable earlier.  One that
\* was past the guard when the lock began, and is counted after the window has
\* ended, begins a new streak, and the lock is lifted (bruteforce.go:98).
LockRunsItsCourse ==
  [][\A k \in Keys : entries'[k].left < entries[k].left =>
       \/ entries'[k].left = entries[k].left - 1 /\ UNCHANGED req
       \/ restarts' # restarts
       \/ \E r \in Requests : Answered(r, k) /\ req'[r].step = "issue"]_vars

\* Two first-run setups cannot both log in, whichever of their steps interleave
\* (store/auth.go:26-28).
OneSetupWins == Cardinality(founded) <= 1

=============================================================================
