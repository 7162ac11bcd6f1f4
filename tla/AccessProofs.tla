----------------------------- MODULE AccessProofs -----------------------------
(***************************************************************************)
(* Proofs about Access, for any number of clients, requests and attempts,  *)
(* any window and any lockout: its types, the one account, the bound on    *)
(* wrong passwords, and the course of a lock.                              *)
(***************************************************************************)
EXTENDS Access, FiniteSetTheorems, TLAPS

-----------------------------------------------------------------------------
(* Types *)

\* What the guard makes of an entry is an entry.
LEMMA CountedType ==
  ASSUME NEW e \in Entry
  PROVE  Counted(e) \in Entry
<1>1. Fresh \in Entry
  <2>1. NoEntry \in Entry /\ 0 \in 0 .. Window + 1
    BY AccessAssumption DEF NoEntry, Entry
  <2> QED BY <2>1 DEF Fresh, Entry
<1>2. (IF StartsOver(e) THEN Fresh ELSE e) \in Entry
  BY <1>1
<1> DEFINE streak == IF StartsOver(e) THEN Fresh ELSE e
           failures == streak.failures + 1
<1>3. streak \in Entry /\ failures \in Nat
  BY <1>2 DEF Entry
<1>4. Lockout \in 0 .. Lockout
  BY AccessAssumption
<1>5. Counted(e) = IF failures >= MaxAttempts
                   THEN [streak EXCEPT !.failures = failures, !.left = Lockout, !.locked = TRUE]
                   ELSE [streak EXCEPT !.failures = failures]
  BY DEF Counted
<1> HIDE DEF streak, failures
<1> QED BY <1>3, <1>4, <1>5 DEF Entry

\* The guard's two records keep its types.
LEMMA GuardType ==
  ASSUME entries \in [Keys -> Entry], sinceSweep \in 0 .. Window, NEW k,
         recordFailure(k) \/ recordSuccess(k)
  PROVE  entries' \in [Keys -> Entry] /\ sinceSweep' \in 0 .. Window
<1>1. NoEntry \in Entry
  BY AccessAssumption DEF NoEntry, Entry
<1>2. \A j \in Keys : Swept(j) \in Entry /\ Counted(Swept(j)) \in Entry
  BY <1>1, CountedType DEF Swept
<1>3. CASE recordFailure(k)
  BY <1>2, <1>3, AccessAssumption DEF recordFailure, guard
<1>4. CASE recordSuccess(k)
  BY <1>1, <1>4 DEF recordSuccess
<1> QED BY <1>3, <1>4

\* Every step keeps the types.
LEMMA NextType == TypeOK /\ [Next]_vars => TypeOK'
<1> SUFFICES ASSUME TypeOK, [Next]_vars PROVE TypeOK'
  OBVIOUS
<1> USE DEF table, guard
<1>1. Idle \in Request /\ \A r \in Requests : req[r] \in Request
  BY DEF Idle, Request, TypeOK
<1>2. ASSUME NEW r \in Requests, Setup(r) PROVE TypeOK'
  BY <1>2, <1>1 DEF Setup, TypeOK, Request, Idle
<1>3. ASSUME NEW r \in Requests, NEW k \in Keys, Login(r, k) PROVE TypeOK'
  BY <1>3, <1>1 DEF Login, TypeOK, Request, Idle
<1>4. ASSUME NEW r \in Requests, Reject(r) \/ Accept(r) PROVE TypeOK'
  <2>1. entries' \in [Keys -> Entry] /\ sinceSweep' \in 0 .. Window
    BY <1>4, GuardType DEF Reject, Accept, TypeOK
  <2>2. req' \in [Requests -> Request]
    BY <1>1, <1>4 DEF Reject, Accept, TypeOK, Request
  <2> QED BY <1>4, <2>1, <2>2 DEF Reject, Accept, TypeOK
<1>5. ASSUME NEW r \in Requests, Issue(r) PROVE TypeOK'
  BY <1>5, <1>1, AccessAssumption DEF Issue, TypeOK
<1>6. ASSUME NEW r \in Requests, Break(r) PROVE TypeOK'
  BY <1>6, <1>1 DEF Break, TypeOK
<1>7. ASSUME NEW t \in Token, Logout(t) PROVE TypeOK'
  BY <1>7 DEF Logout, TypeOK
<1>8. CASE Tick
  <2>1. \A e \in Entry :
          [e EXCEPT !.age = IF @ > Window THEN @ ELSE @ + 1,
                    !.left = IF @ = 0 THEN 0 ELSE @ - 1] \in Entry
    <3> SUFFICES ASSUME NEW e \in Entry
                 PROVE  [e EXCEPT !.age = IF @ > Window THEN @ ELSE @ + 1,
                                  !.left = IF @ = 0 THEN 0 ELSE @ - 1] \in Entry
      OBVIOUS
    <3> DEFINE age == IF e.age > Window THEN e.age ELSE e.age + 1
               left == IF e.left = 0 THEN 0 ELSE e.left - 1
    <3>1. age \in 0 .. Window + 1
      BY AccessAssumption DEF Entry
    <3>2. left \in 0 .. Lockout
      BY AccessAssumption DEF Entry
    <3> HIDE DEF age, left
    <3>3. [e EXCEPT !.age = age, !.left = left] \in Entry
      BY <3>1, <3>2 DEF Entry
    <3> QED BY <3>3 DEF age, left
  <2>2. entries' \in [Keys -> Entry]
    BY <1>8, <2>1 DEF Tick, TypeOK
  <2>3. sinceSweep' \in 0 .. Window
    <3>1. sinceSweep' = IF sinceSweep = Window THEN Window ELSE sinceSweep + 1
      BY <1>8 DEF Tick
    <3>2. sinceSweep \in 0 .. Window
      BY DEF TypeOK
    <3> QED BY <3>1, <3>2, AccessAssumption
  <2> QED BY <1>8, <2>2, <2>3 DEF Tick, TypeOK
<1>9. CASE Restart
  <2>1. NoEntry \in Entry
    BY AccessAssumption DEF NoEntry, Entry
  <2>2. entries' \in [Keys -> Entry] /\ req' \in [Requests -> Request]
    BY <1>1, <1>9, <2>1 DEF Restart
  <2>3. sinceSweep' \in 0 .. Window /\ restarts' \in 0 .. MaxRestarts
    BY <1>9, AccessAssumption DEF Restart, TypeOK
  <2> QED BY <1>9, <2>2, <2>3 DEF Restart, TypeOK
<1>10. CASE UNCHANGED vars
  BY <1>10 DEF vars, TypeOK
<1> QED BY <1>2, <1>3, <1>4, <1>5, <1>6, <1>7, <1>8, <1>9, <1>10 DEF Next, Handle

\* The states have their types, in every state the program reaches.
THEOREM TypeCorrect == Spec => []TypeOK
<1>1. Init => TypeOK
  <2> SUFFICES ASSUME Init PROVE TypeOK
    OBVIOUS
  <2>1. NoEntry \in Entry
    BY AccessAssumption DEF NoEntry, Entry
  <2>2. Idle \in Request
    BY DEF Idle, Request
  <2>3. entries \in [Keys -> Entry] /\ req \in [Requests -> Request]
    BY <2>1, <2>2 DEF Init
  <2>4. minted \in 0 .. MaxTokens /\ restarts \in 0 .. MaxRestarts /\ sinceSweep \in 0 .. Window
    BY AccessAssumption DEF Init
  <2> QED BY <2>3, <2>4 DEF Init, TypeOK
<1> QED BY <1>1, NextType, PTL DEF Spec

-----------------------------------------------------------------------------
(* The one account *)

\* A setup that is past CreateUser is the only one, and it has no token yet.
SetupOnce ==
  /\ \A r \in Requests : req[r].setup => /\ req[r].step = "issue"
                                         /\ account /\ founded = {}
                                         /\ \A q \in Requests : req[q].setup => q = r
  /\ founded # {} => account
  /\ \A t, u \in founded : t = u

\* Every step keeps it so.
LEMMA NextSetupOnce ==
  ASSUME TypeOK, SetupOnce, [Next]_vars
  PROVE  SetupOnce'
<1> USE DEF table
<1>1. \A r \in Requests : req[r] \in Request
  BY DEF TypeOK
<1>2. ASSUME NEW r \in Requests, Setup(r) PROVE SetupOnce'
  <2>1. req' = [req EXCEPT ![r] = [Idle EXCEPT !.step = "issue", !.setup = TRUE]]
    BY <1>2 DEF Setup
  <2>2. req'[r].step = "issue" /\ \A q \in Requests \ {r} : req'[q] = req[q]
    BY <2>1 DEF Idle, TypeOK
  <2>3. founded = {} /\ \A q \in Requests : ~req[q].setup
    BY <1>2 DEF Setup, SetupOnce
  <2>4. founded' = {} /\ account'
    BY <1>2, <2>3 DEF Setup
  <2> QED BY <2>2, <2>3, <2>4 DEF SetupOnce
<1>3. ASSUME NEW r \in Requests,
             (\E k \in Keys : Login(r, k)) \/ Reject(r) \/ Break(r)
      PROVE  SetupOnce'
  <2>1. \A q \in Requests \ {r} : req'[q] = req[q]
    BY <1>3 DEF Login, Reject, Break, TypeOK
  <2>2. ~req'[r].setup
    <3>1. CASE Reject(r) \/ Break(r)
      BY <3>1 DEF Reject, Break, TypeOK, Idle
    <3>2. ASSUME NEW k \in Keys, Login(r, k) PROVE ~req'[r].setup
      <4>1. req'[r] = [step |-> "verify", key |-> k, setup |-> FALSE]
        BY <3>2 DEF Login, TypeOK, Idle
      <4> QED BY <4>1
    <3> QED BY <1>3, <3>1, <3>2
  <2>3. UNCHANGED <<account, founded>>
    BY <1>3 DEF Login, Reject, Break
  <2> QED BY <2>1, <2>2, <2>3 DEF SetupOnce
<1>4. ASSUME NEW r \in Requests, Accept(r) PROVE SetupOnce'
  <2>1. /\ req' = [req EXCEPT ![r].step = "issue"]
        /\ UNCHANGED <<account, founded>> /\ ~req[r].setup
    BY <1>4 DEF Accept, SetupOnce
  <2>2. req'[r].setup = req[r].setup /\ \A q \in Requests \ {r} : req'[q] = req[q]
    BY <1>1, <2>1 DEF TypeOK, Request
  <2> QED BY <2>1, <2>2 DEF SetupOnce
<1>5. ASSUME NEW r \in Requests, Issue(r) PROVE SetupOnce'
  <2>1. ~req'[r].setup /\ \A q \in Requests \ {r} : req'[q] = req[q]
    BY <1>5 DEF Issue, Idle, TypeOK
  <2>2. account' = account
    BY <1>5 DEF Issue
  <2>3. CASE req[r].setup
    <3>1. founded' = {minted + 1} /\ account
      BY <1>5, <2>3 DEF Issue, SetupOnce
    <3>2. \A q \in Requests : ~req'[q].setup
      BY <2>1, <2>3 DEF SetupOnce
    <3> QED BY <2>2, <3>1, <3>2 DEF SetupOnce
  <2>4. CASE ~req[r].setup
    BY <1>5, <2>1, <2>2, <2>4 DEF Issue, SetupOnce
  <2> QED BY <2>3, <2>4
<1>6. CASE Restart
  BY <1>6 DEF Restart, SetupOnce, Idle
<1>7. CASE (\E t \in Token : Logout(t)) \/ Tick \/ UNCHANGED vars
  BY <1>7 DEF Logout, Tick, vars, SetupOnce
<1> QED BY <1>2, <1>3, <1>4, <1>5, <1>6, <1>7 DEF Next, Handle

\* One setup at most logs in, however the steps of several interleave and
\* whatever fails or restarts between them.
THEOREM OneSetupLogsIn == Spec => []OneSetupWins
<1>1. Init => SetupOnce
  BY DEF Init, SetupOnce, Idle
<1>2. TypeOK /\ SetupOnce /\ [Next]_vars => SetupOnce'
  BY NextSetupOnce
<1>3. SetupOnce => OneSetupWins
  <2> SUFFICES ASSUME SetupOnce PROVE Cardinality(founded) <= 1
    BY DEF OneSetupWins
  <2>1. CASE founded = {}
    BY <2>1, FS_EmptySet
  <2>2. CASE founded # {}
    <3>1. PICK t \in founded : founded = {t}
      BY <2>2 DEF SetupOnce
    <3> QED BY <3>1, FS_Singleton
  <2> QED BY <2>1, <2>2
<1> QED BY <1>1, <1>2, <1>3, TypeCorrect, PTL DEF Spec

-----------------------------------------------------------------------------
(* The course of a lock *)

\* A running lock is shortened by a restart, and by an answer to a request of the
\* same client that was past the guard: the right password, or a wrong one after
\* the streak has left the window.  Failures within the window, sweeps, other
\* clients and new requests let it run.
THEOREM LocksRun == Spec => LockYieldsToItsClient
<1> DEFINE Yields(k) ==
             entries'[k].left < entries[k].left =>
               \/ entries'[k].left = entries[k].left - 1 /\ UNCHANGED req
               \/ restarts' # restarts
               \/ \E r \in Requests :
                    Answered(r, k) /\ (req'[r].step = "issue" \/ entries[k].age > Window)
<1>1. ASSUME TypeOK, [Next]_vars PROVE \A k \in Keys : Yields(k)
  <2> SUFFICES ASSUME NEW k \in Keys, entries'[k].left < entries[k].left
               PROVE  \/ entries'[k].left = entries[k].left - 1 /\ UNCHANGED req
                      \/ restarts' # restarts
                      \/ \E r \in Requests :
                           /\ Answered(r, k)
                           /\ req'[r].step = "issue" \/ entries[k].age > Window
    OBVIOUS
  <2>1. entries[k] \in Entry
    BY <1>1 DEF TypeOK
  <2>2. entries[k].left \in Nat /\ entries[k].left <= Lockout /\ Lockout \in Nat
    BY <2>1, AccessAssumption DEF Entry
  <2>3. entries' # entries
    BY <2>2
  <2>4. ASSUME NEW r \in Requests, Reject(r)
        PROVE  Answered(r, k) /\ entries[k].age > Window
    <3>1. \/ entries'[k] = Swept(k)
          \/ entries'[k] = Counted(Swept(k)) /\ req[r].key = k
      BY <2>3, <2>4 DEF Reject, recordFailure, guard
    <3>2. Swept(k) = entries[k] \/ entries[k].left = 0
      BY DEF Swept
    <3>3. Swept(k) = entries[k] /\ entries[k].left > 0
      <4>1. CASE entries[k].left = 0
        <5>1. entries'[k].left < 0
          BY <4>1
        <5>2. entries'[k] \in Entry
          BY <1>1, NextType DEF TypeOK
        <5> QED BY <5>1, <5>2, AccessAssumption DEF Entry
      <4> QED BY <2>2, <3>2, <4>1
    <3>4. ASSUME ~StartsOver(entries[k])
          PROVE  Counted(entries[k]).left \in {entries[k].left, Lockout}
      BY <2>1, <3>4 DEF Counted, Entry
    <3>5. req[r].key = k /\ StartsOver(entries[k])
      BY <2>2, <3>1, <3>3, <3>4
    <3>6. req[r].step = "verify" /\ req'[r].step # "verify"
      BY <1>1, <2>4 DEF Reject, Idle, TypeOK
    <3> QED BY <3>3, <3>5, <3>6 DEF StartsOver, Answered
  <2>5. ASSUME NEW r \in Requests, Accept(r)
        PROVE  Answered(r, k) /\ req'[r].step = "issue"
    <3>1. entries' = [entries EXCEPT ![req[r].key] = NoEntry]
      BY <2>5 DEF Accept, recordSuccess
    <3>2. req[r].key = k
      BY <2>2, <3>1 DEF TypeOK
    <3>3. req'[r].step = "issue" /\ req[r].step = "verify"
      BY <1>1, <2>5 DEF Accept, TypeOK, Request
    <3> QED BY <3>2, <3>3 DEF Answered
  <2>6. CASE Tick
    <3> DEFINE age == IF entries[k].age > Window THEN entries[k].age ELSE entries[k].age + 1
               left == IF entries[k].left = 0 THEN 0 ELSE entries[k].left - 1
    <3>1. entries'[k] = [entries[k] EXCEPT !.age = age, !.left = left] /\ UNCHANGED req
      BY <2>6 DEF Tick
    <3> HIDE DEF age
    <3>2. entries'[k].left = left
      BY <2>1, <3>1 DEF Entry
    <3> QED BY <2>2, <3>1, <3>2
  <2>7. CASE Restart
    <3>1. restarts' = restarts + 1 /\ restarts \in Nat
      BY <1>1, <2>7, AccessAssumption DEF Restart, TypeOK
    <3> QED BY <3>1
  <2> QED BY <1>1, <2>3, <2>4, <2>5, <2>6, <2>7
          DEF Next, Handle, Setup, Login, Issue, Break, Logout, guard, vars
<1>2. TypeOK /\ [Next]_vars => [\A k \in Keys : Yields(k)]_vars
  BY <1>1
<1>3. Spec => [][\A k \in Keys : Yields(k)]_vars
  BY <1>2, TypeCorrect, PTL DEF Spec
<1> QED BY <1>3 DEF LockYieldsToItsClient

-----------------------------------------------------------------------------
(* The bound on wrong passwords *)

\* Requests past the guard whose password is being compared.
Comparing(k) == {r \in Requests : req[r].step = "verify" /\ req[r].key = k}

\* A streak and what is still under way for it stay within the allowance: once
\* it is locked nothing comes after those that were past the guard already.
StreakKept ==
  \A k \in Keys :
    /\ entries[k].failures < MaxAttempts + Cardinality(Requests)
    /\ ~entries[k].locked => entries[k].left = 0 /\ entries[k].failures < MaxAttempts
    /\ entries[k].left > 0 =>
         entries[k].failures + Cardinality(Comparing(k))
           < MaxAttempts + Cardinality(Requests)

\* One more failure keeps an entry within its allowance.
LEMMA CountedKeeps ==
  ASSUME NEW e \in Entry, NEW all \in Nat, NEW before \in Nat, before < all, MaxAttempts > 0,
         e.failures < MaxAttempts + all,
         ~e.locked => e.left = 0 /\ e.failures < MaxAttempts,
         e.left > 0 => e.failures + before + 1 < MaxAttempts + all
  PROVE  /\ Counted(e).failures < MaxAttempts + all
         /\ ~Counted(e).locked => Counted(e).left = 0 /\ Counted(e).failures < MaxAttempts
         /\ Counted(e).left > 0 => Counted(e).failures + before < MaxAttempts + all
<1> DEFINE streak == IF StartsOver(e) THEN Fresh ELSE e
           failures == streak.failures + 1
<1>1. Fresh \in Entry /\ Fresh.failures = 0 /\ Fresh.left = 0 /\ ~Fresh.locked
  <2>1. /\ NoEntry \in Entry /\ NoEntry.failures = 0 /\ NoEntry.left = 0
        /\ ~NoEntry.locked /\ 0 \in 0 .. Window + 1
    BY AccessAssumption DEF NoEntry, Entry
  <2> QED BY <2>1 DEF Fresh, Entry
<1>2. Counted(e) = IF failures >= MaxAttempts
                   THEN [streak EXCEPT !.failures = failures, !.left = Lockout, !.locked = TRUE]
                   ELSE [streak EXCEPT !.failures = failures]
  BY DEF Counted
<1>3. streak \in Entry
  BY <1>1
<1>4. failures \in Nat /\ failures = streak.failures + 1
  BY <1>3 DEF Entry
<1>5. /\ failures + before < MaxAttempts + all
      /\ ~streak.locked => streak.left = 0
      /\ streak.left > 0 => streak = e
  <2>1. CASE StartsOver(e)
    <3>1. streak.failures = 0 /\ streak.left = 0 /\ ~streak.locked
      BY <1>1, <2>1
    <3> QED BY <1>4, <3>1, AccessAssumption
  <2>2. CASE ~StartsOver(e)
    <3>1. streak = e
      BY <2>2
    <3>2. e.left = 0 => ~e.locked
      BY <2>2 DEF StartsOver
    <3>3. e.left \in Nat /\ e.failures \in Nat
      BY AccessAssumption DEF Entry
    <3> QED BY <1>4, <3>1, <3>2, <3>3, AccessAssumption
  <2> QED BY <2>1, <2>2
<1> HIDE DEF streak, failures
<1>6. CASE failures >= MaxAttempts
  <2>1. Counted(e).failures = failures /\ Counted(e).locked
    BY <1>2, <1>3, <1>6 DEF Entry
  <2> QED BY <1>4, <1>5, <2>1, AccessAssumption
<1>7. CASE failures < MaxAttempts
  <2>1. /\ Counted(e).failures = failures
        /\ Counted(e).locked = streak.locked /\ Counted(e).left = streak.left
    <3>1. Counted(e) = [streak EXCEPT !.failures = failures]
      BY <1>2, <1>4, <1>7, AccessAssumption
    <3> QED BY <1>3, <3>1 DEF Entry
  <2> QED BY <1>4, <1>5, <1>7, <2>1, AccessAssumption
<1> QED BY <1>4, <1>6, <1>7, AccessAssumption

\* Counting the requests under way.
LEMMA ComparingCount ==
  ASSUME NEW k
  PROVE  /\ Cardinality(Requests) \in Nat /\ Cardinality(Comparing(k)) \in Nat
         /\ \A T \in SUBSET Comparing(k) :
              Cardinality(T) \in Nat /\ Cardinality(T) <= Cardinality(Comparing(k))
         /\ \A r \in Comparing(k) :
              /\ Cardinality(Comparing(k) \ {r}) = Cardinality(Comparing(k)) - 1
              /\ Cardinality(Comparing(k) \ {r}) < Cardinality(Requests)
<1>1. IsFiniteSet(Requests) /\ Comparing(k) \subseteq Requests
  BY AccessAssumption DEF Comparing
<1>2. IsFiniteSet(Comparing(k)) /\ Cardinality(Comparing(k)) <= Cardinality(Requests)
  BY <1>1, FS_Subset
<1>3. Cardinality(Requests) \in Nat /\ Cardinality(Comparing(k)) \in Nat
  BY <1>1, <1>2, FS_CardinalityType
<1>4. ASSUME NEW T \in SUBSET Comparing(k)
      PROVE  Cardinality(T) \in Nat /\ Cardinality(T) <= Cardinality(Comparing(k))
  BY <1>2, FS_Subset, FS_CardinalityType
<1>5. ASSUME NEW r \in Comparing(k)
      PROVE  Cardinality(Comparing(k) \ {r}) = Cardinality(Comparing(k)) - 1
  BY <1>2, FS_RemoveElement
<1> QED BY <1>2, <1>3, <1>4, <1>5

\* Every step keeps the streaks within their allowance.
LEMMA NextStreakKept ==
  ASSUME Enabled, TypeOK, StreakKept, [Next]_vars
  PROVE  StreakKept'
<1> USE DEF table, guard
<1>1. \A k \in Keys : entries[k] \in Entry /\ entries'[k] \in Entry
  <2>1. TypeOK'
    BY NextType
  <2> QED BY <2>1 DEF TypeOK
<1>2. ASSUME UNCHANGED entries,
             \A k \in Keys : entries[k].left > 0 => Comparing(k)' \subseteq Comparing(k)
      PROVE  StreakKept'
  <2> SUFFICES ASSUME NEW k \in Keys, entries[k].left > 0
               PROVE  entries[k].failures + Cardinality(Comparing(k)')
                        < MaxAttempts + Cardinality(Requests)
    BY <1>2 DEF StreakKept
  <2>1. Comparing(k)' \in SUBSET Comparing(k)
    BY <1>2
  <2>2. Cardinality(Comparing(k)') <= Cardinality(Comparing(k))
        /\ Cardinality(Comparing(k)') \in Nat
    BY <2>1, ComparingCount
  <2>3. entries[k].failures \in Nat
    BY <1>1 DEF Entry
  <2> QED BY <2>2, <2>3, ComparingCount, AccessAssumption DEF StreakKept
<1>3. ASSUME NEW r \in Requests, Setup(r) \/ Issue(r) \/ Break(r) PROVE StreakKept'
  <2>1. \A k \in Keys : Comparing(k)' \subseteq Comparing(k)
    <3>1. req'[r].step # "verify" /\ \A q \in Requests \ {r} : req'[q] = req[q]
      <4>1. CASE Setup(r)
        <5>1. req'[r] = [step |-> "issue", key |-> NoKey, setup |-> TRUE]
          BY <4>1 DEF Setup, Idle, TypeOK
        <5> QED BY <4>1, <5>1 DEF Setup, TypeOK
      <4>2. CASE Issue(r) \/ Break(r)
        BY <4>2 DEF Issue, Break, Idle, TypeOK
      <4> QED BY <1>3, <4>1, <4>2
    <3> QED BY <3>1 DEF Comparing
  <2> QED BY <1>2, <1>3, <2>1 DEF Setup, Issue, Break
<1>4. ASSUME NEW r \in Requests, NEW j \in Keys, Login(r, j) PROVE StreakKept'
  <2>1. entries[j].left = 0
    BY <1>1, <1>4, AccessAssumption DEF Login, Locked, Entry
  <2>2. req'[r].key = j /\ \A q \in Requests \ {r} : req'[q] = req[q]
    BY <1>4 DEF Login, TypeOK, Idle
  <2>3. \A k \in Keys : k # j => Comparing(k)' \subseteq Comparing(k)
    BY <2>2 DEF Comparing
  <2> QED BY <1>2, <1>4, <2>1, <2>3 DEF Login
<1>5. ASSUME NEW r \in Requests, Accept(r) PROVE StreakKept'
  <2>1. entries' = [entries EXCEPT ![req[r].key] = NoEntry]
    BY <1>5 DEF Accept, recordSuccess
  <2>2. \A k \in Keys : Comparing(k)' \subseteq Comparing(k)
    BY <1>5 DEF Accept, Comparing, TypeOK, Request
  <2> SUFFICES ASSUME NEW k \in Keys
               PROVE  /\ entries'[k].failures < MaxAttempts + Cardinality(Requests)
                      /\ ~entries'[k].locked =>
                           entries'[k].left = 0 /\ entries'[k].failures < MaxAttempts
                      /\ entries'[k].left > 0 =>
                           entries'[k].failures + Cardinality(Comparing(k)')
                             < MaxAttempts + Cardinality(Requests)
    BY DEF StreakKept
  <2>3. CASE k = req[r].key
    <3>1. entries'[k] = NoEntry
      BY <2>1, <2>3 DEF TypeOK
    <3> QED BY <3>1, ComparingCount, AccessAssumption DEF NoEntry, Enabled
  <2>4. CASE k # req[r].key
    <3>1. entries'[k] = entries[k]
      BY <2>1, <2>4 DEF TypeOK
    <3>2. Cardinality(Comparing(k)') <= Cardinality(Comparing(k))
          /\ Cardinality(Comparing(k)') \in Nat
      BY <2>2, ComparingCount
    <3>3. entries[k].failures \in Nat
      BY <1>1 DEF Entry
    <3> QED BY <3>1, <3>2, <3>3, ComparingCount, AccessAssumption DEF StreakKept
  <2> QED BY <2>3, <2>4
<1>6. ASSUME NEW r \in Requests, Reject(r) PROVE StreakKept'
  <2>1. entries' = [j \in Keys |->
                      IF j = req[r].key THEN Counted(Swept(j)) ELSE Swept(j)]
    BY <1>6 DEF Reject, recordFailure
  <2>2. \A k \in Keys : Comparing(k)' \subseteq Comparing(k) \ {r}
    BY <1>6 DEF Reject, Comparing, Idle, TypeOK
  <2> SUFFICES ASSUME NEW k \in Keys
               PROVE  /\ entries'[k].failures < MaxAttempts + Cardinality(Requests)
                      /\ ~entries'[k].locked =>
                           entries'[k].left = 0 /\ entries'[k].failures < MaxAttempts
                      /\ entries'[k].left > 0 =>
                           entries'[k].failures + Cardinality(Comparing(k)')
                             < MaxAttempts + Cardinality(Requests)
    BY DEF StreakKept
  <2> DEFINE e == Swept(k)
             all == Cardinality(Requests)
             under == Cardinality(Comparing(k))
             left == Cardinality(Comparing(k)')
  <2>3. NoEntry \in Entry /\ NoEntry.failures = 0 /\ NoEntry.left = 0 /\ ~NoEntry.locked
    BY AccessAssumption DEF NoEntry, Entry
  <2>4. all \in Nat /\ under \in Nat /\ left \in Nat /\ left <= under
    BY <2>2, ComparingCount
  <2>5. e \in Entry /\ e.failures \in Nat /\ e.left \in Nat
    BY <1>1, <2>3, AccessAssumption DEF Swept, Entry
  <2>6. /\ e.failures < MaxAttempts + all
        /\ ~e.locked => e.left = 0 /\ e.failures < MaxAttempts
        /\ e.left > 0 => e.failures + under < MaxAttempts + all
    <3>1. CASE e = NoEntry
      BY <2>3, <2>4, <3>1, AccessAssumption DEF Enabled
    <3>2. CASE e = entries[k]
      BY <3>2 DEF StreakKept
    <3> HIDE DEF e
    <3>3. e = NoEntry \/ e = entries[k]
      BY DEF Swept, e
    <3> QED BY <3>1, <3>2, <3>3
  <2>7. CASE k = req[r].key
    <3>1. entries'[k] = Counted(e)
      BY <2>1, <2>7
    <3>2. r \in Comparing(k)
      BY <1>6, <2>7 DEF Reject, Comparing
    <3>3. left + 1 <= under /\ left < all
      <4>1. Comparing(k)' \in SUBSET (Comparing(k) \ {r}) /\ IsFiniteSet(Comparing(k) \ {r})
        BY <2>2, AccessAssumption, FS_Subset DEF Comparing
      <4>2. left <= Cardinality(Comparing(k) \ {r})
        BY <4>1, FS_Subset
      <4>3. /\ Cardinality(Comparing(k) \ {r}) = under - 1
            /\ Cardinality(Comparing(k) \ {r}) < all
        BY <3>2, ComparingCount
      <4> HIDE DEF left, under, all
      <4> QED BY <2>4, <4>2, <4>3
    <3> HIDE DEF e, left, under, all
    <3>4. e.left > 0 => e.failures + left + 1 < MaxAttempts + all
      BY <2>4, <2>5, <2>6, <3>3, AccessAssumption
    <3>5. MaxAttempts > 0
      BY DEF Enabled
    <3>6. /\ Counted(e).failures < MaxAttempts + all
          /\ ~Counted(e).locked => Counted(e).left = 0 /\ Counted(e).failures < MaxAttempts
          /\ Counted(e).left > 0 => Counted(e).failures + left < MaxAttempts + all
      BY <2>4, <2>5, <2>6, <3>3, <3>4, <3>5, CountedKeeps
    <3> QED BY <3>1, <3>6 DEF left, all
  <2>8. CASE k # req[r].key
    <3>1. entries'[k] = e
      BY <2>1, <2>8
    <3> HIDE DEF e, left, under, all
    <3>2. e.left > 0 => e.failures + left < MaxAttempts + all
      BY <2>4, <2>5, <2>6, AccessAssumption
    <3> QED BY <2>6, <3>1, <3>2 DEF left, all
  <2> QED BY <2>7, <2>8
<1>7. CASE Tick
  <2>1. \A k \in Keys : Comparing(k)' = Comparing(k)
    BY <1>7 DEF Tick, Comparing
  <2>2. ASSUME NEW k \in Keys
        PROVE  /\ entries'[k].failures = entries[k].failures
               /\ entries'[k].locked = entries[k].locked
               /\ entries[k].left = 0 => entries'[k].left = 0
               /\ entries[k].left \in Nat
    <3> DEFINE age == IF entries[k].age > Window THEN entries[k].age ELSE entries[k].age + 1
               left == IF entries[k].left = 0 THEN 0 ELSE entries[k].left - 1
    <3>1. entries'[k] = [entries[k] EXCEPT !.age = age, !.left = left]
      BY <1>7 DEF Tick
    <3>2. left = 0 \/ entries[k].left # 0
      OBVIOUS
    <3> HIDE DEF age, left
    <3> QED BY <1>1, <3>1, <3>2, AccessAssumption DEF Entry
  <2> QED BY <2>1, <2>2 DEF StreakKept
<1>8. CASE Restart
  <2>1. \A k \in Keys : entries'[k] = NoEntry
    BY <1>8 DEF Restart
  <2> QED BY <2>1, ComparingCount, AccessAssumption DEF StreakKept, NoEntry, Enabled
<1>9. CASE (\E t \in Token : Logout(t)) \/ UNCHANGED vars
  BY <1>2, <1>9 DEF Logout, vars, Comparing
<1> QED BY <1>3, <1>4, <1>5, <1>6, <1>7, <1>8, <1>9 DEF Next, Handle

\* A client has its allowance of wrong passwords and one more for each other
\* request that was past the guard, for any number of clients and requests.
THEOREM StreaksBounded == Spec => []StreakIsBounded
<1>1. CASE ~Enabled
  <2>1. StreakIsBounded
    BY <1>1 DEF StreakIsBounded
  <2>2. []StreakIsBounded
    BY <2>1, PTL
  <2> QED BY <2>2
<1>2. CASE Enabled
  <2>1. Init => StreakKept
    BY <1>2, ComparingCount, AccessAssumption DEF Init, StreakKept, NoEntry, Enabled
  <2>2. TypeOK /\ StreakKept /\ [Next]_vars => StreakKept'
    BY <1>2, NextStreakKept
  <2>3. StreakKept => StreakIsBounded
    BY DEF StreakKept, StreakIsBounded
  <2> QED BY <2>1, <2>2, <2>3, TypeCorrect, PTL DEF Spec
<1> QED BY <1>1, <1>2

=============================================================================
