--------------------------- MODULE ExtractionProofs ---------------------------
(***************************************************************************)
(* Proofs about Extraction, for any number of extractions, any cost and    *)
(* limit, any length of time and any answers of the resolver: the types,   *)
(* the limit of a day and its books.                                       *)
(***************************************************************************)
EXTENDS Extraction, FiniteSetTheorems, TLAPS

-----------------------------------------------------------------------------
(* Types *)

\* A slot that is free is a slot, and so is one whose units are settled.
LEMMA SlotType ==
  /\ Free \in Slot
  /\ \A e \in Slot : [e EXCEPT !.step = "read", !.day = 0] \in Slot
<1>1. 0 \in 0 .. MaxRedirects /\ 0 \in Day \union {0}
  BY ExtractionAssumption
<1>2. Free \in Slot
  BY <1>1 DEF Free, Slot, Step
<1>3. "read" \in Step
  BY DEF Step
<1>4. \A e \in Slot : [e EXCEPT !.step = "read", !.day = 0] \in Slot
  BY <1>1, <1>3 DEF Slot
<1> QED BY <1>2, <1>4

\* Every step keeps the types.
LEMMA NextType == TypeOK /\ [Next]_vars => TypeOK'
<1> SUFFICES ASSUME TypeOK, [Next]_vars PROVE TypeOK'
  OBVIOUS
<1> USE DEF budget
<1>1. \A s \in Slots : slot[s] \in Slot
  BY DEF TypeOK
<1>2. /\ {"idle", "reserve", "convert", "refund", "read", "dial", "answer"} \subseteq Step
      /\ today \in Day /\ 0 \in Day \union {0} /\ Day \subseteq Nat
  BY DEF Step, TypeOK, Day
<1>3. ASSUME NEW s \in Slots, NEW e \in Slot, slot' = [slot EXCEPT ![s] = e]
      PROVE  slot' \in [Slots -> Slot]
  BY <1>3 DEF TypeOK
<1>4. ASSUME NEW s \in Slots, Read(s) \/ Leave(s) PROVE slot' \in [Slots -> Slot]
  <2>1. [slot[s] EXCEPT !.step = "read", !.day = 0] \in Slot /\ Free \in Slot
    BY <1>1, SlotType
  <2> QED BY <1>4, <2>1 DEF Read, Leave, TypeOK
<1>5. ASSUME NEW s \in Slots, NEW host \in Host, Start(s, host) PROVE TypeOK'
  <2>1. slot' \in [Slots -> Slot]
    BY <1>1, <1>2, <1>5 DEF Start, TypeOK, Slot
  <2> QED BY <1>5, <2>1 DEF Start, TypeOK
<1>6. ASSUME NEW s \in Slots, Reserve(s) PROVE TypeOK'
  <2>1. slot' \in [Slots -> Slot]
    BY <1>1, <1>2, <1>4, <1>6 DEF Reserve, TypeOK, Slot
  <2>2. used' \in [Day -> Nat]
    BY <1>6, ExtractionAssumption DEF Reserve, TypeOK
  <2> QED BY <1>6, <2>1, <2>2 DEF Reserve, TypeOK
<1>7. ASSUME NEW s \in Slots, Convert(s) PROVE TypeOK'
  <2>1. slot' \in [Slots -> Slot]
    BY <1>1, <1>2, <1>4, <1>7 DEF Convert, TypeOK, Slot
  <2>2. converted' \in [Day -> Nat]
    BY <1>7 DEF Convert, TypeOK
  <2> QED BY <1>7, <2>1, <2>2 DEF Convert, TypeOK
<1>8. ASSUME NEW s \in Slots, Refund(s) PROVE TypeOK'
  <2>1. slot' \in [Slots -> Slot]
    BY <1>4, <1>8 DEF Refund
  <2>2. \A n \in Nat : Refunded(n) \in Nat
    BY ExtractionAssumption DEF Refunded
  <2>3. used' \in [Day -> Nat] /\ unreturned' \in [Day -> Nat] /\ strays' \in [Day -> Nat]
    BY <1>8, <2>2 DEF Refund, TypeOK
  <2> QED BY <1>8, <2>1, <2>3 DEF Refund, TypeOK
<1>9. ASSUME NEW s \in Slots, Preflight(s) \/ Finish(s) PROVE TypeOK'
  <2>1. slot' \in [Slots -> Slot]
    BY <1>1, <1>2, <1>4, <1>9 DEF Preflight, Finish, TypeOK, Slot
  <2> QED BY <1>9, <2>1 DEF Preflight, Finish, TypeOK
<1>10. ASSUME NEW s \in Slots, Dial(s) PROVE TypeOK'
  <2>1. slot' \in [Slots -> Slot]
    BY <1>1, <1>2, <1>4, <1>10 DEF Dial, TypeOK, Slot
  <2> QED BY <1>10, <2>1 DEF Dial, TypeOK
<1>11. ASSUME NEW s \in Slots, Follow(s) PROVE TypeOK'
  <2>1. slot[s].hops + 1 \in 0 .. MaxRedirects
    BY <1>1, <1>11, ExtractionAssumption DEF Follow, Slot
  <2>2. slot' \in [Slots -> Slot]
    BY <1>1, <1>2, <1>11, <2>1 DEF Follow, TypeOK, Slot
  <2> QED BY <1>11, <2>2 DEF Follow, TypeOK
<1>12. CASE Midnight
  <2>1. today' \in Day
    BY <1>12, ExtractionAssumption DEF Midnight, TypeOK, Day
  <2> QED BY <1>12, <2>1 DEF Midnight, TypeOK
<1>13. CASE Restart
  <2>1. slot' \in [Slots -> Slot]
    BY <1>13, SlotType DEF Restart
  <2>2. \A d \in Day : Cardinality(Held(d)) \in Nat
    BY ExtractionAssumption, FS_Subset, FS_CardinalityType DEF Held
  <2>3. unreturned' \in [Day -> Nat]
    BY <1>13, <2>2 DEF Restart, TypeOK
  <2>4. restarts' \in 0 .. MaxRestarts
    BY <1>13, ExtractionAssumption DEF Restart, TypeOK
  <2> QED BY <1>13, <2>1, <2>3, <2>4 DEF Restart, TypeOK
<1>14. CASE UNCHANGED vars
  BY <1>14 DEF vars, TypeOK
<1> QED BY <1>5, <1>6, <1>7, <1>8, <1>9, <1>10, <1>11, <1>12, <1>13, <1>14
        DEF Next, Advance

\* The states have their types, in every state the program reaches.
THEOREM TypeCorrect == Spec => []TypeOK
<1>1. Init => TypeOK
  <2> SUFFICES ASSUME Init PROVE TypeOK
    OBVIOUS
  <2>1. slot \in [Slots -> Slot]
    BY SlotType DEF Init
  <2>2. today \in Day /\ restarts \in 0 .. MaxRestarts
    BY ExtractionAssumption DEF Init, Day
  <2> QED BY <2>1, <2>2 DEF Init, TypeOK
<1> QED BY <1>1, NextType, PTL DEF Spec

-----------------------------------------------------------------------------
(* The limit of a day *)

\* A day is never charged more than its limit, however many extractions run.
THEOREM LimitHolds == Spec => []WithinLimit
<1> USE DEF budget
<1>1. Init => WithinLimit
  BY ExtractionAssumption DEF Init, WithinLimit
<1>2. ASSUME TypeOK, WithinLimit, [Next]_vars PROVE WithinLimit'
  <2>1. today \in Day /\ used \in [Day -> Nat]
    BY <1>2 DEF TypeOK
  <2>2. ASSUME NEW n \in Nat, used' = [used EXCEPT ![today] = n],
               DailyLimit > 0 => n <= DailyLimit
        PROVE  WithinLimit'
    BY <1>2, <2>1, <2>2 DEF WithinLimit
  <2>3. ASSUME NEW s \in Slots, Reserve(s) PROVE WithinLimit'
    <3>1. CASE used' = used
      BY <1>2, <3>1 DEF WithinLimit
    <3>2. CASE Fits(used[today]) /\ used' = [used EXCEPT ![today] = @ + Cost]
      <4>1. used[today] + Cost \in Nat /\ (DailyLimit > 0 => used[today] + Cost <= DailyLimit)
        BY <2>1, <3>2, ExtractionAssumption DEF Fits
      <4> QED BY <2>2, <3>2, <4>1
    <3> QED BY <2>3, <3>1, <3>2 DEF Reserve
  <2>4. ASSUME NEW s \in Slots, Refund(s) PROVE WithinLimit'
    <3>1. CASE used' = used
      BY <1>2, <3>1 DEF WithinLimit
    <3>2. CASE used' = [used EXCEPT ![today] = Refunded(@)]
      <4>1. Refunded(used[today]) \in Nat /\ Refunded(used[today]) <= used[today]
        BY <2>1, ExtractionAssumption DEF Refunded
      <4>2. DailyLimit > 0 => Refunded(used[today]) <= DailyLimit
        BY <1>2, <2>1, <4>1, ExtractionAssumption DEF WithinLimit
      <4> QED BY <2>2, <3>2, <4>1, <4>2
    <3> QED BY <2>4, <3>1, <3>2 DEF Refund
  <2> QED BY <1>2, <2>3, <2>4 DEF Next, Advance, Start, Convert, Preflight, Dial, Follow,
             Finish, Midnight, Restart, vars, WithinLimit
<1>3. TypeOK /\ WithinLimit /\ [Next]_vars => WithinLimit'
  BY <1>2
<1> QED BY <1>1, <1>3, TypeCorrect, PTL DEF Spec

-----------------------------------------------------------------------------
(* The books of a day *)

\* A slot holds units of a day while it converts or waits to return them.
HoldsUnits ==
  \A s \in Slots : slot[s].day # 0 <=> slot[s].step \in {"convert", "refund"}

\* Conversions the units of a day are accounted for.
Due(d) == Cardinality(Held(d)) + converted[d] + unreturned[d]

\* A day's counter is what is due, or a stray refund's cost less for each.
Books(d) ==
  /\ strays[d] = 0 => used[d] = Cost * Due(d)
  /\ used[d] + Cost * strays[d] >= Cost * Due(d)

\* What is due is a number, and its cost grows with it.
LEMMA DueType ==
  ASSUME TypeOK
  PROVE  /\ \A d \in Day : /\ Cardinality(Held(d)) \in Nat /\ IsFiniteSet(Held(d))
                           /\ converted[d] \in Nat /\ unreturned[d] \in Nat
                           /\ Due(d) \in Nat
         /\ \A n \in Nat : Cost * n \in Nat /\ Cost * (n + 1) = Cost * n + Cost
<1>1. ASSUME NEW d \in Day
      PROVE  Cardinality(Held(d)) \in Nat /\ IsFiniteSet(Held(d))
  BY ExtractionAssumption, FS_Subset, FS_CardinalityType DEF Held
<1>2. ASSUME NEW d \in Day
      PROVE  converted[d] \in Nat /\ unreturned[d] \in Nat
  BY DEF TypeOK
<1>3. \A n \in Nat : Cost * n \in Nat /\ Cost * (n + 1) = Cost * n + Cost
  BY ExtractionAssumption
<1> QED BY <1>1, <1>2, <1>3 DEF Due

\* The units of one slot change hands: what the days hold follows.
LEMMA HeldMoves ==
  ASSUME TypeOK, NEW s \in Slots, \A t \in Slots \ {s} : slot'[t] = slot[t], TypeOK',
         NEW d \in Day
  PROVE  /\ slot'[s].day = d /\ slot[s].day # d =>
              Cardinality(Held(d))' = Cardinality(Held(d)) + 1
         /\ slot'[s].day # d /\ slot[s].day = d =>
              Cardinality(Held(d))' = Cardinality(Held(d)) - 1
         /\ (slot'[s].day = d <=> slot[s].day = d) => Held(d)' = Held(d)
<1>1. CASE slot'[s].day = d /\ slot[s].day # d
  <2>1. Held(d)' = Held(d) \union {s} /\ s \notin Held(d)
    BY <1>1 DEF Held
  <2>2. IsFiniteSet(Held(d))
    BY DueType
  <2>3. Cardinality(Held(d) \union {s}) = Cardinality(Held(d)) + 1
    BY <2>1, <2>2, FS_AddElement
  <2> QED BY <1>1, <2>1, <2>3
<1>2. CASE slot'[s].day # d /\ slot[s].day = d
  <2>1. Held(d)' = Held(d) \ {s} /\ s \in Held(d)
    BY <1>2 DEF Held
  <2>2. IsFiniteSet(Held(d))
    BY DueType
  <2>3. Cardinality(Held(d) \ {s}) = Cardinality(Held(d)) - 1
    BY <2>1, <2>2, FS_RemoveElement
  <2> QED BY <1>2, <2>1, <2>3
<1>3. CASE slot'[s].day = d <=> slot[s].day = d
  BY <1>3 DEF Held
<1> QED BY <1>1, <1>2, <1>3

\* The four ways a day's books change.
LEMMA BooksChange ==
  ASSUME TypeOK, TypeOK', NEW d \in Day, Books(d),
         \/ used'[d] = used[d] /\ strays'[d] = strays[d] /\ Due(d)' = Due(d)
         \/ used'[d] = used[d] + Cost /\ strays'[d] = strays[d] /\ Due(d)' = Due(d) + 1
         \/ /\ used'[d] = Refunded(used[d])
            /\ strays'[d] = strays[d] /\ Due(d) > 0 /\ Due(d)' = Due(d) - 1
         \/ used'[d] = Refunded(used[d]) /\ strays'[d] = strays[d] + 1 /\ Due(d)' = Due(d)
  PROVE  Books(d)'
<1> DEFINE u == used[d]  n == Due(d)  z == strays[d]
<1>1. u \in Nat /\ n \in Nat /\ z \in Nat /\ Cost \in Nat /\ Cost * z \in Nat /\ Cost * n \in Nat
  BY DueType, ExtractionAssumption DEF TypeOK
<1>2. (z = 0 => u = Cost * n) /\ u + Cost * z >= Cost * n
  BY DEF Books
<1>3. CASE used'[d] = u /\ strays'[d] = z /\ Due(d)' = n
  BY <1>2, <1>3 DEF Books
<1>4. CASE used'[d] = u + Cost /\ strays'[d] = z /\ Due(d)' = n + 1
  <2>1. Cost * (n + 1) = Cost * n + Cost
    BY <1>1, DueType
  <2> HIDE DEF u, n, z
  <2>2. (z = 0 => u + Cost = Cost * (n + 1)) /\ u + Cost + Cost * z >= Cost * (n + 1)
    BY <1>1, <1>2, <2>1
  <2> QED BY <1>4, <2>2 DEF Books
<1>5. CASE used'[d] = Refunded(u) /\ strays'[d] = z /\ n > 0 /\ Due(d)' = n - 1
  <2>1. n - 1 \in Nat /\ n = (n - 1) + 1
    BY <1>1, <1>5
  <2>2. Cost * (n - 1) \in Nat /\ Cost * n = Cost * (n - 1) + Cost
    BY <2>1, DueType
  <2> HIDE DEF u, n, z
  <2>3. /\ z = 0 => Refunded(u) = Cost * (n - 1)
        /\ Refunded(u) + Cost * z >= Cost * (n - 1)
    BY <1>1, <1>2, <2>2 DEF Refunded
  <2> QED BY <1>5, <2>3 DEF Books
<1>6. CASE used'[d] = Refunded(u) /\ strays'[d] = z + 1 /\ Due(d)' = n
  <2>1. Cost * (z + 1) = Cost * z + Cost
    BY <1>1, DueType
  <2> HIDE DEF u, n, z
  <2>2. Refunded(u) + Cost * (z + 1) >= Cost * n /\ z + 1 # 0
    BY <1>1, <1>2, <2>1 DEF Refunded
  <2> QED BY <1>6, <2>2 DEF Books
<1> QED BY <1>3, <1>4, <1>5, <1>6

\* Every step keeps the books of every day.
LEMMA NextBooks ==
  ASSUME TypeOK, HoldsUnits, \A d \in Day : Books(d), [Next]_vars
  PROVE  HoldsUnits' /\ \A d \in Day : Books(d)'
<1> USE DEF budget
<1>1. TypeOK'
  BY NextType
<1>2. today \in Day /\ 0 \notin Day /\ Day \subseteq Nat
  BY DEF TypeOK, Day
<1>3. ASSUME NEW s \in Slots
      PROVE  slot[s] \in Slot
  BY DEF TypeOK
<1>4. ASSUME NEW s \in Slots, Leave(s) \/ Read(s)
      PROVE  /\ slot'[s].day = 0 /\ slot'[s].step \in {"idle", "read"}
             /\ \A t \in Slots \ {s} : slot'[t] = slot[t]
  BY <1>3, <1>4 DEF Leave, Read, Free, TypeOK, Slot
<1>5. ASSUME NEW s \in Slots,
             (\E host \in Host : Start(s, host)) \/ Preflight(s) \/ Dial(s) \/ Follow(s)
               \/ Finish(s)
      PROVE  HoldsUnits' /\ \A d \in Day : Books(d)'
  <2>1. slot[s].day = 0
    BY <1>5 DEF Start, Preflight, Dial, Follow, Finish, HoldsUnits
  <2>2. /\ slot'[s].day = 0 /\ slot'[s].step \notin {"convert", "refund"}
        /\ \A t \in Slots \ {s} : slot'[t] = slot[t]
    <3>1. CASE Leave(s)
      BY <1>4, <3>1
    <3>2. CASE ~Leave(s)
      <4>1. PICK step \in {"reserve", "dial", "answer"}, host \in Host \union {"none"},
                 hops \in Nat :
              \/ slot' = [slot EXCEPT ![s].step = step]
              \/ slot' = [slot EXCEPT ![s].step = step, ![s].host = host]
              \/ slot' = [slot EXCEPT ![s].step = step, ![s].host = host, ![s].hops = hops]
        <5>1. CASE \E host \in Host : Start(s, host)
          BY <5>1 DEF Start
        <5>2. CASE Preflight(s) \/ Dial(s) \/ Finish(s)
          BY <3>2, <5>2 DEF Preflight, Dial, Finish
        <5>3. CASE Follow(s)
          <6>1. slot[s].hops + 1 \in Nat
            BY <1>3, ExtractionAssumption DEF Slot
          <6>2. PICK host \in Host :
                  slot' = [slot EXCEPT ![s].step = "dial", ![s].host = host,
                                       ![s].hops = slot[s].hops + 1]
            BY <5>3 DEF Follow
          <6> QED BY <6>1, <6>2
        <5> QED BY <1>5, <5>1, <5>2, <5>3
      <4>2. slot'[s].day = 0 /\ slot'[s].step = step
        BY <1>3, <2>1, <4>1 DEF TypeOK, Slot
      <4>3. \A t \in Slots \ {s} : slot'[t] = slot[t]
        BY <4>1 DEF TypeOK
      <4> QED BY <4>2, <4>3
    <3> QED BY <3>1, <3>2
  <2>3. UNCHANGED <<used, strays, converted, unreturned>>
    BY <1>5 DEF Start, Preflight, Dial, Follow, Finish
  <2>4. HoldsUnits'
    BY <2>2 DEF HoldsUnits
  <2>5. ASSUME NEW d \in Day PROVE Books(d)'
    <3>1. Held(d)' = Held(d)
      BY <1>1, <1>2, <2>1, <2>2, HeldMoves
    <3>2. Due(d)' = Due(d)
      BY <2>3, <3>1 DEF Due
    <3> QED BY <1>1, <2>3, <3>2, BooksChange
  <2> QED BY <2>4, <2>5
<1>6. ASSUME NEW s \in Slots, Reserve(s)
      PROVE  HoldsUnits' /\ \A d \in Day : Books(d)'
  <2>1. slot[s].day = 0 /\ UNCHANGED <<strays, converted, unreturned>>
    BY <1>6 DEF Reserve, HoldsUnits
  <2>2. CASE Read(s) /\ UNCHANGED used
    <3>1. HoldsUnits'
      BY <1>4, <2>2 DEF HoldsUnits
    <3>2. ASSUME NEW d \in Day PROVE Books(d)'
      <4>1. Held(d)' = Held(d)
        BY <1>1, <1>2, <1>4, <2>1, <2>2, HeldMoves
      <4>2. Due(d)' = Due(d)
        BY <2>1, <4>1 DEF Due
      <4> QED BY <1>1, <2>1, <2>2, <4>2, BooksChange
    <3> QED BY <3>1, <3>2
  <2>3. CASE /\ used' = [used EXCEPT ![today] = @ + Cost]
             /\ slot' = [slot EXCEPT ![s].step = "convert", ![s].day = today]
    <3>1. /\ slot'[s].day = today /\ slot'[s].step = "convert"
          /\ \A t \in Slots \ {s} : slot'[t] = slot[t]
      BY <1>3, <2>3 DEF TypeOK, Slot
    <3>2. HoldsUnits'
      BY <1>2, <3>1 DEF HoldsUnits
    <3>3. ASSUME NEW d \in Day PROVE Books(d)'
      <4>1. CASE d = today
        <5>1. Cardinality(Held(d))' = Cardinality(Held(d)) + 1
          BY <1>1, <1>2, <2>1, <3>1, <4>1, HeldMoves
        <5>2. Due(d)' = Due(d) + 1 /\ used'[d] = used[d] + Cost
          BY <2>1, <2>3, <4>1, <5>1, DueType DEF Due, TypeOK
        <5> QED BY <1>1, <2>1, <5>2, BooksChange
      <4>2. CASE d # today
        <5>1. Held(d)' = Held(d)
          BY <1>1, <1>2, <2>1, <3>1, <4>2, HeldMoves
        <5>2. Due(d)' = Due(d) /\ used'[d] = used[d]
          BY <2>1, <2>3, <4>2, <5>1 DEF Due, TypeOK
        <5> QED BY <1>1, <2>1, <5>2, BooksChange
      <4> QED BY <4>1, <4>2
    <3> QED BY <3>2, <3>3
  <2> QED BY <1>6, <2>2, <2>3 DEF Reserve
<1>7. ASSUME NEW s \in Slots, Convert(s)
      PROVE  HoldsUnits' /\ \A d \in Day : Books(d)'
  <2>1. slot[s].day \in Day /\ UNCHANGED <<used, strays, unreturned>>
    BY <1>3, <1>7 DEF Convert, HoldsUnits, Slot
  <2>2. CASE converted' = [converted EXCEPT ![slot[s].day] = @ + 1] /\ Leave(s)
    <3>1. HoldsUnits'
      BY <1>4, <2>2 DEF HoldsUnits
    <3>2. ASSUME NEW d \in Day PROVE Books(d)'
      <4>1. CASE d = slot[s].day
        <5>1. Cardinality(Held(d))' = Cardinality(Held(d)) - 1
          BY <1>1, <1>2, <1>4, <2>2, <4>1, HeldMoves
        <5>2. Due(d)' = Due(d)
          BY <2>1, <2>2, <4>1, <5>1, DueType DEF Due, TypeOK
        <5> QED BY <1>1, <2>1, <5>2, BooksChange
      <4>2. CASE d # slot[s].day
        <5>1. Held(d)' = Held(d)
          BY <1>1, <1>2, <1>4, <2>2, <4>2, HeldMoves
        <5>2. Due(d)' = Due(d)
          BY <2>1, <2>2, <4>2, <5>1 DEF Due, TypeOK
        <5> QED BY <1>1, <2>1, <5>2, BooksChange
      <4> QED BY <4>1, <4>2
    <3> QED BY <3>1, <3>2
  <2>3. CASE slot' = [slot EXCEPT ![s].step = "refund"] /\ UNCHANGED converted
    <3>1. /\ slot'[s].day = slot[s].day /\ slot'[s].step = "refund"
          /\ \A t \in Slots \ {s} : slot'[t] = slot[t]
      BY <1>3, <2>3 DEF TypeOK, Slot
    <3>2. HoldsUnits'
      BY <1>2, <2>1, <3>1 DEF HoldsUnits
    <3>3. ASSUME NEW d \in Day PROVE Books(d)'
      <4>1. Held(d)' = Held(d)
        BY <1>1, <3>1, HeldMoves
      <4>2. Due(d)' = Due(d)
        BY <2>1, <2>3, <4>1 DEF Due
      <4> QED BY <1>1, <2>1, <4>2, BooksChange
    <3> QED BY <3>2, <3>3
  <2> QED BY <1>7, <2>2, <2>3 DEF Convert
<1>8. ASSUME NEW s \in Slots, Refund(s)
      PROVE  HoldsUnits' /\ \A d \in Day : Books(d)'
  <2>1. slot[s].day \in Day /\ UNCHANGED converted
    BY <1>3, <1>8 DEF Refund, HoldsUnits, Slot
  <2>2. /\ slot'[s].day = 0 /\ slot'[s].step = "read"
        /\ \A t \in Slots \ {s} : slot'[t] = slot[t]
    BY <1>3, <1>8 DEF Refund, Read, TypeOK, Slot
  <2>3. HoldsUnits'
    BY <2>2 DEF HoldsUnits
  <2>4. ASSUME NEW d \in Day
        PROVE  /\ d = slot[s].day => Cardinality(Held(d))' = Cardinality(Held(d)) - 1
                                     /\ Cardinality(Held(d)) > 0
               /\ d # slot[s].day => Held(d)' = Held(d)
    <3>1. d = slot[s].day => Cardinality(Held(d)) > 0
      <4>1. d = slot[s].day => s \in Held(d)
        BY DEF Held
      <4> QED BY <4>1, DueType, FS_EmptySet
    <3> QED BY <1>1, <1>2, <2>2, <3>1, HeldMoves
  <2>5. ASSUME unreturned' = [unreturned EXCEPT ![slot[s].day] = @ + 1], NEW d \in Day
        PROVE  Due(d)' = Due(d)
    <3>1. /\ Cardinality(Held(d)) \in Nat /\ converted[d] \in Nat /\ unreturned[d] \in Nat
          /\ converted'[d] = converted[d]
      BY <2>1, DueType
    <3>2. CASE d = slot[s].day
      <4>1. unreturned'[d] = unreturned[d] + 1
        BY <2>5, <3>2 DEF TypeOK
      <4>2. Cardinality(Held(d))' = Cardinality(Held(d)) - 1
        BY <2>4, <3>2
      <4> QED BY <3>1, <4>1, <4>2 DEF Due
    <3>3. CASE d # slot[s].day
      <4>1. unreturned'[d] = unreturned[d]
        BY <2>5, <3>3 DEF TypeOK
      <4>2. Held(d)' = Held(d)
        BY <2>4, <3>3
      <4> QED BY <3>1, <4>1, <4>2 DEF Due
    <3> QED BY <3>2, <3>3
  <2>6. ASSUME NEW d \in Day PROVE Books(d)'
    <3>1. CASE UNCHANGED used /\ unreturned' = [unreturned EXCEPT ![slot[s].day] = @ + 1]
               /\ UNCHANGED strays
      <4>1. Due(d)' = Due(d)
        BY <2>5, <3>1
      <4> QED BY <1>1, <3>1, <4>1, BooksChange
    <3>2. CASE /\ used' = [used EXCEPT ![today] = Refunded(@)]
               /\ slot[s].day = today /\ UNCHANGED <<unreturned, strays>>
      <4>1. CASE d = today
        <5>1. Due(d) > 0 /\ Due(d)' = Due(d) - 1 /\ used'[d] = Refunded(used[d])
          BY <2>1, <2>4, <3>2, <4>1, DueType DEF Due, TypeOK
        <5> QED BY <1>1, <3>2, <5>1, BooksChange
      <4>2. CASE d # today
        <5>1. Due(d)' = Due(d) /\ used'[d] = used[d]
          BY <2>1, <2>4, <3>2, <4>2 DEF Due, TypeOK
        <5> QED BY <1>1, <3>2, <5>1, BooksChange
      <4> QED BY <4>1, <4>2
    <3>3. CASE /\ used' = [used EXCEPT ![today] = Refunded(@)]
               /\ slot[s].day # today
               /\ unreturned' = [unreturned EXCEPT ![slot[s].day] = @ + 1]
               /\ strays' = [strays EXCEPT ![today] = @ + 1]
      <4>1. Due(d)' = Due(d)
        BY <2>5, <3>3
      <4>2. CASE d = today
        <5>1. used'[d] = Refunded(used[d]) /\ strays'[d] = strays[d] + 1
          BY <3>3, <4>2 DEF TypeOK
        <5> QED BY <1>1, <4>1, <5>1, BooksChange
      <4>3. CASE d # today
        <5>1. used'[d] = used[d] /\ strays'[d] = strays[d]
          BY <3>3, <4>3 DEF TypeOK
        <5> QED BY <1>1, <4>1, <5>1, BooksChange
      <4> QED BY <4>2, <4>3
    <3> QED BY <1>8, <3>1, <3>2, <3>3 DEF Refund
  <2> QED BY <2>3, <2>6
<1>9. CASE Restart
  <2>1. \A s \in Slots : slot'[s].day = 0 /\ slot'[s].step = "idle"
    BY <1>9 DEF Restart, Free
  <2>2. ASSUME NEW d \in Day PROVE Books(d)'
    <3>1. Held(d)' = {}
      BY <1>2, <2>1 DEF Held
    <3>2. Cardinality(Held(d))' = 0
      BY <3>1, FS_EmptySet
    <3>3. unreturned'[d] = unreturned[d] + Cardinality(Held(d))
      BY <1>9 DEF Restart
    <3>4. Due(d)' = Due(d)
      BY <1>9, <3>2, <3>3, DueType DEF Due, Restart
    <3> QED BY <1>1, <1>9, <3>4, BooksChange DEF Restart
  <2> QED BY <2>1, <2>2 DEF HoldsUnits
<1>10. CASE Midnight \/ UNCHANGED vars
  BY <1>10 DEF Midnight, vars, HoldsUnits, Books, Due, Held
<1> QED BY <1>5, <1>6, <1>7, <1>8, <1>9, <1>10 DEF Next, Advance

\* The books of every day, in every state.
LEMMA BooksInvariant == Spec => [](\A d \in Day : Books(d))
<1>1. ASSUME Init PROVE HoldsUnits /\ \A d \in Day : Books(d)
  <2>1. \A s \in Slots : slot[s].day = 0 /\ slot[s].step = "idle"
    BY <1>1 DEF Init, Free
  <2>2. ASSUME NEW d \in Day PROVE Books(d)
    <3>1. Held(d) = {}
      BY <2>1 DEF Held, Day
    <3>2. Due(d) = 0 /\ used[d] = 0 /\ strays[d] = 0
      BY <1>1, <3>1, FS_EmptySet DEF Init, Due
    <3> QED BY <3>2, ExtractionAssumption DEF Books
  <2> QED BY <2>1, <2>2 DEF HoldsUnits
<1>2. TypeOK /\ HoldsUnits /\ (\A d \in Day : Books(d)) /\ [Next]_vars
        => HoldsUnits' /\ (\A d \in Day : Books(d))'
  BY NextBooks
<1> QED BY <1>1, <1>2, TypeCorrect, PTL DEF Spec

\* A day that received no other day's refund is charged for what is being
\* converted, was converted and could not be returned, and for nothing else.
THEOREM BooksAreBalanced == Spec => []BooksBalance
<1>1. (\A d \in Day : Books(d)) => BooksBalance
  BY DEF Books, Due, BooksBalance
<1> QED BY <1>1, BooksInvariant, PTL

\* The worst a stray refund does is one conversion that is not charged for.
THEOREM StraysAreBounded == Spec => []StraysBoundTheLoss
<1>1. (\A d \in Day : Books(d)) => StraysBoundTheLoss
  BY DEF Books, Due, StraysBoundTheLoss
<1> QED BY <1>1, BooksInvariant, PTL

=============================================================================
