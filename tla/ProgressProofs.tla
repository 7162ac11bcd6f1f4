---------------------------- MODULE ProgressProofs ----------------------------
(***************************************************************************)
(* Proofs about Progress, for any number of devices, any clocks and any    *)
(* number of writes: the types, that the last write wins to the second,    *)
(* and that no position is lost on its way to the server.                  *)
(*                                                                         *)
(* The second needs more than itself: what a device's table, an answer on  *)
(* its way and an entry that was sent have to do with the server's row.    *)
(***************************************************************************)
EXTENDS Progress, TLAPS

-----------------------------------------------------------------------------
(* Seconds and sequences *)

\* A later instant is in no earlier second, and the kept instant in the same.
LEMMA Seconds ==
  /\ \A x \in Nat : Second(x) \in Nat
  /\ \A x, y \in Nat : x <= y => Second(x) <= Second(y)
  /\ \A w \in Write : /\ Stored(w) \in Write
                      /\ Second(Stored(w).at) = Second(w.at)
<1>1. ASSUME NEW x \in Nat PROVE Second(x) \in Nat
  BY ProgressAssumption DEF Second
<1>2. ASSUME NEW x \in Nat, NEW y \in Nat, x <= y PROVE Second(x) <= Second(y)
  BY <1>2, ProgressAssumption DEF Second
<1>3. ASSUME NEW w \in Write PROVE Stored(w) \in Write /\ Second(Stored(w).at) = Second(w.at)
  <2>1. w.at \in Nat /\ Second(w.at) \in Nat /\ Fraction \in Nat \ {0}
    BY <1>1, ProgressAssumption DEF Write
  <2>2. Second(w.at) * Fraction \in Nat
    BY <2>1
  <2>3. Stored(w) \in Write /\ Stored(w).at = Second(w.at) * Fraction
    BY <2>2 DEF Stored, Write
  <2>4. \A n \in Nat : (n * Fraction) \div Fraction = n
    BY <2>1
  <2> QED BY <2>1, <2>3, <2>4 DEF Second
<1> QED BY <1>1, <1>2, <1>3

\* What a queue holds, after an entry is added and after its head is taken.
LEMMA Ranges ==
  ASSUME NEW S, NEW q \in Seq(S), NEW e \in S
  PROVE  /\ Range(Append(q, e)) = Range(q) \union {e}
         /\ q # <<>> => /\ Head(q) \in S /\ Head(q) \in Range(q) /\ Tail(q) \in Seq(S)
                        /\ Range(q) = Range(Tail(q)) \union {Head(q)}
                        /\ Head(Append(q, e)) = Head(q)
         /\ Append(q, e) # <<>>
         /\ Range(q) \subseteq S
<1>1. /\ Append(q, e) \in Seq(S) /\ Len(Append(q, e)) = Len(q) + 1
      /\ \A i \in 1 .. Len(q) : Append(q, e)[i] = q[i]
      /\ Append(q, e)[Len(q) + 1] = e
      /\ DOMAIN q = 1 .. Len(q) /\ Len(q) \in Nat
      /\ DOMAIN Append(q, e) = 1 .. Len(q) + 1
  OBVIOUS
<1>2. Range(Append(q, e)) = Range(q) \union {e}
  <2>1. \A i \in 1 .. Len(q) + 1 : i \in 1 .. Len(q) \/ i = Len(q) + 1
    BY <1>1
  <2>2. \A i \in 1 .. Len(q) : i \in 1 .. Len(q) + 1
    BY <1>1
  <2>3. Len(q) + 1 \in 1 .. Len(q) + 1
    BY <1>1
  <2> QED BY <1>1, <2>1, <2>2, <2>3 DEF Range
<1>3. ASSUME q # <<>>
      PROVE  /\ Head(q) \in S /\ Head(q) \in Range(q) /\ Tail(q) \in Seq(S)
             /\ Range(q) = Range(Tail(q)) \union {Head(q)}
             /\ Head(Append(q, e)) = Head(q)
  <2>1. /\ Len(q) > 0 /\ Head(q) = q[1] /\ 1 \in DOMAIN q /\ Tail(q) \in Seq(S)
        /\ DOMAIN Tail(q) = 1 .. Len(q) - 1
        /\ \A i \in 1 .. Len(q) - 1 : Tail(q)[i] = q[i + 1]
    BY <1>1, <1>3
  <2>2. \A i \in 1 .. Len(q) : i = 1 \/ (i - 1 \in 1 .. Len(q) - 1 /\ (i - 1) + 1 = i)
    BY <1>1, <2>1
  <2>3. \A i \in 1 .. Len(q) - 1 : i + 1 \in 1 .. Len(q)
    BY <1>1, <2>1
  <2>4. Range(q) \subseteq Range(Tail(q)) \union {Head(q)}
    <3> SUFFICES ASSUME NEW i \in 1 .. Len(q) PROVE q[i] \in Range(Tail(q)) \union {Head(q)}
      BY <1>1 DEF Range
    <3>1. CASE i = 1
      BY <2>1, <3>1
    <3>2. CASE i # 1
      <4>1. i - 1 \in DOMAIN Tail(q) /\ Tail(q)[i - 1] = q[i]
        BY <2>1, <2>2, <3>2
      <4> QED BY <4>1 DEF Range
    <3> QED BY <3>1, <3>2
  <2>5. Range(Tail(q)) \union {Head(q)} \subseteq Range(q)
    BY <1>1, <2>1, <2>3 DEF Range
  <2>6. Head(Append(q, e)) = Head(q)
    BY <1>1, <2>1
  <2> QED BY <1>1, <2>1, <2>4, <2>5, <2>6 DEF Range
<1>4. Append(q, e) # <<>>
  BY <1>1
<1>5. Range(q) \subseteq S
  BY <1>1 DEF Range
<1> QED BY <1>2, <1>3, <1>4, <1>5

-----------------------------------------------------------------------------
(* Types *)

\* Every step keeps the types.
LEMMA NextType ==
  ASSUME TypeOK, \A d \in Devices : sent[d] => outbox[d] # <<>>, [Next]_vars
  PROVE  TypeOK' /\ \A d \in Devices : sent'[d] => outbox'[d] # <<>>
<1> USE DEF client, history
<1>1. None \in Row /\ Write \subseteq Row /\ NoReply \in [row : Row, full : BOOLEAN]
  BY DEF Row, NoReply
<1>2. ASSUME NEW d \in Devices
      PROVE  /\ local[d] \in Row /\ outbox[d] \in Seq(Write) /\ written[d] \in Seq(Write)
             /\ reply[d].row \in Row /\ torn[d] \subseteq Write
             /\ editing[d] # NoEdit => /\ editing[d].write \in Write
                                       /\ editing[d] \in [step : {"put", "skip", "queue"},
                                                          write : Write]
  BY DEF TypeOK
<1>3. ASSUME NEW d \in Devices, Begin(d)
      PROVE  TypeOK' /\ \A e \in Devices : sent'[e] => outbox'[e] # <<>>
  <2> DEFINE w == [by |-> d, number |-> Len(written[d]) + 1, at |-> Fraction + now + Skew[d]]
  <2>1. Len(written[d]) \in Nat /\ Fraction + now + Skew[d] \in Nat
    BY <1>2, ProgressAssumption DEF TypeOK
  <2>2. w \in Write
    BY <2>1 DEF Write
  <2>3. /\ editing' = [editing EXCEPT ![d] =
              [step |-> IF isNewer(local[d], w) THEN "skip" ELSE "put", write |-> w]]
        /\ written' = [written EXCEPT ![d] = Append(@, w)]
    BY <1>3 DEF Begin
  <2> HIDE DEF w
  <2>4. Append(written[d], w) \in Seq(Write)
    BY <1>2, <2>2
  <2>5. /\ written' \in [Devices -> Seq(Write)]
        /\ editing' \in [Devices -> {NoEdit} \union
                                [step : {"put", "skip", "queue"}, write : Write]]
    BY <2>2, <2>3, <2>4 DEF TypeOK
  <2> QED BY <1>3, <2>5 DEF Begin, TypeOK
<1>4. ASSUME NEW d \in Devices, Put(d)
      PROVE  TypeOK' /\ \A e \in Devices : sent'[e] => outbox'[e] # <<>>
  <2>1. local' \in [Devices -> Row]
    BY <1>1, <1>2, <1>4 DEF Put, TypeOK
  <2>2. [editing[d] EXCEPT !.step = "queue"] \in
          [step : {"put", "skip", "queue"}, write : Write]
    BY <1>2, <1>4 DEF Put
  <2>3. editing' \in [Devices -> {NoEdit} \union
                                [step : {"put", "skip", "queue"}, write : Write]]
    BY <1>4, <2>2 DEF Put, TypeOK
  <2> QED BY <1>4, <2>1, <2>3 DEF Put, TypeOK
<1>5. ASSUME NEW d \in Devices, Queue(d)
      PROVE  TypeOK' /\ \A e \in Devices : sent'[e] => outbox'[e] # <<>>
  <2>1. /\ Append(outbox[d], editing[d].write) \in Seq(Write)
        /\ Append(outbox[d], editing[d].write) # <<>>
    BY <1>2, <1>5, Ranges DEF Queue
  <2>2. outbox' = [outbox EXCEPT ![d] = Append(@, editing[d].write)]
    BY <1>5 DEF Queue
  <2>3. outbox' \in [Devices -> Seq(Write)] /\ \A e \in Devices : outbox[e] # <<>> => outbox'[e] # <<>>
    BY <2>1, <2>2 DEF TypeOK
  <2>4. editing' \in [Devices -> {NoEdit} \union
                                [step : {"put", "skip", "queue"}, write : Write]]
    BY <1>5 DEF Queue, TypeOK
  <2> QED BY <1>5, <2>3, <2>4 DEF Queue, TypeOK
<1>6. ASSUME NEW d \in Devices, Skip(d) \/ Confirm(d)
      PROVE  TypeOK' /\ \A e \in Devices : sent'[e] => outbox'[e] # <<>>
  <2>1. outbox[d] # <<>> /\ outbox' = [outbox EXCEPT ![d] = Tail(@)]
    BY <1>6 DEF Skip, Confirm, Drop
  <2>2. Tail(outbox[d]) \in Seq(Write)
    BY <1>2, <2>1
  <2>3. outbox' \in [Devices -> Seq(Write)] /\ \A e \in Devices \ {d} : outbox'[e] = outbox[e]
    BY <2>1, <2>2 DEF TypeOK
  <2>4. sent' \in [Devices -> BOOLEAN] /\ ~sent'[d]
        /\ \A e \in Devices \ {d} : sent'[e] = sent[e]
    BY <1>6 DEF Skip, Confirm, TypeOK
  <2> QED BY <1>6, <2>3, <2>4 DEF Skip, Confirm, TypeOK
<1>7. ASSUME NEW d \in Devices, Dispatch(d)
      PROVE  TypeOK' /\ \A e \in Devices : sent'[e] => outbox'[e] # <<>>
  <2>1. Head(outbox[d]) \in Write
    BY <1>2, <1>7 DEF Dispatch
  <2>2. server' \in Row /\ handled' \subseteq Write
    BY <1>1, <1>7, <2>1, Seconds DEF Dispatch, UpsertProgress, TypeOK
  <2> QED BY <1>7, <2>2 DEF Dispatch, TypeOK
<1>8. ASSUME NEW d \in Devices, Lose(d) \/ ListProgress(d) \/ Merge(d) \/ Reload(d)
      PROVE  TypeOK' /\ \A e \in Devices : sent'[e] => outbox'[e] # <<>>
  <2>1. sent' \in [Devices -> BOOLEAN] /\ \A e \in Devices : sent'[e] => sent[e]
    BY <1>8 DEF Lose, ListProgress, Merge, Reload, TypeOK
  <2>2. local' \in [Devices -> Row]
    BY <1>2, <1>8 DEF Lose, ListProgress, Merge, Merged, Reload, TypeOK
  <2>3. reply' \in [Devices -> [row : Row, full : BOOLEAN]]
    <3>1. CASE ListProgress(d)
      <4>1. [row |-> server, full |-> TRUE] \in [row : Row, full : BOOLEAN]
        BY DEF TypeOK
      <4> QED BY <3>1, <4>1 DEF ListProgress, TypeOK
    <3>2. CASE ~ListProgress(d)
      BY <1>1, <1>8, <3>2 DEF Lose, Merge, Reload, TypeOK
    <3> QED BY <3>1, <3>2
  <2>4. torn' \in [Devices -> SUBSET Write]
    <3>1. CASE Reload(d) /\ editing[d] # NoEdit
      <4>1. torn' = [torn EXCEPT ![d] = @ \union {editing[d].write}]
        BY <3>1 DEF Reload
      <4>2. torn[d] \union {editing[d].write} \in SUBSET Write
        BY <1>2, <3>1
      <4> QED BY <4>1, <4>2 DEF TypeOK
    <3>2. CASE ~(Reload(d) /\ editing[d] # NoEdit)
      <4>1. torn' = torn
        BY <1>8, <3>2 DEF Lose, ListProgress, Merge, Reload
      <4> QED BY <4>1 DEF TypeOK
    <3> QED BY <3>1, <3>2
  <2>5. editing' \in [Devices -> {NoEdit} \union
                                [step : {"put", "skip", "queue"}, write : Write]]
    BY <1>8 DEF Lose, ListProgress, Merge, Reload, TypeOK
  <2>6. reloads' \in 0 .. MaxReloads
    BY <1>8, ProgressAssumption DEF Lose, ListProgress, Merge, Reload, TypeOK
  <2> QED BY <1>8, <2>1, <2>2, <2>3, <2>4, <2>5, <2>6
          DEF Lose, ListProgress, Merge, Reload, TypeOK
<1>9. CASE Tick
  <2>1. now' \in 0 .. MaxTime
    BY <1>9, ProgressAssumption DEF Tick, TypeOK
  <2> QED BY <1>9, <2>1 DEF Tick, TypeOK
<1>10. CASE Delete \/ UNCHANGED vars
  BY <1>1, <1>10 DEF Delete, vars, TypeOK
<1> QED BY <1>3, <1>4, <1>5, <1>6, <1>7, <1>8, <1>9, <1>10 DEF Next, Enqueue, Flush, Pull

\* The states have their types, in every state the program reaches.
THEOREM TypeCorrect == Spec => []TypeOK
<1> DEFINE Sent == \A d \in Devices : sent[d] => outbox[d] # <<>>
<1>1. Init => TypeOK /\ Sent
  BY ProgressAssumption DEF Init, TypeOK, Row, NoReply
<1>2. TypeOK /\ Sent /\ [Next]_vars => TypeOK' /\ Sent'
  BY NextType
<1> QED BY <1>1, <1>2, PTL DEF Spec

-----------------------------------------------------------------------------
(* The last write wins *)

\* Writes that were handled are in no later second than the row.
LEMMA NextLastSecond ==
  ASSUME TypeOK, LastSecondWins, [Next]_vars,
         \A d \in Devices : sent[d] => outbox[d] # <<>>
  PROVE  /\ LastSecondWins'
         /\ alive' => alive /\ Second(server.at) <= Second(server'.at)
<1> USE DEF client, history
<1>1. server \in Row /\ server.at \in Nat /\ Second(server.at) \in Nat
  <2>1. server \in Row
    BY DEF TypeOK
  <2>2. server.at \in Nat
    BY <2>1 DEF Row, Write, None
  <2> QED BY <2>1, <2>2, Seconds
<1>2. ASSUME NEW d \in Devices, Dispatch(d)
      PROVE  /\ LastSecondWins'
             /\ alive' => alive /\ Second(server.at) <= Second(server'.at)
  <2> DEFINE w == Head(outbox[d])
  <2>1. w \in Write
    BY <1>2, Ranges DEF Dispatch, TypeOK
  <2>2. /\ server' = IF isNewer(w, server) THEN Stored(w) ELSE server
        /\ handled' = handled \union {w} /\ alive' = alive /\ alive
    BY <1>2 DEF Dispatch, UpsertProgress
  <2> HIDE DEF w
  <2>3. /\ w.at \in Nat /\ Second(w.at) \in Nat /\ Second(Stored(w).at) = Second(w.at)
    BY <2>1, Seconds DEF Write
  <2>4. Second(server.at) <= Second(server'.at) /\ Second(w.at) <= Second(server'.at)
    <3>1. CASE isNewer(w, server)
      <4>1. server' = Stored(w) /\ server.at <= w.at
        BY <1>1, <2>2, <2>3, <3>1 DEF isNewer
      <4>2. Second(server'.at) = Second(w.at)
        BY <2>3, <4>1
      <4>3. Second(server.at) <= Second(w.at)
        BY <1>1, <2>3, <4>1, Seconds
      <4> QED BY <2>3, <4>2, <4>3
    <3>2. CASE ~isNewer(w, server)
      <4>1. server' = server /\ w.at <= server.at
        BY <1>1, <2>2, <2>3, <3>2 DEF isNewer
      <4>2. Second(w.at) <= Second(server.at)
        BY <1>1, <2>3, <4>1, Seconds
      <4> QED BY <1>1, <4>1, <4>2
    <3> QED BY <3>1, <3>2
  <2>5. ASSUME NEW v \in handled PROVE Second(v.at) <= Second(server'.at)
    <3>1. v \in Write /\ v.at \in Nat /\ Second(v.at) \in Nat /\ Second(v.at) <= Second(server.at)
      BY <2>2, Seconds DEF LastSecondWins, TypeOK, Write
    <3>2. Second(server'.at) \in Nat
      BY <1>1, <2>2, <2>3
    <3> QED BY <1>1, <2>4, <3>1, <3>2
  <2> QED BY <2>2, <2>4, <2>5 DEF LastSecondWins
<1>3. CASE Delete
  BY <1>3 DEF Delete, LastSecondWins
<1>4. CASE UNCHANGED <<alive, server, handled>>
  BY <1>1, <1>4 DEF LastSecondWins
<1> QED BY <1>2, <1>3, <1>4 DEF Next, Begin, Enqueue, Put, Queue, Flush, Skip, Confirm, Lose,
           Pull, ListProgress, Merge, Reload, Tick, vars

\* Whatever answers are lost and whichever device asks again, the row is of the
\* last second the server was asked for.
THEOREM LastWriteWins == Spec => []LastSecondWins
<1> DEFINE Sent == \A d \in Devices : sent[d] => outbox[d] # <<>>
<1>1. Init => LastSecondWins /\ Sent
  BY DEF Init, LastSecondWins
<1>2. TypeOK /\ Sent /\ LastSecondWins /\ [Next]_vars => Sent' /\ LastSecondWins'
  BY NextType, NextLastSecond
<1> QED BY <1>1, <1>2, TypeCorrect, PTL DEF Spec

-----------------------------------------------------------------------------
(* No position is lost *)

\* An instant a device knows of is the server's too, or is on its way there.
Carried(d, at) ==
  \/ Second(at) <= Second(server.at)
  \/ \E v \in Pending(d) \union torn[d] : v.at >= at

\* What makes it safe to skip an entry that the device's own table supersedes:
\* the table, the answers and the entries sent hold nothing that is not carried.
AllCarried ==
  alive => \A d \in Devices :
    /\ \A w \in Range(written[d]) : Carried(d, w.at)
    /\ Carried(d, local[d].at)
    /\ Second(reply[d].row.at) <= Second(server.at)
    /\ sent[d] => Second(Head(outbox[d]).at) <= Second(server.at)

\* What is compared are instants.
Instants ==
  \A d \in Devices :
    /\ \A v \in Pending(d) \union torn[d] : v.at \in Nat
    /\ local[d].at \in Nat /\ reply[d].row.at \in Nat /\ server.at \in Nat
    /\ \A w \in Range(written[d]) : w.at \in Nat

LEMMA InstantsType == TypeOK => Instants
<1> SUFFICES ASSUME TypeOK, NEW d \in Devices
             PROVE  /\ \A v \in Pending(d) \union torn[d] : v.at \in Nat
                    /\ local[d].at \in Nat /\ reply[d].row.at \in Nat /\ server.at \in Nat
                    /\ \A w \in Range(written[d]) : w.at \in Nat
  BY DEF Instants
<1>1. Range(outbox[d]) \subseteq Write /\ Range(written[d]) \subseteq Write
  <2>1. outbox[d] \in Seq(Write) /\ written[d] \in Seq(Write)
    BY DEF TypeOK
  <2>2. \A q \in Seq(Write) : Range(q) \subseteq Write
    BY DEF Range
  <2> QED BY <2>1, <2>2
<1>2. editing[d] # NoEdit => editing[d].write \in Write
  BY DEF TypeOK
<1>3. \A v \in Pending(d) \union torn[d] : v \in Write
  BY <1>1, <1>2 DEF Pending, TypeOK
<1>4. \A r \in Row : r.at \in Nat
  BY DEF Row, Write, None
<1> QED BY <1>1, <1>3, <1>4 DEF TypeOK, Write

\* So they are after a step.
LEMMA NextInstants == TypeOK' => Instants'
BY InstantsType, PTL

\* An instant stays carried while nothing that carries it goes, but for an entry
\* that the server has, or that something later is still waiting for.
LEMMA CarriedStays ==
  ASSUME TypeOK, TypeOK', NEW d \in Devices, NEW at \in Nat, Carried(d, at),
         Second(server.at) <= Second(server'.at),
         \A v \in Pending(d) \union torn[d] :
           \/ v \in Pending(d)' \union torn'[d]
           \/ Carried(d, v.at)'
  PROVE  Carried(d, at)'
<1>1. /\ server.at \in Nat /\ server'.at \in Nat
      /\ \A v \in Pending(d) \union torn[d] : v.at \in Nat
      /\ \A v \in Pending(d)' \union torn'[d] : v.at \in Nat
  BY InstantsType, NextInstants DEF Instants
<1>2. Second(at) \in Nat /\ Second(server.at) \in Nat /\ Second(server'.at) \in Nat
  BY <1>1, Seconds
<1>3. CASE Second(at) <= Second(server.at)
  BY <1>2, <1>3 DEF Carried
<1>4. CASE \E v \in Pending(d) \union torn[d] : v.at >= at
  <2>1. PICK v \in Pending(d) \union torn[d] : v.at >= at
    BY <1>4
  <2>2. v.at \in Nat /\ Second(at) <= Second(v.at) /\ Second(v.at) \in Nat
    BY <1>1, <2>1, Seconds
  <2>3. CASE v \in Pending(d)' \union torn'[d]
    BY <2>1, <2>3 DEF Carried
  <2>4. CASE Second(v.at) <= Second(server'.at)
    BY <1>2, <2>2, <2>4 DEF Carried
  <2>5. CASE \E u \in Pending(d)' \union torn'[d] : u.at >= v.at
    BY <1>1, <2>1, <2>2, <2>5 DEF Carried
  <2> QED BY <2>3, <2>4, <2>5 DEF Carried
<1> QED BY <1>3, <1>4 DEF Carried

\* What a step does to the carriers of a device: they stay, unless the server
\* has what they carry or something that carries more stays.
LEMMA CarriersStay ==
  ASSUME TypeOK, TypeOK', AllCarried, LastSecondWins', alive, alive',
         Second(server.at) <= Second(server'.at),
         \A e \in Devices : sent[e] => outbox[e] # <<>>,
         [Next]_vars, NEW d \in Devices, NEW v \in Pending(d) \union torn[d]
  PROVE  v \in Pending(d)' \union torn'[d] \/ Carried(d, v.at)'
<1> USE DEF client, history
<1>1. v.at \in Nat /\ server.at \in Nat /\ server'.at \in Nat /\ local[d].at \in Nat
      /\ outbox[d] \in Seq(Write)
      /\ \A u \in Pending(d) \union torn[d] : u.at \in Nat
  BY InstantsType, NextInstants DEF Instants, TypeOK
<1>2. /\ Second(v.at) \in Nat /\ Second(server.at) \in Nat /\ Second(server'.at) \in Nat
      /\ Second(local[d].at) \in Nat
  BY <1>1, Seconds
<1>3. CASE UNCHANGED <<outbox[d], editing[d], torn[d]>>
  BY <1>3 DEF Pending
<1>4. CASE Begin(d)
  <2>1. Pending(d) \subseteq Pending(d)' /\ torn' = torn
    BY <1>4 DEF Begin, Pending, TypeOK
  <2> QED BY <2>1
<1>5. CASE Put(d)
  <2>1. editing'[d].write = editing[d].write /\ editing[d] # NoEdit /\ editing'[d] # NoEdit
        /\ UNCHANGED <<outbox, torn>>
    BY <1>5 DEF Put, TypeOK, NoEdit
  <2> QED BY <2>1 DEF Pending
<1>6. CASE Queue(d)
  <2>1. /\ editing[d] # NoEdit /\ editing[d].write \in Write
        /\ outbox'[d] = Append(outbox[d], editing[d].write) /\ UNCHANGED torn
    BY <1>6 DEF Queue, TypeOK
  <2>2. Range(outbox'[d]) = Range(outbox[d]) \union {editing[d].write}
    BY <1>1, <2>1, Ranges
  <2> QED BY <2>1, <2>2 DEF Pending
<1>7. CASE Skip(d) \/ Confirm(d)
  <2> DEFINE h == Head(outbox[d])
  <2>1. outbox[d] # <<>> /\ outbox'[d] = Tail(outbox[d]) /\ UNCHANGED <<editing, torn, server, local>>
    BY <1>7 DEF Skip, Confirm, Drop, TypeOK
  <2>2. \E e : e \in Write
    BY <1>1, <2>1
  <2>3. h \in Write /\ Range(outbox[d]) = Range(outbox'[d]) \union {h} /\ h \in Range(outbox[d])
    BY <1>1, <2>1, <2>2, Ranges
  <2>4. \A u \in Pending(d) \union torn[d] : u = h \/ u \in Pending(d)' \union torn'[d]
    BY <2>1, <2>3 DEF Pending
  <2> HIDE DEF h
  <2>5. CASE v # h
    BY <2>4, <2>5
  <2>6. CASE v = h /\ Confirm(d)
    <3>1. Second(h.at) <= Second(server.at)
      BY <2>6 DEF Confirm, AllCarried, h
    <3> QED BY <2>1, <2>6, <3>1 DEF Carried
  <2>7. CASE v = h /\ Skip(d)
    <3>1. local[d].at > h.at
      BY <2>7 DEF Skip, Superseded, isNewer, h
    <3>2. Carried(d, local[d].at)
      BY DEF AllCarried
    <3>3. Second(v.at) <= Second(local[d].at)
      <4>1. v.at <= local[d].at
        BY <1>1, <2>7, <3>1
      <4> QED BY <1>1, <4>1, Seconds
    <3>4. CASE Second(local[d].at) <= Second(server.at)
      <4>1. Second(v.at) <= Second(server'.at)
        BY <1>2, <2>1, <3>3, <3>4
      <4> QED BY <4>1 DEF Carried
    <3>5. CASE \E u \in Pending(d) \union torn[d] : u.at >= local[d].at
      <4>1. PICK u \in Pending(d) \union torn[d] : u.at >= local[d].at
        BY <3>5
      <4>2. u.at \in Nat /\ u.at >= v.at /\ u # h
        BY <1>1, <2>7, <3>1, <4>1
      <4>3. u \in Pending(d)' \union torn'[d]
        BY <2>4, <4>2
      <4> QED BY <4>2, <4>3 DEF Carried
    <3> QED BY <3>2, <3>4, <3>5 DEF Carried
  <2> QED BY <1>7, <2>5, <2>6, <2>7
<1>8. CASE Reload(d)
  <2>1. /\ editing[d] # NoEdit => torn'[d] = torn[d] \union {editing[d].write}
        /\ editing[d] = NoEdit => torn' = torn
        /\ outbox' = outbox
    BY <1>8 DEF Reload, TypeOK
  <2> QED BY <2>1 DEF Pending
<1>9. ASSUME NEW e \in Devices, e # d,
             Begin(e) \/ Enqueue(e) \/ Flush(e) \/ Pull(e) \/ Reload(e)
      PROVE  UNCHANGED <<outbox[d], editing[d], torn[d]>>
  <2>1. CASE Begin(e)
    BY <1>9, <2>1 DEF Begin, TypeOK
  <2>2. CASE Enqueue(e)
    BY <1>9, <2>2 DEF Enqueue, Put, Queue, TypeOK
  <2>3. CASE Flush(e)
    BY <1>9, <2>3 DEF Flush, Skip, Drop, Dispatch, Confirm, Lose, TypeOK
  <2>4. CASE Pull(e)
    BY <1>9, <2>4 DEF Pull, ListProgress, Merge, TypeOK
  <2>5. CASE Reload(e)
    BY <1>9, <2>5 DEF Reload, TypeOK
  <2> QED BY <1>9, <2>1, <2>2, <2>3, <2>4, <2>5
<1>10. CASE Dispatch(d) \/ Lose(d) \/ Pull(d) \/ Tick \/ Delete \/ UNCHANGED vars
  <2>1. UNCHANGED <<outbox, editing, torn>>
    <3>1. CASE Dispatch(d) \/ Lose(d)
      BY <3>1 DEF Dispatch, Lose
    <3>2. CASE ListProgress(d)
      BY <3>2 DEF ListProgress
    <3>3. CASE Merge(d)
      BY <3>3 DEF Merge
    <3>4. CASE Tick \/ Delete \/ UNCHANGED vars
      BY <3>4 DEF Tick, Delete, vars
    <3> QED BY <1>10, <3>1, <3>2, <3>3, <3>4 DEF Pull
  <2>2. UNCHANGED <<outbox[d], editing[d], torn[d]>>
    BY <2>1
  <2> QED BY <1>3, <2>2
<1> QED BY <1>3, <1>4, <1>5, <1>6, <1>7, <1>8, <1>9, <1>10 DEF Next, Enqueue, Flush

\* Every step keeps everything carried.
LEMMA NextCarried ==
  ASSUME TypeOK, LastSecondWins, AllCarried, [Next]_vars,
         \A d \in Devices : sent[d] => outbox[d] # <<>>
  PROVE  AllCarried'
<1> USE DEF client, history
<1>1. /\ TypeOK' /\ LastSecondWins' /\ (alive' => alive)
      /\ alive' => Second(server.at) <= Second(server'.at)
  BY NextType, NextLastSecond
<1> SUFFICES ASSUME alive', NEW d \in Devices
             PROVE  (/\ \A w \in Range(written[d]) : Carried(d, w.at)
                     /\ Carried(d, local[d].at)
                     /\ Second(reply[d].row.at) <= Second(server.at)
                     /\ sent[d] => Second(Head(outbox[d]).at) <= Second(server.at))'
  BY DEF AllCarried
<1>2. alive /\ Second(server.at) <= Second(server'.at)
  BY <1>1
<1>3. /\ server.at \in Nat /\ server'.at \in Nat /\ local[d].at \in Nat /\ reply[d].row.at \in Nat
      /\ \A w \in Range(written[d]) : w.at \in Nat
  BY <1>1, InstantsType, NextInstants DEF Instants
<1>4. ASSUME NEW at \in Nat, Carried(d, at) PROVE Carried(d, at)'
  <2>1. \A v \in Pending(d) \union torn[d] :
          v \in Pending(d)' \union torn'[d] \/ Carried(d, v.at)'
    BY <1>1, <1>2, CarriersStay
  <2> QED BY <1>1, <1>2, <1>4, <2>1, CarriedStays
<1>5. ASSUME NEW w \in Range(written'[d]) PROVE Carried(d, w.at)'
  <2>1. CASE w \in Range(written[d])
    BY <1>2, <1>3, <1>4, <2>1 DEF AllCarried
  <2>2. CASE w \notin Range(written[d])
    <3>1. Begin(d)
      BY <1>5, <2>2 DEF Next, Begin, Enqueue, Put, Queue, Flush, Skip, Dispatch, Confirm, Lose,
         Pull, ListProgress, Merge, Reload, Tick, Delete, vars, TypeOK
    <3> DEFINE new == [by |-> d, number |-> Len(written[d]) + 1,
                       at |-> Fraction + now + Skew[d]]
    <3>2. written'[d] = Append(written[d], new) /\ editing'[d] # NoEdit /\ editing'[d].write = new
      BY <3>1 DEF Begin, TypeOK, NoEdit
    <3>3. new \in Write
      <4>1. Len(written[d]) \in Nat /\ Fraction + now + Skew[d] \in Nat
        BY ProgressAssumption DEF TypeOK
      <4> QED BY <4>1 DEF Write
    <3> HIDE DEF new
    <3>4. w = new
      <4>1. written[d] \in Seq(Write)
        BY DEF TypeOK
      <4>2. Range(written'[d]) = Range(written[d]) \union {new}
        BY <3>2, <3>3, <4>1, Ranges
      <4> QED BY <1>5, <2>2, <4>2
    <3>5. w \in Pending(d)' /\ w.at \in Nat
      BY <3>2, <3>3, <3>4 DEF Pending, Write
    <3>6. w.at >= w.at
      BY <3>5
    <3> QED BY <3>5, <3>6 DEF Carried
  <2> QED BY <2>1, <2>2
<1>6. Carried(d, local[d].at)'
  <2>1. CASE local'[d] = local[d]
    BY <1>2, <1>3, <1>4, <2>1 DEF AllCarried
  <2>2. CASE Put(d) /\ local'[d] = editing[d].write
    <3>1. editing[d] # NoEdit /\ editing'[d] # NoEdit /\ editing'[d].write = editing[d].write
          /\ editing[d].write.at \in Nat
      BY <2>2 DEF Put, TypeOK, NoEdit, Write
    <3>2. local'[d] \in Pending(d)' /\ local'[d].at >= local'[d].at
      BY <2>2, <3>1 DEF Pending
    <3> QED BY <3>2 DEF Carried
  <2>3. CASE Merge(d) /\ local'[d] = reply[d].row
    BY <1>2, <2>3 DEF AllCarried, Merge, Carried
  <2>4. local'[d] # local[d] =>
          \/ Put(d) /\ local'[d] = editing[d].write
          \/ Merge(d) /\ local'[d] = reply[d].row
    <3>1. ASSUME NEW e \in Devices, Put(e), local'[d] # local[d]
          PROVE  Put(d) /\ local'[d] = editing[d].write
      BY <3>1 DEF Put, TypeOK
    <3>2. ASSUME NEW e \in Devices, Merge(e), local'[d] # local[d]
          PROVE  Merge(d) /\ local'[d] = reply[d].row
      BY <3>2 DEF Merge, Merged, TypeOK
    <3> QED BY <3>1, <3>2 DEF Next, Begin, Enqueue, Queue, Flush, Skip, Dispatch, Confirm, Lose,
         Pull, ListProgress, Reload, Tick, Delete, vars
  <2> QED BY <2>1, <2>2, <2>3, <2>4
<1>7. Second(reply'[d].row.at) <= Second(server'.at)
  <2>1. /\ Second(reply[d].row.at) \in Nat /\ Second(server.at) \in Nat
        /\ Second(server'.at) \in Nat /\ Second(0) \in Nat
        /\ Second(reply[d].row.at) <= Second(server.at) /\ Second(0) <= Second(server'.at)
    <3>1. 0 \in Nat /\ 0 <= server'.at
      BY <1>3
    <3>2. Second(0) <= Second(server'.at)
      BY <1>3, <3>1, Seconds
    <3> QED BY <1>2, <1>3, <3>1, <3>2, Seconds DEF AllCarried
  <2>2. \/ reply'[d] = reply[d] \/ reply'[d] = NoReply
        \/ reply'[d].row = server
    <3>1. ASSUME NEW e \in Devices, ListProgress(e) \/ Merge(e) \/ Reload(e)
          PROVE  reply'[d] = reply[d] \/ reply'[d] = NoReply \/ reply'[d].row = server
      <4>1. CASE ListProgress(e)
        <5>1. reply \in [Devices -> [row : Row, full : BOOLEAN]]
              /\ reply' = [reply EXCEPT ![e] = [row |-> server, full |-> TRUE]]
          BY <4>1 DEF ListProgress, TypeOK
        <5>2. CASE e = d
          <6>1. reply'[d] = [row |-> server, full |-> TRUE]
            BY <5>1, <5>2
          <6> QED BY <6>1
        <5>3. CASE e # d
          BY <5>1, <5>3
        <5> QED BY <5>2, <5>3
      <4>2. CASE Merge(e) \/ Reload(e)
        <5>1. reply \in [Devices -> [row : Row, full : BOOLEAN]]
              /\ reply' = [reply EXCEPT ![e] = NoReply]
          BY <4>2 DEF Merge, Reload, TypeOK
        <5> QED BY <5>1
      <4> QED BY <3>1, <4>1, <4>2
    <3> QED BY <3>1 DEF Next, Begin, Enqueue, Put, Queue, Flush, Skip, Dispatch, Confirm, Lose,
         Pull, Tick, Delete, vars
  <2>3. NoReply.row.at = 0
    BY DEF NoReply, None
  <2> QED BY <1>2, <2>1, <2>2, <2>3
<1>8. ASSUME sent'[d] PROVE Second(Head(outbox'[d]).at) <= Second(server'.at)
  <2>1. CASE Dispatch(d)
    <3>1. Head(outbox[d]) \in handled' /\ outbox' = outbox
      BY <2>1 DEF Dispatch
    <3> QED BY <1>1, <3>1 DEF LastSecondWins
  <2>2. CASE ~Dispatch(d)
    <3>1. sent[d]
      <4>1. ASSUME NEW e \in Devices, Dispatch(e), e # d PROVE sent'[d] = sent[d]
        BY <4>1 DEF Dispatch, TypeOK
      <4> QED BY <1>8, <2>2, <4>1 DEF Next, Begin, Enqueue, Put, Queue, Flush, Skip, Confirm, Lose,
             Pull, ListProgress, Merge, Reload, Tick, Delete, vars, TypeOK
    <3>2. outbox[d] # <<>> /\ Second(Head(outbox[d]).at) <= Second(server.at)
          /\ outbox[d] \in Seq(Write)
      BY <1>2, <3>1 DEF AllCarried, TypeOK
    <3>3. Head(outbox'[d]) = Head(outbox[d])
      <4>1. CASE outbox'[d] = outbox[d]
        BY <4>1
      <4>2. CASE Queue(d)
        <5>1. /\ editing[d].write \in Write
              /\ outbox'[d] = Append(outbox[d], editing[d].write)
          BY <4>2 DEF Queue, TypeOK
        <5> QED BY <3>2, <5>1, Ranges
      <4>3. CASE Skip(d) \/ Confirm(d)
        BY <1>8, <3>1, <4>3 DEF Skip, Confirm, TypeOK
      <4>4. ASSUME NEW e \in Devices, e # d, Queue(e) \/ Skip(e) \/ Confirm(e)
            PROVE  outbox'[d] = outbox[d]
        BY <4>4 DEF Queue, Skip, Confirm, Drop, TypeOK
      <4> QED BY <4>1, <4>2, <4>3, <4>4 DEF Next, Begin, Enqueue, Put, Flush, Dispatch, Lose, Pull,
             ListProgress, Merge, Reload, Tick, Delete, vars
    <3>4. Head(outbox[d]) \in Write
      BY <3>2, Ranges
    <3>5. Second(Head(outbox[d]).at) \in Nat /\ Second(server.at) \in Nat /\ Second(server'.at) \in Nat
      BY <1>3, <3>4, Seconds DEF Write
    <3> QED BY <1>2, <3>2, <3>3, <3>5
  <2> QED BY <2>1, <2>2
<1> QED BY <1>5, <1>6, <1>7, <1>8

\* A position is not lost on its way, for any number of devices and whatever
\* their clocks say.
THEOREM ProgressKept == Spec => []NoProgressLost
<1> DEFINE Sent == \A d \in Devices : sent[d] => outbox[d] # <<>>
<1>1. ASSUME Init PROVE LastSecondWins /\ AllCarried /\ Sent
  <2>1. LastSecondWins /\ Sent
    BY <1>1 DEF Init, LastSecondWins
  <2>2. ASSUME NEW d \in Devices
        PROVE  /\ Range(written[d]) = {} /\ ~sent[d]
               /\ local[d].at = 0 /\ reply[d].row.at = 0 /\ server.at = 0
    BY <1>1 DEF Init, Range, None, NoReply
  <2>3. Second(0) <= Second(0)
    BY Seconds
  <2> QED BY <2>1, <2>2, <2>3 DEF AllCarried, Carried
<1>2. TypeOK /\ Sent /\ LastSecondWins /\ AllCarried /\ [Next]_vars
        => Sent' /\ LastSecondWins' /\ AllCarried'
  BY NextType, NextLastSecond, NextCarried
<1>3. AllCarried => NoProgressLost
  BY DEF AllCarried, Carried, NoProgressLost
<1> QED BY <1>1, <1>2, <1>3, TypeCorrect, PTL DEF Spec

=============================================================================
