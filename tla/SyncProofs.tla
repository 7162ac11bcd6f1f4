------------------------------ MODULE SyncProofs ------------------------------
(***************************************************************************)
(* Proofs about Sync for any number of devices, articles and writes: the   *)
(* outbox delivers every write, in order, and a deletion that is queued is *)
(* never undone by a pull.                                                 *)
(***************************************************************************)
EXTENDS Sync, TLAPS

-----------------------------------------------------------------------------
(* Type correctness *)

LEMMA HandleType ==
  ASSUME NEW r \in Row, NEW kind \in Kinds
  PROVE  /\ Handle(r, kind) \in Row
         /\ r.status = "deleted" => Handle(r, kind) = r
         /\ kind = "delete" => Handle(r, kind).status = "deleted"
<1>1. CASE r.status = "deleted"
  <2>1. Handle(r, kind) = r
    BY <1>1 DEF Handle
  <2>2. QED
    BY <1>1, <2>1
<1>2. CASE r.status # "deleted" /\ kind = "pin"
  BY <1>2 DEF Handle, Row
<1>3. CASE r.status # "deleted" /\ kind = "unpin"
  BY <1>3 DEF Handle, Row
<1>4. CASE r.status # "deleted" /\ kind = "reenrich"
  BY <1>4 DEF Handle, Row
<1>5. CASE r.status # "deleted" /\ kind = "delete"
  BY <1>5 DEF Handle, Row
<1>6. QED
  BY <1>1, <1>2, <1>3, <1>4, <1>5 DEF Kinds

LEMMA OptimisticType ==
  ASSUME NEW e \in Edit
  PROVE  Optimistic(e) \in Meta \union {Absent}
BY DEF Optimistic, Edit, Meta

LEMMA ListType == TypeOK => ListArticleMeta \in [Articles -> Meta \union {Absent}]
BY DEF TypeOK, ListArticleMeta, Alive, Row, Meta

LEMMA UpsertedType ==
  ASSUME TypeOK, NEW d \in Devices
  PROVE  Upserted(d) \in [Articles -> Meta \union {Absent}]
<1>1. /\ library[d] \in [Articles -> Meta \union {Absent}]
      /\ listing[d] \in [Articles -> Meta \union {Absent}]
  BY DEF TypeOK
<1>2. QED
  BY <1>1 DEF Upserted

LEMMA InitType == Init => TypeOK
<1> SUFFICES ASSUME Init PROVE TypeOK
  OBVIOUS
<1>1. /\ [status |-> "working", pinned |-> FALSE] \in Row
      /\ [status |-> "enriched", pinned |-> FALSE] \in Row
  BY DEF Row
<1>2. server \in [Articles -> Row]
  BY <1>1 DEF Init
<1>3. QED
  BY <1>2 DEF Init, TypeOK, NoListing, Copies

LEMMA OutdateType ==
  ASSUME NEW copies \in [Devices -> [Articles -> Copies]], NEW a \in Articles
  PROVE  Outdate(copies, a) \in [Devices -> [Articles -> Copies]]
<1>1. ASSUME NEW d \in Devices
      PROVE  [copies[d] EXCEPT ![a] = IF @ = "none" THEN @ ELSE "stale"]
               \in [Articles -> Copies]
  BY DEF Copies
<1>2. QED
  BY <1>1 DEF Outdate

LEMMA StepType == TypeOK /\ [Next]_vars => TypeOK'
<1> SUFFICES ASSUME TypeOK, [Next]_vars PROVE TypeOK'
  OBVIOUS
<1> USE DEF TypeOK
<1>1. ASSUME NEW a \in Articles, Enrich(a) PROVE TypeOK'
  <2>1. server' \in [Articles -> Row]
    <3>1. server \in [Articles -> Row] /\ server' = [server EXCEPT ![a].status = "enriched"]
      BY <1>1 DEF Enrich
    <3>2. \A r \in Row : [r EXCEPT !.status = "enriched"] \in Row
      BY DEF Row
    <3>3. QED
      BY <3>1, <3>2
  <2>2. payload' \in [Devices -> [Articles -> Copies]]
    <3>1. payload \in [Devices -> [Articles -> Copies]] /\ payload' = Outdate(payload, a)
      BY <1>1 DEF Enrich
    <3>2. QED
      BY <3>1, OutdateType
  <2>3. cache' \in [Devices -> [Articles -> Copies]]
    <3>1. cache \in [Devices -> [Articles -> Copies]] /\ cache' = Outdate(cache, a)
      BY <1>1 DEF Enrich
    <3>2. QED
      BY <3>1, OutdateType
  <2>4. /\ reply' \in [Devices -> Reply \union {NoReply}]
        /\ \A d \in Devices : reply[d] \in Reply => reply'[d] \in Reply
    <3>1. \A r \in Reply : [r EXCEPT !.copy = "stale"] \in Reply
      BY DEF Reply
    <3>2. /\ reply \in [Devices -> Reply \union {NoReply}]
          /\ reply' = [d \in Devices |->
               IF reply[d] # NoReply /\ reply[d].article = a
               THEN [reply[d] EXCEPT !.copy = "stale"] ELSE reply[d]]
      BY <1>1 DEF Enrich
    <3>3. QED
      BY <3>1, <3>2
  <2>5. QED
    BY <1>1, <2>1, <2>2, <2>3, <2>4 DEF Enrich, past
<1>2. ASSUME NEW d \in Devices, NEW a \in Articles, NEW kind \in Kinds,
             BeginEdit(d, a, kind)
      PROVE  TypeOK'
  <2>1. [kind |-> kind, article |-> a, copy |-> library[d][a], step |-> "row"]
        \in Edit
    BY <1>2 DEF BeginEdit, Edit
  <2>2. QED
    BY <1>2, <2>1 DEF BeginEdit, tables, run
<1>3. ASSUME NEW d \in Devices, ApplyEdit(d) PROVE TypeOK'
  <2>1. editing[d] \in Edit
    BY <1>3 DEF ApplyEdit
  <2>2. /\ editing[d].article \in Articles
        /\ \A l \in {"payload", "queue"} : [editing[d] EXCEPT !.step = l] \in Edit
    BY <2>1 DEF Edit
  <2>3. Optimistic(editing[d]) \in Meta \union {Absent}
    BY <2>1, OptimisticType
  <2>4. library' \in [Devices -> [Articles -> Meta \union {Absent}]]
    BY <1>3, <2>2, <2>3 DEF ApplyEdit
  <2>5. editing' \in [Devices -> Edit \union {NoEdit}]
    BY <1>3, <2>2 DEF ApplyEdit
  <2>6. QED
    BY <1>3, <2>4, <2>5 DEF ApplyEdit, run, past
<1>4. ASSUME NEW d \in Devices, QueueEdit(d) PROVE TypeOK'
  <2>1. editing[d] \in Edit
    BY <1>4 DEF QueueEdit
  <2> DEFINE e == [seq |-> queued[d] + 1, kind |-> editing[d].kind,
                   article |-> editing[d].article]
  <2>2. /\ editing[d].article \in Articles
        /\ e \in Entry
    BY <2>1 DEF Edit, Entry
  <2>3. outbox' = [outbox EXCEPT ![d] = @ \union {e}]
    BY <1>4 DEF QueueEdit
  <2>4. outbox' \in [Devices -> SUBSET Entry]
    BY <2>2, <2>3
  <2>5. buried' \in [Devices -> SUBSET Articles]
    BY <1>4, <2>2 DEF QueueEdit
  <2>6. QED
    BY <1>4, <2>4, <2>5 DEF QueueEdit, run, tables
<1>4a. ASSUME NEW d \in Devices, DropPayload(d) PROVE TypeOK'
  <2>1. editing[d] \in Edit
    BY <1>4a DEF DropPayload
  <2>2. editing[d].article \in Articles /\ [editing[d] EXCEPT !.step = "queue"] \in Edit
    BY <2>1 DEF Edit
  <2>3. payload' \in [Devices -> [Articles -> Copies]]
    BY <1>4a, <2>2 DEF DropPayload, Copies
  <2>4. editing' \in [Devices -> Edit \union {NoEdit}]
    BY <1>4a, <2>2 DEF DropPayload
  <2>5. QED
    BY <1>4a, <2>3, <2>4 DEF DropPayload, run, past
<1>5. ASSUME NEW d \in Devices, BeginSync(d) PROVE TypeOK'
  BY <1>5 DEF BeginSync, Goto, tables, past
<1>6. ASSUME NEW d \in Devices, Dispatch(d) PROVE TypeOK'
  <2>1. PICK e \in todo[d] :
          /\ server' = [server EXCEPT ![e.article] = Handle(@, e.kind)]
          /\ handled' = [handled EXCEPT ![d] = e.seq]
    BY <1>6 DEF Dispatch
  <2>2. e.article \in Articles /\ e.kind \in Kinds /\ e.seq \in Nat
    BY <2>1 DEF Entry
  <2>3. server' \in [Articles -> Row]
    BY <2>1, <2>2, HandleType
  <2>4. handled' \in [Devices -> Nat]
    BY <2>1, <2>2
  <2>5. QED
    BY <1>6, <2>3, <2>4 DEF Dispatch, Goto, tables
<1>7. ASSUME NEW d \in Devices, Confirm(d) PROVE TypeOK'
  BY <1>7 DEF Confirm, Goto, tables, past
<1>8. ASSUME NEW d \in Devices, StopFlush(d) PROVE TypeOK'
  BY <1>8 DEF StopFlush, Goto, tables, past
<1>9. ASSUME NEW d \in Devices, EndFlush(d) PROVE TypeOK'
  BY <1>9 DEF EndFlush, Goto, tables, past
<1>10. ASSUME NEW d \in Devices, RequestList(d) PROVE TypeOK'
  BY <1>10, ListType DEF RequestList, Goto, tables, past
<1>11. ASSUME NEW d \in Devices, CommitPull(d) PROVE TypeOK'
  <2>1. library' \in [Devices -> [Articles -> Meta \union {Absent}]]
    BY <1>11, UpsertedType DEF CommitPull
  <2>2. payload' \in [Devices -> [Articles -> Copies]]
    BY <1>11 DEF CommitPull, Copies
  <2>3. listing' \in [Devices -> [Articles -> Meta \union {Absent}]]
    BY <1>11 DEF CommitPull, NoListing
  <2>4. QED
    BY <1>11, <2>1, <2>2, <2>3 DEF CommitPull, Goto, past
<1>12. ASSUME NEW d \in Devices, NEW a \in Articles, SkipPayload(d, a) PROVE TypeOK'
  BY <1>12 DEF SkipPayload, tables, past
<1>13. ASSUME NEW d \in Devices, NEW a \in Articles, FetchPayload(d, a) PROVE TypeOK'
  <2> DEFINE copy == IF cache[d][a] # "none" THEN cache[d][a] ELSE "current"
  <2>1. copy \in {"stale", "current"} /\ [article |-> a, copy |-> copy] \in Reply
    BY DEF Copies, Reply
  <2>2. /\ cache' = [cache EXCEPT ![d][a] = copy]
        /\ reply' = [reply EXCEPT ![d] = [article |-> a, copy |-> copy]]
    BY <1>13 DEF FetchPayload
  <2>3. cache' \in [Devices -> [Articles -> Copies]]
    BY <2>1, <2>2 DEF Copies
  <2>4. QED
    BY <1>13, <2>1, <2>2, <2>3 DEF FetchPayload, Goto, past
<1>14. ASSUME NEW d \in Devices, NEW a \in Articles, MissPayload(d, a) PROVE TypeOK'
  BY <1>14 DEF MissPayload, tables, past
<1>15. ASSUME NEW d \in Devices, StorePayload(d) PROVE TypeOK'
  <2>1. reply[d] \in Reply
    BY <1>15 DEF StorePayload
  <2>2. reply[d].article \in Articles /\ reply[d].copy \in Copies
    BY <2>1 DEF Reply, Copies
  <2>3. payload' \in [Devices -> [Articles -> Copies]]
    BY <1>15, <2>2 DEF StorePayload
  <2>4. QED
    BY <1>15, <2>3 DEF StorePayload, Goto, past
<1>16. ASSUME NEW d \in Devices, EndSync(d) PROVE TypeOK'
  BY <1>16 DEF EndSync, Goto, tables, past
<1>17. ASSUME NEW d \in Devices, Reload(d) PROVE TypeOK'
  BY <1>17 DEF Reload, tables, past, NoListing
<1>18. CASE UNCHANGED vars
  BY <1>18 DEF vars, tables, run, past
<1>19. QED
  BY <1>1, <1>2, <1>3, <1>4, <1>4a, <1>5, <1>6, <1>7, <1>8, <1>9, <1>10, <1>11,
     <1>12, <1>13, <1>14, <1>15, <1>16, <1>17, <1>18
     DEF Next, Write, Run, Flush, Pull, Fetch

\* The tables and the locals of every device stay well formed.
THEOREM TypeCorrect == Spec => []TypeOK
BY InitType, StepType, PTL DEF Spec

-----------------------------------------------------------------------------
(* The outbox *)

\* Between the last write handled and the last one queued the outbox has them
\* all, and a drain works on a prefix of it; until an answer is there, its
\* head is the write handled last.
OutboxOrdered ==
  \A d \in Devices :
    /\ handled[d] <= queued[d]
    /\ \A e \in outbox[d] : handled[d] <= e.seq /\ e.seq <= queued[d]
    /\ \A e, f \in outbox[d] : e.seq = f.seq => e = f
    /\ todo[d] \subseteq outbox[d]
    /\ \A e \in outbox[d], t \in todo[d] : e.seq <= t.seq => e \in todo[d]
    /\ phase[d] = "answer" => \E e \in todo[d] : IsHead(d, e) /\ e.seq = handled[d]

OutboxInv == TypeOK /\ OutboxOrdered /\ NothingLost

LEMMA InitOutbox == Init => OutboxOrdered /\ NothingLost
BY DEF Init, OutboxOrdered, NothingLost

\* A step that leaves the outbox, the drain and its history alone.
LEMMA QuietOutbox ==
  ASSUME OutboxOrdered, NothingLost, UNCHANGED <<outbox, todo, queued, handled>>,
         \A d \in Devices : phase'[d] = "answer" => phase[d] = "answer"
  PROVE  OutboxOrdered' /\ NothingLost'
BY DEF OutboxOrdered, NothingLost, IsHead

\* The head of the drain is the write handled last or the next one.
LEMMA HeadIsNext ==
  ASSUME OutboxInv, NEW d \in Devices, NEW e \in todo[d], IsHead(d, e)
  PROVE  /\ e.seq \in Nat /\ e.seq \in {handled[d], handled[d] + 1}
         /\ \A f \in outbox[d] : e.seq <= f.seq
<1> USE DEF OutboxInv
<1>1. /\ handled[d] \in Nat
      /\ queued[d] \in Nat
      /\ \A f \in outbox[d] : f.seq \in Nat
  BY DEF TypeOK, Entry
<1>2. e \in outbox[d] /\ handled[d] <= e.seq /\ e.seq <= queued[d] /\ e.seq \in Nat
  BY <1>1 DEF OutboxOrdered
<1>3. ASSUME NEW f \in outbox[d], ~(e.seq <= f.seq) PROVE FALSE
  <2>1. f \in todo[d]
    BY <1>1, <1>2, <1>3 DEF OutboxOrdered
  <2>2. QED
    BY <1>3, <2>1 DEF IsHead
<1>4. ASSUME e.seq > handled[d] + 1 PROVE FALSE
  <2>1. handled[d] + 1 \in handled[d] + 1 .. queued[d]
    BY <1>1, <1>2, <1>4
  <2>2. PICK f \in outbox[d] : f.seq = handled[d] + 1
    BY <2>1 DEF NothingLost
  <2>3. QED
    BY <1>1, <1>2, <1>3, <1>4, <2>2
<1>5. QED
  BY <1>1, <1>2, <1>3, <1>4

LEMMA StepOutbox == OutboxInv /\ [Next]_vars => OutboxOrdered' /\ NothingLost'
<1> SUFFICES ASSUME OutboxInv, [Next]_vars PROVE OutboxOrdered' /\ NothingLost'
  OBVIOUS
<1> USE DEF OutboxInv
<1> DEFINE Quiet == /\ UNCHANGED <<outbox, todo, queued, handled>>
                    /\ \A d \in Devices : phase'[d] = "answer" => phase[d] = "answer"
<1>0. \A d \in Devices : /\ handled[d] \in Nat
                         /\ queued[d] \in Nat
                         /\ \A f \in outbox[d] : f.seq \in Nat
                         /\ \A f \in todo[d] : f.seq \in Nat
  BY DEF TypeOK, Entry
<1>1. ASSUME NEW a \in Articles, Enrich(a) PROVE Quiet
  BY <1>1 DEF Enrich, past
<1>2. ASSUME NEW d \in Devices, NEW a \in Articles, NEW kind \in Kinds,
             BeginEdit(d, a, kind)
      PROVE  Quiet
  BY <1>2 DEF BeginEdit, run
<1>3. ASSUME NEW d \in Devices, ApplyEdit(d) PROVE Quiet
  BY <1>3 DEF ApplyEdit, run, past
<1>3a. ASSUME NEW d \in Devices, DropPayload(d) PROVE Quiet
  BY <1>3a DEF DropPayload, run, past
<1>4. ASSUME NEW d \in Devices, QueueEdit(d) PROVE OutboxOrdered' /\ NothingLost'
  <2> DEFINE n == [seq |-> queued[d] + 1, kind |-> editing[d].kind,
                   article |-> editing[d].article]
  <2>1. /\ outbox' = [outbox EXCEPT ![d] = @ \union {n}]
        /\ queued' = [queued EXCEPT ![d] = @ + 1]
        /\ UNCHANGED <<todo, phase, handled>>
    BY <1>4 DEF QueueEdit, run
  <2>2. n.seq = queued[d] + 1
    OBVIOUS
  <2> HIDE DEF n
  <2>3. \A c \in Devices :
          /\ c # d => outbox'[c] = outbox[c] /\ queued'[c] = queued[c]
          /\ c = d => outbox'[c] = outbox[c] \union {n} /\ queued'[c] = queued[c] + 1
    BY <2>1 DEF TypeOK
  <2>4. OutboxOrdered'
    <3> SUFFICES ASSUME NEW c \in Devices
        PROVE  /\ handled[c] <= queued'[c]
               /\ \A e \in outbox'[c] : handled[c] <= e.seq /\ e.seq <= queued'[c]
               /\ \A e, f \in outbox'[c] : e.seq = f.seq => e = f
               /\ todo[c] \subseteq outbox'[c]
               /\ \A e \in outbox'[c], t \in todo[c] : e.seq <= t.seq => e \in todo[c]
               /\ phase[c] = "answer"
                    => \E e \in todo[c] : IsHead(c, e) /\ e.seq = handled[c]
      BY <2>1 DEF OutboxOrdered, IsHead
    <3>1. CASE c # d
      BY <2>3, <3>1 DEF OutboxOrdered
    <3>2. CASE c = d
      BY <1>0, <2>2, <2>3, <3>2 DEF OutboxOrdered
    <3>3. QED
      BY <3>1, <3>2
  <2>5. NothingLost'
    <3> SUFFICES ASSUME NEW c \in Devices, NEW k \in handled[c] + 1 .. queued'[c]
        PROVE  \E e \in outbox'[c] : e.seq = k
      BY <2>1 DEF NothingLost
    <3>1. CASE c = d /\ k = queued[d] + 1
      BY <2>2, <2>3, <3>1
    <3>2. CASE ~(c = d /\ k = queued[d] + 1)
      <4>1. k \in handled[c] + 1 .. queued[c]
        BY <1>0, <2>3, <3>2
      <4>2. QED
        BY <2>3, <4>1 DEF NothingLost
    <3>3. QED
      BY <3>1, <3>2
  <2>6. QED
    BY <2>4, <2>5
<1>5. ASSUME NEW d \in Devices, BeginSync(d) PROVE OutboxOrdered' /\ NothingLost'
  BY <1>5 DEF BeginSync, Goto, past, OutboxOrdered, NothingLost, IsHead, TypeOK
<1>6. ASSUME NEW d \in Devices, Dispatch(d) PROVE OutboxOrdered' /\ NothingLost'
  <2>1. PICK e \in todo[d] : IsHead(d, e) /\ handled' = [handled EXCEPT ![d] = e.seq]
    BY <1>6 DEF Dispatch
  <2>2. /\ e.seq \in {handled[d], handled[d] + 1} /\ e.seq \in Nat
        /\ \A f \in outbox[d] : e.seq <= f.seq
    BY <2>1, HeadIsNext
  <2>3. /\ UNCHANGED <<outbox, todo, queued>>
        /\ \A c \in Devices : phase'[c] = "answer" => c = d \/ phase[c] = "answer"
    BY <1>6 DEF Dispatch, Goto
  <2>4. \A c \in Devices : handled'[c] = IF c = d THEN e.seq ELSE handled[c]
    BY <2>1 DEF TypeOK
  <2>5. OutboxOrdered'
    <3> SUFFICES ASSUME NEW c \in Devices
        PROVE  /\ handled'[c] <= queued[c]
               /\ \A g \in outbox[c] : handled'[c] <= g.seq /\ g.seq <= queued[c]
               /\ phase'[c] = "answer"
                    => \E g \in todo[c] : IsHead(c, g) /\ g.seq = handled'[c]
      BY <2>3 DEF OutboxOrdered, IsHead
    <3>1. CASE c # d
      BY <2>3, <2>4, <3>1 DEF OutboxOrdered
    <3>2. CASE c = d
      BY <2>1, <2>2, <2>4, <3>2 DEF OutboxOrdered
    <3>3. QED
      BY <3>1, <3>2
  <2>6. NothingLost'
    <3> SUFFICES ASSUME NEW c \in Devices, NEW k \in handled'[c] + 1 .. queued[c]
        PROVE  \E g \in outbox[c] : g.seq = k
      BY <2>3 DEF NothingLost
    <3>1. k \in handled[c] + 1 .. queued[c]
      BY <1>0, <2>2, <2>4
    <3>2. QED
      BY <3>1 DEF NothingLost
  <2>7. QED
    BY <2>5, <2>6
<1>7. ASSUME NEW d \in Devices, Confirm(d) PROVE OutboxOrdered' /\ NothingLost'
  <2>1. PICK e \in todo[d] : /\ IsHead(d, e)
                            /\ outbox' = [outbox EXCEPT ![d] = @ \ {e}]
                            /\ todo' = [todo EXCEPT ![d] = @ \ {e}]
    BY <1>7 DEF Confirm
  <2>2. /\ UNCHANGED <<queued, handled>>
        /\ \A c \in Devices : phase'[c] = "answer" => c # d /\ phase[c] = "answer"
    BY <1>7 DEF Confirm, Goto, past, TypeOK
  <2>3. \A c \in Devices :
          /\ c # d => outbox'[c] = outbox[c] /\ todo'[c] = todo[c]
          /\ c = d => outbox'[c] = outbox[c] \ {e} /\ todo'[c] = todo[c] \ {e}
    BY <2>1 DEF TypeOK
  <2>4. e.seq = handled[d]
    <3>1. PICK f \in todo[d] : IsHead(d, f) /\ f.seq = handled[d]
      BY <1>7 DEF Confirm, OutboxOrdered
    <3>2. QED
      BY <1>0, <2>1, <3>1 DEF IsHead
  <2>5. OutboxOrdered'
    BY <2>2, <2>3 DEF OutboxOrdered, IsHead
  <2>6. NothingLost'
    <3> SUFFICES ASSUME NEW c \in Devices, NEW k \in handled[c] + 1 .. queued[c]
        PROVE  \E f \in outbox'[c] : f.seq = k
      BY <2>2 DEF NothingLost
    <3>1. PICK f \in outbox[c] : f.seq = k
      BY DEF NothingLost
    <3>2. QED
      BY <1>0, <2>3, <2>4, <3>1
  <2>7. QED
    BY <2>5, <2>6
<1>8. ASSUME NEW d \in Devices, StopFlush(d) PROVE OutboxOrdered' /\ NothingLost'
  BY <1>8 DEF StopFlush, Goto, past, OutboxOrdered, NothingLost, IsHead, TypeOK
<1>9. ASSUME NEW d \in Devices, EndFlush(d) PROVE Quiet
  BY <1>9 DEF EndFlush, Goto, past
<1>10. ASSUME NEW d \in Devices, RequestList(d) PROVE Quiet
  BY <1>10 DEF RequestList, Goto, past
<1>11. ASSUME NEW d \in Devices, CommitPull(d) PROVE Quiet
  BY <1>11 DEF CommitPull, Goto, past
<1>12. ASSUME NEW d \in Devices, Fetch(d) PROVE Quiet
  <2>1. CASE StorePayload(d)
    BY <2>1 DEF StorePayload, Goto, past
  <2>2. ASSUME NEW a \in Articles, SkipPayload(d, a) \/ MissPayload(d, a) PROVE Quiet
    BY <2>2 DEF SkipPayload, MissPayload, past
  <2>3. ASSUME NEW a \in Articles, FetchPayload(d, a) PROVE Quiet
    BY <2>3 DEF FetchPayload, Goto, past
  <2>4. QED
    BY <1>12, <2>1, <2>2, <2>3 DEF Fetch
<1>13. ASSUME NEW d \in Devices, EndSync(d) PROVE Quiet
  BY <1>13 DEF EndSync, Goto, past
<1>14. ASSUME NEW d \in Devices, Reload(d) PROVE OutboxOrdered' /\ NothingLost'
  BY <1>14 DEF Reload, past, OutboxOrdered, NothingLost, IsHead, TypeOK
<1>15. ASSUME UNCHANGED vars PROVE Quiet
  BY <1>15 DEF vars, run, past
<1>16. Quiet => OutboxOrdered' /\ NothingLost'
  BY QuietOutbox
<1> HIDE DEF Quiet
<1>17. QED
  BY <1>1, <1>2, <1>3, <1>3a, <1>4, <1>5, <1>6, <1>7, <1>8, <1>9, <1>10, <1>11,
     <1>12, <1>13, <1>14, <1>15, <1>16
     DEF Next, Write, Run, Flush, Pull

LEMMA OutboxInvariant == Spec => []OutboxInv
<1>1. Init => OutboxInv
  BY InitType, InitOutbox DEF OutboxInv
<1>2. OutboxInv /\ [Next]_vars => OutboxInv'
  BY StepType, StepOutbox DEF OutboxInv
<1>3. QED
  BY <1>1, <1>2, PTL DEF Spec

\* No write of a user is lost: offline, refused, with its answer lost or the
\* page closed in the middle of a drain, it stays in the outbox until the
\* server handled it (flushOutbox).
THEOREM NoWriteLost == Spec => []NothingLost
<1>1. OutboxInv => NothingLost
  BY DEF OutboxInv
<1>2. QED
  BY <1>1, OutboxInvariant, PTL

\* The server handles the writes of a device in the order in which they were
\* made, and repeats none but the last (flushOutbox stops at a failure).
THEOREM WritesDeliveredInOrder == Spec => WritesInOrder
<1> DEFINE InOrder ==
      \A d \in Devices : handled'[d] \in {handled[d], handled[d] + 1}
<1>1. ASSUME OutboxInv, [Next]_vars PROVE [InOrder]_vars
  <2>1. ASSUME NEW d \in Devices, Dispatch(d) PROVE InOrder
    <3>1. PICK e \in todo[d] : IsHead(d, e) /\ handled' = [handled EXCEPT ![d] = e.seq]
      BY <2>1 DEF Dispatch
    <3>2. e.seq \in {handled[d], handled[d] + 1}
      BY <1>1, <3>1, HeadIsNext
    <3>3. QED
      BY <1>1, <3>1, <3>2 DEF OutboxInv, TypeOK
  <2>2. CASE UNCHANGED handled
    BY <2>2
  <2>3. ASSUME Next, ~\E d \in Devices : Dispatch(d) PROVE UNCHANGED handled
    <3>1. ASSUME NEW a \in Articles, Enrich(a) PROVE UNCHANGED handled
      BY <3>1 DEF Enrich, past
    <3>2. ASSUME NEW d \in Devices, NEW a \in Articles, NEW kind \in Kinds,
                 BeginEdit(d, a, kind)
          PROVE  UNCHANGED handled
      BY <3>2 DEF BeginEdit
    <3>3. ASSUME NEW d \in Devices,
                 Write(d) \/ BeginSync(d) \/ Confirm(d) \/ StopFlush(d) \/ EndFlush(d)
          PROVE  UNCHANGED handled
      BY <3>3 DEF Write, ApplyEdit, DropPayload, QueueEdit, BeginSync, Confirm,
                  StopFlush, EndFlush, past
    <3>4. ASSUME NEW d \in Devices, Pull(d) \/ EndSync(d) \/ Reload(d)
          PROVE  UNCHANGED handled
      BY <3>4 DEF Pull, RequestList, CommitPull, Fetch, SkipPayload, FetchPayload,
                  MissPayload, StorePayload, EndSync, Reload, past
    <3>5. QED
      BY <2>3, <3>1, <3>2, <3>3, <3>4 DEF Next, Run, Flush
  <2>4. QED
    BY <1>1, <2>1, <2>2, <2>3
<1>2. QED
  BY <1>1, OutboxInvariant, PTL DEF Spec, WritesInOrder

-----------------------------------------------------------------------------
(* Deletions *)

\* The deletion of a buried article is still to be delivered, or the article is
\* gone from the server.
DeletionsKnown ==
  \A d \in Devices : \A a \in buried[d] : a \in PendingDeletes(d) \/ ~Alive(a)

\* An answer that still lists a buried article meets its pending deletion.
ListingsFiltered ==
  \A d \in Devices : \A a \in buried[d] :
    phase[d] = "commit" /\ listing[d][a] # Absent => a \in PendingDeletes(d)

\* No edit is in progress on a buried article.
EditsLive ==
  \A d \in Devices : editing[d] # NoEdit => editing[d].article \notin buried[d]

\* A deletion that waits for its answer took effect.
AnsweredDeletes ==
  \A d \in Devices : \A e \in todo[d] :
    phase[d] = "answer" /\ IsHead(d, e) /\ e.kind = "delete" => ~Alive(e.article)

BurialInv == /\ OutboxInv
             /\ BuriedStaysBuried
             /\ DeletionsKnown
             /\ ListingsFiltered
             /\ EditsLive
             /\ AnsweredDeletes

\* The drain has one head.
LEMMA OneHead ==
  ASSUME OutboxInv, NEW d \in Devices, NEW e \in todo[d], NEW f \in todo[d],
         IsHead(d, e), IsHead(d, f)
  PROVE  e = f
<1>1. e.seq \in Nat /\ f.seq \in Nat
  BY DEF OutboxInv, TypeOK, Entry
<1>2. e.seq = f.seq
  BY <1>1 DEF IsHead
<1>3. QED
  BY <1>2 DEF OutboxInv, OutboxOrdered

LEMMA InitBurial == Init => BurialInv
<1> SUFFICES ASSUME Init PROVE BurialInv
  OBVIOUS
<1>1. \A d \in Devices : buried[d] = {} /\ todo[d] = {} /\ editing[d] = NoEdit
  BY DEF Init
<1>2. QED
  BY <1>1, InitType, InitOutbox
     DEF OutboxInv, BurialInv, BuriedStaysBuried, DeletionsKnown, ListingsFiltered, EditsLive,
         AnsweredDeletes

\* A deleted row stays deleted.
LEMMA DeletedForGood ==
  ASSUME TypeOK, Next, NEW a \in Articles, ~Alive(a)
  PROVE  ~Alive(a)'
<1> USE DEF Alive
<1>1. ASSUME NEW b \in Articles, Enrich(b) PROVE server'[a].status = "deleted"
  BY <1>1 DEF Enrich, TypeOK
<1>2. ASSUME NEW d \in Devices, Dispatch(d) PROVE server'[a].status = "deleted"
  <2>1. PICK e \in todo[d] : server' = [server EXCEPT ![e.article] = Handle(@, e.kind)]
    BY <1>2 DEF Dispatch
  <2>2. e.kind \in Kinds /\ server[a] \in Row
    BY DEF TypeOK, Entry
  <2>3. server'[a] = server[a]
    BY <2>1, <2>2, HandleType DEF TypeOK
  <2>4. QED
    BY <2>3
<1>3. ASSUME NEW d \in Devices, NEW b \in Articles, NEW kind \in Kinds,
             BeginEdit(d, b, kind)
      PROVE  server' = server
  BY <1>3 DEF BeginEdit
<1>4. ASSUME NEW d \in Devices,
             Write(d) \/ BeginSync(d) \/ Confirm(d) \/ StopFlush(d) \/ EndFlush(d)
      PROVE  server' = server
  BY <1>4 DEF Write, ApplyEdit, DropPayload, QueueEdit, BeginSync, Confirm, StopFlush, EndFlush
<1>5. ASSUME NEW d \in Devices, Pull(d) \/ EndSync(d) \/ Reload(d)
      PROVE  server' = server
  BY <1>5 DEF Pull, RequestList, CommitPull, Fetch, SkipPayload, FetchPayload,
              MissPayload, StorePayload, EndSync, Reload
<1>6. QED
  BY <1>1, <1>2, <1>3, <1>4, <1>5 DEF Next, Run, Flush

\* A step that changes neither the library nor the outbox, the drain, the
\* listing, an edit or what is buried.
LEMMA QuietBurial ==
  ASSUME BurialInv,
         \A a \in Articles : ~Alive(a) => ~Alive(a)',
         UNCHANGED <<library, outbox, todo, listing, editing, buried>>,
         \A d \in Devices : phase'[d] \in {"answer", "commit"} => phase'[d] = phase[d]
  PROVE  (BuriedStaysBuried /\ DeletionsKnown /\ ListingsFiltered /\ EditsLive
          /\ AnsweredDeletes)'
<1>1. \A d \in Devices : PendingDeletes(d)' = PendingDeletes(d)
  BY DEF PendingDeletes
<1>2. \A d \in Devices : /\ \A a \in buried[d] : a \in Articles
                         /\ \A e \in todo[d] : e.article \in Articles
  BY DEF BurialInv, OutboxInv, TypeOK, Entry
<1>3. BuriedStaysBuried' /\ EditsLive'
  BY DEF BurialInv, BuriedStaysBuried, EditsLive
<1>4. DeletionsKnown' /\ ListingsFiltered'
  BY <1>1, <1>2 DEF BurialInv, DeletionsKnown, ListingsFiltered
<1>5. AnsweredDeletes'
  BY <1>2 DEF BurialInv, AnsweredDeletes, IsHead
<1>6. QED
  BY <1>3, <1>4, <1>5

LEMMA StepBurial == BurialInv /\ [Next]_vars => BurialInv'
<1> SUFFICES ASSUME BurialInv, [Next]_vars PROVE BurialInv'
  OBVIOUS
<1> USE DEF BurialInv, OutboxInv
<1> DEFINE Buried == (BuriedStaysBuried /\ DeletionsKnown /\ ListingsFiltered
                      /\ EditsLive /\ AnsweredDeletes)'
           Quiet == /\ UNCHANGED <<library, outbox, todo, listing, editing, buried>>
                    /\ \A d \in Devices :
                         phase'[d] \in {"answer", "commit"} => phase'[d] = phase[d]
<1>0. OutboxInv'
  BY StepType, StepOutbox
<1>a. /\ \A a \in Articles : ~Alive(a) => ~Alive(a)'
      /\ \A d \in Devices : \A a \in buried[d] : a \in Articles
      /\ \A d \in Devices : \A e \in todo[d] : e.article \in Articles
  <2>1. \A d \in Devices : /\ \A a \in buried[d] : a \in Articles
                           /\ \A e \in todo[d] : e.article \in Articles
    BY DEF TypeOK, Entry
  <2>2. CASE Next
    BY <2>1, <2>2, DeletedForGood
  <2>3. CASE UNCHANGED vars
    BY <2>1, <2>3 DEF vars, Alive
  <2>4. QED
    BY <2>2, <2>3
<1>1. ASSUME NEW a \in Articles, Enrich(a) PROVE Quiet
  BY <1>1 DEF Enrich, past
<1>2. ASSUME NEW d \in Devices, NEW a \in Articles, NEW kind \in Kinds,
             BeginEdit(d, a, kind)
      PROVE  Buried
  <2>1. /\ a \notin buried[d]
        /\ UNCHANGED <<server, library, outbox, phase, todo, listing, buried>>
    BY <1>2 DEF BeginEdit, tables, run, BuriedStaysBuried
  <2>2. \A c \in Devices : c # d => editing'[c] = editing[c]
    BY <1>2 DEF BeginEdit, TypeOK
  <2>3. editing'[d].article = a
    BY <1>2 DEF BeginEdit, TypeOK
  <2>4. EditsLive'
    BY <2>1, <2>2, <2>3 DEF EditsLive
  <2>5. QED
    BY <2>1, <2>4 DEF BuriedStaysBuried, DeletionsKnown, ListingsFiltered,
                      AnsweredDeletes, PendingDeletes, Alive, IsHead
<1>3. ASSUME NEW d \in Devices, ApplyEdit(d) PROVE Buried
  <2>1. UNCHANGED <<server, outbox, phase, todo, listing, buried>>
    BY <1>3 DEF ApplyEdit, run, past
  <2>2. editing[d].article \notin buried[d]
    BY <1>3 DEF ApplyEdit, EditsLive
  <2>3. \A c \in Devices : \A a \in Articles :
          ~(c = d /\ a = editing[d].article) => library'[c][a] = library[c][a]
    BY <1>3 DEF ApplyEdit, TypeOK
  <2>4. BuriedStaysBuried'
    BY <1>a, <2>1, <2>2, <2>3 DEF BuriedStaysBuried
  <2>5. \A c \in Devices : editing'[c] # NoEdit =>
                           editing[c] # NoEdit /\ editing'[c].article = editing[c].article
    <3>1. editing[d] \in Edit
      BY <1>3 DEF ApplyEdit, TypeOK
    <3>2. QED
      BY <1>3, <3>1 DEF ApplyEdit, TypeOK, Edit
  <2>6. EditsLive'
    BY <2>1, <2>5 DEF EditsLive
  <2>7. QED
    BY <2>1, <2>4, <2>6 DEF DeletionsKnown, ListingsFiltered, AnsweredDeletes,
                            PendingDeletes, Alive, IsHead
<1>3a. ASSUME NEW d \in Devices, DropPayload(d) PROVE Buried
  <2>1. UNCHANGED <<server, library, outbox, phase, todo, listing, buried>>
    BY <1>3a DEF DropPayload, run, past
  <2>2. \A c \in Devices : editing'[c] # NoEdit =>
                           editing[c] # NoEdit /\ editing'[c].article = editing[c].article
    <3>1. editing[d] \in Edit
      BY <1>3a DEF DropPayload, TypeOK
    <3>2. QED
      BY <1>3a, <3>1 DEF DropPayload, TypeOK, Edit
  <2>3. EditsLive'
    BY <2>1, <2>2 DEF EditsLive
  <2>4. QED
    BY <2>1, <2>3 DEF BuriedStaysBuried, DeletionsKnown, ListingsFiltered,
                      AnsweredDeletes, PendingDeletes, Alive, IsHead
<1>4. ASSUME NEW d \in Devices, QueueEdit(d) PROVE Buried
  <2> DEFINE x == editing[d].article
             n == [seq |-> queued[d] + 1, kind |-> editing[d].kind, article |-> x]
  <2>1. UNCHANGED <<server, library, phase, todo, listing>>
    BY <1>4 DEF QueueEdit, run, tables
  <2>2. \A c \in Devices : IF c = d THEN outbox'[c] = outbox[c] \union {n}
                                    ELSE outbox'[c] = outbox[c]
    BY <1>4 DEF QueueEdit, TypeOK
  <2>3. \A c \in Devices : \A a \in buried'[c] :
          \/ a \in buried[c]
          \/ c = d /\ a = x /\ n.kind = "delete" /\ library[d][x] = Absent
    BY <1>4 DEF QueueEdit, TypeOK
  <2>4. \A c \in Devices : editing'[c] = IF c = d THEN NoEdit ELSE editing[c]
    BY <1>4 DEF QueueEdit, TypeOK
  <2>5. \A c \in Devices : \A a \in PendingDeletes(c) : a \in PendingDeletes(c)'
    BY <2>2 DEF PendingDeletes
  <2>6. n.kind = "delete" => x \in PendingDeletes(d)'
    <3>1. n \in outbox'[d] /\ n.article = x
      BY <2>2
    <3> HIDE DEF n, x
    <3>2. QED
      BY <3>1 DEF PendingDeletes
  <2> HIDE DEF n, x
  <2>7. BuriedStaysBuried'
    BY <2>1, <2>3 DEF BuriedStaysBuried
  <2>8. DeletionsKnown'
    BY <2>1, <2>3, <2>5, <2>6 DEF DeletionsKnown, Alive
  <2>9. ListingsFiltered'
    BY <2>1, <2>3, <2>5, <2>6 DEF ListingsFiltered
  <2>10. EditsLive'
    BY <2>3, <2>4 DEF EditsLive
  <2>11. AnsweredDeletes'
    BY <2>1 DEF AnsweredDeletes, IsHead, Alive
  <2>12. QED
    BY <2>7, <2>8, <2>9, <2>10, <2>11
<1>5. ASSUME NEW d \in Devices, BeginSync(d) \/ StopFlush(d) \/ Reload(d) PROVE Buried
  <2>1. /\ UNCHANGED <<server, library, outbox, buried>>
        /\ \A c \in Devices :
             /\ editing'[c] # NoEdit => editing'[c] = editing[c]
             /\ c # d => todo'[c] = todo[c] /\ phase'[c] = phase[c]
                        /\ listing'[c] = listing[c]
             /\ c = d => phase'[c] \notin {"answer", "commit"}
    BY <1>5 DEF BeginSync, StopFlush, Reload, Goto, tables, past, TypeOK
  <2>2. BuriedStaysBuried' /\ DeletionsKnown' /\ EditsLive'
    BY <2>1 DEF BuriedStaysBuried, DeletionsKnown, EditsLive, PendingDeletes, Alive
  <2>3. ListingsFiltered' /\ AnsweredDeletes'
    BY <2>1 DEF ListingsFiltered, AnsweredDeletes, IsHead, Alive, PendingDeletes
  <2>4. QED
    BY <2>2, <2>3
<1>6. ASSUME NEW d \in Devices, Dispatch(d) PROVE Buried
  <2>1. PICK e \in todo[d] : /\ IsHead(d, e)
                            /\ server' = [server EXCEPT ![e.article] = Handle(@, e.kind)]
    BY <1>6 DEF Dispatch
  <2>2. /\ UNCHANGED <<library, outbox, editing, todo, listing, buried>>
        /\ \A c \in Devices : phase'[c] = IF c = d THEN "answer" ELSE phase[c]
    BY <1>6 DEF Dispatch, Goto, tables, TypeOK
  <2>3. e.kind = "delete" => ~Alive(e.article)'
    <3>1. e.article \in Articles /\ e.kind \in Kinds /\ server[e.article] \in Row
      BY DEF TypeOK, Entry
    <3>2. e.kind = "delete" => Handle(server[e.article], e.kind).status = "deleted"
      BY <3>1, HandleType
    <3>3. QED
      BY <2>1, <3>1, <3>2 DEF Alive, TypeOK
  <2>4. \A f \in todo[d] : IsHead(d, f) /\ f.kind = "delete" => ~Alive(f.article)'
    <3>1. ASSUME NEW f \in todo[d], IsHead(d, f) PROVE f = e
      BY <2>1, <3>1, OneHead
    <3>2. QED
      BY <2>3, <3>1
  <2>5. AnsweredDeletes'
    BY <1>a, <2>2, <2>4 DEF AnsweredDeletes, IsHead
  <2>6. BuriedStaysBuried' /\ EditsLive'
    BY <2>2 DEF BuriedStaysBuried, EditsLive
  <2>7. DeletionsKnown' /\ ListingsFiltered'
    BY <1>a, <2>2 DEF DeletionsKnown, ListingsFiltered, PendingDeletes
  <2>8. QED
    BY <2>5, <2>6, <2>7
<1>7. ASSUME NEW d \in Devices, Confirm(d) PROVE Buried
  <2>1. PICK e \in todo[d] : /\ IsHead(d, e)
                            /\ outbox' = [outbox EXCEPT ![d] = @ \ {e}]
                            /\ todo' = [todo EXCEPT ![d] = @ \ {e}]
    BY <1>7 DEF Confirm
  <2>2. /\ UNCHANGED <<server, library, editing, listing, buried>>
        /\ phase[d] = "answer"
        /\ \A c \in Devices : phase'[c] = IF c = d THEN "flush" ELSE phase[c]
    BY <1>7 DEF Confirm, Goto, tables, past, TypeOK
  <2>3. \A c \in Devices :
          /\ c # d => outbox'[c] = outbox[c] /\ todo'[c] = todo[c]
          /\ c = d => outbox'[c] = outbox[c] \ {e}
    BY <2>1 DEF TypeOK
  <2>4. e.kind = "delete" => ~Alive(e.article)
    BY <2>1, <2>2 DEF AnsweredDeletes
  <2>5. \A c \in Devices : \A a \in PendingDeletes(c) :
          \/ a \in PendingDeletes(c)'
          \/ c = d /\ ~Alive(a)
    <3> SUFFICES ASSUME NEW c \in Devices, NEW a \in PendingDeletes(c),
                        a \notin PendingDeletes(c)'
        PROVE  c = d /\ ~Alive(a)
      OBVIOUS
    <3>1. PICK f \in outbox[c] : f.kind = "delete" /\ f.article = a
      BY DEF PendingDeletes
    <3>2. f \notin outbox'[c]
      BY <3>1 DEF PendingDeletes
    <3>3. QED
      BY <2>3, <2>4, <3>1, <3>2
  <2>6. BuriedStaysBuried' /\ EditsLive'
    BY <2>2 DEF BuriedStaysBuried, EditsLive
  <2>7. DeletionsKnown'
    BY <2>2, <2>5 DEF DeletionsKnown, Alive
  <2>8. ListingsFiltered'
    BY <2>2, <2>5 DEF ListingsFiltered
  <2>9. AnsweredDeletes'
    BY <2>2, <2>3 DEF AnsweredDeletes, IsHead, Alive
  <2>10. QED
    BY <2>6, <2>7, <2>8, <2>9
<1>8. ASSUME NEW d \in Devices, EndFlush(d) \/ EndSync(d) PROVE Quiet
  BY <1>8 DEF EndFlush, EndSync, Goto, tables, past, TypeOK
<1>9. ASSUME NEW d \in Devices, RequestList(d) PROVE Buried
  <2>1. UNCHANGED <<server, library, outbox, editing, todo, buried>>
    BY <1>9 DEF RequestList, tables, past
  <2>2. \A c \in Devices :
          /\ c # d => phase'[c] = phase[c] /\ listing'[c] = listing[c]
          /\ c = d => phase'[c] = "commit" /\ listing'[c] = ListArticleMeta
    BY <1>9 DEF RequestList, Goto, TypeOK
  <2>3. \A a \in Articles : ListArticleMeta[a] # Absent => Alive(a)
    BY DEF ListArticleMeta
  <2>4. ListingsFiltered'
    BY <1>a, <2>1, <2>2, <2>3 DEF ListingsFiltered, DeletionsKnown, PendingDeletes
  <2>5. AnsweredDeletes'
    BY <2>1, <2>2 DEF AnsweredDeletes, IsHead, Alive
  <2>6. BuriedStaysBuried' /\ DeletionsKnown' /\ EditsLive'
    BY <2>1 DEF BuriedStaysBuried, DeletionsKnown, EditsLive, PendingDeletes, Alive
  <2>7. QED
    BY <2>4, <2>5, <2>6
<1>10. ASSUME NEW d \in Devices, CommitPull(d) PROVE Buried
  <2>1. /\ UNCHANGED <<server, outbox, editing, todo, buried>>
        /\ phase[d] = "commit"
        /\ \A c \in Devices :
             /\ c # d => /\ phase'[c] = phase[c] /\ listing'[c] = listing[c]
                         /\ library'[c] = library[c]
             /\ c = d => phase'[c] = "fetch" /\ library'[c] = Upserted(d)
    BY <1>10 DEF CommitPull, Goto, past, TypeOK
  <2>2. \A a \in buried[d] : Upserted(d)[a] = Absent
    <3> TAKE a \in buried[d]
    <3>1. a \in Articles /\ library[d][a] = Absent
      BY <1>a DEF BuriedStaysBuried
    <3>2. listing[d][a] # Absent => a \in PendingDeletes(d)
      BY <2>1 DEF ListingsFiltered
    <3>3. QED
      BY <3>1, <3>2 DEF Upserted
  <2>3. BuriedStaysBuried'
    BY <2>1, <2>2 DEF BuriedStaysBuried
  <2>4. DeletionsKnown' /\ EditsLive'
    BY <2>1 DEF DeletionsKnown, EditsLive, PendingDeletes, Alive
  <2>5. ListingsFiltered' /\ AnsweredDeletes'
    BY <2>1 DEF ListingsFiltered, AnsweredDeletes, PendingDeletes, IsHead, Alive
  <2>6. QED
    BY <2>3, <2>4, <2>5
<1>11. ASSUME NEW d \in Devices, Fetch(d) PROVE Quiet
  <2>1. CASE StorePayload(d)
    BY <2>1 DEF StorePayload, Goto, past, TypeOK
  <2>2. ASSUME NEW a \in Articles, SkipPayload(d, a) \/ MissPayload(d, a) PROVE Quiet
    BY <2>2 DEF SkipPayload, MissPayload, tables, past
  <2>3. ASSUME NEW a \in Articles, FetchPayload(d, a) PROVE Quiet
    BY <2>3 DEF FetchPayload, Goto, past, TypeOK
  <2>4. QED
    BY <1>11, <2>1, <2>2, <2>3 DEF Fetch
<1>12. ASSUME UNCHANGED vars PROVE Quiet
  BY <1>12 DEF vars, tables, run, past
<1>13. Quiet => Buried
  BY <1>a, QuietBurial
<1> HIDE DEF Quiet
<1>14. Buried
  BY <1>1, <1>2, <1>3, <1>3a, <1>4, <1>5, <1>6, <1>7, <1>8, <1>9, <1>10, <1>11, <1>12,
     <1>13
     DEF Next, Write, Run, Flush, Pull
<1>15. QED
  BY <1>0, <1>14

\* Once its deletion is queued, an article does not come back on the device
\* where it was deleted (pull filters by the pending deletions, and a drain
\* ends before the pull that follows it asks for the list).
THEOREM DeletionsStay == Spec => []BuriedStaysBuried
<1>1. BurialInv => BuriedStaysBuried
  BY DEF BurialInv
<1>2. QED
  BY <1>1, InitBurial, StepBurial, PTL DEF Spec

=============================================================================
