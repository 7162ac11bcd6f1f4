-------------------------- MODULE VocabularyProofs --------------------------
(***************************************************************************)
(* Proofs about module Vocabulary, for any number of devices, taps,        *)
(* removals and reloads.                                                   *)
(***************************************************************************)
EXTENDS Vocabulary, FiniteSetTheorems, WellFoundedInduction, TLAPS

-----------------------------------------------------------------------------
(* Facts about numbers, queues and sets of events *)

\* A set of natural numbers has a least one; all induction below rests on it.
LEMMA LeastNatural ==
  ASSUME NEW S \in SUBSET Nat, S # {}
  PROVE  \E n \in S : \A m \in S : n <= m
<1>1. PICK n \in S : \A m \in S : ~(<<m, n>> \in OpToRel(<, Nat))
  BY WFMin, NatLessThanWellFounded
<1>2. \A m, k \in Nat : k < m => <<k, m>> \in OpToRel(<, Nat)
  BY DEF OpToRel
<1>3. \A m \in S : ~(m < n)
  BY <1>1, <1>2, Zenon
<1> QED BY <1>3

\* Counting the smaller positions numbers a finite set of positions.
LEMMA Numbering ==
  ASSUME NEW n \in Nat, NEW I \in SUBSET (1 .. n)
  PROVE  /\ IsFiniteSet(I) /\ Cardinality(I) \in Nat
         /\ \A k \in 1 .. Cardinality(I) :
              \E i \in I : Cardinality({j \in I : j < i}) = k - 1
         /\ \A i \in I : Cardinality({j \in I : j < i}) + 1 \in 1 .. Cardinality(I)
         /\ \A i, l \in I :
              Cardinality({j \in I : j < i}) = Cardinality({j \in I : j < l}) => i = l
<1> DEFINE below(i) == {j \in I : j < i}
           number(i) == Cardinality(below(i)) + 1
<1>1. IsFiniteSet(I) /\ Cardinality(I) \in Nat
  <2>1. IsFiniteSet(1 .. n)
    BY FS_Interval
  <2>2. IsFiniteSet(I)
    BY <2>1, FS_Subset
  <2> QED BY <2>2, FS_CardinalityType
<1>2. ASSUME NEW i \in I
      PROVE  /\ IsFiniteSet(below(i)) /\ Cardinality(below(i)) \in Nat
             /\ Cardinality(below(i)) < Cardinality(I)
  <2>1. IsFiniteSet(I \ {i}) /\ Cardinality(I \ {i}) = Cardinality(I) - 1
    BY <1>1, FS_RemoveElement
  <2>2. below(i) \in SUBSET (I \ {i})
    OBVIOUS
  <2>3. IsFiniteSet(below(i)) /\ Cardinality(below(i)) <= Cardinality(I \ {i})
    BY <2>1, <2>2, FS_Subset
  <2>4. Cardinality(below(i)) \in Nat
    BY <2>3, FS_CardinalityType
  <2> QED BY <1>1, <2>1, <2>3, <2>4
<1>3. ASSUME NEW i \in I, NEW l \in I, i < l
      PROVE  Cardinality(below(i)) < Cardinality(below(l))
  <2>1. below(i) \union {i} \in SUBSET below(l) /\ i \notin below(i)
    <3>1. I \subseteq Int /\ \A x, y, z \in Int : x < y /\ y < z => x < z
      OBVIOUS
    <3>2. \A j \in below(i) \union {i} : j \in below(l)
      BY <1>3, <3>1
    <3>3. i \notin below(i)
      BY <3>1
    <3> HIDE DEF below
    <3> QED BY <3>2, <3>3
  <2>2. Cardinality(below(i) \union {i}) = Cardinality(below(i)) + 1
    BY <1>2, <2>1, FS_AddElement
  <2>3. Cardinality(below(i) \union {i}) <= Cardinality(below(l))
    BY <1>2, <2>1, FS_Subset
  <2> QED BY <1>2, <2>2, <2>3
<1>4. \A i, l \in I : Cardinality(below(i)) = Cardinality(below(l)) => i = l
  <2> SUFFICES ASSUME NEW i \in I, NEW l \in I,
                      Cardinality(below(i)) = Cardinality(below(l)), i # l
               PROVE  FALSE
    OBVIOUS
  <2>1. i < l \/ l < i
    OBVIOUS
  <2> HIDE DEF below
  <2> QED BY <2>1, <1>2, <1>3
<1>5. \A k \in 1 .. Cardinality(I) : \E i \in I : Cardinality(below(i)) = k - 1
  <2> DEFINE N == 1 .. Cardinality(I)
             f == [i \in I |-> number(i)]
  <2>1. \A i \in I : number(i) \in N
    BY <1>1, <1>2
  <2>2. \A i, l \in I : number(i) = number(l) => i = l
    BY <1>2, <1>4
  <2>3. IsFiniteSet(N) /\ Cardinality(N) = Cardinality(I)
    BY <1>1, FS_Interval
  <2> HIDE DEF number, N
  <2>4. f \in Injection(I, N)
    BY <2>1, <2>2 DEF Injection, IsInjective
  <2>5. f \in Surjection(I, N)
    BY <2>3, <2>4, FS_Injection
  <2>6. \A k \in N : \E i \in I : number(i) = k
    BY <2>5 DEF Surjection
  <2> HIDE DEF below
  <2>7. ASSUME NEW k \in 1 .. Cardinality(I)
        PROVE  \E i \in I : Cardinality(below(i)) = k - 1
    <3>1. PICK i \in I : number(i) = k
      BY <2>6 DEF N
    <3> QED BY <1>2, <3>1 DEF number
  <2> QED BY <2>7
<1>6. \A i \in I : number(i) \in 1 .. Cardinality(I)
  BY <1>1, <1>2
<1> QED BY <1>1, <1>4, <1>5, <1>6

\* At takes exactly the positions it is given, one after the other.
LEMMA AtProperties ==
  ASSUME NEW S, NEW q \in Seq(S), NEW I \in SUBSET (DOMAIN q)
  PROVE  /\ At(q, I) \in Seq(S)
         /\ Len(At(q, I)) = Cardinality(I)
         /\ \E g \in Bijection(1 .. Cardinality(I), I) :
              \A k \in 1 .. Cardinality(I) : At(q, I)[k] = q[g[k]]
<1> DEFINE n == Cardinality(I)
           below(i) == {j \in I : j < i}
           nth(k) == CHOOSE i \in I : Cardinality(below(i)) = k - 1
           g == [k \in 1 .. n |-> nth(k)]
<1>1. DOMAIN q = 1 .. Len(q) /\ Len(q) \in Nat
  OBVIOUS
<1>2. /\ n \in Nat
      /\ \A k \in 1 .. n : \E i \in I : Cardinality(below(i)) = k - 1
      /\ \A i \in I : Cardinality(below(i)) + 1 \in 1 .. n
      /\ \A i, l \in I : Cardinality(below(i)) = Cardinality(below(l)) => i = l
  BY <1>1, Numbering
<1> HIDE DEF below, n
<1>3. \A k \in 1 .. n : nth(k) \in I /\ Cardinality(below(nth(k))) = k - 1
  BY <1>2
<1>4. \A i \in I : Cardinality(below(i)) \in Int
  <2> SUFFICES ASSUME NEW i \in I PROVE Cardinality(below(i)) \in Int
    OBVIOUS
  <2>1. PICK k \in 1 .. n : k = Cardinality(below(i)) + 1
    BY <1>2
  <2>2. Cardinality(below(nth(k))) = k - 1
    BY <1>3
  <2>3. IsFiniteSet(I)
    BY <1>1, Numbering
  <2>4. IsFiniteSet(below(i))
    BY <2>3, FS_Subset DEF below
  <2> QED BY <2>4, FS_CardinalityType
<1>5. \A i \in I : nth(Cardinality(below(i)) + 1) = i
  BY <1>2, <1>3, <1>4
<1> HIDE DEF nth
<1>6. \A k, l \in 1 .. n : nth(k) = nth(l) => k = l
  BY <1>2, <1>3
<1>7. g \in Bijection(1 .. n, I)
  <2>1. g \in [1 .. n -> I]
    BY <1>3
  <2>2. g \in Injection(1 .. n, I)
    BY <2>1, <1>6 DEF Injection, IsInjective
  <2>3. \A i \in I : \E k \in 1 .. n : g[k] = i
    BY <1>2, <1>5
  <2> QED BY <2>1, <2>2, <2>3 DEF Bijection, Surjection
<1>8. At(q, I) = [k \in 1 .. n |-> q[nth(k)]]
  BY DEF At, nth, below, n
<1>9. \A k \in 1 .. n : q[nth(k)] \in S
  BY <1>1, <1>3
<1>10. At(q, I) \in Seq(S) /\ Len(At(q, I)) = n
  BY <1>2, <1>8, <1>9
<1>11. \A k \in 1 .. n : At(q, I)[k] = q[g[k]]
  BY <1>8
<1> QED BY <1>7, <1>10, <1>11 DEF n

\* ... so its items are those at these positions.
LEMMA AtRange ==
  ASSUME NEW S, NEW q \in Seq(S), NEW I \in SUBSET (DOMAIN q)
  PROVE  Range(At(q, I)) = {q[i] : i \in I}
<1>1. PICK g \in Bijection(1 .. Cardinality(I), I) :
        \A k \in 1 .. Cardinality(I) : At(q, I)[k] = q[g[k]]
  BY AtProperties
<1>2. DOMAIN At(q, I) = 1 .. Cardinality(I)
  BY DEF At
<1>3. /\ \A k \in 1 .. Cardinality(I) : g[k] \in I
      /\ \A i \in I : \E k \in 1 .. Cardinality(I) : g[k] = i
  BY DEF Bijection, Injection, Surjection
<1> QED BY <1>1, <1>2, <1>3 DEF Range

\* A queue that has grown holds one item more.
LEMMA AppendRange ==
  ASSUME NEW S, NEW q \in Seq(S), NEW x \in S
  PROVE  Range(Append(q, x)) = Range(q) \union {x}
<1> DEFINE r == Append(q, x)
<1>1. /\ Len(q) \in Nat /\ DOMAIN q = 1 .. Len(q) /\ DOMAIN r = 1 .. Len(q) + 1
      /\ \A i \in 1 .. Len(q) : r[i] = q[i]
      /\ r[Len(q) + 1] = x
  OBVIOUS
<1> HIDE DEF r
<1>2. \A y \in Range(r) : y \in Range(q) \/ y = x
  BY <1>1 DEF Range
<1>3. \A i \in DOMAIN q : i \in DOMAIN r /\ r[i] = q[i]
  BY <1>1
<1>4. \A y \in Range(q) : y \in Range(r)
  BY <1>3 DEF Range
<1>5. Len(q) + 1 \in DOMAIN r
  BY <1>1
<1>6. x \in Range(r)
  BY <1>1, <1>5 DEF Range
<1> QED BY <1>2, <1>4, <1>6 DEF r

-----------------------------------------------------------------------------
(* The store *)

\* Ids and times are numbers.
LEMMA EventNumbers == ASSUME NEW e \in Event PROVE e.id \in Int /\ e.at \in Int
<1>1. Times \subseteq Int /\ 1 .. MaxTaps \subseteq Int
  BY VocabularyAssumption
<1>2. e.id \in 1 .. MaxTaps /\ e.at \in Times
  BY DEF Event
<1> QED BY <1>1, <1>2

\* In a finite set of events with different ids one is newer than all others.
LEMMA NewestExists ==
  ASSUME NEW S \in SUBSET Event, IsFiniteSet(S), S # {},
         \A e, f \in S : e.id = f.id => e = f
  PROVE  NewestOf(S) \in S /\ \A f \in S : f.at <= NewestOf(S).at
<1> DEFINE above(e) == {g \in S : Newer(g, e)}
           ranks == {Cardinality(above(e)) : e \in S}
<1>1. \A e \in S : e.id \in Int /\ e.at \in Int
  BY EventNumbers
<1>2. \A e \in S : IsFiniteSet(above(e)) /\ Cardinality(above(e)) \in Nat
  <2> SUFFICES ASSUME NEW e \in S
               PROVE  IsFiniteSet(above(e)) /\ Cardinality(above(e)) \in Nat
    OBVIOUS
  <2>1. IsFiniteSet(above(e))
    BY FS_Subset
  <2> QED BY <2>1, FS_CardinalityType
<1>3. PICK e \in S : \A f \in S : Cardinality(above(e)) <= Cardinality(above(f))
  <2> HIDE DEF above
  <2>1. ranks \in SUBSET Nat /\ ranks # {}
    BY <1>2
  <2>2. PICK n \in ranks : \A m \in ranks : n <= m
    BY <2>1, LeastNatural
  <2> QED BY <2>2
<1>4. ASSUME NEW f \in S \ {e}, ~Newer(e, f) PROVE FALSE
  <2>1. Newer(f, e)
    BY <1>1, <1>4 DEF Newer
  <2>2. above(f) \union {f} \in SUBSET above(e) /\ f \notin above(f)
    <3>1. \A g \in S : Newer(g, f) => Newer(g, e)
      BY <1>1, <2>1 DEF Newer
    <3>2. ~Newer(f, f)
      BY <1>1 DEF Newer
    <3> QED BY <2>1, <3>1, <3>2
  <2> HIDE DEF above
  <2>3. Cardinality(above(f) \union {f}) = Cardinality(above(f)) + 1
    BY <1>2, <2>2, FS_AddElement
  <2>4. Cardinality(above(f) \union {f}) <= Cardinality(above(e))
    BY <1>2, <2>2, FS_Subset
  <2> QED BY <1>2, <1>3, <2>3, <2>4
<1>5. \A f \in S \ {e} : Newer(e, f)
  BY <1>4
<1>6. NewestOf(S) \in S /\ \A f \in S \ {NewestOf(S)} : Newer(NewestOf(S), f)
  BY <1>5, Zenon DEF NewestOf
<1> QED BY <1>1, <1>6 DEF Newer

\* The aggregate of a log that is not empty is an entry.
LEMMA AggregateTyped ==
  ASSUME NEW S \in SUBSET Event, IsFiniteSet(S), S # {}, NEW stamp \in Nat,
         \A e, f \in S : e.id = f.id => e = f
  PROVE  Aggregate(S, stamp) \in Entry
<1>1. NewestOf(S) \in Event
  BY NewestExists
<1>2. Cardinality(S) \in Nat
  BY FS_CardinalityType
<1> QED BY <1>1, <1>2 DEF Aggregate, Entry

\* A batch, cut and ordered in whatever way, adds events and never takes one
\* away; ids and positions stay unique, and what another word holds is left to it.
LEMMA LandedTyped ==
  ASSUME NEW stored \in SUBSET Event, IsFiniteSet(stored), NEW events \in Seq(Event),
         \A e, f \in stored : Clash(e, f) => e = f
  PROVE  /\ Landed(events, stored) \in SUBSET Event
         /\ stored \subseteq Landed(events, stored)
         /\ Landed(events, stored) \subseteq stored \union Range(events)
         /\ IsFiniteSet(Landed(events, stored))
         /\ \A e, f \in Landed(events, stored) : Clash(e, f) => e = f
         /\ \A e \in Landed(events, stored) : e \in stored \/ e.pos \notin held
<1> DEFINE J == {j \in DOMAIN events :
                   /\ events[j].pos \notin held
                   /\ \A f \in stored : ~Clash(events[j], f)
                   /\ \A k \in 1 .. j - 1 : ~Clash(events[j], events[k])}
           new == {events[i] : i \in J}
<1>1. DOMAIN events = 1 .. Len(events) /\ Len(events) \in Nat
  OBVIOUS
<1>2. Landed(events, stored) = stored \union new
  BY DEF Landed
<1>3. new \subseteq Range(events) /\ new \in SUBSET Event
  BY <1>1 DEF Range
<1>4. IsFiniteSet(new)
  <2>1. J \in SUBSET (1 .. Len(events)) /\ IsFiniteSet(1 .. Len(events))
    BY <1>1, FS_Interval
  <2>2. IsFiniteSet(J)
    BY <2>1, FS_Subset
  <2> HIDE DEF J
  <2>3. [i \in J |-> events[i]] \in Surjection(J, new)
    BY DEF Surjection
  <2> QED BY <2>2, <2>3, FS_Surjection
<1>5. \A i, k \in J : Clash(events[i], events[k]) => i = k
  <2> SUFFICES ASSUME NEW i \in J, NEW k \in J, i < k
               PROVE  ~Clash(events[i], events[k]) /\ ~Clash(events[k], events[i])
    BY <1>1
  <2>1. i \in 1 .. k - 1
    BY <1>1
  <2> QED BY <2>1 DEF Clash
<1>6. \A i \in J : \A f \in stored :
        ~Clash(events[i], f) /\ ~Clash(f, events[i])
  BY DEF Clash
<1>7. \A e, f \in stored \union new : Clash(e, f) => e = f
  <2> HIDE DEF J
  <2> QED BY <1>5, <1>6
<1>8. IsFiniteSet(stored \union new)
  BY <1>4, FS_Union
<1>9. \A e \in new : e.pos \notin held
  OBVIOUS
<1> HIDE DEF new
<1> QED BY <1>2, <1>3, <1>7, <1>8, <1>9

\* Where ids tell taps apart, the place of every event of a batch is in the
\* log afterwards, or another word has it.
LEMMA LandedCovers ==
  ASSUME NEW stored, NEW events \in Seq(Event),
         \A e, f \in stored \union Range(events) : e.id = f.id => e.pos = f.pos,
         NEW i \in DOMAIN events, events[i].pos \notin held
  PROVE  \E f \in Landed(events, stored) : f.pos = events[i].pos
<1> DEFINE J == {j \in DOMAIN events : events[j].pos = events[i].pos}
<1>1. DOMAIN events = 1 .. Len(events) /\ Len(events) \in Nat
  OBVIOUS
<1>2. J \in SUBSET Nat /\ J # {}
  BY <1>1
<1>3. PICK j \in J : \A k \in J : j <= k
  BY <1>2, LeastNatural
<1>4. \A k \in 1 .. j - 1 : k \in DOMAIN events /\ k \notin J
  BY <1>1, <1>3
<1>5. \A k \in DOMAIN events : events[k] \in stored \union Range(events)
  BY DEF Range
<1>6. \A k \in 1 .. j - 1 : ~Clash(events[j], events[k])
  BY <1>4, <1>5 DEF Clash
<1>7. CASE \A f \in stored : ~Clash(events[j], f)
  BY <1>6, <1>7 DEF Landed
<1>8. CASE \E f \in stored : Clash(events[j], f)
  BY <1>5, <1>8 DEF Landed, Clash
<1> QED BY <1>7, <1>8

-----------------------------------------------------------------------------
(* Queues *)

\* What is in a queue is a lookup with its event, or the deletion.
LEMMA ItemKinds ==
  ASSUME NEW item \in Item
  PROVE  /\ item = Deletion <=> item.kind = "vocab_delete"
         /\ item # Deletion => item.event \in Event
<1>1. CASE item \in [kind : {"lookup", "manual_lookup"}, event : Event]
  BY <1>1 DEF Deletion
<1>2. CASE item \in [kind : {"vocab_delete"}, event : {NoEvent}]
  BY <1>2 DEF Deletion
<1> QED BY <1>1, <1>2 DEF Item

LEMMA DeletionIsItem == Deletion \in Item
BY DEF Deletion, Item

\* Dequeuing takes the named items out of a queue, and nothing else.
LEMMA WithoutTyped ==
  ASSUME NEW q \in Seq(Item), NEW items
  PROVE  /\ Without(q, items) \in Seq(Item)
         /\ Range(Without(q, items)) = Range(q) \ Range(items)
<1> DEFINE I == {i \in DOMAIN q : q[i] \notin Range(items)}
<1>1. I \in SUBSET (DOMAIN q)
  OBVIOUS
<1>2. Without(q, items) = At(q, I)
  BY DEF Without
<1>3. {q[i] : i \in I} = Range(q) \ Range(items)
  BY DEF Range
<1> HIDE DEF I
<1> QED BY <1>1, <1>2, <1>3, AtProperties, AtRange

\* A chunk holds lookups of its queue, and their events are what is sent.
LEMMA ChunkTyped ==
  ASSUME NEW q \in Seq(Item)
  PROVE  /\ \A item \in Range(Chunk(q)) :
              item \in Range(q) /\ item # Deletion /\ item.event \in Event
         /\ Events(Chunk(q)) \in Seq(Event)
         /\ Range(Events(Chunk(q))) = {item.event : item \in Range(Chunk(q))}
<1> DEFINE I == {i \in DOMAIN q : IsLookup(q[i])}
           m == IF Len(Lookups(q)) < BatchSize THEN Len(Lookups(q)) ELSE BatchSize
<1>1. I \in SUBSET (DOMAIN q) /\ Lookups(q) = At(q, I)
  BY DEF Lookups
<1>2. \A x \in {q[i] : i \in I} : x \in Range(q) /\ x \in Item /\ x.kind = "lookup"
  BY DEF Range, IsLookup
<1> HIDE DEF I
<1>3. Lookups(q) \in Seq(Item) /\ Range(Lookups(q)) = {q[i] : i \in I}
  BY <1>1, AtProperties, AtRange
<1>4. m \in Nat /\ m <= Len(Lookups(q))
  BY <1>3, VocabularyAssumption
<1>5. /\ Chunk(q) \in Seq(Item) /\ Len(Chunk(q)) = m
      /\ \A i \in 1 .. m : Chunk(q)[i] = Lookups(q)[i]
  BY <1>3, <1>4 DEF Chunk
<1> HIDE DEF m
<1>6. \A item \in Range(Chunk(q)) : item \in Range(Lookups(q))
  BY <1>3, <1>4, <1>5 DEF Range
<1>7. ASSUME NEW item \in Range(Chunk(q))
      PROVE  item \in Range(q) /\ item # Deletion /\ item.event \in Event
  <2>1. item \in Range(q) /\ item \in Item /\ item.kind = "lookup"
    BY <1>2, <1>3, <1>6
  <2> QED BY <2>1, ItemKinds
<1>8. \A i \in DOMAIN Chunk(q) : Chunk(q)[i] \in Range(Chunk(q))
  BY DEF Range
<1>9. Events(Chunk(q)) \in Seq(Event)
  <2>1. DOMAIN Chunk(q) = 1 .. m
    BY <1>4, <1>5
  <2>2. Events(Chunk(q)) = [i \in 1 .. m |-> Chunk(q)[i].event]
    BY <2>1 DEF Events
  <2>3. \A i \in 1 .. m : Chunk(q)[i].event \in Event
    BY <1>7, <1>8, <2>1
  <2> QED BY <1>4, <2>2, <2>3
<1>10. Range(Events(Chunk(q))) = {item.event : item \in Range(Chunk(q))}
  BY DEF Range, Events
<1> QED BY <1>7, <1>9, <1>10

-----------------------------------------------------------------------------
(* Type correctness *)

\* The log of a program that has run for some time is finite, and so are the
\* places tapped.
TypeInv == TypeOK /\ IsFiniteSet(log) /\ IsFiniteSet(tapped)

\* What storing a batch does to the log and its entry.
LEMMA SaveLookupsTyped ==
  ASSUME TypeInv, NEW events \in Seq(Event), SaveLookups(events)
  PROVE  /\ log' \in SUBSET Event /\ IsFiniteSet(log') /\ log \subseteq log'
         /\ log' \subseteq log \union Range(events)
         /\ \A e, f \in log' : Clash(e, f) => e = f
         /\ \A e \in log' : e \in log \/ e.pos \notin held
         /\ entry' \in Entry /\ held' = held
         /\ IF log' = log THEN entry' = entry
                          ELSE entry' = Aggregate(log', entry.stamp + 1)
<1>1. log \in SUBSET Event /\ IsFiniteSet(log) /\ entry \in Entry
  BY DEF TypeInv, TypeOK
<1>2. \A e, f \in log : Clash(e, f) => e = f
  BY DEF TypeInv, TypeOK, Clash
<1>3. /\ log' = Landed(events, log) /\ held' = held
      /\ entry' = IF log' = log THEN entry ELSE Aggregate(log', entry.stamp + 1)
  BY DEF SaveLookups
<1>4. /\ log' \in SUBSET Event /\ IsFiniteSet(log') /\ log \subseteq log'
      /\ log' \subseteq log \union Range(events)
      /\ \A e, f \in log' : Clash(e, f) => e = f
      /\ \A e \in log' : e \in log \/ e.pos \notin held
  BY <1>1, <1>2, <1>3, LandedTyped
<1>5. CASE log' # log
  <2>1. log' # {} /\ entry.stamp + 1 \in Nat
    <3>1. entry.stamp \in Nat
      BY <1>1 DEF Entry
    <3>2. log' # {}
      BY <1>4, <1>5
    <3> QED BY <3>1, <3>2
  <2>2. \A e, f \in log' : e.id = f.id => e = f
    BY <1>4 DEF Clash
  <2> QED BY <1>3, <1>4, <1>5, <2>1, <2>2, AggregateTyped
<1> QED BY <1>1, <1>3, <1>4, <1>5

\* The save that is sent for an item of the queue.
LEMMA SaveTyped ==
  ASSUME NEW d \in Devices, TypeInv, run[d].todo # <<>>,
         Head(run[d].todo).kind = "manual_lookup"
  PROVE  LET item == Head(run[d].todo)
         IN /\ item \in Range(run[d].todo) /\ item # Deletion /\ item.event \in Event
            /\ <<item.event>> \in Seq(Event) /\ Range(<<item.event>>) = {item.event}
            /\ Range(<<item>>) = {item}
<1> DEFINE q == run[d].todo
           item == Head(q)
<1>1. q \in Seq(Item) /\ q # <<>>
  BY DEF TypeInv, TypeOK, Run
<1> HIDE DEF q
<1>2. item \in Item /\ item = q[1] /\ 1 \in DOMAIN q
  BY <1>1
<1>3. item \in Range(q)
  BY <1>2 DEF Range
<1>4. item.kind = "manual_lookup"
  BY DEF q
<1>5. item # Deletion /\ item.event \in Event
  BY <1>2, <1>4, ItemKinds
<1> HIDE DEF item
<1>6. /\ <<item.event>> \in Seq(Event) /\ Range(<<item.event>>) = {item.event}
      /\ Range(<<item>>) = {item}
  BY <1>5 DEF Range
<1> QED BY <1>3, <1>5, <1>6 DEF q, item

\* A queue and a run in it stay what they are when items are dequeued.
LEMMA DequeueTyped ==
  ASSUME TypeInv, NEW d \in Devices, NEW items, Dequeue(d, items)
  PROVE  /\ outbox' \in [Devices -> Seq(Item)] /\ run' \in [Devices -> Run]
         /\ outbox' = [outbox EXCEPT ![d] = Without(outbox[d], items)]
         /\ run'[d].todo = Without(run[d].todo, items)
         /\ run'[d].step = run[d].step /\ run'[d].got = run[d].got
         /\ run'[d].row = run[d].row
         /\ \A c \in Devices \ {d} : run'[c] = run[c]
<1>1. run[d] \in Run /\ run[d].todo \in Seq(Item) /\ outbox[d] \in Seq(Item)
  BY DEF TypeInv, TypeOK, Run
<1>2. outbox' = [outbox EXCEPT ![d] = Without(outbox[d], items)]
  BY DEF Dequeue
<1>3. run' = [run EXCEPT ![d] = [run[d] EXCEPT !.todo = Without(run[d].todo, items)]]
  BY <1>1 DEF Dequeue, TypeInv, TypeOK
<1> DEFINE todo == Without(run[d].todo, items)
<1>4. todo \in Seq(Item) /\ Without(outbox[d], items) \in Seq(Item)
  BY <1>1, WithoutTyped
<1> HIDE DEF todo
<1> DEFINE r == [run[d] EXCEPT !.todo = todo]
<1>5. /\ r \in Run /\ r.todo = todo /\ r.step = run[d].step /\ r.got = run[d].got
      /\ r.row = run[d].row
  BY <1>1, <1>4 DEF Run
<1>6. run' = [run EXCEPT ![d] = r]
  BY <1>3 DEF todo
<1> HIDE DEF r
<1>7. run' \in [Devices -> Run] /\ run'[d] = r /\ \A c \in Devices \ {d} : run'[c] = run[c]
  BY <1>5, <1>6 DEF TypeInv, TypeOK
<1>8. outbox' \in [Devices -> Seq(Item)]
  BY <1>2, <1>4 DEF TypeInv, TypeOK
<1> QED BY <1>2, <1>5, <1>7, <1>8 DEF todo

\* A device at rest, and a row it does not show.
LEMMA RestTyped ==
  /\ NoEntry \in Entry /\ Nothing \in Pulled /\ NotRunning \in Run
  /\ NotRunning.step = "idle" /\ NotRunning.todo = <<>>
  /\ NotShown \in Local /\ NotShown.shown = FALSE
<1>1. NoEntry \in Entry /\ Nothing \in Pulled
  BY VocabularyAssumption DEF NoEntry, Entry, Nothing, Pulled
<1>2. <<>> \in Seq(Item)
  OBVIOUS
<1>3. NotShown \in Local /\ NotShown.shown = FALSE
  BY DEF NotShown, Local
<1>4. NotRunning \in Run /\ NotRunning.step = "idle" /\ NotRunning.todo = <<>>
  BY <1>1, <1>2, <1>3 DEF NotRunning, Run
<1> QED BY <1>1, <1>3, <1>4

\* A step that gives a device another run leaves the runs of the others.
LEMMA PutRun ==
  ASSUME TypeInv, NEW d \in Devices, NEW r \in Run, run' = [run EXCEPT ![d] = r]
  PROVE  /\ run' \in [Devices -> Run] /\ run'[d] = r
         /\ \A c \in Devices \ {d} : run'[c] = run[c]
BY DEF TypeInv, TypeOK

\* The runs that start, are at the pull, and are about to be applied.
LEMMA FlushTyped ==
  ASSUME TypeInv, NEW d \in Devices, flushOutbox(d)
  PROVE  /\ run' \in [Devices -> Run]
         /\ run'[d].step = "flush" /\ run'[d].todo = outbox[d]
         /\ \A c \in Devices \ {d} : run'[c] = run[c]
<1> DEFINE r == [NotRunning EXCEPT !.step = "flush", !.todo = outbox[d]]
<1>1. outbox[d] \in Seq(Item)
  BY DEF TypeInv, TypeOK
<1>2. r \in Run /\ r.step = "flush" /\ r.todo = outbox[d]
  BY <1>1, RestTyped DEF Run
<1>3. run' = [run EXCEPT ![d] = r]
  BY DEF flushOutbox
<1> HIDE DEF r
<1> QED BY <1>2, <1>3, PutRun

LEMMA StopTyped ==
  ASSUME TypeInv, NEW d \in Devices, Stop(d)
  PROVE  /\ run' \in [Devices -> Run] /\ run'[d].step = "pull" /\ run'[d].todo = <<>>
         /\ \A c \in Devices \ {d} : run'[c] = run[c]
<1> DEFINE r == [NotRunning EXCEPT !.step = "pull"]
<1>1. r \in Run /\ r.step = "pull" /\ r.todo = <<>>
  BY RestTyped DEF Run
<1>2. run' = [run EXCEPT ![d] = r]
  BY DEF Stop
<1> HIDE DEF r
<1> QED BY <1>1, <1>2, PutRun

\* What an answer says of the entry at its moment.
AsPulled == [state |-> entry.state, count |-> entry.count, stamp |-> entry.stamp]

LEMMA PullTyped ==
  ASSUME TypeInv, NEW d \in Devices, Pull(d)
  PROVE  /\ run' \in [Devices -> Run]
         /\ run'[d].todo = <<>>
         /\ \/ run'[d] = NotRunning
            \/ run'[d].step = "apply" /\ run'[d].got \in {AsPulled, Nothing}
         /\ \A c \in Devices \ {d} : run'[c] = run[c]
<1>1. AsPulled \in Pulled /\ Nothing \in Pulled /\ NotRunning \in Run
  <2>1. entry \in Entry
    BY DEF TypeInv, TypeOK
  <2> QED BY <2>1, RestTyped DEF AsPulled, Pulled, Entry
<1>2. CASE run' = [run EXCEPT ![d] = NotRunning]
  BY <1>1, <1>2, RestTyped, PutRun
<1>3. ASSUME NEW got \in {ListVocab},
             run' = [run EXCEPT ![d] = [NotRunning EXCEPT !.step = "apply", !.got = got]]
      PROVE  /\ run' \in [Devices -> Run]
             /\ run'[d].todo = <<>>
             /\ run'[d].step = "apply" /\ run'[d].got \in {AsPulled, Nothing}
             /\ \A c \in Devices \ {d} : run'[c] = run[c]
  <2> DEFINE r == [NotRunning EXCEPT !.step = "apply", !.got = got]
  <2>1. got \in {AsPulled, Nothing}
    BY DEF ListVocab, AsPulled
  <2>2. r \in Run /\ r.step = "apply" /\ r.got = got /\ r.todo = <<>>
    BY <1>1, <2>1, RestTyped DEF Run
  <2>3. run' = [run EXCEPT ![d] = r]
    BY <1>3
  <2> HIDE DEF r
  <2> QED BY <2>1, <2>2, <2>3, PutRun
<1> QED BY <1>2, <1>3 DEF Pull

\* The run that goes on to put a translation on the local row.
LEMMA TranslateTyped ==
  ASSUME TypeInv, NEW d \in Devices,
         run' = [run EXCEPT ![d].step = "translate", ![d].row = local[d]]
  PROVE  /\ run' \in [Devices -> Run]
         /\ run'[d].step = "translate" /\ run'[d].todo = run[d].todo
         /\ run'[d].row = local[d]
         /\ \A c \in Devices \ {d} : run'[c] = run[c]
<1> DEFINE r == [run[d] EXCEPT !.step = "translate", !.row = local[d]]
<1>1. run[d] \in Run /\ local[d] \in Local
  BY DEF TypeInv, TypeOK
<1>2. r \in Run /\ r.step = "translate" /\ r.todo = run[d].todo /\ r.row = local[d]
  BY <1>1 DEF Run
<1>3. run' = [run EXCEPT ![d] = r]
  BY DEF TypeInv, TypeOK
<1> HIDE DEF r
<1> QED BY <1>2, <1>3, PutRun

\* The runs that end with a translation put, or not put.
LEMMA PutTranslationTyped ==
  ASSUME TypeInv, NEW d \in Devices, PutTranslation(d)
  PROVE  /\ run' \in [Devices -> Run] /\ outbox' \in [Devices -> Seq(Item)]
         /\ local' \in [Devices -> Local]
         /\ local' \in {local, [local EXCEPT ![d] = run[d].row]}
         /\ \A c \in Devices \ {d} : run'[c] = run[c] /\ outbox'[c] = outbox[c]
         /\ run'[d].step \in {"flush", "pull"}
         /\ Range(run'[d].todo) \subseteq Range(run[d].todo)
         /\ \/ UNCHANGED outbox
            \/ Range(outbox'[d]) = Range(outbox[d]) \ {Head(run[d].todo)}
<1> DEFINE item == Head(run[d].todo)
           rest == Without(run[d].todo, <<item>>)
           r == [NotRunning EXCEPT !.step = "flush", !.todo = rest]
<1>1. /\ run[d] \in Run /\ run[d].todo \in Seq(Item) /\ outbox[d] \in Seq(Item)
      /\ outbox \in [Devices -> Seq(Item)] /\ local \in [Devices -> Local]
      /\ run[d].row \in Local
  BY DEF TypeInv, TypeOK, Run
<1>2. Range(<<item>>) = {item}
  BY DEF Range
<1> HIDE DEF item
<1>3. rest \in Seq(Item) /\ Range(rest) \subseteq Range(run[d].todo)
  BY <1>1, WithoutTyped
<1>4. /\ Without(outbox[d], <<item>>) \in Seq(Item)
      /\ Range(Without(outbox[d], <<item>>)) = Range(outbox[d]) \ {item}
  BY <1>1, <1>2, WithoutTyped
<1>5. CASE /\ local' = [local EXCEPT ![d] = run[d].row]
           /\ outbox' = [outbox EXCEPT ![d] = Without(@, <<item>>)]
           /\ run' = [run EXCEPT ![d] = r]
  <2> HIDE DEF rest
  <2>1. r \in Run /\ r.step = "flush" /\ r.todo = rest
    BY <1>3, RestTyped DEF Run
  <2> HIDE DEF r
  <2>2. /\ run' \in [Devices -> Run] /\ run'[d] = r
        /\ \A c \in Devices \ {d} : run'[c] = run[c]
    BY <1>5, <2>1, PutRun
  <2>3. /\ outbox' \in [Devices -> Seq(Item)]
        /\ outbox'[d] = Without(outbox[d], <<item>>)
        /\ \A c \in Devices \ {d} : outbox'[c] = outbox[c]
    BY <1>1, <1>4, <1>5
  <2>4. local' \in [Devices -> Local]
    BY <1>1, <1>5
  <2> QED BY <1>3, <1>4, <1>5, <2>1, <2>2, <2>3, <2>4 DEF item
<1>6. CASE /\ local' \in {local, [local EXCEPT ![d] = run[d].row]}
           /\ Stop(d) /\ UNCHANGED outbox
  <2>1. local' \in [Devices -> Local]
    BY <1>1, <1>6
  <2>2. Range(run'[d].todo) = {}
    BY <1>6, StopTyped DEF Range
  <2> QED BY <1>1, <1>6, <2>1, <2>2, StopTyped
<1> QED BY <1>5, <1>6 DEF PutTranslation, item, rest, r

\* A tap or a save queues a lookup of its own event.
LEMMA CaptureTyped ==
  ASSUME TypeInv, NEW d \in Devices, captureLookup(d) \/ saveManualTerm(d)
  PROVE  \E e \in Event, kind \in {"lookup", "manual_lookup"} :
           /\ Capture(d, e, kind)
           /\ [kind |-> kind, event |-> e] \in Item
           /\ [kind |-> kind, event |-> e] # Deletion
<1>1. PICK p \in Positions, t \in Times, kind \in {"lookup", "manual_lookup"} :
        Capture(d, [id |-> taps + 1, pos |-> p, at |-> t], kind)
  BY DEF captureLookup, saveManualTerm
<1> DEFINE e == [id |-> taps + 1, pos |-> p, at |-> t]
<1>2. taps + 1 \in 1 .. MaxTaps
  BY <1>1, VocabularyAssumption DEF Capture, TypeInv, TypeOK
<1>3. e \in Event
  BY <1>2 DEF Event
<1> HIDE DEF e
<1>4. [kind |-> kind, event |-> e] \in Item
  BY <1>3 DEF Item
<1>5. [kind |-> kind, event |-> e] # Deletion
  BY DEF Deletion
<1> QED BY <1>1, <1>3, <1>4, <1>5 DEF e

LEMMA CaptureKeepsTypes ==
  ASSUME TypeInv, NEW d \in Devices, NEW e \in Event,
         NEW kind \in {"lookup", "manual_lookup"},
         [kind |-> kind, event |-> e] \in Item, Capture(d, e, kind)
  PROVE  TypeInv'
<1>1. outbox' = [outbox EXCEPT ![d] = Append(@, [kind |-> kind, event |-> e])]
  BY DEF Capture, Queue
<1>2. outbox' \in [Devices -> Seq(Item)]
  BY <1>1 DEF TypeInv, TypeOK
<1>3. e.pos \in Positions
  BY DEF Event
<1>4. captured' \in [Devices -> SUBSET Positions]
  BY <1>3 DEF Capture, TypeInv, TypeOK
<1>5. writes' \in [Devices -> SUBSET Write]
  <2> DEFINE w == [step |-> "get", pos |-> e.pos, row |-> NotShown]
  <2>1. w \in Write
    BY <1>3, RestTyped DEF Write
  <2> HIDE DEF w
  <2>2. writes' = [writes EXCEPT ![d] = @ \union {w}]
    BY DEF Capture, w
  <2> QED BY <2>1, <2>2 DEF TypeInv, TypeOK
<1>6. taps' \in 0 .. MaxTaps /\ tapped' \subseteq Positions
  BY <1>3, VocabularyAssumption DEF Capture, TypeInv, TypeOK
<1>7. IsFiniteSet(tapped')
  BY FS_AddElement DEF Capture, TypeInv
<1> QED BY <1>2, <1>4, <1>5, <1>6, <1>7 DEF Capture, TypeInv, TypeOK, server

LEMMA UserKeepsTypes ==
  ASSUME TypeInv, NEW d \in Devices, User(d) PROVE TypeInv'
<1>1. CASE captureLookup(d) \/ saveManualTerm(d)
  BY <1>1, CaptureTyped, CaptureKeepsTypes
<1>2. CASE GetLocalEntry(d)
  <2>1. PICK w \in writes[d] :
          writes' = [writes EXCEPT ![d] =
            (@ \ {w}) \union {[w EXCEPT !.step = "put", !.row = local[d]]}]
    BY <1>2 DEF GetLocalEntry
  <2>2. [w EXCEPT !.step = "put", !.row = local[d]] \in Write
    <3>1. w \in Write /\ local[d] \in Local
      BY DEF TypeInv, TypeOK
    <3> QED BY <3>1 DEF Write
  <2>3. writes' \in [Devices -> SUBSET Write]
    BY <2>1, <2>2 DEF TypeInv, TypeOK
  <2> QED BY <1>2, <2>3 DEF GetLocalEntry, TypeInv, TypeOK, server, told
<1>3. CASE PutLocalEntry(d)
  <2>1. PICK w \in writes[d] :
          /\ writes' = [writes EXCEPT ![d] = @ \ {w}]
          /\ local' \in {local, [local EXCEPT ![d] = [w.row EXCEPT !.shown = TRUE]]}
          /\ captured' \in {captured, [captured EXCEPT ![d] = @ \ {w.pos}]}
    BY <1>3 DEF PutLocalEntry
  <2>2. [w.row EXCEPT !.shown = TRUE] \in Local
    <3>1. w \in Write
      BY DEF TypeInv, TypeOK
    <3> QED BY <3>1 DEF Write, Local
  <2> DEFINE row == [w.row EXCEPT !.shown = TRUE]
  <2> HIDE DEF row
  <2>3. local' \in [Devices -> Local]
    <3>1. local' \in {local, [local EXCEPT ![d] = row]} /\ row \in Local
      BY <2>1, <2>2 DEF row
    <3> QED BY <3>1 DEF TypeInv, TypeOK
  <2>4. writes' \in [Devices -> SUBSET Write]
    <3>1. writes \in [Devices -> SUBSET Write]
      BY DEF TypeInv, TypeOK
    <3>2. writes' = [writes EXCEPT ![d] = @ \ {w}]
      BY <2>1
    <3> QED BY <3>1, <3>2
  <2>5. captured' \in [Devices -> SUBSET Positions]
    <3>1. captured \in [Devices -> SUBSET Positions]
      BY DEF TypeInv, TypeOK
    <3>2. captured' \in {captured, [captured EXCEPT ![d] = @ \ {w.pos}]}
      BY <2>1
    <3> QED BY <3>1, <3>2
  <2> QED BY <1>3, <2>3, <2>4, <2>5 DEF PutLocalEntry, TypeInv, TypeOK, server, told
<1>4. CASE removeVocabEntry(d)
  <2>1. /\ local' \in [Devices -> Local] /\ removals' \in 0 .. MaxRemovals
        /\ removing' \in [Devices -> Nat]
    BY <1>4, RestTyped, VocabularyAssumption DEF removeVocabEntry, TypeInv, TypeOK
  <2> QED BY <1>4, <2>1 DEF removeVocabEntry, TypeInv, TypeOK, server
<1>5. CASE QueueDeletion(d)
  <2>1. removing' \in [Devices -> Nat]
    BY <1>5 DEF QueueDeletion, TypeInv, TypeOK
  <2>2. outbox' \in [Devices -> Seq(Item)]
    <3>1. outbox' = [outbox EXCEPT ![d] = Append(@, Deletion)]
      BY <1>5 DEF QueueDeletion, Queue
    <3> QED BY <3>1, DeletionIsItem DEF TypeInv, TypeOK
  <2> QED BY <1>5, <2>1, <2>2 DEF QueueDeletion, TypeInv, TypeOK, server, told
<1>6. CASE resetCaptureSession(d)
  <2>1. captured' \in [Devices -> SUBSET Positions] /\ reloads' \in 0 .. MaxReloads
    BY <1>6, VocabularyAssumption DEF resetCaptureSession, TypeInv, TypeOK
  <2> QED BY <1>6, <2>1 DEF resetCaptureSession, TypeInv, TypeOK, server
<1>7. CASE Reload(d)
  <2>1. /\ captured' \in [Devices -> SUBSET Positions] /\ reloads' \in 0 .. MaxReloads
        /\ writes' \in [Devices -> SUBSET Write] /\ removing' \in [Devices -> Nat]
        /\ torn' \subseteq Devices
    BY <1>7, VocabularyAssumption DEF Reload, TypeInv, TypeOK
  <2>2. run' \in [Devices -> Run]
    BY <1>7, RestTyped, PutRun DEF Reload
  <2> QED BY <1>7, <2>1, <2>2 DEF Reload, TypeInv, TypeOK, server
<1> QED BY <1>1, <1>2, <1>3, <1>4, <1>5, <1>6, <1>7 DEF User

\* The two requests that store events.
LEMMA DeliveryKeepsTypes ==
  ASSUME TypeInv, NEW d \in Devices, flushLookups(d) \/ DispatchSave(d)
  PROVE  TypeInv'
<1>1. ASSUME outbox' \in [Devices -> Seq(Item)], run' \in [Devices -> Run],
             \/ UNCHANGED server
             \/ \E events \in Seq(Event) : SaveLookups(events),
             refused' \subseteq Positions,
             UNCHANGED <<seen, local, captured, writes, removing,
                         taps, tapped, torn, removals, reloads>>
      PROVE  TypeInv'
  <2>1. CASE UNCHANGED server
    BY <1>1, <2>1 DEF TypeInv, TypeOK, server
  <2>2. ASSUME NEW events \in Seq(Event), SaveLookups(events) PROVE TypeInv'
    <3>1. /\ log' \in SUBSET Event /\ IsFiniteSet(log') /\ entry' \in Entry
          /\ \A e, f \in log' : Clash(e, f) => e = f
          /\ held' = held
      BY <2>2, SaveLookupsTyped
    <3>2. \A e, f \in log' : e.id = f.id \/ e.pos = f.pos => e = f
      BY <3>1 DEF Clash
    <3> QED BY <1>1, <3>1, <3>2 DEF TypeInv, TypeOK
  <2> QED BY <1>1, <2>1, <2>2
<1>2. /\ run \in [Devices -> Run] /\ outbox \in [Devices -> Seq(Item)]
      /\ refused \subseteq Positions
      /\ run[d].todo \in Seq(Item)
  BY DEF TypeInv, TypeOK, Run
<1>3. Stop(d) => run' \in [Devices -> Run]
  BY StopTyped
<1>4. \A items : Dequeue(d, items) =>
        outbox' \in [Devices -> Seq(Item)] /\ run' \in [Devices -> Run]
  BY DequeueTyped
<1>5. \A e \in Event : e.pos \in Positions
  BY DEF Event
<1>6. CASE flushLookups(d)
  <2> DEFINE chunk == Chunk(run[d].todo)
  <2>1. Events(chunk) \in Seq(Event) /\ \A e \in Range(Events(chunk)) : e \in Event
    <3>1. /\ Events(chunk) \in Seq(Event)
          /\ Range(Events(chunk)) = {item.event : item \in Range(chunk)}
      BY <1>2, ChunkTyped
    <3>2. \A item \in Range(chunk) : item.event \in Event
      BY <1>2, ChunkTyped
    <3> HIDE DEF chunk
    <3> QED BY <3>1, <3>2
  <2>2. /\ outbox' \in [Devices -> Seq(Item)] /\ run' \in [Devices -> Run]
        /\ UNCHANGED server \/ SaveLookups(Events(chunk))
        /\ \/ UNCHANGED refused
           \/ refused' = refused \union {e.pos : e \in Range(Events(chunk))}
        /\ UNCHANGED <<seen, local, captured, writes, removing,
                       taps, tapped, torn, removals, reloads>>
    BY <1>2, <1>3, <1>4, <1>6 DEF flushLookups
  <2> HIDE DEF chunk
  <2>3. refused' \subseteq Positions
    <3>1. \A p \in {e.pos : e \in Range(Events(chunk))} : p \in Positions
      BY <1>5, <2>1
    <3> QED BY <1>2, <2>2, <3>1
  <2> QED BY <1>1, <2>1, <2>2, <2>3
<1>7. CASE DispatchSave(d)
  <2> DEFINE item == Head(run[d].todo)
  <2>1. item.event \in Event /\ <<item.event>> \in Seq(Event)
    BY <1>7, SaveTyped DEF DispatchSave, LookupsDone
  <2>2. /\ UNCHANGED server \/ SaveLookups(<<item.event>>)
        /\ UNCHANGED refused \/ refused' = refused \union {item.event.pos}
        /\ \/ Dequeue(d, <<item>>)
           \/ Stop(d) /\ UNCHANGED outbox
           \/ /\ run' = [run EXCEPT ![d].step = "translate", ![d].row = local[d]]
              /\ UNCHANGED outbox
        /\ UNCHANGED <<seen, local, captured, writes, removing,
                       taps, tapped, torn, removals, reloads>>
    BY <1>7 DEF DispatchSave
  <2> HIDE DEF item
  <2>3. outbox' \in [Devices -> Seq(Item)] /\ run' \in [Devices -> Run]
    BY <1>2, <1>3, <1>4, <2>2, TranslateTyped
  <2>4. refused' \subseteq Positions
    BY <1>2, <1>5, <2>1, <2>2
  <2> QED BY <1>1, <2>1, <2>2, <2>3, <2>4
<1> QED BY <1>6, <1>7

\* Removing a queued deletion leaves a queue; the run goes on with the rest.
LEMMA DequeueDeletionTyped ==
  ASSUME TypeInv, NEW d \in Devices, run[d].todo # <<>>, DequeueDeletion(d)
  PROVE  /\ outbox' \in [Devices -> Seq(Item)] /\ run' \in [Devices -> Run]
         /\ Range(outbox'[d]) \subseteq Range(outbox[d])
         /\ Range(outbox[d]) \subseteq Range(outbox'[d]) \union {Deletion}
         /\ \A c \in Devices \ {d} : outbox'[c] = outbox[c]
         /\ run'[d].todo = Tail(run[d].todo) /\ run'[d].step = run[d].step
         /\ run'[d].got = run[d].got /\ run'[d].row = run[d].row
         /\ \A c \in Devices \ {d} : run'[c] = run[c]
<1> DEFINE q == outbox[d]
           I == DOMAIN q \ FirstDeletion(q)
           todo == Tail(run[d].todo)
           r == [run[d] EXCEPT !.todo = todo]
<1>1. run[d] \in Run /\ run[d].todo \in Seq(Item) /\ q \in Seq(Item)
  BY DEF TypeInv, TypeOK, Run
<1>2. /\ outbox' = [outbox EXCEPT ![d] = At(q, I)]
      /\ run' = [run EXCEPT ![d] = r]
  BY <1>1 DEF DequeueDeletion, TypeInv, TypeOK
<1>3. I \in SUBSET (DOMAIN q) /\ \A i \in DOMAIN q \ I : q[i] = Deletion
  BY DEF FirstDeletion
<1> HIDE DEF I
<1>4. At(q, I) \in Seq(Item) /\ Range(At(q, I)) = {q[i] : i \in I}
  BY <1>1, <1>3, AtProperties, AtRange
<1>5. todo \in Seq(Item)
  BY <1>1
<1> HIDE DEF todo
<1>6. /\ r \in Run /\ r.todo = todo /\ r.step = run[d].step /\ r.got = run[d].got
      /\ r.row = run[d].row
  BY <1>1, <1>5 DEF Run
<1> HIDE DEF r
<1>7. /\ run' \in [Devices -> Run] /\ run'[d] = r
      /\ \A c \in Devices \ {d} : run'[c] = run[c]
  BY <1>2, <1>6, PutRun
<1>8. /\ outbox' \in [Devices -> Seq(Item)] /\ outbox'[d] = At(q, I)
      /\ \A c \in Devices \ {d} : outbox'[c] = outbox[c]
  BY <1>2, <1>4 DEF TypeInv, TypeOK
<1>9. /\ {q[i] : i \in I} \subseteq Range(q)
      /\ Range(q) \subseteq {q[i] : i \in I} \union {Deletion}
  BY <1>3 DEF Range
<1> QED BY <1>4, <1>6, <1>7, <1>8, <1>9 DEF todo, q

\* A device that takes over the row it was sent.
LEMMA ApplyTyped ==
  ASSUME TypeInv, NEW d \in Devices, Apply(d)
  PROVE  /\ run' \in [Devices -> Run] /\ run'[d] = NotRunning
         /\ \A c \in Devices \ {d} : run'[c] = run[c]
         /\ local' \in [Devices -> Local] /\ seen' \in [Devices -> Nat]
         /\ torn' \subseteq Devices
<1> DEFINE got == run[d].got
           row == RowOf(got)
<1>1. got \in Pulled
  BY DEF TypeInv, TypeOK, Run
<1>2. got.stamp \in Nat /\ got.count \in Nat
  BY <1>1 DEF Pulled
<1>3. row \in Local
  BY <1>2, RestTyped DEF Local, RowOf
<1>4. /\ run' = [run EXCEPT ![d] = NotRunning]
      /\ \/ UNCHANGED <<local, seen, torn>>
         \/ /\ local' = [local EXCEPT ![d] = row]
            /\ seen' = [seen EXCEPT ![d] = got.stamp]
            /\ torn' = torn \ {d}
  BY DEF Apply
<1> HIDE DEF row, got
<1>5. local' \in [Devices -> Local]
  BY <1>3, <1>4 DEF TypeInv, TypeOK
<1>6. seen' \in [Devices -> Nat] /\ torn' \subseteq Devices
  BY <1>2, <1>4 DEF TypeInv, TypeOK
<1> QED BY <1>4, <1>5, <1>6, RestTyped, PutRun

\* What deleting the entry does to it.
LEMMA DeletedEntry ==
  ASSUME TypeInv, DeleteVocabEntry
  PROVE  /\ entry' \in Entry /\ log' = log /\ held' = held
         /\ entry'.state # "live"
         /\ entry'.count = entry.count /\ entry'.latest = entry.latest
         /\ entry'.state = "none" <=> entry.state = "none"
         /\ entry' = entry \/ entry'.stamp = entry.stamp + 1
<1>1. entry \in Entry
  BY DEF TypeInv, TypeOK
<1>2. CASE entry.state # "live"
  BY <1>1, <1>2 DEF DeleteVocabEntry
<1>3. CASE entry.state = "live"
  <2> DEFINE n == entry.stamp + 1
             e == [entry EXCEPT !.state = "deleted", !.stamp = n]
  <2>1. entry' = e /\ log' = log /\ held' = held
    BY <1>3 DEF DeleteVocabEntry
  <2>2. n \in Nat
    BY <1>1 DEF Entry
  <2> HIDE DEF n
  <2>3. /\ e \in Entry /\ e.state = "deleted" /\ e.stamp = n
        /\ e.count = entry.count /\ e.latest = entry.latest
    BY <1>1, <2>2 DEF Entry
  <2> HIDE DEF e
  <2> QED BY <1>3, <2>1, <2>3 DEF n
<1> QED BY <1>2, <1>3

LEMMA SyncKeepsTypes ==
  ASSUME TypeInv, NEW d \in Devices, Sync(d) PROVE TypeInv'
<1>1. CASE flushOutbox(d)
  <2>1. run' \in [Devices -> Run]
    BY <1>1, FlushTyped
  <2> QED BY <1>1, <2>1 DEF flushOutbox, TypeInv, TypeOK, server, told
<1>2. CASE flushLookups(d) \/ DispatchSave(d)
  BY <1>2, DeliveryKeepsTypes
<1>3. CASE DispatchDelete(d)
  <2>1. outbox' \in [Devices -> Seq(Item)] /\ run' \in [Devices -> Run]
    <3>1. CASE DequeueDeletion(d)
      BY <1>3, <3>1, DequeueDeletionTyped DEF DispatchDelete, LookupsDone
    <3>2. CASE Stop(d) /\ UNCHANGED outbox
      BY <3>2, StopTyped DEF TypeInv, TypeOK
    <3> QED BY <1>3, <3>1, <3>2 DEF DispatchDelete
  <2>2. entry' \in Entry /\ log' = log /\ held' = held
    BY <1>3, DeletedEntry DEF DispatchDelete
  <2> QED BY <1>3, <2>1, <2>2 DEF DispatchDelete, TypeInv, TypeOK, told
<1>4. CASE Drained(d)
  <2>1. run' \in [Devices -> Run]
    BY <1>4, StopTyped DEF Drained
  <2> QED BY <1>4, <2>1 DEF Drained, TypeInv, TypeOK, server, told
<1>5. CASE Pull(d)
  <2>1. run' \in [Devices -> Run]
    BY <1>5, PullTyped
  <2> QED BY <1>5, <2>1 DEF Pull, TypeInv, TypeOK, server, told
<1>6. CASE Apply(d)
  <2>1. /\ run' \in [Devices -> Run] /\ local' \in [Devices -> Local]
        /\ seen' \in [Devices -> Nat] /\ torn' \subseteq Devices
    BY <1>6, ApplyTyped
  <2> QED BY <1>6, <2>1 DEF Apply, TypeInv, TypeOK, server
<1>7. CASE PutTranslation(d)
  <2>1. /\ outbox' \in [Devices -> Seq(Item)] /\ run' \in [Devices -> Run]
        /\ local' \in [Devices -> Local]
    BY <1>7, PutTranslationTyped
  <2> QED BY <1>7, <2>1 DEF PutTranslation, TypeInv, TypeOK, server, told
<1> QED BY <1>1, <1>2, <1>3, <1>4, <1>5, <1>6, <1>7 DEF Sync

LEMMA TypeInit == Init => TypeInv
<1> SUFFICES ASSUME Init PROVE TypeInv
  OBVIOUS
<1>1. /\ log = {} /\ held = {} /\ entry = NoEntry /\ taps = 0 /\ tapped = {} /\ refused = {}
      /\ torn = {} /\ removals = 0 /\ reloads = 0
  BY DEF Init
<1>2. outbox \in [Devices -> Seq(Item)]
  <2>1. <<>> \in Seq(Item)
    OBVIOUS
  <2> QED BY <2>1 DEF Init
<1>3. local \in [Devices -> Local] /\ run \in [Devices -> Run]
  BY RestTyped DEF Init
<1>4. /\ seen \in [Devices -> Nat] /\ captured \in [Devices -> SUBSET Positions]
      /\ writes \in [Devices -> SUBSET Write] /\ removing \in [Devices -> Nat]
  BY DEF Init
<1>5. IsFiniteSet({})
  BY FS_EmptySet
<1>6. taps \in 0 .. MaxTaps /\ removals \in 0 .. MaxRemovals /\ reloads \in 0 .. MaxReloads
  BY <1>1, VocabularyAssumption
<1>7. entry \in Entry
  BY <1>1, RestTyped
<1> QED BY <1>1, <1>2, <1>3, <1>4, <1>5, <1>6, <1>7 DEF TypeInv, TypeOK

LEMMA TypeStep == TypeInv /\ [Next]_vars => TypeInv'
<1> SUFFICES ASSUME TypeInv, [Next]_vars PROVE TypeInv'
  OBVIOUS
<1>1. CASE \E d \in Devices : User(d) \/ Sync(d)
  BY <1>1, UserKeepsTypes, SyncKeepsTypes
<1>2. CASE HoldElsewhere
  <2>1. held' \subseteq Positions
    BY <1>2 DEF HoldElsewhere, TypeInv, TypeOK
  <2> QED BY <1>2, <2>1 DEF HoldElsewhere, client, told, TypeInv, TypeOK
<1>3. CASE UNCHANGED vars
  BY <1>3 DEF vars, server, client, told, TypeInv, TypeOK
<1> QED BY <1>1, <1>2, <1>3 DEF Next

\* Throughout every run, for any number of devices: the row, the queues and the
\* runs have their types, and no id and no position is in the log twice, however
\* batches are cut, retried and interleaved (InsertLookups, uq_lookup_click).
THEOREM TypeCorrect == Spec => []TypeOK
<1>1. TypeInv => TypeOK
  BY DEF TypeInv
<1> QED BY <1>1, TypeInit, TypeStep, PTL DEF Spec

-----------------------------------------------------------------------------
(* The row and the log *)

\* The server changes in three ways only: by storing a batch, by a deletion, and
\* by a tap of another word.
LEMMA StoreSteps ==
  ASSUME TypeInv, [Next]_vars
  PROVE  \/ UNCHANGED server
         \/ \E events \in Seq(Event) : SaveLookups(events)
         \/ DeleteVocabEntry
         \/ HoldElsewhere
<1>1. ASSUME NEW d \in Devices, User(d) PROVE UNCHANGED server
  BY <1>1 DEF User, captureLookup, saveManualTerm, Capture, GetLocalEntry, PutLocalEntry,
              removeVocabEntry, QueueDeletion, resetCaptureSession, Reload
<1>2. ASSUME NEW d \in Devices, flushLookups(d)
      PROVE  UNCHANGED server \/ \E events \in Seq(Event) : SaveLookups(events)
  <2> DEFINE chunk == Chunk(run[d].todo)
  <2>1. Events(chunk) \in Seq(Event)
    BY ChunkTyped DEF TypeInv, TypeOK, Run
  <2>2. UNCHANGED server \/ SaveLookups(Events(chunk))
    BY <1>2 DEF flushLookups
  <2> HIDE DEF chunk
  <2> QED BY <2>1, <2>2
<1>3. ASSUME NEW d \in Devices, DispatchSave(d)
      PROVE  UNCHANGED server \/ \E events \in Seq(Event) : SaveLookups(events)
  <2> DEFINE e == Head(run[d].todo).event
  <2>1. UNCHANGED server \/ SaveLookups(<<e>>)
    BY <1>3 DEF DispatchSave, server
  <2>2. <<e>> \in Seq(Event)
    BY <1>3, SaveTyped DEF DispatchSave, LookupsDone
  <2> HIDE DEF e
  <2> QED BY <2>1, <2>2
<1>4. ASSUME NEW d \in Devices,
             flushOutbox(d) \/ PutTranslation(d) \/ Drained(d) \/ Pull(d) \/ Apply(d)
      PROVE  UNCHANGED server
  BY <1>4 DEF flushOutbox, PutTranslation, Drained, Pull, Apply
<1>5. ASSUME NEW d \in Devices, DispatchDelete(d) PROVE DeleteVocabEntry
  BY <1>5 DEF DispatchDelete
<1>6. CASE UNCHANGED vars
  BY <1>6 DEF vars
<1> QED BY <1>1, <1>2, <1>3, <1>4, <1>5, <1>6 DEF Next, Sync

\* The row counts the events of the log and names the newest of them.
RowIsOfTheLog ==
  entry.state # "none" =>
    /\ log # {}
    /\ entry.count = Cardinality(log)
    /\ entry.latest = NewestOf(log)

LEMMA RowStep ==
  ASSUME TypeInv, RowIsOfTheLog, [Next]_vars PROVE RowIsOfTheLog'
<1>1. CASE UNCHANGED server
  BY <1>1 DEF server, RowIsOfTheLog
<1>2. ASSUME NEW events \in Seq(Event), SaveLookups(events) PROVE RowIsOfTheLog'
  <2>1. CASE log' = log
    BY <1>2, <2>1, SaveLookupsTyped DEF RowIsOfTheLog
  <2>2. CASE log' # log
    <3>1. entry' = Aggregate(log', entry.stamp + 1) /\ log \subseteq log'
      BY <1>2, <2>2, SaveLookupsTyped
    <3>2. log' # {}
      BY <2>2, <3>1
    <3> QED BY <3>1, <3>2 DEF RowIsOfTheLog, Aggregate
  <2> QED BY <2>1, <2>2
<1>3. CASE DeleteVocabEntry
  BY <1>3, DeletedEntry DEF RowIsOfTheLog
<1>4. CASE HoldElsewhere
  BY <1>4 DEF HoldElsewhere, RowIsOfTheLog
<1> QED BY <1>1, <1>2, <1>3, <1>4, StoreSteps

\* The row never goes back to an earlier tap, in whatever order any number of
\* devices deliver theirs (recomputeAggregate: ORDER BY occurred_at DESC, id DESC).
THEOREM LateTapsStayBehind == Spec => LatestNeverOlder
<1>1. Init => RowIsOfTheLog
  BY DEF Init, NoEntry, RowIsOfTheLog
<1>2. TypeInv /\ RowIsOfTheLog /\ [Next]_vars => RowIsOfTheLog'
  BY RowStep
<1>3. TypeInv /\ RowIsOfTheLog /\ RowIsOfTheLog' /\ [Next]_vars =>
        [entry.state # "none" => entry'.latest.at >= entry.latest.at]_vars
  <2> SUFFICES ASSUME TypeInv, RowIsOfTheLog, RowIsOfTheLog', [Next]_vars,
                      entry.state # "none"
               PROVE  entry'.latest.at >= entry.latest.at
    OBVIOUS
  <2>1. /\ log # {} /\ entry.latest = NewestOf(log) /\ log \in SUBSET Event
        /\ IsFiniteSet(log) /\ \A e, f \in log : e.id = f.id => e = f
    BY DEF RowIsOfTheLog, TypeInv, TypeOK
  <2>2. entry.latest \in log /\ entry.latest \in Event /\ entry.latest.at \in Int
    BY <2>1, NewestExists, EventNumbers
  <2>3. CASE entry'.latest = entry.latest
    BY <2>2, <2>3
  <2>4. ASSUME NEW events \in Seq(Event), SaveLookups(events)
        PROVE  entry'.latest.at >= entry.latest.at
    <3>1. CASE log' = log
      BY <2>3, <2>4, <3>1, SaveLookupsTyped
    <3>2. CASE log' # log
      <4>1. /\ log' \in SUBSET Event /\ IsFiniteSet(log') /\ log \subseteq log'
            /\ \A e, f \in log' : e.id = f.id => e = f
            /\ entry'.latest = NewestOf(log')
        BY <2>4, <3>2, SaveLookupsTyped DEF Clash, Aggregate
      <4>2. /\ NewestOf(log') \in Event
            /\ \A f \in log' : f.at <= NewestOf(log').at
        BY <2>1, <4>1, NewestExists
      <4>3. entry.latest.at <= entry'.latest.at /\ entry'.latest.at \in Int
        BY <2>2, <4>1, <4>2, EventNumbers
      <4> QED BY <2>2, <4>3
    <3> QED BY <3>1, <3>2
  <2>5. CASE UNCHANGED server \/ HoldElsewhere
    BY <2>3, <2>5 DEF server, HoldElsewhere
  <2>6. CASE DeleteVocabEntry
    BY <2>3, <2>6, DeletedEntry
  <2> QED BY <2>4, <2>5, <2>6, StoreSteps
<1> QED BY <1>1, <1>2, <1>3, TypeInit, TypeStep, PTL DEF Spec, LatestNeverOlder

\* Only a new event revives a removed word, so the retry of one that has been
\* stored does not (SaveLookups recomputes only keys with an inserted event).
THEOREM RetriesDoNotRevive == Spec => RetryDoesNotRevive
<1>1. TypeInv /\ [Next]_vars =>
        [entry.state = "deleted" /\ entry'.state = "live" => log' # log]_vars
  <2> SUFFICES ASSUME TypeInv, [Next]_vars, entry.state = "deleted",
                      entry'.state = "live", log' = log
               PROVE  FALSE
    OBVIOUS
  <2>1. CASE UNCHANGED server
    BY <2>1 DEF server
  <2>2. ASSUME NEW events \in Seq(Event), SaveLookups(events) PROVE FALSE
    BY <2>2, SaveLookupsTyped
  <2>3. CASE DeleteVocabEntry
    BY <2>3, DeletedEntry
  <2>4. CASE HoldElsewhere
    BY <2>4 DEF HoldElsewhere
  <2> QED BY <2>1, <2>2, <2>3, <2>4, StoreSteps
<1> QED BY <1>1, TypeInit, TypeStep, PTL DEF Spec, RetryDoesNotRevive

-----------------------------------------------------------------------------
(* The runs *)

\* How the cursors, the answers on their way and the saves in the middle change: a
\* seen moves to the stamp of the answer that is applied, an answer is the row
\* of the moment, and a run that goes on to a translation has stored its save.
LEMMA RunsMove ==
  ASSUME TypeInv, [Next]_vars, NEW c \in Devices
  PROVE  /\ \/ seen'[c] = seen[c]
            \/ /\ run[c].step = "apply" /\ run[c].got.state # "none"
               /\ seen'[c] = run[c].got.stamp
         /\ run'[c].step = "apply" =>
              \/ run'[c] = run[c]
              \/ run'[c].got \in {AsPulled, Nothing} /\ UNCHANGED entry
         /\ run'[c].step = "translate" =>
              \/ run'[c] = run[c]
              \/ /\ run[c].todo # <<>> /\ run'[c].todo = run[c].todo
                 /\ Head(run[c].todo).kind = "manual_lookup"
                 /\ SaveLookups(<<Head(run[c].todo).event>>)
                 /\ run'[c].row.shown
<1> DEFINE Same == run'[c] = run[c] \/ run'[c].step \notin {"apply", "translate"}
<1>0. /\ seen \in [Devices -> Nat] /\ run \in [Devices -> Run]
  BY DEF TypeInv, TypeOK
<1>1. ASSUME NEW d \in Devices, User(d) PROVE seen' = seen /\ Same
  <2>1. seen' = seen /\ run' \in {run, [run EXCEPT ![d] = NotRunning]}
    BY <1>1 DEF User, captureLookup, saveManualTerm, Capture, GetLocalEntry, PutLocalEntry,
                removeVocabEntry, QueueDeletion, resetCaptureSession, Reload
  <2> QED BY <1>0, <2>1, RestTyped
<1>2. ASSUME NEW d \in Devices, flushOutbox(d) PROVE seen' = seen /\ Same
  BY <1>2, FlushTyped DEF flushOutbox
<1>3. ASSUME NEW d \in Devices, Stop(d) PROVE Same
  BY <1>3, StopTyped
<1>4. ASSUME NEW d \in Devices, NEW items, Dequeue(d, items), run[d].step = "flush"
      PROVE  Same
  <2>1. run'[d].step = run[d].step /\ (c # d => run'[c] = run[c])
    BY <1>4, DequeueTyped
  <2> QED BY <1>4, <2>1
<1>5. ASSUME NEW d \in Devices, flushLookups(d) PROVE seen' = seen /\ Same
  BY <1>3, <1>4, <1>5 DEF flushLookups
<1>6. ASSUME NEW d \in Devices, DispatchSave(d)
      PROVE  /\ seen' = seen
             /\ \/ Same
                \/ /\ run[c].todo # <<>> /\ run'[c].todo = run[c].todo
                   /\ Head(run[c].todo).kind = "manual_lookup"
                   /\ SaveLookups(<<Head(run[c].todo).event>>)
                   /\ run'[c].row.shown /\ run'[c].step = "translate"
  <2> DEFINE item == Head(run[d].todo)
  <2>1. /\ seen' = seen /\ run[d].step = "flush" /\ run[d].todo # <<>>
        /\ item.kind = "manual_lookup"
        /\ \/ Dequeue(d, <<item>>) \/ Stop(d)
           \/ /\ SaveLookups(<<item.event>>) /\ local[d].shown
              /\ run' = [run EXCEPT ![d].step = "translate", ![d].row = local[d]]
    BY <1>6 DEF DispatchSave, LookupsDone
  <2> HIDE DEF item
  <2>2. CASE /\ SaveLookups(<<item.event>>) /\ local[d].shown
             /\ run' = [run EXCEPT ![d].step = "translate", ![d].row = local[d]]
    <3>1. /\ run'[d].step = "translate" /\ run'[d].todo = run[d].todo
          /\ run'[d].row = local[d] /\ (c # d => run'[c] = run[c])
      BY <2>2, TranslateTyped
    <3> QED BY <2>1, <2>2, <3>1 DEF item
  <2> QED BY <1>3, <1>4, <2>1, <2>2
<1>7. ASSUME NEW d \in Devices, DispatchDelete(d) PROVE seen' = seen /\ Same
  <2>1. seen' = seen /\ run[d].step = "flush" /\ (DequeueDeletion(d) \/ Stop(d))
    BY <1>7 DEF DispatchDelete, LookupsDone
  <2>2. ASSUME DequeueDeletion(d) PROVE Same
    <3>1. run'[d].step = run[d].step /\ (c # d => run'[c] = run[c])
      BY <1>7, <2>2, DequeueDeletionTyped DEF DispatchDelete, LookupsDone
    <3> QED BY <2>1, <3>1
  <2> QED BY <1>3, <2>1, <2>2
<1>8. ASSUME NEW d \in Devices, Drained(d) PROVE seen' = seen /\ Same
  BY <1>3, <1>8 DEF Drained
<1>9. ASSUME NEW d \in Devices, PutTranslation(d) PROVE seen' = seen /\ Same
  <2>1. seen' = seen
    BY <1>9 DEF PutTranslation
  <2> QED BY <1>9, <2>1, PutTranslationTyped
<1>10. ASSUME NEW d \in Devices, Pull(d)
       PROVE  /\ seen' = seen /\ UNCHANGED entry
              /\ Same \/ (run'[c].step = "apply" /\ run'[c].got \in {AsPulled, Nothing})
  <2>1. seen' = seen /\ UNCHANGED entry
    BY <1>10 DEF Pull, server
  <2>2. \/ run'[d] = NotRunning
        \/ run'[d].step = "apply" /\ run'[d].got \in {AsPulled, Nothing}
    BY <1>10, PullTyped
  <2>3. c # d => run'[c] = run[c]
    BY <1>10, PullTyped
  <2> QED BY <2>1, <2>2, <2>3, RestTyped
<1>11. ASSUME NEW d \in Devices, Apply(d)
       PROVE  /\ Same
              /\ \/ seen'[c] = seen[c]
                 \/ /\ run[c].step = "apply" /\ run[c].got.state # "none"
                    /\ seen'[c] = run[c].got.stamp
  <2>1. Same
    BY <1>11, ApplyTyped, RestTyped
  <2>2. /\ run[d].step = "apply"
        /\ \/ seen' = seen
           \/ run[d].got.state # "none" /\ seen' = [seen EXCEPT ![d] = run[d].got.stamp]
    BY <1>11 DEF Apply
  <2> QED BY <1>0, <2>1, <2>2
<1>12. CASE UNCHANGED vars \/ HoldElsewhere
  BY <1>12 DEF vars, server, client, told, HoldElsewhere
<1> QED BY <1>1, <1>2, <1>5, <1>6, <1>7, <1>8, <1>9, <1>10, <1>11, <1>12
        DEF Next, Sync

-----------------------------------------------------------------------------
(* Taps are not lost *)

\* The lookups a device holds, in its queue or in the run that drains it.
Carried(d) == {item \in Range(outbox[d]) \union Range(run[d].todo) : item # Deletion}

Stored(e) == e \in log \/ \E d \in Devices : \E item \in Carried(d) : item.event = e

\* An id names one tap, wherever its event is, and the ids given out so far are
\* those up to taps.
IdsNameTaps ==
  \A e, f \in Event : Stored(e) /\ Stored(f) =>
    e.id <= taps /\ e.pos \in tapped /\ (e.id = f.id => e.pos = f.pos)

LEMMA IdsStay ==
  ASSUME TypeInv, IdsNameTaps, taps' \in Int, taps <= taps', tapped \subseteq tapped',
         \A e \in Event : Stored(e)' =>
           \E f \in Event : Stored(f) /\ f.id = e.id /\ f.pos = e.pos
  PROVE  IdsNameTaps'
<1> SUFFICES ASSUME NEW e \in Event, NEW f \in Event, Stored(e)', Stored(f)'
             PROVE  e.id <= taps' /\ e.pos \in tapped' /\ (e.id = f.id => e.pos = f.pos)
  BY DEF IdsNameTaps
<1>1. PICK g \in Event : Stored(g) /\ g.id = e.id /\ g.pos = e.pos
  OBVIOUS
<1>2. PICK h \in Event : Stored(h) /\ h.id = f.id /\ h.pos = f.pos
  OBVIOUS
<1>3. g.id <= taps /\ g.pos \in tapped /\ (g.id = h.id => g.pos = h.pos)
  BY <1>1, <1>2 DEF IdsNameTaps
<1>4. taps \in Int /\ g.id \in Int
  BY EventNumbers DEF TypeInv, TypeOK
<1> QED BY <1>1, <1>2, <1>3, <1>4

\* What is held or in the log is an event.
LEMMA CarriedTyped ==
  ASSUME TypeInv, NEW d \in Devices, NEW item \in Carried(d)
  PROVE  item.event \in Event /\ Stored(item.event)
<1>1. outbox[d] \in Seq(Item) /\ run[d].todo \in Seq(Item)
  BY DEF TypeInv, TypeOK, Run
<1>2. item \in Item /\ item # Deletion
  BY <1>1 DEF Carried, Range
<1> QED BY <1>2, ItemKinds DEF Stored

\* A step of one device that adds no lookup to what it holds.
LEMMA CarriedShrinks ==
  ASSUME NEW d \in Devices,
         \A c \in Devices \ {d} : outbox'[c] = outbox[c] /\ run'[c] = run[c],
         \A item \in Range(outbox'[d]) \union Range(run'[d].todo) :
           item # Deletion => item \in Carried(d)
  PROVE  \A c \in Devices : Carried(c)' \subseteq Carried(c)
<1> SUFFICES ASSUME NEW c \in Devices PROVE Carried(c)' \subseteq Carried(c)
  OBVIOUS
<1>1. CASE c = d
  BY <1>1 DEF Carried
<1>2. CASE c # d
  BY <1>2 DEF Carried
<1> QED BY <1>1, <1>2

\* A delivery: copies of events the device holds are sent, they reach the log
\* or not, and what leaves the queue is in the log or refused.
LEMMA Deliveries ==
  ASSUME TypeInv, NEW d \in Devices, flushLookups(d) \/ DispatchSave(d)
  PROVE  \E events \in Seq(Event) :
           /\ \A e \in Range(events) :
                \E f \in Event : Stored(f) /\ f.id = e.id /\ f.pos = e.pos
           /\ UNCHANGED server \/ SaveLookups(events)
           /\ \/ UNCHANGED outbox
              \/ SaveLookups(events)
              \/ {e.pos : e \in Range(events)} \subseteq refused'
           /\ \A item \in Range(outbox[d]) :
                \/ item \in Range(outbox'[d])
                \/ \E e \in Range(events) : e.pos = item.event.pos
           /\ refused \subseteq refused'
           /\ \A c \in Devices \ {d} : outbox'[c] = outbox[c]
           /\ \A c \in Devices : Carried(c)' \subseteq Carried(c)
<1>1. /\ run[d].todo \in Seq(Item) /\ outbox[d] \in Seq(Item)
      /\ outbox \in [Devices -> Seq(Item)]
  BY DEF TypeInv, TypeOK, Run
<1>2. ASSUME NEW items, Dequeue(d, items)
      PROVE  /\ Range(outbox'[d]) = Range(outbox[d]) \ Range(items)
             /\ \A c \in Devices \ {d} : outbox'[c] = outbox[c]
             /\ \A c \in Devices : Carried(c)' \subseteq Carried(c)
  <2>1. /\ outbox' = [outbox EXCEPT ![d] = Without(outbox[d], items)]
        /\ run'[d].todo = Without(run[d].todo, items)
        /\ \A c \in Devices \ {d} : run'[c] = run[c]
    BY <1>2, DequeueTyped
  <2>2. /\ Range(Without(outbox[d], items)) = Range(outbox[d]) \ Range(items)
        /\ Range(Without(run[d].todo, items)) = Range(run[d].todo) \ Range(items)
    BY <1>1, WithoutTyped
  <2>3. /\ outbox'[d] = Without(outbox[d], items)
        /\ \A c \in Devices \ {d} : outbox'[c] = outbox[c]
    BY <1>1, <2>1
  <2>4. \A item \in Range(outbox'[d]) \union Range(run'[d].todo) :
          item # Deletion => item \in Carried(d)
    BY <2>1, <2>2, <2>3 DEF Carried
  <2> QED BY <2>1, <2>2, <2>3, <2>4, CarriedShrinks
<1>3. ASSUME Stop(d), UNCHANGED outbox
      PROVE  \A c \in Devices : Carried(c)' \subseteq Carried(c)
  <2>1. run'[d].todo = <<>> /\ \A c \in Devices \ {d} : run'[c] = run[c]
    BY <1>3, StopTyped
  <2>2. Range(run'[d].todo) = {}
    BY <2>1 DEF Range
  <2> QED BY <1>3, <2>1, <2>2, CarriedShrinks DEF Carried
<1>4. CASE flushLookups(d)
  <2> DEFINE chunk == Chunk(run[d].todo)
             events == Events(chunk)
  <2>1. events \in Seq(Event) /\ Range(events) = {item.event : item \in Range(chunk)}
    BY <1>1, ChunkTyped
  <2>2. \A item \in Range(chunk) : item \in Carried(d)
    BY <1>1, ChunkTyped DEF Carried
  <2>3. \/ SaveLookups(events) /\ Dequeue(d, chunk) /\ UNCHANGED refused
        \/ SaveLookups(events) /\ Stop(d) /\ UNCHANGED <<outbox, refused>>
        \/ /\ Dequeue(d, chunk) /\ UNCHANGED server
           /\ refused' = refused \union {e.pos : e \in Range(events)}
    BY <1>4 DEF flushLookups
  <2> HIDE DEF events, chunk
  <2>4. \A e \in Range(events) : \E f \in Event : Stored(f) /\ f.id = e.id /\ f.pos = e.pos
    BY <2>1, <2>2, CarriedTyped
  <2>5. \A item \in Range(chunk) : \E e \in Range(events) : e.pos = item.event.pos
    BY <2>1
  <2>6. CASE Dequeue(d, chunk)
    BY <1>2, <2>1, <2>3, <2>4, <2>5, <2>6
  <2>7. CASE Stop(d) /\ SaveLookups(events) /\ UNCHANGED <<outbox, refused>>
    BY <1>3, <2>1, <2>4, <2>7
  <2> QED BY <2>3, <2>6, <2>7
<1>5. CASE DispatchSave(d)
  <2> DEFINE item == Head(run[d].todo)
             events == <<item.event>>
  <2>1. /\ \/ SaveLookups(events) /\ UNCHANGED refused
           \/ /\ UNCHANGED server /\ Dequeue(d, <<item>>)
              /\ refused' = refused \union {item.event.pos}
        /\ \/ Dequeue(d, <<item>>)
           \/ Stop(d) /\ UNCHANGED outbox
           \/ /\ run' = [run EXCEPT ![d].step = "translate", ![d].row = local[d]]
              /\ UNCHANGED outbox
    BY <1>5 DEF DispatchSave
  <2>2. /\ item \in Range(run[d].todo) /\ item # Deletion
        /\ events \in Seq(Event) /\ Range(events) = {item.event}
        /\ Range(<<item>>) = {item}
    BY <1>5, SaveTyped DEF DispatchSave, LookupsDone
  <2> HIDE DEF item
  <2>3. item \in Carried(d)
    BY <2>2 DEF Carried
  <2>4. item.event \in Event /\ Stored(item.event)
    BY <2>3, CarriedTyped
  <2> HIDE DEF events
  <2>5. /\ \A e \in Range(events) :
             \E f \in Event : Stored(f) /\ f.id = e.id /\ f.pos = e.pos
        /\ \A i \in Range(<<item>>) : \E e \in Range(events) : e.pos = i.event.pos
        /\ {e.pos : e \in Range(events)} = {item.event.pos}
    BY <2>2, <2>4
  <2>6. \/ SaveLookups(events) /\ UNCHANGED refused
        \/ UNCHANGED server /\ refused' = refused \union {e.pos : e \in Range(events)}
    BY <2>1, <2>5
  <2>7. CASE Dequeue(d, <<item>>)
    <3>1. /\ \A i \in Range(outbox[d]) :
               \/ i \in Range(outbox'[d])
               \/ \E e \in Range(events) : e.pos = i.event.pos
          /\ \A c \in Devices \ {d} : outbox'[c] = outbox[c]
          /\ \A c \in Devices : Carried(c)' \subseteq Carried(c)
      BY <1>2, <2>5, <2>7
    <3>2. /\ UNCHANGED server \/ SaveLookups(events)
          /\ \/ SaveLookups(events)
             \/ {e.pos : e \in Range(events)} \subseteq refused'
          /\ refused \subseteq refused'
      BY <2>6
    <3> QED BY <2>2, <2>5, <3>1, <3>2
  <2>8. CASE UNCHANGED outbox /\ \A c \in Devices : Carried(c)' \subseteq Carried(c)
    BY <2>2, <2>5, <2>6, <2>8
  <2>9. CASE run' = [run EXCEPT ![d].step = "translate", ![d].row = local[d]]
             /\ UNCHANGED outbox
    <3>1. run'[d].todo = run[d].todo /\ \A c \in Devices \ {d} : run'[c] = run[c]
      BY <2>9, TranslateTyped
    <3>2. \A c \in Devices : Carried(c)' \subseteq Carried(c)
      BY <2>9, <3>1, CarriedShrinks DEF Carried
    <3> QED BY <2>8, <2>9, <3>2
  <2>10. CASE Stop(d) /\ UNCHANGED outbox
    BY <1>3, <2>8, <2>10
  <2> QED BY <2>1, <2>7, <2>9, <2>10
<1> QED BY <1>4, <1>5

\* A step that queues no lookup, sends none and takes none off a queue.
Quiet(d) ==
  \/ GetLocalEntry(d) \/ PutLocalEntry(d) \/ removeVocabEntry(d) \/ QueueDeletion(d)
  \/ resetCaptureSession(d) \/ Reload(d) \/ flushOutbox(d) \/ DispatchDelete(d)
  \/ Drained(d) \/ Pull(d) \/ Apply(d)

\* It adds nothing to what is carried.
LEMMA QuietSteps ==
  ASSUME TypeInv, NEW d \in Devices, Quiet(d)
  PROVE  /\ \A c \in Devices : Carried(c)' \subseteq Carried(c)
         /\ \A c \in Devices : \A item \in Range(outbox[c]) :
              item # Deletion => item \in Range(outbox'[c])
         /\ UNCHANGED <<log, held, taps, tapped, refused>>
<1>1. /\ run[d].todo \in Seq(Item) /\ outbox[d] \in Seq(Item)
      /\ outbox \in [Devices -> Seq(Item)] /\ run \in [Devices -> Run]
  BY DEF TypeInv, TypeOK, Run
<1>2. Range(<<>>) = {}
  BY DEF Range
<1>3. ASSUME run'[d] = run[d] \/ run'[d].todo \in {<<>>, outbox[d]},
             \A c \in Devices \ {d} : run'[c] = run[c],
             UNCHANGED outbox \/ outbox' = [outbox EXCEPT ![d] = Append(@, Deletion)]
      PROVE  /\ \A c \in Devices : Carried(c)' \subseteq Carried(c)
             /\ \A c \in Devices : \A item \in Range(outbox[c]) :
                  item # Deletion => item \in Range(outbox'[c])
  <2>1. Range(Append(outbox[d], Deletion)) = Range(outbox[d]) \union {Deletion}
    BY <1>1, DeletionIsItem, AppendRange
  <2>2. /\ \A c \in Devices \ {d} : outbox'[c] = outbox[c]
        /\ outbox'[d] \in {outbox[d], Append(outbox[d], Deletion)}
    BY <1>1, <1>3
  <2>3. /\ Range(outbox'[d]) \subseteq Range(outbox[d]) \union {Deletion}
        /\ Range(outbox[d]) \subseteq Range(outbox'[d])
    BY <2>1, <2>2
  <2>4. Range(run'[d].todo) \subseteq Range(outbox[d]) \union Range(run[d].todo)
    BY <1>2, <1>3
  <2>5. \A item \in Range(outbox'[d]) \union Range(run'[d].todo) :
          item # Deletion => item \in Carried(d)
    BY <2>3, <2>4 DEF Carried
  <2> QED BY <1>3, <2>2, <2>3, <2>5, CarriedShrinks
<1>4. CASE GetLocalEntry(d) \/ PutLocalEntry(d) \/ removeVocabEntry(d)
             \/ QueueDeletion(d) \/ resetCaptureSession(d)
  <2>1. /\ UNCHANGED run
        /\ UNCHANGED outbox \/ outbox' = [outbox EXCEPT ![d] = Append(@, Deletion)]
        /\ UNCHANGED <<log, held, taps, tapped, refused>>
    BY <1>4 DEF GetLocalEntry, PutLocalEntry, removeVocabEntry, QueueDeletion,
                resetCaptureSession, Queue, server, told
  <2> QED BY <1>3, <2>1
<1>5. CASE Reload(d)
  <2>1. /\ run' = [run EXCEPT ![d] = NotRunning]
        /\ UNCHANGED <<outbox, log, held, taps, tapped, refused>>
    BY <1>5 DEF Reload, server
  <2>2. run'[d].todo = <<>> /\ \A c \in Devices \ {d} : run'[c] = run[c]
    BY <1>1, <2>1, RestTyped
  <2> QED BY <1>3, <2>1, <2>2
<1>6. CASE flushOutbox(d)
  BY <1>3, <1>6, FlushTyped DEF flushOutbox, server, told
<1>7. CASE Drained(d)
  BY <1>3, <1>7, StopTyped DEF Drained, server, told
<1>8. CASE Pull(d)
  BY <1>3, <1>8, PullTyped DEF Pull, server, told
<1>9. CASE Apply(d)
  BY <1>3, <1>9, ApplyTyped, RestTyped DEF Apply, server
<1>10. CASE DispatchDelete(d)
  <2>1. UNCHANGED <<log, held, taps, tapped, refused>>
    BY <1>10, DeletedEntry DEF DispatchDelete, told
  <2>2. CASE Stop(d) /\ UNCHANGED outbox
    BY <1>3, <2>1, <2>2, StopTyped
  <2>3. CASE DequeueDeletion(d)
    <3>1. run[d].todo # <<>>
      BY <1>10 DEF DispatchDelete, LookupsDone
    <3>2. /\ Range(outbox'[d]) \subseteq Range(outbox[d])
          /\ Range(outbox[d]) \subseteq Range(outbox'[d]) \union {Deletion}
          /\ \A c \in Devices \ {d} : outbox'[c] = outbox[c]
          /\ run'[d].todo = Tail(run[d].todo)
          /\ \A c \in Devices \ {d} : run'[c] = run[c]
      BY <2>3, <3>1, DequeueDeletionTyped
    <3>3. Range(Tail(run[d].todo)) \subseteq Range(run[d].todo)
      BY <1>1, <3>1 DEF Range
    <3>4. \A item \in Range(outbox'[d]) \union Range(run'[d].todo) :
            item # Deletion => item \in Carried(d)
      BY <3>2, <3>3 DEF Carried
    <3>5. \A c \in Devices : Carried(c)' \subseteq Carried(c)
      BY <3>2, <3>4, CarriedShrinks
    <3> QED BY <2>1, <3>2, <3>5
  <2> QED BY <1>10, <2>2, <2>3 DEF DispatchDelete
<1> QED BY <1>4, <1>5, <1>6, <1>7, <1>8, <1>9, <1>10 DEF Quiet

\* A translation that is put takes its own save off the queue, at most.
LEMMA PutCarries ==
  ASSUME TypeInv, NEW d \in Devices, PutTranslation(d)
  PROVE  \A c \in Devices : Carried(c)' \subseteq Carried(c)
<1>1. /\ \A c \in Devices \ {d} : run'[c] = run[c] /\ outbox'[c] = outbox[c]
      /\ Range(run'[d].todo) \subseteq Range(run[d].todo)
      /\ Range(outbox'[d]) \subseteq Range(outbox[d])
  BY PutTranslationTyped
<1>2. \A item \in Range(outbox'[d]) \union Range(run'[d].todo) :
        item # Deletion => item \in Carried(d)
  BY <1>1 DEF Carried
<1> QED BY <1>1, <1>2, CarriedShrinks

\* A step that takes nothing new leaves what the ids name.
LEMMA IdsKept ==
  ASSUME TypeInv, IdsNameTaps, UNCHANGED <<taps, tapped>>,
         \A c \in Devices : Carried(c)' \subseteq Carried(c),
         \A e \in log' : e \in log \/
           \E f \in Event : Stored(f) /\ f.id = e.id /\ f.pos = e.pos
  PROVE  IdsNameTaps'
<1>1. taps \in Int
  BY DEF TypeInv, TypeOK
<1>2. \A e \in Event : Stored(e)' =>
        \E f \in Event : Stored(f) /\ f.id = e.id /\ f.pos = e.pos
  BY DEF Stored
<1> QED BY <1>1, <1>2, IdsStay

LEMMA IdsStep == ASSUME TypeInv, IdsNameTaps, [Next]_vars PROVE IdsNameTaps'
<1>1. ASSUME NEW d \in Devices, captureLookup(d) \/ saveManualTerm(d)
      PROVE  IdsNameTaps'
  <2>1. PICK e \in Event, kind \in {"lookup", "manual_lookup"} :
          /\ Capture(d, e, kind) /\ [kind |-> kind, event |-> e] \in Item
          /\ [kind |-> kind, event |-> e] # Deletion
    BY <1>1, CaptureTyped
  <2> DEFINE item == [kind |-> kind, event |-> e]
  <2>2. item.event = e
    OBVIOUS
  <2>3. /\ taps \in Int /\ taps' = taps + 1 /\ e.id = taps + 1
        /\ outbox[d] \in Seq(Item) /\ outbox \in [Devices -> Seq(Item)]
        /\ outbox' = [outbox EXCEPT ![d] = Append(outbox[d], item)]
        /\ tapped' = tapped \union {e.pos}
        /\ UNCHANGED <<run, log>>
    BY <2>1 DEF Capture, Queue, TypeInv, TypeOK, server
  <2> HIDE DEF item
  <2>4. /\ Range(outbox'[d]) = Range(outbox[d]) \union {item}
        /\ \A c \in Devices \ {d} : outbox'[c] = outbox[c]
    BY <2>1, <2>3, AppendRange DEF item
  <2>5. \A c \in Devices : Carried(c)' \subseteq Carried(c) \union {item}
    <3> SUFFICES ASSUME NEW c \in Devices PROVE Carried(c)' \subseteq Carried(c) \union {item}
      OBVIOUS
    <3>1. Range(outbox'[c]) \subseteq Range(outbox[c]) \union {item}
      BY <2>4
    <3> QED BY <2>3, <3>1 DEF Carried
  <2>6. \A f \in Event : Stored(f)' => Stored(f) \/ f = e
    BY <2>2, <2>3, <2>5 DEF Stored
  <2>7. \A f \in Event : Stored(f) => f.id <= taps /\ f.pos \in tapped
    BY DEF IdsNameTaps
  <2>8. \A f \in Event : f.id \in Int
    BY EventNumbers
  <2> QED BY <2>3, <2>6, <2>7, <2>8 DEF IdsNameTaps
<1>2. ASSUME NEW d \in Devices, flushLookups(d) \/ DispatchSave(d)
      PROVE  IdsNameTaps'
  <2>1. PICK events \in Seq(Event) :
          /\ \A e \in Range(events) :
               \E f \in Event : Stored(f) /\ f.id = e.id /\ f.pos = e.pos
          /\ UNCHANGED server \/ SaveLookups(events)
          /\ \A c \in Devices : Carried(c)' \subseteq Carried(c)
    BY <1>2, Deliveries
  <2>2. log' \subseteq log \union Range(events)
    BY <2>1, SaveLookupsTyped DEF server
  <2>3. UNCHANGED <<taps, tapped>>
    BY <1>2 DEF flushLookups, DispatchSave
  <2> QED BY <2>1, <2>2, <2>3, IdsKept
<1>3. ASSUME NEW d \in Devices, Quiet(d)
      PROVE  IdsNameTaps'
  BY <1>3, QuietSteps, IdsKept
<1>4. ASSUME NEW d \in Devices, PutTranslation(d) PROVE IdsNameTaps'
  <2>1. UNCHANGED <<taps, tapped, log>>
    BY <1>4 DEF PutTranslation, server, told
  <2> QED BY <1>4, <2>1, PutCarries, IdsKept
<1>5. CASE UNCHANGED vars \/ HoldElsewhere
  BY <1>5 DEF vars, server, client, told, HoldElsewhere, IdsNameTaps, Stored, Carried
<1> QED BY <1>1, <1>2, <1>3, <1>4, <1>5 DEF Next, User, Sync, Quiet

\* What is in the log stays there, and so does what another word holds.
LEMMA LogGrows ==
  ASSUME TypeInv, [Next]_vars PROVE log \subseteq log' /\ held \subseteq held'
<1>1. CASE UNCHANGED server
  BY <1>1 DEF server
<1>2. ASSUME NEW events \in Seq(Event), SaveLookups(events)
      PROVE  log \subseteq log' /\ held \subseteq held'
  BY <1>2, SaveLookupsTyped
<1>3. CASE DeleteVocabEntry \/ HoldElsewhere
  BY <1>3 DEF DeleteVocabEntry, HoldElsewhere
<1> QED BY <1>1, <1>2, <1>3, StoreSteps

\* Sent events are in the log afterwards, or another word has their place.
LEMMA SentEventsLand ==
  ASSUME TypeInv, IdsNameTaps, NEW events \in Seq(Event), SaveLookups(events),
         \A e \in Range(events) : \E f \in Event : Stored(f) /\ f.id = e.id /\ f.pos = e.pos,
         NEW e \in Range(events), e.pos \notin held'
  PROVE  \E f \in log' : f.pos = e.pos
<1>1. \A x, y \in log \union Range(events) : x.id = y.id => x.pos = y.pos
  <2>1. \A x \in log \union Range(events) :
          \E f \in Event : Stored(f) /\ f.id = x.id /\ f.pos = x.pos
    BY DEF Stored, TypeInv, TypeOK
  <2> QED BY <2>1 DEF IdsNameTaps
<1>2. PICK i \in DOMAIN events : events[i] = e
  BY DEF Range
<1> QED BY <1>1, <1>2, LandedCovers DEF SaveLookups

\* A run that puts a translation has stored the save it belongs to, and the row it
\* puts is one that was shown.
SavesRecorded ==
  \A d \in Devices : run[d].step = "translate" =>
    /\ run[d].todo # <<>>
    /\ Head(run[d].todo).kind = "manual_lookup"
    /\ run[d].row.shown
    /\ LET p == Head(run[d].todo).event.pos IN InLog(p) \/ p \in held

LEMMA SavesStep ==
  ASSUME TypeInv, IdsNameTaps, SavesRecorded, [Next]_vars PROVE SavesRecorded'
<1> SUFFICES ASSUME NEW d \in Devices, run'[d].step = "translate"
             PROVE  /\ run'[d].todo # <<>>
                    /\ Head(run'[d].todo).kind = "manual_lookup"
                    /\ run'[d].row.shown
                    /\ \/ \E e \in log' : e.pos = Head(run'[d].todo).event.pos
                       \/ Head(run'[d].todo).event.pos \in held'
  BY DEF SavesRecorded, InLog
<1>1. CASE run'[d] = run[d]
  BY <1>1, LogGrows DEF SavesRecorded, InLog
<1>2. CASE /\ run[d].todo # <<>> /\ run'[d].todo = run[d].todo
           /\ Head(run[d].todo).kind = "manual_lookup"
           /\ SaveLookups(<<Head(run[d].todo).event>>)
           /\ run'[d].row.shown
  <2> DEFINE item == Head(run[d].todo)
             events == <<item.event>>
  <2>1. /\ item \in Range(run[d].todo) /\ item # Deletion
        /\ events \in Seq(Event) /\ Range(events) = {item.event}
    BY <1>2, SaveTyped
  <2>2. item \in Carried(d) /\ SaveLookups(events)
    BY <1>2, <2>1 DEF Carried
  <2> HIDE DEF events, item
  <2>3. item.event \in Event /\ Stored(item.event)
    BY <2>2, CarriedTyped
  <2>4. item.event.pos \in held' \/ \E f \in log' : f.pos = item.event.pos
    BY <2>1, <2>2, <2>3, SentEventsLand
  <2> QED BY <1>2, <2>4 DEF item
<1> QED BY <1>1, <1>2, RunsMove


\* Where the tap at p is: in the log, queued, refused, or another word's place.
LEMMA TapsStep ==
  ASSUME TypeInv, IdsNameTaps, SavesRecorded, TapsAreNotLost, [Next]_vars
  PROVE  TapsAreNotLost'
<1> DEFINE On(c, p) ==
             \E item \in Range(outbox[c]) : item # Deletion /\ item.event.pos = p
           Kept(p) == \/ \E e \in log : e.pos = p
                      \/ \E c \in Devices : On(c, p)
                      \/ p \in refused \union held
<1>1. \A p \in tapped : Kept(p)
  BY DEF TapsAreNotLost, InLog, Queued
<1>2. (\A p \in tapped' : Kept(p)') => TapsAreNotLost'
  BY DEF TapsAreNotLost, InLog, Queued
<1>3. ASSUME refused \subseteq refused', UNCHANGED tapped,
             \A c \in Devices : \A item \in Range(outbox[c]) :
               item # Deletion => \/ item \in Range(outbox'[c])
                                  \/ \E e \in log' : e.pos = item.event.pos
                                  \/ item.event.pos \in refused' \union held'
      PROVE  \A p \in tapped' : Kept(p)'
  <2> SUFFICES ASSUME NEW p \in tapped PROVE Kept(p)'
    BY <1>3
  <2>0. log \subseteq log' /\ held \subseteq held'
    BY LogGrows
  <2>1. CASE (\E e \in log : e.pos = p) \/ p \in refused \union held
    BY <1>3, <2>0, <2>1
  <2>2. ASSUME NEW c \in Devices, On(c, p) PROVE Kept(p)'
    BY <1>3, <2>2
  <2> QED BY <1>1, <2>1, <2>2
<1>4. ASSUME NEW d \in Devices, captureLookup(d) \/ saveManualTerm(d)
      PROVE  \A p \in tapped' : Kept(p)'
  <2>1. PICK e \in Event, kind \in {"lookup", "manual_lookup"} :
          /\ Capture(d, e, kind) /\ [kind |-> kind, event |-> e] \in Item
          /\ [kind |-> kind, event |-> e] # Deletion
    BY <1>4, CaptureTyped
  <2> DEFINE item == [kind |-> kind, event |-> e]
  <2>2. item.event = e
    OBVIOUS
  <2>3. /\ outbox[d] \in Seq(Item) /\ outbox \in [Devices -> Seq(Item)]
        /\ outbox' = [outbox EXCEPT ![d] = Append(outbox[d], item)]
        /\ tapped' = tapped \union {e.pos} /\ UNCHANGED <<log, held, refused>>
    BY <2>1 DEF Capture, Queue, TypeInv, TypeOK, server
  <2> HIDE DEF item
  <2>4. /\ Range(outbox'[d]) = Range(outbox[d]) \union {item}
        /\ \A c \in Devices \ {d} : outbox'[c] = outbox[c]
    BY <2>1, <2>3, AppendRange DEF item
  <2>5. \A c \in Devices : Range(outbox[c]) \subseteq Range(outbox'[c])
    BY <2>4
  <2>6. \A p \in tapped : Kept(p)'
    BY <1>1, <2>3, <2>5
  <2>7. Kept(e.pos)'
    BY <2>1, <2>2, <2>4 DEF item
  <2> QED BY <2>3, <2>6, <2>7
<1>5. ASSUME NEW d \in Devices, flushLookups(d) \/ DispatchSave(d)
      PROVE  \A p \in tapped' : Kept(p)'
  <2>1. PICK events \in Seq(Event) :
          /\ \A e \in Range(events) :
               \E f \in Event : Stored(f) /\ f.id = e.id /\ f.pos = e.pos
          /\ UNCHANGED server \/ SaveLookups(events)
          /\ \/ UNCHANGED outbox
             \/ SaveLookups(events)
             \/ {e.pos : e \in Range(events)} \subseteq refused'
          /\ \A item \in Range(outbox[d]) :
               \/ item \in Range(outbox'[d])
               \/ \E e \in Range(events) : e.pos = item.event.pos
          /\ refused \subseteq refused'
          /\ \A c \in Devices \ {d} : outbox'[c] = outbox[c]
    BY <1>5, Deliveries
  <2>2. UNCHANGED tapped
    BY <1>5 DEF flushLookups, DispatchSave
  <2>3. ASSUME NEW item \in Range(outbox[d])
        PROVE  \/ item \in Range(outbox'[d])
               \/ \E e \in log' : e.pos = item.event.pos
               \/ item.event.pos \in refused' \union held'
    BY <2>1, SentEventsLand
  <2> QED BY <1>3, <2>1, <2>2, <2>3
<1>6. ASSUME NEW d \in Devices, Quiet(d) PROVE \A p \in tapped' : Kept(p)'
  BY <1>3, <1>6, QuietSteps
<1>7. ASSUME NEW d \in Devices, PutTranslation(d) PROVE \A p \in tapped' : Kept(p)'
  <2>1. UNCHANGED <<log, held, tapped, refused>>
    BY <1>7 DEF PutTranslation, server, told
  <2>2. /\ \A c \in Devices \ {d} : outbox'[c] = outbox[c]
        /\ \/ UNCHANGED outbox
           \/ Range(outbox'[d]) = Range(outbox[d]) \ {Head(run[d].todo)}
    BY <1>7, PutTranslationTyped
  <2> DEFINE p == Head(run[d].todo).event.pos
  <2>3. (\E e \in log : e.pos = p) \/ p \in held
    BY <1>7 DEF PutTranslation, SavesRecorded, InLog
  <2> QED BY <1>3, <2>1, <2>2, <2>3
<1>8. CASE UNCHANGED vars \/ HoldElsewhere
  <2>1. UNCHANGED <<outbox, tapped, refused>>
    BY <1>8 DEF vars, server, client, told, HoldElsewhere
  <2> QED BY <1>2, <1>3, <2>1
<1> QED BY <1>2, <1>4, <1>5, <1>6, <1>7, <1>8 DEF Next, User, Sync, Quiet

\* A word that was tapped is in the log, still queued on some device, was refused
\* by the server or stands where another word was tapped: no lost answer, reload,
\* concurrent tap or deletion drops it, for any number of devices and taps
\* (flushOutbox dequeues only what was acknowledged, and only the items it sent).
THEOREM NoTapIsLost == Spec => []TapsAreNotLost
<1>1. Init => IdsNameTaps /\ SavesRecorded /\ TapsAreNotLost
  <2>1. Init => /\ log = {} /\ tapped = {}
                /\ \A d \in Devices : Carried(d) = {} /\ run[d].step = "idle"
    BY RestTyped DEF Init, Carried, Range
  <2> QED BY <2>1 DEF IdsNameTaps, Stored, SavesRecorded, TapsAreNotLost
<1>2. TypeInv /\ IdsNameTaps /\ SavesRecorded /\ TapsAreNotLost /\ [Next]_vars
        => IdsNameTaps' /\ SavesRecorded' /\ TapsAreNotLost'
  BY IdsStep, SavesStep, TapsStep
<1> QED BY <1>1, <1>2, TypeInit, TypeStep, PTL DEF Spec

-----------------------------------------------------------------------------
(* Every tap counts once *)

\* No event of the log is where another word was tapped.
Apart == \A e \in log : e.pos \notin held

LEMMA ApartStep == ASSUME TypeInv, Apart, [Next]_vars PROVE Apart'
<1>1. CASE UNCHANGED server
  BY <1>1 DEF server, Apart
<1>2. ASSUME NEW events \in Seq(Event), SaveLookups(events) PROVE Apart'
  BY <1>2, SaveLookupsTyped DEF Apart
<1>3. CASE DeleteVocabEntry
  BY <1>3, DeletedEntry DEF Apart
<1>4. CASE HoldElsewhere
  BY <1>4 DEF HoldElsewhere, Apart
<1> QED BY <1>1, <1>2, <1>3, <1>4, StoreSteps

\* The log has one event for every place in it.
LEMMA PlacesOfTheLog ==
  ASSUME TypeInv
  PROVE  /\ IsFiniteSet({e.pos : e \in log})
         /\ Cardinality({e.pos : e \in log}) = Cardinality(log)
         /\ Cardinality(log) \in Nat
<1> DEFINE P == {e.pos : e \in log}
           f == [e \in log |-> e.pos]
<1>1. IsFiniteSet(log) /\ \A e, g \in log : e.pos = g.pos => e = g
  BY DEF TypeInv, TypeOK
<1>2. f \in [log -> P] /\ \A e \in log : f[e] = e.pos
  OBVIOUS
<1>3. f \in Injection(log, P)
  BY <1>1, <1>2 DEF Injection, IsInjective
<1>4. f \in Surjection(log, P)
  BY <1>2 DEF Surjection
<1>5. f \in Bijection(log, P)
  BY <1>3, <1>4 DEF Bijection
<1> HIDE DEF f, P
<1>6. IsFiniteSet(P) /\ Cardinality(log) = Cardinality(P)
  BY <1>1, <1>5, FS_Bijection DEF ExistsBijection
<1>7. Cardinality(log) \in Nat
  BY <1>1, FS_CardinalityType
<1> QED BY <1>6, <1>7 DEF P

\* The row of a word counts the places where it was tapped, each of them once,
\* for any number of devices, taps and retries: what is delivered twice, or on
\* two devices, counts once, and what nobody has still to send has been counted
\* (INSERT OR IGNORE, recomputeAggregate).
THEOREM TapsCountOnce == Spec => []EachTapCountsOnce
<1>1. TypeInv /\ IdsNameTaps /\ RowIsOfTheLog /\ Apart /\ TapsAreNotLost
        => EachTapCountsOnce
  <2> SUFFICES ASSUME TypeInv, IdsNameTaps, RowIsOfTheLog, Apart, TapsAreNotLost,
                      entry.state # "none"
               PROVE  /\ entry.count <= Cardinality(tapped \ held)
                      /\ entry.count >= Cardinality(
                           {p \in tapped \ (refused \union held) : ~Queued(p)})
    BY DEF EachTapCountsOnce
  <2> DEFINE P == {e.pos : e \in log}
             Out == {p \in tapped \ (refused \union held) : ~Queued(p)}
  <2>1. /\ IsFiniteSet(P) /\ Cardinality(P) = entry.count /\ entry.count \in Nat
    BY PlacesOfTheLog DEF RowIsOfTheLog
  <2>2. P \subseteq tapped \ held
    BY DEF IdsNameTaps, Stored, Apart, TypeInv, TypeOK
  <2>3. IsFiniteSet(tapped \ held)
    BY FS_Subset DEF TypeInv
  <2>4. Out \subseteq P
    BY DEF TapsAreNotLost, InLog
  <2> HIDE DEF P, Out
  <2>5. Cardinality(P) <= Cardinality(tapped \ held)
    BY <2>2, <2>3, FS_Subset
  <2>6. IsFiniteSet(Out) /\ Cardinality(Out) <= Cardinality(P)
    BY <2>1, <2>4, FS_Subset
  <2>7. Cardinality(Out) \in Nat /\ Cardinality(tapped \ held) \in Nat
    BY <2>3, <2>6, FS_CardinalityType
  <2> QED BY <2>1, <2>5, <2>6, <2>7 DEF Out
<1>2. Init => IdsNameTaps /\ RowIsOfTheLog /\ Apart
  <2>1. Init => /\ log = {} /\ entry.state = "none"
                /\ \A d \in Devices : Carried(d) = {}
    BY RestTyped DEF Init, Carried, Range, NoEntry
  <2> QED BY <2>1 DEF IdsNameTaps, Stored, RowIsOfTheLog, Apart
<1>3. TypeInv /\ IdsNameTaps /\ RowIsOfTheLog /\ Apart /\ [Next]_vars
        => IdsNameTaps' /\ RowIsOfTheLog' /\ Apart'
  BY IdsStep, RowStep, ApartStep
<1> QED BY <1>1, <1>2, <1>3, TypeInit, TypeStep, NoTapIsLost, PTL DEF Spec

-----------------------------------------------------------------------------
(* What the devices show *)

\* No device is ahead of the server, and an answer on its way that carries the
\* last change carries the row as it is.
RowsSeen ==
  \A d \in Devices :
    /\ seen[d] <= entry.stamp
    /\ run[d].step = "apply" /\ run[d].got.state # "none" =>
         /\ run[d].got.stamp <= entry.stamp
         /\ run[d].got.stamp = entry.stamp => run[d].got.state = entry.state

\* The row changes with its stamp; what has changed no device has seen.
LEMMA StampGrows ==
  ASSUME TypeInv, [Next]_vars
  PROVE  /\ entry.stamp \in Int /\ entry'.stamp \in Int
         /\ entry' = entry \/ entry'.stamp = entry.stamp + 1
<1>1. entry \in Entry
  BY DEF TypeInv, TypeOK
<1>2. entry.stamp \in Int
  BY <1>1 DEF Entry
<1>3. CASE UNCHANGED server \/ HoldElsewhere
  BY <1>2, <1>3 DEF server, HoldElsewhere
<1>4. ASSUME NEW events \in Seq(Event), SaveLookups(events)
      PROVE  entry' = entry \/ entry'.stamp = entry.stamp + 1
  BY <1>4, SaveLookupsTyped DEF Aggregate
<1>5. CASE DeleteVocabEntry
  BY <1>2, <1>5, DeletedEntry
<1> QED BY <1>2, <1>3, <1>4, <1>5, StoreSteps

LEMMA SeenStep == ASSUME TypeInv, RowsSeen, [Next]_vars PROVE RowsSeen'
<1> SUFFICES ASSUME NEW c \in Devices
             PROVE  /\ seen'[c] <= entry'.stamp
                    /\ run'[c].step = "apply" /\ run'[c].got.state # "none" =>
                         /\ run'[c].got.stamp <= entry'.stamp
                         /\ run'[c].got.stamp = entry'.stamp =>
                              run'[c].got.state = entry'.state
  BY DEF RowsSeen
<1>1. /\ entry.stamp \in Int /\ entry'.stamp \in Int
      /\ entry' = entry \/ entry'.stamp = entry.stamp + 1
  BY StampGrows
<1>2. /\ seen[c] <= entry.stamp
      /\ run[c].step = "apply" /\ run[c].got.state # "none" =>
           /\ run[c].got.stamp <= entry.stamp
           /\ run[c].got.stamp = entry.stamp => run[c].got.state = entry.state
  BY DEF RowsSeen
<1>3. seen[c] \in Int /\ run[c].got.stamp \in Int
  BY DEF TypeInv, TypeOK, Run, Pulled
<1>4. seen'[c] <= entry'.stamp
  <2>1. \/ seen'[c] = seen[c]
        \/ /\ run[c].step = "apply" /\ run[c].got.state # "none"
           /\ seen'[c] = run[c].got.stamp
    BY RunsMove
  <2>2. seen'[c] \in Int /\ seen'[c] <= entry.stamp
    BY <1>2, <1>3, <2>1
  <2>3. entry.stamp <= entry'.stamp
    BY <1>1
  <2> QED BY <1>1, <2>2, <2>3
<1>5. ASSUME run'[c].step = "apply", run'[c].got.state # "none"
      PROVE  /\ run'[c].got.stamp <= entry'.stamp
             /\ run'[c].got.stamp = entry'.stamp => run'[c].got.state = entry'.state
  <2>1. CASE run'[c] = run[c]
    BY <1>1, <1>2, <1>3, <1>5, <2>1
  <2>2. CASE run'[c].got \in {AsPulled, Nothing} /\ UNCHANGED entry
    <3>1. run'[c].got.state = entry.state /\ run'[c].got.stamp = entry.stamp
      BY <1>5, <2>2 DEF Nothing, AsPulled
    <3> QED BY <1>1, <2>2, <3>1
  <2> QED BY <1>5, <2>1, <2>2, RunsMove
<1> QED BY <1>4, <1>5

\* A deletion stays queued until it is sent.
LEMMA DeletionsStay ==
  ASSUME TypeInv, NEW d \in Devices, NEW items, Dequeue(d, items),
         Deletion \notin Range(items), NEW c \in Devices
  PROVE  Deletion \in Range(outbox[c]) => Deletion \in Range(outbox'[c])
<1>1. outbox \in [Devices -> Seq(Item)]
  BY DEF TypeInv, TypeOK
<1>2. outbox' = [outbox EXCEPT ![d] = Without(outbox[d], items)]
  BY DequeueTyped
<1>3. Range(Without(outbox[d], items)) = Range(outbox[d]) \ Range(items)
  BY <1>1, WithoutTyped
<1> QED BY <1>1, <1>2, <1>3

\* How the row a device shows changes: it keeps what the server does not know
\* otherwise, the user removes it, an answer is applied, or the word is gone.
LEMMA RowsMove ==
  ASSUME TypeInv, SavesRecorded, [Next]_vars, NEW c \in Devices
  PROVE  \/ /\ local[c].shown => local'[c].shown
            /\ seen'[c] = seen[c]
            /\ Removed(c) => Removed(c)'
         \/ Removed(c)'
         \/ /\ run[c].step = "apply" /\ run[c].got.state # "none"
            /\ seen'[c] = run[c].got.stamp
            /\ run[c].got.state = "live" => local'[c].shown
         \/ entry'.state # "live"
<1> DEFINE Stays == /\ local[c].shown => local'[c].shown
                    /\ seen'[c] = seen[c]
                    /\ Removed(c) => Removed(c)'
           Applied == /\ run[c].step = "apply" /\ run[c].got.state # "none"
                      /\ seen'[c] = run[c].got.stamp
                      /\ run[c].got.state = "live" => local'[c].shown
<1>1. /\ local \in [Devices -> Local] /\ outbox \in [Devices -> Seq(Item)]
      /\ seen \in [Devices -> Nat] /\ run \in [Devices -> Run]
      /\ removing \in [Devices -> Nat] /\ torn \subseteq Devices
  BY DEF TypeInv, TypeOK
<1>2. CASE UNCHANGED <<local, outbox, seen, removing, torn>>
  BY <1>2 DEF Removed
<1>3. ASSUME NEW d \in Devices, captureLookup(d) \/ saveManualTerm(d) PROVE Stays
  <2>1. PICK e \in Event, kind \in {"lookup", "manual_lookup"} :
          /\ Capture(d, e, kind) /\ [kind |-> kind, event |-> e] \in Item
    BY <1>3, CaptureTyped
  <2> DEFINE item == [kind |-> kind, event |-> e]
  <2>2. /\ outbox' = [outbox EXCEPT ![d] = Append(outbox[d], item)]
        /\ UNCHANGED <<local, seen, removing, torn>>
    BY <1>1, <2>1 DEF Capture, Queue
  <2>3. Range(Append(outbox[d], item)) = Range(outbox[d]) \union {item}
    BY <1>1, <2>1, AppendRange
  <2> HIDE DEF item
  <2>4. Deletion \in Range(outbox[c]) => Deletion \in Range(outbox'[c])
    BY <1>1, <2>2, <2>3
  <2> QED BY <2>2, <2>4 DEF Removed
<1>4. ASSUME NEW d \in Devices, PutLocalEntry(d) PROVE Stays
  <2>1. /\ UNCHANGED <<outbox, seen, removing, torn>>
        /\ \/ UNCHANGED local
           \/ \E w : local' = [local EXCEPT ![d] = [w.row EXCEPT !.shown = TRUE]] /\ w \in Write
    BY <1>4 DEF PutLocalEntry, told, TypeInv, TypeOK
  <2>2. ASSUME NEW w \in Write PROVE [w.row EXCEPT !.shown = TRUE].shown
    BY DEF Write, Local
  <2> QED BY <1>1, <2>1, <2>2 DEF Removed
<1>5. ASSUME NEW d \in Devices, removeVocabEntry(d) PROVE Stays \/ Removed(c)'
  <2>1. /\ local' = [local EXCEPT ![d] = NotShown]
        /\ removing' = [removing EXCEPT ![d] = @ + 1]
        /\ UNCHANGED <<outbox, seen, torn>>
    BY <1>5 DEF removeVocabEntry
  <2>2. CASE c = d
    BY <1>1, <2>1, <2>2 DEF Removed
  <2>3. CASE c # d
    BY <1>1, <2>1, <2>3 DEF Removed
  <2> QED BY <2>2, <2>3
<1>6. ASSUME NEW d \in Devices, QueueDeletion(d) PROVE Stays
  <2>1. /\ outbox' = [outbox EXCEPT ![d] = Append(outbox[d], Deletion)]
        /\ removing' = [removing EXCEPT ![d] = @ - 1]
        /\ UNCHANGED <<local, seen, torn>>
    BY <1>1, <1>6 DEF QueueDeletion, Queue, told
  <2>2. Range(Append(outbox[d], Deletion)) = Range(outbox[d]) \union {Deletion}
    BY <1>1, DeletionIsItem, AppendRange
  <2>3. CASE c = d
    BY <1>1, <2>1, <2>2, <2>3 DEF Removed
  <2>4. CASE c # d
    BY <1>1, <2>1, <2>4 DEF Removed
  <2> QED BY <2>3, <2>4
<1>7. ASSUME NEW d \in Devices, Reload(d) PROVE Stays
  <2>1. /\ removing' = [removing EXCEPT ![d] = 0]
        /\ torn' = IF removing[d] > 0 THEN torn \union {d} ELSE torn
        /\ UNCHANGED <<local, outbox, seen>>
    BY <1>7 DEF Reload
  <2>2. CASE c = d
    BY <1>1, <2>1, <2>2 DEF Removed
  <2>3. CASE c # d
    BY <1>1, <2>1, <2>3 DEF Removed
  <2> QED BY <2>2, <2>3
<1>8. ASSUME NEW d \in Devices, flushLookups(d) PROVE Stays
  <2> DEFINE chunk == Chunk(run[d].todo)
  <2>1. Deletion \notin Range(chunk)
    BY <1>1, ChunkTyped DEF Run
  <2>2. /\ Dequeue(d, chunk) \/ UNCHANGED outbox
        /\ UNCHANGED <<local, seen, removing, torn>>
    BY <1>8 DEF flushLookups
  <2> HIDE DEF chunk
  <2> QED BY <2>1, <2>2, DeletionsStay DEF Removed
<1>9. ASSUME NEW d \in Devices, DispatchSave(d) PROVE Stays
  <2> DEFINE item == Head(run[d].todo)
  <2>1. /\ Dequeue(d, <<item>>) \/ UNCHANGED outbox
        /\ UNCHANGED <<local, seen, removing, torn>>
    BY <1>9 DEF DispatchSave
  <2>2. LookupsDone(d) /\ item.kind = "manual_lookup"
    BY <1>9 DEF DispatchSave
  <2>3. item # Deletion /\ Range(<<item>>) = {item}
    BY <2>2, SaveTyped DEF LookupsDone
  <2> HIDE DEF item
  <2> QED BY <2>1, <2>3, DeletionsStay DEF Removed
<1>10. ASSUME NEW d \in Devices, PutTranslation(d) PROVE Stays
  <2> DEFINE item == Head(run[d].todo)
  <2>1. /\ run[d].row.shown /\ item # Deletion
        /\ UNCHANGED <<seen, removing, torn>>
    BY <1>10 DEF PutTranslation, SavesRecorded, Deletion, told
  <2>2. /\ local' \in {local, [local EXCEPT ![d] = run[d].row]}
        /\ \A a \in Devices \ {d} : outbox'[a] = outbox[a]
        /\ UNCHANGED outbox \/ Range(outbox'[d]) = Range(outbox[d]) \ {item}
    BY <1>10, PutTranslationTyped
  <2> HIDE DEF item
  <2>3. Deletion \in Range(outbox[c]) => Deletion \in Range(outbox'[c])
    BY <2>1, <2>2
  <2>4. local[c].shown => local'[c].shown
    BY <1>1, <2>1, <2>2
  <2> QED BY <2>1, <2>3, <2>4 DEF Removed
<1>11. ASSUME NEW d \in Devices, DispatchDelete(d) PROVE entry'.state # "live"
  BY <1>11, DeletedEntry DEF DispatchDelete
<1>12. ASSUME NEW d \in Devices, Apply(d) PROVE Stays \/ Applied
  <2> DEFINE got == run[d].got
             row == RowOf(got)
  <2>1. /\ run[d].step = "apply" /\ UNCHANGED <<outbox, removing>>
        /\ \/ UNCHANGED <<local, seen, torn>>
           \/ /\ got.state # "none" /\ local' = [local EXCEPT ![d] = row]
              /\ seen' = [seen EXCEPT ![d] = got.stamp] /\ torn' = torn \ {d}
    BY <1>12 DEF Apply
  <2>2. got.state = "live" => row.shown
    BY DEF RowOf
  <2> HIDE DEF row
  <2>3. CASE UNCHANGED <<local, seen, torn>>
    BY <2>1, <2>3 DEF Removed
  <2>4. CASE c # d
    BY <1>1, <2>1, <2>4 DEF Removed
  <2>5. CASE /\ c = d /\ got.state # "none" /\ local' = [local EXCEPT ![d] = row]
             /\ seen' = [seen EXCEPT ![d] = got.stamp]
    BY <1>1, <2>1, <2>2, <2>5
  <2> QED BY <2>1, <2>3, <2>4, <2>5
<1>13. ASSUME NEW d \in Devices,
              \/ GetLocalEntry(d) \/ resetCaptureSession(d) \/ flushOutbox(d)
              \/ Drained(d) \/ Pull(d)
       PROVE  UNCHANGED <<local, outbox, seen, removing, torn>>
  BY <1>13 DEF GetLocalEntry, resetCaptureSession, flushOutbox, Drained, Pull, told
<1>14. CASE UNCHANGED vars \/ HoldElsewhere
  BY <1>2, <1>14 DEF vars, server, client, told, HoldElsewhere
<1> QED BY <1>2, <1>3, <1>4, <1>5, <1>6, <1>7, <1>8, <1>9, <1>10, <1>11, <1>12,
           <1>13, <1>14 DEF Next, User, Sync

LEMMA ShownStep ==
  ASSUME TypeInv, SavesRecorded, RowsSeen, LiveEntryShown, [Next]_vars
  PROVE  LiveEntryShown'
<1> SUFFICES ASSUME NEW c \in Devices, entry'.state = "live",
                    seen'[c] = entry'.stamp, ~Removed(c)'
             PROVE  local'[c].shown
  BY DEF LiveEntryShown
<1>1. /\ entry.stamp \in Int /\ seen[c] \in Int /\ run[c].got.stamp \in Int
      /\ entry' = entry \/ entry'.stamp = entry.stamp + 1
  <2>1. seen[c] \in Int
    BY DEF TypeInv, TypeOK
  <2>2. run[c] \in Run
    BY DEF TypeInv, TypeOK
  <2>3. run[c].got.stamp \in Int
    BY <2>2 DEF Run, Pulled
  <2> QED BY <2>1, <2>3, StampGrows
<1>2. /\ seen[c] <= entry.stamp
      /\ run[c].step = "apply" /\ run[c].got.state # "none" =>
           /\ run[c].got.stamp <= entry.stamp
           /\ run[c].got.stamp = entry.stamp => run[c].got.state = entry.state
  BY DEF RowsSeen
<1>3. seen'[c] <= entry.stamp
  BY <1>2, RunsMove
<1>4. entry' = entry
  BY <1>1, <1>3
<1>5. CASE /\ local[c].shown => local'[c].shown
           /\ seen'[c] = seen[c]
           /\ Removed(c) => Removed(c)'
  BY <1>4, <1>5 DEF LiveEntryShown
<1>6. CASE /\ run[c].step = "apply" /\ run[c].got.state # "none"
           /\ seen'[c] = run[c].got.stamp
           /\ run[c].got.state = "live" => local'[c].shown
  BY <1>2, <1>4, <1>6
<1> QED BY <1>5, <1>6, RowsMove

\* A device that has seen the word's last change shows it while it is in the
\* vocabulary, unless the user took it away there: whatever is tapped, written,
\* drained and reloaded between a pull's request and its transaction, and between
\* the read of the local row and the write (pull, upsertLocalEntry,
\* applyTranslationLocally, removeVocabEntry).  With which count it shows it is
\* another matter: ShownCountIsCurrent is refuted.
THEOREM SeenWordsAreShown == Spec => []LiveEntryShown
<1>1. Init => IdsNameTaps /\ SavesRecorded /\ RowsSeen /\ LiveEntryShown
  <2>1. Init => /\ log = {} /\ entry.state = "none" /\ entry.stamp = 0
                /\ \A d \in Devices : /\ Carried(d) = {} /\ run[d].step = "idle"
                                      /\ seen[d] = 0
    BY RestTyped DEF Init, Carried, Range, NoEntry
  <2> QED BY <2>1 DEF IdsNameTaps, Stored, SavesRecorded, RowsSeen, LiveEntryShown
<1>2. TypeInv /\ IdsNameTaps /\ SavesRecorded /\ RowsSeen /\ LiveEntryShown /\ [Next]_vars
        => IdsNameTaps' /\ SavesRecorded' /\ RowsSeen' /\ LiveEntryShown'
  BY IdsStep, SavesStep, SeenStep, ShownStep
<1> QED BY <1>1, <1>2, TypeInit, TypeStep, PTL DEF Spec

=============================================================================
