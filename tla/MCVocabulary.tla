---------------------------- MODULE MCVocabulary ----------------------------
(* Instances of Vocabulary for TLC. *)
EXTENDS Vocabulary, TLC

Symmetry == Permutations(Devices) \union Permutations(Positions)

\* An event, logged or queued, from after the clocks were first read.
ClockMoved ==
  \E e \in log \union UNION {{item.event : item \in Range(outbox[d])} : d \in Devices} :
    e # NoEvent /\ \E t \in Times : t < e.at

\* Bounds of the run with two devices: while one has something under way the
\* other waits, with whatever it holds, and users, clocks and other words do
\* three things in all.
Turns == \A d, e \in Devices : Idle(d) \/ Idle(e) \/ d = e

Budget ==
  taps + removals + reloads + Cardinality(held) + (IF ClockMoved THEN 1 ELSE 0) <= 3

\* A local row is written before the next run begins.
Prompt == \A d \in Devices : writes[d] = {} \/ run[d].step = "idle"

=============================================================================
