------------------------------- MODULE MCSync -------------------------------
(* Instances of Sync for TLC. *)
EXTENDS Sync, TLC

OneEach == [d \in Devices |-> 1]
TwoEach == [d \in Devices |-> 2]

\* One device is written on, the others are only read from.
OneWriter == [d \in Devices |-> IF d = CHOOSE e \in Devices : TRUE THEN 1 ELSE 0]

\* Devices are alike, and so are article ids.
Symmetry == Permutations(Devices) \union Permutations(Articles)

=============================================================================
