----------------------------- MODULE MCProgress -----------------------------
(* Instances of Progress for TLC. *)
EXTENDS Progress, TLC

CONSTANTS d1, d2

TwoDevices == {d1, d2}
FirstAhead == d1 :> 2 @@ d2 :> 0
TwoAndOne  == d1 :> 2 @@ d2 :> 1

=============================================================================
