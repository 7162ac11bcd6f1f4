---------------------------- MODULE ArticleLife ----------------------------
(***************************************************************************)
(* What the pipeline promises about an article, seen from the library: it  *)
(* waits, it settles (enriched, or failed with a reason), it stays settled *)
(* until somebody asks for it again, and once deleted it is gone.  How     *)
(* many workers there are, what they do in between and how often they      *)
(* start over is not visible here.                                         *)
(***************************************************************************)
EXTENDS Naturals

CONSTANT Articles

VARIABLES
  phase,  \* of each article
  asks    \* requests served so far

lifeVars == <<phase, asks>>

Phases == {"absent", "waiting", "settled", "deleted"}

LifeInit ==
  /\ phase = [a \in Articles |-> "absent"]
  /\ asks = 0

Submit(a) ==
  /\ phase[a] = "absent"
  /\ phase' = [phase EXCEPT ![a] = "waiting"]
  /\ asks' = asks + 1

\* The only step that is not a request.
Settle(a) ==
  /\ phase[a] = "waiting"
  /\ phase' = [phase EXCEPT ![a] = "settled"]
  /\ UNCHANGED asks

\* Retry, re-enrich or add again, also of an article that still waits.
AskAgain(a) ==
  /\ phase[a] \in {"waiting", "settled"}
  /\ phase' = [phase EXCEPT ![a] = "waiting"]
  /\ asks' = asks + 1

Remove(a) ==
  /\ phase[a] \in {"waiting", "settled"}
  /\ phase' = [phase EXCEPT ![a] = "deleted"]
  /\ asks' = asks + 1

LifeNext ==
  \E a \in Articles : Submit(a) \/ Settle(a) \/ AskAgain(a) \/ Remove(a)

LifeSpec == LifeInit /\ [][LifeNext]_lifeVars

\* What waits is settled in the end.
FairSpec == LifeSpec /\ \A a \in Articles : WF_lifeVars(Settle(a))

=============================================================================
