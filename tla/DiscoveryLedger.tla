-------------------------- MODULE DiscoveryLedger --------------------------
(***************************************************************************)
(* What a Deep Scan promises about its discovery results, without workers, *)
(* leases, counters or phases: each discovery is dispatched once within a  *)
(* budget, each result is accepted at most once and folded into the        *)
(* candidate ledger at most once, and a scan that succeeds has folded in   *)
(* everything it accepted or had reason to stop early.                     *)
(***************************************************************************)
EXTENDS Integers, FiniteSets

CONSTANTS
  Result,   \* identities of discovery results
  Budget,   \* how many discoveries may be paid for
  Enough,   \* how many folded results justify saturation
  MayOmit   \* whether a capped scan may leave accepted results out

VARIABLES
  stage,     \* how far each discovery has come
  returned,  \* the lost discoveries that were not charged to the budget
  outcome    \* of the scan

ledgerVars == <<stage, returned, outcome>>

Stage == {"absent", "pending", "accepted", "reduced", "lost"}
Outcome == {"open", "saturated", "capped", "stopped"}

At(s) == {d \in Result : stage[d] = s}

Charged == Cardinality(Result \ At("absent")) - Cardinality(returned)

Moved(S, s) == [d \in Result |-> IF d \in S THEN s ELSE stage[d]]

Init ==
  /\ stage = [d \in Result |-> "absent"]
  /\ returned = {}
  /\ outcome = "open"

Dispatch(d) ==
  /\ outcome = "open"
  /\ stage[d] = "absent"
  /\ Charged < Budget
  /\ stage' = Moved({d}, "pending")
  /\ UNCHANGED <<returned, outcome>>

Accept(d) ==
  /\ outcome = "open"
  /\ stage[d] = "pending"
  /\ stage' = Moved({d}, "accepted")
  /\ UNCHANGED <<returned, outcome>>

Lose(d) ==
  /\ outcome = "open"
  /\ stage[d] = "pending"
  /\ stage' = Moved({d}, "lost")
  /\ UNCHANGED <<returned, outcome>>

\* Whoever takes the scan over loses all that was pending and may give back
\* its charge, and that of discoveries lost before, each once.
GiveBack(S) ==
  /\ outcome = "open"
  /\ At("pending") \subseteq S
  /\ S \subseteq (At("pending") \cup At("lost")) \ returned
  /\ stage' = Moved(S, "lost")
  /\ returned' = returned \cup S
  /\ UNCHANGED outcome

Reduce(S) ==
  /\ outcome = "open"
  /\ S # {}
  /\ S \subseteq At("accepted")
  /\ stage' = Moved(S, "reduced")
  /\ UNCHANGED <<returned, outcome>>

Justified(o) ==
  \/ o = "saturated" /\ Cardinality(At("reduced")) >= Enough
  \/ /\ o = "capped"
     /\ At("accepted") = {} \/ (MayOmit /\ At("reduced") # {})
  \/ o = "stopped"

Close(o) ==
  /\ outcome = "open"
  /\ Justified(o)
  /\ stage' = Moved(At("pending"), "lost")
  /\ outcome' = o
  /\ UNCHANGED returned

\* The user cancels a scan whose discovery had succeeded.
Withdraw ==
  /\ outcome \in {"saturated", "capped"}
  /\ outcome' = "stopped"
  /\ UNCHANGED <<stage, returned>>

Next ==
  \/ \E d \in Result : Dispatch(d) \/ Accept(d) \/ Lose(d)
  \/ \E S \in SUBSET Result : GiveBack(S) \/ Reduce(S)
  \/ \E o \in Outcome \ {"open"} : Close(o)
  \/ Withdraw

Spec == Init /\ [][Next]_ledgerVars
=============================================================================
