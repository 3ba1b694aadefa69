------------------------------ MODULE MCDineIn ------------------------------
(* Scenes of the restaurant for TLC, each with its own operations and       *)
(* bounds: two parties following one another through payments, refunds and  *)
(* crashes, one bill with every adjustment and tender, and a shift with a   *)
(* kitchen, voids and a manager setting table statuses by hand.             *)
EXTENDS DineIn, TLC

VARIABLE scene
sceneVars == <<scene, vars>>

MCPrice == [i \in Items |-> 2]

Plain == [discount_type |-> "none", discount_value |-> 0, tip_type |-> "none",
          tip_value |-> 0, rounding |-> 0, tax_rate |-> TaxRate]
MCAdjustments == {[Plain EXCEPT !.discount_type = "flat", !.discount_value = 1],
                  [Plain EXCEPT !.discount_type = "percent", !.discount_value = 150],
                  [Plain EXCEPT !.tip_type = "flat", !.tip_value = 1]}

PartyOps == {"refund", "crash", "fail"}
BillOps == {"room", "adjust", "void", "refund"}
ShiftOps == {"switch", "kitchen", "void"}

Parties == INSTANCE DineIn WITH PayAmounts <- {1, 3}, Workers <- 2, Ops <- PartyOps
OneBill == INSTANCE DineIn WITH PayAmounts <- {1, 2, 3}, Workers <- 1, Ops <- BillOps
Shift == INSTANCE DineIn WITH PayAmounts <- {3}, Workers <- 2, Ops <- ShiftOps

(* The bound of the second scene: nobody else is seated.                    *)
OneParty == Cardinality({s \in Sessions : session[s].status # "absent"}) <= 1

SceneInit == Init /\ scene \in {"parties", "bill", "shift"}

SceneNext ==
    /\ UNCHANGED scene
    /\ \/ scene = "parties" /\ Parties!Next
       \/ scene = "bill" /\ OneBill!Next /\ OneParty'
       \/ scene = "shift" /\ Shift!Next

SceneSpec == SceneInit /\ [][SceneNext]_sceneVars

Symmetry == Permutations(Tables) \cup Permutations(Sessions) \cup Permutations(Kots)
              \cup Permutations(Items)
=============================================================================
