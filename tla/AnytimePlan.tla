---------------------------- MODULE AnytimePlan ----------------------------
(***************************************************************************)
(* What the job layer promises a caller who polls (NFR-03, docstring of    *)
(* vrp/jobs.py): from the first construction on there is a plan, it only   *)
(* gets better, it may be replaced by a dearer one only to bring it within *)
(* the depots' stock, and a plan reported complete is within stock and     *)
(* stays what it is.                                                       *)
(***************************************************************************)
EXTENDS Naturals

CONSTANTS Jobs, NoPlan, MaxCost

VARIABLES plan, complete

Plans == [cost : 0..MaxCost, over : BOOLEAN]

Init ==
    /\ plan = [j \in Jobs |-> NoPlan]
    /\ complete = {}

(* A first plan, or one that costs no more than the last.                  *)
Improve(j) ==
    /\ j \notin complete
    /\ \E t \in Plans :
          /\ plan[j] # NoPlan => t.cost <= plan[j].cost
          /\ plan' = [plan EXCEPT ![j] = t]
    /\ UNCHANGED complete

(* An over-drawn plan gives way to one within stock, of whatever cost.     *)
Repair(j) ==
    /\ j \notin complete
    /\ plan[j] # NoPlan /\ plan[j].over
    /\ \E t \in Plans : ~t.over /\ plan' = [plan EXCEPT ![j] = t]
    /\ UNCHANGED complete

Complete(j) ==
    /\ plan[j] # NoPlan /\ ~plan[j].over
    /\ complete' = complete \cup {j}
    /\ UNCHANGED plan

Next == \E j \in Jobs : Improve(j) \/ Repair(j) \/ Complete(j)

Spec == Init /\ [][Next]_<<plan, complete>>
=============================================================================
