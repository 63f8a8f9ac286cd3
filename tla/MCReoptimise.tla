---------------------------- MODULE MCReoptimise ----------------------------
(* Model-checking instance of Reoptimise: order i lies at distance i on one  *)
(* road out of the depot, as in the repository's own fixtures.               *)
EXTENDS Reoptimise

CONSTANT NOrders

Road == [a \in 0..NOrders |-> [b \in 0..NOrders |-> Abs(a - b)]]
MCAt == [o \in Orders |-> o]
MCWindow == [o \in Orders |->
    [start |-> IF o = 1 THEN 2 ELSE 0, end |-> IF o = 2 THEN 5 ELSE 9]]
MCService == [o \in Orders |-> 1]
MCQuantity == [o \in Orders |-> 1]
MCCapacity == [v \in Vehicles |-> IF v = 3 THEN 1 ELSE 2]
MCShift == [start |-> 0, end |-> 11]

\* The condition under which recover_from_absence is meant to run.
ASSUME MCAssumption == NothingBeginsAtOnce
=============================================================================
