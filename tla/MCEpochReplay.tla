--------------------------- MODULE MCEpochReplay ---------------------------
(* Model-checking instance of EpochReplay: the windows of dispatchable, but *)
(* order 2 has soft windows only; vehicle 2 starts late and far out and is  *)
(* the only one with a road to order 3, which is out of reach of the rest.  *)
EXTENDS EpochReplay

MCShiftStart == <<0, 1>>
MCRelease == [o \in Orders |-> IF o = 1 THEN 1 ELSE 0]
MCLeg == << [o \in Orders |-> IF o = 3 THEN NoRoad ELSE 1],
            [o \in Orders |-> 2] >>
MCCloses == [Dispatchable(6) EXCEPT ![2] = {}]
MCGap == LET at == <<1, 2, 6>>
         IN [o \in Orders |-> [p \in Orders |->
               Max({at[o] - at[p], at[p] - at[o]})]]
MCQuantity == [o \in Orders |-> 1]
MCCapacity == <<1, 1>>
=============================================================================
