----------------------------- MODULE MCVrpSolve -----------------------------
(* Model-checking instance of VrpSolve.  Stop 1 lies by depot 1, stop 2    *)
(* between the depots, stop 3 by depot 2 and too far from depot 1 for the  *)
(* sanity limit.  Depot 1 has an id, depot 2 has none.                     *)
EXTENDS VrpSolve

CONSTANT d1      \* the id of depot 1

MCAir == << <<1, 2>>, <<1, 1>>, <<4, 1>> >>
MCIds == <<d1, NoId>>
MCLegs == {<<1, 4>>, <<4, 1>>, <<Unreachable, Unreachable>>}
=============================================================================
