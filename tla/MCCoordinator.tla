--------------------------- MODULE MCCoordinator ---------------------------
(* Small budgets for TLC: two generations, enough edits and sizing steps for a  *)
(* candidate to be changed after its simulation, enough SPICE calls for a       *)
(* nominal run and its corners.                                                 *)
EXTENDS Coordinator

MCModes == {"mock", "ngspice"}
MCRewards == {0, 1}

\* The smoke configuration runs the mock simulator only.
MockOnly == {"mock"}
=============================================================================
