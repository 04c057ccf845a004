---------------------------- MODULE MCAgenticRun ----------------------------
(* The budget the ledger's comment gives (2 x 16), and every combination of     *)
(* agents, robust delivery, corner evaluation and calibration.                  *)
EXTENDS AgenticRun

MCArms == ArmSpace
=============================================================================
