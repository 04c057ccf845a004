----------------------------- MODULE MCCampaign -----------------------------
(* Campaign on a small instance: two generations, three processes, scores   *)
(* far enough apart that a drop past the tolerance is not one past the      *)
(* floor.                                                                   *)
EXTENDS Campaign

MCArms == {"full", "sft_only", "dpo_no_gate"}
=============================================================================
