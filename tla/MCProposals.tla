---------------------------- MODULE MCProposals ----------------------------
(* Four structures of three depths, small budgets: every early stop, every *)
(* round and a screen that drops a candidate are reached.                  *)
EXTENDS Proposals

MCStages == [x \in Structures |-> 
    IF x = "s1m" THEN 1 ELSE IF x = "s3r" THEN 3 ELSE 2]
MCComp == [x \in Structures |-> IF x \in {"s1m", "s2m"} THEN "miller" ELSE "rc"]
MCBudget == [d \in {"easy", "medium", "hard", "unknown"} |-> IF d = "hard" THEN 3 ELSE 2]
=============================================================================
