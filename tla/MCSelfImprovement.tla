------------------------- MODULE MCSelfImprovement -------------------------
(***************************************************************************)
(* One specification measured under two seeds.  A run fails with both      *)
(* designs or passes with one of them.                                     *)
(***************************************************************************)
EXTENDS SelfImprovement

MCJobs == <<[spec |-> 1, seed |-> 0], [spec |-> 1, seed |-> 1]>>
MCYields == {[streams |-> {"rag_memory", "puct_examples"}, decided |-> FALSE],
             [streams |-> {"ranker_pairs", "sft_queue"}, decided |-> TRUE]}
=============================================================================
