--------------------------- MODULE MCGenerations ---------------------------
(***************************************************************************)
(* Three specifications: one whose run yields every kind of row, one that  *)
(* is protected and yields its agents' episode only, one whose outcome has *)
(* no measured phase margin.  Two overlapping job lists.                   *)
(***************************************************************************)
EXTENDS Generations

MCYield == [s1 |-> {"ranker_pairs", "rag_memory", "sac_replay", "agent_episodes"},
            s2 |-> {"agent_episodes"},
            s3 |-> {"puct_examples", "rag_memory", "sft_queue", "proposer_dpo_pairs"}]
MCMeasured == {"s1"}
MCJobLists == {<<"s1", "s2">>, <<"s3", "s1">>}
=============================================================================
