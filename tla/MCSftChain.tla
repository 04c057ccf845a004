----------------------------- MODULE MCSftChain -----------------------------
(***************************************************************************)
(* Two families and three verified examples, one of which has a row that   *)
(* is not eligible.  The jobs are those of an operator who extends the     *)
(* chain, retries a generation, trains beside it, forces one, and          *)
(* mistypes G0.                                                            *)
(***************************************************************************)
EXTENDS SftChain

Job(p, o, force, dry, h) ==
  [parent |-> p, output |-> o, force |-> force, dry |-> dry, harvest |-> h]

MCFamily == [x \in 1 .. 3 |-> IF x < 3 THEN "buffer" ELSE "nested"]
MCTarget   == [x \in 1 .. 3 |-> IF x = 1 THEN "s1" ELSE "s2"]
MCRows   == {[gen |-> 0, example |-> 1, eligible |-> TRUE],
             [gen |-> 0, example |-> 3, eligible |-> FALSE],
             [gen |-> 1, example |-> 2, eligible |-> TRUE]}
MCJobs   == {Job(0, 1, FALSE, FALSE, {0, 1}), Job(1, 2, FALSE, FALSE, {1}),
             Job(1, 2, FALSE, FALSE, {0, 1}), Job(0, 2, FALSE, TRUE, {0, 1}),
             Job(0, 1, TRUE, FALSE, {0}), Job(0, 0, TRUE, FALSE, {0, 1})}
=============================================================================
