---------------------------- MODULE MCTreeSearch ----------------------------
(* Pools of two and three candidates: all different, two of one circuit,    *)
(* two with one proposal id.  Edits lead from a to b and c, b and c have    *)
(* one edit each, so that trees of different seeds converge.                *)
EXTENDS TreeSearch

Pool(ids, gs) == [k \in DOMAIN ids |-> [id |-> ids[k], g |-> gs[k]]]
MCDistinct == {Pool(<<1, 2>>, <<"a", "b">>), Pool(<<1, 2>>, <<"b", "c">>)}
MCPools == {Pool(<<1, 2>>, <<"a", "b">>), Pool(<<1, 2, 3>>, <<"b", "b", "a">>),
            Pool(<<1, 2, 1>>, <<"a", "b", "c">>), Pool(<<1, 2>>, <<"a", "a">>)}
MCEditOf == [g \in Graphs |-> IF g = "a" THEN <<"b", "c">>
                              ELSE IF g = "b" THEN <<"a">> ELSE <<"c">>]
=============================================================================
