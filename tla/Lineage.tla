------------------------------ MODULE Lineage -------------------------------
(***************************************************************************)
(* What a chain of generations promises of the models it accepts: the      *)
(* chain only grows at its end, by one, and what it grows by goes back,    *)
(* through the trainings that made it, to what it last accepted.  An       *)
(* accepted version is a record with its id and the ids it comes from.     *)
(***************************************************************************)
EXTENDS Naturals, Sequences

VARIABLE chain         \* the accepted versions, in order

Init == chain = <<>>

\* v is what may be accepted after the versions of s.
Descends(s, v) == s # <<>> => s[Len(s)].id \in v.from

Accept ==
  /\ Len(chain') = Len(chain) + 1
  /\ chain' = Append(chain, chain'[Len(chain) + 1])
  /\ Descends(chain, chain'[Len(chain) + 1])

Spec == Init /\ [][Accept]_chain
=============================================================================
