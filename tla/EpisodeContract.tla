-------------------------- MODULE EpisodeContract --------------------------
(***************************************************************************)
(* What an episode promises its caller, with everything about how the      *)
(* design was found left out: the simulator is called at most SpiceCap     *)
(* times, a reported success is a design that was simulated exactly as     *)
(* reported, and once a simulation met every constraint the episode can    *)
(* only close with such a design.                                          *)
(***************************************************************************)
EXTENDS Naturals

CONSTANT SpiceCap   \* simulator calls the episode may make

VARIABLES
  spent,      \* simulator calls charged so far
  verified,   \* the successful simulations: [id, design, met]
  closed,     \* the episode has answered
  report      \* the design it answered with: empty, or a singleton

contractVars == <<spent, verified, closed, report>>

DesignOf(v) == [id |-> v.id, design |-> v.design]

Init == spent = 0 /\ verified = {} /\ closed = FALSE /\ report = {}

\* A simulation succeeds and its design becomes one that may be reported.
Verify ==
  /\ ~closed
  /\ spent' = spent + 1 /\ spent' <= SpiceCap
  /\ \E v \in verified' : verified' = verified \cup {v}
  /\ UNCHANGED <<closed, report>>

\* Simulator calls that verify nothing: failures, corners, sizing evaluations.
Spend ==
  /\ ~closed
  /\ spent' > spent /\ spent' <= SpiceCap
  /\ UNCHANGED <<verified, closed, report>>

\* The answer is a verified design, one that met everything if there is any.
Succeed ==
  /\ ~closed
  /\ closed' = TRUE
  /\ \E v \in verified :
       /\ (\E w \in verified : w.met) => v.met
       /\ report' = {DesignOf(v)}
  /\ UNCHANGED <<spent, verified>>

\* Giving up is allowed only while nothing met every constraint.
GiveUp ==
  /\ ~closed
  /\ \A v \in verified : ~v.met
  /\ closed' = TRUE
  /\ UNCHANGED <<spent, verified, report>>

Next == Verify \/ Spend \/ Succeed \/ GiveUp

Spec == Init /\ [][Next]_contractVars
=============================================================================
