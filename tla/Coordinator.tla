---------------------------- MODULE Coordinator ----------------------------
(***************************************************************************)
(* One episode of AgenticCoordinator.run_episode: a rule-based policy      *)
(* drives a candidate circuit through retrieval, generation, topology      *)
(* edits, sizing and SPICE under hard budgets, with a state machine that   *)
(* rejects illegal stage changes.  One action is one turn of the decision  *)
(* loop: the policy decides, the handler runs to its end, and the reward   *)
(* trend is recorded, as the loop body does.                               *)
(*                                                                         *)
(* Circuits are abstracted to an identity (the generation that made them)  *)
(* and a design number that changes whenever the topology or the sizing    *)
(* does; a simulation result carries the identity and design it was run    *)
(* on, so "the result describes the reported design" can be stated.        *)
(*                                                                         *)
(* Operators named Fault... are no part of the specification: each is the  *)
(* faulty form of the operator defined after it, to show that a property   *)
(* notices the fault.                                                      *)
(***************************************************************************)
EXTENDS Integers, FiniteSets

CONSTANTS
  MaxEdits,        \* budgets.max_topology_edits
  MaxSizing,       \* budgets.max_sizing_steps
  MaxSpice,        \* budgets.max_spice_calls
  MaxGens,         \* budgets.max_generations
  MaxRetrievals,   \* budgets.max_retrievals
  SizingSteps,     \* sac.sizing_steps: sizing steps of one round
  Warmup,          \* sac.real_spice_warmup_transitions
  QueryInterval,   \* sac.real_query_interval
  PvtCorners,      \* spice.pvt_corners, of the five standard corners
  Patience,        \* coordinator.stagnation_patience
  MaxFailures,     \* coordinator.max_repeated_failures
  MaxDecisions,    \* coordinator.max_decisions
  Rewards,         \* the reward values an evaluation may return
  AcceptReward,    \* coordinator.accept_reward_threshold
  Modes            \* the simulator modes to consider

ASSUME BudgetAssumption ==
  /\ MaxEdits \in Nat /\ MaxSizing \in Nat /\ MaxSpice \in Nat
  /\ MaxGens \in Nat /\ MaxRetrievals \in Nat \ {0}

ASSUME ConfigAssumption ==
  /\ SizingSteps \in Nat \ {0} /\ Warmup \in Nat /\ QueryInterval \in Nat
  /\ PvtCorners \in 1 .. 5
  /\ Patience \in Nat /\ MaxFailures \in Nat \ {0} /\ MaxDecisions \in Nat \ {0}
  /\ Rewards \subseteq Nat /\ Rewards # {} /\ AcceptReward \in Nat
  /\ Modes \subseteq {"mock", "ngspice"} /\ Modes # {}

VARIABLES
  control,         \* where run_episode is: "start", "loop", "wrapup", "returned", "raised"
  decisions,       \* turns of the loop taken
  state,           \* sm.state
  simulator_mode,  \* fixed for the episode
  used,            \* BudgetState.used_*
  expired,         \* runtime_exhausted()
  retrieved,       \* the last retrieval returned at least one entry
  candidate,       \* the current candidate, or NoCandidate
  env,             \* the TopologyEditEnv: "none", "open" or "terminated"
  space,           \* the sizing space and its SAC agent: "none", "current" or "stale"
  sim_result,      \* the current simulation result, or NoSim
  pvt_result,      \* a PVT result is present
  dpo_pending,     \* the design whose DPO selection awaits its outcome, or NoTag
  best_eval,       \* the best SPICE-grounded evaluation, or NoEval
  manager,         \* BudgetManager: best_reward, no_improvement, failures
  budget_hit,      \* history: a BudgetExhaustedError was logged
  verified,        \* history: the designs simulated with success, and whether all was met
  result           \* what run_episode returns and remembers

machineVars == <<control, decisions, state>>
configVars  == <<simulator_mode>>
workVars    == <<candidate, env, space, sim_result, pvt_result, dpo_pending>>
vars == <<machineVars, configVars, used, expired, retrieved, workVars,
          best_eval, manager, budget_hit, verified, result>>
-----------------------------------------------------------------------------
(* The state machine. *)

States == {"INITIALIZE", "PARSE_SPECIFICATIONS", "RETRIEVE", "GENERATE",
           "VALIDATE", "EDIT_TOPOLOGY", "SIZE", "SIMULATE", "DIAGNOSE",
           "UPDATE_MEMORY", "TERMINATE", "FAILED"}

ALLOWED_TRANSITIONS ==
  [s \in States |->
    CASE s = "INITIALIZE"           -> {"PARSE_SPECIFICATIONS", "FAILED"}
      [] s = "PARSE_SPECIFICATIONS" -> {"RETRIEVE", "FAILED"}
      [] s = "RETRIEVE"      -> {"GENERATE", "RETRIEVE", "FAILED"}
      [] s = "GENERATE"      -> {"VALIDATE", "RETRIEVE", "FAILED"}
      [] s = "VALIDATE"      -> {"EDIT_TOPOLOGY", "GENERATE", "SIZE", "DIAGNOSE", "FAILED"}
      [] s = "EDIT_TOPOLOGY" -> {"VALIDATE", "EDIT_TOPOLOGY", "SIZE", "DIAGNOSE", "FAILED"}
      [] s = "SIZE"          -> {"SIMULATE", "SIZE", "DIAGNOSE", "FAILED"}
      [] s = "SIMULATE"      -> {"DIAGNOSE", "SIZE", "SIMULATE", "UPDATE_MEMORY", "FAILED"}
      [] s = "DIAGNOSE"      -> {"RETRIEVE", "GENERATE", "EDIT_TOPOLOGY", "SIZE",
                                 "SIMULATE", "UPDATE_MEMORY", "FAILED"}
      [] s = "UPDATE_MEMORY" -> {"TERMINATE", "DIAGNOSE", "FAILED"}
      [] OTHER               -> {}]

\* The handlers enter their stage only when they are not in it already.
CanEnter(s) == state = s \/ s \in ALLOWED_TRANSITIONS[state]

\* The states that reach UPDATE_MEMORY in at most n legal steps avoiding FAILED:
\* what the breadth-first search of _route_to_update_memory explores.
RoutesWithin[n \in 0 .. Cardinality(States)] ==
  IF n = 0 THEN {"UPDATE_MEMORY"}
  ELSE LET near == RoutesWithin[n - 1]
       IN near \cup {s \in States \ {"FAILED"} : ALLOWED_TRANSITIONS[s] \cap near # {}}

Routable == RoutesWithin[Cardinality(States)]
-----------------------------------------------------------------------------
(* Candidates, results, evaluations. *)

Statuses == {"NONE", "VALIDATED", "INVALID", "SIZING", "SIMULATED", "ACCEPTED"}
Outcomes == {"NONE", "FAILED", "GAP", "NEAR", "MET"}

\* valid is the verdict on the topology; planned (a history field) says that a
\* topology-RL decision was taken on this candidate.
NoCandidate == [id |-> 0, design |-> 0, status |-> "NONE",
                valid |-> FALSE, sized |-> FALSE, planned |-> FALSE]
\* FAILED: success is False.  Of the successful ones, MET has every margin at or
\* above 0, NEAR a worst margin in (-0.25, 0), GAP any other.
NoSim  == [outcome |-> "NONE", id |-> 0, design |-> 0]
NoTag  == [id |-> 0, design |-> 0]
NoEval == [reward |-> -1, candidate |-> NoCandidate, sim |-> NoSim, pvt |-> FALSE]
NoResult == [success |-> FALSE, remembered |-> "NONE"]

Tag(x) == [id |-> x.id, design |-> x.design]

Simulated(s)  == s.outcome # "NONE"
SimSuccess(s) == s.outcome \in {"GAP", "NEAR", "MET"}

\* The result was obtained on the candidate as it stands now.
Describes(s, c) == Simulated(s) /\ Tag(s) = Tag(c)
-----------------------------------------------------------------------------
(* BudgetState and BudgetManager. *)

Kinds == {"edits", "sizing", "spice", "generations", "retrievals"}

Cap == [k \in Kinds |-> CASE k = "edits" -> MaxEdits
                          [] k = "sizing" -> MaxSizing
                          [] k = "spice" -> MaxSpice
                          [] k = "generations" -> MaxGens
                          [] OTHER -> MaxRetrievals]

Remaining(k) == Cap[k] - used[k]
Fits(k, n)   == used[k] + n <= Cap[k]

FaultSpiceNotHard == expired \/ \E k \in {"edits", "sizing"} : Remaining(k) <= 0

AnyExhausted == expired \/ \E k \in {"edits", "sizing", "spice"} : Remaining(k) <= 0

Stagnated == manager.no_improvement >= Patience
FailingRepeatedly == manager.failures >= MaxFailures

Minimum(a, b) == IF a <= b THEN a ELSE b
Maximum(a, b) == IF a >= b THEN a ELSE b
-----------------------------------------------------------------------------
(* RuleBasedDecisionPolicy.decide over _build_context: the first rule that  *)
(* applies wins.                                                            *)

Valid   == candidate.status # "INVALID"
Met     == sim_result.outcome = "MET"
CanGenerate == Remaining("generations") > 0

Decision ==
  IF AnyExhausted \/ FailingRepeatedly THEN "STOP_BUDGET_EXHAUSTED"
  \* success path
  ELSE IF Met /\ pvt_result THEN "ACCEPT_CANDIDATE"
  ELSE IF Met /\ Remaining("spice") > 0 THEN "RUN_PVT"
  ELSE IF Simulated(sim_result) /\ manager.best_reward >= AcceptReward /\ pvt_result
       THEN "STOP_SUCCESS"
  \* acquisition path
  ELSE IF candidate = NoCandidate THEN
       IF ~retrieved /\ Remaining("retrievals") > 0 THEN "RETRIEVE_MORE"
       ELSE IF CanGenerate THEN "GENERATE_NEW_TOPOLOGY" ELSE "STOP_BUDGET_EXHAUSTED"
  \* repair path
  ELSE IF ~Valid THEN
       IF Remaining("edits") > 0 THEN "REPAIR_OR_EDIT_TOPOLOGY"
       ELSE IF CanGenerate THEN "GENERATE_NEW_TOPOLOGY" ELSE "STOP_BUDGET_EXHAUSTED"
  \* hard simulation failure, then stagnation
  ELSE IF (sim_result.outcome = "FAILED" \/ Stagnated) /\ CanGenerate
       THEN "GENERATE_NEW_TOPOLOGY"
  \* the mandatory topology-RL pass
  ELSE IF ~candidate.sized /\ used["edits"] = 0 /\ Remaining("edits") > 0
       THEN "REPAIR_OR_EDIT_TOPOLOGY"
  \* improve path
  ELSE IF ~candidate.sized /\ Remaining("sizing") > 0 THEN "CONTINUE_SIZING"
  ELSE IF candidate.sized /\ ~Simulated(sim_result) /\ Remaining("spice") > 0
       THEN "RUN_SPICE"
  ELSE IF sim_result.outcome = "NEAR" /\ Remaining("sizing") > 0 THEN "CONTINUE_SIZING"
  ELSE IF Simulated(sim_result) /\ ~Met /\ Remaining("edits") > 0
       THEN "REPAIR_OR_EDIT_TOPOLOGY"
  ELSE IF Simulated(sim_result) /\ ~pvt_result /\ Remaining("spice") > 0 THEN "RUN_PVT"
  ELSE "STOP_BUDGET_EXHAUSTED"

\* The stage a handler enters; retrieval enters none.
StageOf(d) == CASE d = "GENERATE_NEW_TOPOLOGY"   -> "GENERATE"
                [] d = "REPAIR_OR_EDIT_TOPOLOGY" -> "EDIT_TOPOLOGY"
                [] d = "CONTINUE_SIZING"         -> "SIZE"
                [] d \in {"RUN_SPICE", "RUN_PVT"} -> "SIMULATE"
                [] OTHER -> state
-----------------------------------------------------------------------------
(* Turns of the loop. *)

\* The policy decides d and the state machine lets its handler start.
Turn(d) == /\ control = "loop"
           /\ Decision = d
           /\ CanEnter(StageOf(d))

\* The for loop moves on, or runs out of turns.
NextTurn == /\ decisions' = decisions + 1
            /\ control' = IF decisions + 1 < MaxDecisions THEN "loop" ELSE "wrapup"

FaultUncharged(k, n) == UNCHANGED used

Charge(k, n) == used' = [used EXCEPT ![k] = @ + n]

\* best_eval holds a reference to its candidate, not a copy: a change to the
\* current candidate is a change to the remembered one when they are the same.
Referenced(e, c) == IF e.candidate.id = c.id THEN [e EXCEPT !.candidate = c] ELSE e

\* The bookkeeping that ends a turn, on the candidate c, the result s and the PVT
\* flag p the handler leaves, after it recorded f failures.
Track(c, s, p, f) ==
  IF c = NoCandidate \/ ~Simulated(s) THEN
    /\ manager' = [manager EXCEPT !.failures = @ + f]
    /\ best_eval' = Referenced(best_eval, c)
  ELSE \E r \in Rewards :
    LET improved == r > manager.best_reward IN
    /\ best_eval' = IF SimSuccess(s) /\ r > best_eval.reward
                    THEN [reward |-> r, candidate |-> c, sim |-> s, pvt |-> p]
                    ELSE Referenced(best_eval, c)
    /\ manager' =
         [best_reward    |-> IF improved THEN r ELSE manager.best_reward,
          no_improvement |-> IF improved THEN 0 ELSE manager.no_improvement + 1,
          failures       |-> manager.failures + f +
                             (IF ~improved /\ ~SimSuccess(s) THEN 1 ELSE 0)]

\* A handler that raises BudgetExhaustedError after entering stage s and creating
\* the environment e and sizing space p: logged, counted as a failure, and the turn
\* ends without the bookkeeping.
BudgetHit(s, e, p) ==
  /\ state' = s
  /\ env' = e /\ space' = p
  /\ manager' = [manager EXCEPT !.failures = @ + 1]
  /\ budget_hit' = TRUE
  /\ UNCHANGED <<used, retrieved, candidate, sim_result, pvt_result, dpo_pending,
                 best_eval, verified>>

\* The environment and the sizing space are created on first use and then kept.
OpenedEnv  == IF env = "none" THEN "open" ELSE env
BuiltSpace == IF space = "none" THEN "current" ELSE space

\* No candidate and an empty retrieval: ask the memory again.
RetrieveMore ==
  /\ Turn("RETRIEVE_MORE")
  /\ NextTurn
  /\ IF Fits("retrievals", 1)
     THEN /\ Charge("retrievals", 1)
          /\ retrieved' \in BOOLEAN
          /\ Track(candidate, sim_result, pvt_result, 0)
          /\ UNCHANGED <<state, workVars, budget_hit, verified>>
     ELSE BudgetHit(state, env, space)
  /\ UNCHANGED <<configVars, expired, result>>

\* The generator failed after its own retries: the old candidate stays.
GenerationFails ==
  /\ Turn("GENERATE_NEW_TOPOLOGY")
  /\ NextTurn
  /\ IF Fits("generations", 1)
     THEN /\ state' = "GENERATE"
          /\ Charge("generations", 1)
          /\ manager' = [manager EXCEPT !.failures = @ + 1]
          /\ UNCHANGED <<retrieved, workVars, best_eval, budget_hit, verified>>
     ELSE BudgetHit("GENERATE", env, space)
  /\ UNCHANGED <<configVars, expired, result>>

\* A new candidate starts without an environment, a sizing agent or any result.
FaultSpaceKept ==
  /\ env' = "none" /\ space' = IF space = "none" THEN "none" ELSE "stale"
  /\ sim_result' = NoSim /\ pvt_result' = FALSE

ResetWork ==
  /\ env' = "none" /\ space' = "none"
  /\ sim_result' = NoSim /\ pvt_result' = FALSE

\* The first valid graph becomes the candidate, or an invalid one if none is.
GenerateNewTopology ==
  /\ Turn("GENERATE_NEW_TOPOLOGY")
  /\ NextTurn
  /\ IF Fits("generations", 1)
     THEN /\ state' = "VALIDATE"
          /\ Charge("generations", 1)
          /\ \E ok \in BOOLEAN :
               candidate' = [id |-> used["generations"] + 1, design |-> 0,
                             status |-> IF ok THEN "VALIDATED" ELSE "INVALID",
                             valid |-> ok, sized |-> FALSE, planned |-> FALSE]
          /\ ResetWork
          /\ Track(candidate', sim_result', pvt_result', 0)
          /\ UNCHANGED <<retrieved, dpo_pending, budget_hit, verified>>
     ELSE BudgetHit("GENERATE", env, space)
  /\ UNCHANGED <<configVars, expired, result>>

\* One planned step of the topology environment.  TERMINATE closes the environment
\* and a rejected action leaves it open, both without touching the topology; an
\* edit gives a topology of either validity and outdates the sizing space.
EditTopology ==
  /\ Turn("REPAIR_OR_EDIT_TOPOLOGY")
  /\ env # "terminated"
  /\ NextTurn
  /\ IF Fits("edits", 1)
     THEN /\ state' = "VALIDATE"
          /\ Charge("edits", 1)
          /\ \E action \in {"TERMINATE", "rejected", "edit"}, ok \in BOOLEAN :
               /\ action # "edit" => ok = candidate.valid
               /\ env' = IF action = "TERMINATE" THEN "terminated" ELSE "open"
               /\ space' = IF action = "edit" /\ space # "none" THEN "stale" ELSE space
               /\ candidate' = [candidate EXCEPT
                    !.design  = IF action = "edit" THEN @ + 1 ELSE @,
                    !.valid   = ok,
                    !.status  = IF ok THEN "VALIDATED" ELSE "INVALID",
                    !.planned = TRUE]
          /\ Track(candidate', sim_result, pvt_result, 0)
          /\ UNCHANGED <<retrieved, sim_result, pvt_result, dpo_pending,
                         budget_hit, verified>>
     ELSE BudgetHit("EDIT_TOPOLOGY", OpenedEnv, space)
  /\ UNCHANGED <<configVars, expired, result>>

\* Real evaluations of a round of n steps with b SPICE calls left: the query policy
\* forces the warm-up steps and every step after QueryInterval predicted ones, may
\* ask for any other, and can ask for none once the budget is spent.
ForcedReal(n) ==
  IF n <= Warmup THEN n
  ELSE Warmup + (IF QueryInterval = 0 THEN 0 ELSE (n - Warmup) \div (QueryInterval + 1))

FaultBudgetIgnored(n, b) == Minimum(ForcedReal(n), b) .. n

RealEvaluations(n, b) == Minimum(ForcedReal(n), b) .. Minimum(n, b)

\* What a sizing round leaves on the candidate.  The first one always gives it a
\* sizing; a later one may keep the vector it started from.
FaultStatusKept(changed, selected) ==
  /\ changed \/ candidate.sized
  /\ space' = BuiltSpace
  /\ candidate' = [candidate EXCEPT !.design = IF changed THEN @ + 1 ELSE @, !.sized = TRUE]
  /\ dpo_pending' = IF selected THEN Tag(candidate') ELSE dpo_pending

SizedBy(changed, selected) ==
  /\ changed \/ candidate.sized
  /\ space' = BuiltSpace
  /\ candidate' = [candidate EXCEPT !.design = IF changed THEN @ + 1 ELSE @,
                                    !.sized = TRUE, !.status = "SIZING"]
  /\ dpo_pending' = IF selected THEN Tag(candidate') ELSE dpo_pending

\* A sizing round.  The mock evaluates for free; ngspice pays one call for the
\* anchor, whose failure ends the round, and one per real evaluation.  With two or
\* more evaluated vectors the DPO ranker, when enabled, selects the one applied.
ContinueSizing ==
  /\ Turn("CONTINUE_SIZING")
  /\ NextTurn
  /\ state' = "SIZE"
  /\ LET steps == Minimum(SizingSteps, Remaining("sizing"))
         left  == Remaining("spice") - 1
     IN IF simulator_mode = "ngspice" /\ ~Fits("spice", 1)
        THEN BudgetHit("SIZE", env, BuiltSpace)
        ELSE /\ \/ /\ simulator_mode = "mock"
                   /\ Charge("sizing", steps)
                   /\ \E changed, selected \in BOOLEAN : SizedBy(changed, selected)
                \/ /\ simulator_mode = "ngspice"
                   /\ Charge("spice", 1)
                   /\ SizedBy(~candidate.sized, FALSE)
                \/ /\ simulator_mode = "ngspice"
                   /\ \E calls \in RealEvaluations(steps, left) :
                        /\ used' = [used EXCEPT !["sizing"] = @ + steps,
                                                !["spice"] = @ + 1 + calls]
                        /\ \E changed, selected \in BOOLEAN :
                             /\ selected => calls > 0
                             /\ SizedBy(changed, selected)
             /\ Track(candidate', sim_result, pvt_result, 0)
             /\ UNCHANGED <<retrieved, env, sim_result, pvt_result, budget_hit, verified>>
  /\ UNCHANGED <<configVars, expired, result>>

\* The pending DPO selection is recorded with this outcome and forgotten.
FaultPendingKept == UNCHANGED dpo_pending

SettleDpo == dpo_pending' = NoTag

\* The nominal simulation.  A failure is a recorded failure, and one for want of a
\* simulator leaves no result at all.
RunSpice ==
  /\ Turn("RUN_SPICE")
  /\ NextTurn
  /\ IF Fits("spice", 1)
     THEN /\ state' = "DIAGNOSE"
          /\ Charge("spice", 1)
          /\ candidate' = [candidate EXCEPT !.status = "SIMULATED"]
          /\ \E o \in Outcomes :
               /\ o = "NONE" => simulator_mode = "ngspice"
               /\ sim_result' = IF o = "NONE" THEN NoSim
                                ELSE [outcome |-> o, id |-> candidate.id,
                                      design |-> candidate.design]
               /\ verified' = IF SimSuccess(sim_result')
                              THEN verified \cup {[id |-> candidate.id, design |-> candidate.design,
                                                   met |-> o = "MET"]}
                              ELSE verified
               /\ Track(candidate', sim_result', pvt_result,
                        IF o \in {"NONE", "FAILED"} THEN 1 ELSE 0)
          /\ SettleDpo
          /\ UNCHANGED <<retrieved, env, space, pvt_result, budget_hit>>
     ELSE BudgetHit("SIMULATE", env, space)
  /\ UNCHANGED <<configVars, expired, result>>

\* Corner simulations, as many as the configuration asks for and the budget pays.
RunPvt ==
  /\ Turn("RUN_PVT")
  /\ NextTurn
  /\ LET corners == Maximum(1, Minimum(PvtCorners, Remaining("spice")))
     IN IF Fits("spice", corners)
        THEN /\ state' = "DIAGNOSE"
             /\ Charge("spice", corners)
             /\ pvt_result' = TRUE
             /\ Track(candidate, sim_result, pvt_result', 0)
             /\ UNCHANGED <<retrieved, candidate, env, space, sim_result, dpo_pending,
                            budget_hit, verified>>
        ELSE BudgetHit("SIMULATE", env, space)
  /\ UNCHANGED <<configVars, expired, result>>

FaultAcceptsAnyStop(d) == candidate # NoCandidate

\* The stop decisions that accept the candidate in hand.
Accepts(d) == candidate # NoCandidate /\ d # "STOP_BUDGET_EXHAUSTED"

\* A stop decision leaves the loop; only the successful ones accept the candidate.
Stop ==
  /\ control = "loop"
  /\ Decision \in {"STOP_BUDGET_EXHAUSTED", "STOP_SUCCESS", "ACCEPT_CANDIDATE"}
  /\ control' = "wrapup"
  /\ candidate' = IF Accepts(Decision) THEN [candidate EXCEPT !.status = "ACCEPTED"]
                  ELSE candidate
  /\ best_eval' = Referenced(best_eval, candidate')
  /\ decisions' = decisions + 1
  /\ UNCHANGED <<state, configVars, used, expired, retrieved, env, space, sim_result,
                 pvt_result, dpo_pending, manager, budget_hit, verified, result>>
-----------------------------------------------------------------------------
(* The rest of run_episode. *)

\* The handler's stage is not a legal successor: CoordinatorError leaves the episode.
TransitionRejected ==
  /\ control = "loop"
  /\ ~CanEnter(StageOf(Decision))
  /\ control' = "raised"
  /\ decisions' = decisions + 1
  /\ UNCHANGED <<state, configVars, used, expired, retrieved, workVars, best_eval,
                 manager, budget_hit, verified, result>>

\* A planned step on an environment that TERMINATE has closed: ActionError leaves
\* the episode after the edit was charged.
StepAfterTerminate ==
  /\ Turn("REPAIR_OR_EDIT_TOPOLOGY")
  /\ env = "terminated"
  /\ Fits("edits", 1)
  /\ state' = "EDIT_TOPOLOGY"
  /\ Charge("edits", 1)
  /\ control' = "raised"
  /\ decisions' = decisions + 1
  /\ UNCHANGED <<configVars, expired, retrieved, workVars, best_eval, manager,
                 budget_hit, verified, result>>

\* The specification does not parse: the episode fails before the loop.
ParseFails ==
  /\ control = "start"
  /\ state' = "FAILED"
  /\ control' = "returned"
  /\ UNCHANGED <<decisions, configVars, used, expired, retrieved, workVars, best_eval,
                 manager, budget_hit, verified, result>>

\* PARSE_SPECIFICATIONS, the first RETRIEVE, and the move to GENERATE.
Begin ==
  /\ control = "start"
  /\ state' = "GENERATE"
  /\ control' = "loop"
  /\ Charge("retrievals", 1)
  /\ retrieved' \in BOOLEAN
  /\ UNCHANGED <<decisions, configVars, expired, workVars, best_eval, manager,
                 budget_hit, verified, result>>

\* max_runtime_s elapses.
RuntimeExpires ==
  /\ control = "loop"
  /\ ~expired
  /\ expired' = TRUE
  /\ UNCHANGED <<machineVars, configVars, used, retrieved, workVars, best_eval,
                 manager, budget_hit, verified, result>>

FaultAlwaysRestores == Simulated(best_eval.sim)
FaultNeverRestores == FALSE

\* The current candidate has no simulation, and some earlier one had.
RestoresBest == ~Simulated(sim_result) /\ Simulated(best_eval.sim)

\* What the caller is told and the memory keeps about the candidate c and result s.
Answer(c, s) ==
  [success    |-> c.status \in {"ACCEPTED", "SIMULATED"} /\ SimSuccess(s),
   remembered |-> IF c = NoCandidate THEN "NONE"
                  ELSE IF s.outcome = "MET" THEN "SUCCESS" ELSE "FAILURE"]

\* After the loop: a candidate without a simulation gives way to the best evaluated
\* one, the state machine is walked to its end, the experience is stored.
WrapUp ==
  /\ control = "wrapup"
  /\ candidate'  = IF RestoresBest THEN best_eval.candidate ELSE candidate
  /\ sim_result' = IF RestoresBest THEN best_eval.sim ELSE sim_result
  /\ pvt_result' = IF RestoresBest THEN best_eval.pvt ELSE pvt_result
  /\ IF state \in Routable
     THEN /\ state' = "TERMINATE"
          /\ control' = "returned"
          /\ result' = Answer(candidate', sim_result')
     ELSE /\ control' = "raised"
          /\ UNCHANGED <<state, result>>
  /\ UNCHANGED <<decisions, configVars, used, expired, retrieved, env, space,
                 dpo_pending, best_eval, manager, budget_hit, verified>>
-----------------------------------------------------------------------------
Init ==
  /\ control = "start" /\ decisions = 0 /\ state = "INITIALIZE"
  /\ simulator_mode \in Modes
  /\ used = [k \in Kinds |-> 0]
  /\ expired = FALSE /\ retrieved = FALSE
  /\ candidate = NoCandidate /\ env = "none" /\ space = "none"
  /\ sim_result = NoSim /\ pvt_result = FALSE /\ dpo_pending = NoTag
  /\ best_eval = NoEval
  /\ manager = [best_reward |-> -1, no_improvement |-> 0, failures |-> 0]
  /\ budget_hit = FALSE /\ verified = {}
  /\ result = NoResult

\* A turn of the loop, and every way out of it.
Episode ==
  \/ ParseFails \/ Begin
  \/ RetrieveMore \/ GenerationFails \/ GenerateNewTopology
  \/ EditTopology \/ ContinueSizing \/ RunSpice \/ RunPvt
  \/ Stop \/ TransitionRejected \/ StepAfterTerminate \/ WrapUp

Next == Episode \/ RuntimeExpires

Spec == Init /\ [][Next]_vars
-----------------------------------------------------------------------------
(* Properties. *)

Candidate == [id : Nat, design : Nat, status : Statuses,
              valid : BOOLEAN, sized : BOOLEAN, planned : BOOLEAN]
SimResult == [outcome : Outcomes, id : Nat, design : Nat]

\* Every variable keeps its type, and no counter passes its budget.
TypeOK ==
  /\ control \in {"start", "loop", "wrapup", "returned", "raised"}
  /\ decisions \in Nat
  /\ state \in States
  /\ simulator_mode \in Modes
  /\ used \in [Kinds -> Nat] /\ \A k \in Kinds : used[k] <= Cap[k]
  /\ expired \in BOOLEAN /\ retrieved \in BOOLEAN
  /\ candidate \in Candidate
  /\ env \in {"none", "open", "terminated"}
  /\ space \in {"none", "current", "stale"}
  /\ sim_result \in SimResult
  /\ pvt_result \in BOOLEAN
  /\ dpo_pending \in [id : Nat, design : Nat]
  /\ best_eval \in [reward : Rewards \cup {-1}, candidate : Candidate,
                    sim : SimResult, pvt : BOOLEAN]
  /\ manager \in [best_reward : Rewards \cup {-1}, no_improvement : Nat, failures : Nat]
  /\ budget_hit \in BOOLEAN
  /\ verified \subseteq [id : Nat, design : Nat, met : BOOLEAN]
  /\ result \in [success : BOOLEAN, remembered : {"NONE", "SUCCESS", "FAILURE"}]

\* The policy never starts work its budgets cannot pay for: no turn of the loop
\* ends in BudgetExhaustedError, whatever a round of sizing or corners costs.
NoBudgetHit == ~budget_hit

\* An accepted candidate met every constraint in a simulation of exactly the design
\* it now has, and its corners were evaluated.
AcceptedIsVerified ==
  candidate.status = "ACCEPTED" =>
    Describes(sim_result, candidate) /\ Met /\ pvt_result

\* An episode reported as a success, or remembered as one, returns a design that the
\* reported simulation was run on: no edit or sizing slipped in after it, through
\* the current candidate or through the reference best_eval kept.
SuccessIsVerified ==
  result.success \/ result.remembered = "SUCCESS" =>
    Describes(sim_result, candidate) /\ SimSuccess(sim_result)

\* A design that met every constraint is not lost to a later edit, regeneration or
\* stop: an episode that found one reports it as its success.
FeasibleIsReported ==
  control = "returned" /\ (\E v \in verified : v.met) =>
     result.success /\ result.remembered = "SUCCESS"

\* A verified design survives regeneration: when any simulation of the episode
\* succeeded, the report is grounded in a successful simulation of the reported
\* candidate.
GroundedWhenPossible ==
  control = "returned" /\ Simulated(best_eval.sim) =>
    Simulated(sim_result) /\ sim_result.id = candidate.id

\* A DPO selection is recorded with the outcome of the design it selected, not of a
\* later one.
DpoOutcomeMatches ==
  [][RunSpice /\ dpo_pending # NoTag => dpo_pending = Tag(candidate)]_vars

\* A sizing round never runs with the parameter space of another topology, though
\* editing a topology does not rebuild the space.
SizesCurrentTopology == [][ContinueSizing => space # "stale"]_vars

\* Every turn of the loop that comes back for another one has used up some budget
\* or counted a failure, so the loop ends whatever max_decisions allows.
EveryTurnSpends ==
  [][decisions' # decisions /\ control' = "loop" =>
       \/ \E k \in Kinds : used'[k] > used[k]
       \/ manager'.failures > manager.failures]_vars

\* The episode keeps the contract its callers see.
Contract == INSTANCE EpisodeContract WITH
  SpiceCap <- MaxSpice,
  spent    <- used["spice"],
  closed   <- control = "returned",
  report   <- IF result.success THEN {Tag(candidate)} ELSE {}

ImplementsContract == Contract!Spec

(* Claims of the repository that the code does not keep. *)

\* "the reported design and the topology return must be simulator-verified"
ReportedIsVerified ==
  control = "returned" /\ Simulated(sim_result) => Describes(sim_result, candidate)

\* "every fresh candidate gets at least one planned decision"
FreshCandidateIsPlanned == candidate.sized => candidate.planned

\* "generation failures must be logged as decisions" and the episode then reaches
\* TERMINATE: a failed generation, which leaves the machine in GENERATE, is never
\* followed by an illegal transition out of it.
GeneratorFailureHandled == control = "raised" => state # "GENERATE"

\* "search stagnated; trying a fresh topology": the escape from stagnation, decided
\* while a near-feasible candidate is being sized again, is a transition the state
\* machine allows.
StagnationEscapes == control = "raised" => state # "SIZE"

\* The planned decision "may legitimately be TERMINATE": a candidate the planner was
\* content with, and that was simulated since, can still be edited when its
\* simulation asks for it, instead of stepping the environment TERMINATE closed.
TerminateIsLegitimate ==
  control = "raised" /\ Simulated(sim_result) =>
    ~(state = "EDIT_TOPOLOGY" /\ env = "terminated")
=============================================================================
