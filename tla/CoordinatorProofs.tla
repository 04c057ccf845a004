------------------------- MODULE CoordinatorProofs -------------------------
(***************************************************************************)
(* Theorems about Coordinator, for every value of its constants that meets *)
(* BudgetAssumption and ConfigAssumption.                                  *)
(*                                                                         *)
(* The argument rests on three facts no single property states.  The       *)
(* policy never edits, sizes or regenerates a candidate whose simulation   *)
(* met every constraint (DecisionGuards), so such a result stays current.  *)
(* A candidate leaves the statuses SIMULATED and ACCEPTED whenever its     *)
(* design changes.  And the remembered best evaluation shares its          *)
(* candidate with the current one for as long as their identities agree.   *)
(*                                                                         *)
(* What a turn may do (EveryTurnSpends, SizesCurrentTopology,              *)
(* DpoOutcomeMatches) follows from the guards of the decisions and from    *)
(* Working, on the work in hand while the loop runs.                       *)
(***************************************************************************)
EXTENDS Coordinator, TLAPS

Settled == {"SIMULATED", "ACCEPTED"}

\* A result belongs to the candidate, and to its present design once the candidate
\* counts as simulated.
Matches(s, c) ==
  Simulated(s) => /\ s.id = c.id
                  /\ c.status \in Settled => s.design = c.design

\* Identities are generation numbers, and equal identities are the same object.
Identities ==
  /\ candidate.id <= used["generations"]
  /\ best_eval.candidate.id <= used["generations"]
  /\ best_eval.candidate.id = candidate.id => best_eval.candidate = candidate

\* Results match their candidates, and the best one's is still at hand while its
\* candidate is the current one.
Results ==
  /\ Matches(sim_result, candidate)
  /\ Matches(best_eval.sim, best_eval.candidate)
  /\ best_eval.candidate.id = candidate.id /\ Simulated(best_eval.sim)
       => Simulated(sim_result)
  /\ Simulated(best_eval.sim) => SimSuccess(best_eval.sim)

\* A result that met everything is final: it is the current one, of a candidate that
\* is still simulated or accepted.
Final ==
  /\ Met => candidate.status \in Settled
  /\ best_eval.sim.outcome = "MET" => Met /\ best_eval.candidate.status \in Settled
  /\ (\E v \in verified : v.met) => Met
  /\ pvt_result => Met
  /\ best_eval.pvt => best_eval.sim.outcome = "MET"

\* Acceptance only happens on the way out of the loop.
Acceptance ==
  candidate.status = "ACCEPTED" \/ best_eval.candidate.status = "ACCEPTED" =>
    Met /\ pvt_result /\ control \notin {"start", "loop"}

\* Every successful result at hand is one of the recorded verifications.
Recorded(s) ==
  SimSuccess(s) => [id |-> s.id, design |-> s.design, met |-> s.outcome = "MET"] \in verified

Recording == Recorded(sim_result) /\ Recorded(best_eval.sim)

\* Before the answer there is no result, and before the loop nothing at all.
Phases ==
  /\ control # "returned" => result = NoResult
  /\ control = "start" => verified = {} /\ best_eval = NoEval

Answered ==
  control = "returned" =>
    /\ result.success => candidate.status \in Settled /\ SimSuccess(sim_result)
    /\ result.remembered = "SUCCESS" => Met
    /\ (\E v \in verified : v.met) => result.success /\ result.remembered = "SUCCESS"
    /\ Simulated(best_eval.sim) => Simulated(sim_result)
-----------------------------------------------------------------------------
(* Budgets and the guards of the handlers. *)

\* Every cap is a natural number, so what remains of a budget is one too.
LEMMA CapNat == \A k \in Kinds : Cap[k] \in Nat
  BY BudgetAssumption DEF Cap, Kinds

\* What remains of a budget within its cap is a natural number.
LEMMA RemainingNat ==
  ASSUME TypeOK
  PROVE  \A k \in Kinds : Remaining(k) \in Nat
  BY CapNat DEF TypeOK, Remaining

\* A handler only starts with the budget it needs, and never on a candidate whose
\* simulation met every constraint, corners excepted.
LEMMA DecisionGuards ==
  ASSUME TypeOK
  PROVE  /\ Decision = "RETRIEVE_MORE" =>
              Remaining("retrievals") > 0 /\ candidate = NoCandidate
         /\ Decision = "GENERATE_NEW_TOPOLOGY" => Remaining("generations") > 0 /\ ~Met
         /\ Decision = "REPAIR_OR_EDIT_TOPOLOGY" =>
              Remaining("edits") > 0 /\ candidate # NoCandidate /\ ~Met
         /\ Decision = "CONTINUE_SIZING" =>
              /\ Remaining("sizing") > 0 /\ Remaining("spice") > 0
              /\ candidate # NoCandidate /\ ~Met
         /\ Decision = "RUN_SPICE" =>
              /\ Remaining("spice") > 0 /\ candidate # NoCandidate
              /\ ~Simulated(sim_result)
         /\ Decision = "RUN_PVT" => Remaining("spice") > 0 /\ Met
         /\ Decision \in {"STOP_SUCCESS", "ACCEPT_CANDIDATE"} =>
              Simulated(sim_result) /\ pvt_result
<1>1. ~AnyExhausted => Remaining("edits") > 0 /\ Remaining("sizing") > 0 /\ Remaining("spice") > 0
  BY RemainingNat DEF AnyExhausted, Kinds
<1>2. Met => Simulated(sim_result)
  BY DEF Met, Simulated
<1> QED
  BY <1>1, <1>2 DEF Decision, CanGenerate
-----------------------------------------------------------------------------
(* The bookkeeping that ends a turn. *)

\* It either refreshes the remembered evaluation or replaces it by the present one.
LEMMA TrackEffect ==
  ASSUME NEW c, NEW s, NEW p, NEW f, Track(c, s, p, f)
  PROVE  \/ best_eval' = Referenced(best_eval, c)
         \/ /\ SimSuccess(s)
            /\ \E r \in Rewards :
                 best_eval' = [reward |-> r, candidate |-> c, sim |-> s, pvt |-> p]
  BY DEF Track

\* The bookkeeping of a turn keeps the types of the manager and of best_eval.
LEMMA TrackType ==
  ASSUME TypeOK, NEW c \in Candidate, NEW s \in SimResult, NEW p \in BOOLEAN,
         NEW f \in Nat, Track(c, s, p, f)
  PROVE  /\ best_eval' \in [reward : Rewards \cup {-1}, candidate : Candidate,
                            sim : SimResult, pvt : BOOLEAN]
         /\ manager' \in [best_reward : Rewards \cup {-1},
                          no_improvement : Nat, failures : Nat]
  BY DEF Track, Referenced, TypeOK
-----------------------------------------------------------------------------
(* Type correctness. *)

\* A charge that was checked keeps its counter within the cap.
LEMMA ChargeFits ==
  ASSUME TypeOK, NEW k \in Kinds, NEW n \in Nat, Fits(k, n), Charge(k, n)
  PROVE  /\ used' \in [Kinds -> Nat]
         /\ \A j \in Kinds : used'[j] <= Cap[j]
  BY DEF TypeOK, Fits, Charge

\* A round of n steps evaluates at most n vectors, and no more than it can pay.
LEMMA RealEvaluationsBounded ==
  ASSUME NEW n \in Nat, NEW b \in Nat, NEW calls \in RealEvaluations(n, b)
  PROVE  calls \in Nat /\ calls <= n /\ calls <= b
<1>1. CASE n <= Warmup
  BY <1>1, ConfigAssumption DEF RealEvaluations, ForcedReal, Minimum
<1>2. CASE n > Warmup
  <2>1. n - Warmup \in Nat /\ QueryInterval + 1 \in Nat \ {0}
    BY <1>2, ConfigAssumption
  <2>2. (n - Warmup) \div (QueryInterval + 1) \in Nat
    BY <2>1
  <2>3. ForcedReal(n) \in Nat
    BY <1>2, <2>2, ConfigAssumption DEF ForcedReal
  <2> QED
    BY <2>3 DEF RealEvaluations, Minimum
<1> QED
  BY <1>1, <1>2, ConfigAssumption

\* The empty values have the types of the full ones.
LEMMA EmptyTypes == NoCandidate \in Candidate /\ NoSim \in SimResult
  BY DEF NoCandidate, NoSim, Candidate, SimResult, Statuses, Outcomes

\* An episode starts well typed.
LEMMA InitType == Init => TypeOK
<1> SUFFICES ASSUME Init PROVE TypeOK
  OBVIOUS
<1>1. used \in [Kinds -> Nat] /\ \A k \in Kinds : used[k] <= Cap[k]
  BY CapNat DEF Init
<1>2. best_eval \in [reward : Rewards \cup {-1}, candidate : Candidate,
                    sim : SimResult, pvt : BOOLEAN]
  BY EmptyTypes DEF Init, NoEval
<1>3. verified \subseteq [id : Nat, design : Nat, met : BOOLEAN]
  BY DEF Init
<1> QED
  BY <1>1, <1>2, <1>3, EmptyTypes DEF Init, TypeOK, States, NoTag, NoResult

\* The work a decision starts fits the budget it is charged to.
LEMMA WorkFits ==
  ASSUME TypeOK
  PROVE  /\ Turn("RETRIEVE_MORE") => Fits("retrievals", 1)
         /\ Turn("GENERATE_NEW_TOPOLOGY") => Fits("generations", 1)
         /\ Turn("REPAIR_OR_EDIT_TOPOLOGY") => Fits("edits", 1)
         /\ Turn("CONTINUE_SIZING") => Fits("sizing", 1) /\ Fits("spice", 1)
         /\ Turn("RUN_SPICE") => Fits("spice", 1)
         /\ Turn("RUN_PVT") => Fits("spice", Maximum(1, Minimum(PvtCorners, Remaining("spice"))))
<1>1. \A k \in Kinds : used[k] \in Nat /\ Cap[k] \in Nat
  BY CapNat DEF TypeOK
<1>2. \A k \in Kinds : Remaining(k) > 0 => Fits(k, 1)
  BY <1>1 DEF Remaining, Fits
<1>3. Remaining("spice") > 0 =>
        Fits("spice", Maximum(1, Minimum(PvtCorners, Remaining("spice"))))
  BY <1>1, ConfigAssumption DEF Remaining, Fits, Maximum, Minimum, Kinds
<1> QED
  BY <1>2, <1>3, DecisionGuards DEF Turn, Kinds

\* A sizing round charges no more than was left of either budget.
LEMMA SizingCharge ==
  ASSUME TypeOK, ContinueSizing
  PROVE  /\ used' \in [Kinds -> Nat]
         /\ \A k \in Kinds : used'[k] <= Cap[k] /\ used'[k] >= used[k]
         /\ used'["generations"] = used["generations"]
         /\ used'["sizing"] + used'["spice"] > used["sizing"] + used["spice"]
         /\ \E changed, selected \in BOOLEAN : SizedBy(changed, selected)
         /\ Track(candidate', sim_result, pvt_result, 0)
         /\ state' = "SIZE"
         /\ UNCHANGED <<retrieved, env, sim_result, pvt_result, budget_hit, verified>>
<1> DEFINE steps == Minimum(SizingSteps, Remaining("sizing"))
           left  == Remaining("spice") - 1
<1>1. /\ used \in [Kinds -> Nat]
      /\ \A k \in Kinds : used[k] <= Cap[k] /\ Cap[k] \in Nat
      /\ {"sizing", "spice", "generations"} \subseteq Kinds
  BY CapNat DEF TypeOK, Kinds
<1>2. Fits("sizing", 1) /\ Fits("spice", 1)
  BY WorkFits DEF ContinueSizing
<1>3. /\ steps \in Nat \ {0} /\ used["sizing"] + steps <= Cap["sizing"]
      /\ left \in Nat /\ used["spice"] + 1 + left = Cap["spice"]
  BY <1>1, <1>2, ConfigAssumption DEF Fits, Remaining, Minimum
<1>4. \A calls \in RealEvaluations(steps, left) : calls \in Nat /\ calls <= left
  BY <1>3, RealEvaluationsBounded
<1>5. /\ \/ /\ Charge("sizing", steps)
            /\ \E changed, selected \in BOOLEAN : SizedBy(changed, selected)
         \/ /\ Charge("spice", 1)
            /\ SizedBy(~candidate.sized, FALSE)
         \/ \E calls \in RealEvaluations(steps, left) :
              /\ used' = [used EXCEPT !["sizing"] = @ + steps, !["spice"] = @ + 1 + calls]
              /\ \E changed, selected \in BOOLEAN : SizedBy(changed, selected)
      /\ Track(candidate', sim_result, pvt_result, 0)
      /\ state' = "SIZE"
      /\ UNCHANGED <<retrieved, env, sim_result, pvt_result, budget_hit, verified>>
  BY <1>2 DEF ContinueSizing
<1>6. (~candidate.sized) \in BOOLEAN
  BY DEF TypeOK, Candidate
<1> HIDE DEF steps, left
<1>7. CASE Charge("sizing", steps) /\ \E changed, selected \in BOOLEAN : SizedBy(changed, selected)
  BY <1>1, <1>3, <1>5, <1>7 DEF Charge, Kinds
<1>8. CASE Charge("spice", 1) /\ SizedBy(~candidate.sized, FALSE)
  <2>1. \E changed, selected \in BOOLEAN : SizedBy(changed, selected)
    BY <1>6, <1>8, Zenon
  <2>2. used' = [used EXCEPT !["spice"] = @ + 1]
    BY <1>8 DEF Charge
  <2> QED
    BY <1>1, <1>3, <1>5, <2>1, <2>2 DEF Kinds
<1>9. CASE \E calls \in RealEvaluations(steps, left) :
              /\ used' = [used EXCEPT !["sizing"] = @ + steps, !["spice"] = @ + 1 + calls]
              /\ \E changed, selected \in BOOLEAN : SizedBy(changed, selected)
  BY <1>1, <1>3, <1>4, <1>5, <1>9 DEF Kinds
<1> QED
  BY <1>5, <1>7, <1>8, <1>9

\* The changes handlers make to a candidate keep it a candidate.
LEMMA CandidateUpdates ==
  ASSUME NEW c \in Candidate, NEW d \in Nat, NEW st \in Statuses, NEW b \in BOOLEAN
  PROVE  /\ [c EXCEPT !.design = d, !.valid = b, !.status = st, !.planned = TRUE] \in Candidate
         /\ [c EXCEPT !.design = d, !.sized = TRUE, !.status = st] \in Candidate
         /\ [c EXCEPT !.status = st] \in Candidate
         /\ [id |-> d, design |-> 0, status |-> st, valid |-> b,
             sized |-> FALSE, planned |-> FALSE] \in Candidate
  BY DEF Candidate

\* The answer is a well-typed report.
LEMMA AnswerType ==
  \A c, s : Answer(c, s) \in [success : BOOLEAN, remembered : {"NONE", "SUCCESS", "FAILURE"}]
<1> SUFFICES ASSUME NEW c, NEW s
             PROVE  Answer(c, s) \in [success : BOOLEAN,
                                     remembered : {"NONE", "SUCCESS", "FAILURE"}]
  OBVIOUS
<1>1. (c.status \in {"ACCEPTED", "SIMULATED"} /\ SimSuccess(s)) \in BOOLEAN
  OBVIOUS
<1>2. (IF c = NoCandidate THEN "NONE" ELSE IF s.outcome = "MET" THEN "SUCCESS" ELSE "FAILURE")
        \in {"NONE", "SUCCESS", "FAILURE"}
  OBVIOUS
<1> QED
  BY <1>1, <1>2 DEF Answer

\* Before the episode begins no retrieval has been charged: what makes the first,
\* unguarded, charge fit.
Fresh == control = "start" => used["retrievals"] = 0

\* Every step keeps the types.
LEMMA StepType == TypeOK /\ Fresh /\ [Next]_vars => TypeOK' /\ Fresh'
<1> SUFFICES ASSUME TypeOK, Fresh, [Next]_vars PROVE TypeOK' /\ Fresh'
  OBVIOUS
<1> USE DEF machineVars, configVars, workVars
<1>0. /\ {"edits", "sizing", "spice", "generations", "retrievals"} \subseteq Kinds
      /\ Tag(candidate) \in [id : Nat, design : Nat]
      /\ 0 \in Nat /\ 1 \in Nat
  BY DEF Kinds, TypeOK, Candidate, Tag
<1>a. NextTurn => decisions' \in Nat /\ control' \in {"loop", "wrapup"}
  BY DEF NextTurn, TypeOK
<1>1. CASE ParseFails
  BY <1>1 DEF ParseFails, TypeOK, States, Fresh
<1>2. CASE Begin
  <2>1. Fits("retrievals", 1)
    BY <1>2, BudgetAssumption DEF Begin, Fits, Fresh, Cap, Kinds
  <2>2. used' \in [Kinds -> Nat] /\ \A k \in Kinds : used'[k] <= Cap[k]
    BY <1>0, <1>2, <2>1, ChargeFits DEF Begin
  <2> QED
    BY <1>2, <2>2 DEF Begin, TypeOK, States, Fresh
<1>3. CASE RetrieveMore
  <2>1. Fits("retrievals", 1)
    BY <1>3, WorkFits DEF RetrieveMore
  <2>2. used' \in [Kinds -> Nat] /\ \A k \in Kinds : used'[k] <= Cap[k]
    BY <1>0, <1>3, <2>1, ChargeFits DEF RetrieveMore
  <2>3. Track(candidate, sim_result, pvt_result, 0)
    BY <1>3, <2>1 DEF RetrieveMore
  <2> QED
    BY <1>0, <1>3, <1>a, <2>1, <2>2, <2>3, TrackType DEF RetrieveMore, TypeOK, Fresh
<1>4. CASE GenerationFails
  <2>1. Fits("generations", 1)
    BY <1>4, WorkFits DEF GenerationFails
  <2>2. used' \in [Kinds -> Nat] /\ \A k \in Kinds : used'[k] <= Cap[k]
    BY <1>0, <1>4, <2>1, ChargeFits DEF GenerationFails
  <2> QED
    BY <1>4, <1>a, <2>1, <2>2 DEF GenerationFails, TypeOK, Fresh, States
<1>5. CASE GenerateNewTopology
  <2>1. Fits("generations", 1)
    BY <1>5, WorkFits DEF GenerateNewTopology
  <2>2. used' \in [Kinds -> Nat] /\ \A k \in Kinds : used'[k] <= Cap[k]
    BY <1>0, <1>5, <2>1, ChargeFits DEF GenerateNewTopology
  <2>3. used["generations"] + 1 \in Nat
    BY <1>0 DEF TypeOK
  <2>4. candidate' \in Candidate
    <3>1. PICK ok \in BOOLEAN :
            candidate' = [id |-> used["generations"] + 1, design |-> 0,
                          status |-> IF ok THEN "VALIDATED" ELSE "INVALID",
                          valid |-> ok, sized |-> FALSE, planned |-> FALSE]
      BY <1>5, <2>1 DEF GenerateNewTopology
    <3>2. (IF ok THEN "VALIDATED" ELSE "INVALID") \in Statuses
      BY DEF Statuses
    <3> QED
      BY <2>3, <3>1, <3>2, CandidateUpdates DEF TypeOK
  <2>5. env' = "none" /\ space' = "none" /\ sim_result' \in SimResult /\ pvt_result' \in BOOLEAN
    BY <1>5, <2>1, EmptyTypes DEF GenerateNewTopology, ResetWork
  <2>6. Track(candidate', sim_result', pvt_result', 0)
    BY <1>5, <2>1 DEF GenerateNewTopology
  <2> QED
    BY <1>0, <1>5, <1>a, <2>1, <2>2, <2>4, <2>5, <2>6, TrackType
       DEF GenerateNewTopology, TypeOK, Fresh, States
<1>6. CASE EditTopology
  <2>1. Fits("edits", 1)
    BY <1>6, WorkFits DEF EditTopology
  <2>2. used' \in [Kinds -> Nat] /\ \A k \in Kinds : used'[k] <= Cap[k]
    BY <1>0, <1>6, <2>1, ChargeFits DEF EditTopology
  <2>3. PICK action \in {"TERMINATE", "rejected", "edit"}, ok \in BOOLEAN :
          /\ env' = IF action = "TERMINATE" THEN "terminated" ELSE "open"
          /\ space' = IF action = "edit" /\ space # "none" THEN "stale" ELSE space
          /\ candidate' = [candidate EXCEPT
                 !.design  = IF action = "edit" THEN @ + 1 ELSE @,
                 !.valid   = ok,
                 !.status  = IF ok THEN "VALIDATED" ELSE "INVALID",
                 !.planned = TRUE]
    BY <1>6, <2>1 DEF EditTopology
  <2>4. candidate' \in Candidate
    <3>1. (IF action = "edit" THEN candidate.design + 1 ELSE candidate.design) \in Nat
      BY DEF TypeOK, Candidate
    <3>2. (IF ok THEN "VALIDATED" ELSE "INVALID") \in Statuses
      BY DEF Statuses
    <3> QED
      BY <2>3, <3>1, <3>2, CandidateUpdates DEF TypeOK
  <2>5. Track(candidate', sim_result', pvt_result', 0)
        /\ UNCHANGED <<sim_result, pvt_result>>
    BY <1>6, <2>1 DEF EditTopology
  <2>6. best_eval' \in [reward : Rewards \cup {-1}, candidate : Candidate,
                       sim : SimResult, pvt : BOOLEAN]
        /\ manager' \in [best_reward : Rewards \cup {-1}, no_improvement : Nat, failures : Nat]
    BY <1>0, <2>4, <2>5, TrackType DEF TypeOK
  <2>7. env' \in {"none", "open", "terminated"} /\ space' \in {"none", "current", "stale"}
    BY <2>3 DEF TypeOK
  <2> QED
    BY <1>6, <1>a, <2>1, <2>2, <2>4, <2>5, <2>6, <2>7, ZenonT(30) DEF EditTopology, TypeOK, Fresh, States
<1>7. CASE ContinueSizing
  <2>1. PICK changed \in BOOLEAN, selected \in BOOLEAN : SizedBy(changed, selected)
    BY <1>7, SizingCharge
  <2>5. NextTurn /\ UNCHANGED <<simulator_mode, expired, result>>
    BY <1>7 DEF ContinueSizing
  <2>2. candidate' \in Candidate
    <3>1. (IF changed THEN candidate.design + 1 ELSE candidate.design) \in Nat
      BY DEF TypeOK, Candidate
    <3>2. "SIZING" \in Statuses
      BY DEF Statuses
    <3> QED
      BY <2>1, <3>1, <3>2, CandidateUpdates DEF SizedBy, TypeOK
  <2>3. dpo_pending' \in [id : Nat, design : Nat] /\ space' \in {"none", "current", "stale"}
    BY <2>1, <2>2 DEF SizedBy, BuiltSpace, TypeOK, Tag, Candidate
  <2>4. best_eval' \in [reward : Rewards \cup {-1}, candidate : Candidate,
                       sim : SimResult, pvt : BOOLEAN]
        /\ manager' \in [best_reward : Rewards \cup {-1}, no_improvement : Nat, failures : Nat]
    BY <1>0, <1>7, <2>2, SizingCharge, TrackType DEF TypeOK
  <2> QED
    BY <1>7, <1>a, <2>2, <2>3, <2>4, <2>5, SizingCharge DEF TypeOK, Fresh, States
<1>8. CASE RunSpice
  <2>1. Fits("spice", 1)
    BY <1>8, WorkFits DEF RunSpice
  <2>2. used' \in [Kinds -> Nat] /\ \A k \in Kinds : used'[k] <= Cap[k]
    BY <1>0, <1>8, <2>1, ChargeFits DEF RunSpice
  <2>3. candidate' \in Candidate
    BY <1>8, <2>1 DEF RunSpice, TypeOK, Candidate, Statuses
  <2>4. PICK o \in Outcomes :
          /\ sim_result' = IF o = "NONE" THEN NoSim
                           ELSE [outcome |-> o, id |-> candidate.id, design |-> candidate.design]
          /\ verified' = IF SimSuccess(sim_result')
                         THEN verified \cup {[id |-> candidate.id, design |-> candidate.design,
                                              met |-> o = "MET"]}
                         ELSE verified
          /\ Track(candidate', sim_result', pvt_result, IF o \in {"NONE", "FAILED"} THEN 1 ELSE 0)
    BY <1>8, <2>1 DEF RunSpice
  <2>5. sim_result' \in SimResult
    BY <2>4, EmptyTypes DEF TypeOK, Candidate, SimResult
  <2>6. verified' \subseteq [id : Nat, design : Nat, met : BOOLEAN]
    <3>1. (o = "MET") \in BOOLEAN
      OBVIOUS
    <3>2. [id |-> candidate.id, design |-> candidate.design, met |-> o = "MET"]
            \in [id : Nat, design : Nat, met : BOOLEAN]
      BY <3>1 DEF TypeOK, Candidate
    <3>3. verified \subseteq [id : Nat, design : Nat, met : BOOLEAN]
      BY DEF TypeOK
    <3> QED
      BY <2>4, <3>2, <3>3
  <2>7. best_eval' \in [reward : Rewards \cup {-1}, candidate : Candidate,
                       sim : SimResult, pvt : BOOLEAN]
        /\ manager' \in [best_reward : Rewards \cup {-1}, no_improvement : Nat, failures : Nat]
    BY <1>0, <2>3, <2>4, <2>5, TrackType DEF TypeOK
  <2>8. dpo_pending' \in [id : Nat, design : Nat]
    BY <1>8, <2>1 DEF RunSpice, SettleDpo, NoTag
  <2> QED
    BY <1>8, <1>a, <2>1, <2>2, <2>3, <2>5, <2>6, <2>7, <2>8 DEF RunSpice, TypeOK, Fresh, States
<1>9. CASE RunPvt
  <2> DEFINE corners == Maximum(1, Minimum(PvtCorners, Remaining("spice")))
  <2>1. Fits("spice", corners) /\ corners \in Nat
    BY <1>0, <1>9, WorkFits, RemainingNat, ConfigAssumption DEF RunPvt, Maximum, Minimum
  <2>2. Charge("spice", corners)
    BY <1>9, <2>1 DEF RunPvt
  <2>3. used' \in [Kinds -> Nat] /\ \A k \in Kinds : used'[k] <= Cap[k]
    BY <1>0, <2>1, <2>2, ChargeFits
  <2>4. Track(candidate, sim_result, TRUE, 0) /\ pvt_result' = TRUE
    BY <1>9, <2>1 DEF RunPvt
  <2>5. best_eval' \in [reward : Rewards \cup {-1}, candidate : Candidate,
                       sim : SimResult, pvt : BOOLEAN]
        /\ manager' \in [best_reward : Rewards \cup {-1}, no_improvement : Nat, failures : Nat]
    BY <1>0, <2>4, TrackType DEF TypeOK
  <2> QED
    BY <1>9, <1>a, <2>1, <2>3, <2>4, <2>5 DEF RunPvt, TypeOK, Fresh, States
<1>10. CASE Stop
  BY <1>10 DEF Stop, Referenced, TypeOK, Fresh, Candidate, Statuses
<1>11. CASE TransitionRejected
  BY <1>11 DEF TransitionRejected, TypeOK, Fresh
<1>12. CASE StepAfterTerminate
  <2>1. used' \in [Kinds -> Nat] /\ \A k \in Kinds : used'[k] <= Cap[k]
    BY <1>0, <1>12, ChargeFits DEF StepAfterTerminate
  <2> QED
    BY <1>12, <2>1 DEF StepAfterTerminate, TypeOK, Fresh, States
<1>13. CASE WrapUp
  <2>1. candidate' \in Candidate /\ sim_result' \in SimResult /\ pvt_result' \in BOOLEAN
    BY <1>13 DEF WrapUp, TypeOK
  <2>2. result' \in [success : BOOLEAN, remembered : {"NONE", "SUCCESS", "FAILURE"}]
    BY <1>13, AnswerType DEF WrapUp, TypeOK
  <2>3. state' \in States /\ control' \in {"returned", "raised"}
    BY <1>13 DEF WrapUp, TypeOK, States
  <2> QED
    BY <1>13, <2>1, <2>2, <2>3 DEF WrapUp, TypeOK, Fresh
<1>14. CASE RuntimeExpires
  BY <1>14 DEF RuntimeExpires, TypeOK, Fresh
<1>15. CASE UNCHANGED vars
  BY <1>15 DEF vars, TypeOK, Fresh
<1> QED
  BY <1>1, <1>2, <1>3, <1>4, <1>5, <1>6, <1>7, <1>8, <1>9, <1>10, <1>11, <1>12, <1>13,
     <1>14, <1>15 DEF Next, Episode

\* Every reachable state is well typed and within every budget.
THEOREM TypeInvariant == Spec => []TypeOK
<1>1. Init => TypeOK /\ Fresh
  BY InitType DEF Init, Fresh, Kinds
<1>2. TypeOK /\ Fresh /\ [Next]_vars => (TypeOK /\ Fresh)'
  BY StepType
<1>3. Spec => [](TypeOK /\ Fresh)
  BY <1>1, <1>2, PTL DEF Spec
<1> QED
  BY <1>3, PTL
-----------------------------------------------------------------------------
(* The inductive invariant. *)

\* What turns of the loop carry over, and with what frames the episode, the invariant.
Core == Identities /\ Results /\ Final /\ Acceptance /\ Recording
IInv == TypeOK /\ Fresh /\ Core /\ Phases /\ Answered

\* A turn that keeps its candidate carries Core over, provided that it leaves a result
\* that fits the candidate, keeps a result that met everything, and changes the
\* candidate only by unsettling it or when it has no result.
LEMMA SameCandidate ==
  ASSUME TypeOK, TypeOK', Core, control = "loop",
         candidate'.id = candidate.id,
         candidate'.status # "ACCEPTED",
         used'["generations"] = used["generations"],
         \/ best_eval' = Referenced(best_eval, candidate')
         \/ /\ SimSuccess(sim_result')
            /\ \E r \in Rewards :
                 best_eval' = [reward |-> r, candidate |-> candidate',
                               sim |-> sim_result', pvt |-> pvt_result'],
         Matches(sim_result', candidate'),
         Simulated(sim_result) => Simulated(sim_result'),
         Met => Met',
         Met' => candidate'.status \in Settled,
         pvt_result' => Met',
         verified \subseteq verified',
         (\E v \in verified' : v.met) => Met',
         SimSuccess(sim_result') =>
           [id |-> sim_result'.id, design |-> sim_result'.design,
            met |-> sim_result'.outcome = "MET"] \in verified',
         \/ candidate' = candidate
         \/ candidate'.status \notin Settled
         \/ ~Simulated(sim_result)
  PROVE  Core'
<1> USE DEF Core
<1>1. candidate.status # "ACCEPTED" /\ best_eval.candidate.status # "ACCEPTED"
  BY DEF Acceptance
<1>2. CASE \E r \in Rewards :
             best_eval' = [reward |-> r, candidate |-> candidate',
                           sim |-> sim_result', pvt |-> pvt_result']
           /\ SimSuccess(sim_result')
  <2>1. /\ best_eval'.candidate = candidate' /\ best_eval'.sim = sim_result'
        /\ best_eval'.pvt = pvt_result'
    BY <1>2
  <2>2. Identities'
    BY <2>1 DEF Identities
  <2>3. Results'
    BY <1>2, <2>1 DEF Results, Matches, Simulated, SimSuccess
  <2>4. Final'
    BY <2>1 DEF Final, Met
  <2>5. Acceptance'
    BY <2>1 DEF Acceptance
  <2>6. Recording'
    BY <2>1 DEF Recording, Recorded, SimSuccess
  <2> QED
    BY <2>2, <2>3, <2>4, <2>5, <2>6
<1>3. CASE best_eval' = Referenced(best_eval, candidate')
  <2>1. /\ best_eval'.sim = best_eval.sim /\ best_eval'.pvt = best_eval.pvt
        /\ best_eval'.candidate = IF best_eval.candidate.id = candidate.id THEN candidate'
                                  ELSE best_eval.candidate
    BY <1>3 DEF Referenced, TypeOK
  <2>2. Identities'
    BY <2>1 DEF Identities
  <2>3. Results'
    <3>1. Matches(best_eval.sim, best_eval'.candidate)
      BY <2>1 DEF Results, Matches, Identities
    <3> QED
      BY <2>1, <3>1 DEF Results, Matches, Simulated, SimSuccess
  <2>4. Final'
    BY <2>1 DEF Final, Met
  <2>5. Acceptance'
    BY <1>1, <2>1 DEF Acceptance
  <2>6. Recording'
    BY <2>1 DEF Recording, Recorded, SimSuccess
  <2> QED
    BY <2>2, <2>3, <2>4, <2>5, <2>6
<1> QED
  BY <1>2, <1>3

\* A regenerated candidate starts over under a fresh identity.
LEMMA NewCandidate ==
  ASSUME TypeOK, Core, control = "loop", ~Met,
         candidate'.id = used["generations"] + 1,
         candidate'.status \in {"VALIDATED", "INVALID"},
         used'["generations"] = used["generations"] + 1,
         sim_result' = NoSim, pvt_result' = FALSE,
         best_eval' = Referenced(best_eval, candidate'),
         UNCHANGED verified
  PROVE  Core'
<1> USE DEF Core
<1>1. /\ candidate.status # "ACCEPTED" /\ best_eval.candidate.status # "ACCEPTED"
      /\ ~pvt_result /\ best_eval.sim.outcome # "MET" /\ ~best_eval.pvt
      /\ ~\E v \in verified : v.met
  BY DEF Acceptance, Final
<1>2. best_eval' = best_eval /\ best_eval.candidate.id # candidate'.id
  <2>1. used["generations"] \in Nat /\ best_eval.candidate.id \in Nat
    BY DEF TypeOK, Kinds, Candidate
  <2> QED
    BY <2>1 DEF Identities, Referenced
<1>3. ~Simulated(NoSim) /\ ~SimSuccess(NoSim) /\ NoSim.outcome # "MET"
  BY DEF Simulated, SimSuccess, NoSim
<1>4. Identities'
  BY <1>2 DEF Identities, TypeOK, Kinds, Candidate
<1>5. Results'
  BY <1>2, <1>3 DEF Results, Matches, Simulated, SimSuccess
<1>6. Final'
  BY <1>1, <1>2, <1>3 DEF Final, Met
<1>7. Acceptance'
  BY <1>1, <1>2 DEF Acceptance
<1>8. Recording'
  BY <1>2, <1>3 DEF Recording, Recorded, SimSuccess
<1> QED
  BY <1>4, <1>5, <1>6, <1>7, <1>8

\* An episode starts with nothing recorded and nothing to match.
LEMMA InitCore == Init => Core
<1> SUFFICES ASSUME Init PROVE Core
  OBVIOUS
<1>1. ~Simulated(NoSim) /\ ~SimSuccess(NoSim) /\ NoSim.outcome # "MET"
  BY DEF Simulated, SimSuccess, NoSim
<1>2. candidate = NoCandidate /\ best_eval.candidate = NoCandidate /\ best_eval.sim = NoSim
      /\ best_eval.pvt = FALSE /\ sim_result = NoSim /\ verified = {} /\ pvt_result = FALSE
  BY DEF Init, NoEval
<1>3. NoCandidate.id = 0 /\ NoCandidate.status = "NONE"
  BY DEF NoCandidate
<1>4. Identities
  BY <1>2, <1>3 DEF Identities, Init, Kinds
<1> QED
  BY <1>1, <1>2, <1>3, <1>4
     DEF Core, Results, Matches, Final, Met, Acceptance, Recording, Recorded

\* Steps that leave the candidate and the results alone, and never reopen the loop.
LEMMA Untouched ==
  ASSUME TypeOK, Core,
         UNCHANGED <<candidate, sim_result, pvt_result, best_eval, verified>>,
         used'["generations"] \in Nat, used'["generations"] >= used["generations"],
         control' \in {"start", "loop"} => control \in {"start", "loop"}
  PROVE  Core'
<1>1. Identities'
  BY DEF Core, Identities, TypeOK, Kinds, Candidate
<1> QED
  BY <1>1 DEF Core, Results, Matches, Final, Met, Acceptance, Recording, Recorded

\* Every step keeps results, records and acceptance in agreement.
LEMMA StepCore == TypeOK /\ Fresh /\ Core /\ [Next]_vars => Core'
<1> SUFFICES ASSUME TypeOK, Fresh, Core, [Next]_vars PROVE Core'
  OBVIOUS
<1> USE DEF machineVars, configVars, workVars
<1>0. TypeOK'
  BY StepType
<1>a. /\ Recorded(sim_result) /\ Matches(sim_result, candidate)
      /\ Met => candidate.status \in Settled
      /\ (\E v \in verified : v.met) => Met
      /\ pvt_result => Met
      /\ control = "loop" => candidate.status # "ACCEPTED"
  BY DEF Core, Recording, Results, Final, Acceptance
<1>b. \A k \in Kinds : used[k] \in Nat /\ used'[k] \in Nat
  BY <1>0 DEF TypeOK
<1>c. \A k \in Kinds, n \in Nat : Charge(k, n) /\ k # "generations" =>
         used'["generations"] = used["generations"]
  BY DEF Charge, TypeOK, Kinds
<1>1. CASE ParseFails
  BY <1>1, <1>b, Untouched DEF ParseFails, Kinds
<1>2. CASE Begin
  BY <1>2, <1>b, <1>c, Untouched DEF Begin, Kinds
<1>3. CASE RetrieveMore
  <2>1. Fits("retrievals", 1) /\ control = "loop"
    BY <1>3, WorkFits DEF RetrieveMore, Turn
  <2>2. /\ used'["generations"] = used["generations"]
        /\ UNCHANGED <<candidate, sim_result, pvt_result, verified>>
        /\ Track(candidate, sim_result, pvt_result, 0)
    BY <1>3, <1>c, <2>1 DEF RetrieveMore, Kinds
  <2> QED
    BY <1>0, <1>a, <2>1, <2>2, SameCandidate, TrackEffect DEF Met, Recorded
<1>4. CASE GenerationFails
  <2>1. Fits("generations", 1) /\ control = "loop"
    BY <1>4, WorkFits DEF GenerationFails, Turn
  <2>2. used'["generations"] >= used["generations"]
    BY <1>4, <1>b, <2>1 DEF GenerationFails, Charge, Kinds, TypeOK
  <2> QED
    BY <1>4, <1>b, <2>1, <2>2, Untouched DEF GenerationFails, Kinds
<1>5. CASE GenerateNewTopology
  <2>1. Fits("generations", 1) /\ control = "loop" /\ ~Met
    BY <1>5, WorkFits, DecisionGuards DEF GenerateNewTopology, Turn
  <2>2. /\ used'["generations"] = used["generations"] + 1
        /\ candidate'.id = used["generations"] + 1
        /\ candidate'.status \in {"VALIDATED", "INVALID"}
        /\ sim_result' = NoSim /\ pvt_result' = FALSE /\ UNCHANGED verified
        /\ Track(candidate', sim_result', pvt_result', 0)
    BY <1>5, <2>1 DEF GenerateNewTopology, ResetWork, Charge, Kinds, TypeOK
  <2>3. best_eval' = Referenced(best_eval, candidate')
    BY <2>2, TrackEffect DEF SimSuccess, NoSim
  <2> QED
    BY <2>1, <2>2, <2>3, NewCandidate
<1>6. CASE EditTopology
  <2>1. Fits("edits", 1) /\ control = "loop" /\ ~Met
    BY <1>6, WorkFits, DecisionGuards DEF EditTopology, Turn
  <2>2. /\ used'["generations"] = used["generations"]
        /\ UNCHANGED <<sim_result, pvt_result, verified>>
        /\ Track(candidate', sim_result', pvt_result', 0)
    BY <1>6, <1>c, <2>1 DEF EditTopology, Kinds
  <2>3. candidate'.id = candidate.id /\ candidate'.status \in {"VALIDATED", "INVALID"}
    BY <1>6, <2>1, ZenonT(30) DEF EditTopology, TypeOK, Candidate
  <2>4. candidate'.status \notin Settled /\ candidate'.status # "ACCEPTED"
    BY <2>3 DEF Settled
  <2>5. Matches(sim_result', candidate')
    BY <1>a, <2>2, <2>3, <2>4 DEF Matches
  <2> QED
    BY <1>0, <1>a, <2>1, <2>2, <2>3, <2>4, <2>5, SameCandidate, TrackEffect DEF Met, Recorded
<1>7. CASE ContinueSizing
  <2>1. control = "loop" /\ ~Met
    BY <1>7, DecisionGuards DEF ContinueSizing, Turn
  <2>2. /\ used'["generations"] = used["generations"]
        /\ UNCHANGED <<sim_result, pvt_result, verified>>
        /\ Track(candidate', sim_result', pvt_result', 0)
        /\ \E changed, selected \in BOOLEAN : SizedBy(changed, selected)
    BY <1>7, SizingCharge
  <2>3. candidate'.id = candidate.id /\ candidate'.status = "SIZING"
    BY <2>2 DEF SizedBy, TypeOK, Candidate
  <2>4. candidate'.status \notin Settled /\ candidate'.status # "ACCEPTED"
    BY <2>3 DEF Settled
  <2>5. Matches(sim_result', candidate')
    BY <1>a, <2>2, <2>3, <2>4 DEF Matches
  <2> QED
    BY <1>0, <1>a, <2>1, <2>2, <2>3, <2>4, <2>5, SameCandidate, TrackEffect DEF Met, Recorded
<1>8. CASE RunSpice
  <2>1. Fits("spice", 1) /\ control = "loop" /\ ~Simulated(sim_result)
    BY <1>8, WorkFits, DecisionGuards DEF RunSpice, Turn
  <2>2. ~Met /\ ~pvt_result /\ ~\E v \in verified : v.met
    BY <1>a, <2>1 DEF Met, Simulated
  <2>3. /\ used'["generations"] = used["generations"]
        /\ UNCHANGED pvt_result
        /\ candidate'.id = candidate.id /\ candidate'.design = candidate.design
        /\ candidate'.status = "SIMULATED"
    BY <1>8, <1>c, <2>1 DEF RunSpice, Kinds, TypeOK, Candidate
  <2>4. PICK o \in Outcomes :
          /\ sim_result' = IF o = "NONE" THEN NoSim
                           ELSE [outcome |-> o, id |-> candidate.id, design |-> candidate.design]
          /\ verified' = IF SimSuccess(sim_result')
                         THEN verified \cup {[id |-> candidate.id, design |-> candidate.design,
                                              met |-> o = "MET"]}
                         ELSE verified
          /\ Track(candidate', sim_result', pvt_result, IF o \in {"NONE", "FAILED"} THEN 1 ELSE 0)
    BY <1>8, <2>1 DEF RunSpice
  <2>5. SimSuccess(sim_result') =>
          /\ sim_result'.outcome = o /\ sim_result'.id = candidate.id
          /\ sim_result'.design = candidate.design
    BY <2>4 DEF NoSim, SimSuccess
  <2>6. Matches(sim_result', candidate')
    BY <2>3, <2>4 DEF Matches, NoSim, Simulated
  <2>7. verified \subseteq verified' /\ ((\E v \in verified' : v.met) => Met')
    <3>1. verified \subseteq verified'
      BY <2>4
    <3>2. ASSUME NEW v \in verified', v.met PROVE Met'
      <4>1. v = [id |-> candidate.id, design |-> candidate.design, met |-> o = "MET"]
            /\ SimSuccess(sim_result')
        BY <2>2, <2>4, <3>2
      <4>2. o = "MET"
        BY <3>2, <4>1
      <4> QED
        BY <2>5, <4>1, <4>2 DEF Met
    <3> QED
      BY <3>1, <3>2
  <2>8. SimSuccess(sim_result') =>
          [id |-> sim_result'.id, design |-> sim_result'.design,
           met |-> sim_result'.outcome = "MET"] \in verified'
    BY <2>4, <2>5
  <2> QED
    BY <1>0, <2>1, <2>2, <2>3, <2>4, <2>6, <2>7, <2>8, SameCandidate, TrackEffect DEF Settled
<1>9. CASE RunPvt
  <2> DEFINE corners == Maximum(1, Minimum(PvtCorners, Remaining("spice")))
  <2>1. Fits("spice", corners) /\ control = "loop" /\ Met /\ corners \in Nat
    BY <1>9, WorkFits, DecisionGuards, RemainingNat, ConfigAssumption
       DEF RunPvt, Turn, Kinds, Maximum, Minimum
  <2>2. /\ Charge("spice", corners)
        /\ UNCHANGED <<candidate, sim_result, verified>> /\ pvt_result' = TRUE
        /\ Track(candidate, sim_result, pvt_result', 0)
    BY <1>9, <2>1 DEF RunPvt
  <2>3. used'["generations"] = used["generations"]
    BY <1>c, <2>1, <2>2 DEF Kinds
  <2> QED
    <3>1. /\ candidate'.id = candidate.id /\ candidate'.status \in Settled
          /\ candidate'.status # "ACCEPTED" /\ Met'
          /\ Matches(sim_result', candidate')
      BY <1>a, <2>1, <2>2 DEF Met, Matches
    <3>2. \/ best_eval' = Referenced(best_eval, candidate')
          \/ /\ SimSuccess(sim_result')
             /\ \E r \in Rewards :
                  best_eval' = [reward |-> r, candidate |-> candidate',
                                sim |-> sim_result', pvt |-> pvt_result']
      BY <2>2, TrackEffect, ZenonT(60)
    <3>3. SimSuccess(sim_result') =>
            [id |-> sim_result'.id, design |-> sim_result'.design,
             met |-> sim_result'.outcome = "MET"] \in verified'
      BY <1>a, <2>2 DEF Recorded
    <3> QED
      BY <1>0, <2>1, <2>2, <2>3, <3>1, <3>2, <3>3, SameCandidate
<1>10. CASE Stop
  <2>1. /\ control = "loop" /\ control' = "wrapup"
        /\ UNCHANGED <<used, sim_result, pvt_result, verified>>
        /\ best_eval' = Referenced(best_eval, candidate')
    BY <1>10 DEF Stop
  <2>2. CASE candidate' = candidate
    <3>1. best_eval' = best_eval
      BY <2>1, <2>2 DEF Referenced, Core, Identities, TypeOK
    <3> QED
      BY <1>b, <2>1, <2>2, <3>1, Untouched DEF Kinds
  <2>3. CASE candidate' = [candidate EXCEPT !.status = "ACCEPTED"] /\ Accepts(Decision)
    <3>1. Simulated(sim_result) /\ pvt_result /\ Met /\ candidate.status = "SIMULATED"
      BY <1>10, <1>a, <2>1, <2>3, DecisionGuards DEF Stop, Accepts, Settled
    <3>2. /\ candidate'.id = candidate.id /\ candidate'.design = candidate.design
          /\ candidate'.status = "ACCEPTED"
      BY <2>3 DEF TypeOK, Candidate
    <3>3. /\ best_eval'.sim = best_eval.sim /\ best_eval'.pvt = best_eval.pvt
          /\ best_eval'.candidate = IF best_eval.candidate.id = candidate.id THEN candidate'
                                    ELSE best_eval.candidate
      BY <2>1, <3>2 DEF Referenced, TypeOK
    <3>4. Identities'
      BY <2>1, <3>2, <3>3 DEF Core, Identities
    <3>5. Results'
      BY <2>1, <3>1, <3>2, <3>3 DEF Core, Results, Matches, Identities, Settled, Simulated, SimSuccess
    <3>6. Final'
      BY <2>1, <3>1, <3>2, <3>3 DEF Core, Final, Met, Settled
    <3>7. Acceptance' /\ Recording'
      BY <2>1, <3>1, <3>3 DEF Core, Acceptance, Met, Recording, Recorded
    <3> QED
      BY <3>4, <3>5, <3>6, <3>7 DEF Core
  <2> QED
    BY <1>10, <2>2, <2>3 DEF Stop
<1>11. CASE TransitionRejected
  BY <1>11, <1>b, Untouched DEF TransitionRejected, Kinds
<1>12. CASE StepAfterTerminate
  BY <1>12, <1>b, <1>c, Untouched DEF StepAfterTerminate, Kinds
<1>13. CASE WrapUp
  <2>1. /\ UNCHANGED <<used, best_eval, verified>> /\ control = "wrapup"
        /\ control' \in {"returned", "raised"}
    BY <1>13 DEF WrapUp
  <2>2. CASE ~RestoresBest
    BY <1>13, <1>b, <2>1, <2>2, Untouched DEF WrapUp, Kinds
  <2>3. CASE RestoresBest
    <3>1. /\ candidate' = best_eval.candidate /\ sim_result' = best_eval.sim
          /\ pvt_result' = best_eval.pvt
      BY <1>13, <2>3 DEF WrapUp
    <3>2. ~Met
      BY <2>3 DEF RestoresBest, Met, Simulated
    <3>3. Identities'
      BY <2>1, <3>1 DEF Core, Identities
    <3>4. Results'
      BY <2>1, <3>1 DEF Core, Results, Matches
    <3>5. Final'
      BY <2>1, <3>1, <3>2 DEF Core, Final, Met
    <3>6. Acceptance' /\ Recording'
      BY <2>1, <3>1, <3>2 DEF Core, Acceptance, Recording, Recorded
    <3> QED
      BY <3>3, <3>4, <3>5, <3>6 DEF Core
  <2> QED
    BY <2>2, <2>3
<1>14. CASE RuntimeExpires
  BY <1>14, <1>b, Untouched DEF RuntimeExpires, Kinds
<1>15. CASE UNCHANGED vars
  BY <1>15, <1>b, Untouched DEF vars, Kinds
<1> QED
  BY <1>1, <1>2, <1>3, <1>4, <1>5, <1>6, <1>7, <1>8, <1>9, <1>10, <1>11, <1>12, <1>13,
     <1>14, <1>15 DEF Next, Episode

\* A step that is neither the start nor the answer leaves the frame alone.
LEMMA StepFrame == TypeOK /\ Core /\ Phases /\ Answered /\ [Next]_vars => Phases' /\ Answered'
<1> SUFFICES ASSUME TypeOK, Core, Phases, Answered, [Next]_vars PROVE Phases' /\ Answered'
  OBVIOUS
<1> USE DEF machineVars, configVars, workVars
<1>1. CASE ParseFails
  BY <1>1 DEF ParseFails, Phases, Answered, NoResult, NoEval, NoSim, Simulated
<1>2. CASE WrapUp /\ control' = "returned"
  <2>1. /\ UNCHANGED <<verified, best_eval>> /\ result' = Answer(candidate', sim_result')
        /\ candidate' = IF RestoresBest THEN best_eval.candidate ELSE candidate
        /\ sim_result' = IF RestoresBest THEN best_eval.sim ELSE sim_result
    BY <1>2 DEF WrapUp
  <2>2. /\ result'.success <=> candidate'.status \in {"ACCEPTED", "SIMULATED"}
                                /\ SimSuccess(sim_result')
        /\ result'.remembered = IF candidate' = NoCandidate THEN "NONE"
                                ELSE IF sim_result'.outcome = "MET" THEN "SUCCESS" ELSE "FAILURE"
    BY <2>1 DEF Answer
  <2>3. (\E v \in verified' : v.met) =>
          /\ sim_result'.outcome = "MET" /\ SimSuccess(sim_result')
          /\ candidate'.status \in {"ACCEPTED", "SIMULATED"} /\ candidate' # NoCandidate
    BY <2>1 DEF Core, Final, Met, RestoresBest, Simulated, SimSuccess, Settled, NoCandidate
  <2>4. Simulated(best_eval.sim) => Simulated(sim_result')
    BY <2>1 DEF RestoresBest
  <2>5. result'.remembered = "SUCCESS" => sim_result'.outcome = "MET"
    BY <2>2
  <2>6. Answered'
    BY <2>1, <2>2, <2>3, <2>4, <2>5 DEF Answered, Met, Settled
  <2> QED
    BY <1>2, <2>6 DEF Phases
<1>3. CASE /\ control # "returned" /\ control' \notin {"start", "returned"}
           /\ UNCHANGED result
  BY <1>3 DEF Phases, Answered
<1>4. CASE UNCHANGED vars
  BY <1>4 DEF vars, Phases, Answered, Met
<1> QED
  BY <1>1, <1>2, <1>3, <1>4
     DEF Next, Episode, Begin, RetrieveMore, GenerationFails, GenerateNewTopology, EditTopology,
         ContinueSizing, RunSpice, RunPvt, Stop, TransitionRejected, StepAfterTerminate, WrapUp,
         RuntimeExpires, Turn, NextTurn

\* The strengthened invariant holds in every reachable state.
THEOREM Invariance == Spec => []IInv
<1>1. Init => IInv
  BY InitType, InitCore DEF Init, IInv, Fresh, Kinds, Phases, Answered
<1>2. IInv /\ [Next]_vars => IInv'
  BY StepType, StepCore, StepFrame DEF IInv
<1> QED
  BY <1>1, <1>2, PTL DEF Spec
-----------------------------------------------------------------------------
(* The safety properties. *)

\* An accepted design met every constraint as it stands, corners evaluated.
THEOREM AcceptedVerified == Spec => []AcceptedIsVerified
<1>1. IInv => AcceptedIsVerified
  BY DEF IInv, Core, Acceptance, Results, Matches, AcceptedIsVerified, Describes, Tag, Met,
         Simulated, Settled
<1> QED
  BY <1>1, Invariance, PTL

\* A reported or remembered success is a design its simulation was run on.
THEOREM SuccessVerified == Spec => []SuccessIsVerified
<1>1. IInv => SuccessIsVerified
  <2> SUFFICES ASSUME IInv, result.success \/ result.remembered = "SUCCESS"
               PROVE  Describes(sim_result, candidate) /\ SimSuccess(sim_result)
    BY DEF SuccessIsVerified
  <2>1. control = "returned"
    BY DEF IInv, Phases, NoResult
  <2>2. SimSuccess(sim_result) /\ candidate.status \in Settled
    BY <2>1 DEF IInv, Core, Answered, Final, Met, SimSuccess
  <2> QED
    BY <2>2 DEF IInv, Core, Results, Matches, Describes, Tag, Simulated, SimSuccess
<1> QED
  BY <1>1, Invariance, PTL

\* A design that met every constraint is what the episode answers with.
THEOREM FeasibleReported == Spec => []FeasibleIsReported
<1>1. IInv => FeasibleIsReported
  BY DEF IInv, Answered, FeasibleIsReported
<1> QED
  BY <1>1, Invariance, PTL

\* An episode with a successful simulation never answers without one.
THEOREM GroundedReport == Spec => []GroundedWhenPossible
<1>1. IInv => GroundedWhenPossible
  BY DEF IInv, Core, Answered, Results, Matches, GroundedWhenPossible
<1> QED
  BY <1>1, Invariance, PTL

\* No handler runs into BudgetExhaustedError.
THEOREM BudgetNeverHit == Spec => []NoBudgetHit
<1>1. Init => NoBudgetHit
  BY DEF Init, NoBudgetHit
<1>2. TypeOK /\ NoBudgetHit /\ [Next]_vars => NoBudgetHit'
  <2> SUFFICES ASSUME TypeOK, NoBudgetHit, [Next]_vars PROVE UNCHANGED budget_hit
    BY DEF NoBudgetHit
  <2>1. ContinueSizing => UNCHANGED budget_hit
    BY SizingCharge
  <2> QED
    BY <2>1, WorkFits
       DEF Next, Episode, ParseFails, Begin, RetrieveMore, GenerationFails, GenerateNewTopology,
           EditTopology, RunSpice, RunPvt, Stop, TransitionRejected, StepAfterTerminate, WrapUp,
           RuntimeExpires, vars
<1> QED
  BY <1>1, <1>2, TypeInvariant, PTL DEF Spec
-----------------------------------------------------------------------------
(* The episode implements its contract. *)

\* A step inside the episode verifies a design, spends calls, or is invisible.
LEMMA InnerStep ==
  ASSUME IInv, IInv', control # "returned", control' # "returned",
         used'["spice"] >= used["spice"],
         \/ UNCHANGED verified
         \/ /\ used'["spice"] = used["spice"] + 1
            /\ \E v \in verified' : verified' = verified \cup {v}
  PROVE  Contract!Next \/ UNCHANGED Contract!contractVars
<1>1. /\ (control = "returned") = FALSE /\ (control' = "returned") = FALSE
      /\ ~result.success /\ ~result'.success
  BY DEF IInv, Phases, NoResult
<1>2. /\ used["spice"] \in Nat /\ used'["spice"] \in Nat /\ used'["spice"] <= MaxSpice
  BY DEF IInv, TypeOK, Kinds, Cap
<1>3. CASE UNCHANGED verified /\ used'["spice"] = used["spice"]
  BY <1>1, <1>3 DEF Contract!contractVars
<1>4. CASE UNCHANGED verified /\ used'["spice"] > used["spice"]
  BY <1>1, <1>2, <1>4 DEF Contract!Next, Contract!Spend
<1>5. CASE /\ used'["spice"] = used["spice"] + 1
           /\ \E v \in verified' : verified' = verified \cup {v}
  BY <1>1, <1>2, <1>5 DEF Contract!Next, Contract!Verify
<1> QED
  BY <1>2, <1>3, <1>4, <1>5

\* The answer is a verified design, or nothing when no simulation met everything.
LEMMA AnswerStep ==
  ASSUME IInv, IInv', control # "returned", control' = "returned",
         UNCHANGED <<used, verified>>
  PROVE  Contract!Next
<1>1. (control = "returned") = FALSE /\ (control' = "returned") = TRUE /\ ~result.success
  BY DEF IInv, Phases, NoResult
<1>2. CASE ~result'.success
  <2>1. \A v \in verified : ~v.met
    BY <1>2 DEF IInv, Answered
  <2> QED
    BY <1>1, <1>2, <2>1 DEF Contract!Next, Contract!GiveUp
<1>3. CASE result'.success
  <2> DEFINE v == [id |-> sim_result'.id, design |-> sim_result'.design,
                   met |-> sim_result'.outcome = "MET"]
  <2>1. SimSuccess(sim_result') /\ candidate'.status \in Settled
    BY <1>3 DEF IInv, Answered
  <2>2. v \in verified
    BY <2>1 DEF IInv, Core, Recording, Recorded
  <2>3. Contract!DesignOf(v) = Tag(candidate')
    BY <2>1 DEF IInv, Core, Results, Matches, Simulated, SimSuccess, Tag, Contract!DesignOf
  <2>4. (\E w \in verified : w.met) => v.met
    <3> SUFFICES ASSUME \E w \in verified : w.met PROVE v.met
      OBVIOUS
    <3>1. sim_result'.outcome = "MET"
      BY DEF IInv, Core, Final, Met
    <3> QED
      BY <3>1
  <2> HIDE DEF v
  <2> QED
    BY <1>1, <1>3, <2>2, <2>3, <2>4 DEF Contract!Next, Contract!Succeed
<1> QED
  BY <1>2, <1>3

\* Spec implements the abstract specification, under the mapping of Contract.
THEOREM Implementation == Spec => ImplementsContract
<1>1. Init => Contract!Init
  BY DEF Init, Contract!Init, Kinds, NoResult
<1>2. IInv /\ IInv' /\ [Next]_vars => Contract!Next \/ UNCHANGED Contract!contractVars
  <2> SUFFICES ASSUME IInv, IInv', [Next]_vars
               PROVE  Contract!Next \/ UNCHANGED Contract!contractVars
    OBVIOUS
  <2> USE DEF machineVars, configVars, workVars
  <2>0. /\ TypeOK /\ used["spice"] \in Nat
        /\ \A k \in Kinds, n \in Nat : Charge(k, n) =>
             used'["spice"] = IF k = "spice" THEN used["spice"] + n ELSE used["spice"]
    BY DEF IInv, TypeOK, Charge, Kinds
  <2>1. CASE ParseFails
    BY <2>1, AnswerStep DEF ParseFails
  <2>2. CASE Begin
    BY <2>0, <2>2, InnerStep DEF Begin, Kinds
  <2>3. CASE RetrieveMore
    BY <2>0, <2>3, WorkFits, InnerStep DEF RetrieveMore, Turn, NextTurn, Kinds
  <2>4. CASE GenerationFails
    BY <2>0, <2>4, WorkFits, InnerStep DEF GenerationFails, Turn, NextTurn, Kinds
  <2>5. CASE GenerateNewTopology
    BY <2>0, <2>5, WorkFits, InnerStep DEF GenerateNewTopology, Turn, NextTurn, Kinds
  <2>6. CASE EditTopology
    <3>1. Charge("edits", 1) /\ UNCHANGED verified
      BY <2>0, <2>6, WorkFits DEF EditTopology
    <3>2. control = "loop" /\ control' # "returned"
      BY <2>6 DEF EditTopology, Turn, NextTurn
    <3> QED
      BY <2>0, <3>1, <3>2, InnerStep DEF Kinds
  <2>7. CASE ContinueSizing
    BY <2>0, <2>7, SizingCharge, InnerStep DEF ContinueSizing, Turn, NextTurn, Kinds
  <2>8. CASE RunSpice
    <3>1. Fits("spice", 1) /\ control = "loop" /\ control' # "returned"
      BY <2>0, <2>8, WorkFits DEF RunSpice, Turn, NextTurn
    <3>2. used'["spice"] = used["spice"] + 1
      BY <2>0, <2>8, <3>1 DEF RunSpice, Kinds
    <3>3. UNCHANGED verified \/ \E v \in verified' : verified' = verified \cup {v}
      <4>1. PICK o \in Outcomes :
              verified' = IF SimSuccess(sim_result')
                          THEN verified \cup {[id |-> candidate.id, design |-> candidate.design,
                                               met |-> o = "MET"]}
                          ELSE verified
        BY <2>8, <3>1 DEF RunSpice
      <4> QED
        BY <4>1
    <3> QED
      BY <2>0, <3>1, <3>2, <3>3, InnerStep
  <2>9. CASE RunPvt
    <3> DEFINE corners == Maximum(1, Minimum(PvtCorners, Remaining("spice")))
    <3>1. Fits("spice", corners) /\ corners \in Nat /\ control = "loop"
      BY <2>0, <2>9, WorkFits, RemainingNat, ConfigAssumption
         DEF RunPvt, Turn, Kinds, Maximum, Minimum
    <3>2. Charge("spice", corners) /\ UNCHANGED verified /\ control' # "returned"
      BY <2>9, <3>1 DEF RunPvt, NextTurn
    <3> HIDE DEF corners
    <3> QED
      BY <2>0, <3>1, <3>2, InnerStep DEF Kinds
  <2>10. CASE Stop
    BY <2>0, <2>10, InnerStep DEF Stop
  <2>11. CASE TransitionRejected
    BY <2>0, <2>11, InnerStep DEF TransitionRejected
  <2>12. CASE StepAfterTerminate
    BY <2>0, <2>12, InnerStep DEF StepAfterTerminate, Turn, Kinds
  <2>13. CASE WrapUp
    BY <2>0, <2>13, InnerStep, AnswerStep DEF WrapUp
  <2>14. CASE RuntimeExpires
    BY <2>0, <2>14, InnerStep DEF RuntimeExpires
  <2>15. CASE UNCHANGED vars
    <3>1. UNCHANGED <<used, verified, control, result, candidate>>
      BY <2>15 DEF vars
    <3> QED
      BY <3>1 DEF Contract!contractVars, Tag
  <2> QED
    BY <2>1, <2>2, <2>3, <2>4, <2>5, <2>6, <2>7, <2>8, <2>9, <2>10, <2>11, <2>12, <2>13,
       <2>14, <2>15 DEF Next, Episode
<1> QED
  BY <1>1, <1>2, Invariance, PTL DEF Spec, ImplementsContract, Contract!Spec
-----------------------------------------------------------------------------
(* What a turn of the loop may do. *)

\* Every turn that returns to the loop charged a budget or counted a failure.
THEOREM TurnSpends == Spec => EveryTurnSpends
<1> DEFINE Spends == decisions' # decisions /\ control' = "loop" =>
                       \/ \E k \in Kinds : used'[k] > used[k]
                       \/ manager'.failures > manager.failures
<1>1. TypeOK /\ [Next]_vars => Spends
  <2> SUFFICES ASSUME TypeOK, [Next]_vars, decisions' # decisions, control' = "loop"
               PROVE  \E k \in Kinds : used'[k] > used[k]
    OBVIOUS
  <2>1. used \in [Kinds -> Nat]
        /\ {"edits", "sizing", "spice", "generations", "retrievals"} \subseteq Kinds
    BY DEF TypeOK, Kinds
  <2>2. ASSUME NEW k \in Kinds, NEW n \in Nat \ {0}, Charge(k, n)
        PROVE  \E j \in Kinds : used'[j] > used[j]
    <3>1. used'[k] = used[k] + n
      BY <2>1, <2>2 DEF Charge
    <3> QED
      BY <2>1, <3>1
  <2>3. CASE ContinueSizing
    BY <2>1, <2>3, SizingCharge
  <2>4. CASE RunPvt
    <3> DEFINE corners == Maximum(1, Minimum(PvtCorners, Remaining("spice")))
    <3>1. corners \in Nat \ {0} /\ Fits("spice", corners)
      BY <2>1, <2>4, WorkFits, RemainingNat, ConfigAssumption DEF RunPvt, Maximum, Minimum
    <3>2. Charge("spice", corners)
      BY <2>4, <3>1 DEF RunPvt
    <3> HIDE DEF corners
    <3> QED
      BY <2>1, <2>2, <3>1, <3>2
  <2>5. CASE \/ RetrieveMore \/ GenerationFails \/ GenerateNewTopology
             \/ EditTopology \/ RunSpice
    <3>1. RetrieveMore => Charge("retrievals", 1)
      BY WorkFits DEF RetrieveMore
    <3>2. GenerationFails \/ GenerateNewTopology => Charge("generations", 1)
      BY WorkFits DEF GenerationFails, GenerateNewTopology
    <3>3. EditTopology => Charge("edits", 1)
      <4>1. EditTopology => Fits("edits", 1)
        <5>1. EditTopology => Turn("REPAIR_OR_EDIT_TOPOLOGY")
          BY Zenon DEF EditTopology
        <5> QED
          BY <5>1, WorkFits
      <4> QED
        BY <4>1, Zenon DEF EditTopology
    <3>4. RunSpice => Charge("spice", 1)
      BY WorkFits DEF RunSpice
    <3> QED
      BY <2>1, <2>2, <2>5, <3>1, <3>2, <3>3, <3>4
  <2> QED
    BY <2>3, <2>4, <2>5
       DEF Next, Episode, ParseFails, Begin, Stop, TransitionRejected, StepAfterTerminate,
           WrapUp, RuntimeExpires, vars, machineVars
<1> QED
  BY <1>1, TypeInvariant, PTL DEF Spec, EveryTurnSpends

\* The work in hand while the loop runs.  A candidate has a sizing space once it is
\* sized and a simulation only then; its space is outdated only when its simulation
\* leaves nothing for another sizing round; a pending DPO selection is of the
\* design about to be simulated, or of one the loop can only size again.
Working ==
  control \in {"start", "loop"} =>
    /\ candidate.sized <=> space # "none"
    /\ candidate = NoCandidate \/ candidate.valid \/ candidate.status = "INVALID"
    /\ Simulated(sim_result) => candidate.sized
    /\ candidate.sized /\ candidate.status = "INVALID" => space = "stale"
    /\ space = "stale" => sim_result.outcome \in {"FAILED", "GAP"}
    /\ dpo_pending # NoTag =>
         /\ control = "loop" /\ state = "SIZE" /\ candidate.sized
         /\ \/ dpo_pending = Tag(candidate) /\ ~Simulated(sim_result)
            \/ sim_result.outcome = "NEAR"

\* What the policy knows of the candidate it sizes, edits or simulates.
LEMMA WorkGuards ==
  ASSUME TypeOK
  PROVE  /\ Decision = "CONTINUE_SIZING" =>
              /\ candidate # NoCandidate /\ candidate.status # "INVALID"
              /\ candidate.sized => sim_result.outcome = "NEAR"
         /\ Decision = "REPAIR_OR_EDIT_TOPOLOGY" =>
              /\ candidate # NoCandidate
              /\ \/ candidate.status = "INVALID" \/ ~candidate.sized
                 \/ sim_result.outcome \in {"FAILED", "GAP"}
         /\ Decision = "RUN_SPICE" =>
              candidate.sized /\ candidate.status # "INVALID" /\ ~Simulated(sim_result)
         /\ Decision = "RETRIEVE_MORE" => candidate = NoCandidate
         /\ Decision = "RUN_PVT" => Met
<1>1. ~AnyExhausted => Remaining("edits") > 0 /\ Remaining("sizing") > 0 /\ Remaining("spice") > 0
  BY RemainingNat DEF AnyExhausted, Kinds
<1>2. /\ sim_result.outcome \in {"NONE", "FAILED", "GAP", "NEAR", "MET"}
      /\ candidate.sized \in BOOLEAN
  BY DEF TypeOK, SimResult, Candidate, Outcomes
<1>3. Decision = "CONTINUE_SIZING" =>
        /\ candidate # NoCandidate /\ candidate.status # "INVALID"
        /\ candidate.sized => sim_result.outcome = "NEAR"
  BY <1>2 DEF Decision, CanGenerate, Valid
<1>4. Decision = "REPAIR_OR_EDIT_TOPOLOGY" =>
        /\ candidate # NoCandidate
        /\ \/ candidate.status = "INVALID" \/ ~candidate.sized
           \/ sim_result.outcome \in {"FAILED", "GAP"}
  BY <1>1, <1>2 DEF Decision, CanGenerate, Valid, Met, Simulated
<1>5. Decision = "RUN_SPICE" =>
        candidate.sized /\ candidate.status # "INVALID" /\ ~Simulated(sim_result)
  BY <1>2 DEF Decision, CanGenerate, Valid
<1>6. /\ Decision = "RETRIEVE_MORE" => candidate = NoCandidate
      /\ Decision = "RUN_PVT" => Met
  BY DecisionGuards
<1> QED
  BY <1>3, <1>4, <1>5, <1>6

\* A sizing in progress admits neither a new topology nor an edit.
LEMMA SizeIsClosed ==
  state = "SIZE" => ~CanEnter("GENERATE") /\ ~CanEnter("EDIT_TOPOLOGY")
  BY DEF CanEnter, ALLOWED_TRANSITIONS, States

\* Every step keeps the work in hand consistent.
LEMMA StepWorking == TypeOK /\ Working /\ [Next]_vars => Working'
<1> SUFFICES ASSUME TypeOK, Working, [Next]_vars, control' \in {"start", "loop"}
             PROVE  Working'
  BY DEF Working
<1> USE DEF machineVars, configVars, workVars
<1>0. candidate.sized \in BOOLEAN /\ candidate.valid \in BOOLEAN
  BY DEF TypeOK, Candidate
<1>1. CASE /\ UNCHANGED <<state, workVars>>
           /\ control = control' \/ dpo_pending = NoTag
           /\ control \in {"start", "loop"}
  BY <1>1 DEF Working, Simulated, Tag
<1>2. CASE Begin
  BY <1>2 DEF Begin, Working, Simulated, Tag
<1>3. CASE RetrieveMore
  <2>1. control = "loop" /\ candidate = NoCandidate /\ UNCHANGED <<state, workVars>>
    BY <1>3, WorkFits, WorkGuards DEF RetrieveMore, Turn
  <2>2. dpo_pending = NoTag
    BY <2>1 DEF Working, NoCandidate
  <2> QED
    BY <1>1, <2>1, <2>2
<1>4. CASE GenerationFails
  <2>1. state # "SIZE" /\ UNCHANGED workVars /\ control = "loop"
    BY <1>4, WorkFits, SizeIsClosed DEF GenerationFails, Turn, StageOf
  <2> QED
    BY <2>1 DEF Working, Simulated
<1>5. CASE GenerateNewTopology
  <2>1. Fits("generations", 1) /\ control = "loop" /\ state # "SIZE"
    BY <1>5, WorkFits, SizeIsClosed DEF GenerateNewTopology, Turn, StageOf
  <2>2. /\ ~candidate'.sized /\ (candidate'.valid \/ candidate'.status = "INVALID")
        /\ space' = "none" /\ ~Simulated(sim_result') /\ UNCHANGED dpo_pending
    BY <1>5, <2>1 DEF GenerateNewTopology, ResetWork, NoSim, Simulated
  <2> QED
    BY <2>1, <2>2 DEF Working
<1>6. CASE EditTopology
  <2>0. Turn("REPAIR_OR_EDIT_TOPOLOGY")
    BY <1>6, Zenon DEF EditTopology
  <2>1. Fits("edits", 1) /\ control = "loop" /\ state # "SIZE"
    BY <2>0, WorkFits, SizeIsClosed DEF Turn, StageOf
  <2>2. PICK action \in {"TERMINATE", "rejected", "edit"}, ok \in BOOLEAN :
          /\ action # "edit" => ok = candidate.valid
          /\ space' = IF action = "edit" /\ space # "none" THEN "stale" ELSE space
          /\ candidate' = [candidate EXCEPT
               !.design  = IF action = "edit" THEN @ + 1 ELSE @,
               !.valid   = ok,
               !.status  = IF ok THEN "VALIDATED" ELSE "INVALID",
               !.planned = TRUE]
    BY <1>6, <2>1, Zenon DEF EditTopology
  <2>3. sim_result' = sim_result /\ dpo_pending' = dpo_pending
    BY <1>6, <2>1, Zenon DEF EditTopology
  <2>4. /\ candidate'.sized = candidate.sized /\ candidate'.valid = ok
        /\ candidate'.status = IF ok THEN "VALIDATED" ELSE "INVALID"
    BY <2>2 DEF TypeOK, Candidate
  <2>5. /\ candidate # NoCandidate
        /\ \/ candidate.status = "INVALID" \/ ~candidate.sized
           \/ sim_result.outcome \in {"FAILED", "GAP"}
    BY <2>0, WorkGuards DEF Turn
  <2> QED
    BY <2>1, <2>2, <2>3, <2>4, <2>5 DEF Working, Simulated
<1>7. CASE ContinueSizing
  <2>1. /\ control = "loop" /\ candidate # NoCandidate /\ candidate.status # "INVALID"
        /\ candidate.sized => sim_result.outcome = "NEAR"
    BY <1>7, WorkGuards DEF ContinueSizing, Turn
  <2>2. state' = "SIZE" /\ UNCHANGED sim_result
    BY <1>7, SizingCharge
  <2>3. PICK changed, selected \in BOOLEAN : SizedBy(changed, selected)
    BY <1>7, SizingCharge
  <2>4. /\ candidate'.sized /\ candidate'.status = "SIZING"
        /\ candidate'.valid <=> candidate.valid
        /\ space' = IF space = "none" THEN "current" ELSE space
        /\ dpo_pending' = IF selected THEN Tag(candidate') ELSE dpo_pending
    BY <2>3 DEF SizedBy, BuiltSpace, TypeOK, Candidate
  <2> QED
    <3>1. candidate.valid /\ space # "stale" /\ (dpo_pending # NoTag => candidate.sized)
          /\ (candidate.sized \/ ~Simulated(sim_result))
      BY <2>1 DEF Working
    <3>2. control' = "loop"
      BY <1>7 DEF ContinueSizing, NextTurn
    <3> QED
      BY <2>1, <2>2, <2>4, <3>1, <3>2 DEF Working, Simulated
<1>8. CASE RunSpice
  <2>1. /\ control = "loop" /\ candidate.sized /\ candidate.status # "INVALID"
        /\ ~Simulated(sim_result) /\ Fits("spice", 1)
    BY <1>8, WorkGuards, WorkFits DEF RunSpice, Turn
  <2>2. /\ candidate'.sized /\ candidate'.status = "SIMULATED"
        /\ candidate'.valid = candidate.valid
        /\ UNCHANGED space /\ dpo_pending' = NoTag
    BY <1>8, <2>1 DEF RunSpice, SettleDpo, TypeOK, Candidate
  <2>3. candidate # NoCandidate /\ space # "stale"
    BY <2>1 DEF Working, NoCandidate, Simulated
  <2> QED
    BY <2>1, <2>2, <2>3 DEF Working
<1>9. CASE RunPvt
  <2>1. /\ control = "loop" /\ Met
        /\ UNCHANGED <<candidate, space, sim_result, dpo_pending>>
    BY <1>9, WorkGuards, WorkFits DEF RunPvt, Turn
  <2> QED
    BY <2>1 DEF Working, Met, Simulated
<1>10. CASE RuntimeExpires \/ UNCHANGED vars
  BY <1>1, <1>10 DEF RuntimeExpires, vars
<1> QED
  BY <1>2, <1>3, <1>4, <1>5, <1>6, <1>7, <1>8, <1>9, <1>10
     DEF Next, Episode, ParseFails, Stop, TransitionRejected, StepAfterTerminate, WrapUp

\* The work in hand is consistent throughout the loop.
THEOREM WorkInvariant == Spec => []Working
<1>1. Init => Working
  BY DEF Init, Working, NoCandidate, NoSim, Simulated
<1>2. TypeOK /\ Working /\ [Next]_vars => Working'
  BY StepWorking
<1> QED
  BY <1>1, <1>2, TypeInvariant, PTL DEF Spec

\* No sizing round runs with the parameter space of an earlier topology.
THEOREM CurrentTopologySized == Spec => SizesCurrentTopology
<1>1. TypeOK /\ Working /\ [Next]_vars => (ContinueSizing => space # "stale")
  BY WorkGuards DEF Working, ContinueSizing, Turn
<1> QED
  BY <1>1, TypeInvariant, WorkInvariant, PTL DEF Spec, SizesCurrentTopology

\* The simulation a pending DPO selection waits for is of the selected design.
THEOREM DpoOutcomeMatched == Spec => DpoOutcomeMatches
<1>1. TypeOK /\ Working /\ [Next]_vars =>
        (RunSpice /\ dpo_pending # NoTag => dpo_pending = Tag(candidate))
  BY WorkGuards DEF Working, RunSpice, Turn, Simulated
<1> QED
  BY <1>1, TypeInvariant, WorkInvariant, PTL DEF Spec, DpoOutcomeMatches
=============================================================================
