----------------------------- MODULE AgenticRun -----------------------------
(***************************************************************************)
(* One execution of run_raptor_v2.run_pipeline from the two selected        *)
(* topologies to the answer: the Optimization Supervisor sizes branches A   *)
(* and B under the BudgetLedger, one of the sized designs is selected and   *)
(* verified by a fresh simulation, the Recovery Agent may resize the other  *)
(* from banked calls, and robust delivery may hand out the runner-up.       *)
(*                                                                          *)
(* A sizing run is abstracted to the simulator calls it makes and whether   *)
(* it found a pass; a verification to its distance from feasibility.  The   *)
(* numbers are the code's: what the properties are about is arithmetic on   *)
(* calls charged, banked and really made.                                   *)
(*                                                                          *)
(* Operators named Fault... are no part of the specification: each is the   *)
(* faulty form of the operator defined after it, to show that a property    *)
(* notices the fault.                                                       *)
(***************************************************************************)
EXTENDS Integers, FiniteSets

CONSTANTS
  PerBranch,     \* budget: the sizing calls the baseline gives each branch
  FarDistance,   \* distances of failed verifications are 1 .. FarDistance
  Arms           \* the pipeline configurations to consider

\* supervisor, recovery: the agents enabled; robust, corners: robust_delivery and
\* an enabled pvt_config; calibrate: always verify both designs.
ArmSpace == [supervisor : BOOLEAN, recovery : BOOLEAN, robust : BOOLEAN,
             corners : BOOLEAN, calibrate : BOOLEAN]

PROBE_BUDGET  == 3
POLISH_BUDGET == 8
MIN_BANKED_TO_ACT == 4

ASSUME PerBranchAssumption == PerBranch \in Nat /\ PerBranch >= PROBE_BUDGET
ASSUME ArmAssumption == Arms \subseteq ArmSpace /\ FarDistance \in Nat

VARIABLES
  arm,            \* the configuration of this run
  stage,          \* where run_pipeline is
  ledger,         \* BudgetLedger.spice_spent and banked
  probes,         \* the Supervisor's probe of each branch, or NoRun
  allocation,     \* the calls allocate() gives each branch
  sized,          \* the sizing run each branch ends with, or NoRun
  selected,       \* sel_lbl: the design that will be delivered
  backup,         \* bak_lbl
  verified,       \* the recorded authoritative outcome of each design, or NotVerified
  outcome,        \* oc_sel: the outcome the answer is reported with
  cornered,       \* the corner verdicts robust delivery obtained
  recovery_calls, \* _recovery_calls
  report,         \* spice_usage of the trace
  simulated,      \* history: sizing simulations made
  replayed,       \* history: those that re-run a probe with the same seed
  verifications,  \* history: verification simulations made
  sweeps,         \* history: corner sweeps made
  first           \* history: the first verification of the selected design

budgetVars == <<ledger, simulated, replayed>>
sizingVars == <<probes, allocation, sized>>
answerVars == <<selected, backup, verified, outcome, cornered, recovery_calls>>
auditVars  == <<report, verifications, sweeps, first>>
vars == <<arm, stage, budgetVars, sizingVars, answerVars, auditVars>>
-----------------------------------------------------------------------------
Branches == {"A", "B"}
Designs  == {"A", "B", "R"}    \* R: the design Recovery made

Other(l) == IF l = "A" THEN "B" ELSE "A"

Total == 2 * PerBranch         \* the baseline's calls, and the ledger's cap

Verdicts == {"passed", "improving", "stalled", "pathological", "hopeless"}

NoRun == [calls |-> 0, passed |-> FALSE, verdict |-> "none"]

FaultRuns(n, early) ==
  {r \in [calls : 1 .. n + 1, passed : BOOLEAN] : r.calls = n + 1 \/ (early /\ r.passed)}

\* Sizing runs of at most n calls; only one that may stop early, at a pass, is
\* shorter.
Runs(n, early) ==
  {r \in [calls : 1 .. n, passed : BOOLEAN] : r.calls = n \/ (early /\ r.passed)}

\* Outcomes: 0 is a pass, a positive one its distance to feasibility, Unknown a
\* failure without any distance.
NotVerified == -2
Unknown     == -1
Passing     == 0
Outcomes    == Unknown .. FarDistance

FaultAdopts(new, old) == new # Unknown

\* The recovered design replaces the answer when its own measurement is better.
Adopts(new, old) == new = Passing \/ (new > 0 /\ old > 0 /\ new < old)
-----------------------------------------------------------------------------
(* The ledger. *)

Fits(n) == ledger.spent + n <= Total

\* spend_spice(n) with b unused calls banked at once.
Spend(n, b) == ledger' = [spent |-> ledger.spent + n, banked |-> ledger.banked + b]

\* spend_spice over the cap: BudgetExceeded leaves the pipeline.
BudgetExceeded ==
  /\ stage' = "raised"
  /\ UNCHANGED <<arm, budgetVars, sizingVars, answerVars, auditVars>>

FaultRemaining == Total

Remaining == Total - ledger.spent
-----------------------------------------------------------------------------
(* allocate: how many of r calls each branch gets. *)

Rank == [v \in Verdicts |-> CASE v = "passed" -> 0
                              [] v = "improving" -> 1
                              [] v = "hopeless" -> 3
                              [] OTHER -> 2]

Give(l, n, r) == [b \in Branches |-> IF b = l THEN n ELSE r - n]

Minimum(a, b) == IF a <= b THEN a ELSE b

\* A pathological branch keeps a floor of 35 % against one that is not hopeless.
Floored(l) == /\ probes[l].verdict = "pathological"
              /\ probes[Other(l)].verdict \in {"improving", "stalled"}

\* The allocations the verdicts leave open: gains, distances and slopes decide
\* between them.  Neither branch passed and one is capable of far more gain: all
\* to that one.  Otherwise the verdicts decide, and ties commit to one branch.
Allocations(r) ==
  LET va == probes["A"].verdict
      vb == probes["B"].verdict
      gainGated == IF "passed" \in {va, vb} THEN {} ELSE {Give(l, r, r) : l \in Branches}
      byVerdict ==
        IF \E l \in Branches : Floored(l)
        THEN {Give(l, (r * 35) \div 100, r) : l \in {b \in Branches : Floored(b)}}
        ELSE IF va = "passed" /\ vb = "passed" THEN {[b \in Branches |-> 0]}
        ELSE {Give(l, IF probes[l].verdict = "passed"
                         /\ probes[Other(l)].verdict = "improving"
                      THEN Minimum(POLISH_BUDGET, r) ELSE r, r) :
                l \in {b \in Branches :
                         Rank[probes[b].verdict] <= Rank[probes[Other(b)].verdict]}}
  IN gainGated \cup byVerdict
-----------------------------------------------------------------------------
(* Sizing. *)

\* The branches are handled in the order A, B; the stage after both is next.
Turn(s, l, done) == stage = s /\ done[l] = NoRun /\ (l = "B" => done["A"] # NoRun)
After(s, l, next) == stage' = IF l = "B" THEN next ELSE s

\* A cheap look at a branch, stopped at its first pass; what it leaves is banked.
Probe(l) ==
  /\ Turn("probe", l, probes)
  /\ IF Fits(PROBE_BUDGET)
     THEN \E run \in Runs(PROBE_BUDGET, TRUE), v \in Verdicts :
            /\ run.passed <=> v = "passed"
            /\ probes' = [probes EXCEPT ![l] = [calls |-> run.calls, passed |-> run.passed,
                                                verdict |-> v]]
            /\ Spend(PROBE_BUDGET, PROBE_BUDGET - run.calls)
            /\ simulated' = simulated + run.calls
            /\ After("probe", l, "allocate")
            /\ UNCHANGED <<arm, replayed, allocation, sized, answerVars, auditVars>>
     ELSE BudgetExceeded

Allocate ==
  /\ stage = "allocate"
  /\ allocation' \in Allocations(Remaining)
  /\ stage' = "finish"
  /\ UNCHANGED <<arm, budgetVars, probes, sized, answerVars, auditVars>>

\* The branch the probe chose, with at least 60 % of what the probes left.
Committed(l) == 10 * allocation[l] >= 6 * (Total - 2 * PROBE_BUDGET)

FaultRunLength(l) ==
  IF Committed(l) /\ allocation[Other(l)] = 0 THEN Total
  ELSE PROBE_BUDGET + allocation[l]

\* Calls of the run that replaces the probe of l.
RunLength(l) ==
  IF Committed(l) /\ allocation[Other(l)] = 0 THEN Total - PROBE_BUDGET
  ELSE PROBE_BUDGET + allocation[l]

RunsFull(l) == Committed(l) \/ probes[l].verdict = "passed"

\* A pathological branch restarts with another seed; any other run starts with the
\* seed of the probe, whose calls it makes again.
Replays(l, run) == IF probes[l].verdict = "pathological" THEN 0
                   ELSE Minimum(run.calls, probes[l].calls)

\* A branch without an allocation keeps its probe.  Another gets a run of its own:
\* the committed one its full length, the rest up to the first pass.
Finish(l) ==
  /\ Turn("finish", l, sized)
  /\ IF allocation[l] = 0
     THEN /\ sized' = [sized EXCEPT ![l] = probes[l]]
          /\ After("finish", l, "select")
          /\ UNCHANGED <<arm, budgetVars, probes, allocation, answerVars, auditVars>>
     ELSE IF Fits(allocation[l])
     THEN \E run \in Runs(RunLength(l), ~RunsFull(l)) :
            /\ sized' = [sized EXCEPT ![l] = [calls |-> run.calls, passed |-> run.passed,
                                              verdict |-> probes[l].verdict]]
            /\ Spend(allocation[l], IF RunsFull(l) THEN 0 ELSE RunLength(l) - run.calls)
            /\ simulated' = simulated + run.calls
            /\ replayed' = replayed + Replays(l, run)
            /\ After("finish", l, "select")
            /\ UNCHANGED <<arm, probes, allocation, answerVars, auditVars>>
     ELSE BudgetExceeded

\* Each branch gets the baseline's budget: charged and run in full under robust
\* delivery, without a ledger and possibly stopped early without a Supervisor.
SizeInFull(l) ==
  /\ Turn("size", l, sized)
  /\ IF ~arm.supervisor \/ Fits(PerBranch)
     THEN \E run \in Runs(PerBranch, ~arm.supervisor) :
            /\ sized' = [sized EXCEPT ![l] = [calls |-> run.calls, passed |-> run.passed,
                                              verdict |-> "not_probed"]]
            /\ Spend(IF arm.supervisor THEN PerBranch ELSE 0, 0)
            /\ simulated' = simulated + run.calls
            /\ After("size", l, "select")
            /\ UNCHANGED <<arm, replayed, probes, allocation, answerVars, auditVars>>
     ELSE BudgetExceeded
-----------------------------------------------------------------------------
(* Selection, verification, recovery, delivery. *)

Choose(l) == selected' = l /\ backup' = Other(l)

\* compare() under the measured-first gate: the only branch that passed while sizing
\* is selected, and without doubt; between equals the measured quality and
\* the learned scores below the gate may choose either.
Selects(l, doubtful) ==
  /\ sized[l].passed \/ ~sized[Other(l)].passed
  /\ sized[l].passed /\ ~sized[Other(l)].passed => ~doubtful

\* The selected design is verified, and the backup as well when the selection was
\* doubtful, calibration asks for it or the verification failed.
Verify ==
  /\ stage = "select"
  /\ \E l \in Branches, doubtful \in BOOLEAN, o, b \in Outcomes :
       LET both == arm.calibrate \/ doubtful \/ o # Passing IN
       /\ Selects(l, doubtful)
       /\ Choose(l)
       /\ outcome' = o
       /\ verified' = [verified EXCEPT ![l] = o,
                                       ![Other(l)] = IF both THEN b ELSE NotVerified]
       /\ verifications' = IF both THEN 2 ELSE 1
       /\ first' = o
  /\ stage' = "recover"
  /\ UNCHANGED <<arm, budgetVars, sizingVars, cornered, recovery_calls, report, sweeps>>

Recovers == /\ arm.recovery /\ outcome # Passing
            /\ ledger.banked >= MIN_BANKED_TO_ACT

FaultResizeBudget == IF ledger.banked > 2 THEN ledger.banked ELSE 2

\* One banked call is kept for the verification of the resized design.
ResizeBudget == IF ledger.banked - 1 > 2 THEN ledger.banked - 1 ELSE 2

\* Robust delivery looks at corners before the answer is reported.
AfterRecovery == IF arm.robust /\ arm.corners THEN "corners" ELSE "report"

FaultRecord(o) == UNCHANGED verified

\* The recovered design's outcome is recorded when it is adopted.
Record(o) == verified' = [verified EXCEPT !["R"] = o]

\* The backup is sized once more from the bank and verified, and replaces the
\* answer when that measurement is better than the selected design's.
Recover ==
  /\ stage = "recover"
  /\ Recovers
  /\ \E run \in Runs(ResizeBudget, TRUE), o \in Outcomes :
       /\ ledger' = [ledger EXCEPT !.banked = @ - Minimum(run.calls + 1, @)]
       /\ simulated' = simulated + run.calls
       /\ recovery_calls' = run.calls + 1
       /\ IF Adopts(o, outcome)
          THEN selected' = "R" /\ outcome' = o /\ Record(o)
          ELSE UNCHANGED <<selected, outcome, verified>>
  /\ verifications' = verifications + 1
  /\ stage' = AfterRecovery
  /\ UNCHANGED <<arm, replayed, sizingVars, backup, cornered, report, sweeps, first>>

\* Nothing to recover from, or nothing to recover with.
NoRecovery ==
  /\ stage = "recover"
  /\ ~Recovers
  /\ stage' = AfterRecovery
  /\ UNCHANGED <<arm, budgetVars, sizingVars, answerVars, auditVars>>

\* A passing answer is swept over the corners, and stands when all of them pass.
CornerSelected ==
  /\ stage = "corners"
  /\ IF outcome = Passing
     THEN \E robust \in BOOLEAN :
            /\ cornered' = [cornered EXCEPT ![selected] = IF robust THEN "robust" ELSE "fragile"]
            /\ sweeps' = sweeps + 1
            /\ stage' = IF robust THEN "report" ELSE "runnerup"
     ELSE stage' = "runnerup" /\ UNCHANGED <<cornered, sweeps>>
  /\ UNCHANGED <<arm, budgetVars, sizingVars, selected, backup, verified, outcome,
                 recovery_calls, report, verifications, first>>

FaultSwitches(robust) == FALSE
Switches(robust) == robust

\* The runner-up, verified now if it was not before, is swept when it passes, and
\* delivered when all its corners do.
CornerBackup ==
  /\ stage = "runnerup"
  /\ LET known == verified[backup] # NotVerified IN
     /\ verifications' = IF known THEN verifications ELSE verifications + 1
     /\ \E o \in Outcomes, robust \in BOOLEAN :
          /\ known => o = verified[backup]
          /\ verified' = [verified EXCEPT ![backup] = o]
          /\ IF o = Passing
             THEN /\ cornered' = [cornered EXCEPT ![backup] =
                                    IF robust THEN "robust" ELSE "fragile"]
                  /\ sweeps' = sweeps + 1
             ELSE UNCHANGED <<cornered, sweeps>>
          /\ IF o = Passing /\ Switches(robust)
             THEN Choose(backup) /\ outcome' = o
             ELSE UNCHANGED <<selected, backup, outcome>>
  /\ stage' = "report"
  /\ UNCHANGED <<arm, budgetVars, sizingVars, recovery_calls, report, first>>

Recorded(d) == IF verified[d] # NotVerified THEN 1 ELSE 0

FaultCountVerified == Recorded("A") + Recorded("B") + Recorded("R")

\* A recovery that was not adopted made its verification call all the same.
CountVerified ==
  Recorded("A") + Recorded("B") + Recorded("R") +
  (IF recovery_calls > 0 /\ verified["R"] = NotVerified THEN 1 ELSE 0)

\* The corner sweep of a passing answer, unless robust delivery has made it, and
\* the call counts of the trace, sweeps standing for their corner calls.
Report ==
  /\ stage = "report"
  /\ LET eligible == arm.corners /\ outcome = Passing
         swept == {d \in Designs : cornered[d] # "unchecked"}
     IN /\ sweeps' = IF eligible /\ selected \notin swept THEN sweeps + 1 ELSE sweeps
        /\ report' =
             [optimization |-> sized["A"].calls + sized["B"].calls +
                               (IF recovery_calls > 0 THEN recovery_calls - 1 ELSE 0),
              verification |-> CountVerified,
              corners      |-> IF ~eligible THEN 0
                               ELSE IF swept = {} THEN 1 ELSE Cardinality(swept)]
  /\ stage' = "done"
  /\ UNCHANGED <<arm, budgetVars, sizingVars, answerVars, verifications, first>>
-----------------------------------------------------------------------------
Init ==
  /\ arm \in Arms
  /\ stage = IF arm.supervisor /\ ~arm.robust THEN "probe" ELSE "size"
  /\ ledger = [spent |-> 0, banked |-> 0]
  /\ simulated = 0 /\ replayed = 0
  /\ probes = [l \in Branches |-> NoRun] /\ sized = probes
  /\ allocation = [l \in Branches |-> 0]
  /\ selected = "A" /\ backup = "B"
  /\ verified = [d \in Designs |-> NotVerified] /\ outcome = Unknown
  /\ cornered = [d \in Designs |-> "unchecked"]
  /\ recovery_calls = 0
  /\ report = [optimization |-> 0, verification |-> 0, corners |-> 0]
  /\ verifications = 0 /\ sweeps = 0 /\ first = Unknown

Next ==
  \/ \E l \in Branches : Probe(l) \/ Finish(l) \/ SizeInFull(l)
  \/ Allocate \/ Verify \/ Recover \/ NoRecovery
  \/ CornerSelected \/ CornerBackup \/ Report

Spec == Init /\ [][Next]_vars
-----------------------------------------------------------------------------
(* Properties. *)

Stages == {"probe", "allocate", "finish", "size", "select", "recover", "corners",
           "runnerup", "report", "done", "raised"}

Run == [calls : Nat, passed : BOOLEAN, verdict : Verdicts \cup {"none", "not_probed"}]

\* Every variable keeps its type, the ledger never charges more than its cap, and
\* the bank is never overdrawn.
TypeOK ==
  /\ arm \in Arms
  /\ stage \in Stages
  /\ ledger \in [spent : 0 .. Total, banked : Nat]
  /\ probes \in [Branches -> Run] /\ sized \in [Branches -> Run]
  /\ allocation \in [Branches -> Nat]
  /\ selected \in Designs /\ backup \in Branches
  /\ verified \in [Designs -> Outcomes \cup {NotVerified}]
  /\ outcome \in Outcomes
  /\ cornered \in [Designs -> {"unchecked", "fragile", "robust"}]
  /\ recovery_calls \in Nat
  /\ report \in [optimization : Nat, verification : Nat, corners : Nat]
  /\ simulated \in Nat /\ replayed \in Nat
  /\ verifications \in Nat /\ sweeps \in Nat
  /\ first \in Outcomes

\* Whatever the probes return, the Supervisor only asks the ledger for calls it
\* still has: BudgetExceeded never ends a run.
NeverExceeded == stage # "raised"

\* The calls of a probe whose branch was sized again.
Reprobed(l) == IF allocation[l] > 0 THEN PROBE_BUDGET ELSE 0

\* However verdicts, early stops, banking and recovery combine, the sizing calls
\* made and those still banked pass the envelope by at most the probes of the
\* branches that were sized again.
OverrunBounded == simulated + ledger.banked <= Total + Reprobed("A") + Reprobed("B")

\* Recovery pays for every simulation it makes, its verification included, with
\* calls that were in the bank.
RecoveryIsBankFunded ==
  [][Recover => (simulated' - simulated) + (verifications' - verifications)
                  = ledger.banked - ledger'.banked]_vars

\* The answer's outcome is the recorded verification of the very design that is
\* delivered, whichever of selection, recovery and robust delivery chose it.
DeliveredIsMeasured == stage = "done" => verified[selected] = outcome

\* Neither recovery nor robust delivery replaces the selected design by one that
\* did worse when verified.
NeverDeliversWorse ==
  stage = "done" => outcome \in {first, Passing} \/ outcome \in 1 .. first - 1

\* Under robust delivery, a design known to pass every corner is not passed over.
RobustIsDelivered ==
  stage = "done" /\ (\E d \in Designs : cornered[d] = "robust") =>
    cornered[selected] = "robust"

\* The trace reports every verification simulation that was made, adopted or not,
\* and none twice.
VerificationsCounted == stage = "done" => report.verification = verifications

(* Claims of the repository that the code does not keep. *)

\* "total physical = probe_A + probe_B + (committed run - probe) <= cap": what the
\* Supervisor simulates, repeated calls counted once, stays within the envelope.
EnvelopeHeld == simulated - replayed <= Total

\* "fall back to the backup branch on failure": a failed answer is not delivered
\* when the backup was verified to pass.
FallsBack == stage = "done" /\ outcome # Passing => verified[backup] # Passing

\* "All corner calls are counted in spice_usage.pvt_spice_calls."
CornersCounted == stage = "done" => report.corners = sweeps
=============================================================================
