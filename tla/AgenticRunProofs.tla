-------------------------- MODULE AgenticRunProofs --------------------------
(***************************************************************************)
(* Proofs about AgenticRun, for every budget and every set of arms.  The    *)
(* inductive invariant follows the stages of the run: Envelope accounts for *)
(* the calls charged, made and banked at each stage of sizing, Answered for *)
(* what is known of the delivered design after its verification.            *)
(***************************************************************************)
EXTENDS AgenticRun, FiniteSetTheorems, TLAPS

Sizing   == {"probe", "allocate", "finish", "size"}
Answering == {"recover", "corners", "runnerup", "report", "done"}

\* Calls made or banked: what the supervised branches have cost so far.
Cost == simulated + ledger.banked

\* The cost of sizing the branch l again.
RunCost(l) == IF sized[l] # NoRun /\ allocation[l] > 0
              THEN PROBE_BUDGET + allocation[l] ELSE 0

\* The calls charged for the branch l beyond its probe.
Charged(l) == IF sized[l] # NoRun THEN allocation[l] ELSE 0

NoAllocation == \A l \in Branches : allocation[l] = 0

\* The accounts at each stage of sizing.
Envelope ==
  /\ stage = "probe" =>
       /\ probes["B"] = NoRun /\ sized["A"] = NoRun /\ sized["B"] = NoRun /\ NoAllocation
       /\ ledger.spent = IF probes["A"] = NoRun THEN 0 ELSE PROBE_BUDGET
       /\ Cost = ledger.spent
  /\ stage = "allocate" =>
       /\ sized["A"] = NoRun /\ sized["B"] = NoRun /\ NoAllocation
       /\ ledger.spent = 2 * PROBE_BUDGET
       /\ Cost = ledger.spent
  /\ stage = "finish" =>
       /\ sized["B"] = NoRun
       /\ allocation["A"] + allocation["B"] \in {0, Total - 2 * PROBE_BUDGET}
       /\ ledger.spent = 2 * PROBE_BUDGET + Charged("A")
       /\ Cost <= 2 * PROBE_BUDGET + RunCost("A")
  /\ stage = "size" =>
       /\ sized["B"] = NoRun /\ NoAllocation
       /\ ledger.spent <= IF sized["A"] = NoRun THEN 0 ELSE PerBranch
       /\ Cost <= IF sized["A"] = NoRun THEN 0 ELSE PerBranch
  /\ OverrunBounded

\* The records of verification, recovery and corners at each later stage.
Answered ==
  /\ stage \in Sizing \cup {"select", "recover"} =>
       recovery_calls = 0 /\ verified["R"] = NotVerified
  /\ stage \in Sizing \cup {"select", "recover", "corners"} =>
       \A d \in Designs : cornered[d] = "unchecked"
  /\ stage = "recover" => selected # "R" /\ outcome = first
  /\ stage = "runnerup" => \A d \in Designs : cornered[d] # "robust"
  /\ stage \in Answering =>
       /\ verified[selected] = outcome
       /\ outcome \in {first, Passing} \cup 1 .. first - 1
       /\ verifications = CountVerified
  /\ stage \in {"report", "done"} =>
       \A d \in Designs : cornered[d] = "robust" => cornered[selected] = "robust"
  /\ stage = "done" => report.verification = verifications

IInv == TypeOK /\ NeverExceeded /\ Envelope /\ Answered
-----------------------------------------------------------------------------
(* Operators. *)

\* A sizing run makes at least one call and at most its budget.
LEMMA RunsType ==
  ASSUME NEW n \in Nat, NEW early, NEW run \in Runs(n, early)
  PROVE  /\ run.calls \in 1 .. n /\ run.passed \in BOOLEAN
         /\ ~early => run.calls = n
BY DEF Runs

\* The floor of a pathological branch is a share of what is left.
LEMMA FloorFits == ASSUME NEW r \in Nat PROVE (r * 35) \div 100 \in 0 .. r
BY SMT

\* allocate hands out everything, or nothing when both branches passed.
LEMMA AllocationSum ==
  ASSUME NEW r \in Nat, NEW a \in Allocations(r)
  PROVE  /\ a \in [Branches -> Nat]
         /\ a["A"] + a["B"] \in {0, r}
<1>1. ASSUME NEW l \in Branches, NEW n \in 0 .. r
      PROVE  /\ Give(l, n, r) \in [Branches -> Nat]
             /\ Give(l, n, r)["A"] + Give(l, n, r)["B"] = r
  BY <1>1, SMT DEF Give, Branches
<1>2. PICK l \in Branches, n \in 0 .. r :
        a = Give(l, n, r) \/ a = [b \in Branches |-> 0]
  <2>1. Minimum(POLISH_BUDGET, r) \in 0 .. r
    BY DEF Minimum, POLISH_BUDGET
  <2>2. CASE \E l \in Branches : a = Give(l, r, r)
    BY <2>2
  <2>3. CASE \E l \in Branches : a = Give(l, (r * 35) \div 100, r)
    BY <2>3, FloorFits
  <2>4. CASE a = [b \in Branches |-> 0]
    BY <2>4 DEF Branches
  <2>5. CASE \E l \in Branches : a = Give(l, Minimum(POLISH_BUDGET, r), r)
    BY <2>5, <2>1
  <2> QED BY <2>2, <2>3, <2>4, <2>5 DEF Allocations
<1>3. CASE a = Give(l, n, r)
  BY <1>1, <1>3
<1>4. CASE a = [b \in Branches |-> 0]
  BY <1>4, SMT DEF Branches
<1> QED BY <1>2, <1>3, <1>4

\* Giving the committed branch the full remaining cap amounts to giving it its
\* probe and its allocation.
LEMMA RunLengthIs ==
  ASSUME TypeOK, NEW l \in Branches, allocation[l] > 0,
         allocation["A"] + allocation["B"] \in {0, Total - 2 * PROBE_BUDGET}
  PROVE  RunLength(l) = PROBE_BUDGET + allocation[l]
BY PerBranchAssumption DEF TypeOK, RunLength, Branches, Other, Total, PROBE_BUDGET

\* The cap is a number no less than the two probes.
LEMMA TotalFits == Total \in Nat /\ Total >= 2 * PROBE_BUDGET /\ Total = PerBranch + PerBranch
BY PerBranchAssumption DEF Total, PROBE_BUDGET

\* A branch that ran is not a branch that did not.
LEMMA SomeRun ==
  ASSUME NEW c \in Nat, c > 0, NEW p, NEW v
  PROVE  [calls |-> c, passed |-> p, verdict |-> v] # NoRun
BY DEF NoRun
-----------------------------------------------------------------------------
(* The actions preserve the invariant. *)

\* A probe is always within the cap.
LEMMA ProbeStep ==
  ASSUME IInv, NEW l \in Branches, Probe(l) PROVE IInv'
<1> USE DEF PROBE_BUDGET
<1>1. stage = "probe" /\ probes[l] = NoRun /\ (l = "B" => probes["A"] # NoRun)
  BY DEF Probe, Turn
<1>2. Fits(PROBE_BUDGET)
  BY <1>1, TotalFits DEF IInv, Envelope, Fits
<1>3. PICK run \in Runs(PROBE_BUDGET, TRUE), v \in Verdicts :
        /\ probes' = [probes EXCEPT ![l] = [calls |-> run.calls, passed |-> run.passed,
                                            verdict |-> v]]
        /\ ledger' = [spent |-> ledger.spent + 3,
                      banked |-> ledger.banked + (3 - run.calls)]
        /\ simulated' = simulated + run.calls
        /\ stage' = IF l = "B" THEN "allocate" ELSE "probe"
        /\ UNCHANGED <<arm, replayed, allocation, sized, answerVars, auditVars>>
  BY <1>2 DEF Probe, Spend, After
<1>4. run.calls \in 1 .. 3 /\ run.passed \in BOOLEAN
  BY <1>3, RunsType
<1>5. ledger'.spent = ledger.spent + 3 /\ ledger'.banked = ledger.banked + (3 - run.calls)
  BY <1>3
<1>6. TypeOK'
  <2>1. [calls |-> run.calls, passed |-> run.passed, verdict |-> v] \in Run
    BY <1>3, <1>4 DEF Run
  <2>2. probes' \in [Branches -> Run]
    BY <1>3, <2>1 DEF IInv, TypeOK
  <2>3. ledger' \in [spent : 0 .. Total, banked : Nat]
    BY <1>2, <1>3, <1>4, TotalFits DEF Fits, IInv, TypeOK
  <2>4. stage' \in Stages /\ simulated' \in Nat
    BY <1>3, <1>4 DEF Stages, IInv, TypeOK
  <2> QED BY <1>3, <2>2, <2>3, <2>4 DEF IInv, TypeOK, answerVars, auditVars
<1>7. Envelope'
  <2>1. probes'[l] # NoRun /\ (l = "B" => probes'["A"] # NoRun)
        /\ (l = "A" => probes'["B"] = NoRun)
    BY <1>1, <1>3, <1>4, SomeRun DEF IInv, TypeOK, Envelope, Branches
  <2>2. Cost' = Cost + 3
    BY <1>3, <1>4, <1>5 DEF Cost, IInv, TypeOK
  <2>3. sized' = sized /\ allocation' = allocation
    BY <1>3
  <2> QED
    BY <1>1, <1>3, <1>5, <2>1, <2>2, <2>3, TotalFits
    DEF Envelope, IInv, TypeOK, Branches, NoAllocation, OverrunBounded, Cost, Reprobed
<1>8. Answered'
  BY <1>1, <1>3 DEF IInv, Answered, Sizing, Answering, answerVars, auditVars
<1> QED BY <1>3, <1>6, <1>7, <1>8 DEF IInv, NeverExceeded

\* Allocation hands out what the probes left.
LEMMA AllocateStep == ASSUME IInv, Allocate PROVE IInv'
<1> USE DEF PROBE_BUDGET
<1>1. stage = "allocate" /\ stage' = "finish" /\ allocation' \in Allocations(Remaining)
      /\ UNCHANGED <<arm, budgetVars, probes, sized, answerVars, auditVars>>
  BY DEF Allocate
<1>2. /\ allocation' \in [Branches -> Nat]
      /\ allocation'["A"] + allocation'["B"] \in {0, Total - 6}
  <2>1. Remaining \in Nat /\ Remaining = Total - 6
    BY <1>1, TotalFits DEF Remaining, IInv, Envelope
  <2> QED BY <1>1, <2>1, AllocationSum
<1>3. TypeOK'
  BY <1>1, <1>2 DEF IInv, TypeOK, Stages, budgetVars, answerVars, auditVars
<1>4. Envelope'
  <2>1. Cost' = Cost /\ ledger' = ledger /\ sized' = sized /\ simulated' = simulated
    BY <1>1 DEF Cost, budgetVars
  <2>2. Reprobed("A")' \in Nat /\ Reprobed("B")' \in Nat
    BY DEF Reprobed
  <2>3. OverrunBounded'
    BY <1>1, <2>1, <2>2, TotalFits DEF OverrunBounded, IInv, Envelope, Cost
  <2> QED
    BY <1>1, <1>2, <2>1, <2>3 DEF Envelope, IInv, Charged, RunCost
<1>5. Answered'
  BY <1>1 DEF IInv, Answered, Sizing, Answering, answerVars, auditVars
<1> QED BY <1>1, <1>3, <1>4, <1>5 DEF IInv, NeverExceeded

\* The branches are sized again within what was allocated to them.
LEMMA FinishStep ==
  ASSUME IInv, NEW l \in Branches, Finish(l) PROVE IInv'
<1> USE DEF PROBE_BUDGET
<1>1. stage = "finish" /\ sized[l] = NoRun /\ (l = "B" => sized["A"] # NoRun)
  BY DEF Finish, Turn
<1>2. allocation \in [Branches -> Nat] /\ sized \in [Branches -> Run]
      /\ probes \in [Branches -> Run] /\ ledger \in [spent : 0 .. Total, banked : Nat]
      /\ simulated \in Nat /\ replayed \in Nat
      /\ allocation["A"] \in Nat /\ allocation["B"] \in Nat
  BY DEF IInv, TypeOK, Branches
<1>3. /\ sized["B"] = NoRun
      /\ allocation["A"] + allocation["B"] \in {0, Total - 6}
      /\ ledger.spent = 6 + Charged("A")
      /\ Cost <= 6 + RunCost("A")
      /\ OverrunBounded
  BY <1>1 DEF IInv, Envelope
<1>4. CASE allocation[l] = 0
  <2>1. /\ sized' = [sized EXCEPT ![l] = probes[l]]
        /\ stage' = IF l = "B" THEN "select" ELSE "finish"
        /\ UNCHANGED <<arm, budgetVars, probes, allocation, answerVars, auditVars>>
    BY <1>4 DEF Finish, After
  <2>2. TypeOK'
    BY <1>2, <2>1 DEF IInv, TypeOK, Stages, budgetVars, answerVars, auditVars
  <2>3. Envelope'
    <3>1. OverrunBounded' /\ Cost' = Cost /\ ledger' = ledger /\ allocation' = allocation
      BY <1>3, <2>1 DEF OverrunBounded, Reprobed, Cost, budgetVars
    <3>2. CASE l = "B"
      BY <2>1, <3>1, <3>2 DEF Envelope
    <3>3. CASE l = "A"
      <4>1. sized'["B"] = NoRun
        BY <1>2, <1>3, <2>1, <3>3
      <4>2. Charged("A")' = 0 /\ Charged("A") = 0 /\ RunCost("A")' = 0 /\ RunCost("A") = 0
        BY <1>4, <2>1, <3>1, <3>3 DEF Charged, RunCost
      <4> QED BY <1>3, <2>1, <3>1, <3>3, <4>1, <4>2 DEF Envelope
    <3> QED BY <3>2, <3>3 DEF Branches
  <2>4. Answered'
    BY <1>1, <2>1 DEF IInv, Answered, Sizing, Answering, answerVars, auditVars
  <2> QED BY <2>1, <2>2, <2>3, <2>4 DEF IInv, NeverExceeded
<1>5. CASE allocation[l] # 0
  <2>1. allocation[l] \in Nat /\ allocation[l] > 0
    BY <1>2, <1>5
  <2>2. Fits(allocation[l]) /\ (l = "B" => Charged("A") = allocation["A"])
    BY <1>1, <1>2, <1>3, TotalFits DEF Fits, Charged, Branches
  <2>3. RunLength(l) = 3 + allocation[l]
    BY <1>3, <2>1, RunLengthIs DEF IInv
  <2>4. PICK run \in Runs(RunLength(l), ~RunsFull(l)) :
          /\ sized' = [sized EXCEPT ![l] = [calls |-> run.calls, passed |-> run.passed,
                                            verdict |-> probes[l].verdict]]
          /\ ledger' = [spent |-> ledger.spent + allocation[l],
                        banked |-> ledger.banked +
                                   (IF RunsFull(l) THEN 0 ELSE RunLength(l) - run.calls)]
          /\ simulated' = simulated + run.calls
          /\ replayed' = replayed + Replays(l, run)
          /\ stage' = IF l = "B" THEN "select" ELSE "finish"
          /\ UNCHANGED <<arm, probes, allocation, answerVars, auditVars>>
    BY <1>5, <2>2 DEF Finish, Spend, After
  <2>5. /\ run.calls \in 1 .. 3 + allocation[l] /\ run.passed \in BOOLEAN
        /\ RunsFull(l) => run.calls = 3 + allocation[l]
    <3>1. RunLength(l) \in Nat
      BY <2>1, <2>3
    <3>2. run.calls \in 1 .. RunLength(l) /\ run.passed \in BOOLEAN
      BY <2>4, <3>1, RunsType
    <3>3. RunsFull(l) => run.calls = RunLength(l)
      BY <2>4 DEF Runs
    <3> QED BY <2>3, <3>2, <3>3
  <2>6. /\ ledger'.spent = ledger.spent + allocation[l]
        /\ ledger'.banked \in Nat
        /\ Cost' = Cost + 3 + allocation[l]
    BY <1>2, <2>1, <2>3, <2>4, <2>5 DEF Cost
  <2>7. TypeOK'
    <3>1. sized' \in [Branches -> Run]
      <4>1. [calls |-> run.calls, passed |-> run.passed, verdict |-> probes[l].verdict] \in Run
        BY <1>2, <2>1, <2>5 DEF Run
      <4> QED BY <1>2, <2>4, <4>1
    <3>2. ledger' \in [spent : 0 .. Total, banked : Nat]
      BY <1>2, <2>1, <2>2, <2>4, <2>6, TotalFits DEF Fits
    <3>3. simulated' \in Nat /\ replayed' \in Nat
      <4>1. Replays(l, run) \in Nat
        BY <1>2, <2>1, <2>5 DEF Replays, Minimum, Run
      <4> QED BY <1>2, <2>1, <2>4, <2>5, <4>1
    <3> QED BY <2>4, <3>1, <3>2, <3>3 DEF IInv, TypeOK, Stages, answerVars, auditVars
  <2>8. Envelope'
    <3>1. allocation' = allocation /\ Cost \in Int
      BY <1>2, <2>4 DEF Cost
    <3>2. CASE l = "A"
      <4>1. Charged("A") = 0 /\ RunCost("A") = 0
        BY <1>1, <3>2 DEF Charged, RunCost
      <4>2. sized'["B"] = NoRun /\ sized'["A"] # NoRun
        BY <1>2, <1>3, <2>4, <2>5, <3>2, SomeRun
      <4>3. Charged("A")' = allocation["A"] /\ RunCost("A")' = 3 + allocation["A"]
        BY <2>1, <3>1, <3>2, <4>2 DEF Charged, RunCost
      <4>4. OverrunBounded'
        BY <1>2, <1>3, <2>1, <2>6, <3>1, <3>2, <4>1, TotalFits
        DEF OverrunBounded, Reprobed, Cost
      <4> QED
        BY <1>2, <1>3, <2>1, <2>4, <2>6, <3>1, <3>2, <4>1, <4>2, <4>3, <4>4 DEF Envelope
    <3>3. CASE l = "B"
      <4>1. OverrunBounded'
        BY <1>2, <1>3, <2>1, <2>6, <3>1, <3>3, TotalFits
        DEF OverrunBounded, Reprobed, Cost, RunCost
      <4> QED BY <2>4, <3>3, <4>1 DEF Envelope
    <3> QED BY <3>2, <3>3 DEF Branches
  <2>9. Answered'
    BY <1>1, <2>4 DEF IInv, Answered, Sizing, Answering, answerVars, auditVars
  <2> QED BY <2>4, <2>7, <2>8, <2>9 DEF IInv, NeverExceeded
<1> QED BY <1>4, <1>5

\* The branches of an equal split, or of the baseline, are sized within the cap.
LEMMA SizeInFullStep ==
  ASSUME IInv, NEW l \in Branches, SizeInFull(l) PROVE IInv'
<1> USE DEF PROBE_BUDGET
<1>1. stage = "size" /\ sized[l] = NoRun /\ (l = "B" => sized["A"] # NoRun)
  BY DEF SizeInFull, Turn
<1>2. /\ sized \in [Branches -> Run] /\ ledger \in [spent : 0 .. Total, banked : Nat]
      /\ simulated \in Nat /\ arm \in ArmSpace
  BY ArmAssumption DEF IInv, TypeOK
<1>3. /\ sized["B"] = NoRun /\ NoAllocation
      /\ ledger.spent <= IF sized["A"] = NoRun THEN 0 ELSE PerBranch
      /\ Cost <= IF sized["A"] = NoRun THEN 0 ELSE PerBranch
  BY <1>1 DEF IInv, Envelope
<1>4. ~arm.supervisor \/ Fits(PerBranch)
  BY <1>2, <1>3, TotalFits, PerBranchAssumption DEF Fits
<1>5. PICK run \in Runs(PerBranch, ~arm.supervisor) :
        /\ sized' = [sized EXCEPT ![l] = [calls |-> run.calls, passed |-> run.passed,
                                          verdict |-> "not_probed"]]
        /\ ledger' = [spent |-> ledger.spent + (IF arm.supervisor THEN PerBranch ELSE 0),
                      banked |-> ledger.banked + 0]
        /\ simulated' = simulated + run.calls
        /\ stage' = IF l = "B" THEN "select" ELSE "size"
        /\ UNCHANGED <<arm, replayed, probes, allocation, answerVars, auditVars>>
  BY <1>4 DEF SizeInFull, Spend, After
<1>6. run.calls \in 1 .. PerBranch /\ run.passed \in BOOLEAN
  BY <1>5, PerBranchAssumption, RunsType
<1>7. /\ ledger'.spent = ledger.spent + (IF arm.supervisor THEN PerBranch ELSE 0)
      /\ ledger'.banked = ledger.banked
      /\ Cost' = Cost + run.calls /\ Cost \in Nat
  BY <1>2, <1>5, <1>6, PerBranchAssumption DEF Cost
<1>8. TypeOK'
  <2>1. sized' \in [Branches -> Run]
    <3>1. [calls |-> run.calls, passed |-> run.passed, verdict |-> "not_probed"] \in Run
      BY <1>6, PerBranchAssumption DEF Run
    <3> QED BY <1>2, <1>5, <3>1
  <2>2. ledger' \in [spent : 0 .. Total, banked : Nat]
    BY <1>2, <1>4, <1>5, <1>7, PerBranchAssumption, TotalFits DEF Fits
  <2>3. simulated' \in Nat
    BY <1>2, <1>5, <1>6, PerBranchAssumption
  <2> QED BY <1>5, <2>1, <2>2, <2>3 DEF IInv, TypeOK, Stages, answerVars, auditVars
<1>9. Envelope'
  <2>1. allocation' = allocation /\ NoAllocation'
    BY <1>3, <1>5 DEF NoAllocation
  <2>2. Reprobed("A")' = 0 /\ Reprobed("B")' = 0
    BY <2>1 DEF Reprobed, NoAllocation, Branches
  <2>3. OverrunBounded'
    BY <1>3, <1>6, <1>7, <2>2, TotalFits, PerBranchAssumption DEF OverrunBounded, Cost
  <2>4. CASE l = "B"
    BY <1>5, <2>3, <2>4 DEF Envelope
  <2>5. CASE l = "A"
    <3>1. sized'["B"] = NoRun /\ sized'["A"] # NoRun
      BY <1>2, <1>3, <1>5, <1>6, <2>5, SomeRun, PerBranchAssumption
    <3>2. Cost' <= PerBranch /\ ledger'.spent <= PerBranch
      BY <1>1, <1>2, <1>3, <1>6, <1>7, <2>5, PerBranchAssumption
    <3> QED BY <1>5, <2>1, <2>3, <2>5, <3>1, <3>2 DEF Envelope
  <2> QED BY <2>4, <2>5 DEF Branches
<1>10. Answered'
  BY <1>1, <1>5 DEF IInv, Answered, Sizing, Answering, answerVars, auditVars
<1> QED BY <1>5, <1>8, <1>9, <1>10 DEF IInv, NeverExceeded
-----------------------------------------------------------------------------
(* After sizing. *)

\* Once the branches are sized, the account is closed.
LEMMA EnvelopeKept ==
  ASSUME IInv, UNCHANGED <<budgetVars, sizingVars>>, stage' \notin Sizing
  PROVE  Envelope'
BY DEF IInv, Envelope, OverrunBounded, Reprobed, Sizing, budgetVars, sizingVars

\* An outcome is not the mark of a design that was not verified.
LEMMA OutcomeKnown == NotVerified \notin Outcomes /\ Passing \in Outcomes
BY ArmAssumption DEF NotVerified, Outcomes, Unknown, Passing

\* The designs are the branches and the recovered one.
LEMMA BranchDesign ==
  /\ Branches \subseteq Designs /\ "R" \in Designs /\ "R" \notin Branches
  /\ \A l \in Branches : Other(l) \in Branches /\ Other(l) # l
BY DEF Branches, Designs, Other

\* The first verification of the selected design, and of the backup when wanted.
LEMMA VerifyStep == ASSUME IInv, Verify PROVE IInv'
<1>1. /\ stage = "select" /\ stage' = "recover"
      /\ UNCHANGED <<arm, budgetVars, sizingVars, cornered, recovery_calls, report, sweeps>>
  BY DEF Verify
<1>2. PICK l \in Branches, both \in BOOLEAN, o \in Outcomes, b \in Outcomes :
        /\ selected' = l /\ backup' = Other(l)
        /\ outcome' = o
        /\ verified' = [verified EXCEPT ![l] = o,
                                        ![Other(l)] = IF both THEN b ELSE NotVerified]
        /\ verifications' = IF both THEN 2 ELSE 1
        /\ first' = o
  <2>1. PICK l \in Branches, doubtful \in BOOLEAN, o \in Outcomes, b \in Outcomes :
          /\ Choose(l) /\ outcome' = o
          /\ verified' = [verified EXCEPT ![l] = o,
                            ![Other(l)] = IF arm.calibrate \/ doubtful \/ o # Passing
                                          THEN b ELSE NotVerified]
          /\ verifications' = IF arm.calibrate \/ doubtful \/ o # Passing THEN 2 ELSE 1
          /\ first' = o
    BY DEF Verify
  <2>2. CASE arm.calibrate \/ doubtful \/ o # Passing
    <3>1. WITNESS l \in Branches, TRUE \in BOOLEAN, o \in Outcomes, b \in Outcomes
    <3> QED BY <2>1, <2>2 DEF Choose
  <2>3. CASE ~(arm.calibrate \/ doubtful \/ o # Passing)
    <3>1. WITNESS l \in Branches, FALSE \in BOOLEAN, o \in Outcomes, b \in Outcomes
    <3> QED BY <2>1, <2>3 DEF Choose
  <2> QED BY <2>2, <2>3
<1>3. /\ verified \in [Designs -> Outcomes \cup {NotVerified}]
      /\ recovery_calls = 0 /\ verified["R"] = NotVerified
      /\ \A d \in Designs : cornered[d] = "unchecked"
  BY <1>1 DEF IInv, TypeOK, Answered
<1>4. verified' \in [Designs -> Outcomes \cup {NotVerified}]
  BY <1>2, <1>3, BranchDesign
<1>5. TypeOK'
  <2>1. verifications' \in Nat /\ selected' \in Designs /\ backup' \in Branches
    BY <1>2, BranchDesign
  <2> QED BY <1>1, <1>2, <1>4, <2>1 DEF IInv, TypeOK, Stages, budgetVars, sizingVars
<1>6. Answered'
  <2>1. verified'[l] = o /\ verified'["R"] = NotVerified
        /\ verified'[Other(l)] = IF both THEN b ELSE NotVerified
    BY <1>2, <1>3, BranchDesign
  <2>2. verifications' = CountVerified'
    <3>1. Recorded(l)' = 1 /\ Recorded(Other(l))' = (IF both THEN 1 ELSE 0)
          /\ Recorded("R")' = 0
      BY <2>1, OutcomeKnown DEF Recorded
    <3>2. CountVerified' = Recorded(l)' + Recorded(Other(l))' + 0 + 0
      <4>1. recovery_calls' = 0
        BY <1>1, <1>3
      <4>2. Recorded("A")' \in Nat /\ Recorded("B")' \in Nat
        BY DEF Recorded
      <4>3. CountVerified' = Recorded("A")' + Recorded("B")' + 0 + 0
        BY <3>1, <4>1 DEF CountVerified
      <4>4. CASE l = "A"
        BY <4>3, <4>4 DEF Other
      <4>5. CASE l = "B"
        BY <4>2, <4>3, <4>5 DEF Other
      <4> QED BY <4>4, <4>5 DEF Branches
    <3> QED BY <1>2, <3>1, <3>2
  <2>3. selected' # "R" /\ verified'[selected'] = outcome' /\ outcome' = first'
    BY <1>2, <2>1, BranchDesign
  <2>4. recovery_calls' = 0 /\ \A d \in Designs : cornered'[d] = "unchecked"
    BY <1>1, <1>3
  <2> QED BY <1>1, <2>1, <2>2, <2>3, <2>4 DEF Answered, Sizing, Answering
<1> QED BY <1>1, <1>5, <1>6, EnvelopeKept DEF IInv, NeverExceeded, Sizing

\* A better measurement is a pass or a smaller distance.
LEMMA AdoptsBetter ==
  ASSUME NEW o \in Outcomes, NEW old \in Outcomes, Adopts(o, old)
  PROVE  o \in {Passing} \cup 1 .. old - 1
BY ArmAssumption DEF Adopts, Outcomes, Passing, Unknown

\* Recovery is paid from the bank and replaces the answer by a better one only.
LEMMA RecoverStep == ASSUME IInv, Recover PROVE IInv'
<1>1. /\ stage = "recover" /\ Recovers /\ stage' = AfterRecovery
      /\ verifications' = verifications + 1
      /\ UNCHANGED <<arm, replayed, sizingVars, backup, cornered, report, sweeps, first>>
  BY DEF Recover
<1>2. PICK run \in Runs(ResizeBudget, TRUE), o \in Outcomes :
        /\ ledger' = [ledger EXCEPT !.banked = @ - Minimum(run.calls + 1, @)]
        /\ simulated' = simulated + run.calls
        /\ recovery_calls' = run.calls + 1
        /\ IF Adopts(o, outcome)
           THEN selected' = "R" /\ outcome' = o /\ Record(o)
           ELSE UNCHANGED <<selected, outcome, verified>>
  BY DEF Recover
<1>3. /\ ledger \in [spent : 0 .. Total, banked : Nat] /\ simulated \in Nat
      /\ outcome \in Outcomes /\ verifications \in Nat
      /\ verified \in [Designs -> Outcomes \cup {NotVerified}]
      /\ selected # "R" /\ outcome = first /\ verified[selected] = outcome
      /\ recovery_calls = 0 /\ verified["R"] = NotVerified
      /\ verifications = CountVerified
      /\ \A d \in Designs : cornered[d] = "unchecked"
  BY <1>1 DEF IInv, TypeOK, Answered, Answering
<1>4. ResizeBudget \in Nat /\ ResizeBudget = ledger.banked - 1
  BY <1>1, <1>3 DEF ResizeBudget, Recovers, MIN_BANKED_TO_ACT
<1>5. run.calls \in 1 .. ledger.banked - 1
  BY <1>4, RunsType
<1>6. ledger' \in [spent : 0 .. Total, banked : Nat]
      /\ ledger'.banked = ledger.banked - (run.calls + 1)
  BY <1>2, <1>3, <1>5 DEF Minimum
<1>7. stage' \in {"corners", "report"}
  BY <1>1 DEF AfterRecovery
<1>8. TypeOK'
  <2>1. verified' \in [Designs -> Outcomes \cup {NotVerified}] /\ outcome' \in Outcomes
        /\ selected' \in Designs
    BY <1>2, <1>3, BranchDesign DEF Record, IInv, TypeOK
  <2>2. simulated' \in Nat /\ recovery_calls' \in Nat /\ verifications' \in Nat
    BY <1>1, <1>2, <1>3, <1>5
  <2> QED BY <1>1, <1>6, <1>7, <2>1, <2>2 DEF IInv, TypeOK, Stages, sizingVars
<1>9. Envelope'
  <2>1. OverrunBounded /\ Reprobed("A")' = Reprobed("A") /\ Reprobed("B")' = Reprobed("B")
        /\ Reprobed("A") \in Nat /\ Reprobed("B") \in Nat
    BY <1>1 DEF IInv, Envelope, Reprobed, PROBE_BUDGET, sizingVars
  <2>2. OverrunBounded'
    BY <1>2, <1>3, <1>5, <1>6, <2>1, TotalFits DEF OverrunBounded
  <2> QED BY <1>7, <2>2 DEF Envelope
<1>10. Answered'
  <2>1. /\ verified'[selected'] = outcome'
        /\ outcome' \in {first, Passing} \cup 1 .. first - 1
    <3>1. CASE Adopts(o, outcome)
      BY <1>2, <1>3, <3>1, AdoptsBetter, BranchDesign DEF Record
    <3>2. CASE ~Adopts(o, outcome)
      BY <1>2, <1>3, <3>2
    <3> QED BY <3>1, <3>2
  <2>2. verifications' = CountVerified'
    <3>1. recovery_calls' > 0 /\ CountVerified = Recorded("A") + Recorded("B")
          /\ Recorded("A") \in Nat /\ Recorded("B") \in Nat
      BY <1>2, <1>3, <1>5 DEF CountVerified, Recorded
    <3>2. verified'["A"] = verified["A"] /\ verified'["B"] = verified["B"]
      BY <1>2, <1>3 DEF Record, Designs
    <3>3. Recorded("A")' = Recorded("A") /\ Recorded("B")' = Recorded("B")
      BY <3>2 DEF Recorded
    <3>4. CountVerified' = Recorded("A") + Recorded("B") + 1
      BY <3>1, <3>3 DEF CountVerified, Recorded
    <3> QED BY <1>1, <1>3, <3>1, <3>4
  <2>3. cornered' = cornered /\ first' = first
    BY <1>1
  <2> QED BY <1>3, <1>7, <2>1, <2>2, <2>3 DEF Answered, Sizing, Answering
<1> QED BY <1>7, <1>8, <1>9, <1>10 DEF IInv, NeverExceeded

\* Without recovery the answer stands.
LEMMA NoRecoveryStep == ASSUME IInv, NoRecovery PROVE IInv'
<1>1. /\ stage = "recover" /\ stage' \in {"corners", "report"}
      /\ UNCHANGED <<arm, budgetVars, sizingVars, answerVars, auditVars>>
  BY DEF NoRecovery, AfterRecovery
<1>2. TypeOK'
  BY <1>1 DEF IInv, TypeOK, Stages, budgetVars, sizingVars, answerVars, auditVars
<1>3. Envelope'
  BY <1>1, EnvelopeKept DEF Sizing
<1>4. Answered'
  <2>1. /\ UNCHANGED <<selected, verified, outcome, cornered, recovery_calls,
                       verifications, first>>
        /\ CountVerified' = CountVerified
    BY <1>1 DEF answerVars, auditVars, CountVerified, Recorded
  <2> QED BY <1>1, <2>1 DEF IInv, Answered, Sizing, Answering
<1> QED BY <1>1, <1>2, <1>3, <1>4 DEF IInv, NeverExceeded

\* The counts of verification depend on the records alone.
LEMMA CountKept ==
  ASSUME UNCHANGED <<verified, recovery_calls>> PROVE CountVerified' = CountVerified
BY DEF CountVerified, Recorded

\* Sweeping the answer changes nothing but its corner verdict.
LEMMA CornerSelectedStep == ASSUME IInv, CornerSelected PROVE IInv'
<1>1. /\ stage = "corners" /\ stage' \in {"report", "runnerup"}
      /\ UNCHANGED <<arm, budgetVars, sizingVars, selected, backup, verified, outcome,
                     recovery_calls, report, verifications, first>>
  BY DEF CornerSelected
<1>2. /\ cornered \in [Designs -> {"unchecked", "fragile", "robust"}]
      /\ selected \in Designs /\ sweeps \in Nat
      /\ \A d \in Designs : cornered[d] = "unchecked"
  BY <1>1 DEF IInv, TypeOK, Answered
<1>3. /\ cornered' \in [Designs -> {"unchecked", "fragile", "robust"}] /\ sweeps' \in Nat
      /\ stage' = "runnerup" => \A d \in Designs : cornered'[d] # "robust"
      /\ \A d \in Designs : cornered'[d] = "robust" => d = selected
  <2>1. CASE outcome = Passing
    <3>1. PICK robust \in BOOLEAN :
            /\ cornered' = [cornered EXCEPT ![selected] = IF robust THEN "robust" ELSE "fragile"]
            /\ sweeps' = sweeps + 1
            /\ stage' = IF robust THEN "report" ELSE "runnerup"
      BY <2>1 DEF CornerSelected
    <3> QED BY <1>2, <3>1
  <2>2. CASE outcome # Passing
    BY <1>2, <2>2 DEF CornerSelected
  <2> QED BY <2>1, <2>2
<1>4. TypeOK'
  BY <1>1, <1>3 DEF IInv, TypeOK, Stages, budgetVars, sizingVars
<1>5. Envelope'
  BY <1>1, EnvelopeKept DEF Sizing
<1>6. Answered'
  BY <1>1, <1>3, CountKept DEF IInv, Answered, Sizing, Answering
<1> QED BY <1>1, <1>4, <1>5, <1>6 DEF IInv, NeverExceeded

\* The runner-up is recorded once, and delivered only when it passes.
LEMMA CornerBackupStep == ASSUME IInv, CornerBackup PROVE IInv'
<1>1. /\ stage = "runnerup" /\ stage' = "report"
      /\ UNCHANGED <<arm, budgetVars, sizingVars, recovery_calls, report, first>>
      /\ verifications' = IF verified[backup] # NotVerified THEN verifications
                          ELSE verifications + 1
  BY DEF CornerBackup
<1>2. PICK o \in Outcomes, robust \in BOOLEAN :
        /\ verified[backup] # NotVerified => o = verified[backup]
        /\ verified' = [verified EXCEPT ![backup] = o]
        /\ IF o = Passing
           THEN /\ cornered' = [cornered EXCEPT ![backup] =
                                  IF robust THEN "robust" ELSE "fragile"]
                /\ sweeps' = sweeps + 1
           ELSE UNCHANGED <<cornered, sweeps>>
        /\ IF o = Passing /\ robust
           THEN selected' = backup /\ backup' = Other(backup) /\ outcome' = o
           ELSE UNCHANGED <<selected, backup, outcome>>
  BY DEF CornerBackup, Switches, Choose
<1>3. /\ verified \in [Designs -> Outcomes \cup {NotVerified}]
      /\ cornered \in [Designs -> {"unchecked", "fragile", "robust"}]
      /\ selected \in Designs /\ backup \in Branches /\ backup \in Designs
      /\ outcome \in Outcomes /\ sweeps \in Nat /\ verifications \in Nat
      /\ recovery_calls \in Nat
      /\ verified[selected] = outcome
      /\ outcome \in {first, Passing} \cup 1 .. first - 1
      /\ verifications = CountVerified
      /\ \A d \in Designs : cornered[d] # "robust"
  BY <1>1, BranchDesign DEF IInv, TypeOK, Answered, Answering
<1>4. TypeOK'
  <2>1. verified' \in [Designs -> Outcomes \cup {NotVerified}]
    BY <1>2, <1>3
  <2>2. cornered' \in [Designs -> {"unchecked", "fragile", "robust"}] /\ sweeps' \in Nat
    BY <1>2, <1>3
  <2>3. selected' \in Designs /\ backup' \in Branches /\ outcome' \in Outcomes
    BY <1>2, <1>3, BranchDesign
  <2>4. verifications' \in Nat
    BY <1>1, <1>3
  <2> QED BY <1>1, <2>1, <2>2, <2>3, <2>4 DEF IInv, TypeOK, Stages, budgetVars, sizingVars
<1>5. Envelope'
  BY <1>1, EnvelopeKept DEF Sizing
<1>6. Answered'
  <2>1. verified'[selected'] = outcome'
    BY <1>2, <1>3, OutcomeKnown
  <2>2. outcome' \in {first, Passing} \cup 1 .. first - 1
    BY <1>2, <1>3
  <2>3. verifications' = CountVerified'
    <3>1. /\ verified'[backup] = o /\ o # NotVerified
          /\ \A d \in Designs \ {backup} : verified'[d] = verified[d]
      BY <1>2, <1>3, OutcomeKnown
    <3>2. verified'["R"] = verified["R"] /\ recovery_calls' = recovery_calls
      BY <1>1, <1>3, <3>1, BranchDesign
    <3>3. CASE backup = "A"
      <4>1. /\ Recorded("A")' = 1 /\ Recorded("B")' = Recorded("B")
            /\ Recorded("R")' = Recorded("R")
            /\ Recorded("A") = IF verified["A"] # NotVerified THEN 1 ELSE 0
            /\ Recorded("B") \in Nat /\ Recorded("R") \in Nat
        BY <3>1, <3>2, <3>3 DEF Recorded, Designs
      <4> QED BY <1>1, <1>3, <3>2, <3>3, <4>1 DEF CountVerified
    <3>4. CASE backup = "B"
      <4>1. /\ Recorded("B")' = 1 /\ Recorded("A")' = Recorded("A")
            /\ Recorded("R")' = Recorded("R")
            /\ Recorded("B") = IF verified["B"] # NotVerified THEN 1 ELSE 0
            /\ Recorded("A") \in Nat /\ Recorded("R") \in Nat
        BY <3>1, <3>2, <3>4 DEF Recorded, Designs
      <4> QED BY <1>1, <1>3, <3>2, <3>4, <4>1 DEF CountVerified
    <3> QED BY <1>3, <3>3, <3>4 DEF Branches
  <2>4. \A d \in Designs : cornered'[d] = "robust" => cornered'[selected'] = "robust"
    BY <1>2, <1>3
  <2> QED BY <1>1, <2>1, <2>2, <2>3, <2>4 DEF Answered, Sizing, Answering
<1> QED BY <1>1, <1>4, <1>5, <1>6 DEF IInv, NeverExceeded

\* The trace reports the verifications that were counted.
LEMMA ReportStep == ASSUME IInv, Report PROVE IInv'
<1>1. /\ stage = "report" /\ stage' = "done"
      /\ UNCHANGED <<arm, budgetVars, sizingVars, answerVars, verifications, first>>
      /\ report'.verification = CountVerified
  BY DEF Report
<1>2. UNCHANGED <<selected, backup, verified, outcome, cornered, recovery_calls>>
  BY <1>1 DEF answerVars
<1>3. TypeOK'
  <2>1. CountVerified \in Nat
    BY DEF CountVerified, Recorded
  <2>2. sized["A"].calls + sized["B"].calls +
          (IF recovery_calls > 0 THEN recovery_calls - 1 ELSE 0) \in Nat
    <3>1. sized["A"] \in Run /\ sized["B"] \in Run /\ recovery_calls \in Nat
      BY DEF IInv, TypeOK, Branches
    <3> QED BY <3>1 DEF Run
  <2>3. Cardinality({d \in Designs : cornered[d] # "unchecked"}) \in Nat
    <3>1. IsFiniteSet(Designs)
      <4> DEFINE One == {} \cup {"A"}
                 Two == One \cup {"B"}
                 Three == Two \cup {"R"}
      <4>1. IsFiniteSet(One)
        BY FS_EmptySet, FS_AddElement
      <4>2. IsFiniteSet(Two)
        <5> HIDE DEF One
        <5> QED BY <4>1, FS_AddElement
      <4>3. IsFiniteSet(Three)
        <5> HIDE DEF Two
        <5> QED BY <4>2, FS_AddElement
      <4>4. Three = Designs
        BY DEF Designs
      <4> QED BY <4>3, <4>4
    <3> QED BY <3>1, FS_Subset, FS_CardinalityType
  <2>4. report' \in [optimization : Nat, verification : Nat, corners : Nat]
    BY <2>1, <2>2, <2>3 DEF Report
  <2>5. sweeps' \in Nat
    BY DEF Report, IInv, TypeOK
  <2> QED BY <1>1, <1>2, <2>4, <2>5 DEF IInv, TypeOK, Stages, budgetVars, sizingVars
<1>4. Envelope'
  BY <1>1, EnvelopeKept DEF Sizing
<1>5. Answered'
  BY <1>1, <1>2, CountKept DEF IInv, Answered, Sizing, Answering
<1> QED BY <1>1, <1>3, <1>4, <1>5 DEF IInv, NeverExceeded
-----------------------------------------------------------------------------
(* The theorems. *)

\* A run starts with nothing charged, made or known.
LEMMA InitIInv == Init => IInv
<1> SUFFICES ASSUME Init PROVE IInv
  OBVIOUS
<1>1. stage \in {"probe", "size"}
  BY DEF Init
<1>2. TypeOK
  <2>1. NoRun \in Run
    BY DEF NoRun, Run
  <2>2. 0 \in 0 .. Total
    BY TotalFits
  <2>3. Unknown \in Outcomes
    BY ArmAssumption DEF Unknown, Outcomes
  <2>4. probes \in [Branches -> Run] /\ sized \in [Branches -> Run]
    BY <2>1 DEF Init
  <2> QED BY <1>1, <2>2, <2>3, <2>4 DEF Init, TypeOK, Stages, Branches, Designs
<1>3. Envelope
  <2>1. probes["A"] = NoRun /\ probes["B"] = NoRun /\ sized["A"] = NoRun /\ sized["B"] = NoRun
        /\ NoAllocation /\ ledger.spent = 0 /\ Cost = 0
    BY DEF Init, NoAllocation, Branches, Cost
  <2>2. OverrunBounded
    BY <2>1, TotalFits DEF OverrunBounded, Reprobed, NoAllocation, Branches, Cost
  <2> QED BY <1>1, <2>1, <2>2 DEF Envelope
<1>4. Answered
  BY <1>1 DEF Init, Answered, Sizing, Answering, Designs
<1> QED BY <1>1, <1>2, <1>3, <1>4 DEF IInv, NeverExceeded

\* The inductive invariant: the account of calls and the record of the answer
\* agree at every stage of every run.
THEOREM RunInvariance == Spec => []IInv
<1>1. IInv /\ [Next]_vars => IInv'
  <2> SUFFICES ASSUME IInv, [Next]_vars PROVE IInv'
    OBVIOUS
  <2>1. CASE \E l \in Branches : Probe(l) \/ Finish(l) \/ SizeInFull(l)
    BY <2>1, ProbeStep, FinishStep, SizeInFullStep
  <2>2. CASE Allocate
    BY <2>2, AllocateStep
  <2>3. CASE Verify
    BY <2>3, VerifyStep
  <2>4. CASE Recover
    BY <2>4, RecoverStep
  <2>5. CASE NoRecovery
    BY <2>5, NoRecoveryStep
  <2>6. CASE CornerSelected
    BY <2>6, CornerSelectedStep
  <2>7. CASE CornerBackup
    BY <2>7, CornerBackupStep
  <2>8. CASE Report
    BY <2>8, ReportStep
  <2>9. CASE UNCHANGED vars
    BY <2>9 DEF vars, IInv, TypeOK, NeverExceeded, Envelope, Answered, Cost, Charged, RunCost,
                NoAllocation, OverrunBounded, Reprobed, CountVerified, Recorded,
                budgetVars, sizingVars, answerVars, auditVars
  <2> QED BY <2>1, <2>2, <2>3, <2>4, <2>5, <2>6, <2>7, <2>8, <2>9 DEF Next
<1> QED BY <1>1, InitIInv, PTL DEF Spec

\* Types, the cap of the ledger and a bank that is never overdrawn.
THEOREM RunTypes == Spec => []TypeOK
<1>1. IInv => TypeOK
  BY DEF IInv
<1> QED BY <1>1, RunInvariance, PTL

\* For every budget, the Supervisor never runs into BudgetExceeded.
THEOREM BudgetSuffices == Spec => []NeverExceeded
<1>1. IInv => NeverExceeded
  BY DEF IInv
<1> QED BY <1>1, RunInvariance, PTL

\* For every budget, the overrun of the envelope is at most two probes.
THEOREM BoundedOverrun == Spec => []OverrunBounded
<1>1. IInv => OverrunBounded
  BY DEF IInv, Envelope
<1> QED BY <1>1, RunInvariance, PTL

\* The outcome reported is the measurement of the design delivered.
THEOREM MeasuredDelivery == Spec => []DeliveredIsMeasured
<1>1. IInv => DeliveredIsMeasured
  BY DEF IInv, Answered, Answering, DeliveredIsMeasured
<1> QED BY <1>1, RunInvariance, PTL

\* No later agent replaces the selected design by a worse one.
THEOREM NoWorseDelivery == Spec => []NeverDeliversWorse
<1>1. IInv => NeverDeliversWorse
  BY DEF IInv, Answered, Answering, NeverDeliversWorse
<1> QED BY <1>1, RunInvariance, PTL

\* A design found robust is delivered.
THEOREM RobustDelivery == Spec => []RobustIsDelivered
<1>1. IInv => RobustIsDelivered
  BY DEF IInv, Answered, RobustIsDelivered
<1> QED BY <1>1, RunInvariance, PTL

\* The trace counts the verifications that were made.
THEOREM CountedVerifications == Spec => []VerificationsCounted
<1>1. IInv => VerificationsCounted
  BY DEF IInv, Answered, VerificationsCounted
<1> QED BY <1>1, RunInvariance, PTL

\* Recovery spends exactly what it withdraws from the bank.
THEOREM BankFunded == Spec => RecoveryIsBankFunded
<1>1. IInv /\ [Next]_vars =>
        [Recover => (simulated' - simulated) + (verifications' - verifications)
                      = ledger.banked - ledger'.banked]_vars
  <2> SUFFICES ASSUME IInv, Recover
               PROVE  (simulated' - simulated) + (verifications' - verifications)
                        = ledger.banked - ledger'.banked
    OBVIOUS
  <2>1. PICK run \in Runs(ResizeBudget, TRUE) :
          /\ ledger' = [ledger EXCEPT !.banked = @ - Minimum(run.calls + 1, @)]
          /\ simulated' = simulated + run.calls
    BY DEF Recover
  <2>2. /\ verifications' = verifications + 1 /\ verifications \in Nat /\ simulated \in Nat
        /\ ledger \in [spent : 0 .. Total, banked : Nat]
    BY DEF Recover, IInv, TypeOK
  <2>3. ResizeBudget \in Nat /\ ResizeBudget = ledger.banked - 1
    BY <2>2 DEF Recover, ResizeBudget, Recovers, MIN_BANKED_TO_ACT
  <2>4. run.calls \in 1 .. ledger.banked - 1
    BY <2>3, RunsType
  <2>5. ledger'.banked = ledger.banked - (run.calls + 1)
    BY <2>1, <2>2, <2>4 DEF Minimum
  <2> QED BY <2>1, <2>2, <2>4, <2>5
<1> QED BY <1>1, RunInvariance, PTL DEF Spec, RecoveryIsBankFunded
=============================================================================
