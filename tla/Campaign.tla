------------------------------ MODULE Campaign ------------------------------
(***************************************************************************)
(* One campaign of run_self_improvement.py: a sequence of generations,     *)
(* each of which fine-tunes the accepted checkpoint (SFT), examines the    *)
(* result on the frozen exam, designs and measures circuits with it, may   *)
(* train on the preference pairs so far (DPO), examines again, accepts one *)
(* checkpoint and logs the generation.  A killed process is resumed with   *)
(* --resume-campaign from the log alone.                                   *)
(*                                                                         *)
(* A checkpoint is the training that wrote it, the trainings it goes back  *)
(* to and the score the exam will give it; the metrics that                *)
(* decide_acceptance compares, each with a floor or a tolerated drop, are  *)
(* one score with both.  parent, parent_hash and parent_exam, which main   *)
(* takes from the last record of the log when it resumes and from the      *)
(* record just logged otherwise, are operators of the log.  arm stands for *)
(* all that a resumed run takes from the first record: arm, seed, se_arm   *)
(* and channels.  The corpus and the frozen exam, which are only compared  *)
(* with what they were, are left out.                                      *)
(***************************************************************************)
EXTENDS Naturals, Sequences

CONSTANTS
  Arms,          \* --arm, among "full", "sft_only", "dpo_no_integrity", "dpo_no_gate"
  Profiles,      \* the configurations: "full", "fast", "validate"
  MaxScore,      \* exam scores are 0 .. MaxScore
  Floor,         \* min_valid_rate, min_unique_structures
  Tolerance,     \* the drops that are tolerated
  MaxGen,        \* bound on the number of generations asked for
  MaxRuns        \* bound on the number of processes

Scores == 0 .. MaxScore
Gens   == 0 .. MaxGen - 1
Runs   == 1 .. MaxRuns

ASSUME CampaignAssumption ==
  /\ Arms \subseteq {"full", "sft_only", "dpo_no_integrity", "dpo_no_gate"}
  /\ "validate" \notin Profiles \/ MaxGen >= 1
  /\ {MaxScore, Floor, Tolerance, MaxGen, MaxRuns} \subseteq Nat

\* models/gen{g}_sft and models/gen{g}_dpo; a training is a path and the process.
Paths == Gens \X {"sft", "dpo"}
Trainings == Paths \X Runs
Checkpoints == [id : Trainings, from : SUBSET Trainings, score : Scores]
NoPath == <<>>

Records == [arm : Arms, profile : Profiles, run : Runs,
            sft_exam : Scores, dpo_exam : Scores, dpo_update_accepted : BOOLEAN,
            accepted_checkpoint : Paths, accepted_checkpoint_hash : Checkpoints]

VARIABLES
  log,           \* logs/generations.jsonl
  torn,          \* its last line was cut short
  models,        \* each checkpoint directory: {} or what it holds
  pairs,         \* pairs_gen{g}.jsonl: the processes whose pairs it holds
  runs,          \* how many processes were started
  step,          \* what the process does next, "down" when there is none
  arm, profile,  \* its configuration
  goal,          \* n_gen
  work,          \* sft_ckpt, the checkpoint that designs
  exams          \* rec["sft_exam"] and rec["dpo_exam"]

disk    == <<models, pairs>>
request == <<arm, profile, goal>>
vars    == <<log, torn, disk, runs, step, request, work, exams>>

Steps == {"down", "generation", "sft", "sft_exam", "design", "dpo", "dpo_exam", "log"}
Last(s) == s[Len(s)]
gen == Len(log)

Init ==
  /\ log = <<>> /\ torn = FALSE
  /\ models = [p \in Paths |-> {}]
  /\ pairs = [g \in Gens |-> {}]
  /\ runs = 0 /\ step = "down"
  /\ arm \in Arms /\ profile \in Profiles /\ goal = 0
  /\ work = NoPath /\ exams = [sft |-> 0, dpo |-> 0, accept |-> FALSE]
-----------------------------------------------------------------------------
(* Faults: what a mistake in the code would make of an operator below. *)

FaultParentExam == Last(log).sft_exam
FaultArm(asked) == asked
FaultNoFloor(before, after) == after + Tolerance >= before
FaultKeepsPairs == pairs[gen] \cup {runs}
FaultInPlace(kind) == <<0, kind>>
FaultPairsOfGeneration == {gen}
FaultFreshWeights == {}
-----------------------------------------------------------------------------
(* Operators of the code. *)

\* The accepted checkpoint of the last generation, and its exam.
Parent == Last(log).accepted_checkpoint
ParentExam ==
  IF Last(log).dpo_update_accepted THEN Last(log).dpo_exam ELSE Last(log).sft_exam
LineageHolds ==
  log # <<>> => models[Parent] = {Last(log).accepted_checkpoint_hash}

\* decide_acceptance(sft_exam, dpo_exam).
Accepts(before, after) == after >= Floor /\ after + Tolerance >= before

ArmOf(asked) == IF log = <<>> THEN asked ELSE log[1].arm

Output(kind) == <<gen, kind>>
PairsFile == {runs}

\* What the SFT of a generation starts from: nothing, then the parent.
Base == IF log = <<>> THEN {} ELSE models[Parent]

AncestorsOf(base) == UNION {c.from : c \in base}

\* What training a checkpoint with what is in `base' leaves in a directory.
Trained(path, base, score) ==
  [id |-> <<path, runs>>,
   from |-> AncestorsOf(base) \cup {<<path, runs>>}, score |-> score]

Accepted == IF exams.accept THEN Output("dpo") ELSE work
AcceptedHash == CHOOSE c \in models[Accepted] : TRUE
-----------------------------------------------------------------------------
(* main: a campaign starts in a new directory, or goes on where its log ends; *)
(* --validate runs one generation.                                             *)

Launch(a, p, n) ==
  /\ step = "down" /\ runs < MaxRuns
  /\ log = <<>> \/ ~ torn          \* a line cut short does not parse
  /\ runs' = runs + 1
  /\ arm' = ArmOf(a) /\ profile' = p
  /\ goal' = IF p = "validate" THEN 1 ELSE n
  /\ step' = "generation"
  /\ IF log = <<>>
       THEN /\ models' = [q \in Paths |-> {}] /\ pairs' = [g \in Gens |-> {}]
            /\ torn' = FALSE
       ELSE UNCHANGED <<disk, torn>>
  /\ UNCHANGED <<log, work, exams>>

\* The loop over the generations, and the assertion on the parent.
Generation ==
  /\ step = "generation" /\ gen < goal /\ LineageHolds
  /\ step' = "sft"
  /\ UNCHANGED <<log, torn, disk, runs, request, work, exams>>

\* All generations are logged, or the assertion fails.
Stop ==
  /\ step = "generation" /\ ~ (gen < goal /\ LineageHolds)
  /\ step' = "down"
  /\ UNCHANGED <<log, torn, disk, runs, request, work, exams>>

\* sft_generation: from the parent, or from fresh weights in generation 0.
TrainSft(score) ==
  /\ step = "sft"
  /\ models' = [models EXCEPT ![Output("sft")] =
       {Trained(Output("sft"), Base, score)}]
  /\ step' = "sft_exam"
  /\ UNCHANGED <<log, torn, pairs, runs, request, work, exams>>

\* run_exam and the gate on the SFT: what it rejects is replaced by the parent.
SftExam ==
  /\ step = "sft_exam"
  /\ \E c \in models[Output("sft")] :
       LET accepted == log = <<>> \/ Accepts(ParentExam, c.score)
       IN  /\ work' = IF accepted THEN Output("sft") ELSE Parent
           /\ exams' = [sft |-> IF accepted THEN c.score ELSE ParentExam,
                        dpo |-> 0, accept |-> FALSE]
  /\ step' = "design"
  /\ UNCHANGED <<log, torn, disk, runs, request>>

\* design_and_measure: the pairs of the generation are written over, and
\* prepare_dpo_dataset says whether there is something to train on.
Design(ready) ==
  /\ step = "design"
  /\ pairs' = [pairs EXCEPT ![gen] = PairsFile]
  /\ step' = IF ready /\ arm # "sft_only" THEN "dpo" ELSE "log"
  /\ UNCHANGED <<log, torn, models, runs, request, work, exams>>

\* dpo_generation: from the checkpoint that designed, on every file of pairs.
TrainDpo(score) ==
  /\ step = "dpo"
  /\ models' = [models EXCEPT ![Output("dpo")] =
       {Trained(Output("dpo"), models[work], score)}]
  /\ step' = "dpo_exam"
  /\ UNCHANGED <<log, torn, pairs, runs, request, work, exams>>

\* run_exam and decide_acceptance; `frozen' is the check of the reference.
DpoExam(frozen) ==
  /\ step = "dpo_exam"
  /\ \E c \in models[Output("dpo")] :
       exams' = [exams EXCEPT
         !.dpo = c.score,
         !.accept = arm = "dpo_no_gate" \/ (Accepts(exams.sft, c.score) /\ frozen)]
  /\ step' = "log"
  /\ UNCHANGED <<log, torn, disk, runs, request, work>>

LogGeneration ==
  /\ step = "log"
  /\ log' = Append(log,
       [arm |-> arm, profile |-> profile, run |-> runs,
        sft_exam |-> exams.sft, dpo_exam |-> exams.dpo,
        dpo_update_accepted |-> exams.accept,
        accepted_checkpoint |-> Accepted, accepted_checkpoint_hash |-> AcceptedHash])
  /\ step' = "generation"
  /\ UNCHANGED <<torn, disk, runs, request, work, exams>>

\* The process is killed; while it appends, a part of the record may stay.
Crash ==
  /\ step # "down"
  /\ step' = "down"
  /\ torn' \in IF step = "log" THEN BOOLEAN ELSE {torn}
  /\ UNCHANGED <<log, disk, runs, request, work, exams>>
-----------------------------------------------------------------------------
Next ==
  \/ \E a \in Arms, p \in Profiles, n \in 1 .. MaxGen : Launch(a, p, n)
  \/ Generation \/ Stop
  \/ \E score \in Scores : TrainSft(score) \/ TrainDpo(score)
  \/ SftExam
  \/ \E ready \in BOOLEAN : Design(ready)
  \/ \E frozen \in BOOLEAN : DpoExam(frozen)
  \/ LogGeneration
  \/ Crash

Spec == Init /\ [][Next]_vars
-----------------------------------------------------------------------------
(* Properties. *)

\* The values the variables take; pairs are named by the process that made them.
TypeOK ==
  /\ log \in Seq(Records) /\ Len(log) <= MaxGen
  /\ torn \in BOOLEAN
  /\ models \in [Paths -> SUBSET Checkpoints]
  /\ pairs \in [Gens -> SUBSET Runs]
  /\ runs \in 0 .. MaxRuns /\ step \in Steps
  /\ arm \in Arms /\ profile \in Profiles /\ goal \in 0 .. MaxGen
  /\ work \in Paths \cup {NoPath}
  /\ exams \in [sft : Scores, dpo : Scores, accept : BOOLEAN]

\* Nothing a later generation or a resumed process trains ever touches a
\* checkpoint that a logged generation accepted, so that a campaign that was
\* killed anywhere goes on from the very weights its log names (the assertion
\* "generation lineage broken" never fires).
AcceptedIntact ==
  \A i \in 1 .. Len(log) :
    models[log[i].accepted_checkpoint] = {log[i].accepted_checkpoint_hash}

\* The exam that the next generation is compared with is the exam of the
\* checkpoint it is trained from, whichever of SFT, DPO or the parent won.
ExamOf(r) == IF r.dpo_update_accepted THEN r.dpo_exam ELSE r.sft_exam
ExamOfAccepted ==
  \A i \in 1 .. Len(log) : ExamOf(log[i]) = log[i].accepted_checkpoint_hash.score

\* Two gates stand between an accepted checkpoint and the next, and both are
\* relative: a generation may lose the tolerated drop twice, never more, and
\* once at the floor a campaign stays there.  The arm without a gate is exempt.
RegressionBounded ==
  \A i \in 2 .. Len(log) :
    LET before == log[i - 1].accepted_checkpoint_hash.score
        after  == log[i].accepted_checkpoint_hash.score
    IN  log[i].arm # "dpo_no_gate" =>
          /\ after + 2 * Tolerance >= before
          /\ before >= Floor => after >= Floor

\* Preference training reads the pairs of every generation so far, and each of
\* those files holds the pairs of the process that logged the generation, never
\* those of an attempt that was killed.
PairsAreLogged ==
  step \in {"dpo", "dpo_exam", "log"} =>
    /\ pairs[gen] = {runs}
    /\ \A i \in 1 .. Len(log) : pairs[i - 1] = {log[i].run}

\* A campaign is one arm, whatever a resumed process was asked for.
OneArm == \A i \in 1 .. Len(log) : log[i].arm = log[1].arm

\* A campaign is one profile: "every arm shrinks by the same amounts, so
\* battery-internal comparisons stay valid".
OneProfile == \A i \in 1 .. Len(log) : log[i].profile = log[1].profile

\* Each generation goes back to what the one before it accepted ("gen N+1
\* starts from gen N's ACCEPTED checkpoint"), over crashes and rejections.
Chain == INSTANCE Lineage WITH
  chain <- [i \in 1 .. Len(log) |-> log[i].accepted_checkpoint_hash]
GenerationsChained == Chain!Spec
=============================================================================
