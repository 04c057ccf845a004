--------------------------- MODULE CampaignProofs ---------------------------
(***************************************************************************)
(* Campaign, proved for every value of its constants.  The invariant says  *)
(* what is on the disk, what the log says of it, and what the generation   *)
(* under way has made so far, relative to what the log accepted last.      *)
(***************************************************************************)
EXTENDS Campaign, SequenceTheorems, TLAPS

\* A checkpoint goes back to the one that was accepted last.
Chained(c) == log # <<>> => Last(log).accepted_checkpoint_hash.id \in c.from

\* An exam no worse than what one gate lets through after `before'.
Tolerated(before, after) ==
  after + Tolerance >= before /\ (before >= Floor => after >= Floor)

OnDisk ==
  \A p \in Paths : \A c \in models[p] : models[p] = {c} /\ c.id \in c.from

LoggedEntry(i) ==
  /\ log[i].accepted_checkpoint[1] < i
  /\ models[log[i].accepted_checkpoint] = {log[i].accepted_checkpoint_hash}
  /\ ExamOf(log[i]) = log[i].accepted_checkpoint_hash.score
  /\ log[i].arm = log[1].arm
  /\ pairs[i - 1] = {log[i].run}
Logged == \A i \in 1 .. Len(log) : LoggedEntry(i)

\* What a generation under way has made, at each of its steps.
InGeneration == step \notin {"down", "generation"} => gen < goal
HasArm == step # "down" => runs \in Runs /\ (log # <<>> => arm = log[1].arm)
HasSft ==
  step = "sft_exam" =>
    models[Output("sft")] # {} /\ \A c \in models[Output("sft")] : Chained(c)
HasWork ==
  step \in {"design", "dpo", "dpo_exam", "log"} =>
    /\ work \in Paths /\ work[1] <= gen /\ work # Output("dpo")
    /\ models[work] # {}
    /\ \A c \in models[work] : Chained(c) /\ c.score = exams.sft
    /\ log # <<>> => Tolerated(ParentExam, exams.sft)
HasPairs == step \in {"dpo", "dpo_exam", "log"} => pairs[gen] = {runs}
HasDpo ==
  step = "dpo_exam" =>
    models[Output("dpo")] # {} /\ \A c \in models[Output("dpo")] : Chained(c)
HasVerdict ==
  /\ step \in {"design", "dpo", "dpo_exam"} => ~ exams.accept
  /\ (step = "log" /\ exams.accept) =>
       /\ models[Output("dpo")] # {}
       /\ \A c \in models[Output("dpo")] : Chained(c) /\ c.score = exams.dpo
       /\ arm # "dpo_no_gate" => Tolerated(exams.sft, exams.dpo)

Progress ==
  InGeneration /\ HasArm /\ HasSft /\ HasWork /\ HasPairs /\ HasDpo /\ HasVerdict

CampaignInv == TypeOK /\ OnDisk /\ Logged /\ Progress /\ RegressionBounded
-----------------------------------------------------------------------------
\* A path of this generation is not the one that an earlier generation accepted.
LEMMA OutputsAreNew ==
  ASSUME NEW p \in Paths, NEW k, p[1] < gen
  PROVE  p # Output(k)
  BY DEF Paths, Gens, Output, gen

\* The numbers that the constants stand for.
LEMMA Numbers ==
  /\ MaxScore \in Nat /\ Floor \in Nat /\ Tolerance \in Nat
  /\ MaxGen \in Nat /\ MaxRuns \in Nat
  BY CampaignAssumption

\* What a training goes back to is made of trainings.
LEMMA Ancestors ==
  ASSUME NEW S, NEW base, \A c \in base : c.from \subseteq S
  PROVE  AncestorsOf(base) \subseteq S /\ \A c \in base : c.from \subseteq AncestorsOf(base)
<1>1. ASSUME NEW x \in AncestorsOf(base) PROVE x \in S
  <2>1. PICK c \in base : x \in c.from
    BY DEF AncestorsOf
  <2> QED
    BY <2>1
<1>2. ASSUME NEW c \in base, NEW x \in c.from PROVE x \in AncestorsOf(base)
  BY DEF AncestorsOf
<1> QED
  BY <1>1, <1>2

\* The last record is one, and it is of an earlier generation.
LEMMA LastRecord ==
  ASSUME TypeOK, Logged, log # <<>>
  PROVE  /\ Len(log) \in 1 .. Len(log) /\ Last(log) \in Records
         /\ Parent \in Paths /\ Parent[1] < gen
         /\ models[Parent] = {Last(log).accepted_checkpoint_hash}
         /\ Last(log).accepted_checkpoint_hash \in Checkpoints
         /\ ParentExam = Last(log).accepted_checkpoint_hash.score
         /\ ParentExam \in Scores
<1>1. Len(log) \in Nat /\ Len(log) # 0
  BY EmptySeq DEF TypeOK
<1>2. Len(log) \in 1 .. Len(log) /\ log[Len(log)] \in Records
  BY <1>1, ElementOfSeq DEF TypeOK
<1>3. LoggedEntry(Len(log))
  BY <1>2 DEF Logged
<1> QED
  BY <1>1, <1>2, <1>3
     DEF LoggedEntry, Last, Parent, ParentExam, ExamOf, Records, gen, Checkpoints

LEMMA InitHolds == Init => CampaignInv
<1> SUFFICES ASSUME Init PROVE CampaignInv
  OBVIOUS
<1>1. log = <<>> /\ Len(log) = 0 /\ log \in Seq(Records)
  BY EmptySeq DEF Init
<1>2. TypeOK
  <2>1. [sft |-> 0, dpo |-> 0, accept |-> FALSE]
          \in [sft : Scores, dpo : Scores, accept : BOOLEAN]
    BY Numbers DEF Scores
  <2>2. models \in [Paths -> SUBSET Checkpoints] /\ pairs \in [Gens -> SUBSET Runs]
    BY DEF Init
  <2>3. Len(log) <= MaxGen /\ runs \in 0 .. MaxRuns /\ goal \in 0 .. MaxGen
    BY <1>1, Numbers DEF Init
  <2>4. torn \in BOOLEAN /\ step \in Steps /\ work \in Paths \cup {NoPath}
        /\ arm \in Arms /\ profile \in Profiles
        /\ exams = [sft |-> 0, dpo |-> 0, accept |-> FALSE]
    BY DEF Init, Steps
  <2> QED
    BY <1>1, <2>1, <2>2, <2>3, <2>4 DEF TypeOK
<1>3. OnDisk /\ Logged /\ Progress /\ RegressionBounded
  BY <1>1, Numbers DEF Init, OnDisk, Logged, Progress, InGeneration, HasArm, HasSft,
     HasWork, HasPairs, HasDpo, HasVerdict, RegressionBounded
<1> QED
  BY <1>2, <1>3 DEF CampaignInv
-----------------------------------------------------------------------------
\* A new campaign, or the log of an old one.
LEMMA LaunchKeeps ==
  ASSUME CampaignInv, NEW a \in Arms, NEW p \in Profiles, NEW n \in 1 .. MaxGen,
         Launch(a, p, n)
  PROVE  CampaignInv'
<1> USE Numbers DEF CampaignInv
<1>0. models' \in [Paths -> SUBSET Checkpoints] /\ pairs' \in [Gens -> SUBSET Runs]
      /\ torn' \in BOOLEAN
  BY DEF Launch, TypeOK, disk
<1>1. n \in 0 .. MaxGen /\ (p = "validate" => 1 \in 0 .. MaxGen)
  BY CampaignAssumption
<1>2. step' = "generation" /\ log' = log /\ runs' \in Runs /\ Len(log) \in Nat
  BY DEF Launch, TypeOK, Runs
<1>3. CASE log = <<>>
  <2>1. Len(log) = 0 /\ arm' \in Arms
    BY <1>3, EmptySeq DEF Launch, ArmOf
  <2>2. TypeOK'
    BY <1>0, <1>1, <1>2, <1>3, <2>1 DEF Launch, TypeOK, Steps, Runs
  <2>3. OnDisk' /\ Logged' /\ RegressionBounded'
    BY <1>2, <1>3, <2>1 DEF Launch, OnDisk, Logged, RegressionBounded
  <2>4. Progress'
    BY <1>2, <1>3 DEF Progress, InGeneration, HasArm, HasSft, HasWork, HasPairs,
       HasDpo, HasVerdict
  <2> QED
    BY <2>2, <2>3, <2>4
<1>4. CASE log # <<>>
  <2>1. Len(log) # 0 /\ log[1] \in Records
    BY <1>4, EmptySeq, ElementOfSeq DEF TypeOK
  <2>2. arm' = log[1].arm /\ arm' \in Arms
    BY <1>4, <2>1 DEF Launch, ArmOf, Records
  <2>3. UNCHANGED <<log, models, pairs, torn, work, exams>>
    BY <1>4 DEF Launch, disk
  <2>4. TypeOK'
    BY <1>1, <1>2, <2>2, <2>3 DEF Launch, TypeOK, Steps, Runs
  <2>5. OnDisk' /\ Logged' /\ RegressionBounded'
    BY <2>3 DEF OnDisk, Logged, LoggedEntry, RegressionBounded, ExamOf
  <2>6. Progress'
    BY <1>2, <2>2, <2>3 DEF Progress, InGeneration, HasArm, HasSft, HasWork, HasPairs,
       HasDpo, HasVerdict
  <2> QED
    BY <2>4, <2>5, <2>6
<1> QED
  BY <1>3, <1>4

\* What moves only the step leaves the disk and the log as they were.
LEMMA QuietKeeps ==
  ASSUME CampaignInv, UNCHANGED <<log, models, pairs>>
  PROVE  OnDisk' /\ Logged' /\ RegressionBounded'
  BY DEF CampaignInv, OnDisk, Logged, LoggedEntry, RegressionBounded, ExamOf

LEMMA GenerationKeeps ==
  ASSUME CampaignInv, Generation \/ Stop \/ Crash
  PROVE  CampaignInv'
<1> USE DEF CampaignInv
<1>1. UNCHANGED <<log, models, pairs, runs, arm, profile, goal, work, exams>>
  BY DEF Generation, Stop, Crash, disk, request
<1>2. torn' \in BOOLEAN /\ step' \in {"sft", "down"} /\ (step' = "sft" => gen < goal)
  BY DEF Generation, Stop, Crash, TypeOK
<1>3. step' = "sft" => step # "down"
  BY DEF Generation, Stop, Crash
<1>4. TypeOK'
  BY <1>1, <1>2 DEF TypeOK, Steps
<1>5. Progress'
  BY <1>1, <1>2, <1>3 DEF Progress, InGeneration, HasArm, HasSft, HasWork, HasPairs,
     HasDpo, HasVerdict, gen
<1> QED
  BY <1>1, <1>4, <1>5, QuietKeeps

\* A training writes a directory that no generation has accepted.
LEMMA TrainingKeeps ==
  ASSUME CampaignInv, NEW kind \in {"sft", "dpo"}, NEW base \in SUBSET Checkpoints,
         NEW score \in Scores, gen < goal, runs \in Runs,
         UNCHANGED <<log, pairs, runs>>,
         models' = [models EXCEPT ![Output(kind)] = {Trained(Output(kind), base, score)}]
  PROVE  /\ models' \in [Paths -> SUBSET Checkpoints]
         /\ OnDisk' /\ Logged' /\ RegressionBounded'
         /\ models'[Output(kind)] = {Trained(Output(kind), base, score)}
         /\ \A p \in Paths : p # Output(kind) => models'[p] = models[p]
         /\ Trained(Output(kind), base, score).score = score
         /\ \A c \in base : c.from \subseteq Trained(Output(kind), base, score).from
<1> DEFINE t == Trained(Output(kind), base, score)
<1> USE DEF CampaignInv
<1>0. gen \in Gens /\ Output(kind) \in Paths
  BY Numbers DEF TypeOK, Gens, Paths, Output, gen
<1>1. t \in Checkpoints /\ t.id \in t.from /\ t.score = score
  <2>1. <<Output(kind), runs>> \in Trainings
    BY <1>0 DEF Trainings
  <2>2. \A c \in base : c.from \subseteq Trainings
    BY DEF Checkpoints
  <2> DEFINE from == AncestorsOf(base) \cup {<<Output(kind), runs>>}
  <2>3. from \subseteq Trainings /\ <<Output(kind), runs>> \in from
    BY <2>1, <2>2, Ancestors
  <2>4. t = [id |-> <<Output(kind), runs>>, from |-> from, score |-> score]
    BY DEF Trained
  <2> HIDE DEF from, t
  <2> QED
    BY <2>1, <2>3, <2>4 DEF Checkpoints
<1>2. \A c \in base : c.from \subseteq t.from
  BY Ancestors DEF Trained, Checkpoints
<1> HIDE DEF t
<1>3. models' = [models EXCEPT ![Output(kind)] = {t}]
  BY DEF t
<1>4. /\ models' \in [Paths -> SUBSET Checkpoints]
      /\ models'[Output(kind)] = {t}
      /\ \A p \in Paths : p # Output(kind) => models'[p] = models[p]
  <2>1. {t} \in SUBSET Checkpoints /\ models \in [Paths -> SUBSET Checkpoints]
    BY <1>1 DEF TypeOK
  <2> HIDE DEF CampaignInv
  <2> QED
    BY <1>0, <1>3, <2>1
<1>5. OnDisk'
  BY <1>1, <1>4 DEF OnDisk
<1>6. ASSUME NEW i \in 1 .. Len(log) PROVE LoggedEntry(i)'
  <2>1. LoggedEntry(i) /\ log[i] \in Records
    BY ElementOfSeq DEF Logged, TypeOK
  <2>2. log[i].accepted_checkpoint \in Paths /\ log[i].accepted_checkpoint[1] < gen
    BY <2>1 DEF Records, LoggedEntry, gen, Paths, Gens, TypeOK
  <2>3. log[i].accepted_checkpoint # Output(kind)
    BY <2>2, OutputsAreNew
  <2> QED
    BY <1>4, <2>1, <2>2, <2>3 DEF LoggedEntry, ExamOf
<1>7. Logged' /\ RegressionBounded'
  BY <1>6 DEF Logged, RegressionBounded
<1> QED
  BY <1>1, <1>2, <1>4, <1>5, <1>7 DEF t

LEMMA TrainSftKeeps ==
  ASSUME CampaignInv, NEW score \in Scores, TrainSft(score)
  PROVE  CampaignInv'
<1> USE DEF CampaignInv
<1>1. gen < goal /\ runs \in Runs /\ step = "sft" /\ step' = "sft_exam"
      /\ UNCHANGED <<log, torn, pairs, runs, arm, profile, goal, work, exams>>
  BY DEF TrainSft, Progress, InGeneration, HasArm, request
<1>2. Base \in SUBSET Checkpoints /\ (log # <<>> =>
        Base = {Last(log).accepted_checkpoint_hash})
  BY LastRecord DEF Base
<1>3. models' = [models EXCEPT ![Output("sft")] = {Trained(Output("sft"), Base, score)}]
  BY DEF TrainSft
<1>4. /\ models' \in [Paths -> SUBSET Checkpoints]
      /\ OnDisk' /\ Logged' /\ RegressionBounded'
      /\ models'[Output("sft")] = {Trained(Output("sft"), Base, score)}
      /\ \A c \in Base : c.from \subseteq Trained(Output("sft"), Base, score).from
  BY <1>1, <1>2, <1>3, TrainingKeeps
<1>5. TypeOK'
  BY <1>1, <1>4 DEF TypeOK, Steps
<1>6. log # <<>> => Last(log).accepted_checkpoint_hash.id
                      \in Last(log).accepted_checkpoint_hash.from
  BY LastRecord DEF OnDisk
<1>7. HasSft'
  BY <1>1, <1>2, <1>4, <1>6 DEF HasSft, Chained, Output, gen, Last
<1>8. Progress'
  BY <1>1, <1>7 DEF Progress, InGeneration, HasArm, HasWork, HasPairs, HasDpo,
     HasVerdict, gen
<1> QED
  BY <1>4, <1>5, <1>8

LEMMA SftExamKeeps ==
  ASSUME CampaignInv, SftExam
  PROVE  CampaignInv'
<1> USE DEF CampaignInv
<1>1. gen < goal /\ step' = "design"
      /\ UNCHANGED <<log, torn, models, pairs, runs, arm, profile, goal>>
  BY DEF SftExam, Progress, InGeneration, request, disk
<1>2. PICK c \in models[Output("sft")] :
        LET accepted == log = <<>> \/ Accepts(ParentExam, c.score)
        IN  /\ work' = IF accepted THEN Output("sft") ELSE Parent
            /\ exams' = [sft |-> IF accepted THEN c.score ELSE ParentExam,
                         dpo |-> 0, accept |-> FALSE]
  BY DEF SftExam
<1>3. gen \in Gens /\ Output("sft") \in Paths /\ Output("dpo") \in Paths
  BY <1>1, Numbers DEF TypeOK, Gens, Paths, Output, gen
<1>4. /\ models[Output("sft")] = {c} /\ c \in Checkpoints /\ c.score \in Scores
      /\ Chained(c)
  BY <1>2, <1>3 DEF OnDisk, TypeOK, Checkpoints, SftExam, Progress, HasSft
<1>5. 0 \in Scores
  BY Numbers DEF Scores
<1> DEFINE passes == log = <<>> \/ Accepts(ParentExam, c.score)
<1>6. CASE passes
  <2>1. work' = Output("sft") /\ exams' = [sft |-> c.score, dpo |-> 0, accept |-> FALSE]
    BY <1>2, <1>6
  <2>2. log # <<>> => Tolerated(ParentExam, c.score)
    BY <1>6 DEF Accepts, Tolerated
  <2>3. TypeOK'
    BY <1>1, <1>3, <1>4, <1>5, <2>1 DEF TypeOK, Steps
  <2>4. Output("sft")[1] = gen /\ Output("sft") # Output("dpo") /\ gen \in Nat
    BY <1>3 DEF Output, Gens
  <2>5. HasWork'
    BY <1>1, <1>3, <1>4, <2>1, <2>2, <2>4, SMTT(30)
       DEF HasWork, Chained, Output, gen, Last, ParentExam
  <2>6. HasVerdict' /\ InGeneration' /\ HasArm' /\ HasSft' /\ HasPairs' /\ HasDpo'
    BY <1>1, <2>1 DEF HasVerdict, InGeneration, HasArm, HasSft, HasPairs, HasDpo,
       SftExam, Progress, gen
  <2> QED
    BY <1>1, <2>3, <2>5, <2>6, QuietKeeps DEF Progress
<1>7. CASE ~ passes
  <2>1. log # <<>> /\ work' = Parent
        /\ exams' = [sft |-> ParentExam, dpo |-> 0, accept |-> FALSE]
    BY <1>2, <1>7
  <2>2. /\ Parent \in Paths /\ Parent[1] < gen /\ ParentExam \in Scores
        /\ models[Parent] = {Last(log).accepted_checkpoint_hash}
        /\ Last(log).accepted_checkpoint_hash.score = ParentExam
    BY <2>1, LastRecord
  <2>3. TypeOK'
    BY <1>1, <1>5, <2>1, <2>2 DEF TypeOK, Steps
  <2>4. Parent # Output("dpo") /\ Parent[1] <= gen
    BY <1>3, <2>2, OutputsAreNew DEF Paths, Gens
  <2>5. Last(log).accepted_checkpoint_hash.id \in Last(log).accepted_checkpoint_hash.from
    BY <2>2 DEF OnDisk
  <2>6. Tolerated(ParentExam, ParentExam)
    BY <2>2, Numbers DEF Tolerated, Scores
  <2>7. HasWork'
    BY <1>1, <2>1, <2>2, <2>4, <2>5, <2>6
       DEF HasWork, Chained, Output, gen, Last, ParentExam
  <2>8. HasVerdict' /\ InGeneration' /\ HasArm' /\ HasSft' /\ HasPairs' /\ HasDpo'
    BY <1>1, <2>1 DEF HasVerdict, InGeneration, HasArm, HasSft, HasPairs, HasDpo,
       SftExam, Progress, gen
  <2> QED
    BY <1>1, <2>3, <2>7, <2>8, QuietKeeps DEF Progress
<1> QED
  BY <1>6, <1>7

LEMMA DesignKeeps ==
  ASSUME CampaignInv, NEW ready \in BOOLEAN, Design(ready)
  PROVE  CampaignInv'
<1> USE DEF CampaignInv
<1>1. /\ gen < goal /\ step = "design" /\ step' \in {"dpo", "log"} /\ runs \in Runs
      /\ UNCHANGED <<log, torn, models, runs, arm, profile, goal, work, exams>>
      /\ pairs' = [pairs EXCEPT ![gen] = {runs}]
  BY DEF Design, Progress, InGeneration, HasArm, request, PairsFile
<1>2. gen \in Gens
  BY <1>1, Numbers DEF TypeOK, Gens, gen
<1>3. /\ pairs' \in [Gens -> SUBSET Runs] /\ pairs'[gen] = {runs}
      /\ \A g \in Gens : g # gen => pairs'[g] = pairs[g]
  BY <1>1, <1>2 DEF TypeOK
<1>4. TypeOK'
  BY <1>1, <1>3 DEF TypeOK, Steps
<1>5. OnDisk' /\ RegressionBounded'
  BY <1>1 DEF OnDisk, RegressionBounded
<1>6. ASSUME NEW i \in 1 .. Len(log) PROVE LoggedEntry(i)'
  <2>1. LoggedEntry(i) /\ i - 1 \in Gens /\ i - 1 # gen
    BY <1>2, Numbers DEF Logged, Gens, gen, TypeOK
  <2> QED
    BY <1>1, <1>3, <2>1 DEF LoggedEntry, ExamOf
<1>7. Logged'
  BY <1>1, <1>6 DEF Logged
<1>8. HasWork' /\ HasPairs'
  BY <1>1, <1>3 DEF Progress, HasWork, HasPairs, Chained, Output, gen, Last, ParentExam
<1>9. InGeneration' /\ HasArm' /\ HasSft' /\ HasDpo' /\ HasVerdict'
  BY <1>1 DEF Progress, InGeneration, HasArm, HasSft, HasDpo, HasVerdict, gen
<1> QED
  BY <1>4, <1>5, <1>7, <1>8, <1>9 DEF Progress

LEMMA TrainDpoKeeps ==
  ASSUME CampaignInv, NEW score \in Scores, TrainDpo(score)
  PROVE  CampaignInv'
<1> USE DEF CampaignInv
<1>1. /\ gen < goal /\ runs \in Runs /\ step = "dpo" /\ step' = "dpo_exam"
      /\ UNCHANGED <<log, torn, pairs, runs, arm, profile, goal, work, exams>>
  BY DEF TrainDpo, Progress, InGeneration, HasArm, request
<1>2. /\ work \in Paths /\ work[1] <= gen /\ work # Output("dpo")
      /\ models[work] # {} /\ models[work] \in SUBSET Checkpoints
      /\ \A c \in models[work] : Chained(c) /\ c.score = exams.sft
      /\ log # <<>> => Tolerated(ParentExam, exams.sft)
  BY <1>1 DEF Progress, HasWork, TypeOK
<1>3. models' = [models EXCEPT ![Output("dpo")] =
                   {Trained(Output("dpo"), models[work], score)}]
  BY DEF TrainDpo
<1>4. /\ models' \in [Paths -> SUBSET Checkpoints]
      /\ OnDisk' /\ Logged' /\ RegressionBounded'
      /\ models'[Output("dpo")] = {Trained(Output("dpo"), models[work], score)}
      /\ models'[work] = models[work]
      /\ \A c \in models[work] :
           c.from \subseteq Trained(Output("dpo"), models[work], score).from
  BY <1>1, <1>2, <1>3, TrainingKeeps
<1>5. TypeOK'
  BY <1>1, <1>4 DEF TypeOK, Steps
<1>6. HasWork'
  BY <1>1, <1>2, <1>4 DEF HasWork, Chained, Output, gen, Last, ParentExam
<1>7. Chained(Trained(Output("dpo"), models[work], score))
  BY <1>2, <1>4 DEF Chained
<1>8. HasDpo'
  BY <1>1, <1>4, <1>7 DEF HasDpo, Chained, Output, gen, Last
<1>9. InGeneration' /\ HasArm' /\ HasSft' /\ HasPairs' /\ HasVerdict'
  BY <1>1 DEF Progress, InGeneration, HasArm, HasSft, HasPairs, HasVerdict, gen
<1> QED
  BY <1>4, <1>5, <1>6, <1>8, <1>9 DEF Progress

LEMMA DpoExamKeeps ==
  ASSUME CampaignInv, NEW frozen \in BOOLEAN, DpoExam(frozen)
  PROVE  CampaignInv'
<1> USE DEF CampaignInv
<1>1. /\ gen < goal /\ runs \in Runs /\ step = "dpo_exam" /\ step' = "log"
      /\ UNCHANGED <<log, torn, models, pairs, runs, arm, profile, goal, work>>
  BY DEF DpoExam, Progress, InGeneration, HasArm, request, disk
<1> DEFINE verdict(c) == arm = "dpo_no_gate" \/ (Accepts(exams.sft, c.score) /\ frozen)
<1>2. PICK c \in models[Output("dpo")] :
        exams' = [exams EXCEPT !.dpo = c.score, !.accept = verdict(c)]
  BY DEF DpoExam
<1>3. Output("dpo") \in Paths
  BY <1>1, Numbers DEF TypeOK, Gens, Paths, Output, gen
<1>4. models[Output("dpo")] = {c} /\ c.score \in Scores /\ Chained(c)
  BY <1>1, <1>2, <1>3 DEF OnDisk, TypeOK, Checkpoints, Progress, HasDpo
<1>5. verdict(c) \in BOOLEAN
  BY DEF Accepts
<1>6. arm # "dpo_no_gate" /\ verdict(c) => Tolerated(exams.sft, c.score)
  BY DEF Accepts, Tolerated
<1> HIDE DEF verdict
<1>7. /\ exams' \in [sft : Scores, dpo : Scores, accept : BOOLEAN]
      /\ exams'.sft = exams.sft /\ exams'.dpo = c.score /\ exams'.accept = verdict(c)
  BY <1>2, <1>4, <1>5 DEF TypeOK
<1>8. TypeOK'
  BY <1>1, <1>7 DEF TypeOK, Steps
<1>9. HasWork' /\ HasPairs'
  BY <1>1, <1>7 DEF Progress, HasWork, HasPairs, Chained, Output, gen, Last, ParentExam
<1>10. HasVerdict'
  BY <1>1, <1>4, <1>6, <1>7 DEF HasVerdict, Chained, Output, gen, Last
<1>11. InGeneration' /\ HasArm' /\ HasSft' /\ HasDpo'
  BY <1>1 DEF Progress, InGeneration, HasArm, HasSft, HasDpo, gen
<1> QED
  BY <1>1, <1>8, <1>9, <1>10, <1>11, QuietKeeps DEF Progress

\* The record that is logged is about the checkpoint the gates let through.
LEMMA LogKeeps ==
  ASSUME CampaignInv, LogGeneration
  PROVE  CampaignInv' /\ (log # <<>> => Last(log).accepted_checkpoint_hash.id
                            \in log'[Len(log) + 1].accepted_checkpoint_hash.from)
<1> USE DEF CampaignInv
<1> DEFINE record == [arm |-> arm, profile |-> profile, run |-> runs,
                      sft_exam |-> exams.sft, dpo_exam |-> exams.dpo,
                      dpo_update_accepted |-> exams.accept,
                      accepted_checkpoint |-> Accepted,
                      accepted_checkpoint_hash |-> AcceptedHash]
           after == AcceptedHash.score
<1>1. /\ gen < goal /\ runs \in Runs /\ step = "log" /\ step' = "generation"
      /\ UNCHANGED <<torn, models, pairs, runs, arm, profile, goal, work, exams>>
      /\ log' = Append(log, record)
      /\ log # <<>> => arm = log[1].arm
      /\ pairs[gen] = {runs}
  BY DEF LogGeneration, Progress, InGeneration, HasArm, HasPairs, request, disk
<1>2. /\ gen \in Gens /\ gen = Len(log) /\ Len(log) \in Nat /\ Output("dpo") \in Paths
      /\ Output("dpo")[1] = gen
  BY <1>1, Numbers DEF TypeOK, Gens, Paths, Output, gen
<1>3. /\ work \in Paths /\ work[1] <= gen
      /\ models[work] # {} /\ \A c \in models[work] : Chained(c) /\ c.score = exams.sft
      /\ log # <<>> => Tolerated(ParentExam, exams.sft)
  BY <1>1 DEF Progress, HasWork
<1>4. exams.accept =>
        /\ models[Output("dpo")] # {}
        /\ \A c \in models[Output("dpo")] : Chained(c) /\ c.score = exams.dpo
        /\ arm # "dpo_no_gate" => Tolerated(exams.sft, exams.dpo)
  BY <1>1 DEF Progress, HasVerdict
<1>5. Accepted \in Paths /\ Accepted[1] <= gen /\ models[Accepted] # {}
      /\ \A c \in models[Accepted] : Chained(c)
  BY <1>2, <1>3, <1>4 DEF Accepted, Paths, Gens
<1>6. AcceptedHash \in models[Accepted]
  BY <1>5 DEF AcceptedHash
<1>7. models[Accepted] = {AcceptedHash} /\ AcceptedHash \in Checkpoints
      /\ Chained(AcceptedHash) /\ after \in Scores
  BY <1>5, <1>6 DEF OnDisk, TypeOK, Checkpoints
<1>8. exams \in [sft : Scores, dpo : Scores, accept : BOOLEAN]
  BY DEF TypeOK
<1>9. after = IF exams.accept THEN exams.dpo ELSE exams.sft
  BY <1>3, <1>4, <1>6, <1>8 DEF Accepted
<1>10. record \in Records
  BY <1>1, <1>5, <1>7, <1>8 DEF TypeOK, Records
<1>11. /\ log' \in Seq(Records) /\ Len(log') = Len(log) + 1
       /\ \A i \in 1 .. Len(log) : log'[i] = log[i]
       /\ log'[Len(log) + 1] = record
  <2> HIDE DEF record
  <2> QED
    BY <1>1, <1>10, AppendProperties DEF TypeOK
<1>12. log # <<>> => 1 \in 1 .. Len(log) /\ Len(log) # 0
  BY <1>2, EmptySeq DEF TypeOK
<1>13. log'[1].arm = arm
  <2>1. CASE log = <<>>
    BY <2>1, <1>11, EmptySeq
  <2>2. CASE log # <<>>
    BY <2>2, <1>1, <1>11, <1>12
  <2> QED
    BY <2>1, <2>2
<1>14. TypeOK'
  <2>1. Len(log') <= MaxGen
    BY <1>1, <1>2, <1>11, Numbers DEF TypeOK
  <2> QED
    BY <1>1, <1>11, <2>1 DEF TypeOK, Steps
<1>15. OnDisk'
  BY <1>1 DEF OnDisk
<1>16. Logged'
  <2>1. ASSUME NEW i \in 1 .. Len(log'), i = Len(log) + 1 PROVE LoggedEntry(i)'
    <3>1. log'[i] = record /\ i - 1 = gen /\ Accepted[1] < i
      BY <1>2, <1>5, <1>11, <2>1 DEF Paths, Gens
    <3>2. ExamOf(record) = after
      BY <1>9 DEF ExamOf
    <3>3. pairs'[i - 1] = {runs} /\ models' = models
      BY <1>1, <3>1
    <3> QED
      BY <1>7, <1>13, <3>1, <3>2, <3>3 DEF LoggedEntry, ExamOf
  <2>2. ASSUME NEW i \in 1 .. Len(log) PROVE LoggedEntry(i)'
    <3>1. LoggedEntry(i) /\ log'[i] = log[i] /\ log # <<>>
      BY <1>11, <1>12, EmptySeq DEF Logged
    <3> QED
      BY <1>1, <1>13, <3>1 DEF LoggedEntry, ExamOf
  <2>3. ASSUME NEW i \in 1 .. Len(log') PROVE LoggedEntry(i)'
    <3>1. i = Len(log) + 1 \/ i \in 1 .. Len(log)
      BY <1>2, <1>11
    <3> QED
      BY <2>1, <2>2, <3>1
  <2> QED
    BY <2>3 DEF Logged
<1>17. Progress'
  BY <1>1, <1>13 DEF Progress, InGeneration, HasArm, HasSft, HasWork, HasPairs, HasDpo,
     HasVerdict
<1>18. RegressionBounded'
  <2> SUFFICES ASSUME NEW i \in 2 .. Len(log'), log'[i].arm # "dpo_no_gate"
               PROVE  LET b == log'[i - 1].accepted_checkpoint_hash.score
                          a == log'[i].accepted_checkpoint_hash.score
                      IN  a + 2 * Tolerance >= b /\ (b >= Floor => a >= Floor)
    BY DEF RegressionBounded
  <2>1. CASE i <= Len(log)
    BY <2>1, <1>2, <1>11 DEF RegressionBounded
  <2>2. CASE i = Len(log) + 1
    <3>1. log # <<>> /\ log'[i - 1] = Last(log) /\ log'[i] = record
      BY <1>2, <1>11, <2>2, EmptySeq DEF Last
    <3>2. Last(log).accepted_checkpoint_hash.score = ParentExam /\ ParentExam \in Scores
      BY <3>1, LastRecord
    <3>3. arm # "dpo_no_gate" /\ log'[i].accepted_checkpoint_hash.score = after
      BY <3>1
    <3>4. Tolerated(ParentExam, exams.sft)
          /\ (exams.accept => Tolerated(exams.sft, exams.dpo))
      BY <1>3, <1>4, <3>1, <3>3
    <3>5. after + 2 * Tolerance >= ParentExam /\ (ParentExam >= Floor => after >= Floor)
      <4>1. after \in Nat /\ exams.sft \in Nat /\ exams.dpo \in Nat /\ ParentExam \in Nat
        BY <1>7, <1>8, <3>2, Numbers DEF Scores
      <4>2. CASE exams.accept
        <5>1. after = exams.dpo
          BY <1>9, <4>2
        <5> HIDE DEF after
        <5> QED
          BY <3>4, <4>1, <4>2, <5>1, Numbers, SMTT(30) DEF Tolerated
      <4>3. CASE ~ exams.accept
        <5>1. after = exams.sft
          BY <1>9, <4>3
        <5> HIDE DEF after
        <5> QED
          BY <3>4, <4>1, <5>1, Numbers DEF Tolerated
      <4> QED
        BY <4>2, <4>3
    <3> QED
      BY <3>1, <3>2, <3>3, <3>5
  <2> QED
    BY <2>1, <2>2, <1>2, <1>11
<1> QED
  BY <1>7, <1>11, <1>14, <1>15, <1>16, <1>17, <1>18 DEF Chained
-----------------------------------------------------------------------------
LEMMA StepKeeps ==
  ASSUME CampaignInv, [Next]_vars
  PROVE  CampaignInv'
<1>1. CASE UNCHANGED vars
  BY <1>1, ZenonT(60) DEF vars, disk, request, CampaignInv, TypeOK, OnDisk, Logged, LoggedEntry,
     ExamOf, Progress, InGeneration, HasArm, HasSft, HasWork, HasPairs, HasDpo,
     HasVerdict, Chained, Output, gen, Last, ParentExam, RegressionBounded
<1>2. CASE Next
  BY <1>2, LaunchKeeps, GenerationKeeps, TrainSftKeeps, SftExamKeeps, DesignKeeps,
     TrainDpoKeeps, DpoExamKeeps, LogKeeps DEF Next
<1> QED
  BY <1>1, <1>2

\* The invariant holds in every state the campaign can reach.
THEOREM CampaignInvariance == Spec => []CampaignInv
BY InitHolds, StepKeeps, PTL DEF Spec

\* The variables keep to their types.
THEOREM CampaignTypes == Spec => []TypeOK
<1>1. CampaignInv => TypeOK
  BY DEF CampaignInv
<1> QED
  BY CampaignInvariance, <1>1, PTL

\* Whatever is killed and resumed, what a logged generation accepted stays on
\* the disk as it was hashed.
THEOREM AcceptedStaysIntact == Spec => []AcceptedIntact
<1>1. CampaignInv => AcceptedIntact
  BY DEF CampaignInv, Logged, LoggedEntry, AcceptedIntact
<1> QED
  BY CampaignInvariance, <1>1, PTL

\* Each generation is compared with the exam of what it was trained from.
THEOREM ExamIsOfAccepted == Spec => []ExamOfAccepted
<1>1. CampaignInv => ExamOfAccepted
  BY DEF CampaignInv, Logged, LoggedEntry, ExamOfAccepted
<1> QED
  BY CampaignInvariance, <1>1, PTL

\* With a gate, no generation loses more than two tolerated drops, and the floor
\* is never lost.
THEOREM RegressionStaysBounded == Spec => []RegressionBounded
<1>1. CampaignInv => RegressionBounded
  BY DEF CampaignInv
<1> QED
  BY CampaignInvariance, <1>1, PTL

\* Preference training never reads the pairs of an attempt that was killed.
THEOREM PairsStayLogged == Spec => []PairsAreLogged
<1>1. CampaignInv => PairsAreLogged
  BY DEF CampaignInv, Progress, HasPairs, Logged, LoggedEntry, PairsAreLogged
<1> QED
  BY CampaignInvariance, <1>1, PTL

\* A resumed campaign keeps its arm.
THEOREM ArmStays == Spec => []OneArm
<1>1. CampaignInv => OneArm
  BY DEF CampaignInv, Logged, LoggedEntry, OneArm
<1> QED
  BY CampaignInvariance, <1>1, PTL

\* A campaign implements the lineage: its log grows by one generation at a time,
\* each of which goes back to the one accepted before.
THEOREM CampaignIsALineage == Spec => GenerationsChained
<1> DEFINE chained == [i \in 1 .. Len(log) |-> log[i].accepted_checkpoint_hash]
<1>1. Init => Chain!Init
  BY EmptySeq DEF Init, Chain!Init
<1>2. ASSUME CampaignInv, [Next]_vars
      PROVE  [Chain!Accept]_chained
  <2>1. CASE LogGeneration
    <3>1. log # <<>> => Last(log).accepted_checkpoint_hash.id
                          \in log'[Len(log) + 1].accepted_checkpoint_hash.from
      BY <1>2, <2>1, LogKeeps
    <3>2. PICK r : log' = Append(log, r)
      BY <2>1 DEF LogGeneration
    <3>3. log \in Seq(Records) /\ Len(log) \in Nat /\ log' \in Seq(Records)
      BY <1>2, <2>1, LogKeeps DEF CampaignInv, TypeOK
    <3>4. /\ Len(log') = Len(log) + 1 /\ log'[Len(log) + 1] = r
          /\ \A i \in 1 .. Len(log) : log'[i] = log[i]
      BY <3>2, <3>3
    <3>5. r.accepted_checkpoint_hash = chained'[Len(log) + 1]
      BY <3>3, <3>4
    <3>6. /\ \A i \in 1 .. Len(log) : log[i].accepted_checkpoint_hash \in Checkpoints
          /\ \A i \in 1 .. Len(log') : log'[i].accepted_checkpoint_hash \in Checkpoints
      <4>1. \A q \in Seq(Records) : \A i \in 1 .. Len(q) : q[i] \in Records
        BY ElementOfSeq
      <4> QED
        BY <3>3, <4>1 DEF Records
    <3>7. /\ chained \in [1 .. Len(log) -> Checkpoints]
          /\ chained' \in [1 .. Len(log) + 1 -> Checkpoints]
      BY <3>4, <3>6
    <3>8. /\ chained \in Seq(Checkpoints) /\ Len(chained) = Len(log)
          /\ chained' \in Seq(Checkpoints) /\ Len(chained') = Len(log) + 1
      <4>1. ASSUME NEW n \in Nat, NEW f \in [1 .. n -> Checkpoints]
            PROVE  f \in Seq(Checkpoints) /\ Len(f) = n
        <5>1. f \in Seq(Checkpoints)
          BY SeqDef
        <5>2. Len(f) \in Nat /\ 1 .. Len(f) = 1 .. n
          BY <5>1, LenProperties
        <5> QED
          BY <5>1, <5>2
      <4>2. Len(log) \in Nat /\ Len(log) + 1 \in Nat
        BY <3>3
      <4> HIDE DEF chained
      <4>3. chained \in Seq(Checkpoints) /\ Len(chained) = Len(log)
        BY <3>7, <4>1, <4>2
      <4>4. chained' \in Seq(Checkpoints) /\ Len(chained') = Len(log) + 1
        BY <3>7, <4>1, <4>2
      <4> QED
        BY <4>3, <4>4
    <3>9. /\ \A i \in 1 .. Len(log) : chained'[i] = chained[i]
          /\ chained'[Len(log) + 1] \in Checkpoints
      BY <3>3, <3>4, <3>6
    <3>10. chained' = Append(chained, chained'[Len(chained) + 1])
      <4> DEFINE extended == Append(chained, chained'[Len(log) + 1])
      <4> HIDE DEF chained
      <4>1. /\ extended \in Seq(Checkpoints) /\ Len(extended) = Len(log) + 1
            /\ \A i \in 1 .. Len(log) : extended[i] = chained[i]
            /\ extended[Len(log) + 1] = chained'[Len(log) + 1]
        BY <3>8, <3>9, AppendProperties
      <4> HIDE DEF extended
      <4>2. \A i \in 1 .. Len(extended) : extended[i] = chained'[i]
        BY <3>3, <3>9, <4>1
      <4>3. extended = chained'
        BY <3>8, <4>1, <4>2, SeqEqual
      <4> QED
        BY <3>8, <4>3 DEF extended
    <3>11. Chain!Descends(chained, chained'[Len(chained) + 1])
      <4>1. SUFFICES ASSUME chained # <<>>
                     PROVE  chained[Len(chained)].id \in chained'[Len(chained) + 1].from
        BY DEF Chain!Descends
      <4>2. Len(log) # 0 /\ log # <<>>
        BY <3>3, <3>8, <4>1, EmptySeq
      <4>3. chained[Len(chained)] = Last(log).accepted_checkpoint_hash
        BY <3>3, <3>8, <4>2 DEF Last
      <4> QED
        BY <3>1, <3>4, <3>5, <3>8, <4>2, <4>3
    <3> QED
      BY <3>8, <3>10, <3>11 DEF Chain!Accept
  <2>2. CASE ~ LogGeneration
    <3>1. log' = log
      BY <1>2, <2>2 DEF Next, vars, Launch, Generation, Stop, TrainSft, SftExam, Design,
         TrainDpo, DpoExam, Crash
    <3> QED
      BY <3>1
  <2> QED
    BY <2>1, <2>2
<1> QED
  BY <1>1, <1>2, CampaignInvariance, PTL DEF Spec, GenerationsChained, Chain!Spec
=============================================================================
