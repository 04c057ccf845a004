-------------------------- MODULE SelfImprovement --------------------------
(***************************************************************************)
(* The adaptive loop of run_self_improvement_v2.py, with the gates, streams *)
(* and target aggregation of selfimprove_v2.  A launch reads STATE.json,   *)
(* loads the proposer once, and takes a number of generations: it runs the *)
(* pipeline once per job, appends what each run yields to the generation's *)
(* streams and to the shared memory, fits a candidate ranker, value net    *)
(* and proposer, accepts those that pass their gate, and writes STATE.json. *)
(* There is no ledger and no temporary file: a launch that dies repeats its *)
(* generation from the start, over whatever the dead one left behind.      *)
(*                                                                         *)
(* A checkpoint is the launch that fitted it; a path is the generation in  *)
(* whose directory it is, {} when the base checkpoint is meant.            *)
(***************************************************************************)
EXTENDS Naturals, Sequences, FiniteSets

CONSTANTS
  Jobs,          \* the runs of a generation, in order: [spec, seed]
  Yields,        \* what a run may yield: streams, and whether one design passed alone
  Lengths,       \* how many generations a launch may be asked for
  Frozen,        \* --freeze-proposer
  MinPairs,      \* --min-ranker-pairs
  MinExamples,   \* --min-puct-examples
  MinEval,       \* min_eval and min_examples of the gates
  MinSeeds,      \* --sft-min-seeds
  Threshold,     \* --sft-threshold
  MaxLaunches,   \* bound on the number of launches
  MaxGen         \* bound on the number of a generation

Streams == {"ranker_pairs", "puct_examples", "rag_memory", "sac_replay",
            "sft_queue", "proposer_dpo_pairs"}
Parts == {"ranker", "value", "proposer"}
Gens  == 0 .. MaxGen

ASSUME SelfImprovementAssumption ==
  /\ Jobs \in Seq([spec : Nat, seed : Nat]) /\ Jobs # <<>>
  /\ Yields \subseteq [streams : SUBSET Streams, decided : BOOLEAN]
  /\ Lengths \subseteq Nat \ {0}
  /\ Frozen \in BOOLEAN
  /\ {MinPairs, MinExamples, MinEval, MinSeeds, Threshold, MaxLaunches, MaxGen} \subseteq Nat

VARIABLES
  launch,      \* how many times main was started
  phase,       \* where the process is, "down" when there is none
  gen,         \* the generation it is in
  last,        \* the last generation this launch was asked for
  todo,        \* jobs of this generation still to run
  harvest,     \* rows of the current run still to append
  accepted,    \* the process's st["accepted"]: a path for each part
  resident,    \* the proposer that was loaded into memory
  state,       \* STATE.json: the record it holds, if any
  damaged,     \* files a crash left unreadable
  rows,        \* the whole rows of all stream files
  memory,      \* the rows of the shared memory
  ckpt,        \* the checkpoint file of each part in each generation's directory
  crashed,     \* history: the last launch was killed
  yielded,     \* history: every row a run has yielded
  published    \* history: which launch published which generation

process == <<phase, gen, last, todo, harvest, accepted, resident>>
files   == <<state, damaged, rows, memory, ckpt>>
history == <<crashed, yielded, published>>
vars    == <<launch, process, files, history>>

Phases == {"down", "generation", "loop", "append", "ranker", "value",
           "sft", "publish", "record"}
JobSet == {Jobs[i] : i \in 1 .. Len(Jobs)}
Rows   == [gen : Gens, job : JobSet, stream : Streams, launch : 1 .. MaxLaunches,
           decided : BOOLEAN]
Paths  == [Parts -> {{}} \union {{g} : g \in Gens}]
States == [gen : Gens, path : Paths, hash : [Parts -> 0 .. MaxLaunches]]
File(g, s) == [gen |-> g, stream |-> s]
StateFile  == File(0, "STATE")
MemoryFile == File(0, "MEMORY")
Files  == [gen : Gens, stream : Streams] \union {StateFile, MemoryFile}

Base == [p \in Parts |-> {}]

Init ==
  /\ launch = 0
  /\ phase = "down" /\ gen = 0 /\ last = 0 /\ todo = <<>> /\ harvest = {}
  /\ accepted = Base /\ resident = {}
  /\ state = {} /\ damaged = {} /\ rows = {} /\ memory = {}
  /\ ckpt = [p \in Parts |-> [g \in Gens |-> 0]]
  /\ crashed = FALSE /\ yielded = {} /\ published = {}
-----------------------------------------------------------------------------
(* Faults: what a mistake in the code would make of an operator below. *)

FaultSameGeneration == IF state = {} THEN {0} ELSE {s.gen : s \in state}
FaultForgetsState == Base
FaultSharedDirectory == 0
FaultOffByOne == gen + 1
FaultCountsRuns(spec) ==
  Cardinality({w \in rows : w.stream = "sft_queue" /\ w.job.spec = spec}) >= MinSeeds
FaultRetriesForever == todo
FaultOnlyPasses(w) == w.stream = "sft_queue"
-----------------------------------------------------------------------------
(* Operators of the code. *)

\* The loop starts at st["generation"] + 1; load_state gives -1 when there is no file.
FirstGen == IF state = {} THEN {0} ELSE {s.gen + 1 : s \in state}

\* st["accepted"] of the state that was loaded.
Loaded == IF state = {} THEN Base ELSE CHOOSE p \in {s.path : s \in state} : TRUE

\* The directory a generation keeps its accepted checkpoints in (gp.ckpt).
OwnDirectory == gen

\* The next job; a run that raised is logged and left behind as well.
Advance == Tail(todo)

\* streams.read raises on a line that was cut short; the files of generations up to this.
Readable(s) == \A g \in 0 .. gen : File(g, s) \notin damaged

\* The rows of a stream up to this generation, and this generation's own.
RowsUpTo(s) == {w \in rows : w.stream = s /\ w.gen <= gen}
Held(s) == {w \in RowsUpTo(s) : w.gen = gen}

\* fit = [p not in held] or all: with nothing but held rows, it fits on those.
Fit(s) == IF RowsUpTo(s) = Held(s) THEN RowsUpTo(s) ELSE RowsUpTo(s) \ Held(s)

\* _ranker_pair_informative; fewer than two are not fitted, whatever the option says.
Informative == {w \in Fit("ranker_pairs") : w.decided}

\* What a candidate needs to be fitted and to be admitted to the comparison of its gate.
RankerReaches == /\ Cardinality(Informative) >= MinPairs /\ Cardinality(Informative) >= 2
                 /\ Cardinality(Held("ranker_pairs")) >= MinEval
ValueReaches  == /\ Cardinality(Fit("puct_examples")) >= MinExamples
                 /\ Cardinality(Held("puct_examples")) >= MinEval

\* aggregate_sft_targets: specifications with two passing runs, of enough seeds.
SftRows == RowsUpTo("sft_queue")
SeedsOf(spec) == {w.job.seed : w \in {v \in SftRows : v.job.spec = spec}}
EnoughSeeds(spec) == Cardinality(SeedsOf(spec)) >= MinSeeds
MultiSeed == {spec \in {w.job.spec : w \in SftRows} :
                /\ Cardinality({w \in SftRows : w.job.spec = spec}) >= 2
                /\ EnoughSeeds(spec)}
ProposerReaches == ~Frozen /\ Cardinality(MultiSeed) >= Threshold

\* What the shared memory is given of a run.
Remembered(w) == w.stream = "rag_memory"

\* The order in which the streams of a run are appended.
Position == [ranker_pairs |-> 1, puct_examples |-> 2, rag_memory |-> 3, sac_replay |-> 4,
             sft_queue |-> 5, proposer_dpo_pairs |-> 6]
FirstOf(h) == {w \in h : \A v \in h : Position[w.stream] <= Position[v.stream]}

\* The gate of part p, when its candidate reaches it, decides on measured accuracies or
\* losses; a candidate that passes is copied to its own directory and becomes accepted.
Gate(p, reaches) ==
  \/ UNCHANGED <<ckpt, accepted>>
  \/ /\ reaches
     /\ ckpt' = [ckpt EXCEPT ![p][OwnDirectory] = launch]
     /\ accepted' = [accepted EXCEPT ![p] = {OwnDirectory}]

\* sha of what an accepted path holds.
Hash(p) == IF accepted[p] = {} THEN 0 ELSE ckpt[p][CHOOSE g \in accepted[p] : TRUE]

Ends == /\ phase' = "down" /\ todo' = <<>> /\ harvest' = {}
        /\ accepted' = Base /\ resident' = {}
        /\ UNCHANGED <<gen, last>>
-----------------------------------------------------------------------------
(* Actions. *)

Launch ==
  /\ phase = "down" /\ launch < MaxLaunches /\ StateFile \notin damaged
  /\ launch' = launch + 1 /\ crashed' = FALSE
  /\ gen' \in FirstGen
  /\ \E n \in Lengths : last' = gen' + n - 1
  /\ last' <= MaxGen
  /\ accepted' = Loaded /\ resident' = accepted'["proposer"]
  /\ phase' = "generation"
  /\ UNCHANGED <<todo, harvest, files, yielded, published>>

\* The header of a generation counts the rows of the memory.
Generation ==
  /\ phase = "generation" /\ MemoryFile \notin damaged
  /\ todo' = Jobs /\ phase' = "loop"
  /\ UNCHANGED <<launch, gen, last, harvest, accepted, resident, files, history>>

\* run_pipeline and harvest_run; a run that raises, or that is protected, yields nothing.
Pipeline ==
  /\ phase = "loop" /\ todo # <<>>
  /\ \E y \in Yields :
       harvest' = {[gen |-> gen, job |-> Head(todo), stream |-> s, launch |-> launch,
                    decided |-> y.decided] : s \in y.streams}
  /\ yielded' = yielded \union harvest'
  /\ phase' = "append"
  /\ UNCHANGED <<launch, gen, last, todo, accepted, resident, files, crashed, published>>

\* A row that is appended to a line cut short is lost with it.
AppendRow ==
  /\ phase = "append"
  /\ \E w \in FirstOf(harvest) :
       /\ rows' = IF File(gen, w.stream) \in damaged THEN rows ELSE rows \union {w}
       /\ harvest' = harvest \ {w}
  /\ UNCHANGED <<launch, phase, gen, last, todo, accepted, resident, state, damaged, memory,
                 ckpt, history>>

\* append(RAG_MEMORY, ...), after all the streams of the run; then the next job.
Remember ==
  /\ phase = "append" /\ harvest = {}
  /\ memory' = IF MemoryFile \in damaged THEN memory
               ELSE memory \union {w \in yielded : /\ Remembered(w)
                                                   /\ w.gen = gen /\ w.launch = launch
                                                   /\ w.job = Head(todo)}
  /\ todo' = Advance
  /\ phase' = "loop"
  /\ UNCHANGED <<launch, gen, last, harvest, accepted, resident, state, damaged, rows, ckpt,
                 history>>

AllRun ==
  /\ phase = "loop" /\ todo = <<>>
  /\ phase' = "ranker"
  /\ UNCHANGED <<launch, gen, last, todo, harvest, accepted, resident, files, history>>

Ranker ==
  /\ phase = "ranker" /\ Readable("ranker_pairs")
  /\ Gate("ranker", RankerReaches)
  /\ phase' = "value"
  /\ UNCHANGED <<launch, gen, last, todo, harvest, resident, state, damaged, rows, memory,
                 history>>

Value ==
  /\ phase = "value" /\ Readable("puct_examples") /\ MemoryFile \notin damaged
  /\ Gate("value", ValueReaches)
  /\ phase' = "sft"
  /\ UNCHANGED <<launch, gen, last, todo, harvest, resident, state, damaged, rows, memory,
                 history>>

\* The model in memory is not replaced by the adapter that is accepted.
Proposer ==
  /\ phase = "sft"
  /\ Readable("sft_queue") /\ File(gen, "proposer_dpo_pairs") \notin damaged
  /\ Gate("proposer", ProposerReaches)
  /\ phase' = "publish"
  /\ UNCHANGED <<launch, gen, last, todo, harvest, resident, state, damaged, rows, memory,
                 history>>

Publish ==
  /\ phase = "publish"
  /\ state' = {[gen |-> gen, path |-> accepted, hash |-> [p \in Parts |-> Hash(p)]]}
  /\ published' = published \union {[gen |-> gen, launch |-> launch]}
  /\ phase' = "record"
  /\ UNCHANGED <<launch, gen, last, todo, harvest, accepted, resident, damaged, rows, memory,
                 ckpt, crashed, yielded>>

\* GENERATION.json, which nothing reads again; then the next generation.
NextGeneration ==
  /\ phase = "record" /\ gen < last
  /\ gen' = gen + 1 /\ phase' = "generation"
  /\ UNCHANGED <<launch, last, todo, harvest, accepted, resident, files, history>>

LastGeneration ==
  /\ phase = "record" /\ gen = last
  /\ Ends
  /\ UNCHANGED <<launch, files, history>>

\* A file that cannot be read ends the launch.
Raises ==
  /\ \/ phase = "generation" /\ MemoryFile \in damaged
     \/ phase = "ranker" /\ ~Readable("ranker_pairs")
     \/ phase = "value" /\ (~Readable("puct_examples") \/ MemoryFile \in damaged)
     \/ phase = "sft" /\ (~Readable("sft_queue")
                            \/ File(gen, "proposer_dpo_pairs") \in damaged)
  /\ Ends
  /\ UNCHANGED <<launch, files, history>>
-----------------------------------------------------------------------------
(* The process is killed: between two writes ... *)

Crash ==
  /\ phase # "down"
  /\ Ends /\ crashed' = TRUE
  /\ UNCHANGED <<launch, files, yielded, published>>

\* ... or in the middle of an append, to a stream or to the memory ...
CrashInAppend ==
  /\ phase = "append"
  /\ damaged' = damaged \union (IF harvest = {} THEN {MemoryFile}
                                ELSE {File(gen, w.stream) : w \in FirstOf(harvest)})
  /\ Ends /\ crashed' = TRUE
  /\ UNCHANGED <<launch, state, rows, memory, ckpt, yielded, published>>

\* ... or of the copy of an accepted checkpoint ...
CrashInCopy ==
  /\ \E p \in Parts :
       /\ \/ phase = "ranker" /\ p = "ranker" /\ RankerReaches
          \/ phase = "value" /\ p = "value" /\ ValueReaches
          \/ phase = "sft" /\ p = "proposer" /\ ProposerReaches
       /\ ckpt' = [ckpt EXCEPT ![p][OwnDirectory] = 0]
  /\ Ends /\ crashed' = TRUE
  /\ UNCHANGED <<launch, state, damaged, rows, memory, yielded, published>>

\* ... or of save_state, which overwrites the only copy.
CrashInPublish ==
  /\ phase = "publish"
  /\ state' = {} /\ damaged' = damaged \union {StateFile}
  /\ Ends /\ crashed' = TRUE
  /\ UNCHANGED <<launch, rows, memory, ckpt, yielded, published>>

\* No more launches are looked at, or none gets past load_state.
Finished ==
  /\ phase = "down"
  /\ \/ launch = MaxLaunches \/ StateFile \in damaged
     \/ \A g \in FirstGen, n \in Lengths : g + n - 1 > MaxGen
  /\ UNCHANGED vars

Step == \/ Generation \/ Pipeline \/ AppendRow \/ Remember \/ AllRun \/ Ranker \/ Value
        \/ Proposer \/ Publish \/ NextGeneration \/ LastGeneration \/ Raises

Next == \/ Launch \/ Step \/ Crash \/ CrashInAppend \/ CrashInCopy \/ CrashInPublish
        \/ Finished

Spec == Init /\ [][Next]_vars

\* A process that is not killed goes on; nobody has to launch it again.
FairSpec == Spec /\ WF_vars(Step)
-----------------------------------------------------------------------------
(* Properties. *)

\* Types; a path is that of a generation this launch has reached.
TypeOK ==
  /\ launch \in 0 .. MaxLaunches
  /\ phase \in Phases
  /\ gen \in Gens /\ last \in Gens
  /\ todo \in Seq(JobSet)
  /\ harvest \subseteq Rows
  /\ accepted \in Paths /\ resident \subseteq Gens
  /\ state \subseteq States /\ \A s, t \in state : s = t
  /\ damaged \subseteq Files
  /\ rows \subseteq Rows /\ memory \subseteq Rows
  /\ ckpt \in [Parts -> [Gens -> 0 .. MaxLaunches]]
  /\ crashed \in BOOLEAN
  /\ yielded \subseteq Rows
  /\ published \subseteq [gen : Gens, launch : 1 .. MaxLaunches]

\* Whatever a later launch overwrites or leaves in pieces, the files STATE.json names
\* are those whose hashes it holds (save_state, gp.ckpt / "ranker.pt" and the like).
AcceptedIntact ==
  \A s \in state : \A p \in Parts : \A g \in s.path[p] :
    /\ g <= s.gen
    /\ ckpt[p][g] = s.hash[p] /\ s.hash[p] # 0

\* Every run of a generation is made with the ranker and the value net that the
\* generation before accepted, as STATE.json has them, also after a crash between the
\* gates and the publication (the lineage is explicit, run_self_improvement_v2.py:18).
RunsUseAccepted ==
  phase \in {"generation", "loop", "append"} =>
    /\ state = {} => gen = 0 /\ accepted = Base
    /\ \A s \in state : gen = s.gen + 1 /\ accepted = s.path

\* Of a published generation, every row its last launch measured is in its stream, if no
\* crash cut that stream short, and every outcome is in the memory the runs to come read.
PublishedIsLearned ==
  \A w \in yielded : [gen |-> w.gen, launch |-> w.launch] \in published =>
    /\ w \in rows \/ File(w.gen, w.stream) \in damaged
    /\ w.stream = "rag_memory" => w \in memory

\* An accepted proposer was earned: enough specifications were passed under enough
\* different seeds, which no number of repeated launches can make up for
\* (aggregate_sft_targets and --sft-min-seeds).
ProposerEarned ==
  \A s \in state : \A g \in s.path["proposer"] :
    Cardinality({spec \in {w.job.spec : w \in rows} :
       Cardinality({w.job.seed : w \in {v \in rows : /\ v.stream = "sft_queue" /\ v.gen <= g
                                                     /\ v.job.spec = spec}}) >= MinSeeds})
      >= Threshold

\* STATE.json moves on by one generation, and each part either stays what it was or
\* becomes that generation's, however many launches it took.
OneGenerationAtATime ==
  [][\A n \in state' \ state :
       /\ state = {} => n.gen = 0
       /\ \A s \in state : n.gen = s.gen + 1
       /\ \A p \in Parts : n.path[p] \in {{n.gen}, Loaded[p]}]_vars

\* A launch that is not killed publishes the last generation it was asked for, unless
\* an earlier crash left a file that cannot be read.
LaunchPublishes ==
  (phase # "down") ~>
    (phase = "down" /\ (crashed \/ damaged # {} \/ \E s \in state : s.gen = last))

\* What the module's comment says of publishing: generation N + 1 loads exactly what
\* generation N accepted, the proposer included.
ProposerIsLoaded == phase = "loop" => resident = accepted["proposer"]
=============================================================================
