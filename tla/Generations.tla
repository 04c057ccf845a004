---------------------------- MODULE Generations ----------------------------
(***************************************************************************)
(* The self-improvement generations of one lineage (run_a9_generations.py  *)
(* and publication/generation_state.py): a launch resumes or starts a      *)
(* generation, runs the pipeline once per job, harvests each run into the  *)
(* stream files, checkpoints the ledger, updates the retrieval memory and  *)
(* publishes the generation.  The process may die between any two writes,  *)
(* and in the middle of one that is not atomic.                            *)
(*                                                                         *)
(* A file is the set of what it holds: the in-progress and the active file *)
(* hold one state or none.  A run is a generation and a specification; its *)
(* rows in one stream are one row, told apart by the launch that measured  *)
(* them, as their call ids are by their time stamps.                       *)
(***************************************************************************)
EXTENDS Naturals, Sequences, FiniteSets

CONSTANTS
  Specs,        \* the specifications a job may name
  JobLists,     \* the job lists a launch may be given
  Yield,        \* the streams the run of a specification has rows for
  Measured,     \* specifications whose outcome carries its phase margin and gain
  MaxLaunches   \* bound on the number of launches

\* harvest_run's streams and the agents' episodes, in the order they are appended.
Position == [ranker_pairs |-> 1, puct_examples |-> 2, rag_memory |-> 3, sac_replay |-> 4,
             sft_queue |-> 5, proposer_dpo_pairs |-> 6, agent_episodes |-> 7]
Streams == DOMAIN Position

ASSUME GenerationsAssumption ==
  /\ JobLists \subseteq Seq(Specs)
  /\ Yield \in [Specs -> SUBSET Streams]
  /\ Measured \subseteq Specs
  /\ MaxLaunches \in Nat

VARIABLES
  lineage,      \* "adaptive" or "static"
  launch,       \* how many times run_generation was started
  phase,        \* where the process is, "down" when there is none
  jobs,         \* jobs of this launch still to do
  st,           \* the process's GenerationState
  harvest,      \* streams of the current run still to append
  inprogress,   \* STATE_<lineage>_inprogress.json
  active,       \* STATE_<lineage>.json
  rows,         \* the whole rows of all stream files
  torn,         \* stream files holding the beginning of a line
  copy,         \* what the lineage's memory holds of the frozen memory
  memory,       \* the rows that were added to it
  published     \* history: the runs of all published ledgers

process == <<phase, jobs, st, harvest>>
files   == <<inprogress, active, rows, torn, copy, memory>>
vars    == <<lineage, launch, process, files, published>>

Phases == {"down", "copy", "loop", "pipeline", "append", "conclude", "publish", "unlink"}
Runs   == [gen : Nat, spec : Specs]
States == [gen : Nat, ledger : SUBSET Runs, calls : Nat]
Rows   == [run : Runs, stream : Streams, launch : Nat]
Parts  == [gen : Nat, stream : Streams]

New(g) == [gen |-> g, ledger |-> {}, calls |-> 0]
Run(j) == [gen |-> st.gen, spec |-> j]
Part(g, s) == [gen |-> g, stream |-> s]

Init ==
  /\ lineage \in {"adaptive", "static"}
  /\ launch = 0
  /\ phase = "down" /\ jobs = <<>> /\ st = New(0) /\ harvest = {}
  /\ inprogress = {} /\ active = {}
  /\ rows = {} /\ torn = {} /\ copy = "absent" /\ memory = {}
  /\ published = {}
-----------------------------------------------------------------------------
(* Faults: what a mistake in the code would make of an operator below. *)

FaultForgetsCheckpoint == IF active # {} THEN {New(a.gen + 1) : a \in active} ELSE {New(0)}
FaultReusesNumber == IF inprogress # {} THEN inprogress
                     ELSE IF active # {} THEN {New(a.gen) : a \in active} ELSE {New(0)}
FaultSkipsNumber == IF inprogress # {} THEN inprogress
                    ELSE IF active # {} THEN {New(a.gen + 2) : a \in active} ELSE {New(0)}
FaultNeverProcessed(r) == FALSE
FaultUncountedCalls(s) == s
FaultHarvestUnchecked == TRUE
FaultThisLaunchOnly == {w \in rows : /\ w.stream = "rag_memory" /\ w.run.gen = st.gen
                                     /\ w.run.spec \in Measured /\ w.launch = launch}
-----------------------------------------------------------------------------
(* Operators of the code. *)

\* resume_or_start: the generation in progress, else the successor of the active one.
ResumeOrStart == IF inprogress # {} THEN inprogress
                 ELSE IF active # {} THEN {New(a.gen + 1) : a \in active} ELSE {New(0)}

\* mark_run_processed finds the run in the ledger.
Processed(r) == r \in st.ledger

AddCalls(s) == [s EXCEPT !.calls = @ + 1]

\* The loop over the streams of a run is over.
Harvested == harvest = {}

\* The streams that one run fills: a static lineage harvests nothing.
Harvest(j) == IF lineage = "adaptive" THEN Yield[j] ELSE {}

\* A line that was cut short makes json.loads raise, in whichever generation it is.
Readable(S) == \A p \in torn : p.stream \notin S

\* rag_stream_update admits the measured rows of this generation (a row that the
\* memory has already, by its call id, changes nothing).
Admitted == {w \in rows : /\ w.stream = "rag_memory" /\ w.run.gen = st.gen
                          /\ w.run.spec \in Measured}

\* The process ends and its memory is lost.
Ends == phase' = "down" /\ jobs' = <<>> /\ st' = New(0) /\ harvest' = {}
-----------------------------------------------------------------------------
(* Actions. *)

Launch ==
  /\ phase = "down" /\ launch < MaxLaunches
  /\ launch' = launch + 1
  /\ jobs' \in JobLists
  /\ st' \in ResumeOrStart
  /\ phase' = IF lineage = "adaptive" /\ copy = "absent" THEN "copy" ELSE "loop"
  /\ UNCHANGED <<lineage, harvest, files, published>>

\* lineage_rag_memory writes the frozen memory's text under the lineage's own name.
CopyMemory ==
  /\ phase = "copy"
  /\ copy' = "whole" /\ phase' = "loop"
  /\ UNCHANGED <<lineage, launch, jobs, st, harvest, inprogress, active, rows, torn, memory, published>>

SkipProcessed ==
  /\ phase = "loop" /\ jobs # <<>> /\ Processed(Run(Head(jobs)))
  /\ jobs' = Tail(jobs)
  /\ UNCHANGED <<lineage, launch, phase, st, harvest, files, published>>

MarkProcessed ==
  /\ phase = "loop" /\ jobs # <<>> /\ ~Processed(Run(Head(jobs)))
  /\ st' = [st EXCEPT !.ledger = @ \union {Run(Head(jobs))}]
  /\ phase' = "pipeline"
  /\ UNCHANGED <<lineage, launch, jobs, harvest, files, published>>

\* run_pipeline retrieves from the memory first, which raises on a torn one.
Pipeline ==
  /\ phase = "pipeline" /\ copy # "torn"
  /\ harvest' = Harvest(Head(jobs))
  /\ phase' = "append"
  /\ UNCHANGED <<lineage, launch, jobs, st, files, published>>

\* A row appended to a torn file continues the torn line and is lost with it.
AppendRows ==
  /\ phase = "append"
  /\ \E s \in harvest :
       /\ \A t \in harvest : Position[s] <= Position[t]
       /\ rows' = IF Part(st.gen, s) \in torn THEN rows
                  ELSE rows \union {[run |-> Run(Head(jobs)), stream |-> s, launch |-> launch]}
       /\ harvest' = harvest \ {s}
  /\ UNCHANGED <<lineage, launch, phase, jobs, st, inprogress, active, torn, copy, memory, published>>

Checkpoint ==
  /\ phase = "append" /\ Harvested
  /\ st' = AddCalls(st)
  /\ inprogress' = {st'}
  /\ jobs' = Tail(jobs)
  /\ harvest' = {} /\ phase' = "loop"
  /\ UNCHANGED <<lineage, launch, active, rows, torn, copy, memory, published>>

\* The stream updates up to the retrieval memory's, which replaces its file atomically.
Learn ==
  /\ phase = "loop" /\ jobs = <<>> /\ lineage = "adaptive"
  /\ copy # "torn"
  /\ Readable({"puct_examples", "ranker_pairs"}) /\ Part(st.gen, "rag_memory") \notin torn
  /\ memory' = memory \union Admitted
  /\ phase' = "conclude"
  /\ UNCHANGED <<lineage, launch, jobs, st, harvest, inprogress, active, rows, torn, copy, published>>

\* The stream updates after it.
Conclude ==
  /\ phase = "conclude"
  /\ Readable({"sft_queue", "agent_episodes"})
  /\ phase' = "publish"
  /\ UNCHANGED <<lineage, launch, jobs, st, harvest, files, published>>

LearnNothing ==
  /\ phase = "loop" /\ jobs = <<>> /\ lineage = "static"
  /\ phase' = "publish"
  /\ UNCHANGED <<lineage, launch, jobs, st, harvest, files, published>>

\* publish_atomic: first the active file is replaced ...
Publish ==
  /\ phase = "publish"
  /\ active' = {st}
  /\ published' = published \union st.ledger
  /\ phase' = "unlink"
  /\ UNCHANGED <<lineage, launch, jobs, st, harvest, inprogress, rows, torn, copy, memory>>

\* ... then the in-progress file is removed, and the launch is over.
Unlink ==
  /\ phase = "unlink"
  /\ inprogress' = {}
  /\ Ends
  /\ UNCHANGED <<lineage, launch, active, rows, torn, copy, memory, published>>

\* The process is killed or leaves with an exception: an unreadable file, a pipeline
\* that fails, a manifest publish_atomic refuses.
Crash ==
  /\ phase # "down"
  /\ Ends
  /\ UNCHANGED <<lineage, launch, files, published>>

\* It is killed while it copies the frozen memory: a part of the lines, or of one, is there.
CrashInCopy ==
  /\ phase = "copy"
  /\ copy' \in {"short", "torn"}
  /\ Ends
  /\ UNCHANGED <<lineage, launch, inprogress, active, rows, torn, memory, published>>

\* It is killed while it appends to a stream and leaves a part of a line.
CrashInAppend ==
  /\ phase = "append"
  /\ \E s \in harvest :
       /\ \A t \in harvest : Position[s] <= Position[t]
       /\ torn' = torn \union {Part(st.gen, s)}
  /\ Ends
  /\ UNCHANGED <<lineage, launch, inprogress, active, rows, copy, memory, published>>

\* No more launches are looked at.
Finished == phase = "down" /\ launch = MaxLaunches /\ UNCHANGED vars

Next == \/ Launch \/ CopyMemory \/ SkipProcessed \/ MarkProcessed \/ Pipeline \/ AppendRows
        \/ Checkpoint \/ Learn \/ Conclude \/ LearnNothing \/ Publish \/ Unlink
        \/ Crash \/ CrashInCopy \/ CrashInAppend \/ Finished

Spec == Init /\ [][Next]_vars
-----------------------------------------------------------------------------
(* Properties. *)

\* Types; a file holds one state at most, and no generation has a number that the
\* launches so far could not have reached.
TypeOK ==
  /\ lineage \in {"adaptive", "static"}
  /\ launch \in 0 .. MaxLaunches
  /\ phase \in Phases
  /\ jobs \in Seq(Specs)
  /\ st \in States
  /\ harvest \subseteq Streams
  /\ inprogress \subseteq States /\ active \subseteq States
  /\ \A f \in {inprogress, active} : \A s, t \in f : s = t
  /\ \A s \in inprogress \union active : s.gen < launch
  /\ rows \subseteq Rows
  /\ torn \subseteq Parts
  /\ copy \in {"absent", "short", "torn", "whole"}
  /\ memory \subseteq rows
  /\ published \subseteq Runs

\* The runs whose harvest the files on disk vouch for.
Counted == published \union UNION {s.ledger : s \in inprogress}
RowsOf(r) == {w \in rows : w.run = r}

\* Every run in a checkpointed or published ledger of the adaptive lineage has a row in
\* each stream it yields, unless a crash tore that stream: skipping it on resume
\* (mark_run_processed) loses nothing else.
LedgerIsHarvested ==
  lineage = "adaptive" =>
    \A r \in Counted : \A s \in Yield[r.spec] :
      Part(r.gen, s) \in torn \/ \E w \in RowsOf(r) : w.stream = s

\* true_spice_calls on disk counts every run of its ledger once, through crashes and
\* resumes (run_generation adds them before the checkpoint).
CallsCountedOnce ==
  \A s \in inprogress \union active : s.calls = Cardinality(s.ledger)

\* Whatever the moment of a crash, at most one run of the launch has rows that no
\* ledger on disk accounts for (checkpoint_progress follows every run).
CrashCostsOneRun ==
  \A v, w \in {x \in rows : x.run \notin Counted} : v.launch = w.launch => v.run = w.run

\* All measured rows of the runs of every published generation are in the retrieval
\* memory the next generation reads (rag_stream_update before publish_atomic).
PublishedIsLearned ==
  lineage = "adaptive" =>
    {w \in rows : /\ w.stream = "rag_memory" /\ w.run.spec \in Measured
                  /\ w.run \in published} \subseteq memory

\* A run in a ledger on disk is never harvested again, whatever crashes and whichever
\* jobs the next launches are given (the idempotency ledger, generation_state.py).
CountedIsFinal == [][\A r \in Counted : RowsOf(r)' = RowsOf(r)]_vars

\* Generations are published in order, none is skipped, and one that is published
\* again, after a crash before the unlink, keeps all of its runs.
PublicationOrder ==
  [][active' # active =>
       \A n \in active' : \/ active = {} /\ n.gen = 0
                          \/ \E a \in active : \/ n.gen = a.gen + 1
                                               \/ n.gen = a.gen /\ a.ledger \subseteq n.ledger]_vars

\* What the comment of processed_run_ids says: a partial re-run cannot count a stream
\* row twice.
NoRowTwice == \A v, w \in rows : v.run = w.run /\ v.stream = w.stream => v = w
=============================================================================
