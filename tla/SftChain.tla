------------------------------ MODULE SftChain ------------------------------
(***************************************************************************)
(* The chain of fine-tuned proposers G0, G1, ... that                      *)
(* train_sft_self_improvement.py extends, with                             *)
(* selfimprove_v2/sft_self_improvement.py.  A run takes a parent, mixes    *)
(* the parent's corpus with the verified rows of the self-improvement      *)
(* queue, trains an adapter in the directory of the output generation,     *)
(* judges it against the parent, and writes the generation's manifest and, *)
(* when the candidate passed, the name of the active generation.           *)
(*                                                                         *)
(* No file is written atomically, and nothing but --force protects what a  *)
(* directory already holds; a run for the static lineage stops before it   *)
(* reads or writes anything and is left out.                               *)
(*                                                                         *)
(* An example is a number: its place in the order of (family,              *)
(* specification, topology) that balance_by_family sorts by.  An adapter   *)
(* is the run that trained it, 0 for the one that was there before.        *)
(***************************************************************************)
EXTENDS Naturals, FiniteSets

CONSTANTS
  Examples,      \* how many examples there are: 1 .. Examples
  Family,        \* the family of each
  Target,        \* the specification of each
  Known,         \* specifications that have a prompt in the base corpus
  QueueRows,     \* rows the queue may come to hold: [gen, example, eligible]
  FamilyCap,     \* --per-family-cap
  SpecCap,       \* --per-spec-cap
  Jobs,          \* what a run may be asked: [parent, output, force, dry, harvest]
  MaxGen,        \* bound on the number of a generation
  MaxRuns        \* bound on the number of runs

Numbers  == 1 .. Examples
Gens     == 0 .. MaxGen
Versions == 0 .. MaxRuns
Corpora  == [copies : [Numbers -> Nat], depth : Nat]
Manifests == [parent : Gens, rejected : BOOLEAN, hash : Versions, corpus : Corpora]

ASSUME SftChainAssumption ==
  /\ {Examples, FamilyCap, SpecCap, MaxGen, MaxRuns} \subseteq Nat
  /\ DOMAIN Family = Numbers /\ DOMAIN Target = Numbers
  /\ QueueRows \subseteq [gen : Nat, example : Numbers, eligible : BOOLEAN]
  /\ Jobs \subseteq [parent : Gens, output : Gens, force : BOOLEAN, dry : BOOLEAN,
                     harvest : SUBSET Nat]

VARIABLES
  runs,          \* how many runs were started
  phase,         \* where the process is, "down" when there is none
  job,           \* what it was asked
  queue,         \* rows of sft_queue.jsonl
  manifest,      \* each generation's manifest.json: {} or the record it holds
  corpus,        \* each generation's corpus.json: {}, or what it holds
  adapter,       \* each generation's adapter directory
  active,        \* ACTIVE_ADAPTIVE.txt: {} or the generation it names
  torn,          \* generations whose manifest.json was cut short
  forced         \* history: generations a run was forced on

process == <<phase, job>>
files   == <<manifest, corpus, adapter, active, torn>>
vars    == <<runs, process, queue, files, forced>>

Phases == {"down", "g0", "check", "dataset", "train", "validate", "promote", "activate"}
BaseCorpus == [copies |-> [x \in Numbers |-> 0], depth |-> 0]

Init ==
  /\ runs = 0
  /\ phase = "down" /\ job \in Jobs
  /\ queue = {}
  /\ manifest = [g \in Gens |-> {}]
  /\ corpus = [g \in Gens |-> IF g = 0 THEN {BaseCorpus} ELSE {}]
  /\ adapter = [g \in Gens |-> 0]
  /\ active = {} /\ torn = {} /\ forced = {}
-----------------------------------------------------------------------------
(* Faults: what a mistake in the code would make of an operator below. *)

FaultRefusesRejected(g) == \E m \in manifest[g] : m.rejected
FaultAllowsG0 == TRUE
FaultCapTooHigh(x, kept) ==
  Cardinality({y \in kept : Family[y] = Family[x]}) <= FamilyCap
FaultNamesParent == job.parent
FaultNamesNext == job.output + 1
-----------------------------------------------------------------------------
(* Operators of the code. *)

\* sft_eligible, and one row of each specification and topology (deduplicate).
Eligible(h) == {r.example : r \in {q \in queue : q.gen \in h /\ q.eligible}}

FamilyHasRoom(x, kept) ==
  Cardinality({y \in kept : Family[y] = Family[x]}) < FamilyCap
SpecHasRoom(x, kept) ==
  Cardinality({y \in kept : Target[y] = Target[x]}) < SpecCap

\* balance_by_family: an example is kept when, of those kept before it, its family and its
\* specification have fewer than their caps.
KeptInOrder(K, E) ==
  \A x \in E : LET before == {y \in K : y < x}
              IN x \in K <=> FamilyHasRoom(x, before) /\ SpecHasRoom(x, before)
Balanced(E) == CHOOSE K \in SUBSET E : KeptInOrder(K, E)

\* What this run adds to its parent's corpus; without a prompt there is no example.
New == {x \in Balanced(Eligible(job.harvest)) : Target[x] \in Known}

\* build_dataset: all of the parent's records once more, and the new ones.
Mixed(c) == [copies |-> [x \in Numbers |-> c.copies[x] + (IF x \in New THEN 1 ELSE 0)],
             depth |-> c.depth + 1]

\* A generation that was promoted is not trained again, unless by force.
Protected(g) == \E m \in manifest[g] : ~m.rejected

\* refusing to train into G0
Trainable == job.output # 0

\* The generation whose name is written to ACTIVE_ADAPTIVE.txt.
Activated == job.output

Ends == phase' = "down" /\ UNCHANGED job
-----------------------------------------------------------------------------
(* Actions. *)

\* The self-improvement loop adds rows between the runs.
Harvest ==
  /\ phase = "down"
  /\ \E r \in QueueRows \ queue : queue' = queue \union {r}
  /\ UNCHANGED <<runs, process, files, forced>>

Start ==
  /\ phase = "down" /\ runs < MaxRuns
  /\ runs' = runs + 1
  /\ job' \in Jobs
  /\ phase' = "g0"
  /\ UNCHANGED <<queue, files, forced>>

\* ensure_g0_manifest
EnsureG0 ==
  /\ phase = "g0" /\ 0 \notin torn
  /\ manifest' = IF manifest[0] # {} THEN manifest
                 ELSE [manifest EXCEPT ![0] = {[parent |-> 0, rejected |-> FALSE,
                                                hash |-> 0, corpus |-> BaseCorpus]}]
  /\ phase' = "check"
  /\ UNCHANGED <<runs, job, queue, corpus, adapter, active, torn, forced>>

\* Everything main looks at before it builds the dataset: the manifests it can read, the
\* parent's, the output's, directories of the queue, the parent's corpus.
Accepted ==
  /\ {job.parent, job.output} \cap torn = {}
  /\ manifest[job.parent] # {}
  /\ Trainable
  /\ ~Protected(job.output) \/ job.force
  /\ queue # {}
  /\ corpus[job.parent] # {}

Check ==
  /\ phase = "check" /\ Accepted
  /\ phase' = "dataset"
  /\ forced' = IF Protected(job.output) THEN forced \union {job.output} ELSE forced
  /\ UNCHANGED <<runs, job, queue, files>>

Refuse ==
  /\ \/ phase = "g0" /\ 0 \in torn
     \/ phase = "check" /\ ~Accepted
  /\ Ends
  /\ UNCHANGED <<runs, queue, files, forced>>

\* The dataset is written before anything else is decided, over the one that was there.
WriteDataset ==
  /\ phase = "dataset"
  /\ corpus' = [corpus EXCEPT ![job.output] = {Mixed(c) : c \in corpus[job.parent]}]
  /\ phase' = IF New = {} \/ job.dry THEN "down" ELSE "train"
  /\ UNCHANGED <<runs, job, queue, manifest, adapter, active, torn, forced>>

\* run_sft: a fresh adapter, saved in place.
Train ==
  /\ phase = "train"
  /\ adapter' = [adapter EXCEPT ![job.output] = runs]
  /\ phase' = "validate"
  /\ UNCHANGED <<runs, job, queue, manifest, corpus, active, torn, forced>>

\* capability_gate and proposer_gates, on measurements that may come out either way.
Validate ==
  /\ phase = "validate"
  /\ \/ phase' = "promote" /\ UNCHANGED manifest
     \/ /\ phase' = "down"
        /\ manifest' = [manifest EXCEPT ![job.output] =
             {[parent |-> job.parent, rejected |-> TRUE, hash |-> 0, corpus |-> c] :
                c \in corpus[job.output]}]
  /\ UNCHANGED <<runs, job, queue, corpus, adapter, active, torn, forced>>

Promote ==
  /\ phase = "promote"
  /\ manifest' = [manifest EXCEPT ![job.output] =
       {[parent |-> job.parent, rejected |-> FALSE, hash |-> adapter[job.output],
         corpus |-> c] : c \in corpus[job.output]}]
  /\ phase' = "activate"
  /\ UNCHANGED <<runs, job, queue, corpus, adapter, active, torn, forced>>

Activate ==
  /\ phase = "activate"
  /\ active' = {Activated}
  /\ Ends
  /\ UNCHANGED <<runs, queue, manifest, corpus, adapter, torn, forced>>

\* The process is killed between two writes, ...
Crash ==
  /\ phase # "down"
  /\ Ends
  /\ UNCHANGED <<runs, queue, files, forced>>

\* ... or in the middle of the one it was at, which cuts the file short: a manifest or a
\* corpus that cannot be read, an active name that is empty.
CrashInWrite ==
  /\ \/ /\ phase = "g0" /\ manifest[0] = {}
        /\ torn' = torn \union {0}
        /\ UNCHANGED <<manifest, corpus, active>>
     \/ /\ phase = "dataset"
        /\ corpus' = [corpus EXCEPT ![job.output] = {}]
        /\ UNCHANGED <<manifest, active, torn>>
     \/ /\ phase \in {"validate", "promote"}
        /\ manifest' = [manifest EXCEPT ![job.output] = {}]
        /\ torn' = torn \union {job.output}
        /\ UNCHANGED <<corpus, active>>
     \/ /\ phase = "activate"
        /\ active' = {}
        /\ UNCHANGED <<manifest, corpus, torn>>
  /\ Ends
  /\ UNCHANGED <<runs, queue, adapter, forced>>

Finished ==
  /\ phase = "down" /\ runs = MaxRuns /\ queue = QueueRows
  /\ UNCHANGED vars

Next == \/ Harvest \/ Start \/ EnsureG0 \/ Check \/ Refuse \/ WriteDataset \/ Train
        \/ Validate \/ Promote \/ Activate \/ Crash \/ CrashInWrite \/ Finished

Spec == Init /\ [][Next]_vars
-----------------------------------------------------------------------------
(* Properties. *)

TypeOK ==
  /\ runs \in Versions /\ phase \in Phases /\ job \in Jobs
  /\ queue \subseteq QueueRows
  /\ manifest \in [Gens -> SUBSET Manifests]
  /\ \A g \in Gens : \A m, n \in manifest[g] : m = n
  /\ corpus \in [Gens -> SUBSET Corpora]
  /\ \A g \in Gens : \A c, d \in corpus[g] : c = d
  /\ adapter \in [Gens -> Versions]
  /\ active \subseteq Gens /\ \A g, h \in active : g = h
  /\ torn \subseteq Gens /\ forced \subseteq Gens

\* A promoted generation nobody forced a run on is what its manifest says, adapter and
\* corpus, whatever runs and crashes come after (train_sft_self_improvement.py:150-154).
PromotedIntact ==
  \A g \in Gens \ forced : \A m \in manifest[g] :
    ~m.rejected => adapter[g] = m.hash /\ corpus[g] = {m.corpus}

\* What the active file names, when it names any, was promoted and still is, unless forced on.
NamedIsPromoted ==
  \A g \in active \ forced : \E m \in manifest[g] : ~m.rejected

\* The active name changes only in the last write of a run that promoted its output: to that
\* output or, when the process is killed inside the write (train_sft_self_improvement.py:355),
\* to nothing.  No other step, of a rejected, refused or interrupted run or of a retry, takes
\* away the name, or the promotion of the generation it names.
ActiveIsEarned ==
  [][/\ active' # active => phase = "activate" /\ active' \subseteq {job.output}
     /\ NamedIsPromoted']_vars

\* G0 is immutable: once described, neither its manifest nor its adapter nor the base
\* corpus changes, and every lineage can fall back to it (write_generation_manifest).
G0Immutable ==
  [][manifest[0] # {} => /\ manifest'[0] = manifest[0]
                         /\ adapter'[0] = adapter[0] /\ corpus'[0] = corpus[0]]_vars

\* However often the same rows are harvested again, a family has at most its cap of
\* verified examples for each generation between a corpus and the base (balance_by_family).
FamilyShare ==
  \A g \in Gens : \A c \in corpus[g] : \A x \in Numbers :
    /\ c.copies[x] <= c.depth
    /\ Cardinality({p \in Numbers \X (1 .. c.depth) :
                      Family[p[1]] = Family[x] /\ p[2] <= c.copies[p[1]]}) <= FamilyCap * c.depth

\* What the module says of a rejection: the previous generation stays active, so that
\* the active one is never a rejected one.
ActiveIsPromoted ==
  \A g \in active : \A m \in manifest[g] : ~m.rejected

\* Once a generation is active, one is: the write over the name (355) would have to be atomic.
ActiveNameSurvives == [][active # {} => active' # {}]_vars
=============================================================================
