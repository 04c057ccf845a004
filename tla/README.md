# Agentic-Raptor: formal models, checks and proofs

TLA+ models of the control logic of Agentic-Raptor, a system that designs analog
circuits with cooperating agents under hard budgets of simulator calls, and
improves its own models from what it measured. The models are written from the
code under `src/Agentic_Raptor`; TLC checks them on small instances and TLAPS
proves their main invariants for every value of the constants. `PROJECT.json`
lists, for every definition, the lines it stands for.

Paths below are relative to `src/Agentic_Raptor`; `ar/` is `agentic_raptor/`.

## Inventory

The repository holds two generations of the system that share the circuit and
simulator layers, and three loops that train it.

| component | state | operations | correct when | module |
|---|---|---|---|---|
| Episode loop, `ar/coordinator/coordinator.py` | candidate, edit environment, sizing space, simulation and PVT results, pending DPO selection, best evaluation | `run_episode`: one handler per decision, then reward tracking; wrap-up | the report, its success flag and the memory entry describe a design that was simulated; a feasible design is not lost; nothing raises | `Coordinator` |
| Decision policy, state machine, budgets, `ar/coordinator/*`, `ar/core/budgets.py` | stage, five counters and a clock, best reward, stagnation and failure counts | `decide`, `transition`, `consume`, `record_reward`, `record_failure` | a decision's handler is legal in the stage it is taken in and payable | `Coordinator` |
| Sizing round, `coordinator.py:703`; edit environment, `ar/topology_rl/environment.py` | sizing vector, replay buffers; graph, validity, edits | anchor, steps, real or predicted evaluation; `reset`, `step` | real evaluations stay in the SPICE budget; not stepped once closed | `Coordinator` |
| Planner, critic, agent coordinator, `ar/agents/planner.py`, `critic.py`, `coordinator.py` | plan, feedback, pool, LLM attempts | `plan`, proposal rounds, evidence screen | attempts stay in the LLM budget; what was asked for survives the screen | `Proposals` |
| Topology search, `ar/topology_rl/alphazero.py`, `stage3e1.py`, `bandit_selector.py` | registry of circuits, trees of visited edits | simulate, expand, back up; read two outputs | two different circuits, each reached by the search, go to the sizing | `TreeSearch`, `Proposals` |
| Supervisor, Recovery, ledger, `ar/agents/supervisor.py`, `recovery.py`, `state.py` | probes, verdicts, allocation, calls spent and banked | probe, allocate, final phase, recovery | cap never passed, bank never overdrawn, recovery at most once | `AgenticRun` |
| Pipeline, `run_raptor_v2.py`; selection, `ar/ranking/post_sac.py` | proposals, designs, verified outcomes, selection, trace | stages 1 to 11 | the delivered design is the measured one; every call is reported | `Proposals`, `TreeSearch`, `AgenticRun` |
| Generations, `ar/publication/generation_state.py`, `run_a9_generations.py` | in-progress and active state files, ledger of runs, stream files | resume, mark, harvest, checkpoint, publish | a crash neither loses nor repeats a counted run | `Generations` |
| Adaptive loop, `run_self_improvement_v2.py`, `ar/selfimprove_v2/gates.py`, `corpus.py` | STATE.json, checkpoints, streams, shared memory | generation, three gates, publish | a run uses what the last generation accepted; nothing is promoted without its gate | `SelfImprovement` |
| Chain of fine-tuned proposers, `train_sft_self_improvement.py`, `ar/selfimprove_v2/sft_self_improvement.py` | data sets, adapters, manifests, active name | build, train, validate, promote | a promoted generation is not written over; the active name is a promoted one's | `SftChain` |
| Campaign, `run_self_improvement.py`, `ar/llm_dpo/integrity.py` | log, models, preference pairs | SFT, exam, design, DPO, exam, accept | the accepted generations are a lineage that does not decay | `Campaign`, `Lineage` |
| Cache and memory, `ar/spice/cache.py`, `ar/rag/memory.py` | JSONL files | get or run, put; add, persist | a restart reads what was written | not modelled |
| Learning, networks, SAC, front end, electrical formulas, publication tooling, drivers, external baselines | weights, buffers, tables | numerical or straight-line | outside a model checker's reach | not modelled |

The episode loop calls the policy, which reads counters; each handler calls one
of generator, environment, sizing round, simulator or PVT, and their results are
shared through local variables and one mutable candidate object. In the pipeline
the planner sets how many proposals are sought, the critic asks for more rounds,
a selector or a search turns the pool into two circuits, the Supervisor calls
back into the pipeline to size each, and Recovery and robust delivery change the
selected design and its outcome in place; proposals and sizing share one ledger.
The A9 generations and the adaptive loop run the pipeline once per job and
harvest its measurements into streams; the chain and the campaign train the
proposer from such rows. Nothing here runs in parallel. What makes it hard is the order of
steps over long sequences, results that outlive the design they describe, names
that are reused, budgets spent in one place and checked in another, partial
failures, a clock that may run out anywhere, and processes killed between two
writes or inside one. `PROJECT.json` lists each hazard at its line.

## Modules

| module | what it is | theorems |
|---|---|---|
| `Coordinator`, over `EpisodeContract` | one episode of `run_episode`, and what it promises its caller | `CoordinatorProofs` |
| `Proposals` | from a specification to two structures and back to the rows a run teaches | `ProposalsProofs` |
| `TreeSearch` | the search over edits that may choose the two circuits instead | `TreeSearchProofs` |
| `AgenticRun` | sizing, selection, verification, recovery, delivery and accounting of one `run_pipeline` | `AgenticRunProofs` |
| `Generations` | the launches of one lineage of `run_generation` and its files, with crashes | `GenerationsProofs` |
| `SelfImprovement` | the launches of the adaptive loop and its files, with crashes | `SelfImprovementProofs` |
| `SftChain` | the runs of the fine-tuning entry point and its files, with crashes | `SftChainProofs` |
| `Campaign`, over `Lineage` | the processes of one campaign and its log, with kills and resumes, and the lineage it shows | `CampaignProofs` |

Each has an `MC` module with the constants for TLC. Operators whose name begins
with `Fault` are not part of a specification. Each is a plausible wrong version
of an operator defined after it, kept to show that a property notices it.

### Coordinator

One action is one turn of the decision loop: `Decision` is `decide` over
`_build_context`, rule by rule in the code's order; the action of that decision
is the whole handler; `Track` is the reward bookkeeping at the end of the loop
body. `TransitionRejected` and `StepAfterTerminate` are the two exceptions that
leave the episode, `BudgetHit` the one that is caught, `RuntimeExpires` the
clock. `WrapUp` is everything after the loop.

A candidate is an identity (which generation made it) and a design number that
changes whenever its topology or sizing does. A simulation result carries the
identity and design it was run on, which the code does not record and which is
what the properties speak about. `best_eval` holds a reference in the code:
`Referenced` applies every change of the current candidate to the remembered one
when they are the same object. `verified`, `budget_hit` and the candidate's
`planned` flag are history.

Abstractions:
- the reward is any value of a small set, the simulator's outcome one of failed,
  structural gap, near-feasible, all met; only a real backend may be unavailable;
- an environment that truncates at its edit limit coincides with an exhausted
  edit budget, after which the policy stops, so truncation is not a state;
- the number of real evaluations of a sizing round is a range, from what the
  query policy forces (failed evaluations count toward neither warm-up nor
  interval, so this is a minimum) to the round's length and the budget;
- every generated topology has devices to size;
- `PvtCorners` is in 1 to 5: with 0, `run_pvt` runs all five corners uncharged;
- the learning updates after the loop read the episode and change nothing in it.

### AgenticRun

One action is one spending step: a probe, the allocation, the final run of one
branch, verification of the selected design and of the backup, recovery, the
corner checks, the report. `Allocations` gives every allocation `allocate` may
return for two verdicts, with distances and slopes left open. A sizing run is
its number of calls and whether it passed; the ledger arithmetic is the code's.
`simulated`, `replayed`, `verifications`, `sweeps` and `first` are history: what
was physically done, against which the ledger and the trace are compared.
`replayed` counts the calls of a final run that repeat the branch's probe, and
gives the code the benefit of the doubt: its own comment (`supervisor.py:336`)
says that sizing schedules scale with the length of the run.

Fixed as in the code: `RECOVERY_RESERVE = 0`, `SPLIT_BASELINE_CONTINUATION =
False`, `PLATEAU_PATIENCE = None`, `sizing_repeats = 1` (the default), the
measured-first gate, two distinct selected topologies. `int(0.35 r)` is integer
division by 100, equal to the code's for the budgets in question (r below 180).

### Generations

One action is one step of `run_generation` between two writes: `Launch` is
`resume_or_start`, `CopyMemory` the first use of the lineage's memory,
`SkipProcessed` and `MarkProcessed` the two results of `mark_run_processed`,
`Pipeline` the call of `run_pipeline`, `AppendRows` the append of one stream,
`Checkpoint` the count of SPICE calls and `checkpoint_progress`; `Learn` and
`Conclude` are the stream updates up to and after the retrieval memory's,
`Publish` and `Unlink` the two halves of `publish_atomic`. The process may end
before any of them (`Crash`: killed, or an exception that nothing catches), and
in the middle of the two writes that are not atomic, the copy of the frozen
memory (`CrashInCopy`) and an append (`CrashInAppend`). `_atomic_write` and the
memory's own replacement are one step, as their `os.replace` is.

`st`, `jobs` and `harvest` are the process's memory, lost when it ends; the
in-progress and active files, the streams and the memory survive. Every launch
may be given other jobs, as `--start` allows. `published` is history.

Abstractions:
- a run's rows in one stream are one row; which streams it fills is fixed by its
  specification (`Yield`), since the pipeline is deterministic for a fixed seed
  (`run_a9_generations.py:700`); a protected specification yields an agents'
  episode only, one whose run returns no harvest yields nothing;
- a row's call id carries the time of its measurement, here the launch;
- a run costs one unit of `true_spice_calls`;
- one process per lineage at a time (the code takes no lock), and one of the two
  lineages, chosen initially: they share nothing but the frozen memory, which
  neither writes;
- a file that was replaced is on disk: no power loss after `os.replace`;
- of the stream updates only the retrieval memory's is a state change the loop
  reads again; the candidates the value and bandit updates may stage, and the
  summary file written last, are left out.

### SelfImprovement

`Launch` is `main` up to the loop over the generations (read the state, load the
proposer once), `Generation` the head of that loop, `Pipeline` one call of the
pipeline and `AppendRow`, `Remember` what it leaves in the streams and in the
shared memory; `Ranker`, `Value` and `Proposer` are the three fits with their
gates, `Publish` is `save_state`. There is no ledger here: a launch that dies
repeats its generation from the start, over the files of the dead one. A crash
may come before any step, in an append, in the copy of an adapter and in the
write of `STATE.json`, which leaves that file unreadable.

A checkpoint is the launch that fitted it, and stands for its hash; a path is
the generation in whose directory it lies. A gate is the rows it needs before it
may accept and a free verdict. Left out: the weights, the bootstrap intervals
inside a gate, the rows of the run log.

### SftChain

`Start` harvests the queue and ensures generation 0, `Check` and `Refuse` are
the validations and the protection of existing generations, `WriteDataset`,
`Train`, `Validate`, `Promote`, `Activate` the writes in their order. A crash
falls between any two writes and inside those of a manifest, a corpus and the
active name, none of which is atomic (an adapter saved in part is, like a whole
one, not the adapter any manifest names). Cut short, a manifest is torn and every run that reads it stops, a corpus cannot be read,
and the active name (`write_text`, line 355) is empty: the generation that was
active is then named nowhere, although its own manifest and files are intact,
until another run is promoted (`ActiveNameSurvives`, below).
`balance_by_family` is modelled exactly over numbered examples: an example is
its place in the order the function sorts by, a corpus says how often it holds
each. A run for the static lineage stops before it reads anything and is left
out; so are the loss, the tokeniser and the contents of the reports.

### Campaign and Lineage

One action is one training, one examination, the design phase, or the line that
logs the generation; `Crash` ends the process anywhere and may leave a torn last
line. `Launch` is `main` with `--resume-campaign`, from the log alone. A
checkpoint carries the trainings it goes back to and the score its examination
will give, drawn when it is trained. `decide_acceptance` compares several
metrics, each with a floor or a tolerated drop; the model has one score with
both. `arm` stands for everything a resume takes from the first record. `Design`
keeps the preference pairs only; the other rows the same lines collect (the
self-earned examples, the L4 records, the value targets) change what later
trainings learn from, which the free scores stand for, and no decision.
`Lineage` is the abstract specification: a chain that grows by one, each
version from the one before it. `GenerationsChained` is the refinement.

### Proposals

`Plan` is the planner's table; `StartRound`, `Generate`, `EndRound` are
`run_critic_loop` over the loop of the proposer, one action per generation of
the language model; `OneShot` and `Retrieve` are the runs without a critic and
without a model; `Screen` is the soft filter by evidence, `Choose` the bandit's
selection of two, `Measure` the verdict of sizing, `Harvest` the rows the run
files. Only the sampler the pipeline uses is modelled, `conditioning =
"exclusion"`; the ablation arm (`run_raptor_v2.py:296`) ignores the cap, the stall
limit and the critic's verdict. A cap of exactly 20 is passed on as none (293), which
the length of the ladder, 20, makes the same. The experiment's switch
`AGR_LOFO_DISABLE_DEEPCOMP` (`critic.py:63`), which drops the critic's demand for
a deep compensated structure, is unset. A structure stands for a canonical graph
hash. What the model emits, how
the bandit ranks and what SPICE says are free. Identifiers are numbered per hunt
as in the code, and lookups go by identifier where the code's do.

### TreeSearch

`Simulate` is one simulation of one tree: walk, expand, evaluate, back up.
`Select` reads two outputs under the rule of the mode. A graph stands for a
realised circuit, as its structural hash does. The networks are free: PUCT may
walk to any leaf, the policy may prefer any new child, the values may rank the
variations in any order, and ties may fall either way. Visits are counted as the
code counts them. Leaf values come from the value network (`leaf_mode =
"value_only"`, which every one of these searches sets), so the SPICE budget of
the engine is not involved. The mode `portfolio` is reached only by calling the
function: `run_pipeline` raises for the packages that ask for it
(`run_raptor_v2.py:1014`). Training episodes, replay and the hybrid of search
and bandit are left out.

## Runs

| run | asks | bounds |
|---|---|---|
| `coordinator` | types, two invariants on budgets and feasible designs, three action properties, refinement of `EpisodeContract` | 4 edits, 4 sizing steps, 6 SPICE calls, 3 generations, both simulator modes |
| `agentic_run` | types, budget, overrun, delivery, recovery | 16 calls per branch (the budget in the code's comments), all 32 configurations |
| `proposals` | types, attempts, selection, verdict, targets | 4 structures of 3 depths, cap of 5 attempts, 3 rounds of at least 2, stall limits 2 and 5 |
| `tree_search` | types, what a tree delivers, what is selected | 5 modes, 4 pools of 2 or 3 candidates, 3 graphs, 2 edits, 5 simulations, depth 3, 4 expansions |
| `generations` | types, three invariants on ledgers, rows and memory, order of publication | 4 launches, 3 specifications, 2 overlapping job lists, crashes unbounded |
| `self_improvement` | types, three invariants on checkpoints and promotions, `LaunchPublishes` | 2 launches of 1 or 2 generations, 1 specification with 2 seeds, gates of 1 and 2 rows |
| `sft_chain` | types, promoted and active generations, share of a family | 3 examples of 2 families, caps of 1, 6 jobs, generations 0 to 2, 4 runs |
| `campaign` | types, accepted weights, regression, pairs, refinement of `Lineage` | 3 arms, scores 0 to 4, floor 1, tolerance 1, 2 generations, 3 processes |
| `stale_report`, `generator_failure`, `stale_proposer`, `same_challenger` | claims of the repository the code does not keep, see `findings` | as above, or the budgets of `configs/experiments/smoke_test.yaml` |

Why the bounds are enough:
- `coordinator`: a candidate can be simulated, edited, sized and simulated
  again, dropped for a second and a third, with budget left to hit every limit
  in the middle; stagnation (patience 2) and repeated failures (3) both happen.
  Two reward values suffice, since the loop only compares a reward with the best
  one and with one threshold.
- `agentic_run`: nothing is scaled down, the numbers are those of a production
  run, and distances 1 and 2 are enough to compare.
- `proposals`: the cap is less than what three rounds ask for, so a round is
  started with less than it wants; the structures differ in depth and in
  compensation, so each verdict of the critic can be met and missed.
- `tree_search`: the expansions run out before the simulations and the depth can
  be reached; edits of `b` and `c` lead back, so trees converge, and the
  pools hold two candidates of one circuit and two of one identifier.
- `generations`: two job lists that share one specification let a resumed
  generation skip in the middle of its jobs, mix two launches' jobs and be
  extended after its publication.
- `self_improvement`: a promotion needs two seeds, a second launch can repeat
  the generation a crash interrupted, and a launch of two generations crosses a
  promotion.
- `sft_chain`: a generation can be trained, interrupted, retried, forced and
  built upon; a corpus two generations deep reaches its caps.
- `campaign`: a generation may lose the tolerated drop at either gate and still
  be above the floor or not; three processes allow two kills.

What the passing runs show, beyond types:
- Episode: the policy never starts a handler its budgets cannot pay for; no
  success is reported for a design changed after its simulation, although such
  designs are reported as failures (`stale_report`); a design that met
  everything is not lost to a stop, an edit or a regeneration; a DPO selection
  is recorded with its own outcome, and a sizing space never outlives its
  topology into a sizing round. The last two hold only because of the order in
  which the policy and the transition table allow decisions.
- Pipeline: the ledger never refuses a charge, the overrun of the envelope is at
  most the probes of the branches sized again, and neither recovery nor robust
  delivery hands out an unmeasured or worse design. Rounds of the critic never
  pass the cap of attempts, a run that is not aborted always has two structures
  to size, and a run of one hunt files what it measured.
- Search: whatever the networks say and wherever the expansions stop, a tree's
  primary output was reached by a simulation (a secondary one, which
  `per_seed_pv` falls back to, need not be), and the two circuits differ, the
  champion-challenger mode excepted. Two different seeds suffice for a selection,
  except under `per_seed_pv`, whose variations may all converge.
- Generations: a crash loses no run that a ledger on disk counts and costs at
  most the one in progress; publications stay in order and the memory complete,
  even when a crash between the halves of `publish_atomic` reopens a published
  generation. A stream torn inside an append is the exception
  `LedgerIsHarvested` names: every later read of it raises.
- Adaptive loop, chain, campaign: without a ledger and with plain writes, what
  was accepted is still never written over (the chain's `--force` apart), runs
  use it, repeated launches do not earn a promotion, and two tolerated drops in
  a row do not fall below the floor. Names and states are less safe than what they
  name: a kill inside `save_state` leaves a `STATE.json` no launch can read, one
  inside the chain's write of the active name leaves no active generation.

### Claims kept without a run

These are stated in their module and TLC violates them; to repeat one, name it
as the INVARIANT (or PROPERTY) of a copy of the configuration.

| module | claim | configuration | what happens |
|---|---|---|---|
| `Coordinator` | `FreshCandidateIsPlanned` | `MCCoordinator.cfg` | a regenerated candidate is sized without a plan of its own |
| `Coordinator` | `TerminateIsLegitimate` | `GeneratorFailure.cfg` | a terminated environment is stepped again |
| `Coordinator` | `StagnationEscapes` | `GeneratorFailure.cfg` with the budgets of `configs/default.yaml` | stagnation asks for a transition the table refuses |
| `AgenticRun` | `EnvelopeHeld`, `FallsBack`, `CornersCounted` | `MCAgenticRun.cfg` | the overrun `OverrunBounded` bounds; a verified backup is not delivered; a sweep is not counted |
| `Generations` | `NoRowTwice` | `MCGenerations.cfg` | a crash between append and checkpoint harvests a run twice |
| `Proposals` | `TargetIsMeasured` | `MCProposals.cfg` | two rounds reuse an identifier and the wrong structure is filed |
| `SftChain` | `ActiveIsPromoted` | `MCSftChain.cfg` | a forced run leaves a rejected generation active |
| `SftChain` | `ActiveNameSurvives` | `MCSftChain.cfg`, as PROPERTY | a kill inside the write of the active name leaves none |
| `Campaign` | `OneProfile` | `Arms = {"full"}`, `Profiles = {"full", "fast"}`, `MaxScore = 1`, `MaxRuns = 2` | a resume continues under another profile |
| `TreeSearch` | `EverySeedIsARoot`, `BudgetIsSpent` | `MCTreeSearch.cfg` | a repeated identifier drops a seed and its share of simulations |
| `TreeSearch` | `OutputIsVisited` | `MCTreeSearch.cfg` | the first candidate is credited with the super-root's visits |

### Fairness and deadlock

Only `LaunchPublishes` needs fairness: `FairSpec` assumes weak fairness of
`Step`, the steps of a running process. A process that is neither killed nor
stopped by an exception goes on, since it is sequential code; nobody has to
launch it again and crashes are not fair. The property says that such a launch
publishes the last generation it was asked for, unless an earlier crash left a
file it cannot read. The other modules state no liveness: an episode, a run, a
search are bounded loops, and whether a generation is launched again is its
operator's decision. `EveryTurnSpends` is the safety form of the episode's
progress. Deadlock is checked in `generations`, `self_improvement` and
`sft_chain`, where the end of the bound is a step of its own, and off where the
system ends.

## Proofs

`CoordinatorProofs` proves, from `BudgetAssumption` and `ConfigAssumption` only,
type correctness, `NoBudgetHit`, `AcceptedIsVerified`, `SuccessIsVerified`,
`FeasibleIsReported`, `GroundedWhenPossible`, and that the episode implements
`EpisodeContract`. The argument is one inductive invariant, `IInv`:
- identities: the current candidate, the best evaluation and the results carry
  identities no later than the generations used, so a result that mentions the
  current identity is about the current object;
- results: a candidate with status SIMULATED or ACCEPTED is described by its
  simulation result, since the two handlers that change a design also change the
  status. This is why a stale result is never reported as a success;
- phases: the stage of the machine and the status determine what may follow, in
  particular a simulation that met everything is followed only by a PVT run, an
  accept or a stop, so it is still there at the end;
- recording: every successful simulation is in `verified`, and the best
  evaluation is one of them.

None of the invariants above is inductive alone: each needs to know which
decisions the policy can take in the states the others describe.

Its three action properties are proved as well. `EveryTurnSpends` follows from the
types and from what each decision's guards leave of the budgets (`WorkFits`,
`SizingCharge`). `SizesCurrentTopology` and `DpoOutcomeMatches` rest on a second
invariant, `Working`: inside the loop a candidate has a sizing space exactly when
it is sized and a simulation only then; its space is outdated only when its
simulation failed or missed by so much that the policy will not size it again;
and a pending DPO selection is of the design about to be simulated, since in
`SIZE` neither a new topology nor an edit is a legal transition.

`AgenticRunProofs` proves, for every per-branch budget of at least a probe and
every set of configurations, the type invariant, `NeverExceeded`,
`OverrunBounded`, `DeliveredIsMeasured`, `NeverDeliversWorse`,
`RobustIsDelivered`, `VerificationsCounted` and the action property
`RecoveryIsBankFunded`. Its invariant has an accounting part (`Envelope`), which
relates calls simulated, charged, banked and still allocated, stage by stage, and
a part on the answer (`Answered`), which relates selected design, recorded
outcome, corner verdicts and counts.

`GenerationsProofs` proves all properties the run of `Generations` checks (`NoRowTwice`,
which a crash violates, is not one of them) for any specifications, job lists, yields
and number of launches. The invariant behind them, `OrderInv`, says what the process's state is relative to the files: between
two runs it is exactly what a launch would load now, during a run that and the
run (`Loaded`); an in-progress generation follows the active one or reopens it
with all of its runs; and every published run belongs to the active generation's
ledger or to an earlier generation (`History`). From it a run in progress is in no
ledger on disk (`CurrentIsUncounted`), which is what keeps counted rows final. The
properties about rows add what is known of the run being appended (`AtRisk`,
`Gathered`, `Learned`).

`SelfImprovementProofs` proves types, `AcceptedIntact`, `RunsUseAccepted`,
`OneGenerationAtATime`, `PublishedIsLearned` and `ProposerEarned`, for any jobs,
gates and number of launches. The last adds that the counts behind an acceptance
are of finite sets that only grow (`PassedGrows`), so what was earned once stays
earned through crashes and repeated launches. The invariant says that a running
process is the successor of the saved state, and that the checkpoints the state names lie in directories of
earlier generations than the one being written. `SftChainProofs` proves types,
`PromotedIntact`, `ActiveIsEarned` and `G0Immutable`: its `ChainInv` adds what
each phase has checked (`Unprotected`: the output directory is free or forced)
and that generation 0, once described, is never an output. `CampaignProofs`
proves types, `AcceptedIntact`, `RegressionBounded`, `PairsAreLogged`,
`ExamOfAccepted`, `OneArm` and the refinement of `Lineage`; its `CampaignInv`
relates the log, the weights on disk (`OnDisk`) and how far the process is
(`Progress`).

Three results compute over data: a corpus, a pool, the nodes of a tree. Library
theorems on induction take an operator the provers here cannot instantiate, so each
induction is written as a minimal counterexample: the set of the numbers at which
the claim fails is a set of naturals, if it is not empty it has a least member
(`LeastNumber`, from `WFMin` and the well-foundedness of `<`), and the step from its
predecessor contradicts that. For this the model says what a loop computes without
`RECURSIVE`: `Balanced` is the one set of examples that keeps exactly those with
room under the caps among the kept ones before them (`KeptExists`, `KeptUnique`),
and a filtered sequence is the sequence of its places in order (`AtPlaces`).

- `SftChainProofs`, `FamilyShare`: one balancing keeps at most `FamilyCap` verified
  examples of a family (`BalancedCap`); the shares of two corpora add up
  (`MixedShare`); so along a chain of parents the share grows by at most one cap per
  generation (`ShareAsRecords`, `ShareStep`).
- `ProposalsProofs`, all properties of `Proposals`. `AttemptsWithinCap` follows from a
  bound on the running hunt and on what the remaining rounds may ask for. The others
  rest on `OfferInv`: no structure is in the pool twice, nor counted twice by a hunt
  (`PoolShape`); before a second round an identifier names one candidate (`IdsOnce`);
  the pool that reaches the selection has two candidates (`Progress`). The verdict
  survives the screen because everything it asks for, two structures of the planned
  depth and a compensated one among them, is of the depths the screen keeps.
- `TreeSearchProofs`, all properties of `TreeSearch`. Every opened node led a
  simulation to one of its children, so the most visited child of an opened node has
  a visit, and by the way down so has the end of the variation
  (`PrimaryIsSearched`). For `SelectsTwo` the invariant adds that a tree is finite,
  that an opened node has a child for each of its moves with the circuit the move
  makes, and that a tree which ran a simulation has an opened root (`Grown`,
  `FoundInv`): so every seed the search could start from is among the circuits found
  (`OfferableFound`). The visits of a circuit are a number, since a sum over a finite
  set is (`SumsExist`, `SumsNat`), so two found circuits can be ranked
  (`TopTwoExists`). That the portfolio needs only its seed circuits is `PairsExist`.

The assumptions these need are facts of the code: the structures a generator can
emit and the structural edits are finite (the first are graphs over a fixed list of
blocks with a bounded depth, the second the members of the enumeration
`Stage3E1ActionType`), and the balancing caps are numbers.

Only model-checked: `LaunchPublishes`, which is liveness under fairness. Its parts that
are not temporal are proved: `LaunchesAreBounded` counts the steps a launch has left
(`StepsLeft`: at most `7 + 8 * Len(Jobs)` a generation), which every step of the process
lowers; `LaunchesEndPublished` says in what state a process may end; and
`NothingBlocks` that until then one of the guards of `Step` holds. What stays with TLC
is the rule that puts them together with weak fairness. Every other property of a
passing run is stated by a theorem.

## Not modelled

- The networks, their training and what they prefer: the rankers, the SAC, the
  policy and value networks, the search's training episodes and value refresh,
  the language model's losses. Each is a free choice where the control logic
  consults it; a numerical component has no states and steps to check.
- The episode's learning updates (`ar/learning`, `ar/dpo`): they read a finished
  episode and change nothing in it.
- The files of the simulator cache and of the episode's memory. What they hold
  changes no decision of the models; their crash behaviour is a hazard without a
  property.
- The search's hybrid with the bandit (`bandit_top2_az`) and the direct prior:
  straight-line compositions of the two selections that are modelled.
- Parsers, validators of netlists, SPICE control, electrical formulas, figures
  and statistics: functions of their input or I/O.
- Experiment drivers and the external baselines under `src/`: scripts around the
  pipeline and foreign methods.
