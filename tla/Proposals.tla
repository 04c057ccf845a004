----------------------------- MODULE Proposals -----------------------------
(***************************************************************************)
(* From a specification to the rows one run teaches: the Design Planner's  *)
(* plan, the Topology Critic's rounds of proposals under one attempt       *)
(* budget, the soft screen, the choice of the two structures to size, and  *)
(* the harvest of what was measured (agentic_raptor/agents/planner.py,     *)
(* critic.py, coordinator.py, run_raptor_v2.py, bandit_selector.py,        *)
(* selfimprove_v2/streams.py).                                             *)
(*                                                                         *)
(* A structure stands for a proposal's canonical graph hash and for the    *)
(* object that hash is taken of.  What the language model emits, how the   *)
(* learned scoresheet ranks and what SPICE measures are chosen freely.     *)
(***************************************************************************)
EXTENDS Integers, Sequences, FiniteSets

CONSTANTS
    Structures,      \* the valid structures the model can emit
    StageCount,      \* structure -> its number of gain stages
    Comp,            \* structure -> its compensation class
    Invalid,         \* an emission that does not parse or does not validate
    Deepest,         \* the largest stage count with a measured gain ceiling
    GainClasses,     \* how many of the gain ceilings a specification exceeds
    Demands,         \* classes of gm demand and tightness, see Plan
    ProposalBudget,  \* difficulty -> distinct candidates to seek
    TargetK,         \* candidates sought by a run without a critic
    AttemptCap,      \* the ledger's cap on generations
    MinRound,        \* the least attempts a round asks for
    MaxRounds,       \* rounds of the critic
    LadderLength,    \* attempts of the whole temperature ladder
    Floors,          \* pool floors a run may be started with
    StallStops       \* stall limits a run may be started with (LadderLength: none)

NoComp == "any"
Labels == {"A", "B"}
Agents == {"planner", "critic"}
Outcomes == {"pass", "fail", "none"}

ASSUME ProposalsAssumption ==
    /\ IsFiniteSet(Structures) /\ Invalid \notin Structures
    /\ StageCount \in [Structures -> 1 .. Deepest]
    /\ Deepest \in Nat \ {0}
    /\ GainClasses \subseteq 0 .. Deepest
    /\ Demands \subseteq {"low", "tight", "medium", "extreme"}
    /\ ProposalBudget \in [{"easy", "medium", "hard", "unknown"} -> Nat \ {0, 1}]
    /\ AttemptCap \in Nat \ {0} /\ LadderLength \in 1 .. AttemptCap
    /\ MinRound \in Nat \ {0} /\ MaxRounds \in Nat \ {0} /\ TargetK \in Nat \ {0, 1}
    /\ Floors \subseteq Nat \ {0, 1} /\ StallStops \subseteq Nat \ {0}

VARIABLES
    run,        \* what the run was started with
    phase,
    round,      \* rounds of the critic completed
    spent,      \* ledger.llm_attempts_spent
    hunt,       \* the sampler at work in this round
    pool,       \* the candidates offered, each with its id and structure
    satisfied,  \* the critic's last verdict
    ranked,     \* the selector's ranking of the pool
    selected,   \* label -> candidate sized in that branch
    measured,   \* label -> what the authoritative simulation said
    rows,       \* what the run adds to the learning streams
    made        \* generations the model really made (history)

vars == <<run, phase, round, spent, hunt, pool, satisfied, ranked, selected, measured,
          rows, made>>

-----------------------------------------------------------------------------
(* Helpers                                                                 *)

AtLeast(a, b) == IF a >= b THEN a ELSE b
AtMost(a, b) == IF a <= b THEN a ELSE b
Graphs(cands) == {cands[i].g : i \in DOMAIN cands}
Emitted(seq) == {seq[i] : i \in DOMAIN seq}
FaultOneId(seq) == [i \in DOMAIN seq |-> [id |-> 1, g |-> seq[i]]]
Numbered(seq) == [i \in DOMAIN seq |-> [id |-> i, g |-> seq[i]]]
Rankings(S) == {f \in [1 .. Cardinality(S) -> S] : \A i, j \in DOMAIN f : f[i] = f[j] => i = j}
Earliest(S) == CHOOSE i \in S : \A j \in S : i <= j

\* The entries at some places of a list, in their order.
NthPlace(I, n) == CHOOSE i \in I : Cardinality({j \in I : j <= i}) = n
AtPlaces(list, I) == [n \in 1 .. Cardinality(I) |-> list[NthPlace(I, n)]]

-----------------------------------------------------------------------------
(* The plan                                                                *)

Feasible(gain) == {n \in 1 .. Deepest : n > gain}

\* The stages a specification should be met with; the deepest when it exceeds every ceiling.
Preferred(gain) == IF Feasible(gain) = {} THEN {Deepest} ELSE Feasible(gain)

Difficulty(gain, demand) ==
    IF demand = "extreme" \/ Preferred(gain) = {Deepest} THEN "hard"
    ELSE IF demand \in {"tight", "medium"} THEN "medium" ELSE "easy"

NeutralPlan == [stages |-> {}, comp |-> NoComp, difficulty |-> "unknown"]

PlanFor(gain, demand) ==
    [stages |-> Preferred(gain),
     comp |-> IF demand \in {"medium", "extreme"} THEN "rc" ELSE "miller",
     difficulty |-> Difficulty(gain, demand)]

Plan == IF "planner" \in run.agents THEN PlanFor(run.gain, run.demand) ELSE NeutralPlan

WithCritic == "critic" \in run.agents /\ run.llm

\* How many distinct candidates one hunt looks for.
Wanted == IF WithCritic THEN ProposalBudget[Plan.difficulty] ELSE TargetK

-----------------------------------------------------------------------------
(* The critic's verdict on a set of structures                             *)

Fits(x) == StageCount[x] \in Plan.stages
PreferredIn(S) == {x \in S : Fits(x)}
Compensated(x) == Plan.comp = NoComp \/ (Comp[x] = Plan.comp /\ Fits(x))
FaultAnyDepth(x) == Plan.comp = NoComp \/ Comp[x] = Plan.comp
Shallowest == Earliest(Plan.stages)
NeedsDepth == Plan.difficulty = "hard" /\ Cardinality(Plan.stages) > 1
CompPresent(x) == Compensated(x)

Satisfies(S) ==
    /\ Cardinality(PreferredIn(S)) >= 2
    /\ Plan.comp # NoComp => \E x \in S : CompPresent(x)
    /\ NeedsDepth => \E x \in S : Comp[x] = Plan.comp /\ Fits(x) /\ StageCount[x] > Shallowest

-----------------------------------------------------------------------------
(* Proposing                                                               *)

NewHunt(quota) == [quota |-> quota, attempts |-> 0, sinceNew |-> 0, seen |-> <<>>,
                   satisfied |-> FALSE]

\* What a round may spend: half of what is left, at least MinRound, the last round all of it.
FaultQuotaOfCap(left) == AtLeast(MinRound, AttemptCap \div 2)
RoundQuota(left) ==
    AtMost(left, IF round < MaxRounds - 1 THEN AtLeast(MinRound, left \div 2) ELSE left)

Remaining == AttemptCap - spent

HuntOver ==
    \/ Len(hunt.seen) >= Wanted
    \/ hunt.attempts >= AtMost(hunt.quota, LadderLength)
    \/ hunt.sinceNew >= run.stall
    \/ hunt.satisfied

Init ==
    /\ run \in [agents : SUBSET Agents, llm : BOOLEAN, gain : GainClasses, demand : Demands,
                floor : Floors, stall : StallStops]
    /\ phase = IF ~run.llm THEN "retrieve" ELSE IF WithCritic THEN "round" ELSE "hunt"
    /\ round = 0 /\ spent = 0 /\ made = 0
    /\ hunt = NewHunt(LadderLength)
    /\ pool = <<>> /\ satisfied = FALSE
    /\ ranked = <<>> /\ selected = [l \in Labels |-> Invalid]
    /\ measured = [l \in Labels |-> "none"]
    /\ rows = [sft |-> {}, dpo |-> {}, ranker |-> {}, rag |-> {}]

StartRound ==
    /\ phase = "round"
    /\ hunt' = NewHunt(RoundQuota(Remaining))
    /\ phase' = "hunt"
    /\ UNCHANGED <<run, round, spent, pool, satisfied, ranked, selected, measured, rows, made>>

FaultKeepsRepeats == {Invalid}
Unusable == Emitted(hunt.seen) \cup {Invalid}

\* One generation: unusable, a structure this hunt has seen, or a new one.
Generate ==
    /\ phase = "hunt" /\ ~HuntOver
    /\ made' = made + 1
    /\ \E x \in Structures \cup {Invalid} :
          hunt' = IF x \in Unusable
                  THEN [hunt EXCEPT !.attempts = @ + 1, !.sinceNew = @ + 1]
                  ELSE LET seen == Append(hunt.seen, x)
                       IN [hunt EXCEPT !.attempts = @ + 1, !.sinceNew = 0, !.seen = seen,
                             !.satisfied = /\ WithCritic /\ Len(seen) >= run.floor
                                           /\ Satisfies(Emitted(seen))]
    /\ UNCHANGED <<run, phase, round, spent, pool, satisfied, ranked, selected, measured, rows>>

\* A run without a critic takes what its only hunt found; no ledger is charged.
OneShot ==
    /\ phase = "hunt" /\ HuntOver /\ ~WithCritic
    /\ pool' = Numbered(hunt.seen)
    /\ phase' = "offered"
    /\ UNCHANGED <<run, round, spent, hunt, satisfied, ranked, selected, measured, rows, made>>

FaultRepeats(cands) == cands
Fresh(cands) == AtPlaces(cands, {i \in DOMAIN cands : cands[i].g \notin Graphs(pool)})

\* A round returns: its attempts are charged (the ledger refuses more than is left), its
\* new structures join the pool, the critic judges the whole pool and decides whether
\* another round follows.
EndRound ==
    /\ phase = "hunt" /\ HuntOver /\ WithCritic
    /\ IF hunt.attempts > Remaining
       THEN phase' = "failed" /\ UNCHANGED <<spent, round, pool, satisfied>>
       ELSE /\ spent' = spent + hunt.attempts
            /\ round' = round + 1
            /\ pool' = pool \o Fresh(Numbered(hunt.seen))
            /\ satisfied' = Satisfies(Graphs(pool'))
            /\ phase' = IF \/ satisfied' /\ Len(pool') >= run.floor
                           \/ round' = MaxRounds
                           \/ spent' = AttemptCap
                        THEN "offered" ELSE "round"
    /\ UNCHANGED <<run, hunt, ranked, selected, measured, rows, made>>

\* Without the language model existing structures are retrieved, the specification's own
\* and the protected ones left out, in a shuffled order and without repetition.
Retrieve ==
    /\ phase = "retrieve"
    /\ \E library \in SUBSET Structures : \E order \in Rankings(library) :
          pool' = Numbered(SubSeq(order, 1, AtMost(TargetK, Len(order))))
    /\ phase' = "offered"
    /\ UNCHANGED <<run, round, spent, hunt, satisfied, ranked, selected, measured, rows, made>>

-----------------------------------------------------------------------------
(* Screening and choosing                                                  *)

Abort ==
    /\ phase = "offered" /\ Len(pool) < 2
    /\ phase' = "aborted"
    /\ UNCHANGED <<run, round, spent, hunt, pool, satisfied, ranked, selected, measured, rows, made>>

KeptByScreen(cands) == AtPlaces(cands, {i \in DOMAIN cands : Fits(cands[i].g)})

\* Discouraged structures are dropped only when two preferred ones remain.
Screen ==
    /\ phase = "offered" /\ Len(pool) >= 2
    /\ pool' = IF "planner" \in run.agents /\ Len(KeptByScreen(pool)) >= 2
               THEN KeptByScreen(pool) ELSE pool
    /\ phase' = "screened"
    /\ UNCHANGED <<run, round, spent, hunt, satisfied, ranked, selected, measured, rows, made>>

\* The selector's pool: the first candidate offered for each structure.
Unrepeated(cands) ==
    {cands[i] : i \in {i \in DOMAIN cands : \A j \in 1 .. i - 1 : cands[j].g # cands[i].g}}

\* The second slot: the best candidate of another depth, else of another compensation,
\* else the runner-up.
SecondSlot(order) ==
    LET depth == {i \in 2 .. Len(order) : StageCount[order[i].g] # StageCount[order[1].g]}
        kind  == {i \in 2 .. Len(order) : Comp[order[i].g] # Comp[order[1].g]}
    IN IF depth # {} THEN Earliest(depth) ELSE IF kind # {} THEN Earliest(kind) ELSE 2

\* The selector ranks its pool and fills both slots; with one structure only it raises.
Choose ==
    /\ phase = "screened"
    /\ IF Cardinality(Unrepeated(pool)) < 2
       THEN phase' = "failed" /\ UNCHANGED <<ranked, selected>>
       ELSE /\ \E order \in Rankings(Unrepeated(pool)) :
                  /\ ranked' = order
                  /\ selected' = [l \in Labels |-> IF l = "A" THEN order[1]
                                                   ELSE order[SecondSlot(order)]]
            /\ phase' = "sizing"
    /\ UNCHANGED <<run, round, spent, hunt, pool, satisfied, measured, rows, made>>

\* Both branches are sized; at least the chosen one is measured authoritatively.
Measure ==
    /\ phase = "sizing"
    /\ measured' \in {m \in [Labels -> Outcomes] : \E l \in Labels : m[l] # "none"}
    /\ phase' = "measured"
    /\ UNCHANGED <<run, round, spent, hunt, pool, satisfied, ranked, selected, rows, made>>

-----------------------------------------------------------------------------
(* The harvest                                                             *)

\* The object filed under a proposal id: the last ranked candidate that carries it.
ByProposal(id) ==
    LET having == {i \in DOMAIN ranked : ranked[i].id = id}
    IN ranked[CHOOSE i \in having : \A j \in having : j <= i].g

Row(l) == [g |-> selected[l].g, obj |-> ByProposal(selected[l].id)]
Verified == {l \in Labels : measured[l] # "none"}
Passing == {l \in Labels : measured[l] = "pass"}

\* learns: adaptive mode, a training split and a specification that is not protected;
\* differ: the two measurements do not rank the same.
Filed(learns, differ) ==
    IF ~learns THEN rows
    ELSE [sft |-> {Row(l) : l \in Passing},
          dpo |-> IF Verified = Labels /\ Cardinality(Passing) = 1
                  THEN {<<Row(l), Row(m)>> : l \in Passing, m \in Labels \ Passing} ELSE {},
          ranker |-> IF Verified = Labels /\ differ THEN {Row(l) : l \in Labels} ELSE {},
          rag |-> {selected[l].g : l \in Verified}]

Harvest ==
    /\ phase = "measured"
    /\ \E learns, differ \in BOOLEAN :
          /\ Verified = Labels /\ Cardinality(Passing) = 1 => differ
          /\ rows' = Filed(learns, differ)
    /\ phase' = "done"
    /\ UNCHANGED <<run, round, spent, hunt, pool, satisfied, ranked, selected, measured, made>>

Next ==
    \/ StartRound \/ Generate \/ OneShot \/ EndRound \/ Retrieve
    \/ Abort \/ Screen \/ Choose \/ Measure \/ Harvest

Spec == Init /\ [][Next]_vars

-----------------------------------------------------------------------------
(* Properties                                                              *)

Phases == {"retrieve", "round", "hunt", "offered", "screened", "sizing", "measured", "done",
           "aborted", "failed"}

\* Types, and the candidates of one hunt are the model's own, pairwise distinct
\* (propose_and_validate asserts that the validator returned no duplicates).
TypeOK ==
    /\ run \in [agents : SUBSET Agents, llm : BOOLEAN, gain : GainClasses, demand : Demands,
                floor : Floors, stall : StallStops]
    /\ phase \in Phases /\ round \in 0 .. MaxRounds /\ spent \in Nat /\ made \in Nat
    /\ satisfied \in BOOLEAN
    /\ hunt.quota \in Nat /\ hunt.attempts \in Nat /\ hunt.sinceNew \in Nat
    /\ hunt.seen \in Seq(Structures) /\ hunt.satisfied \in BOOLEAN
    /\ Cardinality(Emitted(hunt.seen)) = Len(hunt.seen)
    /\ measured \in [Labels -> Outcomes]

\* However the rounds go - early stops, stalls, unusable emissions - the generations made
\* never exceed the cap a run without agents has, and after every round the ledger has
\* charged each of them once (agents/state.py 9-12: agents reallocate, never spend more).
AttemptsWithinCap ==
    /\ made <= AttemptCap
    /\ WithCritic => made = spent + (IF phase = "hunt" THEN hunt.attempts ELSE 0)

\* A run that was not aborted for want of diversity reaches sizing: after rounds that may
\* return the same structures again and after the screen, the selector still finds two
\* different structures (run_raptor_v2.py 908-925 promises the abort is the only exit).
SelectionSucceeds == phase # "failed"

\* When the critic was satisfied with the pool, it would be satisfied with what the screen
\* leaves: the screen never drops the compensated or deeper structure that the critic asked
\* further rounds for.
VerdictSurvivesScreen ==
    satisfied /\ phase \notin {"round", "hunt"} => Satisfies(Graphs(pool))

\* A structure is filed with the object it was measured as: in every run whose candidates
\* come from one hunt or one retrieval, each training target is the structure that was sized
\* and verified under that row's hash.
Faithful(row) == row.obj = row.g
OneShotTargets ==
    round <= 1 => /\ \A row \in rows.sft \cup rows.ranker : Faithful(row)
                  /\ \A pair \in rows.dpo : Faithful(pair[1]) /\ Faithful(pair[2])

\* The same of every run, the critic's further rounds included (selfimprove_v2/streams.py
\* 73-74 and 124: a wrong target teaches the proposer to emit something that does not work;
\* the measurement must belong to this topology).
TargetIsMeasured == \A row \in rows.sft : Faithful(row)
=============================================================================
