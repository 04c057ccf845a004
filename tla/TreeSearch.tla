----------------------------- MODULE TreeSearch -----------------------------
(***************************************************************************)
(* The topology search that turns the validated proposals into the two     *)
(* circuits to size (agentic_raptor/topology_rl/alphazero.py over the      *)
(* engine of stage3e1.py): one tree under a root that selects a seed, or   *)
(* one tree of structural edits per seed, and the rules that read two      *)
(* outputs from the visited trees.                                         *)
(*                                                                         *)
(* A graph stands for a realised circuit, as its structural hash does.     *)
(* The networks are a free choice: PUCT may walk to any leaf, the policy   *)
(* may prefer any new child, the value function may rank the principal     *)
(* variations in any order.  Visits are counted as the code counts them.   *)
(***************************************************************************)
EXTENDS Integers, Sequences, FiniteSets, FiniteSetsExt

CONSTANTS
    Modes,          \* search modes a run may be started with
    Pools,          \* the pools of candidates a search may be given
    Graphs,
    EditTypes,      \* the structural edits, numbered from 1
    EditOf,         \* graph -> the legal edits and what each makes of it
    TotalSims,      \* simulations of all trees together
    MaxDepth,
    MaxChildren,    \* seeds offered at the super-root
    MaxExpansions   \* expansions of one tree

SuperRoot == 0
Terminate == 0
OneTree == {"one_root", "one_root_cc"}

ASSUME SearchAssumption ==
    /\ Modes \subseteq OneTree \cup {"per_seed", "per_seed_pv", "portfolio"}
    /\ \A c \in Pools : c \in Seq([id : Nat \ {SuperRoot}, g : Graphs]) /\ Len(c) >= 2
    /\ EditTypes \subseteq Nat \ {Terminate} /\ IsFiniteSet(EditTypes)
    /\ \A g \in Graphs : /\ DOMAIN EditOf[g] \subseteq EditTypes
                         /\ \A e \in DOMAIN EditOf[g] : EditOf[g][e] \in Graphs
    /\ TotalSims \in Nat \ {0} /\ MaxDepth \in Nat \ {0}
    /\ MaxChildren \in Nat \ {0, 1} /\ MaxExpansions \in Nat \ {0}

VARIABLES
    mode,
    cands,   \* the validated candidates, each with its proposal id and its circuit
    trees,   \* root -> path of moves -> node
    left,    \* root -> simulations still to run
    phase,
    output   \* the two circuits selected

vars == <<mode, cands, trees, left, phase, output>>

-----------------------------------------------------------------------------
(* The registry                                                            *)

Ids == {cands[k].id : k \in DOMAIN cands}
LastWith(id) == CHOOSE k \in DOMAIN cands :
                    cands[k].id = id /\ \A j \in DOMAIN cands : cands[j].id = id => j <= k

\* The circuit registered under an id: the last candidate's that carries it.
CircuitOf(id) == cands[LastWith(id)].g

\* A candidate's place among the sorted ids.
Before(j, k) == cands[j].id < cands[k].id \/ (cands[j].id = cands[k].id /\ j < k)
Place(k) == Cardinality({j \in DOMAIN cands : Before(j, k)})

Roots == IF mode \in OneTree THEN {SuperRoot} ELSE Ids
RootCircuit(r) == CircuitOf(IF r = SuperRoot THEN cands[1].id ELSE r)

\* Equal shares of the simulations, the remainder to the first places.
Share(r) ==
    IF r = SuperRoot THEN TotalSims
    ELSE TotalSims \div Len(cands)
         + (IF Place(LastWith(r)) < TotalSims % Len(cands) THEN 1 ELSE 0)

NewNode(g) == [g |-> g, visits |-> 0, open |-> FALSE]

-----------------------------------------------------------------------------
(* One tree                                                                *)

Parent(p) == SubSeq(p, 1, Len(p) - 1)
Last(p) == p[Len(p)]
Stopped(p) == p # <<>> /\ Last(p) = Terminate
Prefixes(p) == {SubSeq(p, 1, n) : n \in 0 .. Len(p)}
Opened(t) == {p \in DOMAIN t : t[p].open}
Children(t, p) == {q \in DOMAIN t : q # <<>> /\ Parent(q) = p}

\* The legal moves from a node: seeds at the super-root, then edits and TERMINATE.
Moves(r, t, p) ==
    IF r = SuperRoot /\ p = <<>> THEN {k \in DOMAIN cands : Place(k) < MaxChildren}
    ELSE DOMAIN EditOf[t[p].g] \cup {Terminate}

Made(r, t, p, m) ==
    IF r = SuperRoot /\ p = <<>> THEN CircuitOf(cands[m].id)
    ELSE IF m = Terminate THEN t[p].g ELSE EditOf[t[p].g][m]

FaultAnyDepth(t, p) == ~Stopped(p) /\ Cardinality(Opened(t)) < MaxExpansions
Expandable(t, p) ==
    /\ ~Stopped(p) /\ Len(p) < MaxDepth
    /\ Cardinality(Opened(t)) < MaxExpansions

Expanded(r, t, p) ==
    LET new == {Append(p, m) : m \in Moves(r, t, p)}
    IN [q \in DOMAIN t \cup new |->
            IF q = p THEN [t[p] EXCEPT !.open = TRUE]
            ELSE IF q \in new THEN NewNode(Made(r, t, p, Last(q))) ELSE t[q]]

\* The visits of a simulation that ended in a node are backed up to the root.
BackedUp(t, p) == [q \in DOMAIN t |-> IF q \in Prefixes(p)
                                      THEN [t[q] EXCEPT !.visits = @ + 1] ELSE t[q]]

FaultStay(t, p) == {p}
Preferable(t, p) == Children(t, p)

\* One simulation: walk to a leaf, expand it if that is allowed and step to the child the
\* policy prefers, evaluate, back up.
Simulated(r, t) ==
    {BackedUp(t, p) : p \in {p \in DOMAIN t \ Opened(t) : ~Expandable(t, p)}}
    \cup UNION {LET u == Expanded(r, t, p)
                IN {BackedUp(u, q) : q \in Preferable(u, p)} :
                p \in {p \in DOMAIN t \ Opened(t) : Expandable(t, p)}}

Searching == {r \in DOMAIN left : left[r] > 0}

Init ==
    /\ mode \in Modes /\ cands \in Pools
    /\ trees = [r \in Roots |-> [p \in {<<>>} |-> NewNode(RootCircuit(r))]]
    /\ left = [r \in Roots |-> Share(r)]
    /\ phase = "search" /\ output = <<>>

\* The trees are searched one after the other.
Simulate ==
    /\ phase = "search"
    /\ \E r \in Searching :
          /\ \A s \in Searching : r <= s
          /\ \E t \in Simulated(r, trees[r]) : trees' = [trees EXCEPT ![r] = t]
          /\ left' = [left EXCEPT ![r] = @ - 1]
    /\ UNCHANGED <<mode, cands, phase, output>>

-----------------------------------------------------------------------------
(* Reading two outputs                                                     *)

Nodes == UNION {{<<r, p>> : p \in DOMAIN trees[r]} : r \in DOMAIN trees}
NodeAt(n) == trees[n[1]][n[2]]
Found == {NodeAt(n).g : n \in Nodes}

\* The visits of a circuit, summed over every node that realises it; the super-root counts
\* for the first candidate.
Visits(g) == MapThenSumSet(LAMBDA n : NodeAt(n).visits, {n \in Nodes : NodeAt(n).g = g})

TopTwo == {o \in Found \X Found :
              /\ o[1] # o[2] /\ Visits(o[1]) >= Visits(o[2])
              /\ \A c \in Found \ {o[1], o[2]} : Visits(o[2]) >= Visits(c)}

\* The most visited among some nodes of a tree.
MostVisited(t, S) == {q \in S : \A s \in S : t[q].visits >= t[s].visits}

\* From a node down the most visited children, to the end of the opened part.
Variations(t, top) ==
    {p \in DOMAIN t \ Opened(t) :
        /\ top \in Prefixes(p)
        /\ \A q \in Prefixes(p) : Len(q) > Len(top) =>
               q \in MostVisited(t, Children(t, Parent(q)))}

\* The variations of the root's second most visited child; without one, the primary again.
SecondVariations(t, p) ==
    LET others == Children(t, <<>>) \ Prefixes(p)
    IN IF p = <<>> \/ others = {} THEN {p}
       ELSE UNION {Variations(t, c) : c \in MostVisited(t, others)}

\* What each tree offers: its principal variation and the secondary one.
Offers(t) == UNION {{<<p, q>> : q \in SecondVariations(t, p)} : p \in Variations(t, <<>>)}
AllOffers == {f \in [DOMAIN trees -> UNION {Offers(trees[r]) : r \in DOMAIN trees}] :
                 \A r \in DOMAIN trees : f[r] \in Offers(trees[r])}

Offered(f, k) == {trees[r][f[r][k]].g : r \in DOMAIN trees}
SeedCircuits == {RootCircuit(r) : r \in DOMAIN trees}

\* The first of several lists that still holds another circuit supplies it.
FaultFirstList(g, lists) == lists[1]
Another(g, lists) ==
    LET having == {i \in DOMAIN lists : lists[i] \ {g} # {}}
    IN IF having = {} THEN {} ELSE lists[Min(having)] \ {g}

PairsWith(firsts, lists) == UNION {{<<a, b>> : b \in Another(a, lists)} : a \in firsts}

\* The champion is the candidate the family priors rank first; its challenger is the first
\* output of the search whose name differs, and a candidate's name (the hash of the proposal)
\* never equals an output's (the hash of the realised circuit).
ChampionAndChallenger == {<<cands[k].g, o[1]>> : k \in DOMAIN cands, o \in TopTwo}

\* Two outputs under each rule.
Selections(f) ==
    CASE mode \in {"one_root", "per_seed"} -> TopTwo
      [] mode = "one_root_cc" -> ChampionAndChallenger
      [] mode = "per_seed_pv" -> PairsWith(Offered(f, 1), <<Offered(f, 1), Offered(f, 2)>>)
      [] mode = "portfolio" ->
            PairsWith(SeedCircuits, <<Offered(f, 1), Offered(f, 2), SeedCircuits>>)

\* With fewer than two different circuits the search raises; nothing is substituted.
Select ==
    /\ phase = "search" /\ Searching = {}
    /\ \E f \in AllOffers :
          IF Selections(f) = {} THEN phase' = "failed" /\ UNCHANGED output
          ELSE output' \in Selections(f) /\ phase' = "done"
    /\ UNCHANGED <<mode, cands, trees, left>>

Next == Simulate \/ Select

Spec == Init /\ [][Next]_vars

-----------------------------------------------------------------------------
(* Properties                                                              *)

Node == [g : Graphs, visits : Nat, open : BOOLEAN]

Placed(t, p) ==
    /\ p \in Seq(Nat) /\ Len(p) <= MaxDepth
    /\ p # <<>> => Parent(p) \in Opened(t)
    /\ t[p].open => ~Stopped(p) /\ Len(p) < MaxDepth

WellFormed(t) ==
    /\ <<>> \in DOMAIN t
    /\ \A p \in DOMAIN t : t[p] \in Node /\ Placed(t, p)
    /\ Cardinality(Opened(t)) <= MaxExpansions

\* Every tree is a tree of legal moves over circuits the registry or an edit made: the
\* parent of a node is opened, a node beyond a TERMINATE or the depth limit is never opened,
\* and no tree is expanded more often than allowed.
TypeOK ==
    /\ mode \in Modes /\ cands \in Pools /\ phase \in {"search", "done", "failed"}
    /\ DOMAIN trees = Roots /\ left \in [Roots -> Nat]
    /\ \A r \in Roots : WellFormed(trees[r])

\* A tree that ran a simulation offers as its primary a circuit that a simulation reached: at
\* any point the end of its principal variation has been visited, however the expansions are
\* cut off (alphazero.py 840-850).  A secondary variation, the fallback of per_seed_pv, may
\* end in a circuit that was never visited.
PrimaryIsSearched ==
    \A r \in Roots : left[r] < Share(r) =>
        \A p \in Variations(trees[r], <<>>) : trees[r][p].visits > 0

\* The seeds a search of this mode can start from.
Offerable == {CircuitOf(cands[k].id) : k \in
                 {k \in DOMAIN cands : mode \in OneTree => Place(k) < MaxChildren}}

\* The two circuits handed to the sizing differ under every rule but the champion and
\* challenger's (ChallengerIsAnother), and two different seeds are enough for every rule but
\* the principal variation's, which may find all variations converge (alphazero.py 739-776,
\* 998-1015, 2207-2229).
SelectsTwo ==
    /\ phase = "done" /\ mode # "one_root_cc" => output[1] # output[2]
    /\ phase = "failed" /\ mode # "per_seed_pv" => Cardinality(Offerable) < 2

\* The challenger is another circuit than the champion (alphazero.py 2311-2313: slot 2 is the
\* "best canonical-distinct topology").
ChallengerIsAnother == phase = "done" => output[1] # output[2]

\* Every validated candidate has a tree of its own (alphazero.py 715-716).
EverySeedIsARoot ==
    mode \notin OneTree =>
        \A k \in DOMAIN cands : \E r \in Roots : RootCircuit(r) = cands[k].g

\* The shares add up to the budget (alphazero.py 624-627).
BudgetIsSpent == MapThenSumSet(Share, Roots) = TotalSims

\* An output of the search was reached by it (alphazero.py 2161-2163).
OutputIsVisited ==
    phase = "done" /\ mode = "one_root" =>
        \A i \in 1 .. 2 : \E n \in Nodes : n[2] # <<>> /\ NodeAt(n).visits > 0
                                           /\ NodeAt(n).g = output[i]
=============================================================================
