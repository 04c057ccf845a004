-------------------------- MODULE TreeSearchProofs --------------------------
(***************************************************************************)
(* The shape of the search trees, that a tree's principal variation ends   *)
(* in a node that was visited, and that a search which two seeds could     *)
(* start from selects two different circuits, for every pool of            *)
(* candidates, every set of edits and every limit.                         *)
(***************************************************************************)
EXTENDS TreeSearch, FiniteSetTheorems, FunctionTheorems, SequenceTheorems,
        WellFoundedInduction, TLAPS

-----------------------------------------------------------------------------
(* The registry                                                            *)

\* A nonempty set of positions has a last one.
LEMMA LastPosition ==
  ASSUME NEW n \in Nat, NEW S \in SUBSET (1 .. n), S # {}
  PROVE  \E k \in S : \A j \in S : j <= k
<1> DEFINE T == {n - x : x \in S}
<1>2. T \subseteq Nat /\ T # {}
  <2>1. ASSUME NEW x \in S PROVE n - x \in Nat
    <3>1. x \in 1 .. n
      OBVIOUS
    <3> QED
      BY <3>1
  <2>2. PICK e \in S : TRUE
    OBVIOUS
  <2>3. n - e \in T
    BY <2>2
  <2> QED
    BY <2>1, <2>3
<1>3. \E x \in T : \A y \in T : ~ (<<y, x>> \in OpToRel(<, Nat))
  <2> HIDE DEF T
  <2> QED
    BY <1>2, WFMin, NatLessThanWellFounded, Zenon
<1>4. PICK x \in T : \A y \in T : ~ (y < x)
  BY <1>2, <1>3, Zenon DEF OpToRel
<1>5. PICK k \in S : x = n - k
  OBVIOUS
<1>6. ASSUME NEW j \in S PROVE j <= k
  <2>1. n - j \in T /\ n - j \in Nat /\ x \in Nat
    BY <1>2
  <2>2. ~ (n - j < x)
    BY <2>1, <1>4
  <2> QED
    BY <2>2, <1>5
<1> QED
  BY <1>6

Candidates == cands \in Seq([id : Nat \ {SuperRoot}, g : Graphs]) /\ Len(cands) >= 2

\* A candidate of the pool has a place, its id a circuit.
LEMMA Registered ==
  ASSUME Candidates, NEW id \in Ids
  PROVE  LastWith(id) \in DOMAIN cands /\ CircuitOf(id) \in Graphs
<1> DEFINE S == {k \in DOMAIN cands : cands[k].id = id}
<1>1. DOMAIN cands = 1 .. Len(cands) /\ Len(cands) \in Nat
  BY DEF Candidates
<1>2. S \in SUBSET (1 .. Len(cands)) /\ S # {}
  BY <1>1 DEF Ids
<1>3. \E k \in S : \A j \in S : j <= k
  <2> HIDE DEF S
  <2> QED
    BY <1>1, <1>2, LastPosition
<1>4. \E k \in DOMAIN cands :
         cands[k].id = id /\ \A j \in DOMAIN cands : cands[j].id = id => j <= k
  BY <1>3
<1>5. LastWith(id) \in DOMAIN cands
  BY <1>4 DEF LastWith
<1>6. cands[LastWith(id)] \in [id : Nat \ {SuperRoot}, g : Graphs]
  BY <1>1, <1>5, ElementOfSeq DEF Candidates
<1> QED
  BY <1>5, <1>6 DEF CircuitOf

LEMMA PlaceNat ==
  ASSUME Candidates, NEW k
  PROVE  Place(k) \in Nat
<1>1. IsFiniteSet(DOMAIN cands)
  BY FS_Interval DEF Candidates
<1>2. IsFiniteSet({j \in DOMAIN cands : Before(j, k)})
  BY <1>1, FS_Subset
<1> QED
  BY <1>2, FS_CardinalityType DEF Place

LEMMA ShareNat ==
  ASSUME Candidates, NEW r
  PROVE  Share(r) \in Nat
<1>1. Place(LastWith(r)) \in Nat
  BY PlaceNat
<1>2. Len(cands) \in Nat /\ Len(cands) > 0 /\ TotalSims \in Nat
  BY SearchAssumption DEF Candidates
<1>3. TotalSims \div Len(cands) \in Nat
  BY <1>2
<1> QED
  BY <1>1, <1>2, <1>3 DEF Share

LEMMA RootTypes ==
  ASSUME Candidates, NEW r \in Roots
  PROVE  RootCircuit(r) \in Graphs
<1>1. 1 \in DOMAIN cands
  BY DEF Candidates
<1>2. cands[1].id \in Ids
  BY <1>1 DEF Ids
<1>3. r # SuperRoot => r \in Ids
  BY DEF Roots
<1> QED
  BY <1>2, <1>3, Registered DEF RootCircuit

-----------------------------------------------------------------------------
(* One tree                                                                *)

LEMMA PathFacts ==
  ASSUME NEW p \in Seq(Nat), NEW m \in Nat
  PROVE  /\ Append(p, m) \in Seq(Nat) /\ Append(p, m) # <<>>
         /\ Len(Append(p, m)) = Len(p) + 1
         /\ Parent(Append(p, m)) = p /\ Last(Append(p, m)) = m
<1> DEFINE q == Append(p, m)
<1>1. q \in Seq(Nat) /\ q # <<>> /\ Len(q) = Len(p) + 1 /\ Len(p) \in Nat
  BY AppendProperties
<1>2. \A i \in 1 .. Len(p) : q[i] = p[i] /\ q[i] \in Nat
  BY AppendProperties, ElementOfSeq
<1>3. SubSeq(q, 1, Len(p)) = p
  <2>1. /\ SubSeq(q, 1, Len(p)) \in Seq(Nat)
        /\ Len(SubSeq(q, 1, Len(p))) = Len(p)
        /\ \A i \in 1 .. Len(p) : SubSeq(q, 1, Len(p))[i] = q[i]
    <3> HIDE DEF q
    <3> QED
      BY <1>1, <1>2
  <2> HIDE DEF q
  <2> QED
    BY <2>1, <1>2, SeqEqual
<1> QED
  BY <1>1, <1>3, AppendProperties DEF Parent, Last

LEMMA PrefixFacts ==
  ASSUME NEW p \in Seq(Nat)
  PROVE  <<>> \in Prefixes(p) /\ p \in Prefixes(p)
<1>1. Len(p) \in Nat /\ 0 \in 0 .. Len(p) /\ Len(p) \in 0 .. Len(p)
  OBVIOUS
<1>2. SubSeq(p, 1, 0) = <<>>
  BY SubSeqEmpty
<1>3. SubSeq(p, 1, Len(p)) = p
  BY SubSeqFull
<1> QED
  BY <1>1, <1>2, <1>3 DEF Prefixes

\* Every opened node led some simulation to one of its children.
Led(t, p) == \E q \in Children(t, p) : t[q].visits > 0
Explored(t) == IsFiniteSet(Opened(t)) /\ \A p \in Opened(t) : Led(t, p)

\* The legal moves are numbers that lead to circuits.
LEMMA MoveTypes ==
  ASSUME Candidates, NEW r \in Roots, NEW t, NEW p, t[p] \in Node
  PROVE  /\ Moves(r, t, p) \subseteq Nat
         /\ \A m \in Moves(r, t, p) : Made(r, t, p, m) \in Graphs
<1>1. CASE r = SuperRoot /\ p = <<>>
  <2>1. DOMAIN cands \subseteq Nat
    BY DEF Candidates
  <2>2. \A m \in DOMAIN cands : CircuitOf(cands[m].id) \in Graphs
    BY Registered DEF Ids
  <2> QED
    BY <1>1, <2>1, <2>2 DEF Moves, Made
<1>2. CASE ~ (r = SuperRoot /\ p = <<>>)
  <2>1. t[p].g \in Graphs
    BY DEF Node
  <2>2. DOMAIN EditOf[t[p].g] \subseteq Nat
    BY <2>1, SearchAssumption
  <2>3. \A e \in DOMAIN EditOf[t[p].g] : EditOf[t[p].g][e] \in Graphs
    BY <2>1, SearchAssumption
  <2>4. Moves(r, t, p) = DOMAIN EditOf[t[p].g] \cup {Terminate} /\ Terminate \in Nat
    BY <1>2 DEF Moves, Terminate
  <2>5. \A m : Made(r, t, p, m) = IF m = Terminate THEN t[p].g ELSE EditOf[t[p].g][m]
    BY <1>2 DEF Made
  <2> QED
    BY <2>1, <2>2, <2>3, <2>4, <2>5
<1> QED
  BY <1>1, <1>2

\* What expanding a leaf leaves: a well-formed tree in which the leaf is opened as well.
LEMMA ExpandedFacts ==
  ASSUME Candidates, NEW r \in Roots, NEW t, WellFormed(t), Explored(t),
         NEW p \in DOMAIN t \ Opened(t), Expandable(t, p)
  PROVE  /\ WellFormed(Expanded(r, t, p))
         /\ Opened(Expanded(r, t, p)) = Opened(t) \cup {p}
         /\ IsFiniteSet(Opened(Expanded(r, t, p)))
         /\ \A q \in Opened(t) : Led(Expanded(r, t, p), q)
<1> DEFINE u == Expanded(r, t, p)
           new == {Append(p, m) : m \in Moves(r, t, p)}
<1>1. p \in Seq(Nat) /\ t[p] \in Node /\ ~ t[p].open
  BY DEF WellFormed, Placed, Opened
<1>2. /\ Moves(r, t, p) \subseteq Nat
      /\ \A m \in Moves(r, t, p) : Made(r, t, p, m) \in Graphs
  BY <1>1, MoveTypes
<1>3. ASSUME NEW q \in new
      PROVE  /\ q \in Seq(Nat) /\ q # <<>> /\ Len(q) = Len(p) + 1 /\ Parent(q) = p
             /\ Last(q) \in Moves(r, t, p) /\ q \notin DOMAIN t /\ q # p
  <2>1. PICK m \in Moves(r, t, p) : q = Append(p, m)
    OBVIOUS
  <2>2. /\ q \in Seq(Nat) /\ q # <<>> /\ Len(q) = Len(p) + 1
        /\ Parent(q) = p /\ Last(q) = m
    BY <1>1, <1>2, <2>1, PathFacts
  <2>3. q \notin DOMAIN t
    BY <2>2 DEF WellFormed, Placed
  <2> QED
    BY <2>2, <2>3
<1>4. DOMAIN u = DOMAIN t \cup new
  BY DEF Expanded
<1>5. u[p] = [t[p] EXCEPT !.open = TRUE]
  BY <1>4 DEF Expanded
<1>6. ASSUME NEW q \in DOMAIN t, q # p PROVE u[q] = t[q]
  BY <1>3, <1>4, <1>6 DEF Expanded
<1>7. ASSUME NEW q \in new PROVE u[q] = NewNode(Made(r, t, p, Last(q)))
  BY <1>3, <1>4, <1>7 DEF Expanded
<1> HIDE DEF u, new
<1>8. u[p] \in Node /\ u[p].open /\ u[p].visits = t[p].visits
  BY <1>1, <1>5 DEF Node
<1>9. ASSUME NEW q \in new PROVE u[q] \in Node /\ ~ u[q].open
  <2>1. Made(r, t, p, Last(q)) \in Graphs
    BY <1>2, <1>3
  <2>2. \A g \in Graphs : NewNode(g) \in Node /\ ~ NewNode(g).open
    BY DEF NewNode, Node
  <2>3. u[q] = NewNode(Made(r, t, p, Last(q)))
    BY <1>7
  <2> QED
    BY <2>1, <2>2, <2>3
<1>10. Opened(u) = Opened(t) \cup {p}
  BY <1>3, <1>4, <1>6, <1>8, <1>9 DEF Opened
<1>11. IsFiniteSet(Opened(u)) /\ Cardinality(Opened(u)) <= MaxExpansions
  <2>1. IsFiniteSet(Opened(t)) /\ Cardinality(Opened(t)) \in Nat
    BY FS_CardinalityType DEF Explored
  <2>2. /\ IsFiniteSet(Opened(t) \cup {p})
        /\ Cardinality(Opened(t) \cup {p}) = Cardinality(Opened(t)) + 1
    BY <2>1, FS_AddElement
  <2>3. Cardinality(Opened(t)) < MaxExpansions /\ MaxExpansions \in Nat
    BY SearchAssumption DEF Expandable
  <2> QED
    BY <1>10, <2>1, <2>2, <2>3
<1>12. ASSUME NEW q \in DOMAIN u PROVE u[q] \in Node /\ Placed(u, q)
  <2>1. CASE q \in new
    <3>1. Len(q) <= MaxDepth
      BY <1>1, <1>3, <2>1, SearchAssumption DEF Expandable
    <3> QED
      BY <1>3, <1>9, <1>10, <2>1, <3>1 DEF Placed
  <2>2. CASE q = p
    <3>1. Placed(t, p)
      BY DEF WellFormed
    <3> QED
      BY <1>8, <1>10, <2>2, <3>1 DEF Placed, Expandable
  <2>3. CASE q \in DOMAIN t /\ q # p
    <3>1. Placed(t, q) /\ t[q] \in Node
      BY <2>3 DEF WellFormed
    <3> QED
      BY <1>6, <1>10, <2>3, <3>1 DEF Placed
  <2> QED
    BY <1>4, <2>1, <2>2, <2>3
<1>13. WellFormed(u)
  BY <1>4, <1>11, <1>12 DEF WellFormed
<1>14. ASSUME NEW q \in Opened(t) PROVE Led(u, q)
  <2>1. PICK c \in Children(t, q) : t[c].visits > 0
    BY DEF Explored, Led
  <2>2. c \in DOMAIN t /\ c # <<>> /\ Parent(c) = q
    BY DEF Children
  <2>3. u[c].visits = t[c].visits
    BY <1>6, <1>8, <2>2
  <2>4. c \in Children(u, q)
    BY <1>4, <2>2 DEF Children
  <2> QED
    BY <2>1, <2>3, <2>4 DEF Led
<1> QED
  BY <1>10, <1>11, <1>13, <1>14 DEF u

\* Backing up changes nothing but visits, which it adds to the whole path.
LEMMA BackedUpFacts ==
  ASSUME NEW t, WellFormed(t), IsFiniteSet(Opened(t)), NEW p \in DOMAIN t,
         \A q \in Opened(t) : Led(t, q) \/ p \in Children(t, q)
  PROVE  LET u == BackedUp(t, p)
         IN WellFormed(u) /\ Explored(u) /\ u[<<>>].visits > 0
<1> DEFINE u == BackedUp(t, p)
<1>1. DOMAIN u = DOMAIN t
  BY DEF BackedUp
<1>2. ASSUME NEW q \in DOMAIN t
      PROVE  /\ u[q] \in Node /\ u[q].open = t[q].open /\ u[q].visits >= t[q].visits
             /\ q \in Prefixes(p) => u[q].visits > 0
  <2>1. t[q] \in Node
    BY DEF WellFormed
  <2>2. u[q] = IF q \in Prefixes(p) THEN [t[q] EXCEPT !.visits = t[q].visits + 1] ELSE t[q]
    BY DEF BackedUp
  <2> HIDE DEF u
  <2> QED
    BY <2>1, <2>2 DEF Node
<1> HIDE DEF u
<1>3. Opened(u) = Opened(t)
  BY <1>1, <1>2 DEF Opened
<1>4. \A q \in DOMAIN u : u[q] \in Node /\ Placed(u, q)
  BY <1>1, <1>2, <1>3 DEF WellFormed, Placed
<1>5. WellFormed(u)
  BY <1>1, <1>3, <1>4 DEF WellFormed
<1>6. p \in Seq(Nat) /\ <<>> \in DOMAIN t
  BY DEF WellFormed, Placed
<1>7. u[<<>>].visits > 0 /\ u[p].visits > 0
  BY <1>2, <1>6, PrefixFacts
<1>8. ASSUME NEW q \in Opened(t) PROVE Led(u, q)
  <2>1. CASE p \in Children(t, q)
    BY <1>1, <1>7, <2>1 DEF Led, Children
  <2>2. CASE Led(t, q)
    <3>1. PICK c \in Children(t, q) : t[c].visits > 0
      BY <2>2 DEF Led
    <3>2. c \in DOMAIN t /\ t[c].visits \in Nat
      BY DEF Children, WellFormed, Node
    <3>3. u[c].visits > 0 /\ c \in Children(u, q)
      <4>1. u[c].visits \in Nat /\ u[c].visits >= t[c].visits
        BY <1>2, <3>2 DEF Node
      <4> QED
        BY <1>1, <3>1, <3>2, <4>1 DEF Children
    <3> QED
      BY <3>3 DEF Led
  <2> QED
    BY <2>1, <2>2
<1>9. Explored(u)
  BY <1>3, <1>8 DEF Explored
<1> QED
  BY <1>5, <1>7, <1>9 DEF u

\* A simulation keeps a tree well formed and explored, and visits its root.
LEMMA SimulatedFacts ==
  ASSUME Candidates, NEW r \in Roots, NEW t, WellFormed(t), Explored(t),
         NEW u \in Simulated(r, t)
  PROVE  WellFormed(u) /\ Explored(u) /\ u[<<>>].visits > 0
<1>1. CASE \E p \in DOMAIN t \ Opened(t) : ~ Expandable(t, p) /\ u = BackedUp(t, p)
  BY <1>1, BackedUpFacts DEF Explored
<1>2. CASE \E p \in DOMAIN t \ Opened(t) : 
             /\ Expandable(t, p)
             /\ \E q \in Preferable(Expanded(r, t, p), p) :
                   u = BackedUp(Expanded(r, t, p), q)
  <2>1. PICK p \in DOMAIN t \ Opened(t) : 
             /\ Expandable(t, p)
             /\ \E q \in Preferable(Expanded(r, t, p), p) :
                   u = BackedUp(Expanded(r, t, p), q)
    BY <1>2
  <2>2. PICK q \in Preferable(Expanded(r, t, p), p) : u = BackedUp(Expanded(r, t, p), q)
    BY <2>1
  <2>3. /\ WellFormed(Expanded(r, t, p))
        /\ Opened(Expanded(r, t, p)) = Opened(t) \cup {p}
        /\ IsFiniteSet(Opened(Expanded(r, t, p)))
        /\ \A s \in Opened(t) : Led(Expanded(r, t, p), s)
    BY <2>1, ExpandedFacts
  <2>4. q \in Children(Expanded(r, t, p), p) /\ q \in DOMAIN Expanded(r, t, p)
    BY DEF Preferable, Children
  <2>5. \A s \in Opened(Expanded(r, t, p)) :
           Led(Expanded(r, t, p), s) \/ q \in Children(Expanded(r, t, p), s)
    BY <2>3, <2>4
  <2> QED
    BY <2>2, <2>3, <2>4, <2>5, BackedUpFacts
<1> QED
  BY <1>1, <1>2 DEF Simulated

-----------------------------------------------------------------------------
(* The search                                                              *)

\* Every tree is explored, and visited once it ran a simulation.
Progressed == \A r \in Roots :
  /\ Explored(trees[r])
  /\ left[r] < Share(r) => trees[r][<<>>].visits > 0

SearchInv == TypeOK /\ Progressed

LEMMA PoolTypes == TypeOK => Candidates
  BY SearchAssumption DEF TypeOK, Candidates

LEMMA SearchInit == Init => SearchInv
<1> SUFFICES ASSUME Init PROVE SearchInv
  OBVIOUS
<1>1. Candidates
  BY SearchAssumption DEF Init, Candidates
<1>2. left = [r \in Roots |-> Share(r)] /\ DOMAIN trees = Roots
  BY DEF Init
<1>3. \A r \in Roots : Share(r) \in Nat
  BY <1>1, ShareNat
<1>4. ASSUME NEW r \in Roots
      PROVE  WellFormed(trees[r]) /\ Explored(trees[r])
  <2> DEFINE t == [p \in {<<>>} |-> NewNode(RootCircuit(r))]
  <2>1. trees[r] = t
    BY DEF Init
  <2>2. DOMAIN t = {<<>>} /\ t[<<>>] \in Node /\ ~ t[<<>>].open
    BY <1>1, RootTypes DEF NewNode, Node
  <2> HIDE DEF t
  <2>3. Opened(t) = {}
    BY <2>2 DEF Opened
  <2>4. IsFiniteSet(Opened(t)) /\ Cardinality(Opened(t)) = 0
    BY <2>3, FS_EmptySet
  <2>5. <<>> \in Seq(Nat) /\ Len(<<>>) = 0
    OBVIOUS
  <2>6. WellFormed(t)
    BY <2>2, <2>4, <2>5, SearchAssumption DEF WellFormed, Placed
  <2>7. Explored(t)
    BY <2>3, <2>4 DEF Explored
  <2> QED
    BY <2>1, <2>6, <2>7
<1>5. TypeOK
  BY <1>2, <1>3, <1>4 DEF TypeOK, Init
<1>6. Progressed
  <2>1. \A r \in Roots : left[r] = Share(r) /\ Share(r) \in Nat
    BY <1>2, <1>3
  <2> QED
    BY <1>4, <2>1 DEF Progressed
<1> QED
  BY <1>5, <1>6 DEF SearchInv

LEMMA SearchSimulate == SearchInv /\ Simulate => SearchInv'
<1> SUFFICES ASSUME SearchInv, Simulate PROVE SearchInv'
  OBVIOUS
<1>1. PICK r \in Searching :
         /\ \E t \in Simulated(r, trees[r]) : trees' = [trees EXCEPT ![r] = t]
         /\ left' = [left EXCEPT ![r] = left[r] - 1]
  BY DEF Simulate
<1>2. PICK t \in Simulated(r, trees[r]) : trees' = [trees EXCEPT ![r] = t]
  BY <1>1
<1>3. mode' = mode /\ cands' = cands /\ phase' = phase
  BY DEF Simulate
<1>4. Candidates /\ TypeOK /\ Progressed
  BY PoolTypes DEF SearchInv
<1>5. r \in Roots /\ left[r] \in Nat /\ left[r] > 0
  BY <1>4 DEF Searching, TypeOK
<1>6. WellFormed(t) /\ Explored(t) /\ t[<<>>].visits > 0
  BY <1>2, <1>4, <1>5, SimulatedFacts DEF TypeOK, Progressed
<1>7. Roots' = Roots
  BY <1>3 DEF Roots, Ids
<1>8. \A s \in Roots : Share(s)' = Share(s)
  BY <1>3 DEF Share, Place, Before, LastWith
<1>9. trees'[r] = t /\ DOMAIN trees' = Roots /\ \A s \in Roots \ {r} : trees'[s] = trees[s]
  BY <1>2, <1>4, <1>5 DEF TypeOK
<1>10. left' \in [Roots -> Nat] /\ \A s \in Roots \ {r} : left'[s] = left[s]
  BY <1>1, <1>4, <1>5 DEF TypeOK
<1>11. TypeOK'
  <2>1. \A s \in Roots : WellFormed(trees'[s])
    BY <1>4, <1>6, <1>9 DEF TypeOK
  <2> QED
    BY <1>3, <1>4, <1>7, <1>9, <1>10, <2>1 DEF TypeOK
<1>12. Progressed'
  <2>1. ASSUME NEW s \in Roots
        PROVE  Explored(trees'[s]) /\ (left'[s] < Share(s) => trees'[s][<<>>].visits > 0)
    BY <1>4, <1>6, <1>9, <1>10 DEF Progressed
  <2> QED
    BY <1>7, <1>8, <2>1 DEF Progressed
<1> QED
  BY <1>11, <1>12 DEF SearchInv

LEMMA SearchStutter ==
  SearchInv /\ UNCHANGED <<mode, cands, trees, left>> /\ phase' \in {"search", "done", "failed"}
    => SearchInv'
<1> SUFFICES ASSUME SearchInv, UNCHANGED <<mode, cands, trees, left>>,
                    phase' \in {"search", "done", "failed"}
             PROVE  SearchInv'
  OBVIOUS
<1>1. Roots' = Roots
  BY DEF Roots, Ids
<1>2. \A s \in Roots : Share(s)' = Share(s)
  BY DEF Share, Place, Before, LastWith
<1>3. TypeOK'
  BY <1>1 DEF SearchInv, TypeOK
<1>4. Progressed'
  BY <1>1, <1>2 DEF SearchInv, Progressed
<1> QED
  BY <1>3, <1>4 DEF SearchInv

LEMMA SearchStep == SearchInv /\ [Next]_vars => SearchInv'
<1>1. SearchInv /\ Simulate => SearchInv'
  BY SearchSimulate
<1>2. SearchInv /\ Select => SearchInv'
  BY SearchStutter DEF Select
<1>3. SearchInv /\ UNCHANGED vars => SearchInv'
  BY SearchStutter DEF vars, SearchInv, TypeOK
<1> QED
  BY <1>1, <1>2, <1>3 DEF Next

LEMMA SearchInvariance == Spec => []SearchInv
  BY SearchInit, SearchStep, PTL DEF Spec

\* In every search the trees stay trees of legal moves, within their depth and expansions.
THEOREM TypesCorrect == Spec => []TypeOK
<1>1. SearchInv => TypeOK
  BY DEF SearchInv
<1> QED
  BY <1>1, SearchInvariance, PTL

\* The end of the principal variation of a tree that ran a simulation was visited.
LEMMA VariationVisited == SearchInv => PrimaryIsSearched
<1> SUFFICES ASSUME SearchInv, NEW r \in Roots, left[r] < Share(r),
                    NEW p \in Variations(trees[r], <<>>)
             PROVE  trees[r][p].visits > 0
  BY DEF PrimaryIsSearched
<1> DEFINE t == trees[r]
<1>1. WellFormed(t) /\ Explored(t) /\ t[<<>>].visits > 0
  BY DEF SearchInv, TypeOK, Progressed
<1>2. /\ p \in DOMAIN t
      /\ \A q \in Prefixes(p) : Len(q) > Len(<<>>) =>
            q \in MostVisited(t, Children(t, Parent(q)))
  BY DEF Variations
<1> HIDE DEF t
<1>3. CASE p = <<>>
  BY <1>1, <1>3 DEF t
<1>4. CASE p # <<>>
  <2>1. p \in Seq(Nat) /\ Parent(p) \in Opened(t) /\ t[p].visits \in Nat
    BY <1>1, <1>2, <1>4 DEF WellFormed, Placed, Node
  <2>2. p \in Prefixes(p) /\ Len(p) > Len(<<>>)
    BY <1>4, <2>1, PrefixFacts, EmptySeq
  <2>3. p \in MostVisited(t, Children(t, Parent(p)))
    BY <1>2, <2>2
  <2>4. PICK c \in Children(t, Parent(p)) : t[c].visits > 0
    BY <1>1, <2>1 DEF Explored, Led
  <2>5. t[c].visits \in Nat
    BY <1>1 DEF Children, WellFormed, Node
  <2>6. t[p].visits >= t[c].visits
    BY <2>3 DEF MostVisited
  <2> QED
    BY <2>1, <2>4, <2>5, <2>6 DEF t
<1> QED
  BY <1>3, <1>4

THEOREM PrimariesSearched == Spec => []PrimaryIsSearched
  BY VariationVisited, SearchInvariance, PTL

-----------------------------------------------------------------------------
(* Sums and largest values over finite sets                                *)

LEMMA LeastNumber ==
  ASSUME NEW S \in SUBSET Nat, S # {}
  PROVE  \E x \in S : \A y \in S : x <= y
<1>1. \E x \in S : \A y \in S : ~ (<<y, x>> \in OpToRel(<, Nat))
  BY WFMin, NatLessThanWellFounded, Zenon
<1>2. PICK x \in S : \A y \in S : ~ (y < x)
  BY <1>1, Zenon DEF OpToRel
<1> QED
  BY <1>2

\* The values a function takes on a finite set are finitely many.
LEMMA ValuesFinite ==
  ASSUME NEW S, IsFiniteSet(S), NEW T, NEW f \in [S -> T], \A y \in T : \E x \in S : f[x] = y
  PROVE  IsFiniteSet(T)
<1>1. f \in Surjection(S, T)
  BY Fun_IsSurj
<1> QED
  BY <1>1, FS_Surjection

\* One of finitely many has the largest value.
LEMMA Largest ==
  ASSUME NEW S, IsFiniteSet(S), S # {}, NEW v \in [S -> Nat]
  PROVE  \E x \in S : \A y \in S : v[x] >= v[y]
<1> DEFINE n == Cardinality(S)
<1>1. n \in Nat /\ ExistsBijection(1 .. n, S)
  BY FS_CardinalityType
<1>2. PICK b \in [1 .. n -> S] : \A y \in S : \E k \in 1 .. n : b[k] = y
  BY <1>1 DEF ExistsBijection, Bijection, Surjection
<1>3. n >= 1
  BY <1>1, <1>2
<1> HIDE DEF n
<1> DEFINE Top(k) == \E i \in 1 .. k : \A j \in 1 .. k : v[b[i]] >= v[b[j]]
           Bad == {k \in 1 .. n : ~ Top(k)}
<1>4. \A k \in 1 .. n : v[b[k]] \in Nat
  BY <1>2
<1>5. ASSUME NEW k \in 2 .. n, NEW i \in 1 .. k - 1,
             \A j \in 1 .. k - 1 : v[b[i]] >= v[b[j]]
      PROVE  Top(k)
  <2>1. i \in 1 .. k /\ k \in 1 .. k /\ v[b[i]] \in Nat /\ v[b[k]] \in Nat
    BY <1>1, <1>4
  <2>2. \A j \in 1 .. k : v[b[j]] \in Nat /\ (j \in 1 .. k - 1 \/ j = k)
    BY <1>1, <1>4
  <2>3. CASE v[b[i]] >= v[b[k]]
    BY <1>5, <2>1, <2>2, <2>3
  <2>4. CASE ~ (v[b[i]] >= v[b[k]])
    <3>1. \A j \in 1 .. k : v[b[k]] >= v[b[j]]
      BY <1>5, <2>1, <2>2, <2>4
    <3> QED
      BY <2>1, <3>1
  <2> QED
    BY <2>3, <2>4
<1>6. Bad = {}
  <2> SUFFICES ASSUME Bad # {} PROVE FALSE
    OBVIOUS
  <2>1. PICK k \in Bad : \A j \in Bad : k <= j
    <3>1. Bad \in SUBSET Nat
      OBVIOUS
    <3> HIDE DEF Bad
    <3> QED
      BY <3>1, LeastNumber
  <2>2. k \in 1 .. n /\ ~ Top(k)
    OBVIOUS
  <2>3. k # 1
    BY <1>4, <2>2
  <2>4. k \in 2 .. n /\ k - 1 \in 1 .. n /\ ~ (k <= k - 1)
    BY <1>1, <2>2, <2>3
  <2>5. Top(k - 1)
    <3>1. k - 1 \notin Bad
      <4> HIDE DEF Bad
      <4> QED
        BY <2>1, <2>4
    <3> QED
      BY <2>4, <3>1
  <2> QED
    BY <1>5, <2>2, <2>4, <2>5
<1>7. PICK i \in 1 .. n : \A j \in 1 .. n : v[b[i]] >= v[b[j]]
  <2>1. Top(n)
    <3>1. n \in 1 .. n
      BY <1>1, <1>3 DEF n
    <3> HIDE DEF Top
    <3> QED
      BY <1>6, <3>1
  <2> QED
    BY <2>1
<1> QED
  BY <1>2, <1>7

LEMMA TwoMembers ==
  ASSUME NEW S, IsFiniteSet(S), ~ (Cardinality(S) < 2)
  PROVE  \E a, b \in S : a # b
<1>1. S # {}
  BY FS_EmptySet
<1>2. PICK a \in S : TRUE
  BY <1>1
<1>3. S # {a}
  BY FS_Singleton
<1> QED
  BY <1>2, <1>3

\* What MapThenSumSet computes: the value of some member and the sum of the others.
OneOf(s) == CHOOSE x \in s : TRUE
Sums(v, S, iter) ==
  iter = [s \in SUBSET S |-> IF s = {} THEN 0 ELSE v[OneOf(s)] + iter[s \ {OneOf(s)}]]

LEMMA OneLess ==
  ASSUME NEW S, IsFiniteSet(S), NEW s \in SUBSET S, s # {}
  PROVE  /\ OneOf(s) \in s /\ OneOf(s) \in S /\ s \ {OneOf(s)} \in SUBSET S
         /\ Cardinality(s) \in Nat
         /\ Cardinality(s \ {OneOf(s)}) = Cardinality(s) - 1
<1>1. OneOf(s) \in s
  BY DEF OneOf
<1>2. IsFiniteSet(s)
  BY FS_Subset
<1> QED
  BY <1>1, <1>2, FS_RemoveElement, FS_CardinalityType

\* Such a function exists, ...
LEMMA SumsExist ==
  ASSUME NEW S, IsFiniteSet(S), NEW v \in [S -> Nat]
  PROVE  \E iter : Sums(v, S, iter)
<1> DEFINE Small(n) == {s \in SUBSET S : Cardinality(s) <= n}
           Step(f, s) == IF s = {} THEN 0 ELSE v[OneOf(s)] + f[s \ {OneOf(s)}]
           Good(n) == \E f \in [Small(n) -> Nat] : \A s \in Small(n) : f[s] = Step(f, s)
           Bad == {n \in Nat : ~ Good(n)}
<1>1. \A s \in SUBSET S : IsFiniteSet(s) /\ Cardinality(s) \in Nat
  BY FS_Subset, FS_CardinalityType
<1>2. Bad = {}
  <2> SUFFICES ASSUME Bad # {} PROVE FALSE
    OBVIOUS
  <2>1. PICK n \in Bad : \A m \in Bad : n <= m
    <3>1. Bad \in SUBSET Nat
      OBVIOUS
    <3> HIDE DEF Bad
    <3> QED
      BY <3>1, LeastNumber
  <2>2. n \in Nat /\ ~ Good(n)
    OBVIOUS
  <2>3. n # 0
    <3>1. \A s \in Small(0) : s = {}
      BY <1>1, FS_EmptySet
    <3> DEFINE f == [s \in Small(0) |-> 0]
    <3>2. f \in [Small(0) -> Nat] /\ \A s \in Small(0) : f[s] = Step(f, s)
      BY <3>1
    <3> HIDE DEF f, Small, Step
    <3>3. Good(0)
      BY <3>2
    <3> QED
      BY <2>2, <3>3
  <2>4. n - 1 \in Nat /\ Good(n - 1)
    <3>1. n - 1 \in Nat /\ ~ (n <= n - 1)
      BY <2>2, <2>3
    <3>2. n - 1 \notin Bad
      <4> HIDE DEF Bad
      <4> QED
        BY <2>1, <3>1
    <3> QED
      BY <3>1, <3>2
  <2>5. PICK f \in [Small(n - 1) -> Nat] : \A s \in Small(n - 1) : f[s] = Step(f, s)
    BY <2>4
  <2> DEFINE g == [s \in Small(n) |-> Step(f, s)]
  <2>6. ASSUME NEW s \in Small(n), s # {}
        PROVE  OneOf(s) \in S /\ s \ {OneOf(s)} \in Small(n - 1) /\ s \ {OneOf(s)} \in Small(n)
    <3>1. /\ OneOf(s) \in S /\ s \ {OneOf(s)} \in SUBSET S /\ Cardinality(s) \in Nat
          /\ Cardinality(s \ {OneOf(s)}) = Cardinality(s) - 1 /\ Cardinality(s) <= n
      BY <2>6, OneLess
    <3> QED
      BY <2>2, <3>1
  <2>7. ASSUME NEW s \in Small(n) PROVE Step(f, s) \in Nat
    <3>1. CASE s = {}
      BY <3>1
    <3>2. CASE s # {}
      <4>1. f[s \ {OneOf(s)}] \in Nat /\ v[OneOf(s)] \in Nat
        <5> HIDE DEF Small
        <5> QED
          BY <2>6, <3>2
      <4> QED
        BY <3>2, <4>1
    <3> QED
      BY <3>1, <3>2
  <2>8. ASSUME NEW s \in Small(n), s # {} PROVE g[s \ {OneOf(s)}] = f[s \ {OneOf(s)}]
    <3> HIDE DEF Small, Step
    <3> QED
      BY <2>5, <2>6, <2>8
  <2>9. ASSUME NEW s \in Small(n) PROVE g[s] = Step(g, s)
    <3>1. g[s] = Step(f, s)
      <4> HIDE DEF Small, Step
      <4> QED
        OBVIOUS
    <3>2. CASE s = {}
      BY <3>1, <3>2
    <3>3. CASE s # {}
      <4>1. g[s \ {OneOf(s)}] = f[s \ {OneOf(s)}]
        BY <2>8, <3>3
      <4> HIDE DEF g, Small
      <4> QED
        BY <3>1, <3>3, <4>1
    <3> QED
      BY <3>2, <3>3
  <2>10. g \in [Small(n) -> Nat]
    <3> HIDE DEF Small, Step
    <3> QED
      BY <2>7
  <2> HIDE DEF g, Small, Step
  <2> QED
    BY <2>2, <2>9, <2>10
<1>3. Good(Cardinality(S))
  BY <1>1, <1>2
<1>4. Small(Cardinality(S)) = SUBSET S
  BY FS_Subset
<1>5. PICK f \in [SUBSET S -> Nat] : \A s \in SUBSET S : f[s] = Step(f, s)
  <2> HIDE DEF Small, Step
  <2> QED
    BY <1>3, <1>4
<1>6. f = [s \in SUBSET S |-> Step(f, s)]
  <2> HIDE DEF Step
  <2> QED
    BY <1>5
<1>7. Sums(v, S, f)
  BY <1>6 DEF Sums
<1> QED
  BY <1>7

\* ... and what it computes is a number.
LEMMA SumsNat ==
  ASSUME NEW S, IsFiniteSet(S), NEW v \in [S -> Nat], NEW iter, Sums(v, S, iter)
  PROVE  iter[S] \in Nat
<1> DEFINE Bad == {n \in Nat : \E s \in SUBSET S : Cardinality(s) = n /\ iter[s] \notin Nat}
<1>1. \A s \in SUBSET S : Cardinality(s) \in Nat
  BY FS_Subset, FS_CardinalityType
<1>2. Bad = {}
  <2> SUFFICES ASSUME Bad # {} PROVE FALSE
    OBVIOUS
  <2>1. PICK n \in Bad : \A m \in Bad : n <= m
    <3>1. Bad \in SUBSET Nat
      OBVIOUS
    <3> HIDE DEF Bad
    <3> QED
      BY <3>1, LeastNumber
  <2>2. PICK s \in SUBSET S : Cardinality(s) = n /\ iter[s] \notin Nat
    OBVIOUS
  <2>3. iter[s] = IF s = {} THEN 0 ELSE v[OneOf(s)] + iter[s \ {OneOf(s)}]
    BY DEF Sums
  <2>4. s # {}
    BY <2>2, <2>3
  <2>5. /\ OneOf(s) \in S /\ s \ {OneOf(s)} \in SUBSET S
        /\ Cardinality(s \ {OneOf(s)}) = n - 1 /\ n \in Nat /\ n - 1 \in Nat
    BY <1>1, <2>2, <2>4, OneLess
  <2>6. n - 1 \notin Bad
    <3>1. ~ (n <= n - 1)
      BY <2>5
    <3> HIDE DEF Bad
    <3> QED
      BY <2>1, <3>1
  <2>7. iter[s \ {OneOf(s)}] \in Nat
    BY <2>5, <2>6
  <2>8. v[OneOf(s)] \in Nat
    BY <2>5
  <2> QED
    BY <2>2, <2>3, <2>4, <2>7, <2>8
<1> QED
  BY <1>1, <1>2

-----------------------------------------------------------------------------
(* What the search has found                                               *)

\* A finite tree over the root's circuit in which an opened node has a child for each of its
\* moves, and nothing is below a root that is not opened.
Grown(r, t) ==
  /\ IsFiniteSet(DOMAIN t) /\ t[<<>>].g = RootCircuit(r)
  /\ \A p \in Opened(t) : \A m \in Moves(r, t, p) :
       Append(p, m) \in DOMAIN t /\ t[Append(p, m)].g = Made(r, t, p, m)
  /\ <<>> \in Opened(t) \/ DOMAIN t = {<<>>}

\* Moves and what they make depend on the node's circuit alone.
LEMMA SameMoves ==
  ASSUME NEW r, NEW t, NEW u, NEW p, t[p].g = u[p].g
  PROVE  Moves(r, t, p) = Moves(r, u, p) /\ \A m : Made(r, t, p, m) = Made(r, u, p, m)
  BY DEF Moves, Made

LEMMA MovesFinite ==
  ASSUME Candidates, NEW r, NEW t, NEW p, t[p] \in Node
  PROVE  IsFiniteSet(Moves(r, t, p))
<1>1. IsFiniteSet(DOMAIN cands)
  BY FS_Interval DEF Candidates
<1>2. t[p].g \in Graphs
  BY DEF Node
<1>3. DOMAIN EditOf[t[p].g] \in SUBSET EditTypes /\ IsFiniteSet(EditTypes)
  BY <1>2, SearchAssumption
<1>4. IsFiniteSet(DOMAIN EditOf[t[p].g])
  BY <1>3, FS_Subset
<1>5. IsFiniteSet(DOMAIN EditOf[t[p].g] \cup {Terminate})
  BY <1>4, FS_AddElement
<1>6. IsFiniteSet({k \in DOMAIN cands : Place(k) < MaxChildren})
  BY <1>1, FS_Subset
<1> QED
  BY <1>5, <1>6 DEF Moves

\* Expanding a leaf keeps a tree grown and leaves its root opened.
LEMMA ExpandedGrown ==
  ASSUME Candidates, NEW r \in Roots, NEW t, WellFormed(t), Grown(r, t),
         NEW p \in DOMAIN t \ Opened(t)
  PROVE  Grown(r, Expanded(r, t, p)) /\ <<>> \in Opened(Expanded(r, t, p))
<1> DEFINE u == Expanded(r, t, p)
           M == Moves(r, t, p)
           new == {Append(p, m) : m \in M}
<1>1. p \in Seq(Nat) /\ t[p] \in Node /\ ~ t[p].open
  BY DEF WellFormed, Placed, Opened
<1>2. M \subseteq Nat
  BY <1>1, MoveTypes
<1>3. ASSUME NEW m \in M
      PROVE  /\ Last(Append(p, m)) = m /\ Append(p, m) # p
             /\ Append(p, m) \notin DOMAIN t /\ Append(p, m) # <<>>
  <2>1. /\ Append(p, m) \in Seq(Nat) /\ Append(p, m) # <<>> /\ Len(Append(p, m)) = Len(p) + 1
        /\ Parent(Append(p, m)) = p /\ Last(Append(p, m)) = m
    BY <1>1, <1>2, PathFacts
  <2>2. Append(p, m) \notin DOMAIN t
    BY <2>1 DEF WellFormed, Placed
  <2> QED
    BY <2>1, <2>2
<1>4. DOMAIN u = DOMAIN t \cup new
  BY DEF Expanded
<1>5. u[p] = [t[p] EXCEPT !.open = TRUE]
  BY <1>4 DEF Expanded
<1>6. ASSUME NEW q \in DOMAIN t, q # p PROVE u[q] = t[q]
  BY <1>3, <1>4, <1>6 DEF Expanded
<1>7. ASSUME NEW m \in M
      PROVE  u[Append(p, m)].g = Made(r, t, p, m) /\ ~ u[Append(p, m)].open
  <2>1. u[Append(p, m)] = NewNode(Made(r, t, p, m))
    BY <1>3, <1>4 DEF Expanded
  <2> DEFINE g == Made(r, t, p, m)
             v == u[Append(p, m)]
  <2>2. v = NewNode(g)
    BY <2>1
  <2> HIDE DEF v, g
  <2>3. v.g = g /\ ~ v.open
    BY <2>2 DEF NewNode
  <2> QED
    BY <2>3 DEF v, g
<1> HIDE DEF u, M, new
<1>8. u[p].g = t[p].g /\ u[p].open
  BY <1>1, <1>5 DEF Node
<1>9. \A q \in DOMAIN t : u[q].g = t[q].g
  BY <1>6, <1>8
<1>10. Opened(u) = Opened(t) \cup {p}
  <2>1. \A m \in M : ~ u[Append(p, m)].open
    BY <1>7
  <2> QED
    BY <1>4, <1>6, <1>8, <2>1 DEF Opened, new
<1>11. IsFiniteSet(DOMAIN u)
  <2>1. IsFiniteSet(M)
    BY <1>1, MovesFinite DEF M
  <2> DEFINE child == [m \in M |-> Append(p, m)]
  <2>2. child \in [M -> new] /\ \A q \in new : \E m \in M : child[m] = q
    BY DEF new
  <2>3. IsFiniteSet(new)
    <3> HIDE DEF child
    <3> QED
      BY <2>1, <2>2, ValuesFinite
  <2> QED
    BY <1>4, <2>3, FS_Union, ZenonT(60) DEF Grown
<1>12. u[<<>>].g = RootCircuit(r)
  BY <1>9 DEF Grown, WellFormed
<1>13. <<>> \in Opened(u)
  BY <1>10 DEF Grown
<1>14. ASSUME NEW q \in Opened(u), NEW m \in Moves(r, u, q)
       PROVE  Append(q, m) \in DOMAIN u /\ u[Append(q, m)].g = Made(r, u, q, m)
  <2>1. q \in DOMAIN t
    BY <1>10 DEF Opened
  <2>2. Moves(r, u, q) = Moves(r, t, q) /\ Made(r, u, q, m) = Made(r, t, q, m)
    BY <1>9, <2>1, SameMoves
  <2>3. CASE q \in Opened(t)
    <3>1. Append(q, m) \in DOMAIN t /\ t[Append(q, m)].g = Made(r, t, q, m)
      BY <2>2, <2>3 DEF Grown
    <3> QED
      BY <1>4, <1>9, <2>2, <3>1
  <2>4. CASE q = p
    <3>1. m \in M
      BY <2>2, <2>4 DEF M
    <3>2. u[Append(p, m)].g = Made(r, t, p, m)
      BY <1>7, <3>1
    <3> QED
      BY <1>4, <2>2, <2>4, <3>1, <3>2 DEF new
  <2> QED
    BY <1>10, <2>3, <2>4
<1> QED
  BY <1>11, <1>12, <1>13, <1>14 DEF Grown, u

\* Backing up moves nothing.
LEMMA BackedUpGrown ==
  ASSUME NEW r, NEW t, WellFormed(t), Grown(r, t), NEW p
  PROVE  Grown(r, BackedUp(t, p)) /\ Opened(BackedUp(t, p)) = Opened(t)
<1> DEFINE u == BackedUp(t, p)
<1>1. DOMAIN u = DOMAIN t
  BY DEF BackedUp
<1>2. ASSUME NEW q \in DOMAIN t PROVE u[q].g = t[q].g /\ u[q].open = t[q].open
  <2>1. t[q] \in Node
    BY DEF WellFormed
  <2>2. u[q] = IF q \in Prefixes(p) THEN [t[q] EXCEPT !.visits = t[q].visits + 1] ELSE t[q]
    BY DEF BackedUp
  <2> HIDE DEF u
  <2> QED
    BY <2>1, <2>2 DEF Node
<1> HIDE DEF u
<1>3. Opened(u) = Opened(t)
  BY <1>1, <1>2 DEF Opened
<1>4. u[<<>>].g = RootCircuit(r)
  BY <1>2 DEF Grown, WellFormed
<1>5. ASSUME NEW q \in Opened(u), NEW m \in Moves(r, u, q)
      PROVE  Append(q, m) \in DOMAIN u /\ u[Append(q, m)].g = Made(r, u, q, m)
  <2>1. q \in DOMAIN t /\ q \in Opened(t)
    BY <1>3 DEF Opened
  <2>2. Moves(r, u, q) = Moves(r, t, q) /\ Made(r, u, q, m) = Made(r, t, q, m)
    BY <1>2, <2>1, SameMoves
  <2>3. Append(q, m) \in DOMAIN t /\ t[Append(q, m)].g = Made(r, t, q, m)
    BY <2>1, <2>2 DEF Grown
  <2> QED
    BY <1>1, <1>2, <2>2, <2>3
<1> QED
  BY <1>1, <1>3, <1>4, <1>5 DEF Grown, u

\* So does a simulation, and the first one opens the root.
LEMMA SimulatedGrown ==
  ASSUME Candidates, NEW r \in Roots, NEW t, WellFormed(t), Explored(t), Grown(r, t),
         NEW u \in Simulated(r, t)
  PROVE  Grown(r, u) /\ <<>> \in Opened(u)
<1>1. ASSUME NEW p \in DOMAIN t \ Opened(t), ~ Expandable(t, p), u = BackedUp(t, p)
      PROVE  Grown(r, u) /\ <<>> \in Opened(u)
  <2>1. <<>> \in Opened(t)
    <3> SUFFICES ASSUME <<>> \notin Opened(t) PROVE FALSE
      OBVIOUS
    <3>1. p = <<>> /\ Opened(t) = {}
      BY DEF Grown, Opened
    <3>2. Len(<<>>) < MaxDepth /\ Cardinality(Opened(t)) < MaxExpansions
      BY <3>1, FS_EmptySet, SearchAssumption
    <3> QED
      BY <1>1, <3>1, <3>2 DEF Expandable, Stopped
  <2> QED
    BY <1>1, <2>1, BackedUpGrown
<1>2. ASSUME NEW p \in DOMAIN t \ Opened(t), Expandable(t, p),
             NEW q \in Preferable(Expanded(r, t, p), p), u = BackedUp(Expanded(r, t, p), q)
      PROVE  Grown(r, u) /\ <<>> \in Opened(u)
  <2>1. WellFormed(Expanded(r, t, p))
    BY <1>2, ExpandedFacts
  <2>2. Grown(r, Expanded(r, t, p)) /\ <<>> \in Opened(Expanded(r, t, p))
    BY ExpandedGrown
  <2> QED
    BY <1>2, <2>1, <2>2, BackedUpGrown
<1> QED
  BY <1>1, <1>2 DEF Simulated
-----------------------------------------------------------------------------
(* The two circuits                                                        *)

\* Every tree is grown, and its root opened once it ran a simulation.
FoundInv ==
  /\ SearchInv
  /\ \A r \in Roots : /\ Grown(r, trees[r])
                      /\ left[r] < Share(r) => <<>> \in Opened(trees[r])

LEMMA FoundInit == Init => FoundInv
<1> SUFFICES ASSUME Init PROVE FoundInv
  OBVIOUS
<1>1. SearchInv /\ Candidates
  BY SearchInit, PoolTypes DEF SearchInv
<1>2. ASSUME NEW r \in Roots PROVE Grown(r, trees[r])
  <2> DEFINE t == [p \in {<<>>} |-> NewNode(RootCircuit(r))]
  <2>1. trees[r] = t
    BY DEF Init
  <2>2. DOMAIN t = {<<>>} /\ ~ t[<<>>].open /\ t[<<>>].g = RootCircuit(r)
    BY DEF NewNode
  <2> HIDE DEF t
  <2>3. Opened(t) = {} /\ IsFiniteSet({<<>>})
    BY <2>2, FS_Singleton DEF Opened
  <2> QED
    BY <2>1, <2>2, <2>3 DEF Grown
<1>3. ASSUME NEW r \in Roots PROVE ~ (left[r] < Share(r))
  <2>1. left[r] = Share(r) /\ Share(r) \in Nat
    BY <1>1, ShareNat DEF Init
  <2> QED
    BY <2>1
<1> QED
  BY <1>1, <1>2, <1>3 DEF FoundInv

\* Moves and circuits are read off the candidates, which no step changes.
LEMMA GrownStays ==
  ASSUME mode' = mode, cands' = cands, NEW CONSTANT r, Grown(r, trees'[r])
  PROVE  Grown(r, trees[r])'
<1>1. \A k : Place(k)' = Place(k)
  BY DEF Place, Before
<1>2. \A id : CircuitOf(id)' = CircuitOf(id)
  BY DEF CircuitOf, LastWith
<1>3. RootCircuit(r)' = RootCircuit(r)
  BY <1>2 DEF RootCircuit
<1>4. \A p : Moves(r, trees[r], p)' = Moves(r, trees'[r], p)
  BY <1>1 DEF Moves
<1>5. \A p, m : Made(r, trees[r], p, m)' = Made(r, trees'[r], p, m)
  BY <1>2 DEF Made
<1> QED
  BY <1>3, <1>4, <1>5 DEF Grown, Opened

LEMMA FoundSimulate == FoundInv /\ Simulate => FoundInv'
<1> SUFFICES ASSUME FoundInv, Simulate PROVE FoundInv'
  OBVIOUS
<1>1. PICK r \in Searching :
         /\ \E t \in Simulated(r, trees[r]) : trees' = [trees EXCEPT ![r] = t]
         /\ left' = [left EXCEPT ![r] = left[r] - 1]
  BY DEF Simulate
<1>2. PICK t \in Simulated(r, trees[r]) : trees' = [trees EXCEPT ![r] = t]
  BY <1>1
<1>3. mode' = mode /\ cands' = cands
  BY DEF Simulate
<1>4. Candidates /\ TypeOK /\ Progressed
  BY PoolTypes DEF FoundInv, SearchInv
<1>5. r \in Roots
  BY <1>4 DEF Searching, TypeOK
<1>6. Grown(r, t) /\ <<>> \in Opened(t)
  BY <1>2, <1>4, <1>5, SimulatedGrown DEF TypeOK, Progressed, FoundInv
<1>7. Roots' = Roots
  BY <1>3 DEF Roots, Ids
<1>8. \A s \in Roots : Share(s)' = Share(s)
  BY <1>3 DEF Share, Place, Before, LastWith
<1>9. trees'[r] = t /\ \A s \in Roots \ {r} : trees'[s] = trees[s]
  BY <1>2, <1>4, <1>5 DEF TypeOK
<1>10. \A s \in Roots \ {r} : left'[s] = left[s]
  BY <1>1, <1>4, <1>5 DEF TypeOK
<1>11. ASSUME NEW s \in Roots
       PROVE  /\ Grown(s, trees'[s])
              /\ left'[s] < Share(s) => <<>> \in Opened(trees'[s])
  BY <1>6, <1>9, <1>10 DEF FoundInv
<1>12. ASSUME NEW s \in Roots PROVE Grown(s, trees[s])'
  BY <1>3, <1>11, GrownStays
<1>13. \A s \in Roots : (left[s] < Share(s) => <<>> \in Opened(trees[s]))'
  BY <1>8, <1>11 DEF Opened
<1>14. SearchInv'
  BY SearchSimulate DEF FoundInv
<1> QED
  BY <1>7, <1>12, <1>13, <1>14 DEF FoundInv

LEMMA FoundStutter ==
  FoundInv /\ UNCHANGED <<mode, cands, trees, left>> /\ phase' \in {"search", "done", "failed"}
    => FoundInv'
<1> SUFFICES ASSUME FoundInv, UNCHANGED <<mode, cands, trees, left>>,
                    phase' \in {"search", "done", "failed"}
             PROVE  FoundInv'
  OBVIOUS
<1>1. Roots' = Roots
  BY DEF Roots, Ids
<1>2. \A s \in Roots : Share(s)' = Share(s)
  BY DEF Share, Place, Before, LastWith
<1>3. ASSUME NEW s \in Roots PROVE Grown(s, trees[s])'
  <2>1. Grown(s, trees'[s])
    BY DEF FoundInv
  <2> QED
    BY <2>1, GrownStays
<1>4. \A s \in Roots : (left[s] < Share(s) => <<>> \in Opened(trees[s]))'
  BY <1>2 DEF Opened, FoundInv
<1>5. SearchInv'
  BY SearchStutter DEF FoundInv
<1> QED
  BY <1>1, <1>3, <1>4, <1>5 DEF FoundInv

LEMMA RootsFinite ==
  ASSUME Candidates
  PROVE  IsFiniteSet(Roots) /\ Ids # {}
<1> DEFINE f == [k \in DOMAIN cands |-> cands[k].id]
<1>1. IsFiniteSet(DOMAIN cands) /\ 1 \in DOMAIN cands
  BY FS_Interval DEF Candidates
<1>2. f \in [DOMAIN cands -> Ids] /\ \A id \in Ids : \E k \in DOMAIN cands : f[k] = id
  BY DEF Ids
<1>3. IsFiniteSet(Ids)
  <2> HIDE DEF f
  <2> QED
    BY <1>1, <1>2, ValuesFinite
<1>4. IsFiniteSet({SuperRoot})
  BY FS_Singleton
<1>5. Ids # {}
  BY <1>1 DEF Ids
<1> QED
  BY <1>3, <1>4, <1>5 DEF Roots

\* A search finds finitely many circuits.
LEMMA FoundFinite ==
  ASSUME FoundInv
  PROVE  IsFiniteSet(Nodes) /\ IsFiniteSet(Found)
<1> DEFINE Of(r) == {<<r, p>> : p \in DOMAIN trees[r]}
           all == {Of(r) : r \in Roots}
<1>1. Candidates /\ DOMAIN trees = Roots
  BY PoolTypes DEF FoundInv, SearchInv, TypeOK
<1>2. ASSUME NEW r \in Roots PROVE IsFiniteSet(Of(r))
  <2> DEFINE f == [p \in DOMAIN trees[r] |-> <<r, p>>]
             T == Of(r)
  <2>1. IsFiniteSet(DOMAIN trees[r])
    BY DEF FoundInv, Grown
  <2>2. f \in [DOMAIN trees[r] -> T] /\ \A n \in T : \E p \in DOMAIN trees[r] : f[p] = n
    OBVIOUS
  <2>3. IsFiniteSet(T)
    <3> HIDE DEF f, T
    <3> QED
      BY <2>1, <2>2, ValuesFinite
  <2> QED
    BY <2>3
<1>3. IsFiniteSet(all)
  <2> DEFINE f == [r \in Roots |-> Of(r)]
  <2>1. f \in [Roots -> all] /\ \A T \in all : \E r \in Roots : f[r] = T
    BY Zenon
  <2>2. IsFiniteSet(Roots)
    BY <1>1, RootsFinite
  <2> HIDE DEF f, all
  <2> QED
    BY <2>1, <2>2, ValuesFinite
<1>4. \A T \in all : IsFiniteSet(T)
  BY <1>2, Zenon
<1>5. Nodes = UNION all
  BY <1>1 DEF Nodes
<1>6. IsFiniteSet(Nodes)
  <2> HIDE DEF all
  <2> QED
    BY <1>3, <1>4, <1>5, FS_UNION
<1> DEFINE g == [n \in Nodes |-> NodeAt(n).g]
<1>7. g \in [Nodes -> Found] /\ \A c \in Found : \E n \in Nodes : g[n] = c
  BY Zenon DEF Found
<1>8. IsFiniteSet(Found)
  <2> HIDE DEF g
  <2> QED
    BY <1>6, <1>7, ValuesFinite
<1> QED
  BY <1>6, <1>8

\* The visits of a circuit are a number.
LEMMA VisitsNat ==
  ASSUME FoundInv, NEW c
  PROVE  Visits(c) \in Nat
<1> DEFINE S == {n \in Nodes : NodeAt(n).g = c}
           v == [n \in S |-> NodeAt(n).visits]
<1>1. IsFiniteSet(S)
  BY FoundFinite, FS_Subset
<1>2. v \in [S -> Nat]
  <2>1. ASSUME NEW n \in S PROVE NodeAt(n).visits \in Nat
    <3>1. PICK r \in DOMAIN trees : n \in {<<r, p>> : p \in DOMAIN trees[r]}
      BY DEF Nodes
    <3>2. PICK p \in DOMAIN trees[r] : n = <<r, p>>
      BY <3>1
    <3>3. trees[r][p] \in Node
      BY DEF FoundInv, SearchInv, TypeOK, WellFormed
    <3> QED
      BY <3>2, <3>3 DEF NodeAt, Node
  <2> QED
    BY <2>1
<1>3. \A s \in SUBSET S : s # {} => v[OneOf(s)] = NodeAt(OneOf(s)).visits
  BY DEF OneOf
<1>4. \E f : Sums(v, S, f)
  <2> HIDE DEF S, v
  <2> QED
    BY <1>1, <1>2, SumsExist
<1>5. Visits(c) = (CHOOSE f : f = [s \in SUBSET S |->
                     IF s = {} THEN 0
                     ELSE NodeAt(OneOf(s)).visits + f[s \ {OneOf(s)}]])[S]
  BY Zenon DEF Visits, MapThenSumSet, MapThenFoldSet, OneOf
<1>6. \A f : Sums(v, S, f) <=>
        f = [s \in SUBSET S |-> IF s = {} THEN 0
                                ELSE NodeAt(OneOf(s)).visits + f[s \ {OneOf(s)}]]
  <2> TAKE f
  <2>1. [s \in SUBSET S |-> IF s = {} THEN 0 ELSE v[OneOf(s)] + f[s \ {OneOf(s)}]]
          = [s \in SUBSET S |-> IF s = {} THEN 0
                                ELSE NodeAt(OneOf(s)).visits + f[s \ {OneOf(s)}]]
    <3> HIDE DEF v, S
    <3> QED
      BY <1>3
  <2> QED
    BY <2>1, Zenon DEF Sums
<1>7. PICK f : Sums(v, S, f) /\ Visits(c) = f[S]
  <2> HIDE DEF v, S
  <2>1. PICK h : Sums(v, S, h)
    BY <1>4
  <2> DEFINE k == CHOOSE f : f = [s \in SUBSET S |->
                     IF s = {} THEN 0
                     ELSE NodeAt(OneOf(s)).visits + f[s \ {OneOf(s)}]]
  <2>2. k = [s \in SUBSET S |-> IF s = {} THEN 0
                     ELSE NodeAt(OneOf(s)).visits + k[s \ {OneOf(s)}]]
    BY <2>1, <1>6, Zenon
  <2>3. Visits(c) = k[S]
    BY <1>5
  <2> HIDE DEF k
  <2> QED
    BY <2>2, <2>3, <1>6, Zenon
<1> HIDE DEF S, v
<1> QED
  BY <1>1, <1>2, <1>7, SumsNat

\* Two circuits found can be ranked by their visits.
LEMMA TopTwoExists ==
  ASSUME FoundInv, NEW a \in Found, NEW b \in Found, a # b
  PROVE  TopTwo # {}
<1> DEFINE v == [c \in Found |-> Visits(c)]
<1>1. IsFiniteSet(Found) /\ v \in [Found -> Nat]
  BY FoundFinite, VisitsNat
<1>2. PICK x \in Found : \A c \in Found : v[x] >= v[c]
  <2> HIDE DEF v
  <2> QED
    BY <1>1, Largest
<1> DEFINE rest == Found \ {x}
           w == [c \in rest |-> Visits(c)]
<1>3. IsFiniteSet(rest) /\ rest # {} /\ w \in [rest -> Nat]
  BY <1>1, FS_Subset, VisitsNat
<1>4. PICK y \in rest : \A c \in rest : w[y] >= w[c]
  <2> HIDE DEF w, rest
  <2> QED
    BY <1>3, Largest
<1>5. y \in Found /\ x # y /\ Visits(x) >= Visits(y)
  BY <1>2, <1>4
<1>6. \A c \in Found \ {x, y} : Visits(y) >= Visits(c)
  BY <1>4
<1>7. <<x, y>> \in TopTwo
  <2> HIDE DEF rest, w, v
  <2> QED
    BY <1>5, <1>6 DEF TopTwo
<1> QED
  BY <1>7

\* Every seed a search can start from is found by the time the search is over.
LEMMA OfferableFound ==
  ASSUME FoundInv, Searching = {}
  PROVE  Offerable \subseteq Found
<1>1. Candidates /\ TypeOK
  BY PoolTypes DEF FoundInv, SearchInv
<1> SUFFICES ASSUME NEW k \in DOMAIN cands, mode \in OneTree => Place(k) < MaxChildren
             PROVE  CircuitOf(cands[k].id) \in Found
  BY DEF Offerable
<1>2. cands[k].id \in Ids /\ cands[k] \in [id : Nat \ {SuperRoot}, g : Graphs]
  <2>1. DOMAIN cands = 1 .. Len(cands) /\ cands \in Seq([id : Nat \ {SuperRoot}, g : Graphs])
    BY <1>1 DEF Candidates
  <2>2. cands[k] \in [id : Nat \ {SuperRoot}, g : Graphs]
    BY <2>1, ElementOfSeq
  <2> QED
    BY <2>2 DEF Ids
<1>3. SUFFICES \E n \in Nodes : NodeAt(n).g = CircuitOf(cands[k].id)
  BY DEF Found
<1>4. CASE mode \notin OneTree
  <2> DEFINE r == cands[k].id
             n == <<r, <<>>>>
  <2>1. r \in Roots /\ RootCircuit(r) = CircuitOf(r)
    BY <1>2, <1>4 DEF Roots, RootCircuit
  <2>2. <<>> \in DOMAIN trees[r] /\ r \in DOMAIN trees
    BY <1>1, <2>1 DEF TypeOK, WellFormed
  <2>3. trees[r][<<>>].g = CircuitOf(r)
    BY <2>1 DEF FoundInv, Grown
  <2>4. n \in Nodes
    BY <2>2 DEF Nodes
  <2>5. NodeAt(n).g = CircuitOf(r)
    BY <2>3 DEF NodeAt
  <2> QED
    BY <2>4, <2>5
<1>5. CASE mode \in OneTree
  <2> DEFINE t == trees[SuperRoot]
             p == Append(<<>>, k)
             n == <<SuperRoot, p>>
  <2>1. SuperRoot \in Roots /\ SuperRoot \in DOMAIN trees
    BY <1>1, <1>5 DEF Roots, TypeOK
  <2>2. left[SuperRoot] \in Nat /\ ~ (left[SuperRoot] > 0)
    BY <1>1, <2>1 DEF TypeOK, Searching
  <2>3. left[SuperRoot] < Share(SuperRoot)
    BY <2>2, SearchAssumption DEF Share
  <2>4. <<>> \in Opened(t)
    BY <2>1, <2>3 DEF FoundInv
  <2>5. k \in Moves(SuperRoot, t, <<>>)
    BY <1>5 DEF Moves
  <2>6. p \in DOMAIN t /\ t[p].g = Made(SuperRoot, t, <<>>, k)
    BY <2>1, <2>4, <2>5 DEF FoundInv, Grown
  <2>7. Made(SuperRoot, t, <<>>, k) = CircuitOf(cands[k].id)
    BY DEF Made
  <2>8. n \in Nodes
    BY <2>1, <2>6 DEF Nodes
  <2>9. NodeAt(n).g = CircuitOf(cands[k].id)
    BY <2>6, <2>7 DEF NodeAt
  <2> QED
    BY <2>8, <2>9
<1> QED
  BY <1>4, <1>5

\* What the first list that has another circuit supplies is another circuit.
LEMMA AnotherDiffers ==
  ASSUME NEW g, NEW lists, NEW b \in Another(g, lists)
  PROVE  b # g
  BY DEF Another

LEMMA PairsDiffer ==
  ASSUME NEW firsts, NEW lists, NEW o \in PairsWith(firsts, lists)
  PROVE  o[1] # o[2]
<1>1. PICK a \in firsts : o \in {<<a, b>> : b \in Another(a, lists)}
  BY DEF PairsWith
<1>2. PICK b \in Another(a, lists) : o = <<a, b>>
  BY <1>1
<1>3. b # a
  BY AnotherDiffers
<1> QED
  BY <1>2, <1>3

\* With two seeds the portfolio always has a second circuit to offer.
LEMMA PairsExist ==
  ASSUME NEW X, NEW Y, NEW Z, NEW a \in Z, NEW b \in Z, a # b
  PROVE  PairsWith(Z, <<X, Y, Z>>) # {}
<1> DEFINE lists == <<X, Y, Z>>
           having == {i \in DOMAIN lists : lists[i] \ {a} # {}}
<1>1. having \in SUBSET Nat /\ 3 \in having
  <2>1. DOMAIN lists = 1 .. 3 /\ lists[3] = Z
    OBVIOUS
  <2> HIDE DEF lists
  <2> QED
    BY <2>1
<1> HIDE DEF lists, having
<1>2. Min(having) \in having
  <2>1. \E i \in having : \A j \in having : i <= j
    BY <1>1, LeastNumber
  <2> QED
    BY <2>1 DEF Min
<1>3. lists[Min(having)] \ {a} # {} /\ Another(a, lists) = lists[Min(having)] \ {a}
  BY <1>2 DEF Another, having
<1>4. PICK c \in Another(a, lists) : TRUE
  BY <1>3
<1>5. <<a, c>> \in PairsWith(Z, lists)
  BY <1>4 DEF PairsWith
<1> QED
  BY <1>5 DEF lists

LEMMA SelectTwo == FoundInv /\ Select => SelectsTwo'
<1> SUFFICES ASSUME FoundInv, Select PROVE SelectsTwo'
  OBVIOUS
<1>1. Searching = {} /\ mode' = mode /\ cands' = cands
  BY DEF Select
<1>2. PICK f \in AllOffers :
         IF Selections(f) = {} THEN phase' = "failed" /\ UNCHANGED output
         ELSE output' \in Selections(f) /\ phase' = "done"
  BY Zenon DEF Select
<1>3. Candidates /\ TypeOK /\ mode \in OneTree \cup {"per_seed", "per_seed_pv", "portfolio"}
  BY PoolTypes, SearchAssumption DEF FoundInv, SearchInv, TypeOK
<1>4. \A o \in TopTwo : o[1] # o[2]
  BY DEF TopTwo
<1>5. ASSUME phase' = "done", mode # "one_root_cc"
      PROVE  output'[1] # output'[2]
  <2>1. output' \in Selections(f)
    BY <1>2, <1>5
  <2>2. CASE mode \in {"one_root", "per_seed"}
    <3>1. Selections(f) = TopTwo
      BY <2>2 DEF Selections
    <3> QED
      BY <2>1, <3>1, <1>4
  <2>3. CASE mode = "per_seed_pv"
    <3>1. Selections(f) = PairsWith(Offered(f, 1), <<Offered(f, 1), Offered(f, 2)>>)
      BY <2>3 DEF Selections
    <3> QED
      BY <2>1, <3>1, PairsDiffer
  <2>4. CASE mode = "portfolio"
    <3>1. Selections(f) =
            PairsWith(SeedCircuits, <<Offered(f, 1), Offered(f, 2), SeedCircuits>>)
      BY <2>4 DEF Selections
    <3> QED
      BY <2>1, <3>1, PairsDiffer
  <2> QED
    BY <1>3, <1>5, <2>2, <2>3, <2>4 DEF OneTree
<1>6. ASSUME phase' = "failed", mode # "per_seed_pv", ~ (Cardinality(Offerable) < 2)
      PROVE  FALSE
  <2>1. Selections(f) = {}
    BY <1>2, <1>6
  <2>2. IsFiniteSet(Found) /\ Offerable \subseteq Found
    BY <1>1, FoundFinite, OfferableFound
  <2>3. IsFiniteSet(Offerable)
    BY <2>2, FS_Subset
  <2>4. PICK a, b \in Offerable : a # b
    BY <1>6, <2>3, TwoMembers
  <2>5. PICK o \in TopTwo : TRUE
    BY <2>2, <2>4, TopTwoExists
  <2>6. CASE mode \in {"one_root", "per_seed"}
    <3>1. Selections(f) = TopTwo
      BY <2>6 DEF Selections
    <3> QED
      BY <2>1, <2>5, <3>1
  <2>7. CASE mode = "one_root_cc"
    <3> DEFINE S == {<<cands[k].g, p[1]>> : k \in DOMAIN cands, p \in TopTwo}
    <3>1. Selections(f) = S
      BY <2>7 DEF Selections, ChampionAndChallenger
    <3>2. 1 \in DOMAIN cands
      BY <1>3 DEF Candidates
    <3>3. <<cands[1].g, o[1]>> \in S
      BY <2>5, <3>2
    <3> HIDE DEF S
    <3> QED
      BY <2>1, <3>1, <3>3
  <2>8. CASE mode = "portfolio"
    <3>1. Selections(f) =
            PairsWith(SeedCircuits, <<Offered(f, 1), Offered(f, 2), SeedCircuits>>)
      BY <2>8 DEF Selections
    <3>2. ASSUME NEW c \in Offerable PROVE c \in SeedCircuits
      <4>1. PICK k \in DOMAIN cands : c = CircuitOf(cands[k].id)
        BY DEF Offerable
      <4>2. DOMAIN cands = 1 .. Len(cands)
              /\ cands \in Seq([id : Nat \ {SuperRoot}, g : Graphs])
        BY <1>3 DEF Candidates
      <4>3. cands[k].id # SuperRoot
        <5>1. cands[k] \in [id : Nat \ {SuperRoot}, g : Graphs]
          BY <4>2, ElementOfSeq
        <5> QED
          BY <5>1
      <4>4. cands[k].id \in DOMAIN trees
        BY <1>3, <2>8 DEF TypeOK, Roots, Ids, OneTree
      <4> QED
        BY <4>1, <4>3, <4>4 DEF SeedCircuits, RootCircuit
    <3> QED
      BY <2>1, <2>4, <3>1, <3>2, PairsExist
  <2> QED
    BY <1>3, <1>6, <2>6, <2>7, <2>8 DEF OneTree
<1>7. Offerable' = Offerable
  BY <1>1 DEF Offerable, CircuitOf, LastWith, Place, Before
<1> QED
  BY <1>1, <1>5, <1>6, <1>7 DEF SelectsTwo

\* No step but the selection leaves the search, or changes what was selected.
LEMMA KeepsTwo ==
  ASSUME SelectsTwo,
         phase' = "search" \/ UNCHANGED <<mode, cands, phase, output>>
  PROVE  SelectsTwo'
<1>1. cands' = cands /\ mode' = mode => Offerable' = Offerable
  BY DEF Offerable, CircuitOf, LastWith, Place, Before
<1> QED
  BY <1>1 DEF SelectsTwo

LEMMA TwoInit == Init => FoundInv /\ SelectsTwo
  BY FoundInit DEF Init, SelectsTwo

LEMMA TwoStep == FoundInv /\ SelectsTwo /\ [Next]_vars => FoundInv' /\ SelectsTwo'
<1> SUFFICES ASSUME FoundInv, SelectsTwo, [Next]_vars PROVE FoundInv' /\ SelectsTwo'
  OBVIOUS
<1>1. CASE Simulate
  BY <1>1, FoundSimulate, KeepsTwo DEF Simulate
<1>2. CASE Select
  <2>1. UNCHANGED <<mode, cands, trees, left>> /\ phase' \in {"search", "done", "failed"}
    BY <1>2 DEF Select
  <2> QED
    BY <1>2, <2>1, FoundStutter, SelectTwo
<1>3. CASE UNCHANGED vars
  <2>1. UNCHANGED <<mode, cands, trees, left>> /\ UNCHANGED <<phase, output>>
    BY <1>3 DEF vars
  <2>2. phase' \in {"search", "done", "failed"}
    BY <2>1 DEF FoundInv, SearchInv, TypeOK
  <2> QED
    BY <2>1, <2>2, FoundStutter, KeepsTwo
<1> QED
  BY <1>1, <1>2, <1>3 DEF Next

\* The two circuits handed to the sizing differ, under every rule but the champion and
\* challenger's, and a search that two different seeds could start from delivers two, under
\* every rule but the principal variation's.
THEOREM TwoAreSelected == Spec => []SelectsTwo
<1>1. Spec => [](FoundInv /\ SelectsTwo)
  BY TwoInit, TwoStep, PTL DEF Spec
<1> QED
  BY <1>1, PTL
=============================================================================
