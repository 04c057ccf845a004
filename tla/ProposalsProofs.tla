-------------------------- MODULE ProposalsProofs --------------------------
(***************************************************************************)
(* Theorems about Proposals, for every ladder, cap, number of rounds and   *)
(* stall limit, every finite set of structures and every plan.             *)
(*                                                                         *)
(* BudgetInv follows the attempts from the hunts into the ledger.          *)
(* OfferInv follows the candidates from the hunts into the pool, through   *)
(* the screen and the selector to the rows: no structure is there twice,   *)
(* which is why two candidates are two structures, and before a second     *)
(* round no id is, which is why what was sized is found under its id.      *)
(***************************************************************************)
EXTENDS Proposals, FiniteSetTheorems, FunctionTheorems, SequenceTheorems,
        WellFoundedInduction, TLAPS

Run == [agents : SUBSET Agents, llm : BOOLEAN, gain : GainClasses, demand : Demands,
        floor : Floors, stall : StallStops]

HuntTypes == hunt \in [quota : Nat, attempts : Nat, sinceNew : Nat,
                      seen : Seq(Structures), satisfied : BOOLEAN]

Counts == round \in 0 .. MaxRounds /\ spent \in 0 .. AttemptCap /\ made \in Nat

\* A hunt stays within its quota, the quota within what the ledger has left.
HuntBounded ==
  phase = "hunt" =>
    /\ hunt.attempts <= hunt.quota /\ hunt.attempts <= LadderLength
    /\ WithCritic => round < MaxRounds /\ hunt.quota <= AttemptCap - spent

\* Between hunts the ledger has charged every generation.
Charged ==
  WithCritic => made = spent + (IF phase = "hunt" THEN hunt.attempts ELSE 0)

OneHunt ==
  ~ WithCritic =>
    /\ phase # "round" /\ made <= LadderLength
    /\ phase = "hunt" => made = hunt.attempts

RoundsLeft == phase = "round" => round < MaxRounds

BudgetInv ==
  run \in Run /\ HuntTypes /\ Counts /\ HuntBounded /\ Charged /\ OneHunt /\ RoundsLeft

-----------------------------------------------------------------------------
\* A round's quota is a number of attempts that the ledger still has.
LEMMA QuotaWithinRemaining ==
  ASSUME NEW left \in Nat, round \in Nat
  PROVE  RoundQuota(left) \in Nat /\ RoundQuota(left) <= left
  BY ProposalsAssumption DEF RoundQuota, AtMost, AtLeast

LEMMA BudgetInit == Init => BudgetInv
  BY ProposalsAssumption
  DEF Init, BudgetInv, Run, HuntTypes, Counts, HuntBounded, Charged, OneHunt, RoundsLeft, NewHunt

LEMMA BudgetStartRound == BudgetInv /\ StartRound => BudgetInv'
<1> SUFFICES ASSUME BudgetInv, StartRound PROVE BudgetInv'
  OBVIOUS
<1> USE DEF BudgetInv, StartRound
<1>1. Remaining \in Nat /\ round \in Nat
  BY ProposalsAssumption DEF Counts, Remaining
<1>2. RoundQuota(Remaining) \in Nat /\ RoundQuota(Remaining) <= Remaining
  BY <1>1, QuotaWithinRemaining
<1>3. hunt' = NewHunt(RoundQuota(Remaining)) /\ phase = "round" /\ phase' = "hunt"
  OBVIOUS
<1>4. HuntTypes'
  BY <1>2, <1>3 DEF NewHunt, HuntTypes
<1>5. Counts' /\ run' \in Run
  BY DEF Counts
<1>6. HuntBounded'
  BY <1>2, <1>3, ProposalsAssumption
  DEF NewHunt, HuntBounded, Counts, Remaining, RoundsLeft, WithCritic, Plan
<1>7. Charged'
  BY <1>3 DEF Charged, NewHunt, WithCritic, Counts
<1>8. OneHunt' /\ RoundsLeft'
  BY <1>3 DEF OneHunt, RoundsLeft, WithCritic
<1> QED
  BY <1>4, <1>5, <1>6, <1>7, <1>8

Samplers(S, B) == [quota : Nat, attempts : Nat, sinceNew : Nat, seen : S, satisfied : B]

\* A sampler's record stays one, whatever its two last fields range over.
LEMMA AttemptTypes ==
  ASSUME NEW S, NEW B, NEW n \in Nat, NEW seen \in S, NEW b \in B, NEW h \in Samplers(S, B)
  PROVE  [h EXCEPT !.attempts = h.attempts + 1, !.sinceNew = n, !.seen = seen, !.satisfied = b]
           \in Samplers(S, B)
<1> DEFINE g1 == [h EXCEPT !.attempts = h.attempts + 1]
           g2 == [g1 EXCEPT !.sinceNew = n]
           g3 == [g2 EXCEPT !.seen = seen]
           g4 == [g3 EXCEPT !.satisfied = b]
<1>1. g1 \in Samplers(S, B)
  BY DEF Samplers
<1>2. g2 \in Samplers(S, B)
  <2> HIDE DEF g1
  <2> QED
    BY <1>1 DEF Samplers
<1>3. g3 \in Samplers(S, B)
  <2> HIDE DEF g2
  <2> QED
    BY <1>2 DEF Samplers
<1>4. g4 \in Samplers(S, B)
  <2> HIDE DEF g3
  <2> QED
    BY <1>3 DEF Samplers
<1>5. [h EXCEPT !.attempts = h.attempts + 1, !.sinceNew = n, !.seen = seen, !.satisfied = b] = g4
  BY DEF Samplers
<1> QED
  BY <1>4, <1>5

\* The attempt is counted, the quota kept, and fields left alone are fields set to themselves.
LEMMA AttemptFields ==
  ASSUME NEW S, NEW B, NEW n \in Nat, NEW seen \in S, NEW b \in B, NEW h \in Samplers(S, B)
  PROVE  LET g == [h EXCEPT !.attempts = h.attempts + 1, !.sinceNew = n, !.seen = seen,
                     !.satisfied = b]
         IN g.attempts = h.attempts + 1 /\ g.quota = h.quota
  BY DEF Samplers

LEMMA AttemptRepeats ==
  ASSUME NEW S, NEW B, NEW n \in Nat, NEW h \in Samplers(S, B)
  PROVE  [h EXCEPT !.attempts = h.attempts + 1, !.sinceNew = n]
           = [h EXCEPT !.attempts = h.attempts + 1, !.sinceNew = n, !.seen = h.seen,
                !.satisfied = h.satisfied]
  BY DEF Samplers

\* A generation adds one attempt and keeps the sampler's record what it is.
LEMMA HuntGrows ==
  ASSUME HuntTypes, Generate
  PROVE  hunt'.attempts = hunt.attempts + 1 /\ hunt'.quota = hunt.quota /\ HuntTypes'
<1>1. PICK x \in Structures \cup {Invalid} :
        hunt' = IF x \in Unusable
                THEN [hunt EXCEPT !.attempts = @ + 1, !.sinceNew = @ + 1]
                ELSE LET seen == Append(hunt.seen, x)
                     IN [hunt EXCEPT !.attempts = @ + 1, !.sinceNew = 0, !.seen = seen,
                           !.satisfied = /\ WithCritic /\ Len(seen) >= run.floor
                                         /\ Satisfies(Emitted(seen))]
  BY DEF Generate
<1> DEFINE next(n, seen, judged) == [hunt EXCEPT !.attempts = hunt.attempts + 1, !.sinceNew = n,
                                       !.seen = seen, !.satisfied = judged]
<1>2. ASSUME NEW n \in Nat, NEW seen \in Seq(Structures), NEW judged \in BOOLEAN,
             hunt' = next(n, seen, judged)
      PROVE  hunt'.attempts = hunt.attempts + 1 /\ hunt'.quota = hunt.quota /\ HuntTypes'
  <2>1. hunt \in Samplers(Seq(Structures), BOOLEAN)
    BY DEF HuntTypes, Samplers
  <2>2. hunt' \in Samplers(Seq(Structures), BOOLEAN)
    BY <1>2, <2>1, AttemptTypes
  <2>3. hunt'.attempts = hunt.attempts + 1 /\ hunt'.quota = hunt.quota
    BY <1>2, <2>1, AttemptFields
  <2> QED
    BY <2>2, <2>3 DEF HuntTypes, Samplers
<1>3. CASE x \in Unusable
  <2>1. hunt.sinceNew \in Nat /\ hunt.seen \in Seq(Structures) /\ hunt.satisfied \in BOOLEAN
    BY DEF HuntTypes
  <2>2. hunt' = next(hunt.sinceNew + 1, hunt.seen, hunt.satisfied)
    <3>1. hunt' = [hunt EXCEPT !.attempts = hunt.attempts + 1, !.sinceNew = hunt.sinceNew + 1]
      BY <1>1, <1>3
    <3>2. hunt \in Samplers(Seq(Structures), BOOLEAN) /\ hunt.sinceNew + 1 \in Nat
      BY <2>1 DEF HuntTypes, Samplers
    <3> QED
      BY <3>1, <3>2, AttemptRepeats
  <2>3. hunt.sinceNew + 1 \in Nat
    BY <2>1
  <2> HIDE DEF next
  <2> QED
    BY <1>2, <2>1, <2>2, <2>3
<1>4. CASE x \notin Unusable
  <2> DEFINE judged == WithCritic /\ Len(Append(hunt.seen, x)) >= run.floor
                                  /\ Satisfies(Emitted(Append(hunt.seen, x)))
  <2>1. Append(hunt.seen, x) \in Seq(Structures)
    BY <1>4 DEF Unusable, HuntTypes
  <2>2. judged \in BOOLEAN
    BY ZenonT(20)
  <2>3. hunt' = next(0, Append(hunt.seen, x), judged)
    BY <1>1, <1>4
  <2> HIDE DEF judged, next
  <2> QED
    BY <1>2, <2>1, <2>2, <2>3
<1> QED
  BY <1>3, <1>4

LEMMA BudgetGenerate == BudgetInv /\ Generate => BudgetInv'
<1> SUFFICES ASSUME BudgetInv, Generate PROVE BudgetInv'
  OBVIOUS
<1> USE DEF BudgetInv
<1>1. /\ phase = "hunt" /\ phase' = "hunt" /\ made' = made + 1
      /\ UNCHANGED <<run, round, spent>> /\ ~HuntOver
  BY DEF Generate
<1>2. hunt'.attempts = hunt.attempts + 1 /\ hunt'.quota = hunt.quota /\ HuntTypes'
  BY HuntGrows
<1>3. hunt.attempts < hunt.quota /\ hunt.attempts < LadderLength
  BY <1>1, ProposalsAssumption DEF HuntOver, AtMost, HuntTypes
<1>4. Counts' /\ run' \in Run
  BY <1>1 DEF Counts
<1>5. HuntBounded'
  BY <1>1, <1>2, <1>3, ProposalsAssumption, SMTT(30) DEF HuntBounded, HuntTypes, WithCritic, Counts
<1>6. Charged'
  BY <1>1, <1>2, SMTT(30) DEF Charged, WithCritic, HuntTypes, Counts
<1>7. OneHunt' /\ RoundsLeft'
  BY <1>1, <1>2, <1>3, ProposalsAssumption DEF OneHunt, RoundsLeft, WithCritic, HuntTypes, Counts
<1> QED
  BY <1>2, <1>4, <1>5, <1>6, <1>7

LEMMA BudgetEndRound == BudgetInv /\ EndRound => BudgetInv'
<1> SUFFICES ASSUME BudgetInv, EndRound PROVE BudgetInv'
  OBVIOUS
<1> USE DEF BudgetInv
<1>1. phase = "hunt" /\ WithCritic /\ UNCHANGED <<run, hunt, made>>
  BY DEF EndRound
<1>2. hunt.attempts <= Remaining /\ round < MaxRounds /\ hunt.attempts \in Nat
  BY <1>1, ProposalsAssumption DEF HuntBounded, Remaining, Counts, HuntTypes
<1>3. /\ spent' = spent + hunt.attempts /\ round' = round + 1
      /\ phase' \in {"offered", "round"}
      /\ phase' = "round" => round' # MaxRounds
  BY <1>1, <1>2, ProposalsAssumption DEF EndRound, Remaining, Counts
<1>4. Counts' /\ run' \in Run /\ HuntTypes'
  BY <1>1, <1>2, <1>3, ProposalsAssumption DEF Counts, Remaining, HuntTypes
<1>5. Charged' /\ OneHunt'
  BY <1>1, <1>2, <1>3 DEF Charged, OneHunt, WithCritic, Counts, HuntTypes
<1>6. HuntBounded' /\ RoundsLeft'
  BY <1>2, <1>3, ProposalsAssumption DEF HuntBounded, RoundsLeft, Counts
<1> QED
  BY <1>1, <1>4, <1>5, <1>6

\* The other steps leave the budget as it is and do not go back to proposing.
LEMMA BudgetOther ==
  ASSUME BudgetInv, UNCHANGED <<run, round, spent, hunt, made>>,
         phase' \notin {"hunt", "round"} \/ phase' = phase,
         phase = "hunt" /\ phase' # "hunt" => ~WithCritic
  PROVE  BudgetInv'
  BY ProposalsAssumption
  DEF BudgetInv, HuntTypes, Counts, HuntBounded, Charged, OneHunt, RoundsLeft, WithCritic

LEMMA BudgetStep == BudgetInv /\ [Next]_vars => BudgetInv'
<1> SUFFICES ASSUME BudgetInv, [Next]_vars PROVE BudgetInv'
  OBVIOUS
<1>1. CASE StartRound
  BY <1>1, BudgetStartRound
<1>2. CASE Generate
  BY <1>2, BudgetGenerate
<1>3. CASE OneShot
  BY <1>3, BudgetOther DEF OneShot
<1>4. CASE EndRound
  BY <1>4, BudgetEndRound
<1>5. CASE Retrieve
  BY <1>5, BudgetOther DEF Retrieve
<1>6. CASE Abort
  BY <1>6, BudgetOther DEF Abort
<1>7. CASE Screen
  BY <1>7, BudgetOther DEF Screen
<1>8. CASE Choose
  <2>1. phase' \in {"failed", "sizing"} /\ UNCHANGED <<run, round, spent, hunt, made>>
    BY <1>8 DEF Choose
  <2>2. phase = "screened"
    BY <1>8 DEF Choose
  <2> QED
    BY <2>1, <2>2, BudgetOther
<1>9. CASE Measure
  BY <1>9, BudgetOther DEF Measure
<1>10. CASE Harvest
  BY <1>10, BudgetOther DEF Harvest
<1>11. CASE UNCHANGED vars
  BY <1>11, BudgetOther DEF vars
<1> QED
  BY <1>1, <1>2, <1>3, <1>4, <1>5, <1>6, <1>7, <1>8, <1>9, <1>10, <1>11 DEF Next

\* The attempts of all rounds together stay within the cap and the ledger has charged each.
THEOREM BudgetHolds == Spec => []AttemptsWithinCap
<1>1. BudgetInv => AttemptsWithinCap
  <2> SUFFICES ASSUME BudgetInv PROVE AttemptsWithinCap
    OBVIOUS
  <2>1. CASE WithCritic
    BY <2>1, ProposalsAssumption
    DEF BudgetInv, AttemptsWithinCap, Charged, HuntBounded, Counts, HuntTypes
  <2>2. CASE ~WithCritic
    BY <2>2, ProposalsAssumption DEF BudgetInv, AttemptsWithinCap, OneHunt, Counts
  <2> QED
    BY <2>1, <2>2
<1> QED
  BY <1>1, BudgetInit, BudgetStep, PTL DEF Spec

-----------------------------------------------------------------------------
(* Lists and the places in them.                                           *)

LEMMA LeastNumber ==
  ASSUME NEW S \in SUBSET Nat, S # {}
  PROVE  \E x \in S : \A y \in S : x <= y
<1>1. \E x \in S : \A y \in S : ~ (<<y, x>> \in OpToRel(<, Nat))
  BY WFMin, NatLessThanWellFounded, Zenon
<1>2. PICK x \in S : \A y \in S : ~ (y < x)
  BY <1>1, Zenon DEF OpToRel
<1> QED
  BY <1>2

LEMMA GreatestNumber ==
  ASSUME NEW n \in Nat, NEW S \in SUBSET (1 .. n), S # {}
  PROVE  \E x \in S : \A y \in S : y <= x
<1> DEFINE T == {n - x : x \in S}
<1>1. T \in SUBSET Nat /\ T # {}
  <2>1. ASSUME NEW x \in S PROVE n - x \in Nat
    <3>1. x \in 1 .. n
      OBVIOUS
    <3> QED
      BY <3>1
  <2> QED
    BY <2>1
<1>2. PICK m \in T : \A y \in T : m <= y
  <2> HIDE DEF T
  <2> QED
    BY <1>1, LeastNumber
<1>3. PICK x \in S : m = n - x
  OBVIOUS
<1>4. ASSUME NEW y \in S PROVE y <= x
  <2>1. n - y \in T
    OBVIOUS
  <2> QED
    BY <1>2, <1>3, <2>1
<1> QED
  BY <1>4

\* A function on 1 .. n is a list of n entries.
LEMMA ListOf ==
  ASSUME NEW S, NEW n \in Nat, NEW f \in [1 .. n -> S]
  PROVE  f \in Seq(S) /\ Len(f) = n /\ DOMAIN f = 1 .. n
  BY SeqDef

\* Counting from the first, each of the places in I has a number of its own, and the
\* numbers are those from 1 to the number of places.
LEMMA PlacesNumbered ==
  ASSUME NEW n \in Nat, NEW I \in SUBSET (1 .. n)
  PROVE  /\ Cardinality(I) \in Nat
         /\ \A k \in 1 .. Cardinality(I) : NthPlace(I, k) \in I
         /\ \A k, l \in 1 .. Cardinality(I) : NthPlace(I, k) = NthPlace(I, l) => k = l
         /\ \A i \in I : \E k \in 1 .. Cardinality(I) : NthPlace(I, k) = i
<1> DEFINE Upto(i) == {j \in I : j <= i}
           rank == [i \in I |-> Cardinality(Upto(i))]
           m == Cardinality(I)
<1>1. IsFiniteSet(I) /\ m \in Nat
  <2>1. IsFiniteSet(1 .. n)
    BY FS_Interval
  <2> QED
    BY <2>1, FS_Subset, FS_CardinalityType
<1>2. ASSUME NEW i \in I
      PROVE  IsFiniteSet(Upto(i)) /\ rank[i] \in Nat /\ rank[i] <= m /\ 1 <= rank[i]
  <2>1. Upto(i) \in SUBSET I /\ i \in Upto(i)
    OBVIOUS
  <2>2. IsFiniteSet(Upto(i)) /\ Cardinality(Upto(i)) <= m /\ Cardinality(Upto(i)) \in Nat
    BY <1>1, <2>1, FS_Subset, FS_CardinalityType
  <2>3. Cardinality(Upto(i)) # 0
    BY <2>1, <2>2, FS_EmptySet
  <2> QED
    BY <1>1, <2>2, <2>3
<1>3. ASSUME NEW i \in I, NEW j \in I, i < j
      PROVE  rank[i] < rank[j]
  <2>1. Upto(i) \in SUBSET Upto(j) /\ j \in Upto(j) /\ j \notin Upto(i)
    <3>1. i \in Int /\ j \in Int
      OBVIOUS
    <3>2. ASSUME NEW k \in I, k <= i PROVE k <= j
      <4>1. k \in Int
        OBVIOUS
      <4> QED
        BY <1>3, <3>1, <3>2, <4>1
    <3>3. j <= j /\ ~ (j <= i)
      BY <1>3, <3>1
    <3> QED
      BY <3>2, <3>3
  <2>2. Cardinality(Upto(i)) <= Cardinality(Upto(j)) /\ Cardinality(Upto(i)) # Cardinality(Upto(j))
    <3> HIDE DEF Upto
    <3> QED
      BY <1>2, <2>1, FS_Subset
  <2> QED
    BY <1>2, <2>2
<1>4. ASSUME NEW i \in I, NEW j \in I, rank[i] = rank[j]
      PROVE  i = j
  <2>1. i \in Nat /\ j \in Nat
    OBVIOUS
  <2>2. rank[i] \in Nat
    BY <1>2
  <2>3. ~ (i < j) /\ ~ (j < i)
    <3> HIDE DEF rank
    <3> QED
      BY <1>3, <1>4, <2>2
  <2> QED
    BY <2>1, <2>3
<1>5. rank \in Surjection(I, 1 .. m)
  <2>1. rank \in [I -> 1 .. m]
    <3>1. \A i \in I : Cardinality(Upto(i)) \in 1 .. m
      BY <1>1, <1>2
    <3> QED
      BY <3>1
  <2>2. rank \in Injection(I, 1 .. m)
    <3> HIDE DEF rank, m
    <3> QED
      BY <1>4, <2>1, Fun_IsInj
  <2>3. IsFiniteSet(1 .. m) /\ Cardinality(1 .. m) = m
    BY <1>1, FS_Interval
  <2> HIDE DEF rank, m
  <2> QED
    BY <1>1, <2>2, <2>3, FS_Injection DEF m
<1>6. ASSUME NEW k \in 1 .. m
      PROVE  NthPlace(I, k) \in I /\ rank[NthPlace(I, k)] = k
  <2>1. \E i \in I : Cardinality({j \in I : j <= i}) = k
    <3>1. \E i \in I : rank[i] = k
      BY <1>5 DEF Surjection
    <3> QED
      BY <3>1
  <2>2. NthPlace(I, k) \in I /\ Cardinality({j \in I : j <= NthPlace(I, k)}) = k
    BY <2>1 DEF NthPlace
  <2> QED
    BY <2>2
<1>7. ASSUME NEW i \in I
      PROVE  \E k \in 1 .. m : NthPlace(I, k) = i
  <2>1. rank[i] \in 1 .. m
    BY <1>1, <1>2
  <2>2. NthPlace(I, rank[i]) \in I /\ rank[NthPlace(I, rank[i])] = rank[i]
    <3> HIDE DEF rank, m
    <3> QED
      BY <1>6, <2>1
  <2>3. NthPlace(I, rank[i]) = i
    <3> HIDE DEF rank, m
    <3> QED
      BY <1>4, <2>2
  <2> QED
    BY <2>1, <2>3
<1>8. ASSUME NEW k \in 1 .. m, NEW l \in 1 .. m, NthPlace(I, k) = NthPlace(I, l)
      PROVE  k = l
  <2> HIDE DEF rank, m
  <2> QED
    BY <1>6, <1>8
<1> QED
  BY <1>1, <1>6, <1>7, <1>8

Proposal == [id : Nat, g : Structures]

\* A list in which no structure, or no id, occurs twice.
Distinct(list) == \A i, j \in DOMAIN list : list[i].g = list[j].g => i = j
UniqueIds(list) == \A i, j \in DOMAIN list : list[i].id = list[j].id => i = j
NoRepeats(seq) == \A i, j \in DOMAIN seq : seq[i] = seq[j] => i = j

\* Taking the entries at some places keeps them, and only them, each once.
LEMMA AtPlacesFacts ==
  ASSUME NEW list \in Seq(Proposal), NEW I \in SUBSET DOMAIN list
  PROVE  LET L == AtPlaces(list, I)
         IN /\ L \in Seq(Proposal) /\ Len(L) = Cardinality(I) /\ Len(L) \in Nat
            /\ DOMAIN L = 1 .. Len(L)
            /\ \A k \in DOMAIN L : \E i \in I : L[k] = list[i]
            /\ \A i \in I : \E k \in DOMAIN L : L[k] = list[i]
            /\ Distinct(list) => Distinct(L)
            /\ UniqueIds(list) => UniqueIds(L)
<1> DEFINE L == AtPlaces(list, I)
           m == Cardinality(I)
           at(k) == NthPlace(I, k)
<1>1. Len(list) \in Nat /\ DOMAIN list = 1 .. Len(list)
  OBVIOUS
<1>2. /\ m \in Nat
      /\ \A k \in 1 .. m : at(k) \in I
      /\ \A k, l \in 1 .. m : at(k) = at(l) => k = l
      /\ \A i \in I : \E k \in 1 .. m : at(k) = i
  BY <1>1, PlacesNumbered, ZenonT(60)
<1>3. L = [k \in 1 .. m |-> list[at(k)]]
  BY DEF AtPlaces
<1>4. L \in [1 .. m -> Proposal]
  <2> HIDE DEF L, m, at
  <2>1. \A k \in 1 .. m : list[at(k)] \in Proposal
    BY <1>1, <1>2, ElementOfSeq
  <2> QED
    BY <1>3, <2>1
<1>5. L \in Seq(Proposal) /\ Len(L) = m /\ DOMAIN L = 1 .. m
  <2> HIDE DEF L, m
  <2> QED
    BY <1>2, <1>4, ListOf
<1>6. \A k \in 1 .. m : L[k] = list[at(k)]
  <2> HIDE DEF L, m, at
  <2> QED
    BY <1>3
<1> HIDE DEF L, m, at
<1>7. Distinct(list) => Distinct(L)
  BY <1>2, <1>5, <1>6 DEF Distinct
<1>8. UniqueIds(list) => UniqueIds(L)
  BY <1>2, <1>5, <1>6 DEF UniqueIds
<1>9. /\ \A k \in DOMAIN L : \E i \in I : L[k] = list[i]
      /\ \A i \in I : \E k \in DOMAIN L : L[k] = list[i]
  BY <1>2, <1>5, <1>6
<1> QED
  BY <1>2, <1>5, <1>7, <1>8, <1>9 DEF L, m

\* The candidates made of a list of structures, numbered in its order.
LEMMA NumberedFacts ==
  ASSUME NEW seq \in Seq(Structures)
  PROVE  LET L == Numbered(seq)
         IN /\ L \in Seq(Proposal) /\ Len(L) = Len(seq)
            /\ DOMAIN L = DOMAIN seq
            /\ \A i \in DOMAIN L : L[i].g = seq[i] /\ L[i].id = i
            /\ UniqueIds(L)
            /\ NoRepeats(seq) => Distinct(L)
<1> DEFINE L == Numbered(seq)
<1>1. Len(seq) \in Nat /\ DOMAIN seq = 1 .. Len(seq) /\ \A i \in 1 .. Len(seq) : seq[i] \in Structures
  OBVIOUS
<1>2. L = [i \in 1 .. Len(seq) |-> [id |-> i, g |-> seq[i]]]
  BY <1>1 DEF Numbered
<1>3. L \in [1 .. Len(seq) -> Proposal]
  BY <1>1, <1>2 DEF Proposal
<1>4. L \in Seq(Proposal) /\ Len(L) = Len(seq) /\ DOMAIN L = DOMAIN seq
  <2> HIDE DEF L
  <2> QED
    BY <1>1, <1>3, ListOf
<1>5. \A i \in DOMAIN L : L[i].g = seq[i] /\ L[i].id = i
  <2> HIDE DEF L
  <2> QED
    BY <1>1, <1>2, <1>4
<1> HIDE DEF L
<1>6. UniqueIds(L)
  BY <1>5 DEF UniqueIds
<1>7. NoRepeats(seq) => Distinct(L)
  BY <1>4, <1>5 DEF Distinct, NoRepeats
<1> QED
  BY <1>4, <1>5, <1>6, <1>7 DEF L

\* Fresh candidates joined to a list without repetition leave it without repetition.
LEMMA FreshFacts ==
  ASSUME pool \in Seq(Proposal), Distinct(pool),
         NEW list \in Seq(Proposal), Distinct(list)
  PROVE  LET L == pool \o Fresh(list)
         IN L \in Seq(Proposal) /\ Distinct(L)
<1> DEFINE I == {i \in DOMAIN list : list[i].g \notin Graphs(pool)}
           F == AtPlaces(list, I)
           L == pool \o F
           n == Len(pool)
<1>1. /\ F \in Seq(Proposal) /\ Len(F) \in Nat /\ DOMAIN F = 1 .. Len(F) /\ Distinct(F)
      /\ \A k \in DOMAIN F : \E i \in I : F[k] = list[i]
  <2>1. I \in SUBSET DOMAIN list
    OBVIOUS
  <2> HIDE DEF I
  <2> QED
    BY <2>1, AtPlacesFacts
<1> HIDE DEF F
<1>2. /\ n \in Nat /\ DOMAIN pool = 1 .. n /\ L \in Seq(Proposal) /\ Len(L) = n + Len(F)
      /\ DOMAIN L = 1 .. n + Len(F)
      /\ \A i \in 1 .. n + Len(F) : L[i] = IF i <= n THEN pool[i] ELSE F[i - n]
  BY <1>1, ConcatProperties
<1>3. ASSUME NEW k \in DOMAIN F, NEW i \in DOMAIN pool
      PROVE  F[k].g # pool[i].g
  BY <1>1 DEF Graphs
<1> HIDE DEF L, n
<1>4. ASSUME NEW i \in DOMAIN L, NEW j \in DOMAIN L, L[i].g = L[j].g
      PROVE  i = j
  <2>1. CASE i <= n /\ j <= n
    BY <1>2, <1>4, <2>1 DEF Distinct
  <2>2. CASE i <= n /\ ~ (j <= n)
    <3>1. j - n \in DOMAIN F /\ i \in DOMAIN pool /\ L[i] = pool[i] /\ L[j] = F[j - n]
      BY <1>1, <1>2, <2>2
    <3> QED
      BY <1>3, <1>4, <3>1
  <2>3. CASE ~ (i <= n) /\ j <= n
    <3>1. i - n \in DOMAIN F /\ j \in DOMAIN pool /\ L[j] = pool[j] /\ L[i] = F[i - n]
      BY <1>1, <1>2, <2>3
    <3> QED
      BY <1>3, <1>4, <3>1
  <2>4. CASE ~ (i <= n) /\ ~ (j <= n)
    <3>1. /\ i - n \in DOMAIN F /\ j - n \in DOMAIN F /\ L[i] = F[i - n] /\ L[j] = F[j - n]
          /\ i \in Int /\ j \in Int
      BY <1>1, <1>2, <2>4
    <3>2. i - n = j - n
      BY <1>1, <1>4, <3>1 DEF Distinct
    <3> QED
      BY <1>2, <3>1, <3>2
  <2> QED
    BY <1>2, <2>1, <2>2, <2>3, <2>4
<1> QED
  BY <1>2, <1>4 DEF Distinct, Fresh, L, F

-----------------------------------------------------------------------------
(* What is offered, screened, chosen and taught.                           *)

Proposing == {"round", "hunt"}

\* The candidates offered are structures, none of them twice.
PoolShape == pool \in Seq(Proposal) /\ Distinct(pool) /\ NoRepeats(hunt.seen)

\* Before a second round an id stands for one candidate.
IdsOnce ==
  /\ round <= 1 => UniqueIds(pool)
  /\ round = 0 /\ phase \in Proposing => pool = <<>>

OnlyTheCriticIsSatisfied ==
  /\ satisfied \in BOOLEAN /\ (satisfied => WithCritic)
  /\ phase = "retrieve" => ~ run.llm

Progress ==
  /\ phase \in Phases \ {"failed"} /\ measured \in [Labels -> Outcomes]
  /\ phase = "screened" => Len(pool) >= 2

\* Nothing is taught before the end, and what was selected is found again under its id.
Selected ==
  /\ phase # "done" => rows.sft = {} /\ rows.dpo = {} /\ rows.ranker = {}
  /\ phase \in {"sizing", "measured"} /\ round <= 1 =>
       \A l \in Labels : ByProposal(selected[l].id) = selected[l].g

OfferInv ==
  /\ PoolShape /\ IdsOnce /\ OnlyTheCriticIsSatisfied /\ VerdictSurvivesScreen
  /\ Progress /\ Selected /\ OneShotTargets

LEMMA OfferInit == Init => OfferInv
<1> SUFFICES ASSUME Init PROVE OfferInv
  OBVIOUS
<1>1. /\ pool = <<>> /\ hunt.seen = <<>> /\ satisfied = FALSE /\ round = 0
      /\ rows = [sft |-> {}, dpo |-> {}, ranker |-> {}, rag |-> {}]
      /\ measured = [l \in Labels |-> "none"]
      /\ phase \in {"retrieve", "round", "hunt"}
  BY DEF Init, NewHunt
<1>2. PoolShape
  BY <1>1 DEF PoolShape, Distinct, NoRepeats
<1>3. IdsOnce
  BY <1>1 DEF IdsOnce, UniqueIds
<1>6. OnlyTheCriticIsSatisfied /\ VerdictSurvivesScreen
  <2>1. phase = "retrieve" => ~ run.llm
    BY DEF Init
  <2> QED
    BY <1>1, <2>1, Zenon DEF OnlyTheCriticIsSatisfied, VerdictSurvivesScreen
<1>4. Progress
  BY <1>1 DEF Progress, Phases, Outcomes
<1>5. Selected /\ OneShotTargets
  BY <1>1 DEF Selected, OneShotTargets
<1> QED
  BY <1>2, <1>3, <1>4, <1>5, <1>6 DEF OfferInv

\* The verdict depends on the structures alone, and on those that fit only.
LEMMA ScreenKeepsVerdict ==
  ASSUME NEW S, Satisfies(S)
  PROVE  Satisfies({x \in S : Fits(x)})
<1> DEFINE K == {x \in S : Fits(x)}
<1>1. PreferredIn(K) = PreferredIn(S)
  BY DEF PreferredIn
<1>2. Plan.comp # NoComp => \E x \in K : CompPresent(x)
  BY DEF Satisfies, CompPresent, Compensated
<1>3. NeedsDepth => \E x \in K : Comp[x] = Plan.comp /\ Fits(x) /\ StageCount[x] > Shallowest
  BY DEF Satisfies
<1> QED
  BY <1>1, <1>2, <1>3 DEF Satisfies

LEMMA SameVerdict ==
  ASSUME UNCHANGED <<run, pool>>
  PROVE  /\ WithCritic' <=> WithCritic
         /\ Satisfies(Graphs(pool))' <=> Satisfies(Graphs(pool))
  BY DEF WithCritic, Graphs, Satisfies, PreferredIn, Fits, CompPresent, Compensated, NeedsDepth,
         Shallowest, Plan

\* Steps that change neither the candidates nor what was said of them.
LEMMA OfferKept ==
  ASSUME OfferInv, UNCHANGED <<run, round, pool, satisfied, measured, rows>>,
         NoRepeats(hunt.seen)', phase' \in Phases \ {"failed", "screened", "done"},
         phase' # "retrieve", phase' \in Proposing => phase \in Proposing,
         phase \in Proposing => phase' \in Proposing,
         Selected'
  PROVE  OfferInv'
<1> USE DEF OfferInv
<1>1. PoolShape'
  BY DEF PoolShape, Distinct
<1>2. IdsOnce'
  BY DEF IdsOnce, UniqueIds
<1>3. OnlyTheCriticIsSatisfied'
  BY SameVerdict, Zenon DEF OnlyTheCriticIsSatisfied
<1>4. VerdictSurvivesScreen'
  BY SameVerdict, Zenon DEF VerdictSurvivesScreen, Proposing
<1>5. Progress'
  BY DEF Progress
<1>6. OneShotTargets'
  BY DEF OneShotTargets
<1> QED
  BY <1>1, <1>2, <1>3, <1>4, <1>5, <1>6

\* A hunt takes a structure into its list only when it is not there.
LEMMA SeenStaysDistinct ==
  ASSUME HuntTypes, NoRepeats(hunt.seen), Generate
  PROVE  NoRepeats(hunt.seen)'
<1>1. PICK x \in Structures \cup {Invalid} :
        hunt' = IF x \in Unusable
                THEN [hunt EXCEPT !.attempts = @ + 1, !.sinceNew = @ + 1]
                ELSE LET seen == Append(hunt.seen, x)
                     IN [hunt EXCEPT !.attempts = @ + 1, !.sinceNew = 0, !.seen = seen,
                           !.satisfied = /\ WithCritic /\ Len(seen) >= run.floor
                                         /\ Satisfies(Emitted(seen))]
  BY DEF Generate
<1>2. hunt.seen \in Seq(Structures)
  BY DEF HuntTypes
<1>3. CASE x \in Unusable
  <2>1. hunt' = [hunt EXCEPT !.attempts = @ + 1, !.sinceNew = @ + 1]
    BY <1>1, <1>3
  <2>2. hunt'.seen = hunt.seen
    BY <2>1 DEF HuntTypes
  <2> QED
    BY <2>2 DEF NoRepeats
<1>4. CASE x \notin Unusable
  <2> DEFINE judged == WithCritic /\ Len(Append(hunt.seen, x)) >= run.floor
                                  /\ Satisfies(Emitted(Append(hunt.seen, x)))
  <2>1. hunt' = [hunt EXCEPT !.attempts = hunt.attempts + 1, !.sinceNew = 0,
                   !.seen = Append(hunt.seen, x), !.satisfied = judged]
    BY <1>1, <1>4
  <2>2. hunt'.seen = Append(hunt.seen, x)
    <3> HIDE DEF judged
    <3> QED
      BY <2>1 DEF HuntTypes
  <2>3. x \in Structures /\ \A i \in 1 .. Len(hunt.seen) : hunt.seen[i] # x
    BY <1>2, <1>4 DEF Unusable, Emitted
  <2>4. /\ Append(hunt.seen, x) \in Seq(Structures)
        /\ Len(Append(hunt.seen, x)) = Len(hunt.seen) + 1
        /\ \A i \in 1 .. Len(hunt.seen) : Append(hunt.seen, x)[i] = hunt.seen[i]
        /\ Append(hunt.seen, x)[Len(hunt.seen) + 1] = x
    BY <1>2, <2>3, AppendProperties
  <2>5. NoRepeats(Append(hunt.seen, x))
    <3> SUFFICES ASSUME NEW i \in 1 .. Len(hunt.seen) + 1, NEW j \in 1 .. Len(hunt.seen) + 1,
                        Append(hunt.seen, x)[i] = Append(hunt.seen, x)[j]
                 PROVE  i = j
      BY <2>4 DEF NoRepeats
    <3>1. Len(hunt.seen) \in Nat /\ DOMAIN hunt.seen = 1 .. Len(hunt.seen)
      BY <1>2
    <3>2. CASE i \in 1 .. Len(hunt.seen) /\ j \in 1 .. Len(hunt.seen)
      BY <2>4, <3>1, <3>2 DEF NoRepeats
    <3>3. CASE ~ (i \in 1 .. Len(hunt.seen)) /\ j \in 1 .. Len(hunt.seen)
      <4>1. i = Len(hunt.seen) + 1
        BY <3>1, <3>3
      <4> QED
        BY <2>3, <2>4, <3>3, <4>1
    <3>4. CASE i \in 1 .. Len(hunt.seen) /\ ~ (j \in 1 .. Len(hunt.seen))
      <4>1. j = Len(hunt.seen) + 1
        BY <3>1, <3>4
      <4> QED
        BY <2>3, <2>4, <3>4, <4>1
    <3>5. CASE ~ (i \in 1 .. Len(hunt.seen)) /\ ~ (j \in 1 .. Len(hunt.seen))
      BY <3>1, <3>5
    <3> QED
      BY <3>2, <3>3, <3>4, <3>5
  <2> QED
    BY <2>2, <2>5 DEF NoRepeats
<1> QED
  BY <1>3, <1>4

\* A list of candidates is offered at once: after one hunt, or one retrieval.
LEMMA OfferedAtOnce ==
  ASSUME OfferInv, NEW seq \in Seq(Structures), NoRepeats(seq), pool' = Numbered(seq),
         phase' = "offered", phase \in {"hunt", "retrieve"}, ~ WithCritic,
         UNCHANGED <<run, round, hunt, satisfied, measured, rows>>
  PROVE  OfferInv'
<1> USE DEF OfferInv
<1>1. /\ Numbered(seq) \in Seq(Proposal) /\ Distinct(Numbered(seq))
      /\ UniqueIds(Numbered(seq))
  BY NumberedFacts
<1>2. PoolShape'
  BY <1>1 DEF PoolShape, Distinct, NoRepeats
<1>3. IdsOnce'
  BY <1>1 DEF IdsOnce, UniqueIds, Proposing
<1>4. satisfied = FALSE /\ satisfied' = FALSE
  BY Zenon DEF OnlyTheCriticIsSatisfied
<1>5. OnlyTheCriticIsSatisfied' /\ VerdictSurvivesScreen'
  BY <1>4, Zenon DEF OnlyTheCriticIsSatisfied, VerdictSurvivesScreen
<1>6. Progress'
  BY DEF Progress, Phases
<1>7. Selected' /\ OneShotTargets'
  BY DEF Selected, OneShotTargets
<1> QED
  BY <1>2, <1>3, <1>5, <1>6, <1>7

LEMMA OfferOneShot == OfferInv /\ BudgetInv /\ OneShot => OfferInv'
<1> SUFFICES ASSUME OfferInv, BudgetInv, OneShot PROVE OfferInv'
  OBVIOUS
<1>1. hunt.seen \in Seq(Structures) /\ NoRepeats(hunt.seen)
  BY DEF OfferInv, PoolShape, BudgetInv, HuntTypes
<1> QED
  BY <1>1, OfferedAtOnce DEF OneShot

\* A shuffled library cut to the number sought repeats nothing.
LEMMA OfferRetrieve == OfferInv /\ Retrieve => OfferInv'
<1> SUFFICES ASSUME OfferInv, Retrieve PROVE OfferInv'
  OBVIOUS
<1>0. PICK library \in SUBSET Structures : \E order \in Rankings(library) :
        pool' = Numbered(SubSeq(order, 1, AtMost(TargetK, Len(order))))
  BY DEF Retrieve
<1>1. PICK order \in Rankings(library) :
        pool' = Numbered(SubSeq(order, 1, AtMost(TargetK, Len(order))))
  BY <1>0
<1> DEFINE n == AtMost(TargetK, Len(order))
           seq == SubSeq(order, 1, n)
<1>2. Cardinality(library) \in Nat
  BY ProposalsAssumption, FS_Subset, FS_CardinalityType
<1>3. order \in [1 .. Cardinality(library) -> library] /\ NoRepeats(order)
  BY DEF Rankings, NoRepeats
<1>4. order \in Seq(Structures) /\ Len(order) \in Nat /\ DOMAIN order = 1 .. Len(order)
  <2>1. order \in [1 .. Cardinality(library) -> Structures]
    BY <1>3
  <2> QED
    BY <1>2, <2>1, ListOf
<1>5. n \in Nat /\ n <= Len(order)
  BY <1>4, ProposalsAssumption DEF AtMost
<1> HIDE DEF n
<1>6. /\ seq \in Seq(Structures) /\ DOMAIN seq = 1 .. n
      /\ \A i \in 1 .. n : seq[i] = order[i]
  <2>1. \A i \in 1 .. n : order[i] \in Structures
    BY <1>4, <1>5
  <2>2. /\ seq \in Seq(Structures) /\ Len(seq) = IF 1 <= n THEN n - 1 + 1 ELSE 0
        /\ \A i \in 1 .. n - 1 + 1 : seq[i] = order[1 + i - 1]
    BY <1>5, <2>1, SubSeqProperties
  <2>3. Len(seq) = n /\ \A i \in 1 .. n : i \in Int /\ 1 + i - 1 = i /\ i \in 1 .. n - 1 + 1
    BY <1>5, <2>2
  <2> HIDE DEF seq
  <2> QED
    BY <2>2, <2>3
<1>7. NoRepeats(seq)
  <2> HIDE DEF seq
  <2> QED
    BY <1>3, <1>4, <1>5, <1>6 DEF NoRepeats
<1>8. phase = "retrieve" /\ ~ WithCritic
  BY DEF Retrieve, OfferInv, OnlyTheCriticIsSatisfied, WithCritic
<1>9. /\ pool' = Numbered(seq) /\ phase' = "offered"
      /\ UNCHANGED <<run, round, hunt, satisfied, measured, rows>>
  BY <1>1 DEF Retrieve, n
<1> HIDE DEF seq
<1> QED
  BY <1>6, <1>7, <1>8, <1>9, OfferedAtOnce

\* A round's fresh candidates join the pool, and the critic judges what is there then.
LEMMA OfferEndRound == OfferInv /\ BudgetInv /\ EndRound => OfferInv'
<1> SUFFICES ASSUME OfferInv, BudgetInv, EndRound PROVE OfferInv'
  OBVIOUS
<1> USE DEF OfferInv
<1>1. /\ phase = "hunt" /\ WithCritic
      /\ UNCHANGED <<run, hunt, ranked, selected, measured, rows, made>>
  BY DEF EndRound
<1>2. hunt.attempts <= Remaining /\ hunt.attempts \in Nat /\ Remaining \in Nat /\ round \in Nat
  BY <1>1, ProposalsAssumption DEF BudgetInv, HuntBounded, Remaining, Counts, HuntTypes
<1>3. /\ round' = round + 1 /\ pool' = pool \o Fresh(Numbered(hunt.seen))
      /\ satisfied' = Satisfies(Graphs(pool')) /\ phase' \in {"offered", "round"}
  BY <1>1, <1>2 DEF EndRound
<1>4. /\ Numbered(hunt.seen) \in Seq(Proposal) /\ Distinct(Numbered(hunt.seen))
      /\ UniqueIds(Numbered(hunt.seen))
  BY NumberedFacts DEF PoolShape, BudgetInv, HuntTypes
<1>5. PoolShape'
  <2>1. pool' \in Seq(Proposal) /\ Distinct(pool')
    BY <1>3, <1>4, FreshFacts DEF PoolShape
  <2>2. NoRepeats(hunt.seen)'
    BY <1>1 DEF PoolShape, NoRepeats
  <2> QED
    BY <2>1, <2>2 DEF PoolShape, Distinct
<1>6. IdsOnce'
  <2>1. CASE round = 0
    <3> DEFINE L == Numbered(hunt.seen)
               I == {i \in DOMAIN L : L[i].g \notin Graphs(pool)}
    <3>1. pool = <<>>
      BY <1>1, <2>1 DEF IdsOnce, Proposing
    <3>2. Fresh(L) \in Seq(Proposal) /\ UniqueIds(Fresh(L))
      <4>1. I \in SUBSET DOMAIN L
        OBVIOUS
      <4>2. AtPlaces(L, I) \in Seq(Proposal) /\ UniqueIds(AtPlaces(L, I))
        <5> HIDE DEF L, I
        <5>1. L \in Seq(Proposal) /\ UniqueIds(L)
          BY <1>4 DEF L
        <5> QED
          BY <4>1, <5>1, AtPlacesFacts
      <4> QED
        BY <4>2 DEF Fresh
    <3>3. pool' = Fresh(L)
      BY <1>3, <3>1, <3>2, ConcatEmptySeq
    <3> QED
      BY <1>3, <2>1, <3>2, <3>3 DEF IdsOnce, UniqueIds
  <2>2. CASE round # 0
    BY <1>2, <1>3, <2>2 DEF IdsOnce
  <2> QED
    BY <2>1, <2>2
<1>7. /\ satisfied' \in BOOLEAN /\ WithCritic'
      /\ satisfied' => Satisfies(Graphs(pool))'
  <2>1. WithCritic'
    BY <1>1 DEF WithCritic
  <2>2. satisfied' \in BOOLEAN
    BY <1>3 DEF Satisfies
  <2>3. satisfied' => Satisfies(Graphs(pool))'
    BY <1>1, <1>3 DEF Graphs, Satisfies, PreferredIn, Fits, CompPresent, Compensated, NeedsDepth,
         Shallowest, Plan
  <2> QED
    BY <2>1, <2>2, <2>3
<1>8. OnlyTheCriticIsSatisfied' /\ VerdictSurvivesScreen'
  BY <1>3, <1>7, Zenon DEF OnlyTheCriticIsSatisfied, VerdictSurvivesScreen
<1>9. Progress'
  BY <1>1, <1>3 DEF Progress, Phases
<1>10. Selected' /\ OneShotTargets'
  BY <1>1, <1>3 DEF Selected, OneShotTargets
<1> QED
  BY <1>5, <1>6, <1>8, <1>9, <1>10

\* The screen leaves two candidates, without repetition, and the verdict as it was.
LEMMA OfferScreen == OfferInv /\ Screen => OfferInv'
<1> SUFFICES ASSUME OfferInv, Screen PROVE OfferInv'
  OBVIOUS
<1> USE DEF OfferInv
<1>1. /\ phase = "offered" /\ Len(pool) >= 2 /\ phase' = "screened"
      /\ UNCHANGED <<run, round, spent, hunt, satisfied, ranked, selected, measured, rows, made>>
  BY DEF Screen
<1>2. CASE pool' = pool
  <2>1. PoolShape'
    BY <1>1, <1>2 DEF PoolShape, Distinct, NoRepeats
  <2>2. IdsOnce'
    BY <1>1, <1>2 DEF IdsOnce, UniqueIds, Proposing
  <2>3. OnlyTheCriticIsSatisfied'
    BY <1>1, <1>2, SameVerdict, Zenon DEF OnlyTheCriticIsSatisfied
  <2>4. VerdictSurvivesScreen'
    BY <1>1, <1>2, SameVerdict, Zenon DEF VerdictSurvivesScreen
  <2>5. Progress' /\ Selected' /\ OneShotTargets'
    BY <1>1, <1>2 DEF Progress, Phases, Selected, OneShotTargets
  <2> QED
    BY <2>1, <2>2, <2>3, <2>4, <2>5
<1>3. CASE pool' = KeptByScreen(pool) /\ Len(KeptByScreen(pool)) >= 2
  <2> DEFINE I == {i \in DOMAIN pool : Fits(pool[i].g)}
  <2>1. KeptByScreen(pool) = AtPlaces(pool, I) /\ I \in SUBSET DOMAIN pool
    BY DEF KeptByScreen
  <2>2. /\ pool' \in Seq(Proposal) /\ Distinct(pool')
        /\ UniqueIds(pool) => UniqueIds(pool')
        /\ \A k \in DOMAIN pool' : \E i \in I : pool'[k] = pool[i]
        /\ \A i \in I : \E k \in DOMAIN pool' : pool'[k] = pool[i]
    <3> HIDE DEF I
    <3> QED
      BY <1>3, <2>1, AtPlacesFacts DEF PoolShape
  <2>3. PoolShape'
    BY <1>1, <2>2 DEF PoolShape, Distinct, NoRepeats
  <2>4. IdsOnce'
    BY <1>1, <2>2 DEF IdsOnce, UniqueIds, Proposing
  <2>5. Graphs(pool') = {x \in Graphs(pool) : Fits(x)}
    BY <2>2 DEF Graphs
  <2>6. Satisfies(Graphs(pool)) => Satisfies({x \in Graphs(pool) : Fits(x)})
    BY ScreenKeepsVerdict
  <2>7. /\ WithCritic' <=> WithCritic
        /\ Satisfies(Graphs(pool')) => Satisfies(Graphs(pool))'
    BY <1>1 DEF WithCritic, Graphs, Satisfies, PreferredIn, Fits, CompPresent, Compensated, NeedsDepth,
         Shallowest, Plan
  <2>8. OnlyTheCriticIsSatisfied'
    BY <1>1, <2>7, Zenon DEF OnlyTheCriticIsSatisfied
  <2>9. VerdictSurvivesScreen'
    <3>1. satisfied' => Satisfies(Graphs(pool))
      BY <1>1, Zenon DEF VerdictSurvivesScreen
    <3>2. satisfied' => Satisfies(Graphs(pool))'
      BY <2>5, <2>6, <2>7, <3>1
    <3> QED
      BY <3>2, Zenon DEF VerdictSurvivesScreen
  <2>10. Progress' /\ Selected' /\ OneShotTargets'
    BY <1>1, <1>3 DEF Progress, Phases, Selected, OneShotTargets
  <2> QED
    BY <2>3, <2>4, <2>8, <2>9, <2>10
<1> QED
  BY <1>2, <1>3 DEF Screen

\* Two candidates that differ are two candidates for the selector.
LEMMA TwoToChooseFrom ==
  ASSUME pool \in Seq(Proposal), Distinct(pool)
  PROVE  /\ Cardinality(Unrepeated(pool)) \in Nat
         /\ \A c \in Unrepeated(pool) : \E i \in DOMAIN pool : c = pool[i]
         /\ Len(pool) >= 2 => Cardinality(Unrepeated(pool)) >= 2
<1> DEFINE U == Unrepeated(pool)
<1>1. Len(pool) \in Nat /\ DOMAIN pool = 1 .. Len(pool) /\ pool \in [1 .. Len(pool) -> Proposal]
  BY LenProperties
<1>2. \A c \in U : \E i \in DOMAIN pool : c = pool[i]
  BY DEF Unrepeated
<1>3. IsFiniteSet(U) /\ Cardinality(U) \in Nat
  <2>1. pool \in Surjection(1 .. Len(pool), Range(pool))
    BY <1>1, Fun_RangeProperties, Zenon
  <2>2. IsFiniteSet(Range(pool))
    <3>1. IsFiniteSet(1 .. Len(pool))
      BY <1>1, FS_Interval
    <3> QED
      BY <2>1, <3>1, FS_Surjection
  <2>3. U \in SUBSET Range(pool)
    BY <1>2 DEF Range
  <2> HIDE DEF U
  <2> QED
    BY <2>2, <2>3, FS_Subset, FS_CardinalityType
<1>4. ASSUME Len(pool) >= 2
      PROVE  Cardinality(U) >= 2
  <2>1. 1 \in DOMAIN pool /\ 2 \in DOMAIN pool /\ pool[1].g # pool[2].g
    BY <1>1, <1>4 DEF Distinct
  <2>2. pool[1] \in U /\ pool[2] \in U /\ pool[1] # pool[2]
    BY <2>1 DEF Unrepeated
  <2> HIDE DEF U
  <2>3. /\ IsFiniteSet({pool[1]}) /\ Cardinality({pool[1]}) = 1
        /\ {pool[1]} \cup {pool[2]} \in SUBSET U
    BY <2>2, FS_Singleton
  <2>4. Cardinality({pool[1]} \cup {pool[2]}) = 2
    <3>1. pool[2] \notin {pool[1]}
      BY <2>2
    <3>2. Cardinality({pool[1]} \cup {pool[2]}) = Cardinality({pool[1]}) + 1
      BY <2>3, <3>1, FS_AddElement, Zenon
    <3> QED
      BY <2>3, <3>2
  <2>5. Cardinality({pool[1]} \cup {pool[2]}) <= Cardinality(U)
    BY <1>3, <2>3, FS_Subset
  <2> QED
    BY <1>3, <2>4, <2>5
<1> QED
  BY <1>2, <1>3, <1>4

\* The second slot is a place of the ranking.
LEMMA SecondSlotPlace ==
  ASSUME NEW order, NEW m \in Nat, m >= 2, Len(order) = m
  PROVE  SecondSlot(order) \in 1 .. m
<1> DEFINE depth == {i \in 2 .. Len(order) : StageCount[order[i].g] # StageCount[order[1].g]}
           kind  == {i \in 2 .. Len(order) : Comp[order[i].g] # Comp[order[1].g]}
<1>1. ASSUME NEW S \in SUBSET (2 .. m), S # {}
      PROVE  Earliest(S) \in 1 .. m
  <2>1. \E i \in S : \A j \in S : i <= j
    <3>1. S \in SUBSET Nat
      OBVIOUS
    <3> QED
      BY <1>1, <3>1, LeastNumber
  <2>2. Earliest(S) \in S
    BY <2>1 DEF Earliest
  <2>3. Earliest(S) \in 2 .. m
    BY <2>2
  <2> QED
    BY <2>3
<1>2. depth \in SUBSET (2 .. m) /\ kind \in SUBSET (2 .. m)
  OBVIOUS
<1>3. SecondSlot(order) = IF depth # {} THEN Earliest(depth)
                          ELSE IF kind # {} THEN Earliest(kind) ELSE 2
  BY DEF SecondSlot
<1> HIDE DEF depth, kind
<1> QED
  BY <1>1, <1>2, <1>3

\* Where an id stands for one candidate, the candidate is found under it.
LEMMA FoundAgain ==
  ASSUME UniqueIds(pool), NEW m \in Nat, NEW order \in [1 .. m -> Unrepeated(pool)],
         \A c \in Unrepeated(pool) : \E i \in DOMAIN pool : c = pool[i],
         NEW k \in 1 .. m
  PROVE  LET having == {i \in DOMAIN order : order[i].id = order[k].id}
         IN order[CHOOSE i \in having : \A j \in having : j <= i] = order[k]
<1> DEFINE having == {i \in DOMAIN order : order[i].id = order[k].id}
           last == CHOOSE i \in having : \A j \in having : j <= i
<1>1. having \in SUBSET (1 .. m) /\ having # {}
  OBVIOUS
<1>2. \E i \in having : \A j \in having : j <= i
  <2> HIDE DEF having
  <2> QED
    BY <1>1, GreatestNumber
<1>3. last \in having
  <2> HIDE DEF having
  <2> QED
    BY <1>2
<1>4. last \in 1 .. m /\ order[last].id = order[k].id
  BY <1>3
<1> HIDE DEF last
<1>5. order[last] \in Unrepeated(pool) /\ order[k] \in Unrepeated(pool)
  BY <1>4
<1>6. order[last] = order[k]
  BY <1>4, <1>5 DEF UniqueIds
<1> QED
  BY <1>6 DEF last

LEMMA OfferChoose == OfferInv /\ Choose => OfferInv'
<1> SUFFICES ASSUME OfferInv, Choose PROVE OfferInv'
  OBVIOUS
<1> DEFINE U == Unrepeated(pool)
           m == Cardinality(U)
<1>1. /\ phase = "screened"
      /\ UNCHANGED <<run, round, spent, hunt, pool, satisfied, measured, rows, made>>
  BY DEF Choose
<1>2. m \in Nat /\ m >= 2 /\ \A c \in U : \E i \in DOMAIN pool : c = pool[i]
  BY <1>1, TwoToChooseFrom DEF OfferInv, PoolShape, Progress
<1>3. /\ phase' = "sizing"
      /\ \E order \in Rankings(U) :
           /\ ranked' = order
           /\ selected' = [l \in Labels |-> IF l = "A" THEN order[1] ELSE order[SecondSlot(order)]]
  BY <1>2 DEF Choose
<1>4. PICK order \in Rankings(U) :
           /\ ranked' = order
           /\ selected' = [l \in Labels |-> IF l = "A" THEN order[1] ELSE order[SecondSlot(order)]]
  BY <1>3
<1>5. order \in [1 .. m -> U] /\ Len(order) = m
  <2>1. order \in [1 .. m -> U]
    BY DEF Rankings
  <2> HIDE DEF m, U
  <2> QED
    BY <1>2, <2>1, ListOf
<1>6. \A l \in Labels : \E k \in 1 .. m : selected'[l] = order[k]
  <2>1. 1 \in 1 .. m /\ SecondSlot(order) \in 1 .. m
    <3> HIDE DEF m, U
    <3> QED
      BY <1>2, <1>5, SecondSlotPlace
  <2> HIDE DEF m, U
  <2> QED
    BY <1>4, <2>1
<1>7. Selected'
  <2>1. rows.sft = {} /\ rows.dpo = {} /\ rows.ranker = {}
    BY <1>1 DEF OfferInv, Selected
  <2>2. ASSUME round <= 1, NEW l \in Labels
        PROVE  ByProposal(selected[l].id)' = selected'[l].g
    <3>1. UniqueIds(pool)
      BY <2>2 DEF OfferInv, IdsOnce
    <3>2. PICK k \in 1 .. m : selected'[l] = order[k]
      BY <1>6
    <3>3. LET having == {i \in DOMAIN order : order[i].id = order[k].id}
          IN order[CHOOSE i \in having : \A j \in having : j <= i] = order[k]
      <4> HIDE DEF m
      <4> QED
        BY <1>2, <1>5, <3>1, FoundAgain
    <3> QED
      BY <1>4, <3>2, <3>3, ZenonT(60) DEF ByProposal
  <2> QED
    BY <1>1, <2>1, <2>2 DEF Selected
<1>8. NoRepeats(hunt.seen)'
  BY <1>1 DEF OfferInv, PoolShape, NoRepeats
<1> QED
  BY <1>1, <1>3, <1>7, <1>8, OfferKept DEF Phases, Proposing

LEMMA FiledRows ==
  ASSUME Harvest
  PROVE  \E learns, differ \in BOOLEAN : rows' = Filed(learns, differ)
  BY Zenon DEF Harvest

\* What is filed is what was selected.
LEMMA OfferHarvest == OfferInv /\ Harvest => OfferInv'
<1> SUFFICES ASSUME OfferInv, Harvest PROVE OfferInv'
  OBVIOUS
<1> USE DEF OfferInv
<1>1. /\ phase = "measured" /\ phase' = "done"
      /\ UNCHANGED <<run, round, spent, hunt, pool, satisfied, ranked, selected, measured, made>>
  BY DEF Harvest
<1>2. OneShotTargets'
  <2> SUFFICES ASSUME round <= 1
               PROVE  /\ \A row \in rows'.sft \cup rows'.ranker : Faithful(row)
                      /\ \A pair \in rows'.dpo : Faithful(pair[1]) /\ Faithful(pair[2])
    BY <1>1 DEF OneShotTargets, Faithful
  <2>1. \A l \in Labels : Faithful(Row(l))
    BY <1>1 DEF Selected, Row, Faithful
  <2>2. rows.sft = {} /\ rows.dpo = {} /\ rows.ranker = {}
    BY <1>1 DEF Selected
  <2>3. PICK learns \in BOOLEAN, differ \in BOOLEAN : rows' = Filed(learns, differ)
    BY FiledRows
  <2>4. Passing \subseteq Labels
    BY DEF Passing
  <2>5. CASE ~ learns
    BY <2>2, <2>3, <2>5 DEF Filed
  <2>6. CASE learns
    <3>1. /\ rows'.sft = {Row(l) : l \in Passing}
          /\ rows'.ranker \subseteq {Row(l) : l \in Labels}
          /\ rows'.dpo \subseteq {<<Row(l), Row(m)>> : l \in Passing, m \in Labels \ Passing}
      BY <2>3, <2>6 DEF Filed
    <3> QED
      BY <2>1, <2>4, <3>1
  <2> QED
    BY <2>5, <2>6
<1>3. PoolShape'
  BY <1>1 DEF PoolShape, Distinct, NoRepeats
<1>4. IdsOnce'
  BY <1>1 DEF IdsOnce, UniqueIds, Proposing
<1>5. OnlyTheCriticIsSatisfied' /\ VerdictSurvivesScreen'
  BY <1>1, SameVerdict, Zenon DEF OnlyTheCriticIsSatisfied, VerdictSurvivesScreen
<1>6. Progress' /\ Selected'
  BY <1>1 DEF Progress, Phases, Selected
<1> QED
  BY <1>2, <1>3, <1>4, <1>5, <1>6

LEMMA OfferStep == OfferInv /\ BudgetInv /\ [Next]_vars => OfferInv'
<1> SUFFICES ASSUME OfferInv, BudgetInv, [Next]_vars PROVE OfferInv'
  OBVIOUS
<1>1. ASSUME UNCHANGED <<run, round, pool, satisfied, measured, rows, ranked, selected>>,
             NoRepeats(hunt.seen)', phase' \in {"round", "hunt", "aborted"},
             phase \in Proposing <=> phase' \in Proposing, phase # "done"
      PROVE  OfferInv'
  <2>1. Selected'
    BY <1>1 DEF OfferInv, Selected
  <2> QED
    BY <1>1, <2>1, OfferKept DEF Phases
<1>2. UNCHANGED hunt => NoRepeats(hunt.seen)'
  BY DEF OfferInv, PoolShape, NoRepeats
<1>3. CASE StartRound
  <2>1. hunt'.seen = <<>>
    BY <1>3 DEF StartRound, NewHunt
  <2>2. NoRepeats(hunt.seen)'
    BY <2>1 DEF NoRepeats
  <2> QED
    BY <1>1, <1>3, <2>2 DEF StartRound, Proposing
<1>4. CASE Generate
  <2>1. NoRepeats(hunt.seen)'
    BY <1>4, SeenStaysDistinct DEF OfferInv, PoolShape, BudgetInv
  <2>2. phase = "hunt" /\ UNCHANGED <<run, phase, round, pool, satisfied, measured, rows, ranked, selected>>
    BY <1>4 DEF Generate
  <2> QED
    BY <1>1, <2>1, <2>2 DEF Proposing
<1>5. CASE Abort
  BY <1>1, <1>2, <1>5 DEF Abort, Proposing
<1>6. CASE Measure
  <2>1. /\ phase = "sizing" /\ phase' = "measured" /\ measured' \in [Labels -> Outcomes]
        /\ UNCHANGED <<run, round, spent, hunt, pool, satisfied, ranked, selected, rows, made>>
    BY <1>6 DEF Measure
  <2>2. PoolShape' /\ IdsOnce'
    BY <2>1 DEF OfferInv, PoolShape, Distinct, NoRepeats, IdsOnce, UniqueIds, Proposing
  <2>3. OnlyTheCriticIsSatisfied' /\ VerdictSurvivesScreen'
    BY <2>1, SameVerdict, Zenon DEF OfferInv, OnlyTheCriticIsSatisfied, VerdictSurvivesScreen
  <2>4. Progress' /\ OneShotTargets'
    BY <2>1 DEF OfferInv, Progress, Phases, OneShotTargets
  <2>5. Selected'
    BY <2>1 DEF OfferInv, Selected, ByProposal
  <2> QED
    BY <2>2, <2>3, <2>4, <2>5 DEF OfferInv
<1>7. CASE UNCHANGED vars
  <2>1. PoolShape' /\ IdsOnce'
    BY <1>7 DEF vars, OfferInv, PoolShape, Distinct, NoRepeats, IdsOnce, UniqueIds, Proposing
  <2>2. UNCHANGED <<run, pool, phase, satisfied>>
    BY <1>7 DEF vars
  <2>3. OnlyTheCriticIsSatisfied' /\ VerdictSurvivesScreen'
    BY <2>2, SameVerdict, Zenon DEF OfferInv, OnlyTheCriticIsSatisfied, VerdictSurvivesScreen
  <2>4. Progress' /\ OneShotTargets'
    BY <1>7 DEF vars, OfferInv, Progress, Phases, OneShotTargets
  <2>5. Selected'
    BY <1>7 DEF vars, OfferInv, Selected, ByProposal
  <2> QED
    BY <2>1, <2>3, <2>4, <2>5 DEF OfferInv
<1> QED
  BY <1>3, <1>4, <1>5, <1>6, <1>7, OfferOneShot, OfferEndRound, OfferRetrieve, OfferScreen,
     OfferChoose, OfferHarvest DEF Next

THEOREM OfferInvariance == Spec => [](BudgetInv /\ OfferInv)
  BY BudgetInit, BudgetStep, OfferInit, OfferStep, PTL DEF Spec

\* What a hunt has seen are as many structures as it counts.
LEMMA NoRepeatsCount ==
  ASSUME NEW seq \in Seq(Structures), NoRepeats(seq)
  PROVE  Cardinality(Emitted(seq)) = Len(seq)
<1> DEFINE n == Len(seq)
           E == Emitted(seq)
<1>1. n \in Nat /\ DOMAIN seq = 1 .. n /\ seq \in [1 .. n -> Structures]
  BY LenProperties
<1>2. seq \in [1 .. n -> E] /\ \A x \in E : \E i \in 1 .. n : seq[i] = x
  BY <1>1 DEF Emitted
<1>3. IsFiniteSet(1 .. n) /\ Cardinality(1 .. n) = n
  <2>1. n \in Int /\ 1 \in Int
    BY <1>1
  <2>2. IsFiniteSet(1 .. n) /\ Cardinality(1 .. n) = IF 1 > n THEN 0 ELSE n - 1 + 1
    BY <2>1, FS_Interval, Zenon
  <2> QED
    BY <1>1, <2>2
<1>4. \A i, j \in 1 .. n : seq[i] = seq[j] => i = j
  BY <1>1 DEF NoRepeats
<1> HIDE DEF n, E
<1>5. seq \in Surjection(1 .. n, E) /\ seq \in Injection(1 .. n, E)
  BY <1>2, <1>4, Fun_IsSurj, Fun_IsInj
<1>6. Cardinality(E) = n
  BY <1>3, <1>5, FS_Surjection
<1> QED
  BY <1>6 DEF n, E

\* Every variable keeps its type, and a hunt counts each structure once (what
\* propose_and_validate asserts of the validator).
THEOREM ProposalTypes == Spec => []TypeOK
<1>1. BudgetInv /\ OfferInv => TypeOK
  <2> SUFFICES ASSUME BudgetInv, OfferInv PROVE TypeOK
    OBVIOUS
  <2>1. hunt.seen \in Seq(Structures) /\ Cardinality(Emitted(hunt.seen)) = Len(hunt.seen)
    BY NoRepeatsCount DEF BudgetInv, HuntTypes, OfferInv, PoolShape
  <2>2. /\ run \in Run /\ round \in 0 .. MaxRounds /\ spent \in Nat /\ made \in Nat
        /\ hunt.quota \in Nat /\ hunt.attempts \in Nat /\ hunt.sinceNew \in Nat
        /\ hunt.satisfied \in BOOLEAN
    BY ProposalsAssumption DEF BudgetInv, Counts, HuntTypes
  <2>3. phase \in Phases /\ satisfied \in BOOLEAN /\ measured \in [Labels -> Outcomes]
    BY DEF OfferInv, Progress, OnlyTheCriticIsSatisfied
  <2> QED
    BY <2>1, <2>2, <2>3 DEF TypeOK, Run
<1> QED
  BY <1>1, OfferInvariance, PTL

\* A run that was not aborted for want of diversity reaches sizing: the rounds and the screen
\* leave two different structures, and no charge is refused.
THEOREM SelectionNeverFails == Spec => []SelectionSucceeds
<1>1. OfferInv => SelectionSucceeds
  BY DEF OfferInv, Progress, SelectionSucceeds
<1> QED
  BY <1>1, OfferInvariance, PTL

\* The screen never undoes what the critic asked further rounds for.
THEOREM VerdictsSurvive == Spec => []VerdictSurvivesScreen
<1>1. OfferInv => VerdictSurvivesScreen
  BY DEF OfferInv
<1> QED
  BY <1>1, OfferInvariance, PTL

\* While an id stands for one candidate, a training target is what was sized and verified.
THEOREM OneShotTargetsMeasured == Spec => []OneShotTargets
<1>1. OfferInv => OneShotTargets
  BY DEF OfferInv
<1> QED
  BY <1>1, OfferInvariance, PTL
=============================================================================
