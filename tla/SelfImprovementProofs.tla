----------------------- MODULE SelfImprovementProofs -----------------------
(***************************************************************************)
(* Theorems about SelfImprovement, for every value of its constants.       *)
(*                                                                         *)
(* What keeps the accepted checkpoints safe is the order of the numbers:   *)
(* a launch works in the generation after the one STATE.json holds, and    *)
(* everything it copies goes to that generation's directory (Lineage and   *)
(* Descent).  What keeps the streams complete is that a launch's rows are  *)
(* all in the files before the generation is left (Streamed).  What an     *)
(* accepted proposer was earned with only grows (EarnedGrows).  That a     *)
(* launch ends is a count of the steps it can still take (StepsLeft).      *)
(***************************************************************************)
EXTENDS SelfImprovement, TLAPS, SequenceTheorems, FiniteSetTheorems, WellFoundedInduction

\* Where a launch may be, and what it then has.
Reached ==
  /\ phase # "down" => launch # 0 /\ gen <= last
  /\ phase = "append" => todo # <<>>
  /\ phase \notin {"loop", "append"} => todo = <<>>

TypeInv == TypeOK /\ Reached

LEMMA JobsInSeq == Jobs \in Seq(JobSet)
<1> DEFINE R == [spec : Nat, seed : Nat]
<1>1. Jobs \in Seq(R)
  BY SelfImprovementAssumption
<1>2. Len(Jobs) \in Nat /\ Jobs = [i \in 1 .. Len(Jobs) |-> Jobs[i]]
  BY <1>1, LenProperties
<1>3. \A i \in 1 .. Len(Jobs) : Jobs[i] \in JobSet
  BY DEF JobSet
<1> QED
  BY <1>2, <1>3, IsASeq

LEMMA EndsTypes == <<>> \in Seq(JobSet) /\ Base \in Paths
  BY EmptySeq DEF Base, Paths

LEMMA HashType ==
  ASSUME TypeOK, NEW p \in Parts
  PROVE  /\ Hash(p) \in 0 .. MaxLaunches
         /\ \A g \in accepted[p] : Hash(p) = ckpt[p][g]
<1>1. accepted[p] = {} \/ \E g \in Gens : accepted[p] = {g}
  BY DEF TypeOK, Paths
<1>2. CASE accepted[p] = {}
  BY <1>2, SelfImprovementAssumption DEF Hash
<1>3. CASE \E g \in Gens : accepted[p] = {g}
  <2>1. PICK g \in Gens : accepted[p] = {g}
    BY <1>3
  <2>2. Hash(p) = ckpt[p][g]
    BY <2>1 DEF Hash
  <2> QED
    BY <2>1, <2>2 DEF TypeOK
<1> QED
  BY <1>1, <1>2, <1>3

LEMMA LoadedType ==
  ASSUME TypeOK
  PROVE  /\ Loaded \in Paths
         /\ state = {} => Loaded = Base
         /\ \A s \in state : Loaded = s.path
<1>1. CASE state = {}
  BY <1>1 DEF Loaded, Base, Paths
<1>2. ASSUME NEW s \in state PROVE Loaded = s.path /\ s.path \in Paths
  <2>1. {t.path : t \in state} = {s.path}
    BY <1>2 DEF TypeOK
  <2> QED
    BY <1>2, <2>1 DEF Loaded, TypeOK, States
<1> QED
  BY <1>1, <1>2

\* What a gate leaves behind.
LEMMA GateTypes ==
  ASSUME TypeOK, phase # "down", Reached, NEW p \in Parts, NEW R \in BOOLEAN, Gate(p, R)
  PROVE  /\ ckpt' \in [Parts -> [Gens -> 0 .. MaxLaunches]]
         /\ accepted' \in Paths
<1>1. CASE UNCHANGED <<ckpt, accepted>>
  BY <1>1 DEF TypeOK
<1>2. CASE /\ ckpt' = [ckpt EXCEPT ![p][gen] = launch]
           /\ accepted' = [accepted EXCEPT ![p] = {gen}]
  <2>1. {gen} \in {{}} \union {{g} : g \in Gens}
    BY DEF TypeOK
  <2> QED
    BY <1>2, <2>1 DEF TypeOK, Paths
<1> QED
  BY <1>1, <1>2 DEF Gate, OwnDirectory

LEMMA TypeInit == Init => TypeInv
<1> SUFFICES ASSUME Init PROVE TypeInv
  OBVIOUS
<1>1. MaxGen \in Nat /\ MaxLaunches \in Nat
  BY SelfImprovementAssumption
<1>2. 0 \in Gens /\ 0 \in 0 .. MaxLaunches
  BY <1>1 DEF Gens
<1>3. ckpt \in [Parts -> [Gens -> 0 .. MaxLaunches]]
  BY <1>2 DEF Init
<1> QED
  BY <1>2, <1>3, EndsTypes DEF Init, TypeInv, TypeOK, Reached, Phases

LEMMA TypeStep == TypeInv /\ [Next]_vars => TypeInv'
<1> SUFFICES ASSUME TypeInv, [Next]_vars PROVE TypeInv'
  OBVIOUS
<1> USE DEF TypeInv
<1>a. MaxGen \in Nat /\ MaxLaunches \in Nat /\ Lengths \subseteq Nat \ {0}
  BY SelfImprovementAssumption
<1>1. CASE UNCHANGED vars
  BY <1>1 DEF vars, process, files, history, TypeOK, Reached
<1>2. CASE Launch
  <2>1. gen' \in Nat /\ gen' <= last' /\ last' \in Gens
    <3>1. PICK n \in Lengths : last' = gen' + n - 1
      BY <1>2 DEF Launch
    <3>2. gen' \in FirstGen /\ last' <= MaxGen
      BY <1>2 DEF Launch
    <3>3. \A g \in FirstGen : g \in Nat
      BY <1>a DEF FirstGen, TypeOK, States, Gens
    <3> QED
      BY <1>a, <3>1, <3>2, <3>3 DEF Gens
  <2>2. gen' \in Gens
    BY <2>1, <1>a DEF Gens
  <2>3. accepted' \in Paths /\ resident' \subseteq Gens
    BY <1>2, LoadedType DEF Launch, Paths, Parts
  <2>4. launch' \in 0 .. MaxLaunches /\ launch' # 0
    BY <1>2, <1>a DEF Launch, TypeOK
  <2> QED
    BY <1>2, <2>1, <2>2, <2>3, <2>4 DEF Launch, files, TypeOK, Phases, Reached
<1>3. CASE Generation
  BY <1>3, JobsInSeq DEF Generation, files, history, TypeOK, Phases, Reached
<1>4. CASE Pipeline
  <2>1. Head(todo) \in JobSet
    BY <1>4, HeadTailProperties DEF Pipeline, TypeOK
  <2>2. launch \in 1 .. MaxLaunches
    BY <1>4, <1>a DEF Pipeline, TypeOK, Reached
  <2>3. harvest' \subseteq Rows
    BY <1>4, <2>1, <2>2, SelfImprovementAssumption, SMTT(60) DEF Pipeline, TypeOK, Rows
  <2> QED
    BY <1>4, <2>3 DEF Pipeline, files, TypeOK, Phases, Reached
<1>5. CASE AppendRow
  BY <1>5 DEF AppendRow, FirstOf, history, TypeOK, Reached
<1>6. CASE Remember
  <2>1. todo' \in Seq(JobSet)
    BY <1>6, HeadTailProperties DEF Remember, Advance, TypeOK, Reached
  <2> QED
    BY <1>6, <2>1 DEF Remember, history, TypeOK, Phases, Reached
<1>7. CASE AllRun
  BY <1>7 DEF AllRun, files, history, TypeOK, Phases, Reached
<1>8. CASE Ranker
  <2>1. RankerReaches \in BOOLEAN /\ "ranker" \in Parts
    BY DEF RankerReaches, Parts
  <2> QED
    BY <1>8, <2>1, GateTypes DEF Ranker, history, TypeOK, Phases, Reached
<1>9. CASE Value
  <2>1. ValueReaches \in BOOLEAN /\ "value" \in Parts
    BY DEF ValueReaches, Parts
  <2> QED
    BY <1>9, <2>1, GateTypes DEF Value, history, TypeOK, Phases, Reached
<1>10. CASE Proposer
  <2>1. ProposerReaches \in BOOLEAN /\ "proposer" \in Parts
    BY DEF ProposerReaches, Parts
  <2> QED
    BY <1>10, <2>1, GateTypes DEF Proposer, history, TypeOK, Phases, Reached
<1>11. CASE Publish
  <2>1. [gen |-> gen, path |-> accepted, hash |-> [p \in Parts |-> Hash(p)]] \in States
    BY HashType DEF States, TypeOK
  <2>2. launch \in 1 .. MaxLaunches
    BY <1>11, <1>a DEF Publish, TypeOK, Reached
  <2> QED
    BY <1>11, <2>1, <2>2 DEF Publish, TypeOK, Phases, Reached
<1>12. CASE NextGeneration
  <2>1. gen + 1 \in Gens /\ gen + 1 <= last
    BY <1>12, <1>a DEF NextGeneration, TypeOK, Gens
  <2> QED
    BY <1>12, <2>1 DEF NextGeneration, files, history, TypeOK, Phases, Reached
<1>13. CASE LastGeneration
  BY <1>13, EndsTypes DEF LastGeneration, Ends, files, history, TypeOK, Phases, Reached
<1>14. CASE Raises
  BY <1>14, EndsTypes DEF Raises, Ends, files, history, TypeOK, Phases, Reached
<1>15. CASE Crash
  BY <1>15, EndsTypes DEF Crash, Ends, files, TypeOK, Phases, Reached
<1>16. CASE CrashInAppend
  <2>1. damaged' \subseteq Files
    BY <1>16 DEF CrashInAppend, FirstOf, TypeOK, Files, File, Rows
  <2> QED
    BY <1>16, <2>1, EndsTypes DEF CrashInAppend, Ends, TypeOK, Phases, Reached
<1>17. CASE CrashInCopy
  <2>1. ckpt' \in [Parts -> [Gens -> 0 .. MaxLaunches]]
    BY <1>17, <1>a DEF CrashInCopy, OwnDirectory, TypeOK
  <2> QED
    BY <1>17, <2>1, EndsTypes DEF CrashInCopy, Ends, TypeOK, Phases, Reached
<1>18. CASE CrashInPublish
  <2>1. damaged' \subseteq Files
    BY <1>18 DEF CrashInPublish, TypeOK, Files
  <2> QED
    BY <1>18, <2>1, EndsTypes DEF CrashInPublish, Ends, TypeOK, Phases, Reached
<1>19. CASE Finished
  BY <1>19 DEF Finished, vars, process, files, history, TypeOK, Reached
<1> QED
  BY <1>1, <1>2, <1>3, <1>4, <1>5, <1>6, <1>7, <1>8, <1>9, <1>10, <1>11, <1>12, <1>13,
     <1>14, <1>15, <1>16, <1>17, <1>18, <1>19 DEF Next, Step
-----------------------------------------------------------------------------
(* A launch works in the generation after the one that is published, and what it
   accepts is its own or was accepted before. *)

Working == Phases \ {"down", "record"}

Lineage ==
  /\ phase \in Working => /\ state = {} => gen = 0
                          /\ \A s \in state : gen = s.gen + 1
  /\ phase = "record" => \E s \in state : s.gen = gen /\ s.path = accepted

Descent ==
  /\ phase \in {"generation", "loop", "append", "ranker"} => accepted = Loaded
  /\ phase \in Working => \A p \in Parts : accepted[p] \in {{gen}, Loaded[p]}
  /\ phase # "down" => \A p \in Parts : \A g \in accepted[p] : g <= gen /\ ckpt[p][g] # 0

LineageInv == Lineage /\ Descent /\ AcceptedIntact

\* Everything but a gate and a crash in one leaves the checkpoints alone.
LEMMA SameState ==
  ASSUME LineageInv, UNCHANGED <<state, ckpt>>
  PROVE  AcceptedIntact' /\ Loaded' = Loaded
  BY DEF LineageInv, AcceptedIntact, Loaded

\* A checkpoint written into the generation's own directory disturbs no published one.
LEMMA WriteOwn ==
  ASSUME TypeInv, LineageInv, phase \in Working, NEW p \in Parts, NEW n,
         ckpt' = [ckpt EXCEPT ![p][gen] = n], UNCHANGED state
  PROVE  AcceptedIntact'
<1> SUFFICES ASSUME NEW s \in state, NEW q \in Parts, NEW g \in s.path[q]
             PROVE  g <= s.gen /\ ckpt'[q][g] = s.hash[q] /\ s.hash[q] # 0
  BY DEF AcceptedIntact
<1>1. g <= s.gen /\ ckpt[q][g] = s.hash[q] /\ s.hash[q] # 0
  BY DEF LineageInv, AcceptedIntact
<1>2. gen = s.gen + 1 /\ s.gen \in Nat /\ g \in Gens
  BY SMTT(30) DEF LineageInv, Lineage, TypeInv, TypeOK, States, Paths, Gens
<1>3. g # gen /\ g \in Nat
  BY <1>1, <1>2 DEF Gens
<1>4. ckpt'[q][g] = ckpt[q][g]
  BY <1>2, <1>3 DEF TypeInv, TypeOK
<1> QED
  BY <1>1, <1>4

\* What a gate does to the lineage.
LEMMA GateLineage ==
  ASSUME TypeInv, LineageInv, phase \in Working, phase' \in Working \ {"generation", "loop",
           "append", "ranker"}, NEW p \in Parts, NEW R \in BOOLEAN, Gate(p, R),
         UNCHANGED <<state, gen, launch>>
  PROVE  LineageInv'
<1> USE DEF TypeInv
<1>1. Loaded' = Loaded
  BY DEF Loaded
<1>2. Lineage'
  BY DEF LineageInv, Lineage, Working
<1>3. CASE UNCHANGED <<ckpt, accepted>>
  <2>1. AcceptedIntact'
    BY <1>3, SameState
  <2>2. Descent'
    BY <1>1, <1>3 DEF LineageInv, Descent, Working
  <2> QED
    BY <1>2, <2>1, <2>2 DEF LineageInv
<1>4. CASE /\ ckpt' = [ckpt EXCEPT ![p][gen] = launch]
           /\ accepted' = [accepted EXCEPT ![p] = {gen}]
  <2>1. AcceptedIntact'
    BY <1>4, WriteOwn
  <2>2. launch # 0
    BY DEF Reached, Working
  <2>3. \A q \in Parts : accepted'[q] = {gen} \/ (q # p /\ accepted'[q] = accepted[q])
    BY <1>4 DEF TypeOK, Paths
  <2>4. \A q \in Parts : accepted'[q] \in {{gen}, Loaded[q]}
    BY <2>3 DEF LineageInv, Descent
  <2>5. ASSUME NEW q \in Parts, NEW g \in accepted'[q] PROVE g <= gen /\ ckpt'[q][g] # 0
    <3>1. CASE q = p
      <4>1. g = gen /\ gen \in Gens
        BY <1>4, <3>1, <2>5 DEF TypeOK, Paths
      <4>2. gen \in Nat
        BY SelfImprovementAssumption DEF TypeOK, Gens
      <4>3. ckpt[p] \in [Gens -> 0 .. MaxLaunches] /\ ckpt'[p] = [ckpt[p] EXCEPT ![gen] = launch]
        BY <1>4 DEF TypeOK
      <4>4. ckpt'[p][gen] = launch
        BY <4>1, <4>3
      <4> QED
        BY <2>2, <3>1, <4>1, <4>2, <4>4
    <3>2. CASE q # p
      <4>1. g \in accepted[q] /\ ckpt'[q] = ckpt[q]
        BY <1>4, <3>2, <2>5 DEF TypeOK, Paths
      <4> QED
        BY <4>1 DEF LineageInv, Descent, Working
    <3> QED
      BY <3>1, <3>2
  <2>6. Descent'
    BY <1>1, <2>4, <2>5 DEF Descent
  <2> QED
    BY <1>2, <2>1, <2>6 DEF LineageInv
<1> QED
  BY <1>3, <1>4 DEF Gate, OwnDirectory

LEMMA LineageInit == Init => LineageInv
  BY DEF Init, LineageInv, Lineage, Descent, AcceptedIntact, Working

\* A process that is gone leaves nothing but its files.
LEMMA DownLineage ==
  ASSUME phase' = "down", AcceptedIntact'
  PROVE  LineageInv'
  BY DEF LineageInv, Lineage, Descent, Working

LEMMA LineageStep == TypeInv /\ LineageInv /\ [Next]_vars => LineageInv'
<1> SUFFICES ASSUME TypeInv, LineageInv, [Next]_vars PROVE LineageInv'
  OBVIOUS
<1>1. CASE UNCHANGED vars
  BY <1>1 DEF vars, process, files, history, LineageInv, Lineage, Descent, AcceptedIntact,
              Loaded
<1>2. CASE Launch
  <2>1. AcceptedIntact' /\ Loaded' = Loaded
    BY <1>2, SameState DEF Launch, files
  <2>a. state = {} => gen' = 0
    BY <1>2 DEF Launch, FirstGen
  <2>b. ASSUME NEW s \in state PROVE gen' = s.gen + 1
    <3>1. state = {s}
      BY <2>b DEF TypeInv, TypeOK
    <3> QED
      BY <1>2, <3>1 DEF Launch, FirstGen
  <2>2. Lineage'
    BY <1>2, <2>a, <2>b DEF Launch, files, Lineage
  <2>3. accepted' = Loaded /\ phase' = "generation"
    BY <1>2 DEF Launch
  <2>4. ASSUME NEW p \in Parts, NEW g \in Loaded[p] PROVE g <= gen' /\ ckpt'[p][g] # 0
    <3>1. CASE state = {}
      BY <3>1, <2>4, LoadedType DEF TypeInv, Base
    <3>2. CASE state # {}
      <4>1. PICK s \in state : Loaded = s.path /\ gen' = s.gen + 1
        BY <2>b, <3>2, LoadedType DEF TypeInv
      <4>a. g <= s.gen /\ ckpt[p][g] # 0
        BY <4>1, <2>4 DEF LineageInv, AcceptedIntact
      <4>b. s.gen \in Nat /\ g \in Nat
        <5>1. s.gen \in Gens /\ s.path \in Paths
          BY DEF TypeInv, TypeOK, States
        <5>2. g \in Gens
          BY <4>1, <2>4, <5>1 DEF Paths
        <5> QED
          BY <5>1, <5>2 DEF Gens
      <4>2. g <= s.gen /\ ckpt[p][g] # 0 /\ s.gen \in Nat /\ g \in Nat
        BY <4>a, <4>b
      <4> QED
        BY <1>2, <4>1, <4>2 DEF Launch, files
    <3> QED
      BY <3>1, <3>2
  <2>5. Descent'
    BY <2>1, <2>3, <2>4 DEF Descent
  <2> QED
    BY <2>1, <2>2, <2>5 DEF LineageInv
<1>3. CASE Generation
  BY <1>3, SameState DEF Generation, files, LineageInv, Lineage, Descent, Working, Phases
<1>4. CASE Pipeline
  BY <1>4, SameState DEF Pipeline, files, LineageInv, Lineage, Descent, Working, Phases
<1>5. CASE AppendRow
  BY <1>5, SameState DEF AppendRow, LineageInv, Lineage, Descent, Working, Phases
<1>6. CASE Remember
  BY <1>6, SameState DEF Remember, LineageInv, Lineage, Descent, Working, Phases
<1>7. CASE AllRun
  BY <1>7, SameState DEF AllRun, files, LineageInv, Lineage, Descent, Working, Phases
<1>8. CASE Ranker
  <2>1. RankerReaches \in BOOLEAN /\ "ranker" \in Parts
    BY DEF RankerReaches, Parts
  <2> QED
    BY <1>8, <2>1, GateLineage DEF Ranker, Working, Phases
<1>9. CASE Value
  <2>1. ValueReaches \in BOOLEAN /\ "value" \in Parts
    BY DEF ValueReaches, Parts
  <2> QED
    BY <1>9, <2>1, GateLineage DEF Value, Working, Phases
<1>10. CASE Proposer
  <2>1. ProposerReaches \in BOOLEAN /\ "proposer" \in Parts
    BY DEF ProposerReaches, Parts
  <2> QED
    BY <1>10, <2>1, GateLineage DEF Proposer, Working, Phases
<1>11. CASE Publish
  <2>1. ASSUME NEW p \in Parts, NEW g \in accepted[p]
        PROVE  g <= gen /\ ckpt[p][g] = Hash(p) /\ ckpt[p][g] # 0
    <3>1. ckpt[p][g] = Hash(p)
      BY HashType DEF TypeInv
    <3>2. phase # "down"
      BY <1>11 DEF Publish
    <3> QED
      BY <3>1, <3>2 DEF LineageInv, Descent
  <2>2. AcceptedIntact'
    BY <1>11, <2>1 DEF Publish, AcceptedIntact
  <2>3. Lineage' /\ Descent'
    BY <1>11 DEF Publish, LineageInv, Lineage, Descent, Working
  <2> QED
    BY <2>2, <2>3 DEF LineageInv
<1>12. CASE NextGeneration
  <2>1. PICK s \in state : s.gen = gen /\ s.path = accepted
    BY <1>12 DEF NextGeneration, LineageInv, Lineage
  <2>2. Loaded = accepted /\ \A t \in state : t = s
    BY <2>1, LoadedType DEF TypeInv, TypeOK
  <2>3. Lineage'
    BY <1>12, <2>1, <2>2 DEF NextGeneration, files, Lineage, Working
  <2>4. \A p \in Parts : \A g \in accepted[p] : g \in Nat
    BY DEF TypeInv, TypeOK, Paths, Gens
  <2>5. Descent'
    BY <1>12, <2>2, <2>4, SameState DEF NextGeneration, files, LineageInv, Descent, TypeInv,
       TypeOK, Gens
  <2> QED
    BY <1>12, <2>3, <2>5, SameState DEF NextGeneration, files, LineageInv
<1>13. CASE LastGeneration
  BY <1>13, SameState, DownLineage DEF LastGeneration, Ends, files
<1>14. CASE Raises
  BY <1>14, SameState, DownLineage DEF Raises, Ends, files
<1>15. CASE Crash
  BY <1>15, SameState, DownLineage DEF Crash, Ends, files
<1>16. CASE CrashInAppend
  BY <1>16, SameState, DownLineage DEF CrashInAppend, Ends
<1>17. CASE CrashInCopy
  <2>1. AcceptedIntact'
    BY <1>17, WriteOwn DEF CrashInCopy, OwnDirectory, Working, Phases
  <2> QED
    BY <1>17, <2>1, DownLineage DEF CrashInCopy, Ends
<1>18. CASE CrashInPublish
  <2>1. AcceptedIntact'
    BY <1>18 DEF CrashInPublish, AcceptedIntact
  <2> QED
    BY <1>18, <2>1, DownLineage DEF CrashInPublish, Ends
<1>19. CASE Finished
  BY <1>19 DEF Finished, vars, process, files, history, LineageInv, Lineage, Descent,
               AcceptedIntact, Loaded
<1> QED
  BY <1>1, <1>2, <1>3, <1>4, <1>5, <1>6, <1>7, <1>8, <1>9, <1>10, <1>11, <1>12, <1>13,
     <1>14, <1>15, <1>16, <1>17, <1>18, <1>19 DEF Next, Step

THEOREM LineageInvariance == Spec => [](TypeInv /\ LineageInv)
<1>1. Init => TypeInv /\ LineageInv
  BY TypeInit, LineageInit
<1>2. TypeInv /\ LineageInv /\ [Next]_vars => (TypeInv /\ LineageInv)'
  BY TypeStep, LineageStep
<1> QED
  BY <1>1, <1>2, PTL DEF Spec

\* The variables keep their types: no launch works beyond the generations it was asked for.
THEOREM SelfImprovementTypes == Spec => []TypeOK
<1>1. TypeInv => TypeOK
  BY DEF TypeInv
<1> QED
  BY <1>1, LineageInvariance, PTL

\* No crash, repetition or later acceptance changes a checkpoint STATE.json names
\* (save_state and the copies to gp.ckpt).
THEOREM AcceptedStaysIntact == Spec => []AcceptedIntact
<1>1. LineageInv => AcceptedIntact
  BY DEF LineageInv
<1> QED
  BY <1>1, LineageInvariance, PTL

\* The runs of a generation use what the published generation accepted (main's loop).
THEOREM RunsFollowState == Spec => []RunsUseAccepted
<1>1. TypeInv /\ LineageInv => RunsUseAccepted
  BY LoadedType DEF TypeInv, LineageInv, Lineage, Descent, Working, Phases, RunsUseAccepted
<1> QED
  BY <1>1, LineageInvariance, PTL

\* STATE.json moves by one generation at a time, and by nothing but its own candidates.
THEOREM OneByOne == Spec => OneGenerationAtATime
<1> DEFINE Moves == \A n \in state' \ state :
      /\ state = {} => n.gen = 0
      /\ \A s \in state : n.gen = s.gen + 1
      /\ \A p \in Parts : n.path[p] \in {{n.gen}, Loaded[p]}
<1>1. TypeInv /\ LineageInv /\ [Next]_vars => Moves
  <2> SUFFICES ASSUME LineageInv, [Next]_vars, state' \ state # {} PROVE Moves
    OBVIOUS
  <2>1. Publish
    BY DEF Next, Step, Launch, Generation, Pipeline, AppendRow, Remember, AllRun, Ranker,
       Value, Proposer, NextGeneration, LastGeneration, Raises, Crash, CrashInAppend,
       CrashInCopy, CrashInPublish, Finished, vars, files, process
  <2> QED
    BY <2>1 DEF Publish, LineageInv, Lineage, Descent, Working, Phases
<1> QED
  BY <1>1, LineageInvariance, PTL DEF Spec, OneGenerationAtATime
-----------------------------------------------------------------------------
(* A row is in its file before its generation is published. *)

\* What the launch at work has measured in its present generation, and where it is.
InHand(w) == phase = "append" /\ w \in harvest
Current(w) == phase = "append" /\ w.job = Head(todo)

Streamed ==
  phase # "down" =>
    \A w \in yielded : w.launch = launch =>
      /\ w.gen <= gen /\ (phase = "generation" => w.gen < gen)
      /\ w.gen = gen => /\ w \in rows \/ File(w.gen, w.stream) \in damaged \/ InHand(w)
                        /\ w.stream = "rag_memory" => w \in memory \/ Current(w)

\* Launches and publications are in order.
Ordered ==
  /\ \A w \in yielded : w.launch <= launch
  /\ \A x \in published : x.launch <= launch
  /\ phase # "down" => \A x \in published : x.launch = launch =>
       x.gen < gen \/ (phase = "record" /\ x.gen = gen)

Readied == phase \in {"loop", "append"} => MemoryFile \notin damaged

StreamInv == Streamed /\ Ordered /\ Readied /\ PublishedIsLearned

\* Files only gain rows, or are cut short.
LEMMA Kept ==
  ASSUME TypeInv, PublishedIsLearned, rows \subseteq rows', memory \subseteq memory',
         damaged \subseteq damaged', UNCHANGED <<yielded, published>>
  PROVE  PublishedIsLearned'
  BY DEF PublishedIsLearned

\* A process that is gone has nothing in hand.
LEMMA DownStreams ==
  ASSUME TypeInv, StreamInv, phase' = "down", damaged \subseteq damaged',
         UNCHANGED <<launch, rows, memory, yielded, published>>
  PROVE  StreamInv'
<1>1. PublishedIsLearned'
  BY Kept DEF StreamInv
<1> QED
  BY <1>1 DEF StreamInv, Streamed, Ordered, Readied

\* A step between two phases that have nothing in hand.
LEMMA PassingStreams ==
  ASSUME TypeInv, StreamInv, phase \notin {"down", "generation", "append", "record"},
         phase' \in {"ranker", "value", "sft", "publish"},
         UNCHANGED <<launch, gen, damaged, rows, memory, yielded, published>>
  PROVE  StreamInv'
<1>1. PublishedIsLearned'
  BY Kept DEF StreamInv
<1>2. Streamed'
  BY DEF StreamInv, Streamed, InHand, Current
<1> QED
  BY <1>1, <1>2 DEF StreamInv, Ordered, Readied

LEMMA StreamInit == Init => StreamInv
  BY DEF Init, StreamInv, Streamed, Ordered, Readied, PublishedIsLearned

LEMMA StreamStep == TypeInv /\ StreamInv /\ [Next]_vars => StreamInv'
<1> SUFFICES ASSUME TypeInv, StreamInv, [Next]_vars PROVE StreamInv'
  OBVIOUS
<1>0. MaxGen \in Nat /\ MaxLaunches \in Nat
  BY SelfImprovementAssumption
<1>a. \A w \in yielded : w.launch \in Nat /\ w.gen \in Nat
  <2>1. yielded \subseteq Rows
    BY DEF TypeInv, TypeOK
  <2>2. Gens \subseteq Nat /\ 1 .. MaxLaunches \subseteq Nat
    BY <1>0 DEF Gens
  <2> QED
    BY <2>1, <2>2 DEF Rows
<1>b. \A x \in published : x.launch \in Nat /\ x.gen \in Nat
  <2>1. published \subseteq [gen : Gens, launch : 1 .. MaxLaunches]
    BY DEF TypeInv, TypeOK
  <2>2. Gens \subseteq Nat /\ 1 .. MaxLaunches \subseteq Nat
    BY <1>0 DEF Gens
  <2> QED
    BY <2>1, <2>2
<1>c. launch \in Nat /\ gen \in Nat /\ last \in Nat
  BY SelfImprovementAssumption DEF TypeInv, TypeOK, Gens
<1>1. CASE UNCHANGED vars
  BY <1>1 DEF vars, process, files, history, StreamInv, Streamed, Ordered, Readied,
              PublishedIsLearned, InHand, Current
<1>2. CASE Launch
  <2>1. PublishedIsLearned'
    BY <1>2, Kept DEF Launch, files, StreamInv
  <2>2. Ordered'
    BY <1>2, <1>a, <1>b, <1>c DEF Launch, StreamInv, Ordered
  <2>3. Streamed'
    BY <1>2, <1>a, <1>c DEF Launch, StreamInv, Ordered, Streamed
  <2> QED
    BY <1>2, <2>1, <2>2, <2>3 DEF Launch, StreamInv, Readied
<1>3. CASE Generation
  <2>1. PublishedIsLearned'
    BY <1>3, Kept DEF Generation, files, history, StreamInv
  <2>2. Streamed'
    BY <1>3, <1>a, <1>c DEF Generation, files, history, StreamInv, Streamed
  <2> QED
    BY <1>3, <2>1, <2>2 DEF Generation, files, history, StreamInv, Ordered, Readied
<1>4. CASE Pipeline
  <2>1. \A w \in harvest' : w.gen = gen /\ w.launch = launch /\ w.job = Head(todo)
    BY <1>4 DEF Pipeline
  <2>2. ~ \E x \in published : x.launch = launch /\ x.gen = gen
    BY <1>4, <1>c DEF Pipeline, StreamInv, Ordered
  <2>3. PublishedIsLearned'
    BY <1>4, <2>1, <2>2 DEF Pipeline, files, StreamInv, PublishedIsLearned
  <2>4. Streamed'
    BY <1>4, <2>1, <1>c DEF Pipeline, files, StreamInv, Streamed, InHand, Current
  <2>5. Ordered'
    BY <1>4, <2>1, <1>c DEF Pipeline, files, StreamInv, Ordered
  <2> QED
    BY <1>4, <2>3, <2>4, <2>5 DEF Pipeline, files, StreamInv, Readied
<1>5. CASE AppendRow
  <2>1. PublishedIsLearned'
    BY <1>5, Kept DEF AppendRow, history, StreamInv
  <2>2. \A w \in harvest : w \in harvest' \/ w \in rows' \/ File(gen, w.stream) \in damaged
    BY <1>5 DEF AppendRow
  <2>3. rows \subseteq rows'
    BY <1>5 DEF AppendRow
  <2>4. Streamed'
    BY <1>5, <2>2, <2>3 DEF AppendRow, history, StreamInv, Streamed, InHand, Current
  <2> QED
    BY <1>5, <2>1, <2>4 DEF AppendRow, history, StreamInv, Ordered, Readied
<1>6. CASE Remember
  <2>1. PublishedIsLearned'
    BY <1>6, Kept DEF Remember, history, StreamInv
  <2>2. \A w \in yielded : w.stream = "rag_memory" /\ w.gen = gen /\ w.launch = launch
                             /\ w.job = Head(todo) => w \in memory'
    BY <1>6 DEF Remember, Remembered, StreamInv, Readied
  <2>3. memory \subseteq memory'
    BY <1>6 DEF Remember
  <2>4. Streamed'
    BY <1>6, <2>2, <2>3 DEF Remember, history, StreamInv, Streamed, InHand, Current
  <2> QED
    BY <1>6, <2>1, <2>4 DEF Remember, history, StreamInv, Ordered, Readied
<1>7. CASE AllRun
  BY <1>7, PassingStreams DEF AllRun, files, history
<1>8. CASE Ranker
  BY <1>8, PassingStreams DEF Ranker, history
<1>9. CASE Value
  BY <1>9, PassingStreams DEF Value, history
<1>10. CASE Proposer
  BY <1>10, PassingStreams DEF Proposer, history
<1>11. CASE Publish
  <2>1. PublishedIsLearned'
    BY <1>11 DEF Publish, StreamInv, Streamed, InHand, Current, PublishedIsLearned
  <2>2. Streamed'
    BY <1>11 DEF Publish, StreamInv, Streamed, InHand, Current
  <2>3. Ordered'
    BY <1>11, <1>b, <1>c DEF Publish, StreamInv, Ordered
  <2> QED
    BY <1>11, <2>1, <2>2, <2>3 DEF Publish, StreamInv, Readied
<1>12. CASE NextGeneration
  <2>1. PublishedIsLearned'
    BY <1>12, Kept DEF NextGeneration, files, history, StreamInv
  <2>2. Streamed'
    BY <1>12, <1>a, <1>c DEF NextGeneration, files, history, StreamInv, Streamed
  <2>3. Ordered'
    BY <1>12, <1>b, <1>c DEF NextGeneration, files, history, StreamInv, Ordered
  <2> QED
    BY <1>12, <2>1, <2>2, <2>3 DEF NextGeneration, StreamInv, Readied
<1>13. CASE LastGeneration
  BY <1>13, DownStreams DEF LastGeneration, Ends, files, history
<1>14. CASE Raises
  BY <1>14, DownStreams DEF Raises, Ends, files, history
<1>15. CASE Crash
  BY <1>15, DownStreams DEF Crash, Ends, files
<1>16. CASE CrashInAppend
  BY <1>16, DownStreams DEF CrashInAppend, Ends
<1>17. CASE CrashInCopy
  BY <1>17, DownStreams DEF CrashInCopy, Ends
<1>18. CASE CrashInPublish
  BY <1>18, DownStreams DEF CrashInPublish, Ends
<1>19. CASE Finished
  BY <1>19 DEF Finished, vars, process, files, history, StreamInv, Streamed, Ordered,
               Readied, PublishedIsLearned, InHand, Current
<1> QED
  BY <1>1, <1>2, <1>3, <1>4, <1>5, <1>6, <1>7, <1>8, <1>9, <1>10, <1>11, <1>12, <1>13,
     <1>14, <1>15, <1>16, <1>17, <1>18, <1>19 DEF Next, Step

\* Everything a published generation measured is in its streams and in the memory
\* (append, and the memory write that follows each run).
THEOREM NothingUnlearned == Spec => []PublishedIsLearned
<1>1. Init => TypeInv /\ StreamInv
  BY TypeInit, StreamInit
<1>2. TypeInv /\ StreamInv /\ [Next]_vars => (TypeInv /\ StreamInv)'
  BY TypeStep, StreamStep
<1>3. StreamInv => PublishedIsLearned
  BY DEF StreamInv
<1> QED
  BY <1>1, <1>2, <1>3, PTL DEF Spec
-----------------------------------------------------------------------------
(* What a proposer is accepted on only grows. *)

Specs == {j.spec : j \in JobSet}
Seeds == {j.seed : j \in JobSet}

\* The seeds a specification was passed under up to a generation, and the specifications
\* passed under enough of them.
PassedSeeds(R, spec, g) ==
  {w.job.seed : w \in {v \in R : /\ v.stream = "sft_queue" /\ v.gen <= g
                                 /\ v.job.spec = spec}}
PassedSpecs(R, g) ==
  {spec \in {w.job.spec : w \in R} : Cardinality(PassedSeeds(R, spec, g)) >= MinSeeds}

Earned(g) == Cardinality(PassedSpecs(rows, g)) >= Threshold

\* Jobs are finitely many, so their specifications and seeds are.
LEMMA JobsFinite == IsFiniteSet(Specs) /\ IsFiniteSet(Seeds)
<1> DEFINE I == 1 .. Len(Jobs)
           f == [i \in I |-> Jobs[i].spec]
           h == [i \in I |-> Jobs[i].seed]
<1>1. Len(Jobs) \in Nat
  BY SelfImprovementAssumption, LenProperties
<1>2. IsFiniteSet(I)
  BY <1>1, FS_Interval
<1>3. f \in Surjection(I, Specs)
  BY DEF Surjection, Specs, JobSet
<1>4. h \in Surjection(I, Seeds)
  BY DEF Surjection, Seeds, JobSet
<1> HIDE DEF I, f, h
<1> QED
  BY <1>2, <1>3, <1>4, FS_Surjection

\* More rows are more specifications passed.
LEMMA PassedGrows ==
  ASSUME NEW R, NEW Q, Q \subseteq R, R \subseteq Rows, NEW g
  PROVE  /\ IsFiniteSet(PassedSpecs(R, g)) /\ Cardinality(PassedSpecs(R, g)) \in Nat
         /\ Cardinality(PassedSpecs(Q, g)) \in Nat
         /\ Cardinality(PassedSpecs(Q, g)) <= Cardinality(PassedSpecs(R, g))
<1>1. MinSeeds \in Nat
  BY SelfImprovementAssumption
<1>2. \A w \in R : w.job \in JobSet
  BY DEF Rows
<1>3. ASSUME NEW spec
      PROVE  /\ Cardinality(PassedSeeds(Q, spec, g)) \in Nat
             /\ Cardinality(PassedSeeds(R, spec, g)) \in Nat
             /\ Cardinality(PassedSeeds(Q, spec, g)) <= Cardinality(PassedSeeds(R, spec, g))
  <2>1. PassedSeeds(R, spec, g) \in SUBSET Seeds
    BY <1>2 DEF PassedSeeds, Seeds
  <2>2. PassedSeeds(Q, spec, g) \in SUBSET PassedSeeds(R, spec, g)
    BY DEF PassedSeeds
  <2>3. IsFiniteSet(PassedSeeds(R, spec, g))
    BY <2>1, JobsFinite, FS_Subset
  <2>4. /\ IsFiniteSet(PassedSeeds(Q, spec, g))
        /\ Cardinality(PassedSeeds(Q, spec, g)) <= Cardinality(PassedSeeds(R, spec, g))
    BY <2>2, <2>3, FS_Subset
  <2> QED
    BY <2>3, <2>4, FS_CardinalityType
<1>4. PassedSpecs(R, g) \in SUBSET Specs
  BY <1>2 DEF PassedSpecs, Specs
<1>5. PassedSpecs(Q, g) \in SUBSET PassedSpecs(R, g)
  <2> SUFFICES ASSUME NEW spec \in PassedSpecs(Q, g) PROVE spec \in PassedSpecs(R, g)
    OBVIOUS
  <2>1. spec \in {w.job.spec : w \in R}
    BY DEF PassedSpecs
  <2>2. Cardinality(PassedSeeds(Q, spec, g)) >= MinSeeds
    BY DEF PassedSpecs
  <2>3. Cardinality(PassedSeeds(R, spec, g)) >= MinSeeds
    BY <1>1, <1>3, <2>2
  <2> QED
    BY <2>1, <2>3 DEF PassedSpecs
<1>6. IsFiniteSet(PassedSpecs(R, g))
  BY <1>4, JobsFinite, FS_Subset
<1>7. /\ IsFiniteSet(PassedSpecs(Q, g))
      /\ Cardinality(PassedSpecs(Q, g)) <= Cardinality(PassedSpecs(R, g))
  BY <1>5, <1>6, FS_Subset
<1> QED
  BY <1>6, <1>7, FS_CardinalityType

\* What is earned stays earned while files only gain rows.
LEMMA EarnedGrows ==
  ASSUME TypeInv', rows \subseteq rows', NEW g, Earned(g)
  PROVE  Earned(g)'
<1>1. rows' \subseteq Rows
  BY DEF TypeInv, TypeOK
<1>2. /\ Cardinality(PassedSpecs(rows, g)) \in Nat /\ Cardinality(PassedSpecs(rows', g)) \in Nat
      /\ Cardinality(PassedSpecs(rows, g)) <= Cardinality(PassedSpecs(rows', g))
  BY <1>1, PassedGrows
<1> QED
  BY <1>2, SelfImprovementAssumption DEF Earned

\* The gate of the proposer only opens on enough specifications of enough seeds.
LEMMA GateEarns ==
  ASSUME TypeInv, ProposerReaches
  PROVE  Earned(gen)
<1> DEFINE Enough == {spec \in {w.job.spec : w \in SftRows} :
                       /\ Cardinality({w \in SftRows : w.job.spec = spec}) >= 2
                       /\ Cardinality(PassedSeeds(rows, spec, gen)) >= MinSeeds}
<1>1. \A spec : SeedsOf(spec) = PassedSeeds(rows, spec, gen)
  BY DEF SeedsOf, SftRows, RowsUpTo, PassedSeeds
<1>2. MultiSeed = Enough
  BY <1>1 DEF MultiSeed, EnoughSeeds
<1>3. MultiSeed \in SUBSET PassedSpecs(rows, gen)
  BY <1>2 DEF PassedSpecs, SftRows, RowsUpTo
<1>4. IsFiniteSet(PassedSpecs(rows, gen)) /\ Cardinality(PassedSpecs(rows, gen)) \in Nat
  BY PassedGrows DEF TypeInv, TypeOK
<1>5. Cardinality(MultiSeed) \in Nat /\ Cardinality(MultiSeed) <= Cardinality(PassedSpecs(rows, gen))
  BY <1>3, <1>4, FS_Subset, FS_CardinalityType
<1> QED
  BY <1>4, <1>5, SelfImprovementAssumption DEF ProposerReaches, Earned

EarnedInv ==
  /\ phase # "down" => \A g \in accepted["proposer"] : Earned(g)
  /\ \A s \in state : \A g \in s.path["proposer"] : Earned(g)

LEMMA EarnedStep == TypeInv /\ EarnedInv /\ [Next]_vars /\ TypeInv' => EarnedInv'
<1> SUFFICES ASSUME TypeInv, EarnedInv, [Next]_vars, TypeInv' PROVE EarnedInv'
  OBVIOUS
<1>0. rows \subseteq rows'
  BY DEF Next, Step, Launch, Generation, Pipeline, AppendRow, Remember, AllRun, Ranker, Value,
         Proposer, Publish, NextGeneration, LastGeneration, Raises, Crash, CrashInAppend,
         CrashInCopy, CrashInPublish, Finished, vars, files
<1>1. \A g : Earned(g) => Earned(g)'
  BY <1>0, EarnedGrows
<1>2. CASE Launch
  <2>1. accepted' = Loaded /\ UNCHANGED state
    BY <1>2 DEF Launch, files
  <2>2. \A g \in Loaded["proposer"] : Earned(g)
    BY LoadedType DEF TypeInv, EarnedInv, Base, Parts
  <2> QED
    BY <1>1, <2>1, <2>2 DEF EarnedInv
<1>3. CASE Proposer
  <2>1. phase # "down" /\ UNCHANGED state /\ Gate("proposer", ProposerReaches)
    BY <1>3 DEF Proposer
  <2>2. CASE UNCHANGED accepted
    BY <1>1, <2>1, <2>2 DEF EarnedInv
  <2>3. CASE ProposerReaches /\ accepted' = [accepted EXCEPT !["proposer"] = {gen}]
    <3>1. accepted'["proposer"] = {gen}
      BY <2>3 DEF TypeInv, TypeOK, Paths, Parts
    <3> QED
      BY <1>1, <2>1, <2>3, <3>1, GateEarns DEF EarnedInv
  <2> QED
    BY <2>1, <2>2, <2>3 DEF Gate, OwnDirectory
<1>4. CASE Ranker \/ Value
  <2>1. /\ phase # "down" /\ UNCHANGED state
        /\ \E p \in Parts \ {"proposer"} : \/ UNCHANGED accepted
                                           \/ accepted' = [accepted EXCEPT ![p] = {gen}]
    BY <1>4 DEF Ranker, Value, Gate, OwnDirectory, Parts
  <2>2. accepted'["proposer"] = accepted["proposer"]
    BY <2>1 DEF TypeInv, TypeOK, Paths, Parts
  <2> QED
    BY <1>1, <2>1, <2>2 DEF EarnedInv
<1>5. CASE Publish
  <2>1. /\ phase # "down" /\ UNCHANGED accepted
        /\ \A s \in state' : s.path = accepted
    BY <1>5 DEF Publish
  <2> QED
    BY <1>1, <2>1 DEF EarnedInv
<1>6. CASE /\ state' \subseteq state
           /\ phase' = "down" \/ (phase # "down" /\ UNCHANGED accepted)
  BY <1>1, <1>6 DEF EarnedInv
<1>7. CASE UNCHANGED vars
  BY <1>6, <1>7 DEF vars, process, files
<1> QED
  BY <1>2, <1>3, <1>4, <1>5, <1>6, <1>7
     DEF Next, Step, Generation, Pipeline, AppendRow, Remember, AllRun, NextGeneration,
         LastGeneration, Raises, Ends, Crash, CrashInAppend, CrashInCopy, CrashInPublish,
         Finished, files

\* No proposer is accepted on the same specification passed over and over: each accepted
\* one rests on Threshold specifications of MinSeeds seeds (aggregate_sft_targets).
THEOREM AcceptedProposerEarned == Spec => []ProposerEarned
<1>1. Init => TypeInv /\ EarnedInv
  BY TypeInit DEF Init, EarnedInv
<1>2. TypeInv /\ EarnedInv /\ [Next]_vars => (TypeInv /\ EarnedInv)'
  BY TypeStep, EarnedStep
<1>3. EarnedInv => ProposerEarned
  BY DEF EarnedInv, Earned, PassedSpecs, PassedSeeds, ProposerEarned
<1> QED
  BY <1>1, <1>2, <1>3, PTL DEF Spec
-----------------------------------------------------------------------------
(* A launch takes a bounded number of steps, and what it has done when it ends. *)

\* A job is a run, at most one row for each of six streams, and the shared memory; a
\* generation is its header, its jobs, the end of the loop, three gates, the publication
\* and the record.
StepsOfGeneration == 7 + 8 * Len(Jobs)

StepsHere ==
  CASE phase = "generation" -> StepsOfGeneration
    [] phase = "loop"       -> 6 + 8 * Len(todo)
    [] phase = "append"     -> 8 * Len(todo) - 1 + Cardinality(harvest)
    [] phase = "ranker"     -> 5
    [] phase = "value"      -> 4
    [] phase = "sft"        -> 3
    [] phase = "publish"    -> 2
    [] phase = "record"     -> 1

StepsLeft ==
  IF phase = "down" THEN 0 ELSE StepsHere + (last - gen) * StepsOfGeneration

HarvestSmall == IsFiniteSet(harvest) /\ Cardinality(harvest) <= 6

\* A run files at most one row for each stream.
LEMMA PipelineSmall == TypeInv /\ Pipeline => HarvestSmall'
<1> SUFFICES ASSUME TypeInv, Pipeline PROVE HarvestSmall'
  OBVIOUS
<1>1. PICK y \in Yields :
        harvest' = {[gen |-> gen, job |-> Head(todo), stream |-> s, launch |-> launch,
                     decided |-> y.decided] : s \in y.streams}
  BY Zenon DEF Pipeline
<1> DEFINE row(s) == [gen |-> gen, job |-> Head(todo), stream |-> s, launch |-> launch,
                      decided |-> y.decided]
           f == [s \in y.streams |-> row(s)]
           T == harvest'
<1>2. y.streams \subseteq Streams
  BY SelfImprovementAssumption
<1>3. f \in Surjection(y.streams, T)
  <2>1. f \in [y.streams -> T]
    BY <1>1
  <2>2. \A w \in T : \E s \in y.streams : f[s] = w
    BY <1>1
  <2> HIDE DEF f, T
  <2> QED
    BY <2>1, <2>2 DEF Surjection
<1>4. IsFiniteSet(Streams) /\ Cardinality(Streams) <= 6
  <2> DEFINE g == [k \in 1 .. 6 |-> CHOOSE s \in Streams : Position[s] = k]
  <2>1. \A s \in Streams : Position[s] \in 1 .. 6
    BY DEF Streams, Position
  <2>2. \A s, v \in Streams : Position[s] = Position[v] => s = v
    BY DEF Streams, Position
  <2>3. \A k \in 1 .. 6 : \E s \in Streams : Position[s] = k
    BY DEF Streams, Position
  <2>4. \A k \in 1 .. 6 : g[k] \in Streams /\ Position[g[k]] = k
    BY <2>3
  <2>5. g \in [1 .. 6 -> Streams]
    BY <2>4
  <2>6. \A s \in Streams : \E k \in 1 .. 6 : g[k] = s
    BY <2>1, <2>2, <2>4
  <2>7. g \in Surjection(1 .. 6, Streams)
    <3> HIDE DEF g
    <3> QED
      BY <2>5, <2>6 DEF Surjection
  <2>8. IsFiniteSet(1 .. 6) /\ Cardinality(1 .. 6) = 6
    <3>1. 1 \in Int /\ 6 \in Int
      OBVIOUS
    <3>2. /\ IsFiniteSet(1 .. 6)
          /\ Cardinality(1 .. 6) = IF 1 > 6 THEN 0 ELSE 6 - 1 + 1
      BY <3>1, FS_Interval, Zenon
    <3> QED
      BY <3>2
  <2> HIDE DEF g
  <2> QED
    BY <2>7, <2>8, FS_Surjection
<1>5. /\ IsFiniteSet(y.streams) /\ Cardinality(y.streams) <= Cardinality(Streams)
      /\ Cardinality(y.streams) \in Nat /\ Cardinality(Streams) \in Nat
  BY <1>2, <1>4, FS_Subset, FS_CardinalityType
<1>6. IsFiniteSet(T) /\ Cardinality(T) <= Cardinality(y.streams) /\ Cardinality(T) \in Nat
  <2> HIDE DEF f, T
  <2> QED
    BY <1>3, <1>5, FS_Surjection, FS_CardinalityType
<1> QED
  BY <1>4, <1>5, <1>6 DEF HarvestSmall

LEMMA SmallStep == TypeInv /\ HarvestSmall /\ [Next]_vars => HarvestSmall'
<1> SUFFICES ASSUME TypeInv, HarvestSmall, [Next]_vars PROVE HarvestSmall'
  OBVIOUS
<1>1. CASE Pipeline
  BY <1>1, PipelineSmall
<1>2. CASE AppendRow
  <2>1. PICK w \in FirstOf(harvest) : harvest' = harvest \ {w}
    BY <1>2 DEF AppendRow
  <2>2. IsFiniteSet(harvest \ {w}) /\ Cardinality(harvest \ {w}) <= Cardinality(harvest)
    BY FS_Subset DEF HarvestSmall
  <2>3. Cardinality(harvest \ {w}) \in Nat /\ Cardinality(harvest) \in Nat
    BY <2>2, FS_CardinalityType DEF HarvestSmall
  <2> QED
    BY <2>1, <2>2, <2>3 DEF HarvestSmall
<1>3. CASE harvest' = {}
  BY <1>3, FS_EmptySet DEF HarvestSmall
<1>4. CASE harvest' = harvest
  BY <1>4 DEF HarvestSmall
<1> QED
  BY <1>1, <1>2, <1>3, <1>4
     DEF Next, Step, Launch, Generation, Remember, AllRun, Ranker, Value, Proposer, Publish,
         NextGeneration, LastGeneration, Raises, Ends, Crash, CrashInAppend, CrashInCopy,
         CrashInPublish, Finished, vars, process

\* The numbers StepsLeft is made of.
LEMMA Measures ==
  ASSUME TypeInv, HarvestSmall
  PROVE  /\ StepsOfGeneration \in Nat /\ Len(todo) \in Nat /\ Cardinality(harvest) \in Nat
         /\ phase = "append" => Len(todo) >= 1
         /\ phase # "down" => last - gen \in Nat
         /\ phase # "down" => StepsHere \in Nat /\ StepsHere >= 1
<1>1. Len(Jobs) \in Nat
  BY SelfImprovementAssumption, LenProperties
<1>2. Len(todo) \in Nat /\ (todo # <<>> => Len(todo) >= 1)
  BY EmptySeq, LenProperties DEF TypeInv, TypeOK
<1>3. Cardinality(harvest) \in Nat
  BY FS_CardinalityType DEF HarvestSmall
<1>4. phase = "append" => Len(todo) >= 1
  BY <1>2 DEF TypeInv, Reached
<1>5. phase # "down" => last - gen \in Nat
  <2>1. gen \in 0 .. MaxGen /\ last \in 0 .. MaxGen /\ (phase # "down" => gen <= last)
    BY DEF TypeInv, TypeOK, Reached, Gens
  <2>2. MaxGen \in Nat
    BY SelfImprovementAssumption
  <2>3. \A a, b \in 0 .. MaxGen : b <= a => a - b \in Nat
    BY <2>2
  <2> QED
    BY <2>1, <2>3
<1>6. ASSUME phase # "down" PROVE StepsHere \in Nat /\ StepsHere >= 1
  <2>1. CASE phase = "generation"
    BY <1>1, <2>1 DEF StepsHere, StepsOfGeneration
  <2>2. CASE phase = "loop"
    BY <1>2, <2>2 DEF StepsHere
  <2>3. CASE phase = "append"
    <3>1. StepsHere = 8 * Len(todo) - 1 + Cardinality(harvest)
      BY <2>3 DEF StepsHere
    <3> QED
      BY <1>2, <1>3, <1>4, <2>3, <3>1
  <2>4. CASE phase \in {"ranker", "value", "sft", "publish", "record"}
    BY <2>4 DEF StepsHere
  <2>5. \/ phase \in {"generation", "loop", "append"}
        \/ phase \in {"ranker", "value", "sft", "publish", "record"}
    <3>1. phase \in Phases
      BY DEF TypeInv, TypeOK
    <3> QED
      BY <1>6, <3>1, Zenon DEF Phases
  <2> QED
    BY <2>1, <2>2, <2>3, <2>4, <2>5
<1> QED
  BY <1>1, <1>2, <1>3, <1>4, <1>5, <1>6 DEF StepsOfGeneration

\* Within a generation every step leaves fewer.
LEMMA HereFewer ==
  ASSUME TypeInv, HarvestSmall, HarvestSmall', Step, phase' # "down", phase # "record"
  PROVE  StepsHere' < StepsHere /\ gen' = gen /\ last' = last
<1>1. Len(Jobs) \in Nat /\ Len(todo) \in Nat /\ Cardinality(harvest) \in Nat
  BY Measures, SelfImprovementAssumption, LenProperties
<1>2. CASE Generation
  BY <1>1, <1>2 DEF Generation, StepsHere, StepsOfGeneration
<1>3. CASE Pipeline
  <2>1. Cardinality(harvest') <= 6 /\ Cardinality(harvest') \in Nat
    BY FS_CardinalityType DEF HarvestSmall
  <2>2. phase = "loop" /\ phase' = "append" /\ todo' = todo /\ gen' = gen /\ last' = last
    BY <1>3 DEF Pipeline
  <2>3. StepsHere' = 8 * Len(todo) - 1 + Cardinality(harvest') /\ StepsHere = 6 + 8 * Len(todo)
    BY <2>2 DEF StepsHere
  <2> QED
    BY <1>1, <2>1, <2>2, <2>3
<1>4. CASE AppendRow
  <2>1. PICK w \in FirstOf(harvest) : harvest' = harvest \ {w}
    BY <1>4 DEF AppendRow
  <2>2. w \in harvest
    BY DEF FirstOf
  <2>3. Cardinality(harvest') = Cardinality(harvest) - 1
    BY <2>1, <2>2, FS_RemoveElement DEF HarvestSmall
  <2>4. phase = "append" /\ phase' = "append" /\ todo' = todo /\ gen' = gen /\ last' = last
    BY <1>4 DEF AppendRow
  <2>5. /\ StepsHere' = 8 * Len(todo) - 1 + Cardinality(harvest')
        /\ StepsHere = 8 * Len(todo) - 1 + Cardinality(harvest)
    BY <2>4 DEF StepsHere
  <2> QED
    BY <1>1, <2>3, <2>4, <2>5
<1>5. CASE Remember
  <2>1. /\ phase = "append" /\ harvest = {} /\ phase' = "loop" /\ todo' = Tail(todo)
        /\ gen' = gen /\ last' = last
    BY <1>5 DEF Remember, Advance
  <2>2. Len(Tail(todo)) = Len(todo) - 1
    BY <2>1, HeadTailProperties DEF TypeInv, TypeOK, Reached
  <2>3. Cardinality(harvest) = 0
    BY <2>1, FS_EmptySet
  <2>4. StepsHere' = 6 + 8 * (Len(todo) - 1)
    BY <2>1, <2>2 DEF StepsHere
  <2>5. StepsHere = 8 * Len(todo) - 1
    BY <1>1, <2>1, <2>3 DEF StepsHere
  <2> QED
    BY <1>1, <2>1, <2>4, <2>5
<1>6. CASE AllRun
  BY <1>1, <1>6 DEF AllRun, StepsHere
<1>7. CASE Ranker \/ Value \/ Proposer \/ Publish
  BY <1>7 DEF Ranker, Value, Proposer, Publish, StepsHere
<1> QED
  BY <1>2, <1>3, <1>4, <1>5, <1>6, <1>7
     DEF Step, NextGeneration, LastGeneration, Raises, Ends

\* A number of further generations weighs as many generations' steps.
LEMMA Weights ==
  ASSUME NEW n \in Nat, NEW g \in Nat
  PROVE  n * g \in Nat /\ (n + 1) * g = n * g + g /\ 0 * g = 0
  OBVIOUS

LEMMA StepFewer ==
  ASSUME TypeInv, HarvestSmall, TypeInv', HarvestSmall', Step
  PROVE  StepsLeft' < StepsLeft
<1>1. /\ StepsOfGeneration \in Nat /\ phase # "down" /\ last - gen \in Nat
      /\ StepsHere \in Nat /\ StepsHere >= 1
  <2>1. phase # "down"
    BY DEF Step, Generation, Pipeline, AppendRow, Remember, AllRun, Ranker, Value, Proposer,
       Publish, NextGeneration, LastGeneration, Raises
  <2> QED
    BY <2>1, Measures
<1> DEFINE G == StepsOfGeneration
<1>2. (last - gen) * G \in Nat /\ StepsLeft = StepsHere + (last - gen) * G
  BY <1>1, Weights DEF StepsLeft
<1>3. G' = G
  BY DEF StepsOfGeneration
<1>4. CASE phase' = "down"
  <2>1. StepsLeft' = 0
    BY <1>4 DEF StepsLeft
  <2> HIDE DEF G
  <2> QED
    BY <1>1, <1>2, <2>1
<1>5. CASE phase' # "down" /\ phase # "record"
  <2>1. StepsHere' < StepsHere /\ gen' = gen /\ last' = last
    BY <1>5, HereFewer
  <2>2. StepsLeft' = StepsHere' + (last - gen) * G
    BY <1>3, <1>5, <2>1 DEF StepsLeft
  <2>3. StepsHere' \in Nat
    <3>1. TypeInv' /\ HarvestSmall' => (phase # "down" => StepsHere \in Nat)'
      BY Measures, PTL
    <3> QED
      BY <1>5, <3>1
  <2> HIDE DEF G
  <2> QED
    BY <1>1, <1>2, <2>1, <2>2, <2>3
<1>6. CASE phase' # "down" /\ phase = "record"
  <2>1. gen < last /\ gen' = gen + 1 /\ last' = last /\ phase' = "generation"
    BY <1>6 DEF Step, Generation, Pipeline, AppendRow, Remember, AllRun, Ranker, Value,
       Proposer, Publish, NextGeneration, LastGeneration, Raises, Ends
  <2>2. gen \in Nat /\ last \in Nat
    BY SelfImprovementAssumption DEF TypeInv, TypeOK, Gens
  <2> DEFINE n == last - gen - 1
  <2>3. n \in Nat /\ last - gen = n + 1 /\ last' - gen' = n
    BY <2>1, <2>2
  <2>4. StepsHere = 1 /\ StepsHere' = G
    BY <1>3, <1>6, <2>1 DEF StepsHere
  <2>5. StepsLeft' = G + n * G
    BY <1>3, <1>6, <2>3, <2>4 DEF StepsLeft
  <2>6. StepsLeft = 1 + (n + 1) * G
    BY <1>2, <2>3, <2>4
  <2> HIDE DEF n, G
  <2>7. G \in Nat
    BY <1>1 DEF G
  <2> QED
    BY <2>3, <2>5, <2>6, <2>7, Weights
<1> QED
  BY <1>4, <1>5, <1>6

LEMMA LaunchSteps ==
  ASSUME TypeInv', Launch
  PROVE  StepsLeft' = (last' - gen' + 1) * StepsOfGeneration
<1> DEFINE G == StepsOfGeneration
           n == last' - gen'
<1>1. phase' = "generation"
  BY DEF Launch
<1>2. StepsHere' = G
  BY <1>1 DEF StepsHere, StepsOfGeneration
<1>3. StepsLeft' = G + n * G
  BY <1>1, <1>2 DEF StepsLeft, StepsOfGeneration
<1>4. n \in Nat
  <2>1. gen' <= last' /\ gen' \in 0 .. MaxGen /\ last' \in 0 .. MaxGen
    BY <1>1 DEF TypeInv, TypeOK, Reached, Gens
  <2>2. MaxGen \in Nat
    BY SelfImprovementAssumption
  <2>3. \A a, b \in 0 .. MaxGen : b <= a => a - b \in Nat
    BY <2>2
  <2>4. last' - gen' \in Nat
    BY <2>1, <2>3
  <2> QED
    BY <2>4
<1>5. G \in Nat
  BY SelfImprovementAssumption, LenProperties DEF StepsOfGeneration
<1>6. n * G \in Nat /\ (n + 1) * G = n * G + G
  BY <1>4, <1>5, Weights
<1> HIDE DEF n, G
<1>7. StepsLeft' = (n + 1) * G
  BY <1>3, <1>5, <1>6
<1> QED
  BY <1>7 DEF n, G

\* A launch of n generations ends after at most n times the steps of one, whatever its runs
\* yield and its gates decide: every step of the process leaves fewer of them, and nothing
\* but another launch adds any (main's loop over generations and jobs).
THEOREM LaunchesAreBounded ==
  Spec => [][/\ Step => StepsLeft' < StepsLeft
             /\ Launch => StepsLeft' = (last' - gen' + 1) * StepsOfGeneration
             /\ ~ Step /\ ~ Launch => StepsLeft' \in {0, StepsLeft}]_vars
<1> DEFINE Bounded == /\ Step => StepsLeft' < StepsLeft
                      /\ Launch => StepsLeft' = (last' - gen' + 1) * StepsOfGeneration
                      /\ ~ Step /\ ~ Launch => StepsLeft' \in {0, StepsLeft}
<1>1. Init => TypeInv /\ HarvestSmall
  BY TypeInit, FS_EmptySet DEF Init, HarvestSmall
<1>2. TypeInv /\ HarvestSmall /\ [Next]_vars => (TypeInv /\ HarvestSmall)'
  BY TypeStep, SmallStep
<1>3. ASSUME [Next]_vars, ~ Step, ~ Launch PROVE StepsLeft' \in {0, StepsLeft}
  <2>1. CASE phase' = "down"
    BY <2>1 DEF StepsLeft
  <2>2. CASE UNCHANGED vars
    <3>1. UNCHANGED <<phase, gen, last, todo, harvest>>
      BY <2>2 DEF vars, process
    <3>2. StepsHere' = StepsHere
      BY <3>1 DEF StepsHere, StepsOfGeneration
    <3>3. StepsLeft' = StepsLeft
      BY <3>1, <3>2 DEF StepsLeft, StepsOfGeneration
    <3> QED
      BY <3>3
  <2>3. phase' = "down" \/ UNCHANGED vars
    BY <1>3 DEF Next, Crash, CrashInAppend, CrashInCopy, CrashInPublish, Finished, Ends
  <2> QED
    BY <2>1, <2>2, <2>3
<1>4. TypeInv /\ HarvestSmall /\ [Next]_vars => Bounded
  BY <1>2, <1>3, StepFewer, LaunchSteps
<1> QED
  BY <1>1, <1>2, <1>4, PTL DEF Spec

\* A process that ends was killed, met a file cut short, or has published the last generation
\* it was asked for: what LaunchPublishes promises, but for the process getting that far.
THEOREM LaunchesEndPublished ==
  Spec => [][phase # "down" /\ phase' = "down" =>
               crashed' \/ damaged' # {} \/ \E s \in state' : s.gen = last']_vars
<1> DEFINE Ended == phase # "down" /\ phase' = "down" =>
                      crashed' \/ damaged' # {} \/ \E s \in state' : s.gen = last'
<1>1. ASSUME TypeInv, LineageInv, [Next]_vars, phase # "down", phase' = "down"
      PROVE  crashed' \/ damaged' # {} \/ \E s \in state' : s.gen = last'
  <2>1. CASE LastGeneration
    <3>1. phase = "record" /\ gen = last /\ last' = last /\ state' = state
      BY <2>1 DEF LastGeneration, Ends, files
    <3>2. \E s \in state : s.gen = gen
      BY <1>1, <3>1 DEF LineageInv, Lineage
    <3> QED
      BY <3>1, <3>2
  <2>2. CASE Raises
    BY <2>2 DEF Raises, files, Readable
  <2>3. CASE Crash \/ CrashInAppend \/ CrashInCopy \/ CrashInPublish
    BY <2>3 DEF Crash, CrashInAppend, CrashInCopy, CrashInPublish
  <2> QED
    BY <1>1, <2>1, <2>2, <2>3
       DEF Next, Step, Launch, Generation, Pipeline, AppendRow, Remember, AllRun, Ranker,
           Value, Proposer, Publish, NextGeneration, Finished, vars, process
<1>2. TypeInv /\ LineageInv /\ [Next]_vars => Ended
  BY <1>1
<1> QED
  BY <1>2, LineageInvariance, PTL DEF Spec

\* A process that has not ended has something it can do: one of the guards of Step holds,
\* and a run with rows left has a first one.
LEMMA NothingBlocks ==
  ASSUME TypeInv, phase # "down"
  PROVE  /\ phase \in {"generation", "loop", "append", "ranker", "value", "sft", "publish",
                       "record"}
         /\ phase = "record" => gen < last \/ gen = last
         /\ phase = "append" /\ harvest # {} => FirstOf(harvest) # {}
<1>1. phase \in Phases /\ gen <= last /\ gen \in Nat /\ last \in Nat
  BY SelfImprovementAssumption DEF TypeInv, TypeOK, Reached, Gens
<1>2. ASSUME harvest # {} PROVE FirstOf(harvest) # {}
  <2> DEFINE at == {Position[w.stream] : w \in harvest}
  <2>1. \A w \in harvest : Position[w.stream] \in 1 .. 6
    BY DEF TypeInv, TypeOK, Rows, Streams, Position
  <2>2. at \in SUBSET (1 .. 6) /\ at # {}
    BY <1>2, <2>1
  <2>3. \E k \in at : \A j \in at : k <= j
    <3>1. at \in SUBSET Nat
      BY <2>2
    <3> HIDE DEF at
    <3>2. \E k \in at : \A j \in at : ~ (<<j, k>> \in OpToRel(<, Nat))
      BY <2>2, <3>1, WFMin, NatLessThanWellFounded, Zenon
    <3>3. PICK k \in at : \A j \in at : ~ (j < k)
      BY <3>1, <3>2, Zenon DEF OpToRel
    <3> QED
      BY <3>1, <3>3
  <2>4. PICK w \in harvest : \A v \in harvest : Position[w.stream] <= Position[v.stream]
    BY <2>3
  <2> QED
    BY <2>4 DEF FirstOf
<1>3. phase = "record" => gen < last \/ gen = last
  BY <1>1
<1>4. phase \in {"generation", "loop", "append", "ranker", "value", "sft", "publish", "record"}
  BY <1>1, Zenon DEF Phases
<1> QED
  BY <1>2, <1>3, <1>4
=============================================================================
