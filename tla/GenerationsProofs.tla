------------------------- MODULE GenerationsProofs -------------------------
(***************************************************************************)
(* Proofs about Generations, for any specifications, job lists, yields and *)
(* number of launches.                                                     *)
(***************************************************************************)
EXTENDS Generations, FiniteSetTheorems, TLAPS

-----------------------------------------------------------------------------
(* Types. *)

TypeInv == /\ TypeOK
           /\ phase # "down" => st.gen < launch
           /\ phase \in {"pipeline", "append"} => jobs # <<>>

LEMMA TypeInit == Init => TypeInv
  BY GenerationsAssumption DEF Init, TypeInv, TypeOK, Phases, States, New, Streams

\* What the entry point returns is a state, numbered below the launches to come.
LEMMA StartTypes ==
  ASSUME TypeOK, NEW s \in ResumeOrStart
  PROVE  s \in States /\ s.gen < launch + 1
  BY DEF TypeOK, ResumeOrStart, New, States

LEMMA TypeStep == TypeInv /\ [Next]_vars => TypeInv'
<1> USE DEF TypeInv
<1> SUFFICES ASSUME TypeInv, [Next]_vars PROVE TypeInv'
  OBVIOUS
<1>1. CASE UNCHANGED vars
  BY <1>1 DEF vars, process, files, TypeOK
<1>2. CASE Launch
  <2>1. st' \in States /\ st'.gen < launch'
    BY <1>2, StartTypes DEF Launch, TypeOK
  <2>2. launch' \in 0 .. MaxLaunches /\ launch' > launch
    BY <1>2, GenerationsAssumption DEF Launch, TypeOK
  <2>3. jobs' \in Seq(Specs) /\ phase' \in Phases
    BY <1>2, GenerationsAssumption DEF Launch, Phases
  <2> QED
    BY <1>2, <2>1, <2>2, <2>3 DEF Launch, TypeOK, States, files
<1>3. CASE CopyMemory
  BY <1>3 DEF CopyMemory, TypeOK, Phases
<1>4. CASE SkipProcessed
  BY <1>4 DEF SkipProcessed, TypeOK, files
<1>5. CASE MarkProcessed
  <2>1. Run(Head(jobs)) \in Runs
    BY <1>5 DEF MarkProcessed, TypeOK, Run, Runs, States
  <2>2. st' \in States /\ st'.gen = st.gen
    BY <1>5, <2>1 DEF MarkProcessed, TypeOK, States
  <2> QED
    BY <1>5, <2>2 DEF MarkProcessed, TypeOK, files, Phases
<1>6. CASE Pipeline
  <2>1. harvest' \subseteq Streams
    <3>1. Head(jobs) \in Specs
      BY <1>6 DEF Pipeline, TypeOK
    <3>2. Yield[Head(jobs)] \subseteq Streams
      BY <3>1, GenerationsAssumption
    <3> QED
      BY <1>6, <3>2 DEF Pipeline, Harvest
  <2> QED
    BY <1>6, <2>1 DEF Pipeline, TypeOK, files, Phases
<1>7. CASE AppendRows
  <2>1. jobs # <<>> => Run(Head(jobs)) \in Runs
    BY DEF TypeOK, Run, Runs, States
  <2> QED
    BY <1>7, <2>1 DEF AppendRows, TypeOK, Rows
<1>8. CASE Checkpoint
  <2>1. st' \in States /\ st'.gen = st.gen
    BY <1>8, SMTT(30) DEF Checkpoint, AddCalls, TypeOK, States
  <2> QED
    BY <1>8, <2>1 DEF Checkpoint, TypeOK, Phases
<1>9. CASE Learn
  BY <1>9 DEF Learn, Admitted, TypeOK, Phases
<1>10. CASE Conclude
  BY <1>10 DEF Conclude, TypeOK, files, Phases
<1>11. CASE LearnNothing
  BY <1>11 DEF LearnNothing, TypeOK, files, Phases
<1>12. CASE Publish
  BY <1>12 DEF Publish, TypeOK, States, Phases
<1>13. CASE Unlink
  BY <1>13 DEF Unlink, Ends, TypeOK, States, New, Phases
<1>14. CASE Crash
  BY <1>14 DEF Crash, Ends, TypeOK, files, States, New, Phases
<1>15. CASE CrashInCopy
  BY <1>15 DEF CrashInCopy, Ends, TypeOK, States, New, Phases
<1>16. CASE CrashInAppend
  BY <1>16 DEF CrashInAppend, Ends, TypeOK, States, New, Phases, Parts, Part
<1>17. CASE Finished
  BY <1>17 DEF Finished, vars, process, files, TypeOK
<1> QED
  BY <1>1, <1>2, <1>3, <1>4, <1>5, <1>6, <1>7, <1>8, <1>9, <1>10, <1>11, <1>12, <1>13,
     <1>14, <1>15, <1>16, <1>17 DEF Next

-----------------------------------------------------------------------------
(* The files and the process agree on the generation. *)

\* A ledger holds runs of its own generation, and finitely many.
OwnRuns(s) == IsFiniteSet(s.ledger) /\ \A r \in s.ledger : r.gen = s.gen

\* s follows the active generation, or is that generation with all of its runs.
Follows(s) == (active = {} /\ s.gen = 0) \/ \E a \in active : s.gen = a.gen + 1
Reopens(s) == \E a \in active : s.gen = a.gen /\ a.ledger \subseteq s.ledger

Current == Run(Head(jobs))

\* Between two runs the process holds what a launch would load now; during a run it
\* holds that and the run; after publication the active file holds it.
Loaded ==
  /\ phase \in {"copy", "loop", "conclude", "publish"} => st \in ResumeOrStart
  /\ phase \in {"pipeline", "append"} =>
       \E b \in ResumeOrStart : /\ st = [b EXCEPT !.ledger = @ \union {Current}]
                                /\ Current \notin b.ledger
  /\ phase = "unlink" => active = {st} /\ inprogress \subseteq {st}

\* What was published is of the active generation or of an earlier one.
History ==
  /\ \A r \in published : \E a \in active : r.gen <= a.gen /\ (r.gen = a.gen => r \in a.ledger)
  /\ \A a \in active : a.ledger \subseteq published

OrderInv ==
  /\ \A s \in inprogress \union active : OwnRuns(s) /\ s.calls = Cardinality(s.ledger)
  /\ \A s \in inprogress : Follows(s) \/ Reopens(s)
  /\ Loaded
  /\ History

\* The same holds of what a launch loads.
LEMMA StartInOrder ==
  ASSUME TypeOK, OrderInv, NEW s \in ResumeOrStart
  PROVE  /\ OwnRuns(s) /\ s.calls = Cardinality(s.ledger)
         /\ Follows(s) \/ Reopens(s)
<1>1. CASE inprogress # {}
  BY <1>1 DEF ResumeOrStart, OrderInv
<1>2. CASE inprogress = {}
  <2>1. s.ledger = {} /\ s.calls = 0
    BY <1>2 DEF ResumeOrStart, New
  <2>2. OwnRuns(s) /\ s.calls = Cardinality(s.ledger)
    BY <2>1, FS_EmptySet DEF OwnRuns
  <2>3. Follows(s)
    BY <1>2 DEF ResumeOrStart, New, Follows
  <2> QED
    BY <2>2, <2>3
<1> QED
  BY <1>1, <1>2

\* A run in progress is in no ledger on disk.
LEMMA CurrentIsUncounted ==
  ASSUME TypeInv, OrderInv, phase \in {"pipeline", "append"}
  PROVE  Current \notin Counted
<1>1. PICK b \in ResumeOrStart : /\ st = [b EXCEPT !.ledger = @ \union {Current}]
                                 /\ Current \notin b.ledger
  BY DEF OrderInv, Loaded
<1>2. b \in States /\ Current.gen = b.gen
  BY <1>1, StartTypes DEF TypeInv, States, Current, Run
<1>3. \A s \in inprogress : Current \notin s.ledger
  BY <1>1 DEF ResumeOrStart, TypeInv, TypeOK
<1>4. ASSUME Current \in published PROVE FALSE
  <2>1. PICK a \in active : Current.gen <= a.gen /\ (Current.gen = a.gen => Current \in a.ledger)
    BY <1>4 DEF OrderInv, History
  <2>2. Follows(b) \/ Reopens(b)
    BY StartInOrder DEF TypeInv
  <2>3. active = {a} /\ a.gen \in Nat
    BY <2>1 DEF TypeInv, TypeOK, States
  <2> QED
    BY <1>1, <1>2, <2>1, <2>2, <2>3 DEF Follows, Reopens, States
<1> QED
  BY <1>3, <1>4 DEF Counted

LEMMA OrderInit == Init => OrderInv
  BY DEF Init, OrderInv, Loaded, History

\* Actions that leave the files of states and the published runs alone.
LEMMA SameFiles ==
  ASSUME OrderInv, UNCHANGED <<inprogress, active, published>>, Loaded'
  PROVE  OrderInv'
BY DEF OrderInv, History, OwnRuns, Follows, Reopens

LEMMA OrderStep == TypeInv /\ OrderInv /\ [Next]_vars => OrderInv'
<1> SUFFICES ASSUME TypeInv, OrderInv, [Next]_vars PROVE OrderInv'
  OBVIOUS
<1>1. CASE UNCHANGED vars
  BY <1>1 DEF vars, process, files, OrderInv, Loaded, History, OwnRuns, Follows, Reopens,
              ResumeOrStart, New, Current, Run
<1>2. CASE Launch
  <2>1. Loaded'
    BY <1>2 DEF Launch, files, Loaded, ResumeOrStart, New
  <2> QED
    BY <1>2, <2>1, SameFiles DEF Launch, files
<1>3. CASE CopyMemory
  <2>1. Loaded'
    BY <1>3 DEF CopyMemory, OrderInv, Loaded, ResumeOrStart, New
  <2> QED
    BY <1>3, <2>1, SameFiles DEF CopyMemory
<1>4. CASE SkipProcessed
  <2>1. Loaded'
    BY <1>4 DEF SkipProcessed, files, OrderInv, Loaded, ResumeOrStart, New
  <2> QED
    BY <1>4, <2>1, SameFiles DEF SkipProcessed, files
<1>5. CASE MarkProcessed
  <2>1. st \in ResumeOrStart /\ st \in States
    BY <1>5 DEF MarkProcessed, OrderInv, Loaded, TypeInv, TypeOK
  <2>2. st' = [st EXCEPT !.ledger = @ \union {Current}] /\ Current \notin st.ledger
    BY <1>5 DEF MarkProcessed, Current, Processed
  <2>3. Current' = Current /\ ResumeOrStart' = ResumeOrStart
    BY <1>5, <2>1, <2>2 DEF MarkProcessed, files, Current, Run, ResumeOrStart, New, States
  <2>4. Loaded'
    BY <1>5, <2>1, <2>2, <2>3 DEF MarkProcessed, Loaded
  <2> QED
    BY <1>5, <2>4, SameFiles DEF MarkProcessed, files
<1>6. CASE Pipeline
  <2>1. Loaded'
    BY <1>6 DEF Pipeline, files, OrderInv, Loaded, ResumeOrStart, New, Current, Run
  <2> QED
    BY <1>6, <2>1, SameFiles DEF Pipeline, files
<1>7. CASE AppendRows
  <2>1. Loaded'
    BY <1>7 DEF AppendRows, OrderInv, Loaded, ResumeOrStart, New, Current, Run
  <2> QED
    BY <1>7, <2>1, SameFiles DEF AppendRows
<1>8. CASE Checkpoint
  <2>1. PICK b \in ResumeOrStart : /\ st = [b EXCEPT !.ledger = @ \union {Current}]
                                   /\ Current \notin b.ledger
    BY <1>8 DEF Checkpoint, OrderInv, Loaded
  <2>2. b \in States /\ Current.gen = b.gen
    BY <2>1, StartTypes DEF TypeInv, States, Current, Run
  <2>3. OwnRuns(b) /\ b.calls = Cardinality(b.ledger) /\ (Follows(b) \/ Reopens(b))
    BY StartInOrder DEF TypeInv
  <2>4. st'.gen = b.gen /\ st'.ledger = b.ledger \union {Current} /\ st'.calls = b.calls + 1
    BY <1>8, <2>1, <2>2 DEF Checkpoint, AddCalls, States
  <2>5. st'.calls = Cardinality(st'.ledger) /\ IsFiniteSet(st'.ledger)
    BY <2>1, <2>3, <2>4, FS_AddElement DEF OwnRuns
  <2>6. OwnRuns(st')
    BY <2>2, <2>3, <2>4, <2>5 DEF OwnRuns
  <2>7. (Follows(st') \/ Reopens(st'))
    BY <2>3, <2>4 DEF Follows, Reopens
  <2>8. inprogress' = {st'} /\ active' = active /\ published' = published /\ phase' = "loop"
    BY <1>8 DEF Checkpoint
  <2>9. Loaded'
    BY <2>8 DEF Loaded, ResumeOrStart
  <2>10. History'
    BY <2>8 DEF OrderInv, History
  <2>11. \A s \in inprogress' \union active' : OwnRuns(s) /\ s.calls = Cardinality(s.ledger)
    BY <2>5, <2>6, <2>8 DEF OrderInv
  <2>12. \A s \in inprogress' : Follows(s)' \/ Reopens(s)'
    BY <2>7, <2>8 DEF Follows, Reopens
  <2> QED
    BY <2>9, <2>10, <2>11, <2>12 DEF OrderInv, OwnRuns
<1>9. CASE Learn
  <2>1. Loaded'
    BY <1>9 DEF Learn, OrderInv, Loaded, ResumeOrStart, New
  <2> QED
    BY <1>9, <2>1, SameFiles DEF Learn
<1>10. CASE Conclude
  <2>1. Loaded'
    BY <1>10 DEF Conclude, files, OrderInv, Loaded, ResumeOrStart, New
  <2> QED
    BY <1>10, <2>1, SameFiles DEF Conclude, files
<1>11. CASE LearnNothing
  <2>1. Loaded'
    BY <1>11 DEF LearnNothing, files, OrderInv, Loaded, ResumeOrStart, New
  <2> QED
    BY <1>11, <2>1, SameFiles DEF LearnNothing, files
<1>12. CASE Publish
  <2>1. st \in ResumeOrStart /\ st \in States
    BY <1>12 DEF Publish, OrderInv, Loaded, TypeInv, TypeOK
  <2>2. OwnRuns(st) /\ st.calls = Cardinality(st.ledger) /\ (Follows(st) \/ Reopens(st))
    BY <2>1, StartInOrder DEF TypeInv
  <2>3. inprogress \subseteq {st}
    BY <2>1 DEF ResumeOrStart, TypeInv, TypeOK
  <2>4. /\ active' = {st} /\ st' = st /\ inprogress' = inprogress /\ phase' = "unlink"
        /\ published' = published \union st.ledger
    BY <1>12 DEF Publish
  <2>5. Loaded'
    BY <2>3, <2>4 DEF Loaded
  <2>6. \A r \in published : r.gen <= st.gen /\ (r.gen = st.gen => r \in st.ledger)
    <3> TAKE r \in published
    <3>1. PICK a \in active : r.gen <= a.gen /\ (r.gen = a.gen => r \in a.ledger)
      BY DEF OrderInv, History
    <3>2. active = {a} /\ a.gen \in Nat /\ r.gen \in Nat /\ st.gen \in Nat
      BY <2>1, <3>1 DEF TypeInv, TypeOK, States, Runs
    <3> QED
      BY <2>2, <3>1, <3>2 DEF Follows, Reopens
  <2>7. \A r \in st.ledger : r.gen <= st.gen
    BY <2>1, <2>2 DEF OwnRuns, States
  <2>8. History'
    BY <2>4, <2>6, <2>7 DEF History
  <2>9. \A s \in inprogress' : Reopens(s)'
    BY <2>3, <2>4 DEF Reopens
  <2> QED
    BY <2>2, <2>3, <2>4, <2>5, <2>8, <2>9 DEF OrderInv, OwnRuns
<1>13. CASE Unlink
  BY <1>13 DEF Unlink, Ends, OrderInv, Loaded, History, OwnRuns
<1>14. CASE Crash
  BY <1>14, SameFiles DEF Crash, Ends, Loaded, files
<1>15. CASE CrashInCopy
  BY <1>15, SameFiles DEF CrashInCopy, Ends, Loaded
<1>16. CASE CrashInAppend
  BY <1>16, SameFiles DEF CrashInAppend, Ends, Loaded
<1>17. CASE Finished
  BY <1>17, SameFiles DEF Finished, vars, process, files, Loaded
<1> QED
  BY <1>1, <1>2, <1>3, <1>4, <1>5, <1>6, <1>7, <1>8, <1>9, <1>10, <1>11, <1>12, <1>13,
     <1>14, <1>15, <1>16, <1>17 DEF Next

THEOREM GenerationInvariance == Spec => [](TypeInv /\ OrderInv)
<1>1. Init => TypeInv /\ OrderInv
  BY TypeInit, OrderInit
<1>2. TypeInv /\ OrderInv /\ [Next]_vars => (TypeInv /\ OrderInv)'
  BY TypeStep, OrderStep
<1> QED
  BY <1>1, <1>2, PTL DEF Spec

\* The variables keep their types and no generation number runs ahead of the launches.
THEOREM GenerationTypes == Spec => []TypeOK
<1>1. TypeInv => TypeOK
  BY DEF TypeInv
<1> QED
  BY <1>1, GenerationInvariance, PTL

\* On disk, true_spice_calls counts each run of its ledger once (run_generation).
THEOREM CountedCalls == Spec => []CallsCountedOnce
<1>1. OrderInv => CallsCountedOnce
  BY DEF OrderInv, CallsCountedOnce
<1> QED
  BY <1>1, GenerationInvariance, PTL

\* publish_atomic follows the order of the generations and loses no published run.
THEOREM OrderedPublication == Spec => PublicationOrder
<1> DEFINE Ordered ==
      active' # active =>
        \A n \in active' : \/ active = {} /\ n.gen = 0
                           \/ \E a \in active : \/ n.gen = a.gen + 1
                                                \/ n.gen = a.gen /\ a.ledger \subseteq n.ledger
<1>1. TypeInv /\ OrderInv /\ [Next]_vars => Ordered
  <2> SUFFICES ASSUME TypeInv, OrderInv, [Next]_vars, active' # active PROVE Ordered
    OBVIOUS
  <2>1. Publish
    BY DEF Next, Launch, CopyMemory, SkipProcessed, MarkProcessed, Pipeline, AppendRows,
           Checkpoint, Learn, Conclude, LearnNothing, Unlink, Crash, CrashInCopy,
           CrashInAppend, Finished, vars, process, files
  <2>2. active' = {st} /\ st \in ResumeOrStart
    BY <2>1 DEF Publish, OrderInv, Loaded
  <2>3. Follows(st) \/ Reopens(st)
    BY <2>2, StartInOrder DEF TypeInv
  <2> QED
    BY <2>2, <2>3 DEF Follows, Reopens
<1> QED
  BY <1>1, GenerationInvariance, PTL DEF Spec, PublicationOrder

-----------------------------------------------------------------------------
(* What a step does to the rows and to the counted runs. *)

\* Rows are only added, for the run in progress and under the number of its launch.
LEMMA RowsStep ==
  ASSUME [Next]_vars
  PROVE  /\ rows \subseteq rows'
         /\ torn \subseteq torn'
         /\ rows' # rows => AppendRows
         /\ \A w \in rows' \ rows : w.run = Current /\ w.launch = launch
<1>1. CASE AppendRows
  BY <1>1 DEF AppendRows, Current
<1>2. CASE ~AppendRows
  BY <1>2 DEF Next, Launch, CopyMemory, SkipProcessed, MarkProcessed, Pipeline,
              Checkpoint, Learn, Conclude, LearnNothing, Publish, Unlink, Crash,
              CrashInCopy, CrashInAppend, Finished, vars, process, files
<1> QED
  BY <1>1, <1>2

\* A run is counted by a checkpoint, once it is harvested, and stays so.
LEMMA CountedStep ==
  ASSUME TypeInv, OrderInv, [Next]_vars
  PROVE  /\ Counted \subseteq Counted'
         /\ Checkpoint => Counted' = Counted \union {Current}
         /\ ~Checkpoint => Counted' = Counted
<1>1. CASE Checkpoint
  <2>1. PICK b \in ResumeOrStart : /\ st = [b EXCEPT !.ledger = @ \union {Current}]
                                   /\ Current \notin b.ledger
    BY <1>1 DEF Checkpoint, OrderInv, Loaded
  <2>2. b \in States
    BY StartTypes DEF TypeInv
  <2>3. inprogress' = {st'} /\ published' = published
        /\ st'.ledger = b.ledger \union {Current}
    BY <1>1, <2>1, <2>2 DEF Checkpoint, AddCalls, States
  <2>4. b.ledger = UNION {s.ledger : s \in inprogress}
    <3>1. CASE inprogress # {}
      <4>1. inprogress = {b}
        BY <3>1 DEF ResumeOrStart, TypeInv, TypeOK
      <4> QED
        BY <4>1
    <3>2. CASE inprogress = {}
      BY <3>2 DEF ResumeOrStart, New
    <3> QED
      BY <3>1, <3>2
  <2>5. Counted' = published \union st'.ledger
    BY <2>3 DEF Counted
  <2> QED
    BY <1>1, <2>3, <2>4, <2>5 DEF Counted
<1>2. CASE Publish
  <2>1. st \in ResumeOrStart
    BY <1>2 DEF Publish, OrderInv, Loaded
  <2>2. st.ledger \subseteq UNION {s.ledger : s \in inprogress}
    BY <2>1 DEF ResumeOrStart, New
  <2>3. ~Checkpoint
    BY <1>2 DEF Publish, Checkpoint
  <2> QED
    BY <1>2, <2>2, <2>3 DEF Publish, Counted
<1>3. CASE Unlink
  <2>1. \A s \in inprogress : s.ledger \subseteq published
    BY <1>3 DEF Unlink, OrderInv, Loaded, History
  <2>2. ~Checkpoint
    BY <1>3 DEF Unlink, Checkpoint
  <2> QED
    BY <1>3, <2>1, <2>2 DEF Unlink, Counted
<1>4. CASE ~Checkpoint /\ ~Publish /\ ~Unlink
  <2>1. UNCHANGED <<inprogress, published>>
    BY <1>4 DEF Next, Launch, CopyMemory, SkipProcessed, MarkProcessed, Pipeline, AppendRows,
                Learn, Conclude, LearnNothing, Crash, CrashInCopy,
                CrashInAppend, Finished, vars, process, files
  <2> QED
    BY <1>4, <2>1 DEF Counted
<1> QED
  BY <1>1, <1>2, <1>3, <1>4

\* A run in a ledger on disk is never harvested again, for any job lists and crashes.
THEOREM FinalCount == Spec => CountedIsFinal
<1> DEFINE Final == \A r \in Counted : RowsOf(r)' = RowsOf(r)
<1>1. TypeInv /\ OrderInv /\ [Next]_vars => Final
  <2> SUFFICES ASSUME TypeInv, OrderInv, [Next]_vars, NEW r \in Counted
               PROVE  RowsOf(r)' = RowsOf(r)
    OBVIOUS
  <2>1. CASE rows' = rows
    BY <2>1 DEF RowsOf
  <2>2. CASE AppendRows
    <3>1. Current # r
      BY <2>2, CurrentIsUncounted DEF AppendRows
    <3> QED
      BY <3>1, RowsStep DEF RowsOf
  <2> QED
    BY <2>1, <2>2, RowsStep
<1> QED
  BY <1>1, GenerationInvariance, PTL DEF Spec, CountedIsFinal

-----------------------------------------------------------------------------
(* Rows and ledgers. *)

\* The rows that no ledger accounts for yet are of the run that is being appended.
AtRisk ==
  /\ \A w \in rows : w.launch <= launch
  /\ phase # "down" =>
       \A w \in rows : w.launch = launch /\ w.run \notin Counted =>
                        phase = "append" /\ w.run = Current

LEMMA AtRiskStep ==
  ASSUME TypeInv, OrderInv, AtRisk, CrashCostsOneRun, [Next]_vars
  PROVE  AtRisk' /\ CrashCostsOneRun'
<1>1. launch \in Nat /\ \A w \in rows : w.launch \in Nat
  BY GenerationsAssumption DEF TypeInv, TypeOK, Rows
<1>2. CrashCostsOneRun'
  <2> SUFFICES ASSUME NEW v \in rows', NEW w \in rows', v.run \notin Counted',
                      w.run \notin Counted', v.launch = w.launch
               PROVE  v.run = w.run
    BY DEF CrashCostsOneRun
  <2>1. v.run \notin Counted /\ w.run \notin Counted
    BY CountedStep
  <2>2. CASE v \in rows /\ w \in rows
    BY <2>1, <2>2 DEF CrashCostsOneRun
  <2>3. CASE ~(v \in rows /\ w \in rows)
    <3>1. phase = "append" /\ v.launch = launch
      BY <2>3, RowsStep DEF AppendRows
    <3>2. \A x \in {v, w} : x.run = Current
      BY <2>1, <3>1, RowsStep DEF AtRisk
    <3> QED
      BY <3>2
  <2> QED
    BY <2>2, <2>3
<1>3. CASE Launch
  <2>1. rows' = rows /\ launch' = launch + 1
    BY <1>3 DEF Launch, files
  <2> QED
    BY <1>1, <1>2, <2>1 DEF AtRisk
<1>4. CASE ~Launch
  <2>1. launch' = launch /\ (phase' # "down" => phase # "down")
    BY <1>4 DEF Next, CopyMemory, SkipProcessed, MarkProcessed, Pipeline, AppendRows,
                Checkpoint, Learn, Conclude, LearnNothing, Publish, Unlink, Crash, CrashInCopy,
                CrashInAppend, Finished, vars, process, files, Ends
  <2>2. \A w \in rows' : w.launch <= launch'
    BY <1>1, <2>1, RowsStep DEF AtRisk
  <2>3. ASSUME NEW w \in rows', phase' # "down", w.launch = launch', w.run \notin Counted'
        PROVE  phase' = "append" /\ w.run = Current'
    <3>1. w.run \notin Counted /\ phase # "down"
      BY <2>1, <2>3, CountedStep
    <3>2. phase = "append" /\ w.run = Current
      BY <2>1, <2>3, <3>1, RowsStep DEF AtRisk, AppendRows
    <3>3. ~Checkpoint
      BY <2>3, <3>2, CountedStep
    <3>4. phase' = "append" /\ jobs' = jobs /\ st' = st
      BY <1>4, <2>3, <3>2, <3>3 DEF Next, CopyMemory, SkipProcessed, MarkProcessed, Pipeline,
                AppendRows, Learn, Conclude, LearnNothing, Publish, Unlink, Crash, CrashInCopy,
                CrashInAppend, Finished, vars, process, files, Ends
    <3> QED
      BY <3>2, <3>4 DEF Current, Run
  <2> QED
    BY <1>2, <2>2, <2>3 DEF AtRisk
<1> QED
  BY <1>2, <1>3, <1>4

\* Checkpointing after every run leaves at most one run of a launch unaccounted for.
THEOREM OneRunAtRisk == Spec => []CrashCostsOneRun
<1>1. Init => AtRisk /\ CrashCostsOneRun
  BY DEF Init, AtRisk, CrashCostsOneRun
<1>2. TypeInv /\ OrderInv /\ AtRisk /\ CrashCostsOneRun /\ [Next]_vars
        => (AtRisk /\ CrashCostsOneRun)'
  BY AtRiskStep
<1> QED
  BY <1>1, <1>2, GenerationInvariance, PTL DEF Spec

\* A stream of the run r has a whole row of it, or is torn.
Filed(r, s) == Part(r.gen, s) \in torn \/ \E w \in RowsOf(r) : w.stream = s

\* While a run is appended, the streams that are done are filed.
Gathered == lineage = "adaptive" /\ phase = "append" =>
              \A s \in Yield[Head(jobs)] \ harvest : Filed(Current, s)

LEMMA FiledStep ==
  ASSUME [Next]_vars, NEW r, NEW s, Filed(r, s)
  PROVE  Filed(r, s)'
BY RowsStep DEF Filed, RowsOf, Part

LEMMA GatheredStep ==
  ASSUME TypeInv, OrderInv, Gathered, LedgerIsHarvested, [Next]_vars
  PROVE  Gathered' /\ LedgerIsHarvested'
<1>1. lineage' = lineage
  BY DEF Next, Launch, CopyMemory, SkipProcessed, MarkProcessed, Pipeline, AppendRows,
         Checkpoint, Learn, Conclude, LearnNothing, Publish, Unlink, Crash, CrashInCopy,
         CrashInAppend, Finished, vars, process, files
<1>2. LedgerIsHarvested'
  <2> SUFFICES ASSUME lineage = "adaptive", NEW r \in Counted', NEW s \in Yield[r.spec]
               PROVE  Filed(r, s)'
    BY <1>1 DEF LedgerIsHarvested, Filed
  <2>1. CASE r \in Counted
    <3>1. Filed(r, s)
      BY <2>1 DEF LedgerIsHarvested, Filed
    <3> QED
      BY <3>1, FiledStep
  <2>2. CASE r \notin Counted
    <3>1. Checkpoint /\ r = Current
      BY <2>2, CountedStep
    <3>2. r.spec = Head(jobs)
      BY <3>1 DEF Current, Run
    <3>3. Filed(r, s)
      BY <3>1, <3>2 DEF Checkpoint, Harvested, Gathered
    <3> QED
      BY <3>3, FiledStep
  <2> QED
    BY <2>1, <2>2
<1>3. Gathered'
  <2> SUFFICES ASSUME lineage = "adaptive", phase' = "append", NEW c, c = Current',
                      NEW s \in Yield[Head(jobs')], s \notin harvest'
               PROVE  Filed(c, s)'
    BY <1>1 DEF Gathered, Filed, RowsOf, Part
  <2>1. CASE Pipeline
    BY <2>1 DEF Pipeline, Harvest
  <2>2. CASE AppendRows
    <3>1. c = Current /\ jobs' = jobs /\ c.gen = st.gen
      BY <2>2 DEF AppendRows, Current, Run
    <3>2. CASE s \notin harvest
      <4>1. Filed(c, s)
        BY <2>2, <3>1, <3>2 DEF AppendRows, Gathered
      <4> QED
        BY <4>1, FiledStep
    <3>3. CASE s \in harvest
      <4>1. PICK t \in harvest :
              /\ rows' = IF Part(st.gen, t) \in torn THEN rows
                         ELSE rows \union {[run |-> c, stream |-> t, launch |-> launch]}
              /\ harvest' = harvest \ {t} /\ torn' = torn
        BY <2>2, <3>1 DEF AppendRows, Current
      <4>2. t = s
        BY <3>3, <4>1
      <4>3. CASE Part(st.gen, s) \in torn
        BY <3>1, <4>1, <4>3 DEF Filed, Part
      <4>4. CASE Part(st.gen, s) \notin torn
        <5>1. [run |-> c, stream |-> s, launch |-> launch] \in rows'
          BY <4>1, <4>2, <4>4
        <5> QED
          BY <5>1 DEF Filed, RowsOf
      <4> QED
        BY <4>3, <4>4
    <3> QED
      BY <3>2, <3>3
  <2>3. CASE UNCHANGED <<phase, jobs, st, harvest>>
    <3>1. c = Current
      BY <2>3 DEF Current, Run
    <3>2. Filed(c, s)
      BY <2>3, <3>1 DEF Gathered
    <3> QED
      BY <3>2, FiledStep
  <2> QED
    BY <2>1, <2>2, <2>3 DEF Next, Launch, CopyMemory, SkipProcessed, MarkProcessed,
         Checkpoint, Learn, Conclude, LearnNothing, Publish, Unlink, Crash, CrashInCopy,
         CrashInAppend, Finished, vars, process, files, Ends
<1> QED
  BY <1>2, <1>3

\* A run that the ledger lets a resume skip has left its rows in every stream it yields.
THEOREM HarvestedLedger == Spec => []LedgerIsHarvested
<1>1. Init => Gathered /\ LedgerIsHarvested
  BY DEF Init, Gathered, LedgerIsHarvested, Counted
<1>2. TypeInv /\ OrderInv /\ Gathered /\ LedgerIsHarvested /\ [Next]_vars
        => (Gathered /\ LedgerIsHarvested)'
  BY GatheredStep
<1> QED
  BY <1>1, <1>2, GenerationInvariance, PTL DEF Spec

\* Between the memory update and the publication the process's ledger is learned.
Measurements(R) == {w \in rows : /\ w.stream = "rag_memory" /\ w.run.spec \in Measured
                                 /\ w.run \in R}
Learned == lineage = "adaptive" /\ phase \in {"conclude", "publish"} =>
             Measurements(st.ledger) \subseteq memory

LEMMA LearnedStep ==
  ASSUME TypeInv, OrderInv, Learned, PublishedIsLearned, [Next]_vars
  PROVE  Learned' /\ PublishedIsLearned'
<1>1. CASE Learn
  <2>1. st \in ResumeOrStart
    BY <1>1 DEF Learn, OrderInv, Loaded
  <2>2. \A r \in st.ledger : r.gen = st.gen
    BY <2>1, StartInOrder DEF TypeInv, OwnRuns
  <2>3. Measurements(st.ledger) \subseteq Admitted
    BY <2>2 DEF Measurements, Admitted
  <2>4. /\ memory' = memory \union Admitted
        /\ UNCHANGED <<lineage, st, rows, published>>
    BY <1>1 DEF Learn
  <2>5. Learned'
    BY <2>3, <2>4 DEF Learned, Measurements
  <2>6. PublishedIsLearned'
    BY <2>4 DEF PublishedIsLearned
  <2> QED
    BY <2>5, <2>6
<1>2. CASE Publish
  BY <1>2 DEF Publish, Learned, PublishedIsLearned, Measurements
<1>3. CASE AppendRows
  <2>1. Current \notin published
    BY <1>3, CurrentIsUncounted DEF AppendRows, Counted
  <2>2. \A w \in rows' \ rows : w.run \notin published
    BY <2>1, RowsStep
  <2> QED
    BY <1>3, <2>2 DEF AppendRows, Learned, PublishedIsLearned
<1>4. CASE ~Learn /\ ~Publish /\ ~AppendRows
  <2>1. UNCHANGED <<lineage, rows, memory, published>>
    BY <1>4 DEF Next, Launch, CopyMemory, SkipProcessed, MarkProcessed, Pipeline,
                Checkpoint, Conclude, LearnNothing, Unlink, Crash, CrashInCopy,
                CrashInAppend, Finished, vars, process, files
  <2>2. lineage' = "adaptive" /\ phase' \in {"conclude", "publish"} =>
          phase \in {"conclude", "publish"} /\ st' = st
    BY <1>4 DEF Next, Launch, CopyMemory, SkipProcessed, MarkProcessed, Pipeline,
                Checkpoint, Conclude, LearnNothing, Unlink, Crash, CrashInCopy,
                CrashInAppend, Finished, vars, process, files, Ends
  <2> QED
    BY <2>1, <2>2 DEF Learned, PublishedIsLearned, Measurements
<1> QED
  BY <1>1, <1>2, <1>3, <1>4

\* What a published generation measured is in the memory its successor retrieves from.
THEOREM LearnedPublication == Spec => []PublishedIsLearned
<1>1. Init => Learned /\ PublishedIsLearned
  BY DEF Init, Learned, PublishedIsLearned
<1>2. TypeInv /\ OrderInv /\ Learned /\ PublishedIsLearned /\ [Next]_vars
        => (Learned /\ PublishedIsLearned)'
  BY LearnedStep
<1> QED
  BY <1>1, <1>2, GenerationInvariance, PTL DEF Spec
=============================================================================
