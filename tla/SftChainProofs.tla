--------------------------- MODULE SftChainProofs ---------------------------
(***************************************************************************)
(* Theorems about SftChain, for every value of its constants.              *)
(*                                                                         *)
(* The generation a run writes to is never G0 and, unless it was forced,   *)
(* has not been promoted; until the manifest is there the run may write    *)
(* what it likes.  Unprotected and Base0 say this; the rest follows.       *)
(***************************************************************************)
EXTENDS SftChain, FiniteSetTheorems, FunctionTheorems, WellFoundedInduction, TLAPS

Writing == {"dataset", "train", "validate", "promote"}

\* What a run that writes knows of its output generation.
Unprotected ==
  /\ phase \in Writing \union {"activate"} => job.output # 0
  /\ phase = "dataset" => corpus[job.parent] # {}
  /\ phase \in {"train", "validate", "promote"} => corpus[job.output] # {}
  /\ phase \in Writing => job.output \in forced \/ ~Protected(job.output)
  /\ phase = "activate" => Protected(job.output)

\* G0 is what it was from the start.
Base0 ==
  /\ adapter[0] = 0 /\ corpus[0] = {BaseCorpus}
  /\ \A m \in manifest[0] : ~m.rejected

ChainInv == TypeOK /\ Unprotected /\ Base0 /\ PromotedIntact /\ NamedIsPromoted

LEMMA Constants == MaxGen \in Nat /\ MaxRuns \in Nat /\ 0 \in Gens
  BY SftChainAssumption DEF Gens

LEMMA JobTypes ==
  ASSUME job \in Jobs
  PROVE  job.parent \in Gens /\ job.output \in Gens
  BY SftChainAssumption

LEMMA BaseType == BaseCorpus \in Corpora
  BY DEF BaseCorpus, Corpora

LEMMA MixedType == ASSUME NEW c \in Corpora PROVE Mixed(c) \in Corpora
  BY DEF Mixed, Corpora

\* The corpus a run writes is one, when the parent has one.
LEMMA WriteTypes ==
  ASSUME TypeOK, NEW D,
         D = {Mixed(c) : c \in corpus[job.parent]}
  PROVE  /\ D \subseteq Corpora /\ \A c, d \in D : c = d
         /\ corpus[job.parent] # {} => D # {}
<1>1. job.parent \in Gens
  BY JobTypes DEF TypeOK
<1>2. corpus[job.parent] \subseteq Corpora /\ \A c, d \in corpus[job.parent] : c = d
  BY <1>1 DEF TypeOK
<1> QED
  BY <1>2, MixedType

\* The manifest a run writes is one, and says what it is given.
Written(r, v) == {[parent |-> job.parent, rejected |-> r, hash |-> v, corpus |-> c] :
                    c \in corpus[job.output]}

LEMMA ManifestTypes ==
  ASSUME TypeOK, NEW r \in BOOLEAN, NEW v \in Versions
  PROVE  /\ Written(r, v) \subseteq Manifests /\ \A m, n \in Written(r, v) : m = n
         /\ \A m \in Written(r, v) : m.rejected = r /\ m.hash = v /\ corpus[job.output] = {m.corpus}
         /\ corpus[job.output] # {} => Written(r, v) # {}
<1>1. job.parent \in Gens /\ job.output \in Gens
  BY JobTypes DEF TypeOK
<1>2. corpus[job.output] \subseteq Corpora /\ \A c, d \in corpus[job.output] : c = d
  BY <1>1 DEF TypeOK
<1>3. ASSUME NEW m \in Written(r, v)
      PROVE  /\ m \in Manifests /\ m.rejected = r /\ m.hash = v
             /\ corpus[job.output] = {m.corpus}
  <2>1. PICK c \in corpus[job.output] :
          m = [parent |-> job.parent, rejected |-> r, hash |-> v, corpus |-> c]
    BY DEF Written
  <2>2. corpus[job.output] = {c} /\ c \in Corpora
    BY <1>2
  <2> QED
    BY <1>1, <2>1, <2>2 DEF Manifests
<1>4. \A m, n \in Written(r, v) : m = n
  BY <1>2 DEF Written
<1>5. corpus[job.output] # {} => Written(r, v) # {}
  BY DEF Written
<1> QED
  BY <1>3, <1>4, <1>5

LEMMA ChainInit == Init => ChainInv
<1> SUFFICES ASSUME Init PROVE ChainInv
  OBVIOUS
<1>1. TypeOK
  BY Constants, BaseType DEF Init, TypeOK, Phases, Versions
<1>2. Base0
  BY Constants DEF Init, Base0
<1> QED
  BY <1>1, <1>2 DEF Init, ChainInv, Unprotected, PromotedIntact, NamedIsPromoted, Writing

\* A process that is gone knows nothing.
LEMMA DownUnprotected == ASSUME phase' = "down" PROVE Unprotected'
  BY DEF Unprotected, Writing

\* Steps that leave the files alone.
LEMMA SameFiles ==
  ASSUME ChainInv, UNCHANGED files, forced \subseteq forced'
  PROVE  Base0' /\ PromotedIntact' /\ NamedIsPromoted'
  BY DEF ChainInv, files, Base0, PromotedIntact, NamedIsPromoted

LEMMA ChainStep == ChainInv /\ [Next]_vars => ChainInv'
<1> SUFFICES ASSUME ChainInv, [Next]_vars PROVE ChainInv'
  OBVIOUS
<1>t. TypeOK /\ Unprotected /\ Base0 /\ PromotedIntact /\ NamedIsPromoted
  BY DEF ChainInv
<1>j. job.parent \in Gens /\ job.output \in Gens
  BY <1>t, JobTypes DEF TypeOK
<1>1. CASE UNCHANGED vars
  BY <1>1, <1>t DEF vars, process, files, ChainInv, TypeOK, Unprotected, Base0,
     PromotedIntact, NamedIsPromoted, Protected
<1>2. CASE Harvest
  <2>1. TypeOK'
    BY <1>2, <1>t DEF Harvest, process, files, TypeOK
  <2> QED
    BY <1>2, <2>1, SameFiles, DownUnprotected DEF Harvest, process, ChainInv
<1>3. CASE Start
  <2>1. TypeOK'
    BY <1>3, <1>t, Constants DEF Start, files, TypeOK, Phases, Versions
  <2> QED
    BY <1>3, <2>1, SameFiles DEF Start, ChainInv, Unprotected, Writing
<1>4. CASE EnsureG0
  <2> DEFINE M == [parent |-> 0, rejected |-> FALSE, hash |-> 0, corpus |-> BaseCorpus]
  <2>1. M \in Manifests
    BY Constants, BaseType DEF Manifests, Versions
  <2>2. \A g \in Gens : manifest'[g] = manifest[g] \/ (g = 0 /\ manifest'[g] = {M})
    BY <1>4, <1>t DEF EnsureG0, TypeOK
  <2>3. manifest' \in [Gens -> SUBSET Manifests]
    <3>1. CASE manifest[0] # {}
      BY <1>4, <1>t, <3>1 DEF EnsureG0, TypeOK
    <3>2. CASE manifest[0] = {}
      <4>1. manifest' = [manifest EXCEPT ![0] = {M}]
        BY <1>4, <3>2 DEF EnsureG0
      <4>2. manifest \in [Gens -> SUBSET Manifests] /\ {M} \in SUBSET Manifests
        BY <1>t, <2>1 DEF TypeOK
      <4> HIDE DEF M
      <4> QED
        BY <4>1, <4>2
    <3> QED
      BY <3>1, <3>2
  <2>4. TypeOK'
    BY <1>4, <1>t, <2>2, <2>3 DEF EnsureG0, TypeOK, Phases
  <2>5. Unprotected'
    BY <1>4 DEF EnsureG0, Unprotected, Writing
  <2>6. Base0'
    BY <1>4, <1>t, <2>2, Constants DEF EnsureG0, Base0
  <2>7. PromotedIntact'
    BY <1>4, <1>t, <2>2 DEF EnsureG0, PromotedIntact, Base0
  <2>8. NamedIsPromoted'
    BY <1>4, <1>t, <2>2 DEF EnsureG0, NamedIsPromoted, TypeOK
  <2> QED
    BY <2>4, <2>5, <2>6, <2>7, <2>8 DEF ChainInv
<1>5. CASE Check
  <2>1. forced \subseteq forced' /\ forced' \subseteq Gens
    BY <1>5, <1>t, <1>j DEF Check, TypeOK
  <2>2. TypeOK'
    BY <1>5, <1>t, <2>1 DEF Check, files, TypeOK, Phases
  <2>3. Unprotected'
    BY <1>5 DEF Check, Accepted, Trainable, files, Unprotected, Writing, Protected
  <2> QED
    BY <1>5, <2>1, <2>2, <2>3, SameFiles DEF Check, ChainInv
<1>6. CASE Refuse
  <2>1. TypeOK'
    BY <1>6, <1>t DEF Refuse, Ends, files, TypeOK, Phases
  <2> QED
    BY <1>6, <2>1, SameFiles, DownUnprotected DEF Refuse, Ends, ChainInv
<1>7. CASE WriteDataset
  <2> DEFINE D == {Mixed(c) : c \in corpus[job.parent]}
  <2> HIDE DEF D
  <2>1. D \subseteq Corpora /\ (\A c, d \in D : c = d) /\ D # {}
    BY <1>7, <1>t, WriteTypes DEF D, WriteDataset, Unprotected
  <2>2. corpus' = [corpus EXCEPT ![job.output] = D]
    BY <1>7 DEF WriteDataset, D
  <2>3. TypeOK'
    BY <1>7, <1>t, <1>j, <2>1, <2>2 DEF WriteDataset, TypeOK, Phases
  <2>4. Unprotected'
    BY <1>7, <1>t, <1>j, <2>1, <2>2 DEF WriteDataset, Unprotected, Writing, Protected, TypeOK
  <2>5. Base0'
    BY <1>7, <1>t, <2>2 DEF WriteDataset, Unprotected, Writing, Base0
  <2>6. PromotedIntact'
    BY <1>7, <1>t, <2>2 DEF WriteDataset, Unprotected, Writing, Protected, PromotedIntact
  <2>7. NamedIsPromoted'
    BY <1>7, <1>t DEF WriteDataset, NamedIsPromoted
  <2> QED
    BY <2>3, <2>4, <2>5, <2>6, <2>7 DEF ChainInv
<1>8. CASE Train
  <2>1. TypeOK'
    BY <1>8, <1>t, <1>j DEF Train, TypeOK, Phases
  <2>2. Unprotected'
    BY <1>8, <1>t DEF Train, Unprotected, Writing, Protected
  <2>3. Base0'
    BY <1>8, <1>t DEF Train, Unprotected, Writing, Base0
  <2>4. PromotedIntact'
    BY <1>8, <1>t DEF Train, Unprotected, Writing, Protected, PromotedIntact
  <2>5. NamedIsPromoted'
    BY <1>8, <1>t DEF Train, NamedIsPromoted
  <2> QED
    BY <2>1, <2>2, <2>3, <2>4, <2>5 DEF ChainInv
<1>9. CASE Validate
  <2>1. CASE phase' = "promote" /\ UNCHANGED manifest
    <3>1. TypeOK' /\ Unprotected'
      BY <1>9, <1>t, <2>1 DEF Validate, TypeOK, Phases, Unprotected, Writing, Protected
    <3> QED
      BY <1>9, <2>1, <3>1, SameFiles DEF Validate, files, ChainInv
  <2>2. CASE phase' = "down" /\ manifest' # manifest
    <3> DEFINE M == Written(TRUE, 0)
    <3>1. manifest' = [manifest EXCEPT ![job.output] = M]
      BY <1>9, <2>2 DEF Validate, Written
    <3>2. M \subseteq Manifests /\ (\A m, n \in M : m = n) /\ \A m \in M : m.rejected
      <4>2. 0 \in Versions
        BY Constants DEF Versions
      <4>3. /\ M \subseteq Manifests /\ \A m, n \in M : m = n
            /\ \A m \in M : m.rejected = TRUE
        BY <1>t, <4>2, ManifestTypes
      <4> QED
        BY <4>3
    <3> HIDE DEF M
    <3>3. TypeOK'
      BY <1>9, <1>t, <1>j, <2>2, <3>1, <3>2 DEF Validate, TypeOK, Phases
    <3>4. Base0'
      BY <1>9, <1>t, <3>1 DEF Validate, Unprotected, Writing, Base0
    <3>5. PromotedIntact'
      BY <1>9, <1>t, <1>j, <3>1, <3>2 DEF Validate, PromotedIntact, TypeOK
    <3>6. NamedIsPromoted'
      BY <1>9, <1>t, <3>1 DEF Validate, Unprotected, Writing, Protected, NamedIsPromoted
    <3> QED
      BY <2>2, <3>3, <3>4, <3>5, <3>6, DownUnprotected DEF ChainInv
  <2>3. CASE phase' = "down" /\ manifest' = manifest
    <3>1. TypeOK'
      BY <1>9, <1>t, <2>3 DEF Validate, TypeOK, Phases
    <3> QED
      BY <1>9, <2>3, <3>1, SameFiles, DownUnprotected DEF Validate, files, ChainInv
  <2> QED
    BY <1>9, <2>1, <2>2, <2>3 DEF Validate
<1>10. CASE Promote
  <2> DEFINE M == Written(FALSE, adapter[job.output])
  <2>1. manifest' = [manifest EXCEPT ![job.output] = M]
    BY <1>10 DEF Promote, Written
  <2>2. adapter[job.output] \in Versions
    BY <1>t, <1>j DEF TypeOK
  <2>3. /\ M \subseteq Manifests /\ \A m, n \in M : m = n
        /\ \A m \in M : /\ ~m.rejected /\ m.hash = adapter[job.output]
                        /\ corpus[job.output] = {m.corpus}
        /\ M # {}
    <3>1. corpus[job.output] # {}
      BY <1>10, <1>t DEF Promote, Unprotected
    <3> QED
      <4>2. /\ M \subseteq Manifests /\ \A m, n \in M : m = n
            /\ \A m \in M : m.rejected = FALSE /\ m.hash = adapter[job.output]
                            /\ corpus[job.output] = {m.corpus}
            /\ M # {}
        BY <1>t, <2>2, <3>1, ManifestTypes
      <4> QED
        BY <4>2
  <2> HIDE DEF M
  <2>4. TypeOK'
    BY <1>10, <1>t, <1>j, <2>1, <2>3 DEF Promote, TypeOK, Phases
  <2>5. Unprotected'
    BY <1>10, <1>t, <1>j, <2>1, <2>3 DEF Promote, Unprotected, Writing, Protected, TypeOK
  <2>6. Base0'
    BY <1>10, <1>t, <2>1 DEF Promote, Unprotected, Writing, Base0
  <2>7. PromotedIntact'
    BY <1>10, <1>t, <1>j, <2>1, <2>3 DEF Promote, PromotedIntact, TypeOK
  <2>8. NamedIsPromoted'
    BY <1>10, <1>t, <1>j, <2>1, <2>3 DEF Promote, NamedIsPromoted, TypeOK
  <2> QED
    BY <2>4, <2>5, <2>6, <2>7, <2>8 DEF ChainInv
<1>11. CASE Activate
  <2>1. active' = {job.output} /\ Protected(job.output)
    BY <1>11, <1>t DEF Activate, Activated, Unprotected
  <2>2. TypeOK'
    BY <1>11, <1>t, <1>j, <2>1 DEF Activate, Ends, TypeOK, Phases
  <2>3. Base0' /\ PromotedIntact' /\ NamedIsPromoted'
    BY <1>11, <1>t, <2>1 DEF Activate, Base0, PromotedIntact, NamedIsPromoted, Protected
  <2> QED
    BY <1>11, <2>2, <2>3, DownUnprotected DEF Activate, Ends, ChainInv
<1>12. CASE Crash
  <2>1. TypeOK'
    BY <1>12, <1>t DEF Crash, Ends, files, TypeOK, Phases
  <2> QED
    BY <1>12, <2>1, SameFiles, DownUnprotected DEF Crash, Ends, ChainInv
<1>13. CASE CrashInWrite
  <2>1. TypeOK'
    BY <1>13, <1>t, <1>j, Constants DEF CrashInWrite, Ends, TypeOK, Phases
  <2>2. Base0'
    BY <1>13, <1>t, <1>j, Constants DEF CrashInWrite, Unprotected, Writing, Base0, TypeOK
  <2>3. PromotedIntact'
    BY <1>13, <1>t, <1>j DEF CrashInWrite, Unprotected, Writing, Protected, PromotedIntact,
                       TypeOK
  <2>4. NamedIsPromoted'
    BY <1>13, <1>t, <1>j DEF CrashInWrite, Unprotected, Writing, Protected, NamedIsPromoted,
                       TypeOK
  <2> QED
    BY <1>13, <2>1, <2>2, <2>3, <2>4, DownUnprotected DEF CrashInWrite, Ends, ChainInv
<1>14. CASE Finished
  BY <1>14, <1>t DEF Finished, vars, process, files, ChainInv, TypeOK, Unprotected, Base0,
     PromotedIntact, NamedIsPromoted, Protected
<1> QED
  BY <1>1, <1>2, <1>3, <1>4, <1>5, <1>6, <1>7, <1>8, <1>9, <1>10, <1>11, <1>12, <1>13,
     <1>14 DEF Next

THEOREM ChainInvariance == Spec => []ChainInv
  BY ChainInit, ChainStep, PTL DEF Spec

\* The variables keep their types.
THEOREM ChainTypes == Spec => []TypeOK
<1>1. ChainInv => TypeOK
  BY DEF ChainInv
<1> QED
  BY <1>1, ChainInvariance, PTL

\* A promoted generation nobody forced a run on stays what its manifest says (main's
\* refusal to overwrite it, lines 150 to 154).
THEOREM PromotedStaysIntact == Spec => []PromotedIntact
<1>1. ChainInv => PromotedIntact
  BY DEF ChainInv
<1> QED
  BY <1>1, ChainInvariance, PTL

\* The name in ACTIVE_ADAPTIVE.txt changes only in the last write of a run that promoted its
\* output (line 355), where a kill may leave it empty; what it names was promoted and still
\* is, unless it was forced on since.
THEOREM ActiveStaysEarned == Spec => ActiveIsEarned
<1> DEFINE LastWrite == active' # active => phase = "activate" /\ active' \subseteq {job.output}
<1>1. [Next]_vars => LastWrite
  <2> SUFFICES ASSUME [Next]_vars, active' # active
               PROVE  phase = "activate" /\ active' \subseteq {job.output}
    OBVIOUS
  <2>1. CASE Activate
    BY <2>1 DEF Activate, Activated
  <2>2. CASE CrashInWrite
    BY <2>2 DEF CrashInWrite
  <2>3. CASE ~(Activate \/ CrashInWrite)
    BY <2>3 DEF Next, Harvest, Start, EnsureG0, Check, Refuse, WriteDataset, Train, Validate,
                Promote, Crash, Finished, files, vars
  <2> QED
    BY <2>1, <2>2, <2>3
<1>2. ChainInv /\ [Next]_vars => NamedIsPromoted'
  BY ChainStep DEF ChainInv
<1> QED
  BY <1>1, <1>2, ChainInvariance, PTL DEF Spec, ActiveIsEarned

\* G0 is immutable, also under --force (main's refusal and write_generation_manifest).
THEOREM G0StaysImmutable == Spec => G0Immutable
<1> DEFINE Same0 == manifest[0] # {} => /\ manifest'[0] = manifest[0]
                                        /\ adapter'[0] = adapter[0] /\ corpus'[0] = corpus[0]
<1>1. ChainInv /\ [Next]_vars => Same0
  <2> SUFFICES ASSUME ChainInv, [Next]_vars, manifest[0] # {} PROVE Same0
    OBVIOUS
  <2>1. Unprotected /\ TypeOK /\ 0 \in Gens
    BY Constants DEF ChainInv
  <2>2. CASE WriteDataset \/ Train \/ Validate \/ Promote \/ CrashInWrite
    BY <2>1, <2>2 DEF WriteDataset, Train, Validate, Promote, CrashInWrite, Unprotected,
                      Writing, TypeOK
  <2>3. CASE ~(WriteDataset \/ Train \/ Validate \/ Promote \/ CrashInWrite)
    BY <2>3 DEF Next, Harvest, Start, EnsureG0, Check, Refuse, Activate, Crash, Finished,
                files, vars
  <2> QED
    BY <2>2, <2>3
<1> QED
  BY <1>1, ChainInvariance, PTL DEF Spec, G0Immutable

-----------------------------------------------------------------------------
(* The share of a family.                                                  *)

\* A set of numbers that is not empty has a least one ...
LEMMA LeastNumber ==
  ASSUME NEW S \in SUBSET Nat, S # {}
  PROVE  \E x \in S : \A y \in S : x <= y
<1>1. \E x \in S : \A y \in S : ~ (<<y, x>> \in OpToRel(<, Nat))
  BY WFMin, NatLessThanWellFounded, Zenon
<1>2. PICK x \in S : \A y \in S : ~ (y < x)
  BY <1>1, Zenon DEF OpToRel
<1> QED
  BY <1>2

\* ... and, up to a bound, a greatest one.
LEMMA GreatestNumber ==
  ASSUME NEW n \in Nat, NEW S \in SUBSET (1 .. n), S # {}
  PROVE  \E x \in S : \A y \in S : y <= x
<1> DEFINE T == {n - x : x \in S}
<1>1. T \in SUBSET Nat /\ T # {}
  <2>1. ASSUME NEW x \in S PROVE n - x \in Nat
    <3>1. x \in 1 .. n
      OBVIOUS
    <3> QED
      BY <3>1
  <2> QED
    BY <2>1
<1>2. PICK m \in T : \A y \in T : m <= y
  <2> HIDE DEF T
  <2> QED
    BY <1>1, LeastNumber
<1>3. PICK x \in S : m = n - x
  OBVIOUS
<1>4. ASSUME NEW y \in S PROVE y <= x
  <2>1. n - y \in T
    OBVIOUS
  <2> QED
    BY <1>2, <1>3, <2>1
<1> QED
  BY <1>4

HasRoom(x, kept) == FamilyHasRoom(x, kept) /\ SpecHasRoom(x, kept)

\* One more example: it is decided by what was kept before it, and changes nothing of that.
LEMMA KeptExtends ==
  ASSUME NEW m \in Nat, NEW E \in SUBSET Nat, NEW K \in SUBSET E,
         \A x \in E : x < m, KeptInOrder(K, E)
  PROVE  \E L \in SUBSET (E \union {m}) : KeptInOrder(L, E \union {m})
<1> DEFINE L == IF HasRoom(m, K) THEN K \union {m} ELSE K
<1>1. L \in SUBSET (E \union {m})
  OBVIOUS
<1>2. {y \in L : y < m} = K
  <2>1. \A y \in K : y < m
    OBVIOUS
  <2>2. \A y \in L : y \in K \/ y = m
    OBVIOUS
  <2>3. K \subseteq L /\ ~ (m < m)
    OBVIOUS
  <2> HIDE DEF L
  <2> QED
    BY <2>1, <2>2, <2>3
<1>3. ASSUME NEW x \in E PROVE x # m /\ {y \in L : y < x} = {y \in K : y < x} /\ (x \in L <=> x \in K)
  OBVIOUS
<1>4. m \in L <=> HasRoom(m, K)
  <2>1. m \notin K
    OBVIOUS
  <2> QED
    BY <2>1
<1>5. \A x \in E : x \in L <=> HasRoom(x, {y \in L : y < x})
  BY <1>3 DEF KeptInOrder, HasRoom
<1>6. KeptInOrder(L, E \union {m})
  <2> HIDE DEF L
  <2> QED
    BY <1>2, <1>4, <1>5 DEF KeptInOrder, HasRoom
<1> QED
  BY <1>1, <1>6

\* The single pass of balance_by_family has a result ...
LEMMA KeptExists ==
  ASSUME NEW n \in Nat, NEW E \in SUBSET (1 .. n)
  PROVE  \E K \in SUBSET E : KeptInOrder(K, E)
<1> DEFINE UpTo(m) == E \intersect (1 .. m)
           Bad == {m \in Nat : ~ \E K \in SUBSET UpTo(m) : KeptInOrder(K, UpTo(m))}
<1>1. CASE Bad = {}
  <2>1. UpTo(n) = E
    OBVIOUS
  <2> QED
    BY <1>1, <2>1
<1>2. CASE Bad # {}
  <2>1. PICK m \in Bad : \A k \in Bad : m <= k
    <3>1. Bad \in SUBSET Nat
      OBVIOUS
    <3> HIDE DEF Bad
    <3> QED
      BY <1>2, <3>1, LeastNumber
  <2>2. m # 0
    <3>1. UpTo(0) = {} /\ KeptInOrder({}, {})
      BY DEF KeptInOrder
    <3> QED
      BY <3>1
  <2>3. m - 1 \in Nat /\ m - 1 \notin Bad
    <3>1. m \in Nat
      OBVIOUS
    <3>2. m - 1 \in Nat /\ ~ (m <= m - 1)
      BY <2>2, <3>1
    <3> HIDE DEF Bad
    <3> QED
      BY <2>1, <3>2
  <2>4. PICK K \in SUBSET UpTo(m - 1) : KeptInOrder(K, UpTo(m - 1))
    BY <2>3
  <2>5. m \in Nat /\ UpTo(m - 1) \in SUBSET Nat /\ \A x \in UpTo(m - 1) : x < m
    OBVIOUS
  <2>6. \E L \in SUBSET (UpTo(m - 1) \union {m}) : KeptInOrder(L, UpTo(m - 1) \union {m})
    <3> HIDE DEF UpTo
    <3> QED
      BY <2>4, <2>5, KeptExtends
  <2>7. CASE m \in E
    <3>1. UpTo(m) = UpTo(m - 1) \union {m}
      BY <2>2, <2>7
    <3> QED
      BY <2>6, <3>1
  <2>8. CASE m \notin E
    <3>1. UpTo(m) = UpTo(m - 1)
      BY <2>2, <2>8
    <3> QED
      BY <2>4, <3>1
  <2> QED
    BY <2>7, <2>8
<1> QED
  BY <1>1, <1>2

\* ... and only one: which rows survive does not depend on anything else.
LEMMA KeptUnique ==
  ASSUME NEW E \in SUBSET Nat, NEW K \in SUBSET E, NEW L \in SUBSET E,
         KeptInOrder(K, E), KeptInOrder(L, E)
  PROVE  K = L
<1> DEFINE D == {x \in E : (x \in K) # (x \in L)}
<1>1. CASE D = {}
  BY <1>1
<1>2. CASE D # {}
  <2>1. PICK x \in D : \A y \in D : x <= y
    <3>1. D \in SUBSET Nat
      OBVIOUS
    <3> HIDE DEF D
    <3> QED
      BY <1>2, <3>1, LeastNumber
  <2>2. {y \in K : y < x} = {y \in L : y < x}
    <3>1. ASSUME NEW y \in E, y < x PROVE y \in K <=> y \in L
      <4>1. y \in Nat /\ x \in Nat /\ ~ (x <= y)
        BY <3>1
      <4>2. y \notin D
        <5> HIDE DEF D
        <5> QED
          BY <2>1, <4>1
      <4> QED
        BY <4>2
    <3> QED
      BY <3>1
  <2>3. (x \in K) <=> (x \in L)
    BY <2>2 DEF KeptInOrder
  <2> QED
    BY <2>3
<1> QED
  BY <1>1, <1>2

\* Of one family the balanced rows keep no more than the cap: the last one kept found room.
LEMMA BalancedCap ==
  ASSUME NEW E \in SUBSET Numbers, NEW f
  PROVE  /\ Balanced(E) \in SUBSET E
         /\ Cardinality({y \in Balanced(E) : Family[y] = f}) <= FamilyCap
<1> DEFINE K == Balanced(E)
           F == {y \in K : Family[y] = f}
<1>1. Examples \in Nat /\ FamilyCap \in Nat
  BY SftChainAssumption
<1>2. K \in SUBSET E /\ KeptInOrder(K, E)
  BY <1>1, KeptExists DEF Balanced, Numbers
<1>3. F \in SUBSET (1 .. Examples) /\ IsFiniteSet(F)
  <2>1. F \in SUBSET (1 .. Examples)
    <3> HIDE DEF K
    <3> QED
      BY <1>2 DEF Numbers
  <2>2. IsFiniteSet(1 .. Examples)
    BY <1>1, FS_Interval
  <2> HIDE DEF F
  <2> QED
    BY <2>1, <2>2, FS_Subset
<1>4. Cardinality(F) <= FamilyCap
  <2>1. CASE F = {}
    BY <1>1, <2>1, FS_EmptySet
  <2>2. CASE F # {}
    <3>1. PICK x \in F : \A y \in F : y <= x
      <4> HIDE DEF F
      <4> QED
        BY <1>1, <1>3, <2>2, GreatestNumber
    <3>2. FamilyHasRoom(x, {y \in K : y < x})
      <4> HIDE DEF K
      <4> QED
        BY <1>2, <3>1 DEF KeptInOrder
    <3>3. {y \in {z \in K : z < x} : Family[y] = Family[x]} = F \ {x}
      <4> HIDE DEF K
      <4>1. ASSUME NEW y \in K PROVE y \in Int
        BY <1>1, <1>2 DEF Numbers
      <4>2. x \in K /\ x \in Int /\ Family[x] = f
        BY <4>1
      <4>3. ASSUME NEW y \in F PROVE y < x <=> y # x
        <5>1. y \in Int /\ y <= x
          BY <3>1, <4>1
        <5> QED
          BY <4>2, <5>1
      <4> QED
        BY <4>2, <4>3
    <3>4. Cardinality(F \ {x}) < FamilyCap
      BY <3>2, <3>3 DEF FamilyHasRoom
    <3>5. Cardinality(F \ {x}) = Cardinality(F) - 1 /\ Cardinality(F) \in Nat
      BY <1>3, <3>1, FS_RemoveElement, FS_CardinalityType
    <3> QED
      BY <1>1, <3>4, <3>5
  <2> QED
    BY <2>1, <2>2
<1> QED
  BY <1>2, <1>4

\* The records of one family in a corpus: an example and the how manieth time it is there.
Records(c, f) == {p \in Numbers \X (1 .. c.depth) : Family[p[1]] = f /\ p[2] <= c.copies[p[1]]}

ShareOf(c) ==
  \A x \in Numbers : /\ c.copies[x] <= c.depth
                     /\ Cardinality(Records(c, Family[x])) <= FamilyCap * c.depth

LEMMA RecordsFinite ==
  ASSUME NEW c \in Corpora, NEW f
  PROVE  IsFiniteSet(Records(c, f)) /\ Cardinality(Records(c, f)) \in Nat
<1>1. Examples \in Nat /\ c.depth \in Nat
  BY SftChainAssumption DEF Corpora
<1>2. IsFiniteSet(Numbers) /\ IsFiniteSet(1 .. c.depth)
  BY <1>1, FS_Interval, SMTT(30) DEF Numbers
<1>3. IsFiniteSet(Numbers \X (1 .. c.depth))
  BY <1>2, FS_Product
<1>4. Records(c, f) \in SUBSET (Numbers \X (1 .. c.depth))
  BY DEF Records
<1> QED
  BY <1>3, <1>4, FS_Subset, FS_CardinalityType

\* One more generation adds to a family what the cap allows.
LEMMA MixedShare ==
  ASSUME NEW c \in Corpora, ShareOf(c), queue \subseteq QueueRows
  PROVE  ShareOf(Mixed(c))
<1> SUFFICES ASSUME NEW x \in Numbers
             PROVE  /\ Mixed(c).copies[x] <= Mixed(c).depth
                    /\ Cardinality(Records(Mixed(c), Family[x])) <= FamilyCap * Mixed(c).depth
  BY DEF ShareOf
<1>1. /\ FamilyCap \in Nat /\ c.depth \in Nat /\ Mixed(c).depth = c.depth + 1
      /\ Mixed(c) \in Corpora
      /\ \A y \in Numbers : c.copies[y] \in Nat
  BY SftChainAssumption, MixedType DEF Mixed, Corpora
<1>2. ASSUME NEW y \in Numbers
      PROVE  Mixed(c).copies[y] = IF y \in New THEN c.copies[y] + 1 ELSE c.copies[y]
  BY <1>1 DEF Mixed
<1>3. Mixed(c).copies[x] <= Mixed(c).depth
  BY <1>1, <1>2 DEF ShareOf
<1> DEFINE f == Family[x]
           E == Eligible(job.harvest)
           Kept == {y \in Balanced(E) : Family[y] = f}
           Added == {<<y, c.copies[y] + 1>> : y \in {y \in New : Family[y] = f}}
<1>4. E \in SUBSET Numbers
  BY SftChainAssumption DEF Eligible
<1>5. /\ Kept \in SUBSET Numbers /\ Cardinality(Kept) <= FamilyCap
      /\ New \in SUBSET Numbers /\ {y \in New : Family[y] = f} \in SUBSET Kept
  BY <1>4, BalancedCap DEF New
<1>6. IsFiniteSet(Kept)
  <2>1. Examples \in Nat
    BY SftChainAssumption
  <2>2. IsFiniteSet(Numbers)
    BY <2>1, FS_Interval DEF Numbers
  <2> QED
    BY <1>5, <2>2, FS_Subset
<1>7. IsFiniteSet(Added) /\ Cardinality(Added) <= FamilyCap /\ Cardinality(Added) \in Nat
  <2> DEFINE S == {y \in New : Family[y] = f}
             add == [y \in S |-> <<y, c.copies[y] + 1>>]
  <2>1. IsFiniteSet(S) /\ Cardinality(S) <= Cardinality(Kept)
    BY <1>5, <1>6, FS_Subset
  <2>2. add \in Surjection(S, Added)
    <3>1. add \in [S -> Added] /\ \A p \in Added : \E y \in S : add[y] = p
      BY Zenon
    <3> HIDE DEF add, Added, S
    <3> QED
      BY <3>1, Fun_IsSurj
  <2>3. IsFiniteSet(Added) /\ Cardinality(Added) <= Cardinality(S)
    <3> HIDE DEF add, Added, S
    <3> QED
      BY <2>1, <2>2, FS_Surjection
  <2>4. Cardinality(Added) \in Nat /\ Cardinality(S) \in Nat /\ Cardinality(Kept) \in Nat
    BY <1>6, <2>1, <2>3, FS_CardinalityType
  <2> HIDE DEF Added, S, Kept
  <2> QED
    BY <1>1, <1>5, <2>1, <2>3, <2>4
<1>8. Records(Mixed(c), f) \in SUBSET (Records(c, f) \union Added)
  <2> SUFFICES ASSUME NEW p \in Records(Mixed(c), f) PROVE p \in Records(c, f) \union Added
    OBVIOUS
  <2>1. /\ p \in Numbers \X (1 .. Mixed(c).depth) /\ Family[p[1]] = f
        /\ p[2] <= Mixed(c).copies[p[1]]
    BY DEF Records
  <2>2. /\ p[1] \in Numbers /\ p[2] \in Nat /\ 1 <= p[2] /\ p = <<p[1], p[2]>>
        /\ c.copies[p[1]] \in Nat /\ c.copies[p[1]] <= c.depth
    BY <1>1, <2>1 DEF ShareOf
  <2>3. CASE p[2] <= c.copies[p[1]]
    <3>1. p[2] \in 1 .. c.depth
      BY <1>1, <2>2, <2>3
    <3> QED
      BY <2>1, <2>2, <2>3, <3>1 DEF Records
  <2>4. CASE ~ (p[2] <= c.copies[p[1]])
    <3>1. p[1] \in New /\ p[2] = c.copies[p[1]] + 1
      BY <1>2, <2>1, <2>2, <2>4
    <3> QED
      BY <2>1, <2>2, <3>1
  <2> QED
    BY <2>3, <2>4
<1>9. Cardinality(Records(Mixed(c), f)) <= Cardinality(Records(c, f)) + FamilyCap
  <2> DEFINE R == Records(c, f)
             Q == Records(Mixed(c), f)
  <2>1. IsFiniteSet(R) /\ Cardinality(R) \in Nat /\ Cardinality(Q) \in Nat
    BY <1>1, RecordsFinite
  <2> HIDE DEF R, Q, Added
  <2>2. /\ IsFiniteSet(R \union Added)
        /\ Cardinality(R \union Added)
             = Cardinality(R) + Cardinality(Added) - Cardinality(R \intersect Added)
        /\ Cardinality(R \intersect Added) \in Nat
    BY <1>7, <2>1, FS_Union, FS_Intersection, FS_CardinalityType
  <2>3. Cardinality(Q) <= Cardinality(R \union Added)
    BY <1>8, <2>2, FS_Subset DEF R, Q
  <2> QED
    BY <1>1, <1>7, <2>1, <2>2, <2>3 DEF R, Q
<1>10. FamilyCap * Mixed(c).depth = FamilyCap * c.depth + FamilyCap /\ FamilyCap * c.depth \in Nat
  <2>1. \A a, b \in Nat : a * (b + 1) = a * b + a /\ a * b \in Nat
    OBVIOUS
  <2> QED
    BY <1>1, <2>1
<1>11. Cardinality(Records(c, f)) <= FamilyCap * c.depth
  BY DEF ShareOf
<1>12. Cardinality(Records(c, f)) \in Nat /\ Cardinality(Records(Mixed(c), f)) \in Nat
  BY <1>1, RecordsFinite
<1> QED
  BY <1>1, <1>3, <1>9, <1>10, <1>11, <1>12

LEMMA ShareAsRecords == FamilyShare <=> \A g \in Gens : \A c \in corpus[g] : ShareOf(c)
  BY DEF FamilyShare, ShareOf, Records

LEMMA ShareStep == TypeOK /\ FamilyShare /\ [Next]_vars => FamilyShare'
<1> SUFFICES ASSUME TypeOK, FamilyShare, [Next]_vars PROVE FamilyShare'
  OBVIOUS
<1>1. /\ job.parent \in Gens /\ job.output \in Gens /\ queue \subseteq QueueRows
      /\ corpus \in [Gens -> SUBSET Corpora]
  BY JobTypes DEF TypeOK
<1>2. \A g \in Gens : \A c \in corpus[g] : ShareOf(c)
  BY ShareAsRecords
<1>3. (\A g \in Gens : \A c \in corpus'[g] : ShareOf(c)) => FamilyShare'
  BY DEF FamilyShare, ShareOf, Records
<1>4. CASE WriteDataset
  <2>1. corpus' = [corpus EXCEPT ![job.output] = {Mixed(c) : c \in corpus[job.parent]}]
    BY <1>4 DEF WriteDataset
  <2>2. \A c \in corpus[job.parent] : ShareOf(Mixed(c))
    BY <1>1, <1>2, MixedShare
  <2>3. \A g \in Gens : \A c \in corpus'[g] : ShareOf(c)
    BY <1>1, <1>2, <2>1, <2>2
  <2> QED
    BY <1>3, <2>3
<1>5. CASE CrashInWrite
  <2>1. UNCHANGED corpus \/ corpus' = [corpus EXCEPT ![job.output] = {}]
    BY <1>5 DEF CrashInWrite
  <2>2. \A g \in Gens : \A c \in corpus'[g] : ShareOf(c)
    BY <1>1, <1>2, <2>1
  <2> QED
    BY <1>3, <2>2
<1>6. CASE UNCHANGED corpus
  BY <1>2, <1>3, <1>6
<1> QED
  BY <1>4, <1>5, <1>6
  DEF Next, Harvest, Start, EnsureG0, Check, Refuse, Train, Validate, Promote, Activate, Crash,
      Finished, files, vars

\* However often the same rows are harvested again, a family has at most its cap of verified
\* examples for each generation between a corpus and the base (balance_by_family).
THEOREM FamilySharesHold == Spec => []FamilyShare
<1>1. Init => FamilyShare
  <2> SUFFICES ASSUME Init, NEW g \in Gens, NEW c \in corpus[g] PROVE ShareOf(c)
    BY ShareAsRecords
  <2>1. c = BaseCorpus
    BY DEF Init
  <2>2. c.depth = 0 /\ \A x \in Numbers : c.copies[x] = 0
    BY <2>1 DEF BaseCorpus
  <2>3. \A f : Records(c, f) = {}
    BY <2>2 DEF Records
  <2>4. FamilyCap * c.depth = 0
    BY <2>2, SftChainAssumption
  <2> QED
    BY <2>2, <2>3, <2>4, FS_EmptySet DEF ShareOf
<1>2. ChainInv => TypeOK
  BY DEF ChainInv
<1> QED
  BY <1>1, <1>2, ShareStep, ChainInvariance, PTL DEF Spec
=============================================================================
