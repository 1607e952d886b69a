--------------------------- MODULE Migrations_proofs ---------------------------
(***************************************************************************)
(* Theorems about module Migrations, on both dialects, for any releases    *)
(* and any number of processes that start together and die:                *)
(*   - type correctness;                                                   *)
(*   - a process that serves requests has the schema it was built for;     *)
(*   - and files are applied in order, provided that no release inserts a  *)
(*     file below one that another release has.                            *)
(***************************************************************************)
EXTENDS Migrations, WellFoundedInduction, TLAPS

migrationsVars == <<migrationVars, txnVars>>

\* The file that a process takes next is the first of those it has left.
LEMMA FirstIsLeast ==
    ASSUME NEW S \in SUBSET Nat, S # {}
    PROVE  First(S) \in S /\ \A w \in S : First(S) <= w
<1> DEFINE Less == OpToRel(<, Nat)
<1>1. IsWellFoundedOn(Less, Nat)
    BY NatLessThanWellFounded
<1> HIDE DEF Less
<1>2. PICK v \in S : \A w \in S : ~ (<<w, v>> \in Less)
    BY <1>1, WFMin, Zenon
<1>3. \A w \in S : ~ (w < v)
    BY <1>2 DEF Less, OpToRel
<1>4. \E u \in S : \A w \in S : u <= w
    BY <1>3
<1> QED  BY <1>4 DEF First

-----------------------------------------------------------------------------
(***************************************************************************)
(* The invariant.  The files of its release that a process has passed are  *)
(* applied with their contents: an applied version never changes, so this  *)
(* stays true whatever the others do.                                      *)
(***************************************************************************)
Passed(p) ==
    process[p].step # "down" =>
        /\ process[p].left \subseteq DOMAIN Files(p)
        /\ \A v \in DOMAIN Files(p) \ process[p].left : applied[v] = Files(p)[v]

Taken(p) ==
    process[p].step = "running" =>
        /\ process[p].found \in process[p].left
        /\ \A w \in process[p].left : process[p].found <= w

RanOnce == \A v \in Versions : ran[v] = IF applied[v] = None THEN 0 ELSE 1

MigrationsInv ==
    /\ MigrationsTypeOK
    /\ RanOnce
    /\ \A p \in Processes :
        /\ Passed(p) /\ Taken(p)
        /\ process[p].step = "up" => process[p].left = {}

LEMMA FilesTyped ==
    ASSUME MigrationsTypeOK, NEW p \in Processes
    PROVE  /\ release[p] \in DOMAIN Contents
           /\ DOMAIN Files(p) \subseteq Versions /\ DOMAIN Files(p) \subseteq Nat
           /\ \A v \in DOMAIN Files(p) : Files(p)[v] \in Texts /\ Files(p)[v] # None
<1>1. release[p] \in DOMAIN Contents
    BY DEF MigrationsTypeOK
<1>2. DOMAIN Contents[release[p]] \subseteq Versions
    BY <1>1 DEF Versions
<1>3. \A v \in DOMAIN Contents[release[p]] : Contents[release[p]][v] \in Texts
    BY <1>1 DEF Texts
<1> QED  BY <1>1, <1>2, <1>3, ContentsAssumption, TextsAssumption DEF Files

LEMMA VersionsAreNumbers == Versions \subseteq Nat
BY ContentsAssumption DEF Versions

LEMMA LeftTyped ==
    ASSUME MigrationsTypeOK, NEW p \in Processes
    PROVE  /\ process[p].left \in SUBSET Versions
           /\ process[p].step = "running" => process[p].found \in Versions
BY DEF MigrationsTypeOK, Process

\* Where a process may go from here.
LEMMA GoesKeepsType ==
    ASSUME MigrationsTypeOK, NEW p \in Processes, NEW s \in Process, Goes(p, s)
    PROVE  process' \in [Processes -> Process]
BY DEF MigrationsTypeOK, Goes

LEMMA MigrationsTypeKept ==
    ASSUME MigrationsInv, NEW p \in Processes, Migrates(p) \/ Dies(p)
    PROVE  MigrationsTypeOK'
<1> DEFINE left == process[p].left
<1>0. MigrationsTypeOK /\ Passed(p) /\ Taken(p)
    BY DEF MigrationsInv
<1>a. left \in SUBSET Versions /\ (process[p].step = "running" => process[p].found \in Versions)
    BY <1>0, LeftTyped
<1>b. DOMAIN Files(p) \subseteq Versions
    BY <1>0, FilesTyped
<1>c. Down \in Process
    BY DEF Process, Down
<1>d. \A S \in SUBSET Versions : [step |-> "next", left |-> S] \in Process
    BY DEF Process
<1>1. CASE Start(p)
    <2>1. process' \in [Processes -> Process]
        BY <1>1, <1>b, <1>d, <1>0, GoesKeepsType DEF Start
    <2>2. starts' \in [Processes -> 0..MaxStarts]
        <3>1. starts[p] \in 0..MaxStarts /\ starts[p] < MaxStarts
            BY <1>0, <1>1 DEF Start, MigrationsTypeOK
        <3>2. starts[p] + 1 \in 0..MaxStarts
            BY <3>1, StartsAssumption
        <3> QED  BY <1>0, <1>1, <3>2 DEF Start, MigrationsTypeOK
    <2> QED  BY <1>0, <1>1, <2>1, <2>2 DEF Start, MigrationsTypeOK
<1>2. CASE SkipApplied(p)
    <2>1. process' \in [Processes -> Process]
        BY <1>2, <1>a, <1>d, <1>0, GoesKeepsType DEF SkipApplied
    <2> QED  BY <1>0, <1>2, <2>1 DEF SkipApplied, MigrationsTypeOK
<1>3. CASE RefuseEdited(p) \/ ApplyRefused(p)
    <2>1. process' \in [Processes -> Process]
        BY <1>3, <1>c, <1>0, GoesKeepsType DEF RefuseEdited, ApplyRefused
    <2> QED  BY <1>0, <1>3, <2>1 DEF RefuseEdited, ApplyRefused, MigrationsTypeOK
<1>4. CASE FindOutstanding(p)
    <2> DEFINE v == First(left)
    <2>1. v \in left
        BY <1>4, <1>a, VersionsAreNumbers, FirstIsLeast DEF FindOutstanding
    <2>2. Goes(p, [step |-> "running", left |-> left, found |-> v])
        BY <1>4 DEF FindOutstanding
    <2> HIDE DEF v
    <2>3. [step |-> "running", left |-> left, found |-> v] \in Process
        BY <1>a, <2>1 DEF Process
    <2>4. process' \in [Processes -> Process]
        BY <2>2, <2>3, <1>0, GoesKeepsType
    <2> QED  BY <1>0, <1>4, <2>4 DEF FindOutstanding, MigrationsTypeOK
<1>5. CASE Apply(p)
    <2> DEFINE v == process[p].found
    <2>1. v \in Versions
        BY <1>5, <1>a DEF Apply
    <2>2. process' \in [Processes -> Process]
        BY <1>5, <1>a, <1>d, <1>0, GoesKeepsType DEF Apply
    <2>3. v \in DOMAIN Files(p)
        BY <1>0, <1>5 DEF Apply, Passed, Taken
    <2>4. Files(p)[v] \in Texts
        BY <1>0, <2>3, FilesTyped
    <2> HIDE DEF v
    <2>5. applied' = [applied EXCEPT ![v] = Files(p)[v]] /\ ran' = [ran EXCEPT ![v] = @ + 1]
        BY <1>5 DEF Apply, v
    <2>6. applied' \in [Versions -> Texts \cup {None}] /\ ran' \in [Versions -> Nat]
        BY <1>0, <2>1, <2>4, <2>5 DEF MigrationsTypeOK
    <2> QED  BY <1>0, <1>5, <2>2, <2>6 DEF Apply, MigrationsTypeOK
<1>6. CASE Started(p)
    <2>1. [step |-> "up", left |-> {}] \in Process
        BY DEF Process
    <2>2. process' \in [Processes -> Process]
        BY <1>6, <2>1, <1>0, GoesKeepsType DEF Started
    <2> QED  BY <1>0, <1>6, <2>2 DEF Started, MigrationsTypeOK
<1>7. CASE Dies(p)
    <2>1. process' \in [Processes -> Process]
        BY <1>7, <1>c, <1>0, GoesKeepsType DEF Dies
    <2> QED  BY <1>0, <1>7, <2>1, StartsAssumption DEF Dies, MigrationsTypeOK
<1> QED  BY <1>1, <1>2, <1>3, <1>4, <1>5, <1>6, <1>7 DEF Migrates

\* What is applied stays as it is; a version is applied at most once.
LEMMA AppliedStays ==
    ASSUME MigrationsInv, NEW p \in Processes, Migrates(p) \/ Dies(p), NEW v \in Versions
    PROVE  /\ applied[v] # None => applied'[v] = applied[v]
           /\ ran'[v] = IF applied'[v] = None THEN 0 ELSE 1
<1>0. MigrationsTypeOK /\ RanOnce /\ Passed(p) /\ Taken(p)
    BY DEF MigrationsInv
<1>1. CASE Apply(p)
    <2> DEFINE w == process[p].found
    <2>1. w \in DOMAIN Files(p)
        BY <1>0, <1>1 DEF Apply, Passed, Taken
    <2>2. Files(p)[w] # None
        BY <1>0, <2>1, FilesTyped
    <2> HIDE DEF w
    <2>3. /\ applied[w] = None
          /\ applied' = [applied EXCEPT ![w] = Files(p)[w]]
          /\ ran' = [ran EXCEPT ![w] = @ + 1]
        BY <1>1 DEF Apply, Insertable, w
    <2>4. CASE v = w
        <3>1. ran[v] = 0  BY <1>0, <2>3, <2>4 DEF RanOnce
        <3>2. ran'[v] = 1  BY <1>0, <2>3, <2>4, <3>1 DEF MigrationsTypeOK
        <3>3. applied'[v] # None  BY <1>0, <2>2, <2>3, <2>4 DEF MigrationsTypeOK
        <3> QED  BY <2>3, <2>4, <3>2, <3>3
    <2>5. CASE v # w
        BY <1>0, <2>3, <2>5 DEF MigrationsTypeOK, RanOnce
    <2> QED  BY <2>4, <2>5
<1>2. CASE UNCHANGED <<applied, ran>>
    BY <1>0, <1>2 DEF RanOnce
<1> QED
    BY <1>1, <1>2
    DEF Migrates, Dies, Start, SkipApplied, RefuseEdited, FindOutstanding, ApplyRefused, Started

LEMMA ReleaseStays ==
    ASSUME NEW p \in Processes, Migrates(p) \/ Dies(p)
    PROVE  release' = release
BY DEF Migrates, Dies, Start, SkipApplied, RefuseEdited, FindOutstanding, Apply, ApplyRefused,
       Started

Placed(p) ==
    Passed(p) /\ Taken(p) /\ (process[p].step = "up" => process[p].left = {})

\* Each process keeps its own account ...
LEMMA OwnPlaceKept ==
    ASSUME MigrationsInv, NEW p \in Processes, Migrates(p) \/ Dies(p)
    PROVE  Placed(p)'
<1> DEFINE left == process[p].left
<1> USE DEF Placed, Passed, Taken
<1>0. MigrationsTypeOK /\ Passed(p) /\ Taken(p)
    BY DEF MigrationsInv
<1>a. process \in [Processes -> Process]
    BY <1>0 DEF MigrationsTypeOK
<1>b. Files(p)' = Files(p)
    BY ReleaseStays DEF Files
<1>1. CASE Start(p)
    <2>1. process'[p] = [step |-> "next", left |-> DOMAIN Files(p)]
        BY <1>a, <1>1 DEF Start, Goes
    <2> QED  BY <1>b, <2>1
<1>2. CASE SkipApplied(p)
    <2> DEFINE v == First(left)
    <2>1. process'[p] = [step |-> "next", left |-> left \ {v}]
        BY <1>a, <1>2 DEF SkipApplied, Goes
    <2>2. applied[v] = Files(p)[v] /\ applied' = applied /\ process[p].step = "next"
        BY <1>2 DEF SkipApplied
    <2> HIDE DEF v
    <2> QED  BY <1>0, <1>b, <2>1, <2>2
<1>3. CASE RefuseEdited(p) \/ ApplyRefused(p) \/ Dies(p)
    <2>1. process'[p] = Down
        BY <1>a, <1>3 DEF RefuseEdited, ApplyRefused, Dies, Goes
    <2> QED  BY <2>1 DEF Down
<1>4. CASE FindOutstanding(p)
    <2> DEFINE v == First(left)
    <2>1. v \in left /\ \A w \in left : v <= w
        BY <1>0, <1>4, LeftTyped, VersionsAreNumbers, FirstIsLeast DEF FindOutstanding
    <2>2. process'[p] = [step |-> "running", left |-> left, found |-> v]
        BY <1>a, <1>4 DEF FindOutstanding, Goes
    <2>3. applied' = applied /\ process[p].step = "next"
        BY <1>4 DEF FindOutstanding
    <2> HIDE DEF v
    <2> QED  BY <1>0, <1>b, <2>1, <2>2, <2>3
<1>5. CASE Apply(p)
    <2> DEFINE v == process[p].found
    <2>1. process'[p] = [step |-> "next", left |-> left \ {v}]
        BY <1>a, <1>5 DEF Apply, Goes
    <2>2. v \in DOMAIN Files(p) /\ DOMAIN Files(p) \subseteq Versions
        BY <1>0, <1>5, FilesTyped DEF Apply
    <2>3. process[p].step = "running" /\ applied' = [applied EXCEPT ![v] = Files(p)[v]]
        BY <1>5 DEF Apply
    <2> HIDE DEF v
    <2>4. applied'[v] = Files(p)[v] /\ \A w \in Versions \ {v} : applied'[w] = applied[w]
        BY <1>0, <2>2, <2>3 DEF MigrationsTypeOK
    <2> QED  BY <1>0, <1>b, <2>1, <2>2, <2>3, <2>4
<1>6. CASE Started(p)
    <2>1. process'[p] = [step |-> "up", left |-> {}] /\ process[p].step = "next" /\ left = {}
        BY <1>a, <1>6 DEF Started, Goes
    <2>2. applied' = applied
        BY <1>6 DEF Started
    <2> QED  BY <1>0, <1>b, <2>1, <2>2
<1> QED  BY <1>1, <1>2, <1>3, <1>4, <1>5, <1>6 DEF Migrates

\* ... and what the others do leaves it true.
LEMMA OtherPlaceKept ==
    ASSUME MigrationsInv, NEW p \in Processes, Migrates(p) \/ Dies(p),
           NEW q \in Processes \ {p}
    PROVE  Placed(q)'
<1>0. MigrationsTypeOK /\ Placed(q) /\ process \in [Processes -> Process]
    BY DEF MigrationsInv, MigrationsTypeOK, Placed
<1>1. process'[q] = process[q]
    <2>1. ASSUME NEW s, Goes(p, s)  PROVE process'[q] = process[q]
        BY <1>0, <2>1 DEF Goes
    <2> QED
        BY <2>1
        DEF Migrates, Dies, Start, SkipApplied, RefuseEdited, FindOutstanding, Apply,
            ApplyRefused, Started
<1>2. Files(q)' = Files(q)
    BY ReleaseStays DEF Files
<1>3. ASSUME NEW v \in DOMAIN Files(q), applied[v] = Files(q)[v]
      PROVE  applied'[v] = Files(q)[v]
    BY <1>0, <1>3, FilesTyped, AppliedStays
<1> QED  BY <1>0, <1>1, <1>2, <1>3 DEF Placed, Passed, Taken

LEMMA MigrationsInvKept ==
    MigrationsInv /\ [MigrationsNext]_migrationsVars => MigrationsInv'
<1> SUFFICES ASSUME MigrationsInv, [MigrationsNext]_migrationsVars  PROVE MigrationsInv'
    OBVIOUS
<1>1. ASSUME NEW p \in Processes, Migrates(p) \/ Dies(p)  PROVE MigrationsInv'
    <2>1. MigrationsTypeOK'  BY <1>1, MigrationsTypeKept
    <2>2. RanOnce'  BY <1>1, AppliedStays DEF RanOnce
    <2>3. \A q \in Processes : Placed(q)'  BY <1>1, OwnPlaceKept, OtherPlaceKept
    <2> QED  BY <2>1, <2>2, <2>3 DEF MigrationsInv, Placed
<1>2. CASE UNCHANGED migrationsVars
    BY <1>2
    DEF migrationsVars, migrationVars, MigrationsInv, MigrationsTypeOK, RanOnce, Passed, Taken,
        Files
<1> QED  BY <1>1, <1>2 DEF MigrationsNext

LEMMA MigrationsInvInitially == MigrationsInit => MigrationsInv
<1> SUFFICES ASSUME MigrationsInit  PROVE MigrationsInv
    OBVIOUS
<1>1. Down \in Process
    BY DEF Process, Down
<1>2. MigrationsTypeOK
    BY <1>1, StartsAssumption DEF MigrationsInit, MigrationsTypeOK
<1> QED  BY <1>2 DEF MigrationsInit, MigrationsInv, RanOnce, Passed, Taken, Down

\* The state of every start has its type, on both dialects.
THEOREM MigrationsTypeCorrect == MigrationsSpec => []MigrationsTypeOK
<1>1. MigrationsInv => MigrationsTypeOK  BY DEF MigrationsInv
<1> QED
    BY <1>1, MigrationsInvInitially, MigrationsInvKept, PTL DEF MigrationsSpec, migrationsVars

-----------------------------------------------------------------------------
(***************************************************************************)
(* The order.  Every process applies its own files in order, but nothing   *)
(* in the code compares the files of two releases: one that inserts a file *)
(* below another that is already applied has it applied after that one.    *)
(***************************************************************************)
AppendOnly ==
    \A r, s \in DOMAIN Contents : \A w \in DOMAIN Contents[r] \cap DOMAIN Contents[s] :
        \A v \in DOMAIN Contents[s] : v < w => v \in DOMAIN Contents[r]

InOrder ==
    \A s \in DOMAIN Contents : \A v, w \in DOMAIN Contents[s] :
        v < w /\ applied[w] # None => applied[v] # None

LEMMA InOrderKept ==
    ASSUME AppendOnly, MigrationsInv, InOrder, [MigrationsNext]_migrationsVars
    PROVE  InOrder'
<1>0. MigrationsTypeOK /\ InOrder
    BY DEF MigrationsInv
<1>1. CASE UNCHANGED applied
    BY <1>0, <1>1 DEF InOrder
<1>2. ASSUME NEW p \in Processes, Apply(p)  PROVE InOrder'
    <2> DEFINE f == process[p].found
    <2>1. f \in DOMAIN Files(p) /\ \A v \in DOMAIN Files(p) : v < f => applied[v] = Files(p)[v]
        <3>1. /\ f \in process[p].left /\ process[p].left \subseteq DOMAIN Files(p)
              /\ \A w \in process[p].left : f <= w
              /\ \A v \in DOMAIN Files(p) \ process[p].left : applied[v] = Files(p)[v]
            BY <1>2 DEF MigrationsInv, Passed, Taken, Apply
        <3>2. DOMAIN Files(p) \subseteq Nat
            BY <1>0, FilesTyped
        <3> HIDE DEF f
        <3> QED  BY <3>1, <3>2
    <2>2. applied' = [applied EXCEPT ![f] = Files(p)[f]]
        BY <1>2 DEF Apply
    <2> HIDE DEF f
    <2> SUFFICES ASSUME NEW s \in DOMAIN Contents, NEW v \in DOMAIN Contents[s],
                        NEW w \in DOMAIN Contents[s], v < w, applied'[w] # None
                 PROVE  applied'[v] # None
        BY DEF InOrder
    <2>3. v \in Versions /\ w \in Versions
        BY DEF Versions
    <2>4. applied[v] # None => applied'[v] # None
        BY <1>2, <2>3, AppliedStays DEF Migrates
    <2>5. CASE w = f
        <3>1. release[p] \in DOMAIN Contents /\ Files(p) = Contents[release[p]]
            BY <1>0, FilesTyped DEF Files
        <3>2. v \in DOMAIN Files(p)
            BY <2>1, <2>5, <3>1 DEF AppendOnly
        <3>3. applied[v] # None
            BY <1>0, <2>1, <2>5, <3>2, FilesTyped
        <3> QED  BY <2>4, <3>3
    <2>6. CASE w # f
        BY <1>0, <2>2, <2>3, <2>4, <2>6 DEF MigrationsTypeOK, InOrder
    <2> QED  BY <2>5, <2>6
<1> QED
    BY <1>1, <1>2
    DEF MigrationsNext, Migrates, Dies, Start, SkipApplied, RefuseEdited, FindOutstanding,
        ApplyRefused, Started, migrationsVars, migrationVars

HasItsSchema(p) ==
    process[p].step = "up" =>
        \A v \in DOMAIN Files(p) : applied[v] = Files(p)[v] /\ ran[v] = 1

\* A process that serves requests has every file of its release applied, once
\* and with its contents, whichever processes of whichever releases started,
\* collided and died meanwhile.
THEOREM StartedHasItsSchema ==
    MigrationsSpec => [](\A p \in Processes : HasItsSchema(p))
<1>1. ASSUME MigrationsInv, NEW p \in Processes, process[p].step = "up",
             NEW v \in DOMAIN Files(p)
      PROVE  applied[v] = Files(p)[v] /\ ran[v] = 1
    <2>1. applied[v] = Files(p)[v]
        BY <1>1 DEF MigrationsInv, Passed
    <2>2. v \in Versions /\ Files(p)[v] # None
        BY <1>1, FilesTyped DEF MigrationsInv
    <2> QED  BY <1>1, <2>1, <2>2 DEF MigrationsInv, RanOnce
<1>2. MigrationsInv => \A p \in Processes : HasItsSchema(p)
    BY <1>1 DEF HasItsSchema
<1> QED
    BY <1>2, MigrationsInvInitially, MigrationsInvKept, PTL DEF MigrationsSpec, migrationsVars

\* And if no release inserts a file below one that another release has, files
\* are applied in order, also across the releases.
THEOREM MigratesInOrder == AppendOnly => (MigrationsSpec => []StartedMeansMigrated)
<1> SUFFICES ASSUME AppendOnly  PROVE MigrationsSpec => []StartedMeansMigrated
    OBVIOUS
<1>1. MigrationsInit => InOrder
    <2> SUFFICES ASSUME MigrationsInit  PROVE InOrder
        OBVIOUS
    <2>1. \A s \in DOMAIN Contents : \A v \in DOMAIN Contents[s] : v \in Versions
        BY DEF Versions
    <2> QED  BY <2>1 DEF MigrationsInit, InOrder
<1>2. ASSUME MigrationsInv, InOrder, \A p \in Processes : HasItsSchema(p)
      PROVE  StartedMeansMigrated
    <2> SUFFICES ASSUME NEW p \in Processes, NEW v \in DOMAIN Files(p), NEW w \in DOMAIN Files(p),
                        v < w, applied[w] = Files(p)[w]
                 PROVE  applied[v] # None
        BY <1>2 DEF StartedMeansMigrated, HasItsSchema
    <2>1. applied[w] # None /\ release[p] \in DOMAIN Contents
        BY <1>2, FilesTyped DEF MigrationsInv
    <2> QED  BY <1>2, <2>1 DEF InOrder, Files
<1>3. MigrationsInv /\ InOrder /\ (\A p \in Processes : HasItsSchema(p)) => StartedMeansMigrated
    BY <1>2
<1>4. MigrationsInv /\ InOrder /\ [MigrationsNext]_migrationsVars => InOrder'
    BY InOrderKept
<1>5. MigrationsSpec => [](\A p \in Processes : HasItsSchema(p))
    BY StartedHasItsSchema
<1> QED
    BY <1>1, <1>3, <1>4, <1>5, MigrationsInvInitially, MigrationsInvKept, PTL
    DEF MigrationsSpec, migrationsVars
=============================================================================
