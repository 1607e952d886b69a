-------------------------- MODULE Transactions_proofs --------------------------
(***************************************************************************)
(* Lemmas about module Transactions, for any number of sessions, that the  *)
(* proofs about its users rest on: what each operation of a session does   *)
(* to its own snapshot and to those of the others.                         *)
(*                                                                         *)
(* They carry one argument.  On SQLite a session that has read something   *)
(* holds a snapshot; a commit of anybody else makes that snapshot old; and *)
(* a session with an old snapshot can write nothing.  So whoever commits   *)
(* may trust what it read, however long ago that was.                      *)
(*                                                                         *)
(* The last two lemmas are about numbers, and shared like the others.      *)
(***************************************************************************)
EXTENDS Transactions, FiniteSetTheorems, WellFoundedInduction, TLAPS

\* Every operation of a session keeps the types of the transaction state.
LEMMA TxnType ==
    ASSUME TxnTypeOK, NEW p \in Sessions,
           Read(p) \/ Flush(p) \/ Commit(p) \/ Rollback(p)
    PROVE  TxnTypeOK'
<1>1. CASE Read(p)  BY <1>1 DEF TxnTypeOK, Read, Opened
<1>2. CASE Flush(p)  BY <1>2 DEF TxnTypeOK, Flush, Opened
<1>3. CASE Commit(p)  BY <1>3 DEF TxnTypeOK, Commit
<1>4. CASE Rollback(p)  BY <1>4 DEF TxnTypeOK, Rollback
<1> QED  BY <1>1, <1>2, <1>3, <1>4

\* A session that reads or flushes has a snapshot; a flush is refused if that
\* is out of date.
LEMMA SnapshotTaken ==
    ASSUME SQLite, TxnTypeOK, NEW p \in Sessions, Read(p) \/ Flush(p)
    PROVE  /\ snap'[p] # "none"
           /\ snap[p] = "none" => snap'[p] = "current"
           /\ snap[p] # "none" => snap'[p] = snap[p]
           /\ Flush(p) => snap'[p] = "current"
<1>1. CASE Read(p)  BY <1>1 DEF TxnTypeOK, Read, Flush, MayWrite, Opened
<1>2. CASE Flush(p)  BY <1>2 DEF TxnTypeOK, Flush, MayWrite, Opened
<1> QED  BY <1>1, <1>2

\* Short of committing, a session leaves the snapshots of the others alone.
LEMMA SnapshotOfOthers ==
    ASSUME TxnTypeOK, NEW p \in Sessions, NEW q \in Sessions, p # q,
           Read(p) \/ Flush(p) \/ Rollback(p)
    PROVE  snap'[q] = snap[q]
<1>1. CASE Read(p)  BY <1>1 DEF TxnTypeOK, Read, Opened
<1>2. CASE Flush(p)  BY <1>2 DEF TxnTypeOK, Flush, Opened
<1>3. CASE Rollback(p)  BY <1>3 DEF TxnTypeOK, Rollback
<1> QED  BY <1>1, <1>2, <1>3

\* After a commit no session has a current snapshot, and those who had one
\* still have one, out of date.
LEMMA NobodyCurrent ==
    ASSUME NEW p \in Sessions, NEW q \in Sessions, Commit(p)
    PROVE  /\ snap'[q] # "current"
           /\ q # p /\ snap[q] # "none" => snap'[q] # "none"
BY DEF Commit

\* A session that commits on SQLite, and has read before, has a current
\* snapshot: nobody has committed since.
LEMMA CommitsOnCurrent ==
    ASSUME SQLite, TxnTypeOK, NEW p \in Sessions, Commit(p), snap[p] # "none"
    PROVE  snap[p] = "current"
BY DEF Commit, MayWrite, TxnTypeOK

-----------------------------------------------------------------------------
(***************************************************************************)
(* Numbers: a set of them has a least one, and a finite set a greatest,    *)
(* namely one that the fewest others exceed.                               *)
(***************************************************************************)
LEMMA LeastOf ==
    ASSUME NEW S \in SUBSET Nat, S # {}
    PROVE  \E m \in S : \A n \in S : m <= n
<1> DEFINE Less == OpToRel(<, Nat)
<1>1. IsWellFoundedOn(Less, Nat)  BY NatLessThanWellFounded
<1> HIDE DEF Less
<1>2. PICK m \in S : \A n \in S : ~ (<<n, m>> \in Less)  BY <1>1, WFMin, Zenon
<1>3. \A n \in S : ~ (n < m)  BY <1>2 DEF Less, OpToRel
<1> QED  BY <1>3

LEMMA GreatestOf ==
    ASSUME NEW S \in SUBSET Nat, IsFiniteSet(S), S # {}
    PROVE  \E m \in S : \A n \in S : n <= m
<1> DEFINE Above(m) == {n \in S : n > m}
           Counted == {Cardinality(Above(m)) : m \in S}
<1>1. \A m \in S : IsFiniteSet(Above(m)) /\ Cardinality(Above(m)) \in Nat
    <2> SUFFICES ASSUME NEW m \in S  PROVE IsFiniteSet(Above(m)) /\ Cardinality(Above(m)) \in Nat
        OBVIOUS
    <2>1. Above(m) \in SUBSET S  OBVIOUS
    <2> HIDE DEF Above
    <2> QED  BY <2>1, FS_Subset, FS_CardinalityType
<1>2. PICK m \in S : \A n \in S : Cardinality(Above(m)) <= Cardinality(Above(n))
    <2>1. Counted \in SUBSET Nat /\ Counted # {}  BY <1>1
    <2>2. PICK c \in Counted : \A d \in Counted : c <= d
        <3> HIDE DEF Counted
        <3> QED  BY <2>1, LeastOf
    <2> QED  BY <2>2
<1>3. ASSUME NEW n \in S, n > m  PROVE FALSE
    <2>0. \A x \in S : x \in Nat  OBVIOUS
    <2>1. \A x \in S : x > n => x > m  BY <1>3, <2>0
    <2>t. Above(n) \in SUBSET Above(m)  BY <2>1
    <2>2. n \in Above(m) /\ n \notin Above(n)  BY <1>3
    <2>3. Cardinality(Above(n)) <= Cardinality(Above(m)) /\ (Cardinality(Above(m)) = Cardinality(Above(n)) => Above(m) = Above(n))
        <3> HIDE DEF Above
        <3> QED  BY <1>1, <2>t, FS_Subset
    <2> HIDE DEF Above
    <2> QED  BY <1>1, <1>2, <2>2, <2>3
<1> QED  BY <1>3
=============================================================================
