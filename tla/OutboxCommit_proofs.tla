------------------------- MODULE OutboxCommit_proofs -------------------------
(***************************************************************************)
(* Proofs about OutboxCommit, for any number of transactions.              *)
(*                                                                         *)
(* The argument: two transactions under one lock are never both between    *)
(* their first statement and their end.  So whoever is given an id while   *)
(* holding the lock finds every earlier holder committed or rolled back,   *)
(* with a smaller id, and nobody commits in between.                       *)
(***************************************************************************)
EXTENDS OutboxCommit, TLAPS

\* Two transactions that lock the same thing do not hold it together.
MutualExclusion ==
  \A s, t \in Tx : Lock(s) = Lock(t) /\ Holds(s) /\ Holds(t) => s = t

\* An id given out is behind the sequence.
IdsGiven == \A t \in Tx : stage[t] \in {"inserted", "committed"} => id[t] < nextId

\* Who holds the lock was given its id after everybody who held it before.
HolderIsLast ==
  \A s, t \in Tx :
    Lock(s) = Lock(t) /\ stage[s] = "committed" /\ stage[t] = "inserted" => id[s] < id[t]

CommitsCommitted == \A i \in DOMAIN commits : stage[commits[i]] = "committed"

LockOrder ==
  \A i, j \in DOMAIN commits :
    i < j /\ Lock(commits[i]) = Lock(commits[j]) => id[commits[i]] < id[commits[j]]

IInv ==
  /\ TypeOK
  /\ MutualExclusion
  /\ IdsGiven
  /\ HolderIsLast
  /\ CommitsCommitted
  /\ LockOrder

LEMMA InitIInv == Init => IInv
  BY DEF Init, IInv, TypeOK, MutualExclusion, Holds, IdsGiven, HolderIsLast,
         CommitsCommitted, LockOrder

\* A step that commits nothing and gives no id keeps the order.
LEMMA AcquireIInv ==
  ASSUME IInv, NEW t \in Tx, Acquire(t)
  PROVE  IInv'
<1> USE DEF IInv, Acquire
<1>1. TypeOK'
  BY DEF TypeOK
<1>2. MutualExclusion'
  BY DEF MutualExclusion, Holds, TypeOK, Lock
<1>3. IdsGiven' /\ HolderIsLast'
  BY DEF IdsGiven, HolderIsLast, TypeOK, Lock
<1>4. \A i \in DOMAIN commits : commits[i] \in Tx /\ commits[i] # t
  BY DEF CommitsCommitted, TypeOK
<1>5. CommitsCommitted' /\ LockOrder'
  BY <1>4 DEF CommitsCommitted, LockOrder, TypeOK, Lock
<1> QED BY <1>1, <1>2, <1>3, <1>5

LEMMA RollbackIInv ==
  ASSUME IInv, NEW t \in Tx, Rollback(t)
  PROVE  IInv'
<1> USE DEF IInv, Rollback
<1>1. TypeOK'
  BY DEF TypeOK
<1>2. MutualExclusion'
  BY DEF MutualExclusion, Holds, TypeOK, Lock
<1>3. IdsGiven' /\ HolderIsLast'
  BY DEF IdsGiven, HolderIsLast, TypeOK, Lock
<1>4. \A i \in DOMAIN commits : commits[i] \in Tx /\ commits[i] # t
  BY DEF CommitsCommitted, TypeOK, Holds
<1>5. CommitsCommitted' /\ LockOrder'
  BY <1>4 DEF CommitsCommitted, LockOrder, TypeOK, Lock
<1> QED BY <1>1, <1>2, <1>3, <1>5

LEMMA EmitIInv ==
  ASSUME IInv, NEW t \in Tx, emitFGAIntent(t)
  PROVE  IInv'
<1> USE DEF IInv, emitFGAIntent
<1>1. TypeOK'
  BY DEF TypeOK
<1>2. MutualExclusion'
  BY DEF MutualExclusion, Holds, TypeOK, Lock
<1>3. IdsGiven'
  BY DEF IdsGiven, TypeOK
<1>4. HolderIsLast'
  <2>1. ASSUME NEW s \in Tx, NEW u \in Tx, Lock(s) = Lock(u),
               stage'[s] = "committed", stage'[u] = "inserted"
        PROVE  id'[s] < id'[u]
    <3>1. CASE u = t
      BY <2>1, <3>1 DEF IdsGiven, TypeOK
    <3>2. CASE u # t
      BY <2>1, <3>2 DEF HolderIsLast, TypeOK
    <3> QED BY <3>1, <3>2
  <2> QED BY <2>1 DEF HolderIsLast, Lock
<1>5. \A i \in DOMAIN commits : commits[i] \in Tx /\ commits[i] # t
  BY DEF CommitsCommitted, TypeOK
<1>6. CommitsCommitted' /\ LockOrder'
  BY <1>5 DEF CommitsCommitted, LockOrder, TypeOK, Lock
<1> QED BY <1>1, <1>2, <1>3, <1>4, <1>6

LEMMA CommitIInv ==
  ASSUME IInv, NEW t \in Tx, Commit(t)
  PROVE  IInv'
<1> USE DEF IInv
<1>1. /\ stage' = [stage EXCEPT ![t] = "committed"]
      /\ id' = id /\ nextId' = nextId /\ stage[t] = "inserted"
  BY DEF Commit
<1>2. /\ commits' \in Seq(Tx)
      /\ DOMAIN commits' = DOMAIN commits \union {Len(commits) + 1}
      /\ DOMAIN commits = 1 .. Len(commits) /\ Len(commits) \in Nat
      /\ commits'[Len(commits) + 1] = t
      /\ \A i \in DOMAIN commits : commits'[i] = commits[i] /\ commits[i] \in Tx
  BY DEF Commit, TypeOK
<1>3. TypeOK'
  BY <1>1, <1>2 DEF TypeOK
<1>4. MutualExclusion'
  BY <1>1 DEF MutualExclusion, Holds, TypeOK, Lock
<1>5. IdsGiven'
  BY <1>1 DEF IdsGiven, TypeOK
<1>6. HolderIsLast'
  <2>1. ASSUME NEW s \in Tx, NEW u \in Tx, Lock(s) = Lock(u),
               stage'[s] = "committed", stage'[u] = "inserted"
        PROVE  id'[s] < id'[u]
    <3>1. u # t /\ stage[u] = "inserted"
      BY <1>1, <2>1 DEF TypeOK
    <3>2. s # t
      BY <1>1, <2>1, <3>1 DEF MutualExclusion, Holds
    <3> QED BY <1>1, <2>1, <3>1, <3>2 DEF HolderIsLast, TypeOK
  <2> QED BY <2>1 DEF HolderIsLast, Lock
<1>7. CommitsCommitted'
  BY <1>1, <1>2 DEF CommitsCommitted, TypeOK
<1>8. LockOrder'
  <2>1. ASSUME NEW i \in DOMAIN commits', NEW j \in DOMAIN commits', i < j,
               Lock(commits'[i]) = Lock(commits'[j])
        PROVE  id'[commits'[i]] < id'[commits'[j]]
    <3>1. i \in DOMAIN commits /\ commits'[i] = commits[i] /\ stage[commits[i]] = "committed"
      BY <1>2, <2>1 DEF CommitsCommitted
    <3>2. CASE j \in DOMAIN commits
      BY <1>1, <1>2, <2>1, <3>1, <3>2 DEF LockOrder
    <3>3. CASE j = Len(commits) + 1
      BY <1>1, <1>2, <2>1, <3>1, <3>3 DEF HolderIsLast
    <3> QED BY <1>2, <3>2, <3>3
  <2> QED BY <2>1 DEF LockOrder, Lock
<1> QED BY <1>3, <1>4, <1>5, <1>6, <1>7, <1>8

LEMMA NextIInv == IInv /\ [Next]_vars => IInv'
<1> SUFFICES ASSUME IInv, [Next]_vars PROVE IInv'
  OBVIOUS
<1>1. CASE UNCHANGED vars
  BY <1>1 DEF vars, IInv, TypeOK, MutualExclusion, Holds, IdsGiven, HolderIsLast,
              CommitsCommitted, LockOrder, Lock
<1>2. ASSUME NEW t \in Tx, Acquire(t) \/ emitFGAIntent(t) \/ Commit(t) \/ Rollback(t)
      PROVE  IInv'
  BY <1>2, AcquireIInv, EmitIInv, CommitIInv, RollbackIInv
<1> QED BY <1>1, <1>2 DEF Next

\* For any number of transactions of any class: the locks of registry.go and
\* repository_config.go order ids by commits for everybody who shares a lock.
THEOREM LocksOrderIds == Spec => [](TypeOK /\ LockOrder)
<1>1. IInv => TypeOK /\ LockOrder
  BY DEF IInv
<1> QED BY <1>1, InitIInv, NextIInv, PTL DEF Spec

\* emitFGAIntent: where the transactions about one object lock the same thing,
\* the one that commits later has the larger outbox id.
THEOREM IdsInCommitOrder == ASSUME Disciplined PROVE Spec => []IdsFollowCommits
<1>1. TypeOK /\ LockOrder => IdsFollowCommits
  BY Disciplined DEF Disciplined, TypeOK, LockOrder, IdsFollowCommits
<1> QED BY <1>1, LocksOrderIds, PTL
=============================================================================
