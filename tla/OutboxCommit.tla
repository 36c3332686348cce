---------------------------- MODULE OutboxCommit ----------------------------
(***************************************************************************)
(* Why the id of an outbox row is also its commit order, and when it is    *)
(* not (internal/repo/kacho/pg/registry.go, repository_config.go).         *)
(*                                                                         *)
(* registry_outbox.id is a BIGSERIAL: it is allocated when the row is      *)
(* INSERTed, and the row is seen by the drainer when its transaction       *)
(* commits.  Two transactions about one object agree in both orders only   *)
(* if one waits for the other, and a transaction waits for what it locks:  *)
(*                                                                         *)
(*   "registry"  Insert, Update, Delete: the row of the registry;          *)
(*   "overlay"   runConfigTx: the row of the registry, FOR UPDATE;         *)
(*   "repo"      emitRepoIntent: pg_advisory_xact_lock of the repository.  *)
(*                                                                         *)
(* One action is one statement of a transaction.  A lock is held to the    *)
(* end of the transaction; hash collisions of the advisory lock, which     *)
(* only make more transactions wait, are left out.                         *)
(***************************************************************************)
EXTENDS Naturals, Sequences

CONSTANTS
  Tx,       \* the transactions that run
  RegId,    \* registries
  RepoName, \* repositories of a registry
  Plan      \* Plan[t]: what transaction t is

\* The authorization objects t writes intents about: its registry (repos = {}),
\* or repositories of it (two of them for a rename).
TxPlan ==
  [class : {"registry", "overlay", "repo"}, reg : RegId, repos : SUBSET RepoName]

ASSUME PlanAssumption == Plan \in [Tx -> TxPlan]

VARIABLES
  stage,    \* stage[t]: how far transaction t is
  id,       \* id[t]: the outbox id t was given
  nextId,   \* the sequence behind registry_outbox.id
  commits   \* the committed transactions, in commit order

vars == <<stage, id, nextId, commits>>

TypeOK ==
  /\ stage \in [Tx -> {"begun", "locked", "inserted", "committed", "rolledBack"}]
  /\ id \in [Tx -> Nat]
  /\ nextId \in Nat
  /\ commits \in Seq(Tx)

Init ==
  /\ stage = [t \in Tx |-> "begun"]
  /\ id = [t \in Tx |-> 0]
  /\ nextId = 1
  /\ commits = <<>>

-----------------------------------------------------------------------------
\* Mutant: emitRepoIntent takes no lock that another one waits for.
LockNoAdvisory(t) ==
  IF Plan[t].class = "repo" THEN <<"none", t, {}>> ELSE <<"row", Plan[t].reg, {}>>

Lock(t) ==
  IF Plan[t].class = "repo"
    THEN <<"advisory", Plan[t].reg, Plan[t].repos>>
    ELSE <<"row", Plan[t].reg, {}>>

Holds(t) == stage[t] \in {"locked", "inserted"}

\* INSERT/UPDATE/DELETE of the registry row, SELECT ... FOR UPDATE of it, or
\* pg_advisory_xact_lock.
Acquire(t) ==
  /\ stage[t] = "begun"
  /\ \A s \in Tx \ {t} : Lock(s) = Lock(t) => ~Holds(s)
  /\ stage' = [stage EXCEPT ![t] = "locked"]
  /\ UNCHANGED <<id, nextId, commits>>

\* emitFGAIntent.  A sequence is not transactional.
emitFGAIntent(t) ==
  /\ stage[t] = "locked"
  /\ stage' = [stage EXCEPT ![t] = "inserted"]
  /\ id' = [id EXCEPT ![t] = nextId]
  /\ nextId' = nextId + 1
  /\ UNCHANGED commits

Commit(t) ==
  /\ stage[t] = "inserted"
  /\ stage' = [stage EXCEPT ![t] = "committed"]
  /\ commits' = Append(commits, t)
  /\ UNCHANGED <<id, nextId>>

\* Mutant: a transaction that gave up could be taken for one not yet begun.
RollbackMisspelt(t) ==
  /\ Holds(t)
  /\ stage' = [stage EXCEPT ![t] = "idle"]
  /\ UNCHANGED <<id, nextId, commits>>

\* A failed statement, an expired context or a lost connection.
Rollback(t) ==
  /\ Holds(t)
  /\ stage' = [stage EXCEPT ![t] = "rolledBack"]
  /\ UNCHANGED <<id, nextId, commits>>

Next == \E t \in Tx : Acquire(t) \/ emitFGAIntent(t) \/ Commit(t) \/ Rollback(t)

Spec == Init /\ [][Next]_vars

-----------------------------------------------------------------------------
SameObject(s, t) ==
  /\ Plan[s].reg = Plan[t].reg
  /\ Plan[s].repos \intersect Plan[t].repos # {} \/ Plan[s].repos = Plan[t].repos

\* "The worker that committed later got the larger id" (emitFGAIntent): for
\* one object, ids grow in commit order, so that the last committed state wins.
IdsFollowCommits ==
  \A i, j \in DOMAIN commits :
    i < j /\ SameObject(commits[i], commits[j]) => id[commits[i]] < id[commits[j]]

\* Transactions about one object lock the same thing.
Disciplined == \A s, t \in Tx : SameObject(s, t) => Lock(s) = Lock(t)
=============================================================================
