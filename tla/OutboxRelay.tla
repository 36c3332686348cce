---------------------------- MODULE OutboxRelay ----------------------------
(***************************************************************************)
(* From a committed outbox row to the tuples iam holds: the drainer of     *)
(* every replica (cmd/kacho-registry/serve.go; the loop itself is          *)
(* kacho-corelib and external) with the decoder and the applier of         *)
(* internal/clients/iam/register_applier.go, on top of the transactions of *)
(* OutboxCommit.  Every transaction writes one row here.                   *)
(*                                                                         *)
(* A replica claims a pending row with FOR UPDATE SKIP LOCKED, calls iam   *)
(* once per tuple in the row's order, and marks the row sent, or counts an *)
(* attempt; at MaxAttempts a row is skipped for good.  A call may fail     *)
(* before or after iam acted on it.  A replica that dies loses its claim.  *)
(***************************************************************************)
EXTENDS OutboxCommit, FiniteSets

CONSTANTS
  Replica,
  Intent,       \* Intent[t]: what the row of t says
  Nobody,
  MaxAttempts,
  MaxCrashes    \* bound

IntentKind == {"Create", "Update", "Delete", "RepoPush", "RepoGone", "Grant", "Revoke"}
Relation   == {"project", "parent", "owner", "v_get"}

\* by: the principal is known, so a Create or a RepoPush names an owner.
ASSUME RelayAssumption ==
  /\ Intent \in [Tx -> [kind : IntentKind, by : BOOLEAN]]
  /\ Nobody \notin Tx
  /\ MaxAttempts \in Nat \ {0} /\ MaxCrashes \in Nat
  /\ \A t \in Tx : Intent[t].kind \in {"Create", "Update", "Delete"} <=> Plan[t].class = "registry"
  /\ \A t \in Tx : Plan[t].class = "registry" <=> Plan[t].repos = {}

VARIABLES
  sent, attempts,   \* columns of the row
  claim, pos,       \* claim[d]: the row of d; pos[d]: the tuple it is about to send
  crashes,
  fga,              \* fga[x]: whose registration of tuple x iam holds (external)
  \* history, read by no guard
  acked,            \* acked[t]: the positions iam confirmed for the row of t
  newest,           \* newest[x]: the largest id iam was called with about x
  overtaken         \* tuples iam was called about with an id older than newest

drain     == <<sent, attempts, claim, pos, crashes>>
iam       == <<fga, acked, newest, overtaken>>
relayVars == <<vars, drain, iam>>

-----------------------------------------------------------------------------
\* A tuple is a relation on an authorization object; the subject follows.
Object(t) == <<Plan[t].reg, Plan[t].repos>>
Tuple     == Relation \X {Object(t) : t \in Tx}

\* FGAProjectTuple, FGARepoParentTuple: the place of the object in the hierarchy.
Place(t) == IF Plan[t].class = "registry" THEN "project" ELSE "parent"

Unregisters(t) == Intent[t].kind \in {"Delete", "RepoGone", "Revoke"}

\* Mutant: the owner is named before the object has its place in the hierarchy.
WithOwnerFirst(t, rel) ==
  IF Intent[t].by THEN <<"owner", rel>> ELSE <<rel>>

\* RegisterIntentForCreate, RegisterIntentForRepoPush: the owner comes second.
WithOwner(t, rel) ==
  IF Intent[t].by THEN <<rel, "owner">> ELSE <<rel>>

Relations ==
  [t \in Tx |->
     CASE Intent[t].kind = "Create"               -> WithOwner(t, "project")
       [] Intent[t].kind \in {"Update", "Delete"} -> <<"project">>
       [] Intent[t].kind = "RepoPush"             -> WithOwner(t, "parent")
       [] Intent[t].kind = "RepoGone"             -> <<"parent">>
       [] Intent[t].kind \in {"Grant", "Revoke"}  -> <<"v_get">>]

\* What a call of iam about the i-th tuple of t bears on: unregistering the
\* place in the hierarchy also drops the owner (iam-side, external).
Affected ==
  [t \in Tx |-> [i \in DOMAIN Relations[t] |->
     {<<Relations[t][i], Object(t)>>} \union
       (IF Unregisters(t) /\ Relations[t][i] # "v_get" THEN {<<"owner", Object(t)>>} ELSE {})]]

\* RegisterResource / UnregisterResource take effect in iam (external).  The
\* request does not carry the source_version of the row.
IamActs(t, i) ==
  LET X == Affected[t][i]
  IN  /\ fga' = [x \in Tuple |-> IF x \in X THEN (IF Unregisters(t) THEN Nobody ELSE t)
                                            ELSE fga[x]]
      /\ newest' = [x \in Tuple |-> IF x \in X /\ newest[x] < id[t] THEN id[t] ELSE newest[x]]
      /\ overtaken' = overtaken \union {x \in X : id[t] < newest[x]}

-----------------------------------------------------------------------------
RelayInit ==
  /\ Init
  /\ sent = [t \in Tx |-> FALSE] /\ attempts = [t \in Tx |-> 0]
  /\ claim = [d \in Replica |-> Nobody] /\ pos = [d \in Replica |-> 1]
  /\ crashes = 0
  /\ fga = [x \in Tuple |-> Nobody]
  /\ acked = [t \in Tx |-> {}]
  /\ newest = [x \in Tuple |-> 0] /\ overtaken = {}

Pending(t) == stage[t] = "committed" /\ ~sent[t] /\ attempts[t] < MaxAttempts

\* The drainer takes a pending row nobody holds.  Rows of one object are not
\* kept together, and after a backoff any row may be the next.  The decoder
\* accepts every row this service writes.
Claim(d, t) ==
  /\ claim[d] = Nobody
  /\ Pending(t) /\ \A e \in Replica : claim[e] # t
  /\ claim' = [claim EXCEPT ![d] = t]
  /\ UNCHANGED <<vars, sent, attempts, pos, crashes, iam>>

InHand(d) == claim[d] # Nobody /\ pos[d] <= Len(Relations[claim[d]])

\* Mutant: AlreadyExists ends the row.
ApplyTupleReturnsEarly(d) ==
  LET t == claim[d]
  IN  /\ InHand(d)
      /\ IamActs(t, pos[d])
      /\ acked' = [acked EXCEPT ![t] = @ \union {pos[d]}]
      /\ pos' = [pos EXCEPT ![d] = IF ~Unregisters(t) /\ fga[<<Relations[t][@], Object(t)>>] # Nobody
                                     THEN Len(Relations[t]) + 1 ELSE @ + 1]
      /\ UNCHANGED <<vars, sent, attempts, claim, crashes>>

\* The call is answered with OK, or with AlreadyExists for a tuple that is
\* there: either way the applier goes on to the next tuple.
ApplyTuple(d) ==
  LET t == claim[d]
  IN  /\ InHand(d)
      /\ IamActs(t, pos[d])
      /\ acked' = [acked EXCEPT ![t] = @ \union {pos[d]}]
      /\ pos' = [pos EXCEPT ![d] = @ + 1]
      /\ UNCHANGED <<vars, sent, attempts, claim, crashes>>

\* The transaction that held the row is over.
Release(d) ==
  /\ claim' = [claim EXCEPT ![d] = Nobody]
  /\ pos' = [pos EXCEPT ![d] = 1]

GiveUp(d, n) ==
  /\ attempts' = [attempts EXCEPT ![claim[d]] = n]
  /\ Release(d)
  /\ UNCHANGED <<vars, sent, crashes, acked>>

\* Mutant: a transient failure does not use up an attempt.
FailTransientUncounted(d) ==
  /\ InHand(d)
  /\ GiveUp(d, attempts[claim[d]])
  /\ \/ IamActs(claim[d], pos[d])
     \/ UNCHANGED <<fga, newest, overtaken>>

\* Any other error is transient: the rest of the row is left to a later attempt.
\* iam may have acted on the call whose answer was lost.
FailTransient(d) ==
  /\ InHand(d)
  /\ GiveUp(d, attempts[claim[d]] + 1)
  /\ \/ IamActs(claim[d], pos[d])
     \/ UNCHANGED <<fga, newest, overtaken>>

\* InvalidArgument: ErrPermanent, the row is poisoned.
FailPermanent(d) ==
  /\ InHand(d)
  /\ GiveUp(d, MaxAttempts)
  /\ UNCHANGED <<fga, newest, overtaken>>

\* nil, or ErrAlreadyApplied when iam had every tuple: sent_at is set.
MarkSent(d) ==
  /\ claim[d] # Nobody /\ ~InHand(d)
  /\ sent' = [sent EXCEPT ![claim[d]] = TRUE]
  /\ Release(d)
  /\ UNCHANGED <<vars, attempts, crashes, iam>>

\* The replica dies: its transaction and its row lock are gone, what iam did is not.
Crash(d) ==
  /\ claim[d] # Nobody /\ crashes < MaxCrashes
  /\ Release(d)
  /\ crashes' = crashes + 1
  /\ UNCHANGED <<vars, sent, attempts, iam>>

Settle(d) == ApplyTuple(d) \/ FailTransient(d) \/ FailPermanent(d) \/ MarkSent(d)

RelayNext ==
  \/ Next /\ UNCHANGED <<drain, iam>>
  \/ \E d \in Replica : Crash(d) \/ Settle(d) \/ \E t \in Tx : Claim(d, t)

RelaySpec == RelayInit /\ [][RelayNext]_relayVars

\* The drainers run as long as the process: a claimed row is worked on, and a
\* pending row is claimed by one that is free.
FairRelay ==
  /\ RelaySpec
  /\ \A d \in Replica : WF_relayVars(Settle(d)) /\ WF_relayVars(\E t \in Tx : Claim(d, t))

-----------------------------------------------------------------------------
RelayTypeOK ==
  /\ TypeOK
  /\ sent \in [Tx -> BOOLEAN]
  /\ attempts \in [Tx -> 0 .. MaxAttempts]
  /\ claim \in [Replica -> Tx \union {Nobody}]
  /\ pos \in [Replica -> 1 .. 3]
  /\ crashes \in 0 .. MaxCrashes
  /\ fga \in [Tuple -> Tx \union {Nobody}]
  /\ acked \in [Tx -> SUBSET (1 .. 2)]
  /\ newest \in [Tuple -> Nat]
  /\ overtaken \subseteq Tuple

\* NewRegisterApplier ("the owner-tuple is not lost"): a row marked sent had every
\* tuple confirmed, whatever failures, lost answers and deaths split its attempts.
SentMeansApplied ==
  \A t \in Tx : sent[t] => acked[t] = DOMAIN Relations[t]

\* RegisterIntent.Tuples ("project-tuple first"): iam never holds an owner of an
\* object that has no place in the hierarchy, at no point of any attempt, unless
\* an older row was sent after a newer one.
OwnerHasPlace ==
  \A t \in Tx :
    /\ fga[<<"owner", Object(t)>>] # Nobody
    /\ {<<"owner", Object(t)>>, <<Place(t), Object(t)>>} \intersect overtaken = {}
    => fga[<<Place(t), Object(t)>>] # Nobody

\* The tuples the row of t is about, and whether it is the last one about x.
Touches == [t \in Tx |-> UNION {Affected[t][i] : i \in DOMAIN Relations[t]}]
LastAbout(n, x) == \A m \in n + 1 .. Len(commits) : x \notin Touches[commits[m]]

\* emitFGAIntent, emitRepoIntent and the drainer together: once every row about a
\* tuple is sent, iam holds what the row committed last says, unless a replica
\* called iam with an older row after a newer one.
LastCommitWins ==
  \A n \in DOMAIN commits : \A x \in Touches[commits[n]] :
    /\ x \notin overtaken
    /\ LastAbout(n, x)
    /\ \A m \in 1 .. n : x \in Touches[commits[m]] => sent[commits[m]]
    => fga[x] = IF Unregisters(commits[n]) THEN Nobody ELSE commits[n]

\* serve.go ("iam unavailable: the intent is durable and retried"): every committed
\* row is in the end applied in full or out of attempts, also when its replica dies.
RowsSettle ==
  \A t \in Tx : stage[t] = "committed" ~> sent[t] \/ attempts[t] = MaxAttempts
=============================================================================
