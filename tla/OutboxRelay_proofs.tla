------------------------- MODULE OutboxRelay_proofs -------------------------
(***************************************************************************)
(* Proofs about OutboxRelay, for any number of transactions and replicas.  *)
(*                                                                         *)
(* The argument: for every tuple, newest is the id of a committed row that *)
(* iam was called with, and unless the tuple was overtaken iam holds what  *)
(* that row says.  A row marked sent was confirmed tuple by tuple, so      *)
(* newest is not below its id; where ids follow commits, newest is then    *)
(* the id of the last commit.                                              *)
(***************************************************************************)
EXTENDS OutboxRelay, OutboxCommit_proofs

Given(t) == stage[t] \in {"inserted", "committed"}

\* emitFGAIntent: ids are positive and differ; a commit is in the history.
WritersApart ==
  /\ nextId > 0
  /\ \A t \in Tx : Given(t) => id[t] > 0
  /\ \A s, t \in Tx : Given(s) /\ Given(t) /\ id[s] = id[t] => s = t
  /\ \A t \in Tx : stage[t] = "committed" => \E n \in DOMAIN commits : commits[n] = t

\* FOR UPDATE SKIP LOCKED: a claimed row is committed, has attempts left,
\* and is claimed by one replica.
ClaimsHeld ==
  /\ \A t \in Tx : acked[t] # {} => stage[t] = "committed"
  /\ \A d \in Replica : claim[d] # Nobody =>
       stage[claim[d]] = "committed" /\ attempts[claim[d]] < MaxAttempts
  /\ \A d, e \in Replica : claim[d] = claim[e] /\ claim[d] # Nobody => d = e

\* The applier: the tuples before pos are confirmed.
Confirmed ==
  /\ \A t \in Tx : acked[t] \subseteq DOMAIN Relations[t]
  /\ \A d \in Replica : claim[d] = Nobody => pos[d] = 1
  /\ \A d \in Replica : claim[d] # Nobody =>
       /\ pos[d] <= Len(Relations[claim[d]]) + 1
       /\ \A i \in 1 .. 2 : i < pos[d] => i \in acked[claim[d]]

AckedIsKnown ==
  \A t \in Tx : \A i \in acked[t] : \A x \in Affected[t][i] : id[t] <= newest[x]

Effect(t) == IF Unregisters(t) THEN Nobody ELSE t

\* The row behind newest[x].
Actor(x, t) ==
  /\ stage[t] = "committed" /\ x \in Touches[t]
  /\ newest[x] = id[t]
  /\ x \notin overtaken => fga[x] = Effect(t)

NewestActs ==
  \A x \in Tuple : (newest[x] = 0 /\ fga[x] = Nobody) \/ \E t \in Tx : Actor(x, t)

PlaceOf(t) == <<Place(t), Object(t)>>
OwnerOf(t) == <<"owner", Object(t)>>

\* iam drops the owner with the place; the applier names the owner after it.
PlaceAndOwner ==
  \A t \in Tx : stage[t] = "committed" =>
    /\ Unregisters(t) /\ newest[PlaceOf(t)] = id[t] => id[t] <= newest[OwnerOf(t)]
    /\ ~Unregisters(t) /\ newest[OwnerOf(t)] = id[t] => id[t] <= newest[PlaceOf(t)]

RInv ==
  /\ IInv /\ WritersApart /\ RelayTypeOK
  /\ ClaimsHeld /\ Confirmed /\ SentMeansApplied
  /\ AckedIsKnown /\ NewestActs /\ PlaceAndOwner

-----------------------------------------------------------------------------
\* What the lists of fga_intent.go have in common.
LEMMA RelationFacts ==
  ASSUME NEW t \in Tx
  PROVE  /\ Relations[t] \in Seq(Relation)
         /\ Len(Relations[t]) \in {1, 2}
         /\ DOMAIN Relations[t] = 1 .. Len(Relations[t])
         /\ Relations[t][1] \in {Place(t), "v_get"}
         /\ Len(Relations[t]) = 2 => /\ Relations[t][1] = Place(t) /\ Relations[t][2] = "owner"
                                     /\ ~Unregisters(t)
<1> DEFINE k == Intent[t].kind
<1>1. k \in IntentKind /\ Intent[t].by \in BOOLEAN /\ Place(t) \in Relation
  BY RelayAssumption DEF Place, Relation
<1>2. CASE k = "Create"
  <2>1. Relations[t] = WithOwner(t, "project")
    BY <1>2 DEF Relations
  <2>2. Place(t) = "project" /\ ~Unregisters(t)
    BY <1>2, RelayAssumption DEF Place, Unregisters
  <2>3. CASE Intent[t].by
    <3>1. Relations[t] = <<"project", "owner">>
      BY <2>1, <2>3 DEF WithOwner
    <3> QED  BY <2>2, <3>1 DEF Relation
  <2>4. CASE ~Intent[t].by
    <3>1. Relations[t] = <<"project">>
      BY <2>1, <2>4 DEF WithOwner
    <3> QED  BY <2>2, <3>1 DEF Relation
  <2> QED  BY <2>3, <2>4
<1>3. CASE k \in {"Update", "Delete"}
  <2>1. Relations[t] = <<"project">>
    BY <1>3 DEF Relations
  <2>2. Place(t) = "project"
    BY <1>3, RelayAssumption DEF Place
  <2> QED  BY <1>1, <2>1, <2>2 DEF Relation
<1>4. CASE k = "RepoPush"
  <2>1. Relations[t] = WithOwner(t, "parent")
    BY <1>4 DEF Relations
  <2>2. Place(t) = "parent" /\ ~Unregisters(t)
    BY <1>4, RelayAssumption DEF Place, Unregisters
  <2>3. CASE Intent[t].by
    <3>1. Relations[t] = <<"parent", "owner">>
      BY <2>1, <2>3 DEF WithOwner
    <3> QED  BY <2>2, <3>1 DEF Relation
  <2>4. CASE ~Intent[t].by
    <3>1. Relations[t] = <<"parent">>
      BY <2>1, <2>4 DEF WithOwner
    <3> QED  BY <2>2, <3>1 DEF Relation
  <2> QED  BY <2>3, <2>4
<1>5. CASE k = "RepoGone"
  <2>1. Relations[t] = <<"parent">>
    BY <1>5 DEF Relations
  <2>2. Place(t) = "parent"
    BY <1>5, RelayAssumption DEF Place
  <2> QED  BY <1>1, <2>1, <2>2 DEF Relation
<1>6. CASE k \in {"Grant", "Revoke"}
  <2>1. Relations[t] = <<"v_get">>
    BY <1>6 DEF Relations
  <2> QED  BY <1>1, <2>1 DEF Relation
<1> QED  BY <1>1, <1>2, <1>3, <1>4, <1>5, <1>6 DEF IntentKind

\* The tuples a call bears on.
LEMMA AffectedFacts ==
  ASSUME NEW t \in Tx, NEW i \in DOMAIN Relations[t]
  PROVE  /\ Affected[t][i] \subseteq Tuple /\ Affected[t][i] \subseteq Touches[t]
         /\ \A x \in Affected[t][i] : x[2] = Object(t)
         /\ Unregisters(t) /\ PlaceOf(t) \in Affected[t][i] => OwnerOf(t) \in Affected[t][i]
         /\ ~Unregisters(t) /\ OwnerOf(t) \in Affected[t][i] =>
              i = 2 /\ 1 \in DOMAIN Relations[t] /\ PlaceOf(t) \in Affected[t][1]
         /\ \A x \in Affected[t][i] : x[1] \in {Place(t), "v_get", "owner"}
<1>1. Affected[t][i] =
        {<<Relations[t][i], Object(t)>>} \union
          (IF Unregisters(t) /\ Relations[t][i] # "v_get" THEN {OwnerOf(t)} ELSE {})
  BY DEF Affected, OwnerOf
<1>2. Affected[t][i] \subseteq Touches[t]
  BY DEF Touches
<1>3. i \in 1 .. 2 /\ Relations[t][i] \in Relation /\ "owner" \in Relation
  BY RelationFacts DEF Relation
<1>4. Affected[t][i] \subseteq Tuple
  BY <1>1, <1>3 DEF Tuple, OwnerOf
<1>5. Place(t) \notin {"owner", "v_get"}
  BY DEF Place
<1>6. \A x \in Affected[t][i] : x[2] = Object(t)
  BY <1>1 DEF OwnerOf
<1>7. Unregisters(t) /\ PlaceOf(t) \in Affected[t][i] => OwnerOf(t) \in Affected[t][i]
  BY <1>1, <1>5 DEF OwnerOf, PlaceOf
<1>8. ASSUME ~Unregisters(t), OwnerOf(t) \in Affected[t][i]
      PROVE  i = 2 /\ 1 \in DOMAIN Relations[t] /\ PlaceOf(t) \in Affected[t][1]
  <2>1. Relations[t][i] = "owner"
    BY <1>1, <1>8 DEF OwnerOf
  <2>2. i = 2 /\ Len(Relations[t]) = 2
    BY <1>3, <1>5, <2>1, RelationFacts
  <2>3. 1 \in DOMAIN Relations[t] /\ Relations[t][1] = Place(t)
    BY <2>2, RelationFacts
  <2>4. <<Relations[t][1], Object(t)>> \in Affected[t][1]
    BY <2>3 DEF Affected
  <2> QED  BY <2>2, <2>3, <2>4 DEF PlaceOf
<1>9. \A x \in Affected[t][i] : x[1] \in {Place(t), "v_get", "owner"}
  BY <1>1, <1>3, RelationFacts DEF OwnerOf
<1> QED  BY <1>2, <1>4, <1>6, <1>7, <1>8, <1>9

LEMMA TouchesFacts ==
  ASSUME NEW t \in Tx, NEW x \in Touches[t]
  PROVE  /\ \E i \in DOMAIN Relations[t] : x \in Affected[t][i]
         /\ x \in Tuple /\ x[2] = Object(t) /\ x[1] \in {Place(t), "v_get", "owner"}
<1>1. PICK i \in DOMAIN Relations[t] : x \in Affected[t][i]
  BY DEF Touches
<1> QED  BY <1>1, AffectedFacts

LEMMA OwnTuples == ASSUME NEW t \in Tx PROVE PlaceOf(t) \in Tuple /\ OwnerOf(t) \in Tuple
  BY DEF PlaceOf, OwnerOf, Tuple, Place, Relation

-----------------------------------------------------------------------------
LEMMA InitRInv == RelayInit => RInv
<1> SUFFICES ASSUME RelayInit PROVE RInv
  OBVIOUS
<1>1. IInv
  BY InitIInv DEF RelayInit
<1>2. WritersApart
  BY DEF RelayInit, Init, WritersApart, Given
<1>3. RelayTypeOK
  BY <1>1, RelayAssumption DEF RelayInit, RelayTypeOK, IInv
<1>4. ClaimsHeld /\ Confirmed
  <2>1. \A t \in Tx : acked[t] = {}
    BY DEF RelayInit
  <2>2. \A d \in Replica : claim[d] = Nobody /\ pos[d] = 1
    BY DEF RelayInit
  <2> QED  BY <2>1, <2>2 DEF ClaimsHeld, Confirmed
<1>5. SentMeansApplied /\ AckedIsKnown
  BY DEF RelayInit, SentMeansApplied, AckedIsKnown
<1>6. NewestActs
  BY DEF RelayInit, NewestActs
<1>7. PlaceAndOwner
  BY DEF RelayInit, Init, PlaceAndOwner
<1> QED  BY <1>1, <1>2, <1>3, <1>4, <1>5, <1>6, <1>7 DEF RInv

\* A writer's step: a committed row is not touched again.
LEMMA WriterStep ==
  ASSUME TypeOK, WritersApart, IdsGiven, Next
  PROVE  /\ WritersApart'
         /\ \A t \in Tx : stage[t] = "committed" => stage'[t] = "committed" /\ id'[t] = id[t]
<1>1. ASSUME NEW t \in Tx, Acquire(t) \/ Rollback(t)
      PROVE  /\ WritersApart'
             /\ \A u \in Tx : stage[u] = "committed" => stage'[u] = "committed" /\ id'[u] = id[u]
  BY <1>1 DEF Acquire, Rollback, Holds, WritersApart, Given, TypeOK
<1>2. ASSUME NEW t \in Tx, emitFGAIntent(t)
      PROVE  /\ WritersApart'
             /\ \A u \in Tx : stage[u] = "committed" => stage'[u] = "committed" /\ id'[u] = id[u]
  BY <1>2 DEF emitFGAIntent, WritersApart, Given, TypeOK, IdsGiven
<1>3. ASSUME NEW t \in Tx, Commit(t)
      PROVE  /\ WritersApart'
             /\ \A u \in Tx : stage[u] = "committed" => stage'[u] = "committed" /\ id'[u] = id[u]
  <2>1. /\ stage' = [stage EXCEPT ![t] = "committed"] /\ stage[t] = "inserted"
        /\ id' = id /\ nextId' = nextId
    BY <1>3 DEF Commit
  <2>2. /\ DOMAIN commits \subseteq DOMAIN commits'
        /\ Len(commits) + 1 \in DOMAIN commits' /\ commits'[Len(commits) + 1] = t
        /\ \A n \in DOMAIN commits : commits'[n] = commits[n]
    BY <1>3 DEF Commit, TypeOK
  <2>3. \A u \in Tx : Given(u)' <=> Given(u)
    BY <2>1 DEF Given, TypeOK
  <2>4. \A u \in Tx : stage'[u] = "committed" => u = t \/ stage[u] = "committed"
    BY <2>1 DEF TypeOK
  <2>5. \A u \in Tx : stage'[u] = "committed" => \E n \in DOMAIN commits' : commits'[n] = u
    BY <2>2, <2>4 DEF WritersApart
  <2>6. WritersApart'
    BY <2>1, <2>3, <2>5 DEF WritersApart
  <2> QED  BY <2>1, <2>6 DEF TypeOK
<1> QED  BY <1>1, <1>2, <1>3 DEF Next

\* The drainer sees committed rows only, so that writers do not disturb it.
LEMMA WriterRInv ==
  ASSUME RInv, Next, UNCHANGED <<drain, iam>>
  PROVE  RInv'
<1> USE DEF RInv, drain, iam
<1>1. IInv'
  BY NextIInv
<1>2. /\ WritersApart'
      /\ \A t \in Tx : stage[t] = "committed" => stage'[t] = "committed" /\ id'[t] = id[t]
  BY WriterStep DEF IInv
<1>3. RelayTypeOK'
  BY <1>1 DEF RelayTypeOK, IInv
<1>4. ClaimsHeld' /\ Confirmed' /\ SentMeansApplied'
  BY <1>2 DEF ClaimsHeld, Confirmed, SentMeansApplied, RelayTypeOK
<1>5. AckedIsKnown'
  BY <1>2 DEF AckedIsKnown, ClaimsHeld
<1>6. NewestActs'
  BY <1>2 DEF NewestActs, Actor, Effect, Unregisters
<1>7. PlaceAndOwner'
  <2>1. ASSUME NEW t \in Tx, NEW x \in Tuple, stage'[t] = "committed", newest[x] = id'[t]
        PROVE  stage[t] = "committed" /\ id'[t] = id[t]
    <3>1. id'[t] > 0
      BY <1>2, <2>1 DEF WritersApart, Given
    <3>2. PICK u \in Tx : Actor(x, u)
      BY <2>1, <3>1 DEF NewestActs
    <3>3. u = t
      BY <1>2, <2>1, <3>2 DEF WritersApart, Given, Actor
    <3> QED  BY <1>2, <3>2, <3>3 DEF Actor
  <2>2. \A t \in Tx : PlaceOf(t) \in Tuple /\ OwnerOf(t) \in Tuple
    BY OwnTuples
  <2> QED  BY <2>1, <2>2 DEF PlaceAndOwner, PlaceOf, OwnerOf, Place, Object, Unregisters
<1> QED  BY <1>1, <1>2, <1>3, <1>4, <1>5, <1>6, <1>7

-----------------------------------------------------------------------------
\* What iam knows, after a call with the i-th tuple of a committed row whose
\* earlier tuples are confirmed.
LEMMA IamStep ==
  ASSUME RInv, UNCHANGED vars,
         NEW t \in Tx, stage[t] = "committed", NEW i \in DOMAIN Relations[t],
         i = 2 => 1 \in acked[t],
         IamActs(t, i)
  PROVE  /\ fga' \in [Tuple -> Tx \union {Nobody}] /\ newest' \in [Tuple -> Nat]
         /\ overtaken' \subseteq Tuple
         /\ \A x \in Tuple : newest[x] <= newest'[x]
         /\ \A x \in Affected[t][i] : id[t] <= newest'[x]
         /\ NewestActs' /\ PlaceAndOwner'
<1> USE DEF RInv
<1>1. /\ stage' = stage /\ id' = id
      /\ \A x \in Tuple : newest[x] \in Nat
      /\ \A u \in Tx : id[u] \in Nat
  BY DEF vars, RelayTypeOK, IInv, TypeOK
<1>2. Affected[t][i] \subseteq Tuple /\ Affected[t][i] \subseteq Touches[t]
  BY AffectedFacts
<1>3. /\ fga' \in [Tuple -> Tx \union {Nobody}] /\ newest' \in [Tuple -> Nat]
      /\ overtaken' \subseteq Tuple
  BY <1>1, <1>2 DEF IamActs, RelayTypeOK
<1>4. \A x \in Tuple : /\ x \in Affected[t][i] =>
                            /\ newest'[x] = IF newest[x] < id[t] THEN id[t] ELSE newest[x]
                            /\ fga'[x] = Effect(t)
                       /\ x \notin Affected[t][i] => newest'[x] = newest[x] /\ fga'[x] = fga[x]
  BY DEF IamActs, Effect
<1>5. /\ overtaken \subseteq overtaken'
      /\ \A x \in Affected[t][i] : id[t] < newest[x] => x \in overtaken'
  BY DEF IamActs
<1>6. /\ \A x \in Tuple : newest[x] <= newest'[x]
      /\ \A x \in Affected[t][i] : id[t] <= newest'[x]
  BY <1>1, <1>2, <1>4
<1>7. NewestActs'
  <2> SUFFICES ASSUME NEW x \in Tuple
               PROVE  (newest'[x] = 0 /\ fga'[x] = Nobody) \/ \E u \in Tx : Actor(x, u)'
    BY DEF NewestActs
  <2>1. CASE x \notin Affected[t][i]
    <3>1. ASSUME NEW u \in Tx, Actor(x, u)  PROVE Actor(x, u)'
      BY <1>1, <1>4, <1>5, <2>1, <3>1 DEF Actor, Effect, Unregisters
    <3> QED  BY <1>4, <2>1, <3>1 DEF NewestActs
  <2>2. CASE x \in Affected[t][i] /\ newest[x] <= id[t]
    <3>1. newest'[x] = id[t] /\ fga'[x] = Effect(t)
      BY <1>1, <1>4, <2>2
    <3>2. Actor(x, t)'
      BY <1>1, <1>2, <2>2, <3>1 DEF Actor, Effect, Unregisters
    <3> QED  BY <3>2
  <2>3. CASE x \in Affected[t][i] /\ id[t] < newest[x]
    <3>1. newest'[x] = newest[x] /\ x \in overtaken'
      BY <1>1, <1>4, <1>5, <2>3
    <3>2. newest[x] # 0
      BY <1>1, <2>3
    <3>3. PICK u \in Tx : Actor(x, u)
      BY <3>2 DEF NewestActs
    <3>4. Actor(x, u)'
      BY <1>1, <3>1, <3>3 DEF Actor
    <3> QED  BY <3>4
  <2> QED  BY <1>1, <2>1, <2>2, <2>3
<1>8. ASSUME NEW u \in Tx, stage[u] = "committed", NEW x \in Tuple,
             newest'[x] = id[u], newest[x] # id[u]
      PROVE  u = t /\ x \in Affected[t][i]
  BY <1>1, <1>4, <1>8 DEF WritersApart, Given
<1>9. PlaceAndOwner'
  <2> SUFFICES ASSUME NEW u \in Tx, stage[u] = "committed"
               PROVE  /\ Unregisters(u) /\ newest'[PlaceOf(u)] = id[u] => id[u] <= newest'[OwnerOf(u)]
                      /\ ~Unregisters(u) /\ newest'[OwnerOf(u)] = id[u] => id[u] <= newest'[PlaceOf(u)]
    BY <1>1 DEF PlaceAndOwner, PlaceOf, OwnerOf, Place, Object, Unregisters
  <2>1. PlaceOf(u) \in Tuple /\ OwnerOf(u) \in Tuple
    BY OwnTuples
  <2>2. ASSUME Unregisters(u), newest'[PlaceOf(u)] = id[u]  PROVE id[u] <= newest'[OwnerOf(u)]
    <3>1. CASE newest[PlaceOf(u)] = id[u]
      <4>1. id[u] <= newest[OwnerOf(u)]
        BY <2>2, <3>1 DEF PlaceAndOwner
      <4> QED  BY <1>1, <1>3, <1>6, <2>1, <4>1
    <3>2. CASE newest[PlaceOf(u)] # id[u]
      <4>1. u = t /\ OwnerOf(u) \in Affected[t][i]
        BY <1>8, <2>1, <2>2, <3>2, AffectedFacts
      <4> QED  BY <1>6, <4>1
    <3> QED  BY <3>1, <3>2
  <2>3. ASSUME ~Unregisters(u), newest'[OwnerOf(u)] = id[u]  PROVE id[u] <= newest'[PlaceOf(u)]
    <3>1. CASE newest[OwnerOf(u)] = id[u]
      <4>1. id[u] <= newest[PlaceOf(u)]
        BY <2>3, <3>1 DEF PlaceAndOwner
      <4> QED  BY <1>1, <1>3, <1>6, <2>1, <4>1
    <3>2. CASE newest[OwnerOf(u)] # id[u]
      <4>1. u = t /\ OwnerOf(t) \in Affected[t][i]
        BY <1>8, <2>1, <2>3, <3>2
      <4>2. i = 2 /\ PlaceOf(t) \in Affected[t][1]
        BY <2>3, <4>1, AffectedFacts
      <4>3. id[t] <= newest[PlaceOf(t)]
        BY <4>2 DEF AckedIsKnown
      <4> QED  BY <1>1, <1>3, <1>6, <2>1, <4>1, <4>3
    <3> QED  BY <3>1, <3>2
  <2> QED  BY <2>2, <2>3
<1> QED  BY <1>3, <1>6, <1>7, <1>9

\* A step of a drainer leaves the writers alone.
LEMMA WritersSame ==
  ASSUME RInv, UNCHANGED vars
  PROVE  IInv' /\ WritersApart' /\ TypeOK'
<1>1. IInv'
  BY NextIInv DEF RInv
<1>2. WritersApart'
  BY DEF RInv, WritersApart, Given, vars
<1> QED  BY <1>1, <1>2 DEF IInv

\* Nor does a step that makes no call disturb what is said about iam.
LEMMA IamSame ==
  ASSUME RInv, UNCHANGED <<vars, iam>>
  PROVE  AckedIsKnown' /\ NewestActs' /\ PlaceAndOwner'
<1> USE DEF RInv, vars, iam
<1>1. AckedIsKnown'
  BY DEF AckedIsKnown
<1>2. NewestActs'
  BY DEF NewestActs, Actor, Effect, Unregisters
<1>3. PlaceAndOwner'
  BY DEF PlaceAndOwner, PlaceOf, OwnerOf, Place, Object, Unregisters
<1> QED  BY <1>1, <1>2, <1>3

\* The drainer takes a row, or loses its claim.
LEMMA ClaimRInv ==
  ASSUME RInv, NEW d \in Replica, Crash(d) \/ \E t \in Tx : Claim(d, t)
  PROVE  RInv'
<1>1. UNCHANGED <<vars, iam>> /\ sent' = sent /\ attempts' = attempts
  BY DEF Crash, Claim
<1>2. IInv' /\ WritersApart' /\ TypeOK' /\ AckedIsKnown' /\ NewestActs' /\ PlaceAndOwner'
  BY <1>1, WritersSame, IamSame
<1>3. RelayTypeOK'
  BY <1>1, <1>2, RelayAssumption DEF RInv, RelayTypeOK, Crash, Release, Claim, iam
<1>4. ClaimsHeld'
  BY <1>1, RelayAssumption DEF RInv, ClaimsHeld, RelayTypeOK, Crash, Release, Claim, Pending, vars, iam
<1>5. Confirmed'
  <2>1. ASSUME NEW t \in Tx, Claim(d, t)  PROVE Confirmed'
    <3>1. pos[d] = 1 /\ claim' = [claim EXCEPT ![d] = t] /\ pos' = pos /\ acked' = acked
      BY <2>1 DEF Claim, RInv, Confirmed, iam
    <3>2. Len(Relations[t]) \in {1, 2}
      BY RelationFacts
    <3> QED  BY <3>1, <3>2 DEF RInv, Confirmed, RelayTypeOK
  <2>2. CASE Crash(d)
    BY <1>1, <2>2 DEF RInv, Confirmed, RelayTypeOK, Crash, Release, iam
  <2> QED  BY <2>1, <2>2
<1>6. SentMeansApplied'
  BY <1>1 DEF RInv, SentMeansApplied, iam
<1> QED  BY <1>2, <1>3, <1>4, <1>5, <1>6 DEF RInv

\* The row in hand, and the tuple about to be sent.
LEMMA InHandFacts ==
  ASSUME RInv, NEW d \in Replica, InHand(d)
  PROVE  /\ claim[d] \in Tx /\ stage[claim[d]] = "committed"
         /\ pos[d] \in DOMAIN Relations[claim[d]] /\ pos[d] \in 1 .. 2
         /\ pos[d] = 2 => 1 \in acked[claim[d]]
<1>1. claim[d] \in Tx /\ stage[claim[d]] = "committed" /\ pos[d] \in 1 .. 3
  BY DEF RInv, RelayTypeOK, ClaimsHeld, InHand
<1>2. pos[d] \in DOMAIN Relations[claim[d]] /\ pos[d] \in 1 .. 2
  <2>1. PICK l \in {1, 2} : Len(Relations[claim[d]]) = l /\ DOMAIN Relations[claim[d]] = 1 .. l
    BY <1>1, RelationFacts
  <2>2. pos[d] <= l
    BY <2>1 DEF InHand
  <2>3. pos[d] \in 1 .. l /\ pos[d] \in 1 .. 2
    BY <1>1, <2>2
  <2> QED  BY <2>1, <2>3
<1> QED  BY <1>1, <1>2 DEF RInv, Confirmed, InHand

LEMMA ApplyRInv ==
  ASSUME RInv, NEW d \in Replica, ApplyTuple(d)
  PROVE  RInv'
<1> DEFINE t == claim[d]
<1> DEFINE i == pos[d]
<1>1. /\ InHand(d) /\ IamActs(t, i) /\ UNCHANGED vars
      /\ acked' = [acked EXCEPT ![t] = @ \union {i}]
      /\ pos' = [pos EXCEPT ![d] = i + 1]
      /\ sent' = sent /\ attempts' = attempts /\ claim' = claim /\ crashes' = crashes
  BY DEF ApplyTuple
<1>2. /\ t \in Tx /\ stage[t] = "committed" /\ i \in DOMAIN Relations[t] /\ i \in 1 .. 2
      /\ i = 2 => 1 \in acked[t]
  BY <1>1, InHandFacts
<1>3. /\ fga' \in [Tuple -> Tx \union {Nobody}] /\ newest' \in [Tuple -> Nat]
      /\ overtaken' \subseteq Tuple
      /\ \A x \in Tuple : newest[x] <= newest'[x]
      /\ \A x \in Affected[t][i] : id[t] <= newest'[x]
      /\ NewestActs' /\ PlaceAndOwner'
  BY <1>1, <1>2, IamStep
<1>4. IInv' /\ WritersApart' /\ TypeOK'
  BY <1>1, WritersSame
<1> HIDE DEF t, i
<1>5. acked \in [Tx -> SUBSET (1 .. 2)] /\ pos \in [Replica -> 1 .. 3]
  BY DEF RInv, RelayTypeOK
<1>6. RelayTypeOK'
  <2>1. acked' \in [Tx -> SUBSET (1 .. 2)] /\ pos' \in [Replica -> 1 .. 3]
    BY <1>1, <1>2, <1>5
  <2> QED  BY <1>1, <1>3, <1>4, <2>1 DEF RInv, RelayTypeOK
<1>7. ClaimsHeld'
  BY <1>1, <1>2, <1>5 DEF RInv, ClaimsHeld, vars
<1>8. Confirmed'
  <2>1. \A u \in Tx : acked'[u] \subseteq DOMAIN Relations[u]
    BY <1>1, <1>2, <1>5 DEF RInv, Confirmed
  <2>2. claim[d] # Nobody /\ t = claim[d] /\ i = pos[d] /\ i <= Len(Relations[t])
    BY <1>1 DEF t, i, InHand
  <2>3. \A u \in Tx : Len(Relations[u]) \in {1, 2}
    BY RelationFacts
  <2>4. ASSUME NEW e \in Replica, claim[e] # Nobody
        PROVE  /\ pos'[e] <= Len(Relations[claim[e]]) + 1
               /\ \A k \in 1 .. 2 : k < pos'[e] => k \in acked'[claim[e]]
    <3>1. claim[e] \in Tx
      BY <2>4 DEF RInv, RelayTypeOK
    <3>2. /\ pos[e] <= Len(Relations[claim[e]]) + 1
          /\ \A k \in 1 .. 2 : k < pos[e] => k \in acked[claim[e]]
      BY <2>4 DEF RInv, Confirmed
    <3>3. acked[claim[e]] \subseteq acked'[claim[e]] /\ i \in acked'[t]
      BY <1>1, <1>2, <1>5, <3>1
    <3>4. CASE e = d
      BY <1>1, <1>2, <1>5, <2>2, <2>3, <3>1, <3>2, <3>3, <3>4
    <3>5. CASE e # d
      BY <1>1, <1>5, <3>2, <3>3, <3>5
    <3> QED  BY <3>4, <3>5
  <2>5. \A e \in Replica : claim[e] = Nobody => pos'[e] = 1
    BY <1>1, <1>5, <2>2 DEF RInv, Confirmed
  <2> QED  BY <1>1, <2>1, <2>4, <2>5 DEF Confirmed
<1>9. SentMeansApplied'
  <2>1. \A u \in Tx : sent[u] => acked[u] = DOMAIN Relations[u]
    BY DEF RInv, SentMeansApplied
  <2>2. \A u \in Tx : sent[u] => acked'[u] = DOMAIN Relations[u]
    BY <1>1, <1>2, <1>5, <2>1
  <2> QED  BY <1>1, <2>2 DEF SentMeansApplied
<1>10. AckedIsKnown'
  <2> SUFFICES ASSUME NEW u \in Tx, NEW k \in acked'[u], NEW x \in Affected[u][k]
               PROVE  id[u] <= newest'[x]
    BY <1>1 DEF AckedIsKnown, vars
  <2>1. CASE k \in acked[u]
    <3>1. id[u] <= newest[x]
      BY <2>1 DEF RInv, AckedIsKnown
    <3>2. x \in Tuple
      BY <2>1, AffectedFacts DEF RInv, Confirmed
    <3>3. id[u] \in Nat /\ newest[x] \in Nat /\ newest'[x] \in Nat
      BY <1>3, <3>2 DEF RInv, RelayTypeOK, TypeOK
    <3> QED  BY <1>3, <3>1, <3>2, <3>3
  <2>2. CASE k \notin acked[u]
    <3>1. u = t /\ k = i
      BY <1>1, <1>2, <1>5, <2>2
    <3> QED  BY <1>3, <3>1
  <2> QED  BY <2>1, <2>2
<1> QED  BY <1>3, <1>4, <1>6, <1>7, <1>8, <1>9, <1>10 DEF RInv

\* A row given back to a later attempt, or poisoned; iam may have acted.
LEMMA FailRInv ==
  ASSUME RInv, NEW d \in Replica, FailTransient(d) \/ FailPermanent(d)
  PROVE  RInv'
<1> DEFINE t == claim[d]
<1>1. PICK n : /\ InHand(d) /\ GiveUp(d, n)
               /\ n \in {attempts[t] + 1, MaxAttempts}
               /\ IamActs(t, pos[d]) \/ UNCHANGED <<fga, newest, overtaken>>
  BY DEF FailTransient, FailPermanent
<1>2. /\ UNCHANGED vars /\ sent' = sent /\ crashes' = crashes /\ acked' = acked
      /\ attempts' = [attempts EXCEPT ![t] = n]
      /\ claim' = [claim EXCEPT ![d] = Nobody] /\ pos' = [pos EXCEPT ![d] = 1]
  BY <1>1 DEF GiveUp, Release
<1>3. /\ t \in Tx /\ stage[t] = "committed" /\ pos[d] \in DOMAIN Relations[t]
      /\ pos[d] = 2 => 1 \in acked[t]
  BY <1>1, InHandFacts
<1>4. IInv' /\ WritersApart' /\ TypeOK'
  BY <1>2, WritersSame
<1>5. /\ fga' \in [Tuple -> Tx \union {Nobody}] /\ newest' \in [Tuple -> Nat]
      /\ overtaken' \subseteq Tuple
      /\ \A x \in Tuple : newest[x] <= newest'[x]
      /\ NewestActs' /\ PlaceAndOwner'
  <2>1. CASE IamActs(t, pos[d])
    BY <1>2, <1>3, <2>1, IamStep
  <2>2. CASE UNCHANGED <<fga, newest, overtaken>>
    <3>1. NewestActs' /\ PlaceAndOwner'
      BY <1>2, <2>2, IamSame DEF iam
    <3> QED  BY <2>2, <3>1 DEF RInv, RelayTypeOK
  <2> QED  BY <1>1, <2>1, <2>2
<1>6. attempts' \in [Tx -> 0 .. MaxAttempts]
  <2>1. attempts[t] \in 0 .. MaxAttempts /\ attempts[t] < MaxAttempts /\ MaxAttempts \in Nat
    BY <1>1, <1>3, RelayAssumption DEF RInv, RelayTypeOK, ClaimsHeld, InHand
  <2>2. n \in 0 .. MaxAttempts
    BY <1>1, <2>1
  <2> QED  BY <1>2, <2>2 DEF RInv, RelayTypeOK
<1>7. RelayTypeOK'
  BY <1>2, <1>4, <1>5, <1>6 DEF RInv, RelayTypeOK
<1>8. ClaimsHeld' /\ Confirmed'
  BY <1>2, RelayAssumption DEF RInv, ClaimsHeld, Confirmed, RelayTypeOK, vars
<1>9. SentMeansApplied'
  BY <1>2 DEF RInv, SentMeansApplied
<1>10. AckedIsKnown'
  <2> SUFFICES ASSUME NEW u \in Tx, NEW k \in acked[u], NEW x \in Affected[u][k]
               PROVE  id[u] <= newest'[x]
    BY <1>2 DEF AckedIsKnown, vars
  <2>1. id[u] <= newest[x]
    BY DEF RInv, AckedIsKnown
  <2>2. x \in Tuple
    BY AffectedFacts DEF RInv, Confirmed
  <2>3. id[u] \in Nat /\ newest[x] \in Nat /\ newest'[x] \in Nat
    BY <1>5, <2>2 DEF RInv, RelayTypeOK, TypeOK
  <2> QED  BY <1>5, <2>1, <2>2, <2>3
<1> QED  BY <1>4, <1>5, <1>7, <1>8, <1>9, <1>10 DEF RInv

\* Every tuple of the row is confirmed by then.
LEMMA MarkSentRInv ==
  ASSUME RInv, NEW d \in Replica, MarkSent(d)
  PROVE  RInv'
<1> DEFINE t == claim[d]
<1>1. /\ UNCHANGED <<vars, iam>> /\ attempts' = attempts /\ crashes' = crashes
      /\ sent' = [sent EXCEPT ![t] = TRUE]
      /\ claim' = [claim EXCEPT ![d] = Nobody] /\ pos' = [pos EXCEPT ![d] = 1]
      /\ t # Nobody /\ ~InHand(d)
  BY DEF MarkSent, Release
<1>2. IInv' /\ WritersApart' /\ TypeOK' /\ AckedIsKnown' /\ NewestActs' /\ PlaceAndOwner'
  BY <1>1, WritersSame, IamSame
<1>3. t \in Tx /\ pos[d] \in 1 .. 3
  BY <1>1 DEF RInv, RelayTypeOK
<1>4. RelayTypeOK'
  BY <1>1, <1>2 DEF RInv, RelayTypeOK, iam
<1>5. ClaimsHeld' /\ Confirmed'
  BY <1>1, RelayAssumption DEF RInv, ClaimsHeld, Confirmed, RelayTypeOK, vars, iam
<1>6. acked[t] = DOMAIN Relations[t]
  <2>1. PICK l \in {1, 2} : Len(Relations[t]) = l /\ DOMAIN Relations[t] = 1 .. l
    BY <1>3, RelationFacts
  <2>2. l < pos[d]
    BY <1>1, <1>3, <2>1 DEF InHand
  <2>3. acked[t] \subseteq 1 .. l /\ \A i \in 1 .. 2 : i < pos[d] => i \in acked[t]
    BY <1>1, <1>3, <2>1 DEF RInv, Confirmed
  <2>4. 1 .. l \subseteq acked[t]
    BY <1>3, <2>2, <2>3
  <2> QED  BY <2>1, <2>3, <2>4
<1>7. SentMeansApplied'
  BY <1>1, <1>3, <1>6 DEF RInv, SentMeansApplied, RelayTypeOK, iam
<1> QED  BY <1>2, <1>4, <1>5, <1>7 DEF RInv

LEMMA NextRInv == RInv /\ [RelayNext]_relayVars => RInv'
<1> SUFFICES ASSUME RInv, [RelayNext]_relayVars PROVE RInv'
  OBVIOUS
<1>1. CASE Next /\ UNCHANGED <<drain, iam>>
  BY <1>1, WriterRInv
<1>2. ASSUME NEW d \in Replica, Crash(d) \/ Settle(d) \/ \E t \in Tx : Claim(d, t)
      PROVE  RInv'
  BY <1>2, ClaimRInv, ApplyRInv, FailRInv, MarkSentRInv DEF Settle
<1>3. CASE UNCHANGED relayVars
  <2>1. UNCHANGED <<vars, iam>> /\ UNCHANGED drain
    BY <1>3 DEF relayVars
  <2>2. IInv' /\ WritersApart' /\ TypeOK' /\ AckedIsKnown' /\ NewestActs' /\ PlaceAndOwner'
    BY <2>1, WritersSame, IamSame
  <2>3. RelayTypeOK' /\ ClaimsHeld' /\ Confirmed' /\ SentMeansApplied'
    BY <2>1, <2>2 DEF RInv, RelayTypeOK, ClaimsHeld, Confirmed, SentMeansApplied, vars, drain, iam
  <2> QED  BY <2>2, <2>3 DEF RInv
<1> QED  BY <1>1, <1>2, <1>3 DEF RelayNext

-----------------------------------------------------------------------------
\* The inductive invariant of the relay holds in every behaviour.
THEOREM RelayInvariant == RelaySpec => []RInv
  BY InitRInv, NextRInv, PTL DEF RelaySpec

\* register_applier.go, serve.go: drainers, their failures and their deaths are
\* invisible to the writers: every behaviour of the relay is one of OutboxCommit.
THEOREM RelayImplementsCommit == RelaySpec => Spec
<1>1. RelayInit => Init
  BY DEF RelayInit
<1>2. [RelayNext]_relayVars => [Next]_vars
  BY DEF RelayNext, relayVars, Crash, Settle, Claim, ApplyTuple, FailTransient, FailPermanent,
         GiveUp, MarkSent
<1> QED  BY <1>1, <1>2, PTL DEF RelaySpec, Spec

\* Type correctness, for any numbers of transactions, replicas and attempts.
THEOREM RelayTypes == RelaySpec => []RelayTypeOK
<1>1. RInv => RelayTypeOK
  BY DEF RInv
<1> QED  BY <1>1, RelayInvariant, PTL

\* NewRegisterApplier: a row marked sent was applied to its last tuple, however its
\* attempts were split by failures, lost answers and deaths of replicas.
THEOREM SentIsApplied == RelaySpec => []SentMeansApplied
<1>1. RInv => SentMeansApplied
  BY DEF RInv
<1> QED  BY <1>1, RelayInvariant, PTL

\* RegisterIntent.Tuples: iam holds no owner of an object without a place in the
\* hierarchy, unless rows overtook each other.
THEOREM OwnersArePlaced == RelaySpec => []OwnerHasPlace
<1>1. ASSUME RInv PROVE OwnerHasPlace
  <2> SUFFICES ASSUME NEW t \in Tx, fga[OwnerOf(t)] # Nobody,
                      OwnerOf(t) \notin overtaken, PlaceOf(t) \notin overtaken,
                      fga[PlaceOf(t)] = Nobody
               PROVE  FALSE
    BY DEF OwnerHasPlace, OwnerOf, PlaceOf
  <2>1. /\ PlaceOf(t) \in Tuple /\ OwnerOf(t) \in Tuple
        /\ \A x \in Tuple : newest[x] \in Nat
        /\ \A u \in Tx : id[u] \in Nat
    BY <1>1, OwnTuples DEF RInv, RelayTypeOK, TypeOK
  <2>2. PICK u \in Tx : Actor(OwnerOf(t), u)
    BY <1>1, <2>1 DEF RInv, NewestActs
  <2>3. ~Unregisters(u) /\ Object(u) = Object(t)
    BY <2>2, TouchesFacts DEF Actor, Effect, OwnerOf
  <2>4. OwnerOf(u) = OwnerOf(t) /\ PlaceOf(u) = PlaceOf(t)
    BY <2>3, RelayAssumption DEF OwnerOf, PlaceOf, Place, Object
  <2>5. id[u] <= newest[PlaceOf(t)] /\ id[u] > 0
    BY <1>1, <2>2, <2>3, <2>4 DEF RInv, PlaceAndOwner, Actor, WritersApart, Given
  <2>6. PICK v \in Tx : Actor(PlaceOf(t), v)
    BY <1>1, <2>1, <2>5 DEF RInv, NewestActs
  <2>7. Unregisters(v) /\ Object(v) = Object(t)
    BY <2>6, TouchesFacts, RelayAssumption DEF Actor, Effect, PlaceOf
  <2>8. OwnerOf(v) = OwnerOf(t) /\ PlaceOf(v) = PlaceOf(t)
    BY <2>7, RelayAssumption DEF OwnerOf, PlaceOf, Place, Object
  <2>9. id[v] <= newest[OwnerOf(t)] /\ newest[PlaceOf(t)] = id[v] /\ newest[OwnerOf(t)] = id[u]
    BY <1>1, <2>2, <2>6, <2>7, <2>8 DEF RInv, PlaceAndOwner, Actor
  <2>10. id[u] = id[v]
    BY <2>1, <2>5, <2>9
  <2>11. u = v
    BY <1>1, <2>2, <2>6, <2>10 DEF RInv, WritersApart, Given, Actor
  <2> QED  BY <2>3, <2>7, <2>11
<1> QED  BY <1>1, RelayInvariant, PTL

\* emitFGAIntent, emitRepoIntent and the drainer: where the transactions about one
\* object lock the same thing, iam ends with what was committed last, unless an
\* older row was sent after a newer one.
THEOREM LastCommitReachesIam == ASSUME Disciplined PROVE RelaySpec => []LastCommitWins
<1>1. ASSUME RInv PROVE LastCommitWins
  <2> SUFFICES ASSUME NEW n \in DOMAIN commits, NEW x \in Touches[commits[n]],
                      x \notin overtaken, LastAbout(n, x),
                      \A m \in 1 .. n : x \in Touches[commits[m]] => sent[commits[m]]
               PROVE  fga[x] = Effect(commits[n])
    BY DEF LastCommitWins, Effect
  <2> DEFINE t == commits[n]
  <2>1. /\ DOMAIN commits = 1 .. Len(commits) /\ Len(commits) \in Nat
        /\ \A m \in DOMAIN commits : commits[m] \in Tx /\ stage[commits[m]] = "committed"
        /\ \A u \in Tx : id[u] \in Nat
    BY <1>1 DEF RInv, IInv, TypeOK, CommitsCommitted
  <2>2. sent[t]
    BY <2>1
  <2>3. PICK i \in DOMAIN Relations[t] : x \in Affected[t][i]
    BY <2>1, TouchesFacts
  <2>4. x \in Tuple /\ newest[x] \in Nat /\ x[2] = Object(t)
    BY <1>1, <2>1, TouchesFacts DEF RInv, RelayTypeOK
  <2>5. id[t] <= newest[x] /\ id[t] > 0
    BY <1>1, <2>1, <2>2, <2>3 DEF RInv, SentMeansApplied, AckedIsKnown, WritersApart, Given
  <2>6. PICK u \in Tx : Actor(x, u)
    BY <1>1, <2>1, <2>4, <2>5 DEF RInv, NewestActs
  <2>7. PICK m \in DOMAIN commits : commits[m] = u
    BY <1>1, <2>6 DEF RInv, WritersApart, Actor
  <2>8. m <= n
    BY <2>1, <2>6, <2>7 DEF LastAbout, Actor
  <2>9. ~(m < n)
    <3>1. Object(u) = Object(t)
      BY <2>4, <2>6, TouchesFacts DEF Actor
    <3>2. Lock(u) = Lock(t)
      BY <2>1, <3>1, Disciplined DEF Disciplined, SameObject, Object
    <3>3. m < n => id[u] < id[t]
      BY <1>1, <2>7, <3>2 DEF RInv, IInv, LockOrder
    <3> QED  BY <2>1, <2>5, <2>6, <3>3 DEF Actor
  <2>10. u = t
    BY <2>1, <2>7, <2>8, <2>9
  <2> QED  BY <2>6, <2>10 DEF Actor
<1> QED  BY <1>1, RelayInvariant, PTL
=============================================================================
