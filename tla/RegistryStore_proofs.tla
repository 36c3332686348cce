------------------------ MODULE RegistryStore_proofs ------------------------
(***************************************************************************)
(* Proofs about RegistryStore, for any sets of registries, repositories,   *)
(* names, labels and projects and for an outbox of any length.             *)
(*                                                                         *)
(* Every transaction is of one of two sorts: it writes a row of registries *)
(* and at most one registry intent about it, or it writes no row of        *)
(* registries and only repository-level intents.  The lemmas about steps   *)
(* say so, and every invariant is carried over each sort on its own.       *)
(***************************************************************************)
EXTENDS RegistryStore, TLAPS

-----------------------------------------------------------------------------
(* The outbox only grows.                                                  *)

\* Rows already in the outbox keep their place and content (BIGSERIAL ids,
\* and no statement that updates or deletes a row).
LEMMA AppendedRows ==
  ASSUME NEW S, NEW s \in Seq(S), NEW t \in Seq(S)
  PROVE  /\ s \o t \in Seq(S)
         /\ DOMAIN (s \o t) = 1 .. Len(s) + Len(t)
         /\ DOMAIN s = 1 .. Len(s)
         /\ \A i \in 1 .. Len(s) : (s \o t)[i] = s[i]
         /\ \A i \in 1 .. Len(s) + Len(t) : i \notin 1 .. Len(s) =>
              /\ i - Len(s) \in 1 .. Len(t)
              /\ (s \o t)[i] = t[i - Len(s)]
         /\ Len(s) \in Nat /\ Len(t) \in Nat
  OBVIOUS

\* Intents about a repository or its public grant.
RepoIntent == {i \in Intent : i.kind # "Registry"}

LEMMA IntentTypes ==
  ASSUME NEW r \in RegId
  PROVE  /\ \A l \in Labels : RegisterRegistry(r, l) \in Intent
         /\ UnregisterIntentForDelete(r) \in Intent
         /\ \A n \in RepoName :
              /\ RegisterIntentForRepoPush(r, n) \in RepoIntent
              /\ UnregisterIntentForRepo(r, n) \in RepoIntent
              /\ RegisterIntentForRepoPublicGrant(r, n) \in RepoIntent
              /\ UnregisterIntentForRepoPublicGrant(r, n) \in RepoIntent
  BY DEF RegisterRegistry, UnregisterIntentForDelete, RegisterIntentForRepoPush,
         UnregisterIntentForRepo, RegisterIntentForRepoPublicGrant,
         UnregisterIntentForRepoPublicGrant, Intent, RepoIntent

\* The intent lists of the overlay use cases speak of repositories only.
LEMMA IntentLists ==
  ASSUME NEW r \in RegId, NEW n \in RepoName, NEW old \in RepoName, NEW v \in Visibility
  PROVE  /\ PublicGrantIf(r, n, v) \in Seq(RepoIntent)
         /\ createRepoIntents(r, n, v) \in Seq(RepoIntent)
         /\ updateGovernanceIntents(r, n, TRUE, v) \in Seq(RepoIntent)
         /\ renameIntents(r, old, n, v) \in Seq(RepoIntent)
         /\ deleteRepoIntents(r, n) \in Seq(RepoIntent)
         /\ << >> \in Seq(RepoIntent)
<1>1. PublicGrantIf(r, n, v) \in Seq(RepoIntent)
  BY IntentTypes DEF PublicGrantIf
<1>2. createRepoIntents(r, n, v) \in Seq(RepoIntent)
  <2>1. <<RegisterIntentForRepoPush(r, n)>> \in Seq(RepoIntent)
    BY IntentTypes
  <2> QED BY <1>1, <2>1 DEF createRepoIntents
<1>3. updateGovernanceIntents(r, n, TRUE, v) \in Seq(RepoIntent)
  BY IntentTypes DEF updateGovernanceIntents
<1>4. renameIntents(r, old, n, v) \in Seq(RepoIntent)
  <2>1. << RegisterIntentForRepoPush(r, n), UnregisterIntentForRepo(r, old),
           UnregisterIntentForRepoPublicGrant(r, old) >> \in Seq(RepoIntent)
    BY IntentTypes
  <2> QED BY <1>1, <2>1 DEF renameIntents
<1>5. deleteRepoIntents(r, n) \in Seq(RepoIntent)
  BY IntentTypes DEF deleteRepoIntents
<1>6. << >> \in Seq(RepoIntent)
  OBVIOUS
<1> QED BY <1>1, <1>2, <1>3, <1>4, <1>5, <1>6

-----------------------------------------------------------------------------
(* The two sorts of steps.                                                 *)

\* An overlay or repository transaction, as the invariants see it.
RepoLevelStep(r) ==
  /\ registries' = registries
  /\ \E intents \in Seq(RepoIntent) : outbox' = outbox \o intents
  /\ \/ configs' = configs
     \/ /\ Active(r)
        /\ \E overlay \in [RepoName -> Visibility \union {NoConfig}] :
             configs' = [configs EXCEPT ![r] = overlay]

LEMMA RunConfigTx ==
  ASSUME StoreTypeOK, NEW r \in RegId,
         NEW overlay \in [RepoName -> Visibility \union {NoConfig}],
         NEW intents \in Seq(RepoIntent), runConfigTx(r, overlay, intents)
  PROVE  RepoLevelStep(r)
  BY DEF runConfigTx, RepoLevelStep, Emit, guardRegistryActive

LEMMA ConfigTxStep ==
  ASSUME StoreTypeOK, NEW r \in RegId, NEW n \in RepoName, ConfigTx(r, n)
  PROVE  RepoLevelStep(r)
<1> DEFINE Overlay == [RepoName -> Visibility \union {NoConfig}]
<1>0. configs[r] \in Overlay
  BY DEF StoreTypeOK
<1>1. ASSUME NEW v \in Visibility, NEW intents \in Seq(RepoIntent),
             \/ InsertConfig(r, n, v, intents) \/ UpdateConfig(r, n, v, intents)
      PROVE  RepoLevelStep(r)
  <2>1. [configs[r] EXCEPT ![n] = v] \in Overlay
    BY <1>0
  <2> QED BY <1>1, <2>1, RunConfigTx DEF InsertConfig, UpdateConfig
<1>2. ASSUME NEW old \in RepoName, NEW intents \in Seq(RepoIntent),
             RekeyConfig(r, old, n, intents)
      PROVE  RepoLevelStep(r)
  <2>1. [configs[r] EXCEPT ![old] = NoConfig, ![n] = configs[r][old]] \in Overlay
    BY <1>0
  <2> QED BY <1>2, <2>1, RunConfigTx DEF RekeyConfig
<1>3. ASSUME UpdateConfig(r, n, configs[r][n], << >>)
      PROVE  RepoLevelStep(r)
  <2>1. [configs[r] EXCEPT ![n] = configs[r][n]] \in Overlay
    BY <1>0
  <2> QED BY <1>3, <2>1, RunConfigTx, IntentLists DEF UpdateConfig, Visibility
<1>4. ASSUME DeleteConfig(r, n, deleteRepoIntents(r, n))
      PROVE  RepoLevelStep(r)
  <2>1. [configs[r] EXCEPT ![n] = NoConfig] \in Overlay
    BY <1>0
  <2>2. deleteRepoIntents(r, n) \in Seq(RepoIntent)
    BY IntentLists DEF Visibility
  <2> QED BY <1>4, <2>1, <2>2, RunConfigTx DEF DeleteConfig
<1> QED BY <1>1, <1>2, <1>3, <1>4, IntentLists DEF ConfigTx

LEMMA RepoTxStep ==
  ASSUME StoreTypeOK, NEW r \in RegId, NEW n \in RepoName, RepoTx(r, n)
  PROVE  RepoLevelStep(r)
<1>1. PICK intent \in RepoIntent : emitRepoIntent(intent)
  BY IntentTypes DEF RepoTx
<1>2. <<intent>> \in Seq(RepoIntent)
  OBVIOUS
<1> QED BY <1>1, <1>2 DEF emitRepoIntent, Emit, RepoLevelStep


-----------------------------------------------------------------------------
(* What the outbox says about a registry.                                  *)

\* Row i of the outbox tells iam about registry r.
About(i, r) ==
  i \in DOMAIN outbox /\ outbox[i].kind = "Registry" /\ outbox[i].reg = r

\* A repository-level transaction tells iam nothing about any registry.
LEMMA RepoLevelLog ==
  ASSUME StoreTypeOK, NEW r \in RegId, RepoLevelStep(r)
  PROVE  /\ \A q \in RegId : \A i : About(i, q)' <=> About(i, q)
         /\ \A q \in RegId : \A i : About(i, q) => outbox'[i] = outbox[i]
<1>1. PICK intents \in Seq(RepoIntent) : outbox' = outbox \o intents
  BY DEF RepoLevelStep
<1>2. outbox \in Seq(Intent) /\ intents \in Seq(Intent)
  BY <1>1 DEF StoreTypeOK, RepoIntent
<1>3. \A i \in 1 .. Len(intents) : intents[i].kind # "Registry"
  BY <1>1 DEF RepoIntent
<1> QED BY <1>1, <1>2, <1>3, AppendedRows DEF About

\* Row k is the one new row of the outbox, and it tells m about r.
NewRow(k, r, m) ==
  /\ k \in Nat
  /\ outbox'[k] = m
  /\ \A q \in RegId : \A i : About(i, q)' <=> About(i, q) \/ (i = k /\ q = r)
  /\ \A q \in RegId : \A i : About(i, q) => i \in Nat /\ i < k /\ outbox'[i] = outbox[i]

\* A transaction that emits one registry intent adds exactly that row.
LEMMA RegistryLog ==
  ASSUME StoreTypeOK, NEW r \in RegId, NEW m \in Intent,
         m.kind = "Registry", m.reg = r, outbox' = outbox \o <<m>>
  PROVE  \E k : NewRow(k, r, m)
<1>1. outbox \in Seq(Intent) /\ <<m>> \in Seq(Intent)
  BY DEF StoreTypeOK
<1>2. Len(<<m>>) = 1 /\ <<m>>[1] = m
  OBVIOUS
<1>3. PICK k \in Nat : k = Len(outbox) + 1
  BY <1>1
<1>4. /\ DOMAIN outbox = 1 .. Len(outbox)
      /\ DOMAIN outbox' = 1 .. k
      /\ outbox'[k] = m
      /\ \A i \in 1 .. Len(outbox) : outbox'[i] = outbox[i]
  BY <1>1, <1>2, <1>3, AppendedRows
<1>5. \A i : i \in DOMAIN outbox' <=> i \in DOMAIN outbox \/ i = k
  BY <1>1, <1>3, <1>4
<1>6. \A i : i \in DOMAIN outbox => i \in Nat /\ i < k /\ outbox'[i] = outbox[i]
  BY <1>1, <1>3, <1>4
<1>7. \A q \in RegId : \A i : About(i, q) => i \in Nat /\ i < k /\ outbox'[i] = outbox[i]
  BY <1>6 DEF About
<1>8. k \notin DOMAIN outbox
  BY <1>6
<1>9. \A q \in RegId : \A i : About(i, q)' <=> About(i, q) \/ (i = k /\ q = r)
  <2>1. ASSUME NEW q \in RegId, NEW i, i \in DOMAIN outbox
        PROVE  About(i, q)' <=> About(i, q)
    BY <1>5, <1>6, <2>1 DEF About
  <2>2. ASSUME NEW q \in RegId
        PROVE  About(k, q)' <=> q = r
    BY <1>4, <1>5 DEF About
  <2>3. ASSUME NEW q \in RegId, NEW i, About(i, q)' \/ About(i, q)
        PROVE  i \in DOMAIN outbox \/ i = k
    BY <1>5, <2>3 DEF About
  <2> QED BY <2>1, <2>2, <2>3, <1>8 DEF About
<1> QED BY <1>4, <1>7, <1>9 DEF NewRow

-----------------------------------------------------------------------------
(* The inductive invariant.                                                *)

\* A row exists only for an id that its creation announced.
RowsIssued == \A r \in RegId : Exists(r) => \E i : About(i, r)

\* UnregisteredOnceWhenGone and MirrorFollowsRow in terms of About.
GoneIsTold ==
  \A r \in RegId :
    /\ ((\E i : About(i, r)) /\ ~Exists(r)) <=>
         (\E i : About(i, r) /\ outbox[i].event = "unregister")
    /\ \A i, j : /\ About(i, r) /\ outbox[i].event = "unregister"
                 /\ About(j, r) /\ outbox[j].event = "unregister"
                 => i = j

LastAbout(i, r) == About(i, r) /\ \A j : About(j, r) => j <= i

LastIsRow ==
  \A r \in RegId : \A i : LastAbout(i, r) =>
    outbox[i] = IF Exists(r) THEN RegisterRegistry(r, registries[r].labels)
                             ELSE UnregisterIntentForDelete(r)

IInv ==
  /\ StoreTypeOK
  /\ NoOverlayWithoutRegistry
  /\ LiveNamesUnique
  /\ RowsIssued
  /\ GoneIsTold
  /\ LastIsRow

LEMMA IssuedIsAbout ==
  ASSUME NEW r \in RegId
  PROVE  Issued(r) <=> \E i : About(i, r)
  BY DEF Issued, About

LEMMA InitIInv == StoreInit => IInv
<1> SUFFICES ASSUME StoreInit PROVE IInv
  OBVIOUS
<1>1. StoreTypeOK
  BY DEF StoreInit, StoreTypeOK
<1>2. \A r \in RegId : \A i : ~Exists(r) /\ ~About(i, r)
  BY DEF StoreInit, Exists, About
<1>3. NoOverlayWithoutRegistry
  BY DEF StoreInit, NoOverlayWithoutRegistry
<1>4. LiveNamesUnique
  BY <1>2 DEF LiveNamesUnique, Active
<1> QED BY <1>1, <1>2, <1>3, <1>4 DEF IInv, RowsIssued, GoneIsTold, LastIsRow, LastAbout

LEMMA RepoLevelIInv ==
  ASSUME IInv, NEW r \in RegId, RepoLevelStep(r)
  PROVE  IInv'
<1> USE DEF IInv
<1>1. StoreTypeOK'
  <2>1. PICK intents \in Seq(RepoIntent) : outbox' = outbox \o intents
    BY DEF RepoLevelStep
  <2>2. outbox' \in Seq(Intent)
    BY <2>1, AppendedRows DEF StoreTypeOK, RepoIntent
  <2> QED BY <2>2 DEF RepoLevelStep, StoreTypeOK
<1>2. NoOverlayWithoutRegistry'
  BY DEF NoOverlayWithoutRegistry, RepoLevelStep, StoreTypeOK, Active, Exists
<1>3. LiveNamesUnique'
  BY DEF LiveNamesUnique, RepoLevelStep, Active, Exists
<1>4. \A q \in RegId : Exists(q)' <=> Exists(q)
  BY DEF RepoLevelStep, Exists
<1>5. RowsIssued'
  BY <1>4, RepoLevelLog DEF RowsIssued
<1>6. GoneIsTold'
  BY <1>4, RepoLevelLog DEF GoneIsTold
<1>7. LastIsRow'
  BY <1>4, RepoLevelLog DEF LastIsRow, LastAbout, RepoLevelStep
<1> QED BY <1>1, <1>2, <1>3, <1>5, <1>6, <1>7

\* What a registry transaction does to the facts about registries other than
\* its own r: nothing.
LEMMA OtherRegistries ==
  ASSUME StoreTypeOK, NEW r \in RegId, NEW row \in Row \union {NoRow},
         registries' = [registries EXCEPT ![r] = row]
  PROVE  /\ registries' \in [RegId -> Row \union {NoRow}]
         /\ registries'[r] = row
         /\ \A q \in RegId \ {r} : registries'[q] = registries[q]
  BY DEF StoreTypeOK

LEMMA InsertIInv ==
  ASSUME IInv, NEW r \in RegId, NEW p \in Project, NEW n \in RegName, NEW l \in Labels,
         Insert(r, p, n, l)
  PROVE  IInv'
<1> USE DEF IInv
<1> DEFINE row == [project |-> p, name |-> n, labels |-> l,
                   status |-> "ACTIVE", defaultVisibility |-> "PRIVATE"]
           m   == RegisterRegistry(r, l)
<1>1. row \in Row /\ row # NoRow
  BY NoRowAssumption DEF Row, Visibility
<1>2. registries' = [registries EXCEPT ![r] = row] /\ configs' = configs
  BY DEF Insert
<1>3. /\ m \in Intent /\ m.kind = "Registry" /\ m.reg = r /\ m.event = "register"
      /\ outbox' = outbox \o <<m>>
  BY IntentTypes DEF Insert, Emit, RegisterRegistry
<1>k. PICK k : NewRow(k, r, m)
  BY <1>3, RegistryLog
<1>4. ~Exists(r) /\ \A i : ~About(i, r)
  BY IssuedIsAbout DEF Insert
<1>5. Exists(r)' /\ \A q \in RegId \ {r} : registries'[q] = registries[q]
  BY <1>1, <1>2, OtherRegistries DEF Exists
<1>6. StoreTypeOK'
  <2>1. outbox' \in Seq(Intent)
    BY <1>3, AppendedRows DEF StoreTypeOK
  <2> QED BY <1>1, <1>2, <2>1, OtherRegistries DEF StoreTypeOK
<1>7. NoOverlayWithoutRegistry'
  BY <1>2, <1>5 DEF NoOverlayWithoutRegistry, Exists
<1>8. LiveNamesUnique'
  <2>1. registries'[r].project = p /\ registries'[r].name = n
    BY <1>1, <1>2, OtherRegistries
  <2> QED BY <1>5, <2>1 DEF LiveNamesUnique, Insert, NameTaken, Active, Exists
<1>9. RowsIssued'
  BY <1>k, <1>5 DEF NewRow, RowsIssued, Exists
<1>10. GoneIsTold'
  <2>1. ASSUME NEW q \in RegId \ {r}
        PROVE  /\ Exists(q)' <=> Exists(q)
               /\ \A i : About(i, q)' <=> About(i, q)
               /\ \A i : About(i, q) => outbox'[i] = outbox[i]
    BY <1>k, <1>5 DEF NewRow, Exists
  <2>2. outbox'[k].event = "register" /\ \A i : About(i, r)' <=> i = k
    BY <1>3, <1>4, <1>k DEF NewRow
  <2> QED BY <1>5, <2>1, <2>2 DEF GoneIsTold
<1>11. LastIsRow'
  <2>1. registries'[r].labels = l
    BY <1>1, <1>2, OtherRegistries
  <2> QED BY <1>k, <1>4, <1>5, <2>1 DEF NewRow, LastIsRow, LastAbout, Exists
<1> QED BY <1>6, <1>7, <1>8, <1>9, <1>10, <1>11

LEMMA UpdateIInv ==
  ASSUME IInv, NEW r \in RegId, NEW n \in RegName, NEW l \in Labels, NEW v \in Visibility,
         Update(r, n, l, v)
  PROVE  IInv'
<1> USE DEF IInv
<1> DEFINE row == [registries[r] EXCEPT !.name = n, !.labels = l, !.defaultVisibility = v]
           m   == RegisterRegistry(r, l)
<1>0. registries[r] \in Row /\ Active(r) /\ Exists(r)
  BY DEF Update, Active, Exists, StoreTypeOK
<1>1. /\ row \in Row /\ row # NoRow
      /\ row.project = registries[r].project /\ row.name = n /\ row.labels = l
      /\ row.status = registries[r].status
  BY <1>0, NoRowAssumption DEF Row
<1>2. registries' = [registries EXCEPT ![r] = row] /\ configs' = configs
  BY <1>0 DEF Update, StoreTypeOK
<1>3. registries'[r] = row /\ \A q \in RegId \ {r} : registries'[q] = registries[q]
  BY <1>1, <1>2, OtherRegistries
<1>4. /\ m \in Intent /\ m.kind = "Registry" /\ m.reg = r /\ m.event = "register"
      /\ outbox' = outbox \o <<m>>
  BY <1>1, <1>3, IntentTypes DEF Update, Emit, RegisterRegistry
<1>k. PICK k : NewRow(k, r, m)
  BY <1>4, RegistryLog
<1>5. \A q \in RegId : Exists(q)' <=> Exists(q)
  BY <1>0, <1>1, <1>3 DEF Exists
<1>6. StoreTypeOK'
  <2>1. outbox' \in Seq(Intent)
    BY <1>4, AppendedRows DEF StoreTypeOK
  <2> QED BY <1>1, <1>2, <2>1, OtherRegistries DEF StoreTypeOK
<1>7. NoOverlayWithoutRegistry'
  BY <1>2, <1>5 DEF NoOverlayWithoutRegistry
<1>8. LiveNamesUnique'
  <2>1. \A q \in RegId : Active(q)' <=> Active(q)
    BY <1>0, <1>1, <1>3 DEF Active, Exists
  <2>2. \A q \in RegId \ {r} :
          Active(q) /\ registries[q].project = registries[r].project => registries[q].name # n
    BY DEF Update, NameTaken
  <2>3. ASSUME NEW q \in RegId \ {r}, Active(q), registries[q].project = row.project
        PROVE  registries[q].name # row.name
    BY <1>1, <2>2, <2>3
  <2>4. ASSUME NEW q \in RegId \ {r}, NEW s \in RegId \ {r}, Active(q), Active(s),
               registries[q].project = registries[s].project,
               registries[q].name = registries[s].name
        PROVE  q = s
    BY <2>4 DEF LiveNamesUnique
  <2> HIDE DEF row
  <2> SUFFICES ASSUME NEW q \in RegId, NEW s \in RegId, Active(q), Active(s),
                      registries'[q].project = registries'[s].project,
                      registries'[q].name = registries'[s].name
               PROVE  q = s
    BY <2>1 DEF LiveNamesUnique
  <2> QED BY <1>3, <2>3, <2>4
<1>9. RowsIssued'
  BY <1>k, <1>5 DEF NewRow, RowsIssued
<1>10. GoneIsTold'
  <2>1. \A q \in RegId : \A i : About(i, q)' /\ outbox'[i].event = "unregister"
                           <=> About(i, q) /\ outbox[i].event = "unregister"
    BY <1>4, <1>k DEF NewRow
  <2>2. \A q \in RegId : ~Exists(q) => ((\E i : About(i, q)') <=> (\E i : About(i, q)))
    BY <1>0, <1>k DEF NewRow
  <2> QED BY <1>5, <2>1, <2>2 DEF GoneIsTold
<1>11. LastIsRow'
  <2>1. ASSUME NEW q \in RegId \ {r}, NEW i, LastAbout(i, q)'
        PROVE  LastAbout(i, q) /\ outbox'[i] = outbox[i] /\ registries'[q] = registries[q]
    BY <1>3, <1>k, <2>1 DEF NewRow, LastAbout
  <2>2. ASSUME NEW i, LastAbout(i, r)'
        PROVE  outbox'[i] = RegisterRegistry(r, registries'[r].labels)
    <3>1. i = k
      BY <1>k, <2>2 DEF NewRow, LastAbout
    <3>2. registries'[r].labels = l
      BY <1>1, <1>3
    <3> QED BY <1>k, <3>1, <3>2 DEF NewRow
  <2> QED BY <1>0, <1>5, <2>1, <2>2 DEF LastIsRow
<1> QED BY <1>6, <1>7, <1>8, <1>9, <1>10, <1>11

LEMMA MarkDeletingIInv ==
  ASSUME IInv, NEW r \in RegId, MarkDeleting(r)
  PROVE  IInv'
<1> USE DEF IInv
<1> DEFINE row == [registries[r] EXCEPT !.status = "DELETING"]
<1>0. registries[r] \in Row /\ Exists(r)
  BY DEF MarkDeleting, Exists, StoreTypeOK
<1>1. row \in Row /\ row # NoRow /\ row.labels = registries[r].labels /\ row.status = "DELETING"
  BY <1>0, NoRowAssumption DEF Row
<1>2. registries' = [registries EXCEPT ![r] = row] /\ configs' = configs /\ outbox' = outbox
  BY DEF MarkDeleting
<1>3. registries'[r] = row /\ \A q \in RegId \ {r} : registries'[q] = registries[q]
  BY <1>1, <1>2, OtherRegistries
<1>4. \A q \in RegId : (Exists(q)' <=> Exists(q)) /\ registries'[q].labels = registries[q].labels
  BY <1>0, <1>1, <1>3 DEF Exists
<1>5. \A q \in RegId : \A i : About(i, q)' <=> About(i, q)
  BY <1>2 DEF About
<1>6. StoreTypeOK'
  BY <1>1, <1>2, OtherRegistries DEF StoreTypeOK
<1>7. NoOverlayWithoutRegistry'
  BY <1>2, <1>4 DEF NoOverlayWithoutRegistry
<1>8. LiveNamesUnique'
  <2>1. \A q \in RegId : Active(q)' => q # r /\ Active(q)
    BY <1>1, <1>3 DEF Active, Exists
  <2> QED BY <1>3, <2>1 DEF LiveNamesUnique
<1>9. RowsIssued'
  BY <1>4, <1>5 DEF RowsIssued
<1>10. GoneIsTold'
  BY <1>2, <1>4, <1>5 DEF GoneIsTold
<1>11. LastIsRow'
  <2>1. ASSUME NEW q \in RegId, NEW i, LastAbout(i, q)'
        PROVE  LastAbout(i, q) /\ outbox'[i] = outbox[i]
    BY <1>2, <1>5, <2>1 DEF LastAbout
  <2> QED BY <1>4, <2>1 DEF LastIsRow
<1> QED BY <1>6, <1>7, <1>8, <1>9, <1>10, <1>11

LEMMA DeleteIInv ==
  ASSUME IInv, NEW r \in RegId, Delete(r)
  PROVE  IInv'
<1> USE DEF IInv
<1> DEFINE m == UnregisterIntentForDelete(r)
<1>1. registries' = [registries EXCEPT ![r] = NoRow] /\ Exists(r)
  BY DEF Delete
<1>2. ~Exists(r)' /\ \A q \in RegId \ {r} : registries'[q] = registries[q]
  BY <1>1, OtherRegistries DEF Exists
<1>3. /\ m \in Intent /\ m.kind = "Registry" /\ m.reg = r /\ m.event = "unregister"
      /\ outbox' = outbox \o <<m>>
  BY IntentTypes DEF Delete, Emit, UnregisterIntentForDelete
<1>k. PICK k : NewRow(k, r, m)
  BY <1>3, RegistryLog
<1>4. configs' = [configs EXCEPT ![r] = [n \in RepoName |-> NoConfig]]
  BY DEF Delete
<1>5. StoreTypeOK'
  <2>1. outbox' \in Seq(Intent)
    BY <1>3, AppendedRows DEF StoreTypeOK
  <2>2. configs' \in [RegId -> [RepoName -> Visibility \union {NoConfig}]]
    BY <1>4 DEF StoreTypeOK
  <2> QED BY <1>1, <2>1, <2>2, OtherRegistries DEF StoreTypeOK
<1>6. NoOverlayWithoutRegistry'
  BY <1>2, <1>4 DEF NoOverlayWithoutRegistry, Exists, StoreTypeOK
<1>7. LiveNamesUnique'
  BY <1>2 DEF LiveNamesUnique, Active, Exists
<1>8. RowsIssued'
  BY <1>2, <1>k DEF NewRow, RowsIssued, Exists
<1>9. GoneIsTold'
  <2>1. \A i : About(i, r) => outbox[i].event # "unregister"
    BY <1>1 DEF GoneIsTold
  <2>2. \A i : About(i, r)' /\ outbox'[i].event = "unregister" <=> i = k
    BY <1>3, <1>k, <2>1 DEF NewRow
  <2>3. ASSUME NEW q \in RegId \ {r}
        PROVE  /\ Exists(q)' <=> Exists(q)
               /\ \A i : About(i, q)' <=> About(i, q)
               /\ \A i : About(i, q) => outbox'[i] = outbox[i]
    BY <1>2, <1>k DEF NewRow, Exists
  <2>4. \A q \in RegId \ {r} :
          (\E i : About(i, q)' /\ outbox'[i].event = "unregister")
            <=> (\E i : About(i, q) /\ outbox[i].event = "unregister")
    BY <2>3
  <2>5. \E i : About(i, r)' /\ outbox'[i].event = "unregister"
    BY <2>2
  <2> QED BY <1>2, <2>2, <2>3, <2>4, <2>5 DEF GoneIsTold
<1>10. LastIsRow'
  BY <1>2, <1>k DEF NewRow, LastIsRow, LastAbout, Exists
<1> QED BY <1>5, <1>6, <1>7, <1>8, <1>9, <1>10

LEMMA NextIInv == IInv /\ [StoreNext]_storeVars => IInv'
<1> SUFFICES ASSUME IInv, [StoreNext]_storeVars PROVE IInv'
  OBVIOUS
<1>1. ASSUME NEW r \in RegId, RegistryTx(r) PROVE IInv'
  BY <1>1, InsertIInv, UpdateIInv, MarkDeletingIInv, DeleteIInv DEF RegistryTx
<1>2. ASSUME NEW r \in RegId, NEW n \in RepoName, ConfigTx(r, n) \/ RepoTx(r, n) PROVE IInv'
  BY <1>2, ConfigTxStep, RepoTxStep, RepoLevelIInv DEF IInv
<1>3. CASE UNCHANGED storeVars
  <2>1. registries' = registries /\ configs' = configs /\ outbox' = outbox
    BY <1>3 DEF storeVars
  <2>2. StoreTypeOK'
    BY <2>1 DEF StoreTypeOK, IInv
  <2>3. NoOverlayWithoutRegistry' /\ LiveNamesUnique'
    BY <2>1 DEF NoOverlayWithoutRegistry, LiveNamesUnique, Active, Exists, IInv
  <2>4. RowsIssued' /\ GoneIsTold' /\ LastIsRow'
    BY <2>1 DEF RowsIssued, GoneIsTold, LastIsRow, LastAbout, About, Exists, IInv
  <2> QED BY <2>2, <2>3, <2>4 DEF IInv
<1> QED BY <1>1, <1>2, <1>3 DEF StoreNext

\* The inductive invariant holds in every state the transactions can reach.
THEOREM StoreInvariant == StoreSpec => []IInv
  BY InitIInv, NextIInv, PTL DEF StoreSpec

-----------------------------------------------------------------------------
(* The theorems.                                                           *)

\* The columns keep the values their CHECK constraints and the domain allow.
THEOREM StoreTypes == StoreSpec => []StoreTypeOK
<1>1. IInv => StoreTypeOK
  BY DEF IInv
<1> QED BY <1>1, StoreInvariant, PTL

\* The ON DELETE CASCADE of migration 0005 and the ACTIVE guard of runConfigTx
\* together leave no overlay row behind a registry that is gone.
THEOREM OverlaysNeedRegistry == StoreSpec => []NoOverlayWithoutRegistry
<1>1. IInv => NoOverlayWithoutRegistry
  BY DEF IInv
<1> QED BY <1>1, StoreInvariant, PTL

\* The partial unique index of migration 0002 keeps live names unique through
\* Insert, Update and the re-use of the name of a DELETING registry.
THEOREM NamesUnique == StoreSpec => []LiveNamesUnique
<1>1. IInv => LiveNamesUnique
  BY DEF IInv
<1> QED BY <1>1, StoreInvariant, PTL

\* DELETE ... RETURNING emits the unregister intent of a registry exactly
\* once, in the transaction that removed the row.
THEOREM ToldOnce == StoreSpec => []UnregisteredOnceWhenGone
<1>1. IInv => UnregisteredOnceWhenGone
  <2>1. ASSUME NEW r \in RegId, NEW i
        PROVE  i \in DOMAIN outbox /\ UnregistersRegistry(i, r)
                 <=> About(i, r) /\ outbox[i].event = "unregister"
    BY DEF About, UnregistersRegistry
  <2> QED BY <2>1, IssuedIsAbout DEF IInv, GoneIsTold, UnregisteredOnceWhenGone
<1> QED BY <1>1, StoreInvariant, PTL

\* Insert, Update and Delete emit the intent of the row they leave behind in
\* the same transaction, so the last intent about a registry is its row.
THEOREM MirrorIsRow == StoreSpec => []MirrorFollowsRow
<1>1. IInv => MirrorFollowsRow
  <2>1. ASSUME StoreTypeOK, NEW r \in RegId, NEW i \in DOMAIN outbox, LastRegistryIntent(i, r)
        PROVE  LastAbout(i, r)
    <3>1. DOMAIN outbox \subseteq Nat
      BY <2>1 DEF StoreTypeOK
    <3> QED BY <2>1, <3>1 DEF LastRegistryIntent, LastAbout, About
  <2> QED BY <2>1 DEF IInv, LastIsRow, MirrorFollowsRow
<1> QED BY <1>1, StoreInvariant, PTL

\* A registry that MarkDeleting has marked is only ever removed, and until then
\* the ACTIVE guard of runConfigTx keeps its overlays as they are.
THEOREM DeletingTerminal == StoreSpec => DeletingIsTerminal
<1>1. IInv /\ [StoreNext]_storeVars => [DeletingStaysOrGoes]_storeVars
  <2> SUFFICES ASSUME IInv, [StoreNext]_storeVars PROVE [DeletingStaysOrGoes]_storeVars
    OBVIOUS
  <2>1. CASE UNCHANGED storeVars
    BY <2>1
  <2>2. ASSUME NEW r \in RegId, RepoLevelStep(r) PROVE DeletingStaysOrGoes
    BY <2>2 DEF DeletingStaysOrGoes, RepoLevelStep, IInv, StoreTypeOK
  <2>3. ASSUME NEW r \in RegId, RegistryTx(r) PROVE DeletingStaysOrGoes
    <3>1. ASSUME NEW p \in Project, NEW n \in RegName, NEW l \in Labels, Insert(r, p, n, l)
          PROVE  DeletingStaysOrGoes
      BY <3>1 DEF DeletingStaysOrGoes, Insert, IInv, StoreTypeOK
    <3>2. ASSUME NEW n \in RegName, NEW l \in Labels, NEW v \in Visibility, Update(r, n, l, v)
          PROVE  DeletingStaysOrGoes
      BY <3>2 DEF DeletingStaysOrGoes, Update, IInv, StoreTypeOK
    <3>3. CASE MarkDeleting(r)
      <4>1. Exists(r) /\ ~Active(r) => registries'[r] = registries[r]
        <5>1. Exists(r) => registries[r] \in Row
          BY DEF Exists, IInv, StoreTypeOK
        <5>2. SUFFICES ASSUME Exists(r), registries[r].status # "ACTIVE"
                       PROVE  [registries[r] EXCEPT !.status = "DELETING"] = registries[r]
          BY <3>3 DEF MarkDeleting, Active, IInv, StoreTypeOK
        <5>3. registries[r].status = "DELETING"
          BY <5>1, <5>2 DEF Row
        <5> QED BY <5>1, <5>2, <5>3 DEF Row
      <4> QED BY <3>3, <4>1 DEF DeletingStaysOrGoes, MarkDeleting, IInv, StoreTypeOK
    <3>4. CASE Delete(r)
      BY <3>4 DEF DeletingStaysOrGoes, Delete, IInv, StoreTypeOK
    <3> QED BY <2>3, <3>1, <3>2, <3>3, <3>4 DEF RegistryTx
  <2>4. ASSUME NEW r \in RegId, NEW n \in RepoName, ConfigTx(r, n) \/ RepoTx(r, n) PROVE DeletingStaysOrGoes
    BY <2>2, <2>4, ConfigTxStep, RepoTxStep DEF IInv
  <2> QED BY <2>1, <2>3, <2>4 DEF StoreNext
<1> QED BY <1>1, StoreInvariant, PTL DEF StoreSpec, DeletingIsTerminal
=============================================================================
