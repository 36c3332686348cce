--------------------------- MODULE RegistryStore ---------------------------
(***************************************************************************)
(* The transactional store of the control plane: the tables registries,    *)
(* repository_configs and registry_outbox, and the writer transactions of  *)
(* internal/repo/kacho/pg on them.                                         *)
(*                                                                         *)
(* One action is one COMMITTED transaction.  A transaction that hits its   *)
(* guard (no row, DELETING registry, unique violation) rolls back and      *)
(* changes nothing; its caller sees the error, which ControlPlane models.  *)
(* Every registry or overlay transaction holds the row lock of its         *)
(* registry from its first statement to its commit, so for one object the  *)
(* position of an intent in "outbox" is both its BIGSERIAL id and its      *)
(* commit order.  (Where that is not so is the subject of OutboxCommit.)   *)
(***************************************************************************)
EXTENDS FgaIntents, Integers

CONSTANTS
  Project,    \* owning projects
  RegName,    \* registry names
  NoRow,      \* "no such row" in registries
  MaxOutbox   \* bound: rows ever written to registry_outbox

VARIABLES
  registries, \* registries[r]: the row of registry r, or NoRow
  configs,    \* configs[r][n]: visibility of overlay row (r, n), or NoConfig
  outbox      \* committed rows of registry_outbox, in id order

storeVars == <<registries, configs, outbox>>

NoConfig == "NONE"

Row ==
  [project : Project, name : RegName, labels : Labels,
   status : {"ACTIVE", "DELETING"}, defaultVisibility : Visibility]

ASSUME NoRowAssumption == NoRow \notin Row
ASSUME MaxOutboxAssumption == MaxOutbox \in Nat

StoreTypeOK ==
  /\ registries \in [RegId -> Row \union {NoRow}]
  /\ configs \in [RegId -> [RepoName -> Visibility \union {NoConfig}]]
  /\ outbox \in Seq(Intent)

-----------------------------------------------------------------------------
Exists(r) == registries[r] # NoRow

Active(r) == Exists(r) /\ registries[r].status = "ACTIVE"

\* ids.NewID never returns an id twice: an id is used up by the register
\* intent its INSERT committed, and outbox rows are never deleted.
Issued(r) == \E i \in DOMAIN outbox : outbox[i].kind = "Registry" /\ outbox[i].reg = r

\* The partial UNIQUE index (project_id, name) WHERE status <> 'DELETING'.
NameTaken(r, p, n) ==
  \E q \in RegId \ {r} :
    Active(q) /\ registries[q].project = p /\ registries[q].name = n

Emit(intents) ==
  /\ Len(outbox) + Len(intents) <= MaxOutbox
  /\ outbox' = outbox \o intents

-----------------------------------------------------------------------------
(* registry.go: the registries table.                                      *)

Insert(r, p, n, l) ==
  /\ ~Exists(r)
  /\ ~Issued(r)
  /\ ~NameTaken(r, p, n)
  /\ registries' = [registries EXCEPT ![r] =
       [project |-> p, name |-> n, labels |-> l,
        status |-> "ACTIVE", defaultVisibility |-> "PRIVATE"]]
  /\ Emit(<<RegisterRegistry(r, l)>>)
  /\ UNCHANGED configs

\* Mutant: the unique index does not cover UPDATE.
UpdateUnchecked(r, n, l, v) ==
  /\ Active(r)
  /\ registries' = [registries EXCEPT ![r].name = n, ![r].labels = l,
                                      ![r].defaultVisibility = v]
  /\ Emit(<<RegisterRegistry(r, l)>>)
  /\ UNCHANGED configs

\* Mutant: the mirror intent is built from the row as it was read before.
UpdateStaleMirror(r, n, l, v) ==
  /\ Active(r)
  /\ ~NameTaken(r, registries[r].project, n)
  /\ registries' = [registries EXCEPT ![r].name = n, ![r].labels = l,
                                      ![r].defaultVisibility = v]
  /\ Emit(<<RegisterRegistry(r, registries[r].labels)>>)
  /\ UNCHANGED configs

\* A field outside the update mask is passed with its present value.  The
\* mirror intent is built from the RETURNING row.
Update(r, n, l, v) ==
  /\ Active(r)
  /\ ~NameTaken(r, registries[r].project, n)
  /\ registries' = [registries EXCEPT ![r].name = n, ![r].labels = l,
                                      ![r].defaultVisibility = v]
  /\ Emit(<<RegisterRegistry(r, registries'[r].labels)>>)
  /\ UNCHANGED configs

\* Mutant: a status the table does not know.
MarkDeletingMisspelt(r) ==
  /\ Exists(r)
  /\ registries' = [registries EXCEPT ![r].status = "DELETED"]
  /\ UNCHANGED <<configs, outbox>>

\* ACTIVE -> DELETING, and DELETING -> DELETING for a retried delete.
MarkDeleting(r) ==
  /\ Exists(r)
  /\ registries' = [registries EXCEPT ![r].status = "DELETING"]
  /\ UNCHANGED <<configs, outbox>>

\* Mutant: the unregister intent is emitted whether or not a row was deleted.
DeleteAlwaysEmits(r) ==
  /\ Issued(r)
  /\ registries' = [registries EXCEPT ![r] = NoRow]
  /\ configs' = [configs EXCEPT ![r] = [n \in RepoName |-> NoConfig]]
  /\ Emit(<<UnregisterIntentForDelete(r)>>)

\* DELETE ... RETURNING with the FK cascade to repository_configs.  Only the
\* transaction that found the row emits the unregister intent.
Delete(r) ==
  /\ Exists(r)
  /\ registries' = [registries EXCEPT ![r] = NoRow]
  /\ configs' = [configs EXCEPT ![r] = [n \in RepoName |-> NoConfig]]
  /\ Emit(<<UnregisterIntentForDelete(r)>>)

-----------------------------------------------------------------------------
(* repository_config.go: overlay rows under the ACTIVE guard.              *)

\* Mutants: no guard at all, and a guard that lets DELETING pass.
guardMissing(r) == r \in RegId

guardExistsOnly(r) == Exists(r)

guardRegistryActive(r) == Active(r)

\* runConfigTx: guard, then the statement, then the intents, then commit.
runConfigTx(r, overlay, intents) ==
  /\ guardRegistryActive(r)
  /\ configs' = [configs EXCEPT ![r] = overlay]
  /\ Emit(intents)
  /\ UNCHANGED registries

InsertConfig(r, n, v, intents) ==
  /\ configs[r][n] = NoConfig
  /\ runConfigTx(r, [configs[r] EXCEPT ![n] = v], intents)

UpdateConfig(r, n, v, intents) ==
  /\ configs[r][n] # NoConfig
  /\ runConfigTx(r, [configs[r] EXCEPT ![n] = v], intents)

RekeyConfig(r, old, new, intents) ==
  /\ configs[r][old] # NoConfig
  /\ configs[r][new] = NoConfig
  /\ runConfigTx(r, [configs[r] EXCEPT ![old] = NoConfig, ![new] = configs[r][old]], intents)

DeleteConfig(r, n, intents) ==
  /\ configs[r][n] # NoConfig
  /\ runConfigTx(r, [configs[r] EXCEPT ![n] = NoConfig], intents)

\* RegisterRepository / UnregisterRepository: an outbox row of its own, with
\* neither a registry nor an overlay row behind it.
emitRepoIntent(intent) ==
  /\ Emit(<<intent>>)
  /\ UNCHANGED <<registries, configs>>

-----------------------------------------------------------------------------
StoreInit ==
  /\ registries = [r \in RegId |-> NoRow]
  /\ configs = [r \in RegId |-> [n \in RepoName |-> NoConfig]]
  /\ outbox = <<>>

RegistryTx(r) ==
  \/ \E p \in Project, n \in RegName, l \in Labels : Insert(r, p, n, l)
  \/ \E n \in RegName, l \in Labels, v \in Visibility : Update(r, n, l, v)
  \/ MarkDeleting(r)
  \/ Delete(r)

\* Every overlay transaction with every intent list a caller may hand it.  A
\* rename computes its list from a visibility it read earlier, so that
\* visibility is free here.
ConfigTx(r, n) ==
  \/ \E v \in Visibility :
       \/ InsertConfig(r, n, v, createRepoIntents(r, n, v))
       \/ InsertConfig(r, n, v, PublicGrantIf(r, n, v))
       \/ UpdateConfig(r, n, v, updateGovernanceIntents(r, n, TRUE, v))
       \/ \E old \in RepoName \ {n} :
            \/ InsertConfig(r, n, v, renameIntents(r, old, n, v))
            \/ RekeyConfig(r, old, n, renameIntents(r, old, n, v))
  \/ UpdateConfig(r, n, configs[r][n], <<>>)
  \/ DeleteConfig(r, n, deleteRepoIntents(r, n))

RepoTx(r, n) ==
  \/ emitRepoIntent(RegisterIntentForRepoPush(r, n))
  \/ emitRepoIntent(UnregisterIntentForRepo(r, n))

StoreNext ==
  \E r \in RegId :
    \/ RegistryTx(r)
    \/ \E n \in RepoName : ConfigTx(r, n) \/ RepoTx(r, n)

StoreSpec == StoreInit /\ [][StoreNext]_storeVars

-----------------------------------------------------------------------------
(* Properties: they hold whoever calls the transactions, and when.         *)

\* Of the registries of a project that are not being deleted, no two share a
\* name, through creations, renames and re-use of the name of a registry that
\* is already DELETING.
LiveNamesUnique ==
  \A r, q \in RegId :
    /\ Active(r) /\ Active(q)
    /\ registries[r].project = registries[q].project
    /\ registries[r].name = registries[q].name
    => r = q

\* An overlay row never outlives its registry (FK with ON DELETE CASCADE).
NoOverlayWithoutRegistry ==
  \A r \in RegId, n \in RepoName : configs[r][n] # NoConfig => Exists(r)

UnregistersRegistry(i, r) ==
  /\ outbox[i].kind = "Registry" /\ outbox[i].reg = r
  /\ outbox[i].event = "unregister"

\* However many deletes of a registry run, retry or race, iam is told exactly
\* once that it is gone, and only when its row is gone.
UnregisteredOnceWhenGone ==
  \A r \in RegId :
    /\ (Issued(r) /\ ~Exists(r)) <=> (\E i \in DOMAIN outbox : UnregistersRegistry(i, r))
    /\ \A i, j \in DOMAIN outbox :
         UnregistersRegistry(i, r) /\ UnregistersRegistry(j, r) => i = j

LastRegistryIntent(i, r) ==
  /\ outbox[i].kind = "Registry" /\ outbox[i].reg = r
  /\ \A j \in DOMAIN outbox : j > i => ~(outbox[j].kind = "Registry" /\ outbox[j].reg = r)

\* The last thing iam is told about a registry is what the table says: a live
\* row is announced with the labels it has now, so that a label removed from
\* the row is withdrawn from label-scoped access.
MirrorFollowsRow ==
  \A r \in RegId : \A i \in DOMAIN outbox :
    LastRegistryIntent(i, r) =>
      IF Exists(r)
        THEN outbox[i] = RegisterRegistry(r, registries[r].labels)
        ELSE outbox[i] = UnregisterIntentForDelete(r)

DeletingStaysOrGoes ==
  \A r \in RegId :
    Exists(r) /\ ~Active(r) =>
      \/ registries'[r] = registries[r] /\ configs'[r] = configs[r]
      \/ registries'[r] = NoRow

\* DELETING is terminal: such a row can only disappear, and until it does its
\* overlays are frozen.
DeletingIsTerminal == [][DeletingStaysOrGoes]_storeVars
=============================================================================
