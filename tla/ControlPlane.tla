---------------------------- MODULE ControlPlane ----------------------------
(***************************************************************************)
(* The use cases of the control plane (internal/apps/kacho/api/registry)   *)
(* and the manifest push of the data plane, as programs over the store of  *)
(* RegistryStore and the tags the storage engine (zot) holds.              *)
(*                                                                         *)
(* Every request runs at its own pace: a mutating RPC persists its         *)
(* Operation, and a detached worker then makes its calls one by one.  One  *)
(* action is one call that reads or changes shared state (a transaction,   *)
(* an engine call) together with the branch taken on its result, so that   *)
(* whatever can happen between two calls of a worker does happen here.     *)
(* Any call may fail, before it takes effect or (its answer lost) after,   *)
(* and any worker may die between two calls and leave its Operation        *)
(* pending.                                                                *)
(*                                                                         *)
(* Left out: validation of request fields, description and overlay labels, *)
(* and the response bodies.  Per-object authorization is the gate of each  *)
(* Begin action: a check can pass only for an object that was announced.   *)
(* The engine is seen at the level of tags, each with a manifest of its    *)
(* own; the GET and PUT that copy one manifest, and the HEAD and DELETE    *)
(* that drop one tag, are one step.                                        *)
(***************************************************************************)
EXTENDS RegistryStore, FiniteSets

CONSTANTS
  Op,      \* request ids: each names at most one request
  Tag,     \* tag names
  Inbox    \* the requests that may arrive together: functions from Op

VARIABLES
  req,     \* req[o]: the request behind o
  pc,      \* pc[o]: the next call of its handler or worker
  loc,     \* loc[o]: what the handler or worker remembers between calls
  tags     \* tags[r][n]: the tags of repository n in the engine

vars == <<storeVars, req, pc, loc, tags>>

-----------------------------------------------------------------------------
RepoRequest(kind) == [kind : {kind}, reg : RegId, repo : RepoName]

Request ==
  [kind : {"CreateRegistry"}, reg : RegId, project : Project, name : RegName,
   labels : Labels] \union
  [kind : {"UpdateRegistry"}, reg : RegId,
   mask : SUBSET {"name", "labels", "default_visibility"},
   name : RegName, labels : Labels, vis : Visibility] \union
  [kind : {"DeleteRegistry"}, reg : RegId] \union
  [kind : {"CreateRepository"}, reg : RegId, repo : RepoName,
   vis : Visibility \union {"UNSPECIFIED"}] \union
  [kind : {"UpdateRepository"}, reg : RegId, repo : RepoName,
   applyVisibility : BOOLEAN, vis : Visibility] \union
  [kind : {"RenameRepository"}, reg : RegId, repo : RepoName, newName : RepoName] \union
  RepoRequest("DeleteRepository") \union
  [kind : {"DeleteTag", "Push"}, reg : RegId, repo : RepoName, tag : Tag]

\* An id from ids.NewID belongs to one Create call, and a rename needs two names.
ASSUME InboxAssumption ==
  /\ Inbox \subseteq [Op -> Request]
  /\ \A q \in Inbox : \A o, p \in Op :
       /\ q[o].kind = "RenameRepository" => q[o].repo # q[o].newName
       /\ q[o].kind = "CreateRegistry" /\ q[p].kind = "CreateRegistry"
          /\ q[o].reg = q[p].reg => o = p

\* Calls of the programs below, in program order.  "succeed" and "fail" are
\* the pending write of the Operation's result, "ok" and "error" a finished
\* Operation, "dead" an Operation whose worker died.
Calls ==
  {"insert", "update", "mark", "recheck", "delete",
   "insertConfig", "project",
   "updateConfig", "readDefault", "promote", "retryUpdate",
   "readOld", "checkOverlay", "checkProjection", "list", "copy", "drop",
   "readRegistry", "rekey", "checkEmpty", "deleteConfig",
   "deleteTag", "listTags", "unregister", "forward", "registerPush"}

Final == {"ok", "error", "dead"}

Local ==
  [vis    : Visibility \union {NoConfig},  \* a visibility read or resolved earlier
   exists : BOOLEAN,                       \* Push: the repository had tags when asked
   list   : SUBSET Tag,                    \* Rename: the tags listed before copying
   left   : SUBSET Tag,                    \* Rename: those still to copy or to drop
   code   : {"OK", "NOT_FOUND", "ALREADY_EXISTS", "FAILED_PRECONDITION", "UNAVAILABLE"}]

NoLocal == [vis |-> NoConfig, exists |-> FALSE, list |-> {}, left |-> {}, code |-> "OK"]

CPTypeOK ==
  /\ StoreTypeOK
  /\ req \in [Op -> Request]
  /\ pc \in [Op -> {"idle", "succeed", "fail"} \union Calls \union Final]
  /\ loc \in [Op -> Local]
  /\ tags \in [RegId -> [RepoName -> SUBSET Tag]]

CPInit ==
  /\ StoreInit
  /\ req \in Inbox
  /\ pc = [o \in Op |-> "idle"]
  /\ loc = [o \in Op |-> NoLocal]
  /\ tags = [r \in RegId |-> [n \in RepoName |-> {}]]

-----------------------------------------------------------------------------
Is(o, kind) == req[o].kind = kind

At(o, call) == pc[o] = call

Go(o, to) == pc' = [pc EXCEPT ![o] = to]

Fail(o, code) ==
  /\ Go(o, "fail")
  /\ loc' = [loc EXCEPT ![o].code = code]

NamespaceEmpty(r) == \A n \in RepoName : tags[r][n] = {}

\* The engine's catalog has the repositories with tags, and may have, until it
\* collects it, one that a push or a rename began to fill and that has none.
MayBeListed(r) ==
  \/ ~NamespaceEmpty(r)
  \/ \E o \in Op : /\ req[o].kind \in {"Push", "RenameRepository"} /\ req[o].reg = r
                   /\ pc[o] # "idle"

\* A per-object check can pass only once the object was announced to iam.
Announced(r, n) ==
  \E i \in DOMAIN outbox : outbox[i] = RegisterIntentForRepoPush(r, n)

\* Mutant: UNSPECIFIED is stored as it came.
resolveVisibilityAsGiven(v, default) == v

resolveVisibility(v, default) == IF v \in Visibility THEN v ELSE default

-----------------------------------------------------------------------------
(* CreateRegistry: the Operation first, then the row and its intent.       *)

BeginCreateRegistry(o) ==
  /\ Is(o, "CreateRegistry")
  /\ At(o, "idle")
  /\ Go(o, "insert")
  /\ UNCHANGED <<storeVars, req, loc, tags>>

CreateInsert(o) ==
  /\ At(o, "insert")
  /\ Go(o, "succeed")
  /\ Insert(req[o].reg, req[o].project, req[o].name, req[o].labels)
  /\ UNCHANGED <<req, loc, tags>>

CreateConflict(o) ==
  /\ At(o, "insert")
  /\ Fail(o, "ALREADY_EXISTS")
  /\ NameTaken(req[o].reg, req[o].project, req[o].name)
  /\ UNCHANGED <<storeVars, req, tags>>

-----------------------------------------------------------------------------
(* UpdateRegistry                                                          *)

BeginUpdateRegistry(o) ==
  /\ Is(o, "UpdateRegistry")
  /\ At(o, "idle")
  /\ Issued(req[o].reg)
  /\ Go(o, "update")
  /\ UNCHANGED <<storeVars, req, loc, tags>>

Patched(q, field, value, present) == IF field \in q.mask THEN value ELSE present

UpdateCommit(o) ==
  LET q == req[o]  row == registries[q.reg] IN
  /\ At(o, "update")
  /\ Go(o, "succeed")
  /\ Active(q.reg)
  /\ Update(q.reg, Patched(q, "name", q.name, row.name),
                   Patched(q, "labels", q.labels, row.labels),
                   Patched(q, "default_visibility", q.vis, row.defaultVisibility))
  /\ UNCHANGED <<req, loc, tags>>

UpdateRefused(o) ==
  LET q == req[o] IN
  /\ At(o, "update")
  /\ \/ ~Active(q.reg) /\ Fail(o, "NOT_FOUND")
     \/ /\ Active(q.reg) /\ "name" \in q.mask
        /\ NameTaken(q.reg, registries[q.reg].project, q.name)
        /\ Fail(o, "ALREADY_EXISTS")
  /\ UNCHANGED <<storeVars, req, tags>>

-----------------------------------------------------------------------------
(* DeleteRegistry: a request on a non-empty namespace leaves no trace.     *)

BeginDeleteRegistry(o) ==
  /\ Is(o, "DeleteRegistry")
  /\ At(o, "idle")
  /\ Issued(req[o].reg)
  /\ NamespaceEmpty(req[o].reg)
  /\ Go(o, "mark")
  /\ UNCHANGED <<storeVars, req, loc, tags>>

\* Mutant: the CAS matches ACTIVE rows only, and no match means gone.
DeleteMarkActiveOnly(o) ==
  /\ At(o, "mark")
  /\ \/ Active(req[o].reg) /\ MarkDeleting(req[o].reg) /\ Go(o, "recheck")
     \/ ~Active(req[o].reg) /\ Go(o, "succeed") /\ UNCHANGED storeVars
  /\ UNCHANGED <<req, loc, tags>>

DeleteMark(o) ==
  /\ At(o, "mark")
  /\ \/ MarkDeleting(req[o].reg) /\ Go(o, "recheck")
     \/ ~Exists(req[o].reg) /\ Go(o, "succeed") /\ UNCHANGED storeVars
  /\ UNCHANGED <<req, loc, tags>>

\* Mutant: a registry found non-empty becomes ACTIVE again.
DeleteRecheckReverts(o) ==
  /\ At(o, "recheck")
  /\ \/ /\ NamespaceEmpty(req[o].reg)
        /\ Go(o, "delete") /\ UNCHANGED <<loc, registries>>
     \/ /\ MayBeListed(req[o].reg) /\ Exists(req[o].reg)
        /\ Fail(o, "FAILED_PRECONDITION")
        /\ registries' = [registries EXCEPT ![req[o].reg].status = "ACTIVE"]
  /\ UNCHANGED <<configs, outbox, req, tags>>

\* RemoveNamespace, between this call and the next, changes nothing and its
\* failure is only logged.
DeleteRecheck(o) ==
  /\ At(o, "recheck")
  /\ \/ /\ NamespaceEmpty(req[o].reg)
        /\ Go(o, "delete") /\ UNCHANGED loc
     \/ /\ MayBeListed(req[o].reg)
        /\ Fail(o, "FAILED_PRECONDITION")
  /\ UNCHANGED <<storeVars, req, tags>>

DeleteRow(o) ==
  /\ At(o, "delete")
  /\ Go(o, "succeed")
  /\ \/ Delete(req[o].reg)
     \/ ~Exists(req[o].reg) /\ UNCHANGED storeVars
  /\ UNCHANGED <<req, loc, tags>>

-----------------------------------------------------------------------------
(* CreateRepository: the default visibility is read before the Operation   *)
(* is persisted, the overlay row is inserted after.                        *)

BeginCreateRepository(o) ==
  LET r == req[o].reg IN
  /\ Is(o, "CreateRepository")
  /\ At(o, "idle")
  /\ Exists(r)
  /\ Go(o, "insertConfig")
  /\ loc' = [loc EXCEPT ![o].vis =
       resolveVisibility(req[o].vis, registries[r].defaultVisibility)]
  /\ UNCHANGED <<storeVars, req, tags>>

\* The failures of runConfigTx: the guard is tested before the statement.
GuardRefuses(o) ==
  /\ ~guardRegistryActive(req[o].reg)
  /\ Fail(o, "FAILED_PRECONDITION")
  /\ UNCHANGED storeVars

StatementFails(o, broken, code) ==
  /\ guardRegistryActive(req[o].reg)
  /\ broken
  /\ Fail(o, code)
  /\ UNCHANGED storeVars

CreateRepositoryInsert(o) ==
  LET r == req[o].reg  n == req[o].repo  v == loc[o].vis IN
  /\ At(o, "insertConfig")
  /\ \/ /\ InsertConfig(r, n, v, createRepoIntents(r, n, v))
        /\ Go(o, "project") /\ UNCHANGED loc
     \/ StatementFails(o, configs[r][n] # NoConfig, "ALREADY_EXISTS")
     \/ GuardRefuses(o)
  /\ UNCHANGED <<req, tags>>

\* RepositoryProjection of the response, the last call of three workers.
ReadProjection(o) ==
  /\ At(o, "project")
  /\ Go(o, "succeed")
  /\ UNCHANGED <<storeVars, req, loc, tags>>

-----------------------------------------------------------------------------
(* UpdateRepository: patch the overlay, or promote an ephemeral repository *)
(* and, when another promotion won, patch after all.                       *)

BeginUpdateRepository(o) ==
  /\ Is(o, "UpdateRepository")
  /\ At(o, "idle")
  /\ Announced(req[o].reg, req[o].repo)
  /\ Go(o, "updateConfig")
  /\ UNCHANGED <<storeVars, req, loc, tags>>

PatchConfig(q) ==
  UpdateConfig(q.reg, q.repo,
               IF q.applyVisibility THEN q.vis ELSE configs[q.reg][q.repo],
               updateGovernanceIntents(q.reg, q.repo, q.applyVisibility, q.vis))

UpdateRepositoryPatch(o) ==
  LET q == req[o] IN
  /\ At(o, "updateConfig")
  /\ \/ PatchConfig(q) /\ Go(o, "project") /\ UNCHANGED loc
     \/ /\ guardRegistryActive(q.reg) /\ configs[q.reg][q.repo] = NoConfig
        /\ Go(o, "readDefault") /\ UNCHANGED <<storeVars, loc>>
     \/ GuardRefuses(o)
  /\ UNCHANGED <<req, tags>>

UpdateRepositoryReadDefault(o) ==
  LET q == req[o] IN
  /\ At(o, "readDefault")
  /\ \/ /\ Exists(q.reg)
        /\ Go(o, "promote")
        /\ loc' = [loc EXCEPT ![o].vis =
             IF q.applyVisibility THEN q.vis ELSE registries[q.reg].defaultVisibility]
     \/ ~Exists(q.reg) /\ Fail(o, "NOT_FOUND")
  /\ UNCHANGED <<storeVars, req, tags>>

\* Mutant: a promotion announces no public grant.
UpdateRepositoryPromoteSilent(o) ==
  LET r == req[o].reg  n == req[o].repo IN
  /\ At(o, "promote")
  /\ InsertConfig(r, n, loc[o].vis, <<>>)
  /\ Go(o, "project")
  /\ UNCHANGED <<req, loc, tags>>

UpdateRepositoryPromote(o) ==
  LET r == req[o].reg  n == req[o].repo  v == loc[o].vis IN
  /\ At(o, "promote")
  /\ \/ /\ InsertConfig(r, n, v, PublicGrantIf(r, n, v))
        /\ Go(o, "project") /\ UNCHANGED loc
     \/ /\ guardRegistryActive(r) /\ configs[r][n] # NoConfig
        /\ Go(o, "retryUpdate") /\ UNCHANGED <<storeVars, loc>>
     \/ GuardRefuses(o)
  /\ UNCHANGED <<req, tags>>

UpdateRepositoryRetry(o) ==
  LET q == req[o] IN
  /\ At(o, "retryUpdate")
  /\ \/ PatchConfig(q) /\ Go(o, "project") /\ UNCHANGED loc
     \/ StatementFails(o, configs[q.reg][q.repo] = NoConfig, "NOT_FOUND")
     \/ GuardRefuses(o)
  /\ UNCHANGED <<req, tags>>

-----------------------------------------------------------------------------
(* RenameRepository: read the overlay, find the target free, re-home every *)
(* tag in the engine, and only then move or create the overlay row.        *)

BeginRename(o) ==
  /\ Is(o, "RenameRepository")
  /\ At(o, "idle")
  /\ Announced(req[o].reg, req[o].repo)
  /\ Go(o, "readOld")
  /\ UNCHANGED <<storeVars, req, loc, tags>>

RenameReadOld(o) ==
  /\ At(o, "readOld")
  /\ Go(o, "checkOverlay")
  /\ loc' = [loc EXCEPT ![o].vis = configs[req[o].reg][req[o].repo]]
  /\ UNCHANGED <<storeVars, req, tags>>

\* assertTargetFree: two reads, of two systems.
TargetFree(o, to, free) ==
  /\ \/ free /\ Go(o, to) /\ UNCHANGED loc
     \/ ~free /\ Fail(o, "ALREADY_EXISTS")
  /\ UNCHANGED <<storeVars, req, tags>>

RenameCheckOverlay(o) ==
  /\ At(o, "checkOverlay")
  /\ TargetFree(o, "checkProjection", configs[req[o].reg][req[o].newName] = NoConfig)

RenameCheckProjection(o) ==
  /\ At(o, "checkProjection")
  /\ TargetFree(o, "list", tags[req[o].reg][req[o].newName] = {})

RenameList(o) ==
  LET listed == tags[req[o].reg][req[o].repo] IN
  /\ At(o, "list")
  /\ Go(o, "copy")
  /\ loc' = [loc EXCEPT ![o].list = listed, ![o].left = listed]
  /\ UNCHANGED <<storeVars, req, tags>>

\* Mutants: dropping starts one tag early; a failed copy is skipped.
RenameCopyOneShort(o) ==
  LET q == req[o] IN
  /\ At(o, "copy")
  /\ \/ \E t \in loc[o].left :
          /\ tags' = [tags EXCEPT ![q.reg][q.newName] = @ \union {t}]
          /\ loc' = [loc EXCEPT ![o].left = @ \ {t}]
          /\ UNCHANGED pc
     \/ /\ Cardinality(loc[o].left) <= 1
        /\ loc' = [loc EXCEPT ![o].left = loc[o].list]
        /\ Go(o, "drop") /\ UNCHANGED tags
  /\ UNCHANGED <<storeVars, req>>

RenameCopySkips(o) ==
  /\ At(o, "copy")
  /\ Go(o, "readRegistry")
  /\ UNCHANGED <<storeVars, req, loc, tags>>

\* One manifest: GET under the old name, PUT under the new one.  A tag that
\* is gone by now is a non-2xx answer and stops the rename.
RenameCopy(o) ==
  LET q == req[o] IN
  /\ At(o, "copy")
  /\ \/ \E t \in loc[o].left :
          \/ /\ t \in tags[q.reg][q.repo]
             /\ tags' = [tags EXCEPT ![q.reg][q.newName] = @ \union {t}]
             /\ loc' = [loc EXCEPT ![o].left = @ \ {t}]
             /\ UNCHANGED pc
          \/ /\ t \notin tags[q.reg][q.repo]
             /\ Fail(o, "UNAVAILABLE") /\ UNCHANGED tags
     \/ /\ loc[o].left = {}
        /\ loc' = [loc EXCEPT ![o].left = loc[o].list]
        /\ Go(o, "drop") /\ UNCHANGED tags
  /\ UNCHANGED <<storeVars, req>>

RenameDrop(o) ==
  LET q == req[o] IN
  /\ At(o, "drop")
  /\ \/ \E t \in loc[o].left :
          /\ tags' = [tags EXCEPT ![q.reg][q.repo] = @ \ {t}]
          /\ loc' = [loc EXCEPT ![o].left = @ \ {t}]
          /\ UNCHANGED pc
     \/ loc[o].left = {} /\ Go(o, "readRegistry") /\ UNCHANGED <<loc, tags>>
  /\ UNCHANGED <<storeVars, req>>

\* A repository without an overlay takes the registry's default visibility.
\* "exists" remembers that there was an overlay.
RenameReadRegistry(o) ==
  LET r == req[o].reg IN
  /\ At(o, "readRegistry")
  /\ \/ /\ Exists(r)
        /\ Go(o, "rekey")
        /\ loc' = [loc EXCEPT
             ![o].exists = loc[o].vis # NoConfig,
             ![o].vis = resolveVisibility(loc[o].vis, registries[r].defaultVisibility)]
     \/ ~Exists(r) /\ Fail(o, "NOT_FOUND")
  /\ UNCHANGED <<storeVars, req, tags>>

RenameRekey(o) ==
  LET r == req[o].reg  old == req[o].repo  new == req[o].newName  v == loc[o].vis
      intents == renameIntents(r, old, new, v) IN
  /\ At(o, "rekey")
  /\ \/ /\ \/ loc[o].exists /\ RekeyConfig(r, old, new, intents)
           \/ ~loc[o].exists /\ InsertConfig(r, new, v, intents)
        /\ Go(o, "project") /\ UNCHANGED loc
     \/ StatementFails(o, loc[o].exists /\ configs[r][old] = NoConfig, "NOT_FOUND")
     \/ StatementFails(o, /\ configs[r][new] # NoConfig
                          /\ loc[o].exists => configs[r][old] # NoConfig,
                       "ALREADY_EXISTS")
     \/ GuardRefuses(o)
  /\ UNCHANGED <<req, tags>>

-----------------------------------------------------------------------------
(* DeleteRepository: the engine says empty, then the overlay row goes.     *)

BeginDeleteRepository(o) ==
  /\ Is(o, "DeleteRepository")
  /\ At(o, "idle")
  /\ Announced(req[o].reg, req[o].repo)
  /\ Go(o, "checkEmpty")
  /\ UNCHANGED <<storeVars, req, loc, tags>>

\* Mutant: the worker waits for the repository to become empty.
DeleteRepositoryAwaitsEmpty(o) ==
  /\ At(o, "checkEmpty")
  /\ tags[req[o].reg][req[o].repo] = {}
  /\ Go(o, "deleteConfig")
  /\ UNCHANGED <<storeVars, req, loc, tags>>

DeleteRepositoryCheckEmpty(o) ==
  LET empty == tags[req[o].reg][req[o].repo] = {} IN
  /\ At(o, "checkEmpty")
  /\ \/ empty /\ Go(o, "deleteConfig") /\ UNCHANGED loc
     \/ ~empty /\ Fail(o, "FAILED_PRECONDITION")
  /\ UNCHANGED <<storeVars, req, tags>>

DeleteRepositoryRow(o) ==
  LET r == req[o].reg  n == req[o].repo IN
  /\ At(o, "deleteConfig")
  /\ \/ /\ DeleteConfig(r, n, deleteRepoIntents(r, n))
        /\ Go(o, "succeed") /\ UNCHANGED loc
     \/ /\ guardRegistryActive(r) /\ configs[r][n] = NoConfig
        /\ Go(o, "succeed") /\ UNCHANGED <<storeVars, loc>>
     \/ GuardRefuses(o)
  /\ UNCHANGED <<req, tags>>

-----------------------------------------------------------------------------
(* DeleteTag, and the unregister intent when the last tag is gone.         *)

BeginDeleteTag(o) ==
  /\ Is(o, "DeleteTag")
  /\ At(o, "idle")
  /\ Announced(req[o].reg, req[o].repo)
  /\ Go(o, "deleteTag")
  /\ UNCHANGED <<storeVars, req, loc, tags>>

DeleteTagEngine(o) ==
  /\ At(o, "deleteTag")
  /\ Go(o, "listTags")
  /\ tags' = [tags EXCEPT ![req[o].reg][req[o].repo] = @ \ {req[o].tag}]
  /\ UNCHANGED <<storeVars, req, loc>>

DeleteTagList(o) ==
  /\ At(o, "listTags")
  /\ IF tags[req[o].reg][req[o].repo] = {}
       THEN Go(o, "unregister")
       ELSE Go(o, "succeed")
  /\ UNCHANGED <<storeVars, req, loc, tags>>

DeleteTagUnregister(o) ==
  /\ At(o, "unregister")
  /\ Go(o, "succeed")
  /\ emitRepoIntent(UnregisterIntentForRepo(req[o].reg, req[o].repo))
  /\ UNCHANGED <<req, loc, tags>>

-----------------------------------------------------------------------------
(* Push of a manifest (servePush): existence decides which check applies   *)
(* and, after the forward, whether the repository is announced.            *)

BeginPush(o) ==
  LET r == req[o].reg  n == req[o].repo  present == tags[r][n] # {} IN
  /\ Is(o, "Push")
  /\ At(o, "idle")
  /\ IF present THEN Announced(r, n) ELSE Issued(r)
  /\ Go(o, "forward")
  /\ loc' = [loc EXCEPT ![o].exists = present]
  /\ UNCHANGED <<storeVars, req, tags>>

PushForward(o) ==
  /\ At(o, "forward")
  /\ tags' = [tags EXCEPT ![req[o].reg][req[o].repo] = @ \union {req[o].tag}]
  /\ Go(o, IF loc[o].exists THEN "succeed" ELSE "registerPush")
  /\ UNCHANGED <<storeVars, req, loc>>

PushRegister(o) ==
  /\ At(o, "registerPush")
  /\ Go(o, "succeed")
  /\ emitRepoIntent(RegisterIntentForRepoPush(req[o].reg, req[o].repo))
  /\ UNCHANGED <<req, loc, tags>>

-----------------------------------------------------------------------------
(* What may happen to any request.                                         *)

\* A call fails: the next one before it takes effect, or the last one, whose
\* answer was lost, after.  A failed register intent of a push is only logged.
CallFails(o) ==
  /\ \/ pc[o] \in Calls \union {"succeed"} /\ Fail(o, "UNAVAILABLE")
     \/ At(o, "registerPush") /\ Go(o, "succeed") /\ UNCHANGED loc
  /\ UNCHANGED <<storeVars, req, tags>>

\* operations.Run writes the result of the worker into its Operation.
Finalize(o) ==
  /\ \/ At(o, "succeed") /\ Go(o, "ok")
     \/ At(o, "fail") /\ Go(o, "error")
  /\ loc' = [loc EXCEPT ![o] = [NoLocal EXCEPT !.list = loc[o].list, !.code = loc[o].code]]
  /\ UNCHANGED <<storeVars, req, tags>>

\* The process dies; nothing in the service picks the Operation up again.
Crash(o) ==
  /\ pc[o] \notin Final \union {"idle"}
  /\ Go(o, "dead")
  /\ loc' = [loc EXCEPT ![o] = [NoLocal EXCEPT !.list = loc[o].list]]
  /\ UNCHANGED <<storeVars, req, tags>>

RegistryStep(o) ==
  \/ BeginCreateRegistry(o) \/ CreateInsert(o) \/ CreateConflict(o)
  \/ BeginUpdateRegistry(o) \/ UpdateCommit(o) \/ UpdateRefused(o)
  \/ BeginDeleteRegistry(o) \/ DeleteMark(o) \/ DeleteRecheck(o) \/ DeleteRow(o)

OverlayStep(o) ==
  \/ BeginCreateRepository(o) \/ CreateRepositoryInsert(o) \/ ReadProjection(o)
  \/ BeginUpdateRepository(o) \/ UpdateRepositoryPatch(o)
  \/ UpdateRepositoryReadDefault(o) \/ UpdateRepositoryPromote(o)
  \/ UpdateRepositoryRetry(o)
  \/ BeginDeleteRepository(o) \/ DeleteRepositoryCheckEmpty(o)
  \/ DeleteRepositoryRow(o)

RenameStep(o) ==
  \/ BeginRename(o) \/ RenameReadOld(o) \/ RenameCheckOverlay(o)
  \/ RenameCheckProjection(o) \/ RenameList(o) \/ RenameCopy(o) \/ RenameDrop(o)
  \/ RenameReadRegistry(o) \/ RenameRekey(o)

ContentStep(o) ==
  \/ BeginDeleteTag(o) \/ DeleteTagEngine(o) \/ DeleteTagList(o)
  \/ DeleteTagUnregister(o)
  \/ BeginPush(o) \/ PushForward(o) \/ PushRegister(o)

Progress(o) ==
  RegistryStep(o) \/ OverlayStep(o) \/ RenameStep(o) \/ ContentStep(o) \/ Finalize(o)

CPNext == \E o \in Op : Progress(o) \/ CallFails(o) \/ Crash(o)

CPSpec == CPInit /\ [][CPNext]_vars

\* The same without a failed call or a dead process.
FaultFreeSpec == CPInit /\ [][\E o \in Op : Progress(o)]_vars

\* A goroutine whose next call is possible makes it: every call returns, for
\* the worker's context carries a deadline.  Nothing obliges a client to send
\* a request, a call to fail or a process to die.
Fairness == \A o \in Op : WF_vars(pc[o] # "idle" /\ Progress(o))

FairSpec == CPSpec /\ Fairness

-----------------------------------------------------------------------------
(* Properties                                                              *)

\* Every state change of every use case, whatever it races with, is one
\* transaction of the store: no handler writes rows and intents apart.
StoreBehaviour == StoreSpec

PhaseOf(r) ==
  IF Exists(r) THEN registries[r].status ELSE IF Issued(r) THEN "gone" ELSE "unborn"

AnnouncedOf(r) ==
  IF \E i \in DOMAIN outbox : UnregistersRegistry(i, r) THEN "unregister"
  ELSE IF Issued(r) THEN "register" ELSE "nothing"

Life == INSTANCE RegistryLife
  WITH phase     <- [r \in RegId |-> PhaseOf(r)],
       announced <- [r \in RegId |-> AnnouncedOf(r)]

\* Under racing, retried, failing and dying creates, updates and deletes a
\* registry lives the one life that create.go and delete.go promise.
LifeBehaviour == Life!Spec

\* delete.go answers a delete with success on three paths (deleted here, found
\* already gone twice): on none of them may the row still be there.
DeleteOkMeansGone ==
  \A o \in Op : Is(o, "DeleteRegistry") /\ pc[o] \in {"succeed", "ok"} =>
    Issued(req[o].reg) /\ ~Exists(req[o].reg)

LastIntent(i, kind, r, n) ==
  /\ outbox[i].kind = kind /\ outbox[i].reg = r /\ outbox[i].repo = n
  /\ \A j \in DOMAIN outbox : j > i =>
       ~(outbox[j].kind = kind /\ outbox[j].reg = r /\ outbox[j].repo = n)

\* The last word to iam about (r, n) in this kind of object was "event".
LastWord(kind, event, r, n) ==
  \E i \in DOMAIN outbox : LastIntent(i, kind, r, n) /\ outbox[i].event = event

\* fga_intent.go: "visibility=PUBLIC <=> the tuple is there".  What iam is told
\* last about anonymous reads is what the overlay row says, through concurrent
\* creations, visibility flips, promotions, deletions and renames.
GrantFollowsVisibility ==
  \A r \in RegId, n \in RepoName :
    configs[r][n] = "PUBLIC" <=> LastWord("PublicGrant", "register", r, n)

\* A durable repository outlives its tags (0005_repository_configs.sql): iam is
\* never left with "unregistered" as the last word on one.
DurableStaysRegistered ==
  \A r \in RegId, n \in RepoName :
    configs[r][n] # NoConfig => ~LastWord("Repository", "unregister", r, n)

Renaming(o) == Is(o, "RenameRepository")

\* zot/repository.go: a tag being re-homed is at every moment addressable under
\* the old name or under the new one, also when the rename stops half-way.
RenameKeepsAddressable ==
  \A o \in Op : Renaming(o) =>
    \A t \in loc[o].list :
      t \in tags[req[o].reg][req[o].repo] \union tags[req[o].reg][req[o].newName]

\* rename_repository.go: the overlay changes its name only after all of the
\* content has, so that a failed rename leaves it where the content still is.
OverlayMovesLast ==
  [][\A o \in Op : Renaming(o) =>
       LET r == req[o].reg  old == req[o].repo  new == req[o].newName IN
       pc[o] = "rekey" /\ pc'[o] = "project" =>
         loc[o].list \subseteq tags[r][new] /\ configs'[r][new] # NoConfig]_vars

\* Every persisted Operation is finished unless its process died: no worker is
\* left without a next call, whatever the others did to its rows and tags.
OperationsFinish ==
  \A o \in Op : pc[o] # "idle" ~> pc[o] \in Final
=============================================================================
