------------------------ MODULE ControlPlane_proofs ------------------------
(***************************************************************************)
(* Proofs about ControlPlane, for any number of requests of any kinds on   *)
(* any registries, repositories and tags, with failed calls and dead       *)
(* workers.                                                                *)
(*                                                                         *)
(* Every step of a worker is a transaction of RegistryStore or leaves the  *)
(* store alone, so the invariant of the store holds here too. On it rest,  *)
(* in this order: deletes and the life of a registry; renames, where a     *)
(* worker is to find the tags it listed; what iam is told last about the   *)
(* anonymous reads of a repository; what iam has heard of the repositories *)
(* that have a row or content; and what it was told to forget.             *)
(*                                                                         *)
(* A worker acts on what it read several calls before, and the service     *)
(* does not fence off the others meanwhile. Where that matters the         *)
(* theorems have a hypothesis on requests: which of them wait for the      *)
(* Operation of which others (RenamesInTurn, UpdatesInTurn, FillsInTurn),  *)
(* or which are not made (NoRegistryDeleted, DurableTagsSpared,            *)
(* TargetLeftAlone, SourceLeftAlone). None of these speaks of the overlay, *)
(* of content or of what a worker read: that what was read still holds is  *)
(* proved. Two hypotheses are about the environment, AdmitsByLastWord      *)
(* about iam and IntentsCommit about failures.                             *)
(***************************************************************************)
EXTENDS ControlPlane, RegistryStore_proofs

-----------------------------------------------------------------------------
(* Requests and programs.                                                  *)

LEMMA RequestFields ==
  ASSUME NEW q \in Request
  PROVE  /\ q.reg \in RegId
         /\ q.kind \in {"CreateRepository", "UpdateRepository", "RenameRepository",
                        "DeleteRepository", "DeleteTag", "Push"} => q.repo \in RepoName
         /\ q.kind = "CreateRegistry" =>
              q.project \in Project /\ q.name \in RegName /\ q.labels \in Labels
         /\ q.kind = "UpdateRegistry" =>
              q.name \in RegName /\ q.labels \in Labels /\ q.vis \in Visibility
         /\ q.kind = "UpdateRepository" =>
              q.applyVisibility \in BOOLEAN /\ q.vis \in Visibility
         /\ q.kind = "RenameRepository" => q.newName \in RepoName
         /\ q.kind \in {"DeleteTag", "Push"} => q.tag \in Tag
  BY DEF Request, RepoRequest

\* Where a handler or worker may be.
Place == {"idle", "succeed", "fail"} \union Calls \union Final

\* Which requests make which calls.
MayCall(kind, call) ==
  /\ call = "insert" => kind = "CreateRegistry"
  /\ call = "update" => kind = "UpdateRegistry"
  /\ call \in {"mark", "recheck", "delete"} => kind = "DeleteRegistry"
  /\ call = "insertConfig" => kind = "CreateRepository"
  /\ call \in {"updateConfig", "readDefault", "promote", "retryUpdate"} =>
       kind = "UpdateRepository"
  /\ call \in {"readOld", "checkOverlay", "checkProjection", "list", "copy", "drop",
               "readRegistry", "rekey"} => kind = "RenameRepository"
  /\ call \in {"checkEmpty", "deleteConfig"} => kind = "DeleteRepository"
  /\ call \in {"deleteTag", "listTags", "unregister"} => kind = "DeleteTag"
  /\ call \in {"forward", "registerPush"} => kind = "Push"
  /\ call = "project" =>
       kind \in {"CreateRepository", "UpdateRepository", "RenameRepository"}

CallsOfKind == \A o \in Op : MayCall(req[o].kind, pc[o])

\* A worker about to write an overlay row has resolved its visibility.
VisibilityResolved ==
  \A o \in Op : pc[o] \in {"insertConfig", "promote", "rekey"} => loc[o].vis \in Visibility

WorkersOK ==
  /\ CPTypeOK
  /\ req \in Inbox
  /\ CallsOfKind
  /\ VisibilityResolved

-----------------------------------------------------------------------------
(* Every step is a transaction of the store, or leaves the store alone.    *)

\* The transactions whose intents depend on nothing a worker read before.
PlainTx ==
  \E r \in RegId :
    \/ \E p \in Project, n \in RegName, l \in Labels : Insert(r, p, n, l)
    \/ \E n \in RegName, l \in Labels, v \in Visibility : Update(r, n, l, v)
    \/ MarkDeleting(r)
    \/ \E n \in RepoName :
         \/ \E v \in Visibility :
              \/ InsertConfig(r, n, v, createRepoIntents(r, n, v))
              \/ UpdateConfig(r, n, v, updateGovernanceIntents(r, n, TRUE, v))
         \/ UpdateConfig(r, n, configs[r][n], <<>>)
         \/ DeleteConfig(r, n, deleteRepoIntents(r, n))
         \/ emitRepoIntent(RegisterIntentForRepoPush(r, n))

\* The others, each with the worker that commits it.
Removes(o) ==
  Is(o, "DeleteRegistry") /\ pc[o] = "delete" /\ Delete(req[o].reg)

Promotes(o) ==
  LET r == req[o].reg  n == req[o].repo  v == loc[o].vis IN
  /\ Is(o, "UpdateRepository") /\ pc[o] = "promote" /\ pc'[o] = "project"
  /\ InsertConfig(r, n, v, PublicGrantIf(r, n, v))

Rekeys(o) ==
  LET r == req[o].reg  old == req[o].repo  new == req[o].newName  v == loc[o].vis IN
  /\ Renaming(o) /\ pc[o] = "rekey" /\ pc'[o] = "project"
  /\ \/ loc[o].exists /\ RekeyConfig(r, old, new, renameIntents(r, old, new, v))
     \/ ~loc[o].exists /\ InsertConfig(r, new, v, renameIntents(r, old, new, v))

Unregisters(o) ==
  /\ Is(o, "DeleteTag") /\ pc[o] = "unregister" /\ pc'[o] = "succeed"
  /\ emitRepoIntent(UnregisterIntentForRepo(req[o].reg, req[o].repo))

StoreStep(o) ==
  UNCHANGED storeVars \/ PlainTx \/ Removes(o) \/ Promotes(o) \/ Rekeys(o) \/ Unregisters(o)

LEMMA RegistryStepInStore ==
  ASSUME WorkersOK, NEW o \in Op, RegistryStep(o)
  PROVE  StoreStep(o)
<1> DEFINE q == req[o]
<1>0. q \in Request /\ q.reg \in RegId /\ pc \in [Op -> Place]
  BY RequestFields DEF WorkersOK, CPTypeOK, Place
<1>1. CASE UNCHANGED storeVars
  BY <1>1 DEF StoreStep
<1>2. CASE CreateInsert(o)
  <2>1. q.project \in Project /\ q.name \in RegName /\ q.labels \in Labels
    BY <1>0, <1>2, RequestFields DEF CreateInsert, WorkersOK, CallsOfKind, MayCall, Is, At
  <2>2. Insert(q.reg, q.project, q.name, q.labels)
    BY <1>2 DEF CreateInsert
  <2> QED BY <1>0, <2>1, <2>2 DEF StoreStep, PlainTx
<1>3. CASE UpdateCommit(o)
  <2> DEFINE row == registries[q.reg]
             n == Patched(q, "name", q.name, row.name)
             l == Patched(q, "labels", q.labels, row.labels)
             v == Patched(q, "default_visibility", q.vis, row.defaultVisibility)
  <2>1. q.name \in RegName /\ q.labels \in Labels /\ q.vis \in Visibility
    BY <1>0, <1>3, RequestFields DEF UpdateCommit, WorkersOK, CallsOfKind, MayCall, Is, At
  <2>2. Active(q.reg) /\ Update(q.reg, n, l, v)
    BY <1>3 DEF UpdateCommit
  <2>3. row \in Row
    BY <1>0, <2>2 DEF Active, Exists, WorkersOK, CPTypeOK, StoreTypeOK
  <2>4. n \in RegName /\ l \in Labels /\ v \in Visibility
    BY <2>1, <2>3 DEF Patched, Row
  <2> HIDE DEF n, l, v
  <2> QED BY <1>0, <2>2, <2>4 DEF StoreStep, PlainTx
<1>4. CASE DeleteMark(o)
  BY <1>0, <1>1, <1>4 DEF DeleteMark, StoreStep, PlainTx
<1>5. CASE DeleteRow(o)
  <2>1. Is(o, "DeleteRegistry") /\ pc[o] = "delete"
    BY <1>5 DEF DeleteRow, WorkersOK, CallsOfKind, MayCall, Is, At
  <2> QED BY <1>1, <1>5, <2>1 DEF DeleteRow, StoreStep, Removes
<1> QED BY <1>1, <1>2, <1>3, <1>4, <1>5
        DEF RegistryStep, BeginCreateRegistry, CreateConflict, BeginUpdateRegistry,
            UpdateRefused, BeginDeleteRegistry, DeleteRecheck

LEMMA PatchIsTx ==
  ASSUME NEW q \in Request, q.kind = "UpdateRepository", PatchConfig(q)
  PROVE  PlainTx
<1>1. /\ q.reg \in RegId /\ q.repo \in RepoName
      /\ q.applyVisibility \in BOOLEAN /\ q.vis \in Visibility
  BY RequestFields
<1>2. CASE q.applyVisibility
  <2>1. UpdateConfig(q.reg, q.repo, q.vis, updateGovernanceIntents(q.reg, q.repo, TRUE, q.vis))
    BY <1>1, <1>2 DEF PatchConfig
  <2> QED BY <1>1, <2>1 DEF PlainTx
<1>3. CASE ~q.applyVisibility
  <2>1. UpdateConfig(q.reg, q.repo, configs[q.reg][q.repo], << >>)
    BY <1>3 DEF PatchConfig, updateGovernanceIntents
  <2> QED BY <1>1, <2>1 DEF PlainTx
<1> QED BY <1>1, <1>2, <1>3

LEMMA OverlayStepInStore ==
  ASSUME WorkersOK, NEW o \in Op, OverlayStep(o)
  PROVE  StoreStep(o)
<1> DEFINE q == req[o]
<1>0. q \in Request /\ q.reg \in RegId /\ pc \in [Op -> Place]
  BY RequestFields DEF WorkersOK, CPTypeOK, Place
<1>1. CASE UNCHANGED storeVars
  BY <1>1 DEF StoreStep
<1>2. CASE CreateRepositoryInsert(o)
  <2>1. q.repo \in RepoName /\ loc[o].vis \in Visibility
    BY <1>0, <1>2, RequestFields
       DEF CreateRepositoryInsert, WorkersOK, CallsOfKind, MayCall, VisibilityResolved, Is, At
  <2> QED BY <1>0, <1>2, <2>1
          DEF CreateRepositoryInsert, StatementFails, GuardRefuses, StoreStep, PlainTx
<1>3. CASE UpdateRepositoryPatch(o) \/ UpdateRepositoryRetry(o)
  <2>1. q.kind = "UpdateRepository"
    BY <1>3 DEF UpdateRepositoryPatch, UpdateRepositoryRetry, WorkersOK, CallsOfKind, MayCall, Is, At
  <2> QED BY <1>0, <1>3, <2>1, PatchIsTx
          DEF UpdateRepositoryPatch, UpdateRepositoryRetry, StatementFails, GuardRefuses, StoreStep
<1>4. CASE UpdateRepositoryPromote(o)
  <2>1. Is(o, "UpdateRepository") /\ pc[o] = "promote"
    BY <1>4 DEF UpdateRepositoryPromote, WorkersOK, CallsOfKind, MayCall, Is, At
  <2>2. Go(o, "project") => pc'[o] = "project"
    BY <1>0 DEF Go
  <2> QED BY <1>1, <1>4, <2>1, <2>2 DEF UpdateRepositoryPromote, GuardRefuses, StoreStep, Promotes
<1>5. CASE DeleteRepositoryRow(o)
  <2>1. q.repo \in RepoName
    BY <1>0, <1>5, RequestFields DEF DeleteRepositoryRow, WorkersOK, CallsOfKind, MayCall, Is, At
  <2> QED BY <1>0, <1>5, <2>1
          DEF DeleteRepositoryRow, GuardRefuses, StoreStep, PlainTx
<1> QED BY <1>1, <1>2, <1>3, <1>4, <1>5
        DEF OverlayStep, BeginCreateRepository, ReadProjection, BeginUpdateRepository,
            UpdateRepositoryReadDefault, BeginDeleteRepository, DeleteRepositoryCheckEmpty

LEMMA RenameStepInStore ==
  ASSUME WorkersOK, NEW o \in Op, RenameStep(o)
  PROVE  StoreStep(o)
<1> DEFINE q == req[o]
<1>0. q \in Request /\ q.reg \in RegId /\ pc \in [Op -> Place]
  BY RequestFields DEF WorkersOK, CPTypeOK, Place
<1>1. CASE UNCHANGED storeVars
  BY <1>1 DEF StoreStep
<1>2. CASE RenameRekey(o)
  <2>1. Renaming(o) /\ pc[o] = "rekey"
    BY <1>2 DEF RenameRekey, WorkersOK, CallsOfKind, MayCall, Is, At, Renaming
  <2>2. Go(o, "project") => pc'[o] = "project"
    BY <1>0 DEF Go
  <2> QED BY <1>1, <1>2, <2>1, <2>2
          DEF RenameRekey, StatementFails, GuardRefuses, StoreStep, Rekeys
<1> QED BY <1>1, <1>2
        DEF RenameStep, BeginRename, RenameReadOld, RenameCheckOverlay,
            RenameCheckProjection, TargetFree, RenameList, RenameCopy, RenameDrop,
            RenameReadRegistry

LEMMA ContentStepInStore ==
  ASSUME WorkersOK, NEW o \in Op, ContentStep(o)
  PROVE  StoreStep(o)
<1> DEFINE q == req[o]
<1>0. q \in Request /\ q.reg \in RegId /\ pc \in [Op -> Place]
  BY RequestFields DEF WorkersOK, CPTypeOK, Place
<1>1. CASE UNCHANGED storeVars
  BY <1>1 DEF StoreStep
<1>2. CASE DeleteTagUnregister(o)
  <2>1. Is(o, "DeleteTag") /\ pc[o] = "unregister" /\ pc'[o] = "succeed"
    BY <1>0, <1>2 DEF DeleteTagUnregister, WorkersOK, CallsOfKind, MayCall, Is, At, Go
  <2> QED BY <1>2, <2>1 DEF DeleteTagUnregister, StoreStep, Unregisters
<1>3. CASE PushRegister(o)
  <2>1. q.repo \in RepoName
    BY <1>0, <1>3, RequestFields DEF PushRegister, WorkersOK, CallsOfKind, MayCall, Is, At
  <2> QED BY <1>0, <1>3, <2>1 DEF PushRegister, StoreStep, PlainTx
<1> QED BY <1>1, <1>2, <1>3
        DEF ContentStep, BeginDeleteTag, DeleteTagEngine, DeleteTagList, BeginPush,
            PushForward

LEMMA StepInStore ==
  ASSUME WorkersOK, NEW o \in Op, Progress(o) \/ CallFails(o) \/ Crash(o)
  PROVE  StoreStep(o)
<1>1. CASE UNCHANGED storeVars
  BY <1>1 DEF StoreStep
<1> QED BY <1>1, RegistryStepInStore, OverlayStepInStore, RenameStepInStore, ContentStepInStore
        DEF Progress, CallFails, Crash, Finalize

LEMMA StepIsTx ==
  ASSUME WorkersOK, [CPNext]_vars
  PROVE  [StoreNext]_storeVars
<1>1. CASE UNCHANGED vars
  BY <1>1 DEF vars, storeVars
<1>2. PlainTx => StoreNext
  BY DEF PlainTx, StoreNext, RegistryTx, ConfigTx, RepoTx
<1>3. ASSUME NEW o \in Op, Removes(o) \/ Promotes(o) \/ Rekeys(o) \/ Unregisters(o)
      PROVE  StoreNext
  <2>1. req[o] \in Request /\ req[o].reg \in RegId /\ req \in Inbox
    BY RequestFields DEF WorkersOK, CPTypeOK
  <2>2. CASE Removes(o)
    BY <2>1, <2>2 DEF Removes, StoreNext, RegistryTx
  <2>3. CASE Promotes(o)
    <3>1. req[o].repo \in RepoName /\ loc[o].vis \in Visibility
      BY <2>1, <2>3, RequestFields DEF Promotes, Is, WorkersOK, VisibilityResolved
    <3> QED BY <2>1, <2>3, <3>1 DEF Promotes, StoreNext, ConfigTx
  <2>4. CASE Rekeys(o)
    <3>1. req[o].kind = "RenameRepository" /\ loc[o].vis \in Visibility
      BY <2>4 DEF Rekeys, Renaming, Is, WorkersOK, VisibilityResolved
    <3>2. req[o].newName \in RepoName /\ req[o].repo \in RepoName \ {req[o].newName}
      BY <2>1, <3>1, RequestFields, InboxAssumption
    <3> QED BY <2>1, <2>4, <3>1, <3>2 DEF Rekeys, StoreNext, ConfigTx
  <2>5. CASE Unregisters(o)
    <3>1. req[o].repo \in RepoName
      BY <2>1, <2>5, RequestFields DEF Unregisters, Is
    <3> QED BY <2>1, <2>5, <3>1 DEF Unregisters, StoreNext, RepoTx
  <2> QED BY <1>3, <2>2, <2>3, <2>4, <2>5
<1>4. CASE CPNext
  BY <1>2, <1>3, <1>4, StepInStore DEF CPNext, StoreStep
<1> QED BY <1>1, <1>4

-----------------------------------------------------------------------------
(* What one worker does is of no concern to what the others remember.      *)

\* The step of worker o leads it to "call" with "l" in mind.
Moves(o, call, l) ==
  /\ req' = req
  /\ pc' = [pc EXCEPT ![o] = call]
  /\ loc' = [loc EXCEPT ![o] = l]
  /\ tags' \in [RegId -> [RepoName -> SUBSET Tag]]

LEMMA MovesOK ==
  ASSUME WorkersOK, StoreTypeOK', NEW o \in Op, NEW call \in Place, NEW l \in Local,
         Moves(o, call, l), MayCall(req[o].kind, call),
         call \in {"insertConfig", "promote", "rekey"} => l.vis \in Visibility
  PROVE  WorkersOK'
<1>1. /\ req' = req /\ req \in Inbox /\ req \in [Op -> Request]
      /\ pc \in [Op -> Place] /\ loc \in [Op -> Local]
  BY DEF Moves, WorkersOK, CPTypeOK, Place
<1>2. pc' \in [Op -> Place] /\ pc'[o] = call /\ \A p \in Op : p # o => pc'[p] = pc[p]
  BY <1>1 DEF Moves
<1>3. loc' \in [Op -> Local] /\ loc'[o] = l /\ \A p \in Op : p # o => loc'[p] = loc[p]
  BY <1>1 DEF Moves
<1>4. CPTypeOK'
  BY <1>1, <1>2, <1>3 DEF CPTypeOK, Place, Moves
<1>5. CallsOfKind'
  BY <1>1, <1>2 DEF CallsOfKind, WorkersOK
<1>6. VisibilityResolved'
  BY <1>2, <1>3 DEF VisibilityResolved, WorkersOK
<1> QED BY <1>1, <1>4, <1>5, <1>6 DEF WorkersOK

LEMMA LocalUpdates ==
  ASSUME NEW l \in Local
  PROVE  /\ \A v \in Visibility \union {NoConfig} :
              [l EXCEPT !.vis = v] \in Local /\ [l EXCEPT !.vis = v].vis = v
         /\ \A b \in BOOLEAN : [l EXCEPT !.exists = b] \in Local
         /\ \A b \in BOOLEAN, v \in Visibility :
              LET m == [l EXCEPT !.exists = b, !.vis = v]
              IN  m \in Local /\ m.vis = v
         /\ \A s \in SUBSET Tag :
              /\ [l EXCEPT !.left = s] \in Local
              /\ [l EXCEPT !.list = s, !.left = s] \in Local
         /\ [l EXCEPT !.code = "UNAVAILABLE"] \in Local
         /\ [l EXCEPT !.code = "NOT_FOUND"] \in Local
         /\ [l EXCEPT !.code = "ALREADY_EXISTS"] \in Local
         /\ [l EXCEPT !.code = "FAILED_PRECONDITION"] \in Local
         /\ [NoLocal EXCEPT !.list = l.list, !.code = l.code] \in Local
         /\ [NoLocal EXCEPT !.list = l.list] \in Local
  BY DEF Local, NoLocal

LEMMA GoesOK ==
  ASSUME WorkersOK, StoreTypeOK', NEW o \in Op,
         NEW call \in Place \ {"insertConfig", "promote", "rekey"}, Go(o, call),
         UNCHANGED <<req, loc, tags>>, MayCall(req[o].kind, call)
  PROVE  WorkersOK'
<1>1. loc \in [Op -> Local] /\ tags \in [RegId -> [RepoName -> SUBSET Tag]]
  BY DEF WorkersOK, CPTypeOK
<1>2. Moves(o, call, loc[o]) /\ loc[o] \in Local
  BY <1>1 DEF Moves, Go
<1> QED BY <1>2, MovesOK

LEMMA FailsOK ==
  ASSUME WorkersOK, StoreTypeOK', NEW o \in Op,
         NEW code \in {"NOT_FOUND", "ALREADY_EXISTS", "FAILED_PRECONDITION", "UNAVAILABLE"},
         Fail(o, code), UNCHANGED <<req, tags>>
  PROVE  WorkersOK'
<1> DEFINE l == [loc[o] EXCEPT !.code = code]
<1>1. loc \in [Op -> Local] /\ tags \in [RegId -> [RepoName -> SUBSET Tag]]
  BY DEF WorkersOK, CPTypeOK
<1>2. l \in Local
  BY <1>1, LocalUpdates
<1>3. Moves(o, "fail", l)
  BY <1>1 DEF Moves, Fail, Go
<1>4. "fail" \in Place /\ MayCall(req[o].kind, "fail")
  BY DEF Place, MayCall
<1> HIDE DEF l
<1> QED BY <1>2, <1>3, <1>4, MovesOK

\* The calls that a Go of these actions leads to.
LEMMA Places ==
  /\ Calls \subseteq Place
  /\ {"succeed", "fail", "ok", "error", "dead"} \subseteq Place \ {"insertConfig", "promote", "rekey"}
  /\ Calls \ {"insertConfig", "promote", "rekey"} \subseteq Place \ {"insertConfig", "promote", "rekey"}
  /\ \A kind : \A call \in {"succeed", "fail", "ok", "error", "dead"} : MayCall(kind, call)
  BY DEF Place, Calls, Final, MayCall

LEMMA RegistryStepOK ==
  ASSUME WorkersOK, StoreTypeOK', NEW o \in Op, RegistryStep(o)
  PROVE  WorkersOK'
<1>1. CASE CreateConflict(o) \/ UpdateRefused(o)
  BY <1>1, FailsOK DEF CreateConflict, UpdateRefused
<1>2. CASE CreateInsert(o) \/ UpdateCommit(o) \/ DeleteRow(o)
  BY <1>2, GoesOK, Places DEF CreateInsert, UpdateCommit, DeleteRow
<1>3. CASE BeginCreateRegistry(o) \/ BeginUpdateRegistry(o) \/ BeginDeleteRegistry(o)
  <2>1. PICK call \in {"insert", "update", "mark"} :
          Go(o, call) /\ UNCHANGED <<req, loc, tags>> /\ MayCall(req[o].kind, call)
    BY <1>3 DEF BeginCreateRegistry, BeginUpdateRegistry, BeginDeleteRegistry, Is, MayCall
  <2> QED BY <2>1, GoesOK DEF Place, Calls
<1>4. CASE DeleteMark(o)
  <2>1. MayCall(req[o].kind, "recheck")
    BY <1>4 DEF DeleteMark, At, WorkersOK, CallsOfKind, MayCall
  <2>2. "recheck" \in Place \ {"insertConfig", "promote", "rekey"}
    BY DEF Place, Calls
  <2> QED BY <1>4, <2>1, <2>2, GoesOK, Places DEF DeleteMark
<1>5. CASE DeleteRecheck(o)
  <2>1. MayCall(req[o].kind, "delete")
    BY <1>5 DEF DeleteRecheck, At, WorkersOK, CallsOfKind, MayCall
  <2>2. "delete" \in Place \ {"insertConfig", "promote", "rekey"}
    BY DEF Place, Calls
  <2> QED BY <1>5, <2>1, <2>2, GoesOK, FailsOK DEF DeleteRecheck
<1> QED BY <1>1, <1>2, <1>3, <1>4, <1>5 DEF RegistryStep

\* A Begin action, or a call that goes on to the next call of the same program.
LEMMA OnwardOK ==
  ASSUME WorkersOK, StoreTypeOK', NEW o \in Op,
         NEW call \in Calls \ {"insertConfig", "promote", "rekey"},
         Go(o, call), UNCHANGED <<req, loc, tags>>, MayCall(req[o].kind, call)
  PROVE  WorkersOK'
  BY GoesOK, Places

LEMMA OverlayStepOK ==
  ASSUME WorkersOK, StoreTypeOK', NEW o \in Op, OverlayStep(o)
  PROVE  WorkersOK'
<1> DEFINE q == req[o]
<1>0. /\ q \in Request /\ q.reg \in RegId /\ loc[o] \in Local /\ MayCall(q.kind, pc[o])
      /\ loc \in [Op -> Local] /\ tags \in [RegId -> [RepoName -> SUBSET Tag]]
      /\ registries \in [RegId -> Row \union {NoRow}]
  BY RequestFields DEF WorkersOK, CPTypeOK, CallsOfKind, StoreTypeOK
<1>1. CASE BeginCreateRepository(o)
  <2> DEFINE v == resolveVisibility(q.vis, registries[q.reg].defaultVisibility)
             l == [loc[o] EXCEPT !.vis = v]
  <2>1. v \in Visibility
    BY <1>0, <1>1 DEF BeginCreateRepository, resolveVisibility, Exists, Row
  <2>2. l \in Local /\ l.vis \in Visibility
    BY <1>0, <2>1, LocalUpdates
  <2>3. Moves(o, "insertConfig", l)
    BY <1>0, <1>1 DEF BeginCreateRepository, Moves, Go
  <2>4. "insertConfig" \in Place /\ MayCall(q.kind, "insertConfig")
    BY <1>1 DEF Place, Calls, BeginCreateRepository, Is, MayCall
  <2> HIDE DEF l
  <2> QED BY <2>2, <2>3, <2>4, MovesOK
<1>2. CASE UpdateRepositoryReadDefault(o)
  <2>1. CASE Fail(o, "NOT_FOUND")
    BY <1>2, <2>1, FailsOK DEF UpdateRepositoryReadDefault
  <2>2. CASE Exists(q.reg) /\ ~Fail(o, "NOT_FOUND")
    <3> DEFINE v == IF q.applyVisibility THEN q.vis ELSE registries[q.reg].defaultVisibility
               l == [loc[o] EXCEPT !.vis = v]
    <3>1. v \in Visibility
      BY <1>0, <1>2, <2>2, RequestFields DEF UpdateRepositoryReadDefault, At, MayCall, Exists, Row
    <3>2. l \in Local /\ l.vis \in Visibility
      <4> HIDE DEF v
      <4> QED BY <1>0, <3>1, LocalUpdates
    <3>3. Moves(o, "promote", l)
      BY <1>0, <1>2, <2>2 DEF UpdateRepositoryReadDefault, Moves, Go
    <3>4. "promote" \in Place /\ MayCall(q.kind, "promote")
      BY <1>0, <1>2 DEF Place, Calls, UpdateRepositoryReadDefault, At, MayCall
    <3> HIDE DEF l
    <3> QED BY <3>2, <3>3, <3>4, MovesOK
  <2> QED BY <1>2, <2>1, <2>2 DEF UpdateRepositoryReadDefault
<1>3. CASE BeginUpdateRepository(o) \/ BeginDeleteRepository(o)
  <2>1. PICK call \in {"updateConfig", "checkEmpty"} :
          Go(o, call) /\ UNCHANGED <<req, loc, tags>> /\ MayCall(q.kind, call)
    BY <1>3 DEF BeginUpdateRepository, BeginDeleteRepository, Is, MayCall
  <2> QED BY <2>1, OnwardOK DEF Calls
<1>4. CASE CreateRepositoryInsert(o) \/ UpdateRepositoryPatch(o) \/ UpdateRepositoryPromote(o)
           \/ UpdateRepositoryRetry(o)
  <2>1. /\ \A call \in {"project", "readDefault", "retryUpdate"} :
             call \in Calls \ {"insertConfig", "promote", "rekey"}
        /\ MayCall(q.kind, "project")
        /\ ~At(o, "insertConfig") => MayCall(q.kind, "readDefault") /\ MayCall(q.kind, "retryUpdate")
    BY <1>0, <1>4 DEF CreateRepositoryInsert, UpdateRepositoryPatch, UpdateRepositoryPromote,
         UpdateRepositoryRetry, At, MayCall, Calls
  <2>2. CASE \E call \in {"project", "readDefault", "retryUpdate"} :
               Go(o, call) /\ MayCall(q.kind, call) /\ UNCHANGED <<req, loc, tags>>
    BY <2>1, <2>2, OnwardOK
  <2> QED BY <1>4, <2>1, <2>2, FailsOK
          DEF CreateRepositoryInsert, UpdateRepositoryPatch, UpdateRepositoryPromote,
              UpdateRepositoryRetry, StatementFails, GuardRefuses, At
<1>5. CASE ReadProjection(o)
  BY <1>5, GoesOK, Places DEF ReadProjection
<1>6. CASE DeleteRepositoryCheckEmpty(o)
  <2>1. "deleteConfig" \in Calls /\ MayCall(q.kind, "deleteConfig")
    BY <1>0, <1>6 DEF DeleteRepositoryCheckEmpty, At, MayCall, Calls
  <2> QED BY <1>6, <2>1, OnwardOK, FailsOK DEF DeleteRepositoryCheckEmpty
<1>7. CASE DeleteRepositoryRow(o)
  BY <1>7, GoesOK, FailsOK, Places DEF DeleteRepositoryRow, GuardRefuses
<1> QED BY <1>1, <1>2, <1>3, <1>4, <1>5, <1>6, <1>7 DEF OverlayStep

LEMMA RenameStepOK ==
  ASSUME WorkersOK, StoreTypeOK', NEW o \in Op, RenameStep(o)
  PROVE  WorkersOK'
<1> DEFINE q == req[o]
<1> DEFINE Tags == [RegId -> [RepoName -> SUBSET Tag]]
<1>0. /\ q \in Request /\ q.reg \in RegId /\ loc[o] \in Local /\ MayCall(q.kind, pc[o])
      /\ loc \in [Op -> Local] /\ pc \in [Op -> Place] /\ tags \in Tags
      /\ registries \in [RegId -> Row \union {NoRow}]
      /\ configs \in [RegId -> [RepoName -> Visibility \union {NoConfig}]]
  BY RequestFields DEF WorkersOK, CPTypeOK, CallsOfKind, StoreTypeOK, Place
<1>1. Is(o, "RenameRepository") /\ q.repo \in RepoName /\ q.newName \in RepoName
  BY <1>0, RequestFields DEF RenameStep, BeginRename, RenameReadOld, RenameCheckOverlay,
       RenameCheckProjection, RenameList, RenameCopy, RenameDrop, RenameReadRegistry,
       RenameRekey, At, Is, MayCall
<1>2. /\ \A call \in Place : MayCall(q.kind, call) <=>
           call \in {"readOld", "checkOverlay", "checkProjection", "list", "copy", "drop",
                     "readRegistry", "rekey", "project", "idle", "succeed", "fail"} \union Final
      /\ {"readOld", "checkOverlay", "checkProjection", "list", "copy", "drop",
          "readRegistry", "project"} \subseteq Calls \ {"insertConfig", "promote", "rekey"}
  BY <1>1 DEF Is, MayCall, Place, Calls, Final
<1>3. {"readOld", "checkOverlay", "checkProjection", "list", "copy", "drop",
       "readRegistry", "rekey", "project"} \subseteq Place
  BY DEF Place, Calls
<1>4. CASE BeginRename(o)
  BY <1>2, <1>3, <1>4, OnwardOK DEF BeginRename
<1>5. CASE RenameReadOld(o)
  <2> DEFINE l == [loc[o] EXCEPT !.vis = configs[q.reg][q.repo]]
  <2>1. l \in Local
    <3>1. configs[q.reg][q.repo] \in Visibility \union {NoConfig}
      BY <1>0, <1>1
    <3> QED BY <1>0, <3>1, LocalUpdates
  <2>2. Moves(o, "checkOverlay", l)
    BY <1>0, <1>5 DEF RenameReadOld, Moves, Go
  <2> HIDE DEF l
  <2> QED BY <1>2, <1>3, <2>1, <2>2, MovesOK
<1>6. CASE RenameCheckOverlay(o) \/ RenameCheckProjection(o)
  BY <1>2, <1>3, <1>6, OnwardOK, FailsOK DEF RenameCheckOverlay, RenameCheckProjection, TargetFree
<1>7. CASE RenameList(o)
  <2> DEFINE l == [loc[o] EXCEPT !.list = tags[q.reg][q.repo], !.left = tags[q.reg][q.repo]]
  <2>1. l \in Local
    <3>1. tags[q.reg][q.repo] \in SUBSET Tag
      BY <1>0, <1>1
    <3> QED BY <1>0, <3>1, LocalUpdates
  <2>2. Moves(o, "copy", l)
    BY <1>0, <1>7 DEF RenameList, Moves, Go
  <2> HIDE DEF l
  <2> QED BY <1>2, <1>3, <2>1, <2>2, MovesOK
<1>8. CASE RenameCopy(o)
  <2>1. ASSUME NEW t \in loc[o].left,
               tags' = [tags EXCEPT ![q.reg][q.newName] = @ \union {t}],
               loc' = [loc EXCEPT ![o].left = @ \ {t}], UNCHANGED pc
        PROVE  WorkersOK'
    <3> DEFINE l == [loc[o] EXCEPT !.left = loc[o].left \ {t}]
    <3>1. t \in Tag /\ loc[o].left \ {t} \in SUBSET Tag
      BY <1>0 DEF Local
    <3>2. l \in Local
      BY <1>0, <3>1, LocalUpdates
    <3>3. tags' \in Tags
      BY <1>0, <1>1, <2>1, <3>1
    <3>4. Moves(o, "copy", l)
      BY <1>0, <1>8, <2>1, <3>3 DEF RenameCopy, Moves, At
    <3> HIDE DEF l
    <3> QED BY <1>2, <1>3, <3>2, <3>4, MovesOK
  <2>2. CASE Fail(o, "UNAVAILABLE") /\ UNCHANGED tags
    BY <1>8, <2>2, FailsOK DEF RenameCopy
  <2>3. ASSUME loc' = [loc EXCEPT ![o].left = loc[o].list], Go(o, "drop"), UNCHANGED tags
        PROVE  WorkersOK'
    <3> DEFINE l == [loc[o] EXCEPT !.left = loc[o].list]
    <3>1. loc[o].list \in SUBSET Tag
      BY <1>0 DEF Local
    <3>2. l \in Local
      BY <1>0, <3>1, LocalUpdates
    <3>3. Moves(o, "drop", l)
      BY <1>0, <1>8, <2>3 DEF RenameCopy, Moves, Go
    <3> HIDE DEF l
    <3> QED BY <1>2, <1>3, <3>2, <3>3, MovesOK
  <2> QED BY <1>8, <2>1, <2>2, <2>3 DEF RenameCopy
<1>9. CASE RenameDrop(o)
  <2>1. ASSUME NEW t \in loc[o].left,
               tags' = [tags EXCEPT ![q.reg][q.repo] = @ \ {t}],
               loc' = [loc EXCEPT ![o].left = @ \ {t}], UNCHANGED pc
        PROVE  WorkersOK'
    <3> DEFINE l == [loc[o] EXCEPT !.left = loc[o].left \ {t}]
    <3>1. t \in Tag /\ loc[o].left \ {t} \in SUBSET Tag
      BY <1>0 DEF Local
    <3>2. l \in Local
      BY <1>0, <3>1, LocalUpdates
    <3>3. tags' \in Tags
      BY <1>0, <1>1, <2>1, <3>1
    <3>4. Moves(o, "drop", l)
      BY <1>0, <1>9, <2>1, <3>3 DEF RenameDrop, Moves, At
    <3> HIDE DEF l
    <3> QED BY <1>2, <1>3, <3>2, <3>4, MovesOK
  <2>2. CASE Go(o, "readRegistry") /\ UNCHANGED <<loc, tags>>
    BY <1>2, <1>3, <1>9, <2>2, OnwardOK DEF RenameDrop
  <2> QED BY <1>9, <2>1, <2>2 DEF RenameDrop
<1>10. CASE RenameReadRegistry(o)
  <2>1. CASE Fail(o, "NOT_FOUND")
    BY <1>10, <2>1, FailsOK DEF RenameReadRegistry
  <2>2. CASE Exists(q.reg) /\ ~Fail(o, "NOT_FOUND")
    <3> DEFINE v == resolveVisibility(loc[o].vis, registries[q.reg].defaultVisibility)
               b == loc[o].vis # NoConfig
               l == [loc[o] EXCEPT !.exists = b, !.vis = v]
    <3>1. v \in Visibility
      BY <1>0, <2>2 DEF resolveVisibility, Exists, Row
    <3>2. l \in Local /\ l.vis \in Visibility
      <4> HIDE DEF v
      <4> QED BY <1>0, <3>1, LocalUpdates
    <3>3. Moves(o, "rekey", l)
      BY <1>0, <1>10, <2>2 DEF RenameReadRegistry, Moves, Go
    <3> HIDE DEF l
    <3> QED BY <1>2, <1>3, <3>2, <3>3, MovesOK
  <2> QED BY <1>10, <2>1, <2>2 DEF RenameReadRegistry
<1>11. CASE RenameRekey(o)
  BY <1>2, <1>3, <1>11, OnwardOK, FailsOK DEF RenameRekey, StatementFails, GuardRefuses
<1> QED BY <1>4, <1>5, <1>6, <1>7, <1>8, <1>9, <1>10, <1>11 DEF RenameStep

LEMMA ContentStepOK ==
  ASSUME WorkersOK, StoreTypeOK', NEW o \in Op, ContentStep(o)
  PROVE  WorkersOK'
<1> DEFINE q == req[o]
<1> DEFINE Tags == [RegId -> [RepoName -> SUBSET Tag]]
<1>0. /\ q \in Request /\ q.reg \in RegId /\ loc[o] \in Local /\ MayCall(q.kind, pc[o])
      /\ loc \in [Op -> Local] /\ pc \in [Op -> Place] /\ tags \in Tags
  BY RequestFields DEF WorkersOK, CPTypeOK, CallsOfKind, Place
<1>1. q.kind \in {"DeleteTag", "Push"} /\ q.repo \in RepoName /\ q.tag \in Tag
  BY <1>0, RequestFields DEF ContentStep, BeginDeleteTag, DeleteTagEngine, DeleteTagList,
       DeleteTagUnregister, BeginPush, PushForward, PushRegister, At, Is, MayCall
<1>2. CASE BeginDeleteTag(o)
  BY <1>2, OnwardOK DEF BeginDeleteTag, Is, MayCall, Calls
<1>3. CASE DeleteTagEngine(o)
  <2>1. tags' \in Tags
    BY <1>0, <1>1, <1>3 DEF DeleteTagEngine
  <2>2. Moves(o, "listTags", loc[o])
    BY <1>0, <1>3, <2>1 DEF DeleteTagEngine, Moves, Go
  <2>3. "listTags" \in Place /\ MayCall(q.kind, "listTags")
    BY <1>0, <1>3 DEF DeleteTagEngine, At, MayCall, Place, Calls
  <2> QED BY <1>0, <2>2, <2>3, MovesOK
<1>4. CASE DeleteTagList(o)
  <2>1. "unregister" \in Calls /\ MayCall(q.kind, "unregister")
    BY <1>0, <1>4 DEF DeleteTagList, At, MayCall, Calls
  <2> QED BY <1>4, <2>1, OnwardOK, GoesOK, Places DEF DeleteTagList
<1>5. CASE DeleteTagUnregister(o) \/ PushRegister(o)
  BY <1>5, GoesOK, Places DEF DeleteTagUnregister, PushRegister
<1>6. CASE BeginPush(o)
  <2> DEFINE b == tags[q.reg][q.repo] # {}
             l == [loc[o] EXCEPT !.exists = b]
  <2>1. l \in Local
    BY <1>0, LocalUpdates
  <2>2. Moves(o, "forward", l)
    BY <1>0, <1>6 DEF BeginPush, Moves, Go
  <2>3. "forward" \in Place /\ MayCall(q.kind, "forward")
    BY <1>6 DEF BeginPush, Is, MayCall, Place, Calls
  <2> HIDE DEF l
  <2> QED BY <2>1, <2>2, <2>3, MovesOK
<1>7. CASE PushForward(o)
  <2>1. tags' \in Tags
    BY <1>0, <1>1, <1>7 DEF PushForward
  <2>2. PICK call \in {"succeed", "registerPush"} : Moves(o, call, loc[o])
    BY <1>0, <1>7, <2>1 DEF PushForward, Moves, Go
  <2>3. call \in Place /\ MayCall(q.kind, call)
    BY <1>0, <1>7 DEF PushForward, At, MayCall, Place, Calls
  <2> QED BY <1>0, <2>2, <2>3, MovesOK
<1> QED BY <1>2, <1>3, <1>4, <1>5, <1>6, <1>7 DEF ContentStep

LEMMA FaultOK ==
  ASSUME WorkersOK, StoreTypeOK', NEW o \in Op, CallFails(o) \/ Finalize(o) \/ Crash(o)
  PROVE  WorkersOK'
<1>0. /\ loc \in [Op -> Local] /\ loc[o] \in Local
      /\ tags \in [RegId -> [RepoName -> SUBSET Tag]]
  BY DEF WorkersOK, CPTypeOK
<1>1. CASE CallFails(o)
  BY <1>1, FailsOK, GoesOK, Places DEF CallFails
<1>2. CASE Finalize(o)
  <2> DEFINE l == [NoLocal EXCEPT !.list = loc[o].list, !.code = loc[o].code]
  <2>1. l \in Local
    BY <1>0, LocalUpdates
  <2>2. PICK call \in {"ok", "error"} : Moves(o, call, l)
    BY <1>0, <1>2 DEF Finalize, Moves, Go
  <2> HIDE DEF l
  <2> QED BY <2>1, <2>2, MovesOK, Places
<1>3. CASE Crash(o)
  <2> DEFINE l == [NoLocal EXCEPT !.list = loc[o].list]
  <2>1. l \in Local
    BY <1>0, LocalUpdates
  <2>2. Moves(o, "dead", l)
    BY <1>0, <1>3 DEF Crash, Moves, Go
  <2> HIDE DEF l
  <2> QED BY <2>1, <2>2, MovesOK, Places
<1> QED BY <1>1, <1>2, <1>3

LEMMA NextWorkersOK ==
  ASSUME WorkersOK, StoreTypeOK', [CPNext]_vars
  PROVE  WorkersOK'
<1>1. CASE UNCHANGED vars
  BY <1>1 DEF vars, storeVars, WorkersOK, CPTypeOK, StoreTypeOK, CallsOfKind,
              VisibilityResolved
<1>2. CASE CPNext
  <2>1. PICK o \in Op : Progress(o) \/ CallFails(o) \/ Crash(o)
    BY <1>2 DEF CPNext
  <2> QED BY <2>1, RegistryStepOK, OverlayStepOK, RenameStepOK, ContentStepOK, FaultOK
          DEF Progress
<1> QED BY <1>1, <1>2

\* The invariant of the store, and of the workers on it.
CPInv == IInv /\ WorkersOK

LEMMA InitCPInv == CPInit => CPInv
<1> SUFFICES ASSUME CPInit PROVE CPInv
  OBVIOUS
<1>1. IInv
  BY InitIInv DEF CPInit
<1>2. CPTypeOK
  <2>1. NoLocal \in Local
    BY DEF NoLocal, Local
  <2>2. StoreTypeOK
    BY <1>1 DEF IInv
  <2>3. req \in [Op -> Request]
    BY InboxAssumption DEF CPInit
  <2> QED BY <2>1, <2>2, <2>3 DEF CPInit, CPTypeOK
<1>3. CallsOfKind /\ VisibilityResolved
  BY DEF CPInit, CallsOfKind, MayCall, VisibilityResolved
<1> QED BY <1>1, <1>2, <1>3 DEF CPInv, WorkersOK, CPInit

LEMMA NextCPInv == CPInv /\ [CPNext]_vars => CPInv'
<1> SUFFICES ASSUME CPInv, [CPNext]_vars PROVE CPInv'
  OBVIOUS
<1>1. IInv'
  BY StepIsTx, NextIInv DEF CPInv
<1>2. StoreTypeOK'
  BY <1>1 DEF IInv
<1> QED BY <1>1, <1>2, NextWorkersOK DEF CPInv

\* The invariant of the store holds under the use cases, and every worker is at
\* a call of its own program with the data that call needs.
THEOREM ControlPlaneInvariant == CPSpec => []CPInv
<1> QED BY InitCPInv, NextCPInv, PTL DEF CPSpec

\* Type correctness of the use cases: whatever fails, races or dies, a handler
\* or worker (create.go ... rename_repository.go, servePush) is at one of its
\* calls, and rows, intents, tags and what is remembered are of their types.
THEOREM ControlPlaneTypes == CPSpec => []CPTypeOK
<1>1. CPInv => CPTypeOK
  BY DEF CPInv, WorkersOK
<1> QED BY <1>1, ControlPlaneInvariant, PTL

\* Every behaviour of the use cases is one of the store: each step commits one
\* transaction of internal/repo/kacho/pg or none, so all that is proved of the
\* store holds whatever the workers do.
THEOREM UseCasesAreTransactions == CPSpec => StoreBehaviour
<1>1. CPInit => StoreInit
  BY DEF CPInit
<1>2. CPInv /\ [CPNext]_vars => [StoreNext]_storeVars
  BY StepIsTx DEF CPInv
<1> QED BY <1>1, <1>2, ControlPlaneInvariant, PTL DEF CPSpec, StoreBehaviour, StoreSpec

-----------------------------------------------------------------------------
(* Registries: what a delete was told stays true.                          *)

\* Which ids are used up: the creation of a registry uses one, no other
\* transaction does, and none is ever given back.
Born(q) == ~Exists(q) /\ Exists(q)' /\ registries'[q].status = "ACTIVE"

LEMMA IssuedStep ==
  ASSUME StoreTypeOK, [StoreNext]_storeVars
  PROVE  \A q \in RegId : /\ Issued(q) => Issued(q)'
                          /\ ~Issued(q) /\ Issued(q)' => Born(q) \/ Exists(q)
<1> DEFINE Goal == \A q \in RegId :
             (Issued(q) => Issued(q)') /\ (~Issued(q) /\ Issued(q)' => Born(q) \/ Exists(q))
<1>0. StoreTypeOK /\ registries \in [RegId -> Row \union {NoRow}]
  BY DEF StoreTypeOK
<1>1. CASE UNCHANGED storeVars
  BY <1>1 DEF storeVars, Issued
<1>2. ASSUME NEW r \in RegId, RepoLevelStep(r)
      PROVE  \A q \in RegId : Issued(q)' <=> Issued(q)
  BY <1>0, <1>2, RepoLevelLog DEF Issued, About
<1>3. ASSUME NEW r \in RegId, NEW m \in Intent, m.kind = "Registry", m.reg = r,
             outbox' = outbox \o <<m>>
      PROVE  \A q \in RegId : Issued(q)' <=> Issued(q) \/ q = r
  BY <1>0, <1>3, RegistryLog DEF Issued, About, NewRow
<1>4. ASSUME NEW r \in RegId, RegistryTx(r)
      PROVE  Goal
  <2>1. ASSUME NEW p \in Project, NEW n \in RegName, NEW l \in Labels, Insert(r, p, n, l)
        PROVE  Goal
    <3> DEFINE row == [project |-> p, name |-> n, labels |-> l,
                       status |-> "ACTIVE", defaultVisibility |-> "PRIVATE"]
    <3>1. row \in Row /\ row.status = "ACTIVE"
      BY DEF Row, Visibility
    <3>2. registries'[r] = row /\ registries[r] = NoRow
      BY <1>0, <2>1 DEF Insert, Exists
    <3>3. Exists(r)'
      BY <3>1, <3>2, NoRowAssumption DEF Exists
    <3>4. \A q \in RegId : Issued(q)' <=> Issued(q) \/ q = r
      <4>1. /\ RegisterRegistry(r, l) \in Intent /\ RegisterRegistry(r, l).kind = "Registry"
            /\ RegisterRegistry(r, l).reg = r
        BY IntentTypes DEF RegisterRegistry
      <4> QED BY <1>3, <2>1, <4>1 DEF Insert, Emit
    <3> HIDE DEF row
    <3> QED BY <3>1, <3>2, <3>3, <3>4 DEF Born, Exists
  <2>2. ASSUME NEW n \in RegName, NEW l \in Labels, NEW v \in Visibility, Update(r, n, l, v)
        PROVE  Goal
    <3>1. Exists(r) /\ registries[r] \in Row
      BY <1>0, <2>2 DEF Update, Active, Exists
    <3>2. registries'[r].labels = l
      BY <1>0, <2>2, <3>1 DEF Update, Row
    <3>3. outbox' = outbox \o <<RegisterRegistry(r, l)>>
      BY <2>2, <3>2 DEF Update, Emit
    <3>4. /\ RegisterRegistry(r, l) \in Intent /\ RegisterRegistry(r, l).kind = "Registry"
          /\ RegisterRegistry(r, l).reg = r
      BY IntentTypes DEF RegisterRegistry
    <3> QED BY <1>3, <3>1, <3>3, <3>4
  <2>3. CASE MarkDeleting(r)
    BY <2>3 DEF MarkDeleting, Issued
  <2>4. CASE Delete(r)
    <3>1. /\ UnregisterIntentForDelete(r) \in Intent
          /\ UnregisterIntentForDelete(r).kind = "Registry"
          /\ UnregisterIntentForDelete(r).reg = r
      BY IntentTypes DEF UnregisterIntentForDelete
    <3> QED BY <1>3, <2>4, <3>1 DEF Delete, Emit
  <2> QED BY <1>4, <2>1, <2>2, <2>3, <2>4 DEF RegistryTx
<1> QED BY <1>0, <1>1, <1>2, <1>4, ConfigTxStep, RepoTxStep DEF StoreNext

\* A registry id that was used and has no row, or no ACTIVE one, stays so.
LEMMA GoneStaysGone ==
  ASSUME StoreTypeOK, [StoreNext]_storeVars, NEW q \in RegId, Issued(q)
  PROVE  /\ ~Exists(q) => ~Exists(q)'
         /\ ~Active(q) => ~Active(q)'
<1>0. registries \in [RegId -> Row \union {NoRow}]
  BY DEF StoreTypeOK
<1>1. CASE registries' = registries
  BY <1>1 DEF Exists, Active
<1>2. ASSUME NEW r \in RegId, RegistryTx(r)
      PROVE  /\ ~Exists(q) => ~Exists(q)'
             /\ ~Active(q) => ~Active(q)'
  <2>1. CASE \E p \in Project, n \in RegName, l \in Labels : Insert(r, p, n, l)
    BY <1>0, <2>1 DEF Insert, Exists, Active
  <2>2. CASE \E n \in RegName, l \in Labels, v \in Visibility : Update(r, n, l, v)
    BY <1>0, <2>2 DEF Update, Exists, Active
  <2>3. CASE MarkDeleting(r)
    BY <1>0, <2>3 DEF MarkDeleting, Exists, Active, Row
  <2>4. CASE Delete(r)
    BY <1>0, <2>4 DEF Delete, Exists, Active
  <2> QED BY <1>2, <2>1, <2>2, <2>3, <2>4 DEF RegistryTx
<1> QED BY <1>1, <1>2, ConfigTxStep, RepoTxStep DEF StoreNext, storeVars, RepoLevelStep

\* What a delete knows of its registry at each of its calls: it was created, a
\* worker past MarkDeleting never finds it ACTIVE again, and one that
\* succeeded never finds it again.
DeletesInformed ==
  \A o \in Op : Is(o, "DeleteRegistry") =>
    /\ pc[o] # "idle" => Issued(req[o].reg)
    /\ pc[o] \in {"recheck", "delete"} => ~Active(req[o].reg)
    /\ pc[o] \in {"succeed", "ok"} => ~Exists(req[o].reg)

\* The steps of a worker that deletes a registry.
LEMMA DeleteProgram ==
  ASSUME WorkersOK, NEW o \in Op, Is(o, "DeleteRegistry"),
         Progress(o) \/ CallFails(o) \/ Crash(o)
  PROVE  BeginDeleteRegistry(o) \/ DeleteMark(o) \/ DeleteRecheck(o) \/ DeleteRow(o)
         \/ Finalize(o) \/ CallFails(o) \/ Crash(o)
<1>1. MayCall("DeleteRegistry", pc[o])
  BY DEF WorkersOK, CallsOfKind, Is
<1>2. ~OverlayStep(o)
  BY <1>1 DEF OverlayStep, BeginCreateRepository, CreateRepositoryInsert, ReadProjection,
       BeginUpdateRepository, UpdateRepositoryPatch, UpdateRepositoryReadDefault,
       UpdateRepositoryPromote, UpdateRepositoryRetry, BeginDeleteRepository,
       DeleteRepositoryCheckEmpty, DeleteRepositoryRow, Is, At, MayCall
<1>3. ~RenameStep(o)
  BY <1>1 DEF RenameStep, BeginRename, RenameReadOld, RenameCheckOverlay,
       RenameCheckProjection, RenameList, RenameCopy, RenameDrop, RenameReadRegistry,
       RenameRekey, Is, At, MayCall
<1>4. ~ContentStep(o)
  BY <1>1 DEF ContentStep, BeginDeleteTag, DeleteTagEngine, DeleteTagList,
       DeleteTagUnregister, BeginPush, PushForward, PushRegister, Is, At, MayCall
<1> QED BY <1>1, <1>2, <1>3, <1>4
        DEF Progress, RegistryStep, BeginCreateRegistry, CreateInsert, CreateConflict,
            BeginUpdateRegistry, UpdateCommit, UpdateRefused, Is, At, MayCall

\* A step moves its own worker only.
LEMMA OthersStay ==
  ASSUME WorkersOK, NEW o \in Op, Progress(o) \/ CallFails(o) \/ Crash(o)
  PROVE  req' = req /\ \A p \in Op \ {o} : pc'[p] = pc[p] /\ loc'[p] = loc[p]
<1>0. pc \in [Op -> Place] /\ loc \in [Op -> Local]
  BY DEF WorkersOK, CPTypeOK, Place
<1> USE DEF Go, Fail, GuardRefuses, StatementFails
<1>1. CASE RegistryStep(o)
  BY <1>0, <1>1 DEF RegistryStep, BeginCreateRegistry, CreateInsert, CreateConflict,
       BeginUpdateRegistry, UpdateCommit, UpdateRefused, BeginDeleteRegistry, DeleteMark,
       DeleteRecheck, DeleteRow
<1>2. CASE OverlayStep(o)
  BY <1>0, <1>2 DEF OverlayStep, BeginCreateRepository, CreateRepositoryInsert, ReadProjection,
       BeginUpdateRepository, UpdateRepositoryPatch, UpdateRepositoryReadDefault,
       UpdateRepositoryPromote, UpdateRepositoryRetry, BeginDeleteRepository,
       DeleteRepositoryCheckEmpty, DeleteRepositoryRow
<1>3. CASE RenameStep(o)
  BY <1>0, <1>3 DEF RenameStep, BeginRename, RenameReadOld, RenameCheckOverlay, TargetFree,
       RenameCheckProjection, RenameList, RenameCopy, RenameDrop, RenameReadRegistry,
       RenameRekey
<1>4. CASE ContentStep(o)
  BY <1>0, <1>4 DEF ContentStep, BeginDeleteTag, DeleteTagEngine, DeleteTagList,
       DeleteTagUnregister, BeginPush, PushForward, PushRegister
<1>5. CASE CallFails(o) \/ Finalize(o) \/ Crash(o)
  BY <1>0, <1>5 DEF CallFails, Finalize, Crash
<1> QED BY <1>1, <1>2, <1>3, <1>4, <1>5 DEF Progress

LEMMA NextDeletesInformed ==
  ASSUME CPInv, DeletesInformed, [CPNext]_vars
  PROVE  DeletesInformed'
<1>0. StoreTypeOK /\ WorkersOK /\ [StoreNext]_storeVars
  BY StepIsTx DEF CPInv, IInv
<1>t. /\ req \in [Op -> Request] /\ pc \in [Op -> Place]
      /\ registries \in [RegId -> Row \union {NoRow}]
      /\ \A p \in Op : req[p].reg \in RegId
  BY <1>0, RequestFields DEF WorkersOK, CPTypeOK, Place, StoreTypeOK
<1>1. \A q \in RegId : /\ Issued(q) => Issued(q)'
                       /\ Issued(q) /\ ~Exists(q) => ~Exists(q)'
                       /\ Issued(q) /\ ~Active(q) => ~Active(q)'
  BY <1>0, IssuedStep, GoneStaysGone
<1> DEFINE D(p) == Is(p, "DeleteRegistry") =>
                     /\ pc[p] # "idle" => Issued(req[p].reg)
                     /\ pc[p] \in {"recheck", "delete"} => ~Active(req[p].reg)
                     /\ pc[p] \in {"succeed", "ok"} => ~Exists(req[p].reg)
<1>2. ASSUME NEW p \in Op, req' = req, pc'[p] = pc[p]
      PROVE  D(p)'
  BY <1>t, <1>1, <1>2 DEF DeletesInformed, Is
<1>3. ASSUME NEW o \in Op, Progress(o) \/ CallFails(o) \/ Crash(o)
      PROVE  D(o)'
  <2> DEFINE r == req[o].reg
  <2>0. req' = req
    BY <1>0, <1>3, OthersStay
  <2>1. CASE ~Is(o, "DeleteRegistry")
    BY <2>0, <2>1 DEF Is
  <2>2. CASE Is(o, "DeleteRegistry")
    <3>1. CASE BeginDeleteRegistry(o)
      <4>1. Issued(r) /\ pc'[o] = "mark"
        BY <1>t, <3>1 DEF BeginDeleteRegistry, Go
      <4> QED BY <1>t, <1>1, <2>0, <4>1
    <3>2. CASE DeleteMark(o)
      <4>1. At(o, "mark") /\ Issued(r)
        BY <2>2, <3>2 DEF DeleteMark, DeletesInformed, At
      <4>2. CASE MarkDeleting(r) /\ Go(o, "recheck")
        <5>1. ~Active(r)'
          <6>1. registries[r] \in Row /\ r \in RegId
            BY <1>t, <4>2 DEF MarkDeleting, Exists
          <6>2. registries'[r].status = "DELETING"
            BY <1>t, <4>2, <6>1 DEF MarkDeleting, Row
          <6> QED BY <2>0, <6>2 DEF Active
        <5>2. pc'[o] = "recheck"
          BY <1>t, <4>2 DEF Go
        <5> QED BY <1>t, <1>1, <2>0, <4>1, <5>1, <5>2
      <4>3. CASE ~Exists(r) /\ Go(o, "succeed")
        <5>1. pc'[o] = "succeed"
          BY <1>t, <4>3 DEF Go
        <5> QED BY <1>t, <1>1, <2>0, <4>1, <4>3, <5>1
      <4> QED BY <3>2, <4>2, <4>3 DEF DeleteMark
    <3>3. CASE DeleteRecheck(o)
      <4>1. Issued(r) /\ ~Active(r) /\ pc'[o] \in {"delete", "fail"}
        BY <1>t, <2>2, <3>3 DEF DeleteRecheck, DeletesInformed, At, Go, Fail
      <4> QED BY <1>t, <1>1, <2>0, <4>1
    <3>4. CASE DeleteRow(o)
      <4>1. Issued(r) /\ pc'[o] = "succeed"
        BY <1>t, <2>2, <3>4 DEF DeleteRow, DeletesInformed, At, Go
      <4>2. ~Exists(r)'
        BY <1>t, <1>1, <3>4, <4>1 DEF DeleteRow, Delete, Exists
      <4> QED BY <1>t, <1>1, <2>0, <4>1, <4>2
    <3>5. CASE CallFails(o)
      <4>1. Issued(r) /\ pc'[o] = "fail"
        BY <1>t, <1>0, <2>2, <3>5
           DEF CallFails, DeletesInformed, At, Go, Fail, Calls, WorkersOK, CallsOfKind, MayCall, Is
      <4> QED BY <1>t, <1>1, <2>0, <4>1
    <3>6. CASE Finalize(o)
      <4>1. Issued(r) /\ (pc'[o] = "error" \/ (pc'[o] = "ok" /\ ~Exists(r)))
        BY <1>t, <2>2, <3>6 DEF Finalize, DeletesInformed, At, Go
      <4> QED BY <1>t, <1>1, <2>0, <4>1
    <3>7. CASE Crash(o)
      <4>1. Issued(r) /\ pc'[o] = "dead"
        BY <1>t, <2>2, <3>7 DEF Crash, DeletesInformed, Go
      <4> QED BY <1>t, <1>1, <2>0, <4>1
    <3> QED BY <1>0, <1>3, <2>2, <3>1, <3>2, <3>3, <3>4, <3>5, <3>6, <3>7, DeleteProgram
  <2> QED BY <2>1, <2>2
<1>4. CASE UNCHANGED vars
  BY <1>2, <1>4 DEF vars, DeletesInformed
<1>5. CASE CPNext
  <2>1. PICK o \in Op : Progress(o) \/ CallFails(o) \/ Crash(o)
    BY <1>5 DEF CPNext
  <2>2. req' = req /\ \A p \in Op \ {o} : pc'[p] = pc[p]
    BY <1>0, <2>1, OthersStay
  <2>3. \A p \in Op : D(p)'
    BY <1>2, <1>3, <2>1, <2>2
  <2> QED BY <2>3 DEF DeletesInformed
<1> QED BY <1>4, <1>5

LEMMA InitDeletesInformed == CPInit => DeletesInformed
  BY DEF CPInit, DeletesInformed

\* delete.go: the worker of a delete that is past its first call knows that its
\* registry was created, and one that found it gone will find it gone for ever.
THEOREM DeletesKnow == CPSpec => []DeletesInformed
<1>1. CPInv /\ DeletesInformed /\ [CPNext]_vars => DeletesInformed'
  BY NextDeletesInformed
<1> QED BY <1>1, InitDeletesInformed, ControlPlaneInvariant, PTL DEF CPSpec

\* delete.go: however many deletes of a registry race, fail or are retried, one
\* that was answered with success leaves an id that was created and has no row,
\* on each of its three successful paths and for ever after.
THEOREM DeleteOk == CPSpec => []DeleteOkMeansGone
<1>1. DeletesInformed => DeleteOkMeansGone
  BY DEF DeletesInformed, DeleteOkMeansGone
<1> QED BY <1>1, DeletesKnow, PTL

-----------------------------------------------------------------------------
(* The life of a registry.                                                 *)

\* No transaction but the deletion of a registry takes away a row.
LEMMA PlainKeepsRow ==
  ASSUME StoreTypeOK, PlainTx, NEW q \in RegId, Exists(q)
  PROVE  Exists(q)'
<1>0. registries \in [RegId -> Row \union {NoRow}] /\ registries[q] \in Row
  BY DEF StoreTypeOK, Exists
<1>1. ASSUME NEW r \in RegId,
             \/ \E p \in Project, n \in RegName, l \in Labels : Insert(r, p, n, l)
             \/ \E n \in RegName, l \in Labels, v \in Visibility : Update(r, n, l, v)
             \/ MarkDeleting(r)
      PROVE  registries'[q] \in Row
  <2>1. CASE \E p \in Project, n \in RegName, l \in Labels : Insert(r, p, n, l)
    BY <1>0, <2>1 DEF Insert, Exists
  <2>2. CASE \E n \in RegName, l \in Labels, v \in Visibility : Update(r, n, l, v)
    <3>1. PICK n \in RegName, l \in Labels, v \in Visibility : Update(r, n, l, v)
      BY <2>2
    <3>2. CASE r = q
      BY <1>0, <3>1, <3>2 DEF Update, Row
    <3>3. CASE r # q
      BY <1>0, <3>1, <3>3 DEF Update
    <3> QED BY <3>2, <3>3
  <2>3. CASE MarkDeleting(r)
    BY <1>0, <2>3 DEF MarkDeleting, Row
  <2> QED BY <1>1, <2>1, <2>2, <2>3
<1>2. CASE \E r \in RegId : \/ \E p \in Project, n \in RegName, l \in Labels : Insert(r, p, n, l)
                            \/ \E n \in RegName, l \in Labels, v \in Visibility : Update(r, n, l, v)
                            \/ MarkDeleting(r)
  BY <1>1, <1>2, NoRowAssumption DEF Exists
<1>3. CASE registries' = registries
  BY <1>3 DEF Exists
<1> QED BY <1>2, <1>3
        DEF PlainTx, InsertConfig, UpdateConfig, DeleteConfig, runConfigTx, emitRepoIntent

\* No step takes away the row of an ACTIVE registry.
LEMMA ActiveRowStays ==
  ASSUME CPInv, DeletesInformed, [CPNext]_vars, NEW q \in RegId, Active(q)
  PROVE  Exists(q)'
<1>0. /\ WorkersOK /\ registries \in [RegId -> Row \union {NoRow}]
      /\ Exists(q) /\ registries[q] \in Row
  BY DEF CPInv, IInv, StoreTypeOK, Active, Exists
<1>1. CASE registries' = registries
  BY <1>0, <1>1 DEF Exists
<1>2. CASE PlainTx
  BY <1>0, <1>2, PlainKeepsRow DEF CPInv, WorkersOK, CPTypeOK
<1>3. ASSUME NEW o \in Op, Removes(o)
      PROVE  Exists(q)'
  <2>1. ~Active(req[o].reg) /\ req[o].reg \in RegId
    BY <1>0, <1>3, RequestFields DEF Removes, DeletesInformed, WorkersOK, CPTypeOK
  <2> QED BY <1>0, <1>3, <2>1 DEF Removes, Delete, Exists
<1>4. ASSUME NEW o \in Op, Promotes(o) \/ Rekeys(o) \/ Unregisters(o)
      PROVE  registries' = registries
  BY <1>4 DEF Promotes, Rekeys, Unregisters, InsertConfig, RekeyConfig, runConfigTx, emitRepoIntent
<1> QED BY <1>0, <1>1, <1>2, <1>3, <1>4, StepInStore DEF StoreStep, CPNext, vars, storeVars

\* What iam was told, from the row and the id alone.
Told(q) == IF ~Issued(q) THEN "nothing" ELSE IF Exists(q) THEN "register" ELSE "unregister"

LEMMA AnnouncedIs == IInv => \A q \in RegId : AnnouncedOf(q) = Told(q)
<1> SUFFICES ASSUME IInv, NEW q \in RegId PROVE AnnouncedOf(q) = Told(q)
  OBVIOUS
<1>1. (\E i \in DOMAIN outbox : UnregistersRegistry(i, q)) <=> Issued(q) /\ ~Exists(q)
  BY IssuedIsAbout DEF IInv, GoneIsTold, About, UnregistersRegistry
<1> QED BY <1>1 DEF AnnouncedOf, Told

\* One store step, seen as a step in the life of every registry.
LEMMA LifeStep ==
  ASSUME CPInv, CPInv', DeletesInformed, [CPNext]_vars
  PROVE  [Life!Next]_<<[r \in RegId |-> PhaseOf(r)], [r \in RegId |-> AnnouncedOf(r)]>>
<1> DEFINE ph == [r \in RegId |-> PhaseOf(r)]
           an == [r \in RegId |-> AnnouncedOf(r)]
<1>0. /\ StoreTypeOK /\ [StoreNext]_storeVars /\ IInv /\ IInv'
      /\ registries \in [RegId -> Row \union {NoRow}]
      /\ registries' \in [RegId -> Row \union {NoRow}]
  BY StepIsTx DEF CPInv, IInv, StoreTypeOK
<1>1. \A q \in RegId :
        /\ Issued(q) => Issued(q)'
        /\ ~Issued(q) /\ Issued(q)' => Born(q) \/ Exists(q)
        /\ Issued(q) /\ ~Exists(q) => ~Exists(q)'
        /\ Exists(q) => Issued(q)
        /\ Exists(q)' => Issued(q)'
        /\ Active(q) => Exists(q)'
  BY <1>0, IssuedStep, GoneStaysGone, ActiveRowStays, IssuedIsAbout DEF IInv, RowsIssued, Issued, About
<1>a. \A q \in RegId : AnnouncedOf(q) = Told(q) /\ AnnouncedOf(q)' = Told(q)'
  <2>1. (IInv => \A q \in RegId : AnnouncedOf(q) = Told(q))'
    BY AnnouncedIs, PTL
  <2> QED BY <1>0, <2>1, AnnouncedIs
<1>2. ASSUME NEW q \in RegId, registries'[q] = registries[q]
      PROVE  PhaseOf(q)' = PhaseOf(q) /\ AnnouncedOf(q)' = AnnouncedOf(q)
  <2>1. Exists(q)' <=> Exists(q)
    BY <1>2 DEF Exists
  <2>2. Issued(q)' <=> Issued(q)
    BY <1>1, <2>1 DEF Born
  <2>3. PhaseOf(q)' = PhaseOf(q)
    BY <1>2, <2>1, <2>2 DEF PhaseOf
  <2> QED BY <1>a, <2>1, <2>2, <2>3 DEF Told
<1>3. ASSUME NEW r \in RegId, \A q \in RegId \ {r} : registries'[q] = registries[q],
             registries'[r] # registries[r]
      PROVE  Life!Next \/ UNCHANGED <<ph, an>>
  <2>1. \A q \in RegId \ {r} : ph'[q] = ph[q] /\ an'[q] = an[q]
    BY <1>2, <1>3
  <2>2. ph'[r] = PhaseOf(r)' /\ ph[r] = PhaseOf(r) /\ an'[r] = Told(r)' /\ an[r] = Told(r)
    BY <1>a
  <2> DEFINE Change(p, a) == ph' = [ph EXCEPT ![r] = p] /\ an' = [an EXCEPT ![r] = a]
  <2>3. ASSUME NEW p, NEW a, ph'[r] = p, an'[r] = a
        PROVE  Change(p, a)
    BY <2>1, <2>3
  <2>4. CASE ~Exists(r)
    <3>1. Exists(r)' /\ ~Issued(r) /\ Issued(r)'
      BY <1>1, <1>3, <2>4 DEF Exists
    <3>2. registries'[r].status = "ACTIVE"
      BY <1>1, <2>4, <3>1 DEF Born
    <3>3. ph[r] = "unborn" /\ ph'[r] = "ACTIVE" /\ an'[r] = "register"
      BY <2>2, <2>4, <3>1, <3>2 DEF PhaseOf, Told
    <3>4. Life!Create(r)
      BY <2>3, <3>3 DEF Life!Create, Life!Move
    <3> QED BY <3>4 DEF Life!Next
  <2>5. CASE Exists(r) /\ ~Exists(r)'
    <3>1. ~Active(r) /\ Issued(r) /\ Issued(r)'
      BY <1>1, <2>5
    <3>2. registries[r].status = "DELETING"
      BY <1>0, <2>5, <3>1 DEF Active, Exists, Row
    <3>3. ph[r] = "DELETING" /\ ph'[r] = "gone" /\ an'[r] = "unregister"
      BY <2>2, <2>5, <3>1, <3>2 DEF PhaseOf, Told
    <3>4. Life!Remove(r)
      BY <2>3, <3>3 DEF Life!Remove, Life!Move
    <3> QED BY <3>4 DEF Life!Next
  <2>6. CASE Exists(r) /\ Exists(r)'
    <3>1. Issued(r) /\ Issued(r)'
      BY <1>1, <2>6
    <3>2. ph[r] = registries[r].status /\ ph'[r] = registries'[r].status /\ an'[r] = an[r]
      BY <2>2, <2>6, <3>1 DEF PhaseOf, Told
    <3>3. registries[r].status \in {"ACTIVE", "DELETING"} /\ registries'[r].status \in {"ACTIVE", "DELETING"}
      BY <1>0, <2>6 DEF Exists, Row
    <3>4. ~(registries[r].status = "DELETING" /\ registries'[r].status = "ACTIVE")
      BY <1>0, <2>6, <3>1, GoneStaysGone DEF Active
    <3>5. CASE registries'[r].status = registries[r].status
      BY <2>1, <3>2, <3>5
    <3>6. CASE registries[r].status = "ACTIVE" /\ registries'[r].status = "DELETING"
      <4>1. Life!Mark(r)
        BY <2>1, <2>3, <3>2, <3>6 DEF Life!Mark, Life!Move
      <4> QED BY <4>1 DEF Life!Next
    <3> QED BY <3>3, <3>4, <3>5, <3>6
  <2> QED BY <2>4, <2>5, <2>6
<1>4. CASE registries' = registries
  BY <1>2, <1>4
<1>5. ASSUME NEW r \in RegId, RegistryTx(r)
      PROVE  \A q \in RegId \ {r} : registries'[q] = registries[q]
  BY <1>0, <1>5 DEF RegistryTx, Insert, Update, MarkDeleting, Delete
<1>6. registries' = registries \/ \E r \in RegId : RegistryTx(r)
  BY <1>0, ConfigTxStep, RepoTxStep DEF StoreNext, storeVars, RepoLevelStep
<1>7. \A r \in RegId : RegistryTx(r) /\ registries'[r] = registries[r] => registries' = registries
  BY <1>0, <1>5
<1> QED BY <1>3, <1>4, <1>5, <1>6, <1>7

\* Under racing, retried, failing and dying requests every registry lives the
\* one life of RegistryLife: born ACTIVE once, marked, then removed, never
\* revived nor removed unmarked, and iam told of its birth and death in those
\* very steps (create.go, delete.go, registry.go of the store).
THEOREM RegistriesLiveOnce == CPSpec => LifeBehaviour
<1>1. CPInit => Life!Init
  <2> SUFFICES ASSUME CPInit PROVE Life!Init
    OBVIOUS
  <2>0. IInv /\ registries = [r \in RegId |-> NoRow] /\ outbox = << >>
    BY InitIInv DEF CPInit, StoreInit
  <2>1. \A r \in RegId : ~Exists(r) /\ ~Issued(r)
    <3>1. \A i : i \notin DOMAIN outbox
      BY <2>0
    <3> QED BY <2>0, <3>1 DEF Exists, Issued
  <2> QED BY <2>0, <2>1, AnnouncedIs DEF Life!Init, PhaseOf, Told
<1>2. CPInv /\ CPInv' /\ DeletesInformed /\ [CPNext]_vars
        => [Life!Next]_<<[r \in RegId |-> PhaseOf(r)], [r \in RegId |-> AnnouncedOf(r)]>>
  BY LifeStep
<1> QED BY <1>1, <1>2, ControlPlaneInvariant, DeletesKnow, PTL
        DEF CPSpec, LifeBehaviour, Life!Spec

-----------------------------------------------------------------------------
(* Renames.                                                                *)

\* Nobody but the rename itself takes tags away from the name it copies to, or
\* from the name it copies from.  A DeleteTag or a second rename of either name
\* is not fenced off by the service.
TakesTags(q) == q.kind \in {"DeleteTag", "RenameRepository"}

TargetLeftAlone ==
  \A q \in Inbox : \A o, p \in Op :
    q[o].kind = "RenameRepository" /\ o # p /\ TakesTags(q[p]) /\ q[p].reg = q[o].reg
      => q[p].repo # q[o].newName

SourceLeftAlone ==
  \A q \in Inbox : \A o, p \in Op :
    q[o].kind = "RenameRepository" /\ o # p /\ TakesTags(q[p]) /\ q[p].reg = q[o].reg
      => q[p].repo # q[o].repo

\* A tag that goes was taken by the worker that moved, from its own repository.
LEMMA TagsTaken ==
  ASSUME WorkersOK, NEW o \in Op, Progress(o) \/ CallFails(o) \/ Crash(o),
         NEW r \in RegId, NEW n \in RepoName, NEW t \in tags[r][n], t \notin tags'[r][n]
  PROVE  TakesTags(req[o]) /\ req[o].reg = r /\ req[o].repo = n
<1>0. /\ tags \in [RegId -> [RepoName -> SUBSET Tag]]
      /\ req[o] \in Request /\ req[o].reg \in RegId /\ MayCall(req[o].kind, pc[o])
  BY RequestFields DEF WorkersOK, CPTypeOK, CallsOfKind
<1>1. CASE UNCHANGED tags
  BY <1>1
<1>2. CASE RenameCopy(o)
  <2>1. req[o].newName \in RepoName
    BY <1>0, <1>2, RequestFields DEF RenameCopy, At, MayCall
  <2>2. UNCHANGED tags \/ \E u : tags' = [tags EXCEPT ![req[o].reg][req[o].newName] = @ \union {u}]
    BY <1>2 DEF RenameCopy
  <2>3. CASE r = req[o].reg /\ n = req[o].newName
    <3>1. ASSUME NEW u, tags' = [tags EXCEPT ![r][n] = @ \union {u}]
          PROVE  tags'[r][n] = tags[r][n] \union {u}
      BY <1>0, <3>1
    <3> QED BY <2>2, <2>3, <3>1
  <2>4. CASE ~(r = req[o].reg /\ n = req[o].newName)
    <3>1. ASSUME NEW u, tags' = [tags EXCEPT ![req[o].reg][req[o].newName] = @ \union {u}]
          PROVE  tags'[r][n] = tags[r][n]
      <4>1. CASE r # req[o].reg
        BY <1>0, <3>1, <4>1
      <4>2. CASE r = req[o].reg /\ n # req[o].newName
        BY <1>0, <2>1, <3>1, <4>2
      <4> QED BY <2>4, <4>1, <4>2
    <3> QED BY <2>2, <3>1
  <2> QED BY <2>3, <2>4
<1>3. CASE RenameDrop(o)
  <2>1. req[o].kind = "RenameRepository" /\ req[o].repo \in RepoName
    BY <1>0, <1>3, RequestFields DEF RenameDrop, At, MayCall
  <2>2. UNCHANGED tags \/ \E u : tags' = [tags EXCEPT ![req[o].reg][req[o].repo] = @ \ {u}]
    BY <1>3 DEF RenameDrop
  <2>3. TakesTags(req[o])
    BY <2>1 DEF TakesTags
  <2>4. ASSUME NEW u, tags' = [tags EXCEPT ![req[o].reg][req[o].repo] = @ \ {u}],
               ~(r = req[o].reg /\ n = req[o].repo)
        PROVE  tags'[r][n] = tags[r][n]
    <3>1. CASE r # req[o].reg
      BY <1>0, <2>4, <3>1
    <3>2. CASE r = req[o].reg /\ n # req[o].repo
      BY <1>0, <2>4, <3>2
    <3> QED BY <2>4, <3>1, <3>2
  <2> QED BY <2>2, <2>3, <2>4
<1>4. CASE DeleteTagEngine(o)
  <2>1. req[o].kind = "DeleteTag" /\ req[o].repo \in RepoName
    BY <1>0, <1>4, RequestFields DEF DeleteTagEngine, At, MayCall
  <2> QED BY <1>0, <1>4, <2>1 DEF DeleteTagEngine, TakesTags
<1>5. CASE PushForward(o)
  <2>1. req[o].repo \in RepoName
    BY <1>0, <1>5, RequestFields DEF PushForward, At, MayCall
  <2> QED BY <1>0, <1>5, <2>1 DEF PushForward
<1>6. CASE RegistryStep(o) \/ OverlayStep(o)
  BY <1>1, <1>6 DEF RegistryStep, BeginCreateRegistry, CreateInsert, CreateConflict,
       BeginUpdateRegistry, UpdateCommit, UpdateRefused, BeginDeleteRegistry, DeleteMark,
       DeleteRecheck, DeleteRow, OverlayStep, BeginCreateRepository, CreateRepositoryInsert,
       ReadProjection, BeginUpdateRepository, UpdateRepositoryPatch,
       UpdateRepositoryReadDefault, UpdateRepositoryPromote, UpdateRepositoryRetry,
       BeginDeleteRepository, DeleteRepositoryCheckEmpty, DeleteRepositoryRow
<1>7. CASE RenameStep(o)
  BY <1>1, <1>2, <1>3, <1>7 DEF RenameStep, BeginRename, RenameReadOld, RenameCheckOverlay,
       TargetFree, RenameCheckProjection, RenameList, RenameReadRegistry, RenameRekey
<1>8. CASE ContentStep(o)
  BY <1>1, <1>4, <1>5, <1>8 DEF ContentStep, BeginDeleteTag, DeleteTagList,
       DeleteTagUnregister, BeginPush, PushRegister
<1>9. CASE CallFails(o) \/ Finalize(o) \/ Crash(o)
  BY <1>1, <1>9 DEF CallFails, Finalize, Crash
<1> QED BY <1>6, <1>7, <1>8, <1>9 DEF Progress

\* The steps of a worker that renames a repository.
LEMMA RenameProgram ==
  ASSUME WorkersOK, NEW o \in Op, Renaming(o), Progress(o) \/ CallFails(o) \/ Crash(o)
  PROVE  RenameStep(o) \/ ReadProjection(o) \/ Finalize(o) \/ CallFails(o) \/ Crash(o)
<1>1. MayCall("RenameRepository", pc[o])
  BY DEF WorkersOK, CallsOfKind, Is, Renaming
<1>2. ~RegistryStep(o)
  BY <1>1 DEF RegistryStep, BeginCreateRegistry, CreateInsert, CreateConflict,
       BeginUpdateRegistry, UpdateCommit, UpdateRefused, BeginDeleteRegistry, DeleteMark,
       DeleteRecheck, DeleteRow, Is, At, MayCall, Renaming
<1>3. OverlayStep(o) => ReadProjection(o)
  BY <1>1 DEF OverlayStep, BeginCreateRepository, CreateRepositoryInsert,
       BeginUpdateRepository, UpdateRepositoryPatch, UpdateRepositoryReadDefault,
       UpdateRepositoryPromote, UpdateRepositoryRetry, BeginDeleteRepository,
       DeleteRepositoryCheckEmpty, DeleteRepositoryRow, Is, At, MayCall, Renaming
<1>4. ~ContentStep(o)
  BY <1>1 DEF ContentStep, BeginDeleteTag, DeleteTagEngine, DeleteTagList,
       DeleteTagUnregister, BeginPush, PushForward, PushRegister, Is, At, MayCall, Renaming
<1> QED BY <1>2, <1>3, <1>4 DEF Progress

\* A step of a rename that neither lists, copies nor drops.
Passes(o) ==
  /\ UNCHANGED tags /\ loc'[o].list = loc[o].list
  /\ pc'[o] \notin {"copy", "drop", "readRegistry"}
  /\ pc'[o] = "rekey" => pc[o] = "readRegistry"

\* Copying and dropping, as the tags see it.
Copies(o, t) ==
  /\ pc[o] = "copy" /\ pc'[o] = "copy" /\ t \in loc[o].left
  /\ loc'[o].list = loc[o].list /\ loc'[o].left = loc[o].left \ {t}
  /\ t \in tags[req[o].reg][req[o].repo]
  /\ tags' = [tags EXCEPT ![req[o].reg][req[o].newName] = @ \union {t}]

Drops(o, t) ==
  /\ pc[o] = "drop" /\ pc'[o] = "drop"
  /\ loc'[o].list = loc[o].list /\ loc'[o].left = loc[o].left \ {t}
  /\ tags' = [tags EXCEPT ![req[o].reg][req[o].repo] = @ \ {t}]

Turns(o) ==
  /\ UNCHANGED tags /\ loc'[o].list = loc[o].list
  /\ \/ pc[o] = "copy" /\ loc[o].left = {} /\ pc'[o] = "drop" /\ loc'[o].left = loc[o].list
     \/ pc[o] = "drop" /\ loc[o].left = {} /\ pc'[o] = "readRegistry"

Lists(o) ==
  /\ UNCHANGED tags /\ pc'[o] = "copy"
  /\ loc'[o].list = tags[req[o].reg][req[o].repo] /\ loc'[o].left = loc'[o].list

LEMMA RenameMoves ==
  ASSUME WorkersOK, NEW o \in Op, Renaming(o), Progress(o) \/ CallFails(o) \/ Crash(o)
  PROVE  \/ Passes(o) \/ Lists(o) \/ Turns(o)
         \/ \E t \in Tag : Copies(o, t) \/ Drops(o, t)
<1>0. pc \in [Op -> Place] /\ loc \in [Op -> Local] /\ loc[o] \in Local
  BY DEF WorkersOK, CPTypeOK, Place
<1>1. CASE RenameList(o)
  <2>1. /\ loc'[o] = [loc[o] EXCEPT !.list = tags[req[o].reg][req[o].repo],
                                    !.left = tags[req[o].reg][req[o].repo]]
        /\ pc'[o] = "copy" /\ UNCHANGED tags
    BY <1>0, <1>1 DEF RenameList, Go
  <2> QED BY <1>0, <2>1 DEF Lists, Local
<1>2. CASE RenameCopy(o)
  <2>1. ASSUME NEW t \in loc[o].left, t \in tags[req[o].reg][req[o].repo],
               tags' = [tags EXCEPT ![req[o].reg][req[o].newName] = @ \union {t}],
               loc' = [loc EXCEPT ![o].left = @ \ {t}], UNCHANGED pc
        PROVE  Copies(o, t) /\ t \in Tag
    BY <1>0, <1>2, <2>1 DEF Copies, RenameCopy, At, Local
  <2>2. CASE Fail(o, "UNAVAILABLE") /\ UNCHANGED tags
    BY <1>0, <2>2 DEF Passes, Fail, Go, Local
  <2>3. ASSUME loc[o].left = {}, loc' = [loc EXCEPT ![o].left = loc[o].list],
               Go(o, "drop"), UNCHANGED tags
        PROVE  Turns(o)
    BY <1>0, <1>2, <2>3 DEF Turns, RenameCopy, At, Go, Local
  <2> QED BY <1>2, <2>1, <2>2, <2>3 DEF RenameCopy
<1>3. CASE RenameDrop(o)
  <2>1. ASSUME NEW t \in loc[o].left,
               tags' = [tags EXCEPT ![req[o].reg][req[o].repo] = @ \ {t}],
               loc' = [loc EXCEPT ![o].left = @ \ {t}], UNCHANGED pc
        PROVE  Drops(o, t) /\ t \in Tag
    BY <1>0, <1>3, <2>1 DEF Drops, RenameDrop, At, Local
  <2>2. CASE loc[o].left = {} /\ Go(o, "readRegistry") /\ UNCHANGED <<loc, tags>>
    BY <1>0, <1>3, <2>2 DEF Turns, RenameDrop, At, Go
  <2> QED BY <1>3, <2>1, <2>2 DEF RenameDrop
<1>4. CASE BeginRename(o) \/ RenameReadOld(o) \/ RenameCheckOverlay(o)
           \/ RenameCheckProjection(o) \/ RenameReadRegistry(o) \/ RenameRekey(o)
  <2>1. CASE BeginRename(o) \/ RenameReadOld(o) \/ RenameReadRegistry(o)
    BY <1>0, <2>1 DEF Passes, BeginRename, RenameReadOld, RenameReadRegistry, Fail, Go, At, Local
  <2>2. CASE RenameCheckOverlay(o) \/ RenameCheckProjection(o)
    BY <1>0, <2>2 DEF Passes, RenameCheckOverlay, RenameCheckProjection, TargetFree,
         Fail, Go, At, Local
  <2>3. CASE RenameRekey(o)
    BY <1>0, <2>3 DEF Passes, RenameRekey, StatementFails, GuardRefuses, Fail, Go, At, Local
  <2> QED BY <1>4, <2>1, <2>2, <2>3
<1>5. CASE ReadProjection(o) \/ CallFails(o)
  BY <1>0, <1>5 DEF Passes, ReadProjection, CallFails, Fail, Go, Local
<1>6. CASE Finalize(o)
  <2>1. pc'[o] \in {"ok", "error"} /\ UNCHANGED tags /\
        loc'[o] = [NoLocal EXCEPT !.list = loc[o].list, !.code = loc[o].code]
    BY <1>0, <1>6 DEF Finalize, Go
  <2> QED BY <1>0, <2>1 DEF Passes, NoLocal
<1>7. CASE Crash(o)
  <2>1. pc'[o] = "dead" /\ UNCHANGED tags /\ loc'[o] = [NoLocal EXCEPT !.list = loc[o].list]
    BY <1>0, <1>7 DEF Crash, Go
  <2> QED BY <1>0, <2>1 DEF Passes, NoLocal
<1> QED BY <1>1, <1>2, <1>3, <1>4, <1>5, <1>6, <1>7, RenameProgram DEF RenameStep

OldTags(o) == tags[req[o].reg][req[o].repo]
NewTags(o) == tags[req[o].reg][req[o].newName]

\* What is not left to copy is under the new name, and once copying is over all
\* of it is.
CopiedSoFar ==
  \A o \in Op : Renaming(o) =>
    /\ pc[o] = "copy" => loc[o].list \ loc[o].left \subseteq NewTags(o)
    /\ pc[o] \in {"drop", "readRegistry", "rekey"} => loc[o].list \subseteq NewTags(o)

\* While it copies, all it listed is still under the old name.
ListedStays ==
  /\ RenameKeepsAddressable
  /\ \A o \in Op : Renaming(o) /\ pc[o] = "copy" => loc[o].list \subseteq OldTags(o)

LEMMA RenameFields ==
  ASSUME WorkersOK, NEW o \in Op, Renaming(o)
  PROVE  /\ req \in Inbox /\ req[o].kind = "RenameRepository"
         /\ req[o].reg \in RegId /\ req[o].repo \in RepoName /\ req[o].newName \in RepoName
         /\ req[o].repo # req[o].newName
         /\ tags \in [RegId -> [RepoName -> SUBSET Tag]] /\ loc[o].list \subseteq Tag
<1>1. req \in Inbox /\ req \in [Op -> Request] /\ req[o].kind = "RenameRepository"
  BY DEF WorkersOK, CPTypeOK, Renaming, Is
<1>2. req[o].repo # req[o].newName
  BY <1>1, InboxAssumption
<1>3. loc[o] \in Local /\ tags \in [RegId -> [RepoName -> SUBSET Tag]]
  BY DEF WorkersOK, CPTypeOK
<1> QED BY <1>1, <1>2, <1>3, RequestFields DEF Local

\* How the tags of a rename's two names can change under the hands of others.
LEMMA OthersKeepTags ==
  ASSUME WorkersOK, NEW p \in Op, NEW o \in Op \ {p}, Renaming(o),
         Progress(p) \/ CallFails(p) \/ Crash(p)
  PROVE  /\ TargetLeftAlone => NewTags(o) \subseteq NewTags(o)'
         /\ SourceLeftAlone => OldTags(o) \subseteq OldTags(o)'
<1>1. req' = req
  BY OthersStay
<1>2. /\ req \in Inbox /\ req[o].kind = "RenameRepository"
      /\ req[o].reg \in RegId /\ req[o].repo \in RepoName /\ req[o].newName \in RepoName
  BY RenameFields
<1>3. ASSUME TargetLeftAlone, NEW t \in NewTags(o), t \notin NewTags(o)'
      PROVE  FALSE
  <2>1. TakesTags(req[p]) /\ req[p].reg = req[o].reg /\ req[p].repo = req[o].newName
    BY <1>1, <1>2, <1>3, TagsTaken DEF NewTags
  <2> QED BY <1>2, <1>3, <2>1 DEF TargetLeftAlone
<1>4. ASSUME SourceLeftAlone, NEW t \in OldTags(o), t \notin OldTags(o)'
      PROVE  FALSE
  <2>1. TakesTags(req[p]) /\ req[p].reg = req[o].reg /\ req[p].repo = req[o].repo
    BY <1>1, <1>2, <1>4, TagsTaken DEF OldTags
  <2> QED BY <1>2, <1>4, <2>1 DEF SourceLeftAlone
<1> QED BY <1>3, <1>4

LEMMA NextCopiedSoFar ==
  ASSUME TargetLeftAlone, WorkersOK, CopiedSoFar, [CPNext]_vars
  PROVE  CopiedSoFar'
<1> DEFINE C(o) == Renaming(o) =>
             /\ pc[o] = "copy" => loc[o].list \ loc[o].left \subseteq NewTags(o)
             /\ pc[o] \in {"drop", "readRegistry", "rekey"} => loc[o].list \subseteq NewTags(o)
<1>1. ASSUME NEW o \in Op, req' = req, pc'[o] = pc[o], loc'[o] = loc[o],
             Renaming(o) => NewTags(o) \subseteq NewTags(o)'
      PROVE  C(o)'
  BY <1>1 DEF CopiedSoFar, Renaming, Is
<1>2. ASSUME NEW o \in Op, Renaming(o), Progress(o) \/ CallFails(o) \/ Crash(o)
      PROVE  C(o)'
  <2>1. /\ req[o].reg \in RegId /\ req[o].repo \in RepoName /\ req[o].newName \in RepoName
        /\ req[o].repo # req[o].newName
        /\ tags \in [RegId -> [RepoName -> SUBSET Tag]]
    BY <1>2, RenameFields
  <2>2. req' = req
    BY <1>2, OthersStay
  <2>3. C(o)
    BY DEF CopiedSoFar
  <2>4. CASE Passes(o)
    BY <1>2, <2>2, <2>3, <2>4 DEF Passes, NewTags
  <2>5. CASE Lists(o)
    BY <2>5 DEF Lists
  <2>6. CASE Turns(o)
    BY <1>2, <2>2, <2>3, <2>6 DEF Turns, NewTags
  <2>7. ASSUME NEW t \in Tag, Copies(o, t)
        PROVE  C(o)'
    <3>1. NewTags(o)' = NewTags(o) \union {t}
      BY <2>1, <2>2, <2>7 DEF Copies, NewTags
    <3> QED BY <1>2, <2>3, <2>7, <3>1 DEF Copies
  <2>8. ASSUME NEW t \in Tag, Drops(o, t)
        PROVE  C(o)'
    <3>1. NewTags(o)' = NewTags(o)
      BY <2>1, <2>2, <2>8 DEF Drops, NewTags
    <3> QED BY <1>2, <2>3, <2>8, <3>1 DEF Drops
  <2> QED BY <1>2, <2>4, <2>5, <2>6, <2>7, <2>8, RenameMoves
<1>3. CASE UNCHANGED vars
  BY <1>1, <1>3 DEF vars, CopiedSoFar, NewTags
<1>4. CASE CPNext
  <2>1. PICK p \in Op : Progress(p) \/ CallFails(p) \/ Crash(p)
    BY <1>4 DEF CPNext
  <2>2. req' = req /\ \A o \in Op \ {p} : pc'[o] = pc[o] /\ loc'[o] = loc[o]
    BY <2>1, OthersStay
  <2>3. \A o \in Op \ {p} : C(o)'
    BY <1>1, <2>1, <2>2, OthersKeepTags
  <2>4. C(p)'
    BY <1>2, <2>1, <2>2 DEF Renaming, Is
  <2> QED BY <2>3, <2>4 DEF CopiedSoFar
<1> QED BY <1>3, <1>4

LEMMA NextListedStays ==
  ASSUME TargetLeftAlone, SourceLeftAlone, WorkersOK, CopiedSoFar, ListedStays, [CPNext]_vars
  PROVE  ListedStays'
<1> DEFINE L(o) == Renaming(o) =>
             /\ loc[o].list \subseteq OldTags(o) \union NewTags(o)
             /\ pc[o] = "copy" => loc[o].list \subseteq OldTags(o)
<1>0. ListedStays <=> \A o \in Op : L(o)
  BY DEF ListedStays, RenameKeepsAddressable, OldTags, NewTags
<1>0p. (\A o \in Op : L(o)') => ListedStays'
  BY DEF ListedStays, RenameKeepsAddressable, OldTags, NewTags
<1>1. ASSUME NEW o \in Op, req' = req, pc'[o] = pc[o], loc'[o] = loc[o],
             Renaming(o) => /\ NewTags(o) \subseteq NewTags(o)'
                            /\ OldTags(o) \subseteq OldTags(o)'
      PROVE  L(o)'
  BY <1>0, <1>1 DEF Renaming, Is
<1>2. ASSUME NEW o \in Op, Renaming(o), Progress(o) \/ CallFails(o) \/ Crash(o)
      PROVE  L(o)'
  <2>1. /\ req[o].reg \in RegId /\ req[o].repo \in RepoName /\ req[o].newName \in RepoName
        /\ req[o].repo # req[o].newName
        /\ tags \in [RegId -> [RepoName -> SUBSET Tag]]
    BY <1>2, RenameFields
  <2>2. req' = req
    BY <1>2, OthersStay
  <2>3. L(o)
    BY <1>0
  <2>4. CASE Passes(o)
    BY <1>2, <2>2, <2>3, <2>4 DEF Passes, NewTags, OldTags
  <2>5. CASE Lists(o)
    BY <2>2, <2>5 DEF Lists, OldTags
  <2>6. CASE Turns(o)
    BY <1>2, <2>2, <2>3, <2>6 DEF Turns, NewTags, OldTags
  <2>7. ASSUME NEW t \in Tag, Copies(o, t)
        PROVE  L(o)'
    <3>1. OldTags(o)' = OldTags(o)
      BY <2>1, <2>2, <2>7 DEF Copies, OldTags
    <3> QED BY <1>2, <2>3, <2>7, <3>1 DEF Copies
  <2>8. ASSUME NEW t \in Tag, Drops(o, t)
        PROVE  L(o)'
    <3>1. NewTags(o)' = NewTags(o)
      BY <2>1, <2>2, <2>8 DEF Drops, NewTags
    <3>2. loc[o].list \subseteq NewTags(o)
      BY <1>2, <2>8 DEF Drops, CopiedSoFar
    <3> QED BY <2>8, <3>1, <3>2 DEF Drops
  <2> QED BY <1>2, <2>4, <2>5, <2>6, <2>7, <2>8, RenameMoves
<1>3. CASE UNCHANGED vars
  <2>1. \A o \in Op : L(o)'
    BY <1>1, <1>3 DEF vars, NewTags, OldTags
  <2> QED BY <1>0p, <2>1
<1>4. CASE CPNext
  <2>1. PICK p \in Op : Progress(p) \/ CallFails(p) \/ Crash(p)
    BY <1>4 DEF CPNext
  <2>2. req' = req /\ \A o \in Op \ {p} : pc'[o] = pc[o] /\ loc'[o] = loc[o]
    BY <2>1, OthersStay
  <2>3. \A o \in Op \ {p} : L(o)'
    BY <1>1, <2>1, <2>2, OthersKeepTags
  <2>4. L(p)'
    BY <1>2, <2>1, <2>2 DEF Renaming, Is
  <2> QED BY <1>0p, <2>3, <2>4
<1> QED BY <1>3, <1>4

LEMMA InitRename == CPInit => CopiedSoFar /\ ListedStays
  BY DEF CPInit, CopiedSoFar, ListedStays, RenameKeepsAddressable, NoLocal

\* zot/repository.go, RenameRepository: the tags a rename has copied are under the
\* new name until it ends, where nobody else takes them from there.
THEOREM CopiesComplete == ASSUME TargetLeftAlone PROVE CPSpec => []CopiedSoFar
<1>1. CPInit => CopiedSoFar
  BY InitRename
<1>2. CPInv /\ CopiedSoFar /\ [CPNext]_vars => CopiedSoFar'
  BY TargetLeftAlone, NextCopiedSoFar DEF CPInv
<1> QED BY <1>1, <1>2, ControlPlaneInvariant, PTL DEF CPSpec

\* zot/repository.go: where nobody else deletes tags of the two names or renames
\* them away, every tag a rename listed is under the old name or the new one at
\* every moment, also when the rename failed or its process died half-way.
THEOREM TagsStayAddressable ==
  ASSUME TargetLeftAlone, SourceLeftAlone PROVE CPSpec => []RenameKeepsAddressable
<1>1. CPInit => ListedStays
  BY InitRename
<1>2. CPInv /\ CopiedSoFar /\ ListedStays /\ [CPNext]_vars => ListedStays'
  BY TargetLeftAlone, SourceLeftAlone, NextListedStays DEF CPInv
<1>3. CPSpec => []CopiedSoFar
  BY TargetLeftAlone, CopiesComplete
<1>4. ListedStays => RenameKeepsAddressable
  BY DEF ListedStays
<1> QED BY <1>1, <1>2, <1>3, <1>4, ControlPlaneInvariant, PTL DEF CPSpec

\* The transaction that gives the overlay its new name leaves a row there.
LEMMA RekeyLeavesRow ==
  ASSUME CPInv, NEW o \in Op, Renaming(o), [CPNext]_vars,
         pc[o] = "rekey", pc'[o] = "project"
  PROVE  configs'[req[o].reg][req[o].newName] # NoConfig
<1> DEFINE r == req[o].reg  new == req[o].newName  old == req[o].repo
<1>0. WorkersOK /\ pc \in [Op -> Place]
      /\ configs \in [RegId -> [RepoName -> Visibility \union {NoConfig}]]
  BY DEF CPInv, IInv, StoreTypeOK, WorkersOK, CPTypeOK, Place
<1>1. r \in RegId /\ new \in RepoName /\ old \in RepoName /\ old # new
  BY <1>0, RenameFields
<1>2. PICK p \in Op : Progress(p) \/ CallFails(p) \/ Crash(p)
  BY DEF vars, CPNext
<1>3. Progress(o) \/ CallFails(o) \/ Crash(o)
  BY <1>0, <1>2, OthersStay
<1>4. RenameRekey(o)
  BY <1>0, <1>3, RenameProgram
     DEF RenameStep, BeginRename, RenameReadOld, RenameCheckOverlay, RenameCheckProjection,
         TargetFree, RenameList, RenameCopy, RenameDrop, RenameReadRegistry, ReadProjection,
         Finalize, CallFails, Crash, At, Go, Fail
<1>5. loc[o].vis \in Visibility
  BY <1>0 DEF WorkersOK, VisibilityResolved
<1>6. \/ RekeyConfig(r, old, new, renameIntents(r, old, new, loc[o].vis))
      \/ InsertConfig(r, new, loc[o].vis, renameIntents(r, old, new, loc[o].vis))
  BY <1>0, <1>4 DEF RenameRekey, StatementFails, GuardRefuses, Fail, Go
<1>7. \E v \in Visibility : configs'[r][new] = v
  <2>1. CASE RekeyConfig(r, old, new, renameIntents(r, old, new, loc[o].vis))
    BY <1>0, <1>1, <2>1 DEF RekeyConfig, runConfigTx
  <2>2. CASE InsertConfig(r, new, loc[o].vis, renameIntents(r, old, new, loc[o].vis))
    BY <1>0, <1>1, <1>5, <2>2 DEF InsertConfig, runConfigTx
  <2> QED BY <1>6, <2>1, <2>2
<1> QED BY <1>7 DEF Visibility, NoConfig

\* rename_repository.go: where nobody else takes tags from the new name, an
\* overlay changes its name only when all the content listed is there, and there
\* is a row under the new name from that very step on.
THEOREM OverlayLast == ASSUME TargetLeftAlone PROVE CPSpec => OverlayMovesLast
<1> DEFINE A == \A o \in Op : Renaming(o) =>
       LET r == req[o].reg  old == req[o].repo  new == req[o].newName IN
       pc[o] = "rekey" /\ pc'[o] = "project" =>
         loc[o].list \subseteq tags[r][new] /\ configs'[r][new] # NoConfig
<1>1. CPInv /\ CopiedSoFar /\ [CPNext]_vars => [A]_vars
  <2> SUFFICES ASSUME CPInv, CopiedSoFar, [CPNext]_vars, NEW o \in Op, Renaming(o),
                      pc[o] = "rekey", pc'[o] = "project"
               PROVE  loc[o].list \subseteq tags[req[o].reg][req[o].newName]
                      /\ configs'[req[o].reg][req[o].newName] # NoConfig
    OBVIOUS
  <2>1. loc[o].list \subseteq tags[req[o].reg][req[o].newName]
    BY DEF CopiedSoFar, NewTags
  <2> QED BY <2>1, RekeyLeavesRow
<1>2. CPSpec => []CopiedSoFar
  BY TargetLeftAlone, CopiesComplete
<1> HIDE DEF A
<1>3. CPSpec => [][A]_vars
  BY <1>1, <1>2, ControlPlaneInvariant, PTL DEF CPSpec
<1> QED BY <1>3 DEF A, OverlayMovesLast

-----------------------------------------------------------------------------
(* The last word.                                                          *)

Speaks(m, kind, r, n) == m.kind = kind /\ m.reg = r /\ m.repo = n

\* The last thing a list of intents says about an object, and that it says nothing.
Says(ms, kind, event, r, n) ==
  \E j \in DOMAIN ms : /\ Speaks(ms[j], kind, r, n) /\ ms[j].event = event
                       /\ \A i \in DOMAIN ms : i > j => ~Speaks(ms[i], kind, r, n)

Silent(ms, kind, r, n) == \A j \in DOMAIN ms : ~Speaks(ms[j], kind, r, n)

LEMMA SaysAppended ==
  ASSUME NEW s \in Seq(Intent), NEW ms \in Seq(Intent),
         NEW kind, NEW event, NEW r, NEW n
  PROVE  /\ Says(s \o ms, kind, event, r, n) <=>
              \/ Says(ms, kind, event, r, n)
              \/ Silent(ms, kind, r, n) /\ Says(s, kind, event, r, n)
         /\ Silent(s \o ms, kind, r, n) <=> Silent(s, kind, r, n) /\ Silent(ms, kind, r, n)
<1> DEFINE N == Len(s)  M == Len(ms)  u == s \o ms
<1>1. /\ DOMAIN u = 1 .. N + M /\ DOMAIN s = 1 .. N /\ DOMAIN ms = 1 .. M
      /\ N \in Nat /\ M \in Nat
      /\ \A i \in 1 .. N : u[i] = s[i]
      /\ \A i \in 1 .. N + M : i \notin 1 .. N => i - N \in 1 .. M /\ u[i] = ms[i - N]
  BY AppendedRows
<1> HIDE DEF u, N, M
<1>2. \A j \in 1 .. M : N + j \in 1 .. N + M /\ N + j \notin 1 .. N /\ u[N + j] = ms[j]
  BY <1>1
<1>3. ASSUME Says(ms, kind, event, r, n)
      PROVE  Says(u, kind, event, r, n)
  <2>1. PICK j \in 1 .. M : /\ Speaks(ms[j], kind, r, n) /\ ms[j].event = event
                            /\ \A i \in 1 .. M : i > j => ~Speaks(ms[i], kind, r, n)
    BY <1>1, <1>3 DEF Says
  <2>2. \A i \in 1 .. N + M : i > N + j => i - N \in 1 .. M /\ i - N > j /\ u[i] = ms[i - N]
    BY <1>1
  <2>3. \A i \in 1 .. N + M : i > N + j => ~Speaks(u[i], kind, r, n)
    BY <2>1, <2>2
  <2>4. N + j \in DOMAIN u /\ Speaks(u[N + j], kind, r, n) /\ u[N + j].event = event
    BY <1>1, <1>2, <2>1
  <2> QED BY <1>1, <2>3, <2>4 DEF Says
<1>4. ASSUME Silent(ms, kind, r, n)
      PROVE  Says(u, kind, event, r, n) <=> Says(s, kind, event, r, n)
  <2>1. \A i \in 1 .. N + M : i \notin 1 .. N => ~Speaks(u[i], kind, r, n)
    BY <1>1, <1>4 DEF Silent
  <2>2. \A i \in 1 .. N : i \in 1 .. N + M /\ (Speaks(u[i], kind, r, n) <=> Speaks(s[i], kind, r, n))
                          /\ u[i].event = s[i].event
    BY <1>1
  <2>3. ASSUME Says(s, kind, event, r, n)
        PROVE  Says(u, kind, event, r, n)
    BY <1>1, <2>1, <2>2, <2>3 DEF Says
  <2>4. ASSUME Says(u, kind, event, r, n)
        PROVE  Says(s, kind, event, r, n)
    BY <1>1, <2>1, <2>2, <2>4 DEF Says
  <2> QED BY <2>3, <2>4
<1>5. ASSUME Says(u, kind, event, r, n), ~Silent(ms, kind, r, n)
      PROVE  Says(ms, kind, event, r, n)
  <2>1. PICK k \in 1 .. N + M : /\ Speaks(u[k], kind, r, n) /\ u[k].event = event
             /\ \A i \in 1 .. N + M : i > k => ~Speaks(u[i], kind, r, n)
    BY <1>1, <1>5 DEF Says
  <2>2. PICK j \in 1 .. M : Speaks(ms[j], kind, r, n)
    BY <1>1, <1>5 DEF Silent
  <2>3. k \notin 1 .. N
    BY <1>1, <1>2, <2>1, <2>2
  <2>4. k - N \in 1 .. M /\ u[k] = ms[k - N]
    BY <1>1, <2>3
  <2>5. \A i \in 1 .. M : i > k - N => ~Speaks(ms[i], kind, r, n)
    BY <1>1, <1>2, <2>1, <2>3
  <2> QED BY <1>1, <2>1, <2>4, <2>5 DEF Says
<1>6. Silent(u, kind, r, n) <=> Silent(s, kind, r, n) /\ Silent(ms, kind, r, n)
  <2>1. ASSUME Silent(u, kind, r, n)
        PROVE  Silent(s, kind, r, n) /\ Silent(ms, kind, r, n)
    <3>1. \A j \in 1 .. N : j \in 1 .. N + M
      BY <1>1
    <3> QED BY <1>1, <1>2, <2>1, <3>1 DEF Silent
  <2>2. ASSUME Silent(s, kind, r, n), Silent(ms, kind, r, n)
        PROVE  Silent(u, kind, r, n)
    BY <1>1, <2>2 DEF Silent
  <2> QED BY <2>1, <2>2
<1> QED BY <1>3, <1>4, <1>5, <1>6 DEF u

LEMMA NoIntent ==
  ASSUME NEW kind, NEW event, NEW r, NEW n
  PROVE  Silent(<< >>, kind, r, n) /\ ~Says(<< >>, kind, event, r, n)
  BY DEF Silent, Says

LEMMA OneIntent ==
  ASSUME NEW kind, NEW event, NEW r, NEW n, NEW a
  PROVE  /\ Silent(<<a>>, kind, r, n) <=> ~Speaks(a, kind, r, n)
         /\ Says(<<a>>, kind, event, r, n) <=> Speaks(a, kind, r, n) /\ a.event = event
  BY DEF Silent, Says

LEMMA TwoIntents ==
  ASSUME NEW kind, NEW event, NEW r, NEW n, NEW a, NEW b
  PROVE  /\ Silent(<<a, b>>, kind, r, n) <=> ~Speaks(a, kind, r, n) /\ ~Speaks(b, kind, r, n)
         /\ Says(<<a, b>>, kind, event, r, n) <=>
              \/ Speaks(b, kind, r, n) /\ b.event = event
              \/ ~Speaks(b, kind, r, n) /\ Speaks(a, kind, r, n) /\ a.event = event
  BY DEF Silent, Says

LEMMA ThreeIntents ==
  ASSUME NEW kind, NEW event, NEW r, NEW n, NEW a, NEW b, NEW c
  PROVE  /\ Silent(<<a, b, c>>, kind, r, n) <=>
              ~Speaks(a, kind, r, n) /\ ~Speaks(b, kind, r, n) /\ ~Speaks(c, kind, r, n)
         /\ Says(<<a, b, c>>, kind, event, r, n) <=>
              \/ Speaks(c, kind, r, n) /\ c.event = event
              \/ ~Speaks(c, kind, r, n) /\ Speaks(b, kind, r, n) /\ b.event = event
              \/ ~Speaks(c, kind, r, n) /\ ~Speaks(b, kind, r, n)
                 /\ Speaks(a, kind, r, n) /\ a.event = event
  BY DEF Silent, Says

\* Which object each intent is about, and what it says of it.
LEMMA IntentSays ==
  ASSUME NEW q, NEW m, NEW r, NEW n
  PROVE  /\ ~Speaks(RegisterIntentForRepoPush(q, m), "PublicGrant", r, n)
         /\ ~Speaks(UnregisterIntentForRepo(q, m), "PublicGrant", r, n)
         /\ Speaks(RegisterIntentForRepoPublicGrant(q, m), "PublicGrant", r, n) <=> r = q /\ n = m
         /\ Speaks(UnregisterIntentForRepoPublicGrant(q, m), "PublicGrant", r, n) <=> r = q /\ n = m
         /\ Speaks(RegisterIntentForRepoPush(q, m), "Repository", r, n) <=> r = q /\ n = m
         /\ Speaks(UnregisterIntentForRepo(q, m), "Repository", r, n) <=> r = q /\ n = m
         /\ ~Speaks(RegisterIntentForRepoPublicGrant(q, m), "Repository", r, n)
         /\ ~Speaks(UnregisterIntentForRepoPublicGrant(q, m), "Repository", r, n)
         /\ RegisterIntentForRepoPush(q, m).event = "register"
         /\ UnregisterIntentForRepo(q, m).event = "unregister"
         /\ RegisterIntentForRepoPublicGrant(q, m).event = "register"
         /\ UnregisterIntentForRepoPublicGrant(q, m).event = "unregister"
  BY DEF Speaks, RegisterIntentForRepoPush, UnregisterIntentForRepo,
         RegisterIntentForRepoPublicGrant, UnregisterIntentForRepoPublicGrant

LEMMA LastWordIs ==
  ASSUME NEW kind, NEW event, NEW r, NEW n
  PROVE  /\ LastWord(kind, event, r, n) <=> Says(outbox, kind, event, r, n)
         /\ LastWord(kind, event, r, n)' <=> Says(outbox', kind, event, r, n)
  BY DEF LastWord, LastIntent, Says, Speaks

\* They are intents.
LEMMA ListsAreIntents ==
  ASSUME NEW r \in RegId, NEW n \in RepoName, NEW v \in Visibility
  PROVE  /\ PublicGrantIf(r, n, v) \in Seq(Intent)
         /\ createRepoIntents(r, n, v) \in Seq(Intent)
         /\ updateGovernanceIntents(r, n, TRUE, v) \in Seq(Intent)
         /\ deleteRepoIntents(r, n) \in Seq(Intent)
         /\ \A old \in RepoName : renameIntents(r, old, n, v) \in Seq(Intent)
<1>1. \A s \in Seq(RepoIntent) : s \in Seq(Intent)
  BY DEF RepoIntent
<1> QED BY <1>1, IntentLists

\* What the intent lists of the use cases say in the end of public grants.
LEMMA PublicGrantSaid ==
  ASSUME NEW q \in RegId, NEW m \in RepoName, NEW v \in Visibility,
         NEW r \in RegId, NEW n \in RepoName
  PROVE  /\ Says(PublicGrantIf(q, m, v), "PublicGrant", "register", r, n) <=>
               r = q /\ n = m /\ v = "PUBLIC"
         /\ Silent(PublicGrantIf(q, m, v), "PublicGrant", r, n) <=>
               ~(r = q /\ n = m /\ v = "PUBLIC")
<1>1. CASE v = "PUBLIC"
  <2>1. PublicGrantIf(q, m, v) = <<RegisterIntentForRepoPublicGrant(q, m)>>
    BY <1>1 DEF PublicGrantIf
  <2> QED BY <1>1, <2>1, OneIntent, IntentSays
<1>2. CASE v # "PUBLIC"
  <2>1. PublicGrantIf(q, m, v) = << >>
    BY <1>2 DEF PublicGrantIf
  <2> QED BY <1>2, <2>1, NoIntent
<1> QED BY <1>1, <1>2

LEMMA CreateGrantSaid ==
  ASSUME NEW q \in RegId, NEW m \in RepoName, NEW v \in Visibility,
         NEW r \in RegId, NEW n \in RepoName
  PROVE  /\ Says(createRepoIntents(q, m, v), "PublicGrant", "register", r, n) <=>
               r = q /\ n = m /\ v = "PUBLIC"
         /\ Silent(createRepoIntents(q, m, v), "PublicGrant", r, n) <=>
               ~(r = q /\ n = m /\ v = "PUBLIC")
<1> DEFINE one == <<RegisterIntentForRepoPush(q, m)>>
           list == PublicGrantIf(q, m, v)
<1>1. Silent(one, "PublicGrant", r, n) /\ ~Says(one, "PublicGrant", "register", r, n)
  BY OneIntent, IntentSays
<1>2. one \in Seq(Intent)
  <2>1. RegisterIntentForRepoPush(q, m) \in Intent
    BY IntentTypes DEF RepoIntent
  <2> QED BY <2>1
<1>3. list \in Seq(Intent)
  BY ListsAreIntents
<1>4. createRepoIntents(q, m, v) = one \o list
  BY DEF createRepoIntents
<1>5. /\ Says(list, "PublicGrant", "register", r, n) <=> r = q /\ n = m /\ v = "PUBLIC"
      /\ Silent(list, "PublicGrant", r, n) <=> ~(r = q /\ n = m /\ v = "PUBLIC")
  BY PublicGrantSaid
<1> HIDE DEF one, list
<1>6. /\ Says(one \o list, "PublicGrant", "register", r, n) <=>
           \/ Says(list, "PublicGrant", "register", r, n)
           \/ Silent(list, "PublicGrant", r, n) /\ Says(one, "PublicGrant", "register", r, n)
      /\ Silent(one \o list, "PublicGrant", r, n) <=>
           Silent(one, "PublicGrant", r, n) /\ Silent(list, "PublicGrant", r, n)
  BY <1>2, <1>3, SaysAppended
<1> QED BY <1>1, <1>4, <1>5, <1>6

LEMMA GovernanceGrantSaid ==
  ASSUME NEW q \in RegId, NEW m \in RepoName, NEW v \in Visibility,
         NEW r \in RegId, NEW n \in RepoName
  PROVE  /\ Says(updateGovernanceIntents(q, m, TRUE, v), "PublicGrant", "register", r, n) <=>
               r = q /\ n = m /\ v = "PUBLIC"
         /\ Silent(updateGovernanceIntents(q, m, TRUE, v), "PublicGrant", r, n) <=>
               ~(r = q /\ n = m)
<1>1. CASE v = "PUBLIC"
  <2>1. updateGovernanceIntents(q, m, TRUE, v) = <<RegisterIntentForRepoPublicGrant(q, m)>>
    BY <1>1 DEF updateGovernanceIntents
  <2>2. /\ Speaks(RegisterIntentForRepoPublicGrant(q, m), "PublicGrant", r, n) <=> r = q /\ n = m
        /\ RegisterIntentForRepoPublicGrant(q, m).event = "register"
    BY IntentSays
  <2>3. /\ Silent(<<RegisterIntentForRepoPublicGrant(q, m)>>, "PublicGrant", r, n) <=> ~(r = q /\ n = m)
        /\ Says(<<RegisterIntentForRepoPublicGrant(q, m)>>, "PublicGrant", "register", r, n) <=>
             r = q /\ n = m
    BY <2>2, OneIntent
  <2> QED BY <1>1, <2>1, <2>3
<1>2. CASE v # "PUBLIC"
  <2>1. updateGovernanceIntents(q, m, TRUE, v) = <<UnregisterIntentForRepoPublicGrant(q, m)>>
    BY <1>2 DEF updateGovernanceIntents
  <2>2. /\ Speaks(UnregisterIntentForRepoPublicGrant(q, m), "PublicGrant", r, n) <=> r = q /\ n = m
        /\ UnregisterIntentForRepoPublicGrant(q, m).event = "unregister"
    BY IntentSays
  <2>3. /\ Silent(<<UnregisterIntentForRepoPublicGrant(q, m)>>, "PublicGrant", r, n) <=> ~(r = q /\ n = m)
        /\ ~Says(<<UnregisterIntentForRepoPublicGrant(q, m)>>, "PublicGrant", "register", r, n)
    BY <2>2, OneIntent
  <2> QED BY <1>2, <2>1, <2>3
<1> QED BY <1>1, <1>2

LEMMA DeleteGrantSaid ==
  ASSUME NEW q \in RegId, NEW m \in RepoName, NEW r \in RegId, NEW n \in RepoName
  PROVE  /\ ~Says(deleteRepoIntents(q, m), "PublicGrant", "register", r, n)
         /\ Silent(deleteRepoIntents(q, m), "PublicGrant", r, n) <=> ~(r = q /\ n = m)
  BY TwoIntents, IntentSays DEF deleteRepoIntents

LEMMA RenameGrantsSaid ==
  ASSUME NEW q \in RegId, NEW m \in RepoName, NEW old \in RepoName, NEW v \in Visibility,
         NEW r \in RegId, NEW n \in RepoName
  PROVE  /\ Says(renameIntents(q, old, m, v), "PublicGrant", "register", r, n) <=>
               r = q /\ n = m /\ v = "PUBLIC"
         /\ Silent(renameIntents(q, old, m, v), "PublicGrant", r, n) <=>
               ~(r = q /\ n = m /\ v = "PUBLIC") /\ ~(r = q /\ n = old)
<1> DEFINE three == << RegisterIntentForRepoPush(q, m), UnregisterIntentForRepo(q, old),
                         UnregisterIntentForRepoPublicGrant(q, old) >>
<1>1. ~Says(three, "PublicGrant", "register", r, n)
        /\ (Silent(three, "PublicGrant", r, n) <=> ~(r = q /\ n = old))
  BY ThreeIntents, IntentSays
<1> HIDE DEF three
<1>2. three \in Seq(Intent)
  <2>1. /\ RegisterIntentForRepoPush(q, m) \in Intent
        /\ UnregisterIntentForRepo(q, old) \in Intent
        /\ UnregisterIntentForRepoPublicGrant(q, old) \in Intent
    BY IntentTypes DEF RepoIntent
  <2> QED BY <2>1 DEF three
<1>3. renameIntents(q, old, m, v) = three \o PublicGrantIf(q, m, v)
  BY DEF renameIntents, three
<1>4. PublicGrantIf(q, m, v) \in Seq(Intent)
  BY ListsAreIntents
<1>5. /\ Says(PublicGrantIf(q, m, v), "PublicGrant", "register", r, n) <=>
            r = q /\ n = m /\ v = "PUBLIC"
      /\ Silent(PublicGrantIf(q, m, v), "PublicGrant", r, n) <=>
            ~(r = q /\ n = m /\ v = "PUBLIC")
  BY PublicGrantSaid
<1> DEFINE list == PublicGrantIf(q, m, v)
<1> HIDE DEF list
<1>6. /\ Says(three \o list, "PublicGrant", "register", r, n) <=>
           \/ Says(list, "PublicGrant", "register", r, n)
           \/ Silent(list, "PublicGrant", r, n) /\ Says(three, "PublicGrant", "register", r, n)
      /\ Silent(three \o list, "PublicGrant", r, n) <=>
           Silent(three, "PublicGrant", r, n) /\ Silent(list, "PublicGrant", r, n)
  BY <1>2, <1>4, SaysAppended DEF list
<1> QED BY <1>1, <1>3, <1>5, <1>6 DEF list

LEMMA RepositoriesSaid ==
  ASSUME NEW q \in RegId, NEW m \in RepoName, NEW v \in Visibility,
         NEW r \in RegId, NEW n \in RepoName
  PROVE  LET says(ms)   == Says(ms, "Repository", "unregister", r, n)
             silent(ms) == Silent(ms, "Repository", r, n)
             here       == r = q /\ n = m
         IN  /\ ~says(PublicGrantIf(q, m, v)) /\ silent(PublicGrantIf(q, m, v))
             /\ ~says(createRepoIntents(q, m, v)) /\ (silent(createRepoIntents(q, m, v)) <=> ~here)
             /\ ~says(updateGovernanceIntents(q, m, TRUE, v))
             /\ silent(updateGovernanceIntents(q, m, TRUE, v))
             /\ says(deleteRepoIntents(q, m)) <=> here
             /\ silent(deleteRepoIntents(q, m)) <=> ~here
<1>1. /\ ~Says(PublicGrantIf(q, m, v), "Repository", "unregister", r, n)
      /\ Silent(PublicGrantIf(q, m, v), "Repository", r, n)
  BY NoIntent, OneIntent, IntentSays DEF PublicGrantIf
<1>2. PublicGrantIf(q, m, v) \in Seq(Intent) /\ <<RegisterIntentForRepoPush(q, m)>> \in Seq(Intent)
  <2>1. RegisterIntentForRepoPush(q, m) \in Intent
    BY IntentTypes DEF RepoIntent
  <2>2. PublicGrantIf(q, m, v) \in Seq(Intent)
    BY ListsAreIntents
  <2> QED BY <2>1, <2>2
<1>3. /\ ~Says(createRepoIntents(q, m, v), "Repository", "unregister", r, n)
      /\ Silent(createRepoIntents(q, m, v), "Repository", r, n) <=> ~(r = q /\ n = m)
  <2>1. /\ Silent(<<RegisterIntentForRepoPush(q, m)>>, "Repository", r, n) <=> ~(r = q /\ n = m)
        /\ ~Says(<<RegisterIntentForRepoPush(q, m)>>, "Repository", "unregister", r, n)
    BY OneIntent, IntentSays
  <2> QED BY <1>1, <1>2, <2>1, SaysAppended DEF createRepoIntents
<1>4. /\ ~Says(updateGovernanceIntents(q, m, TRUE, v), "Repository", "unregister", r, n)
      /\ Silent(updateGovernanceIntents(q, m, TRUE, v), "Repository", r, n)
  BY OneIntent, IntentSays DEF updateGovernanceIntents
<1>5. /\ Says(deleteRepoIntents(q, m), "Repository", "unregister", r, n) <=> r = q /\ n = m
      /\ Silent(deleteRepoIntents(q, m), "Repository", r, n) <=> ~(r = q /\ n = m)
  BY TwoIntents, IntentSays DEF deleteRepoIntents
<1> QED BY <1>1, <1>3, <1>4, <1>5

LEMMA RenameRepositoriesSaid ==
  ASSUME NEW q \in RegId, NEW m \in RepoName, NEW old \in RepoName, NEW v \in Visibility,
         NEW r \in RegId, NEW n \in RepoName
  PROVE  /\ Says(renameIntents(q, old, m, v), "Repository", "unregister", r, n) <=> r = q /\ n = old
         /\ Silent(renameIntents(q, old, m, v), "Repository", r, n) <=>
               ~(r = q /\ n = m) /\ ~(r = q /\ n = old)
<1> DEFINE three == << RegisterIntentForRepoPush(q, m), UnregisterIntentForRepo(q, old),
                         UnregisterIntentForRepoPublicGrant(q, old) >>
<1>1. /\ Says(three, "Repository", "unregister", r, n) <=> r = q /\ n = old
      /\ Silent(three, "Repository", r, n) <=> ~(r = q /\ n = m) /\ ~(r = q /\ n = old)
  <2>1. Says(three, "Repository", "unregister", r, n) <=> r = q /\ n = old
    BY ThreeIntents, IntentSays
  <2>2. Silent(three, "Repository", r, n) <=> ~(r = q /\ n = m) /\ ~(r = q /\ n = old)
    BY ThreeIntents, IntentSays
  <2> QED BY <2>1, <2>2
<1> HIDE DEF three
<1>2. three \in Seq(Intent)
  <2>1. /\ RegisterIntentForRepoPush(q, m) \in Intent
        /\ UnregisterIntentForRepo(q, old) \in Intent
        /\ UnregisterIntentForRepoPublicGrant(q, old) \in Intent
    BY IntentTypes DEF RepoIntent
  <2> QED BY <2>1 DEF three
<1>3. renameIntents(q, old, m, v) = three \o PublicGrantIf(q, m, v)
  BY DEF renameIntents, three
<1>4. PublicGrantIf(q, m, v) \in Seq(Intent)
  BY ListsAreIntents
<1>5. /\ ~Says(PublicGrantIf(q, m, v), "Repository", "unregister", r, n)
      /\ Silent(PublicGrantIf(q, m, v), "Repository", r, n)
  BY RepositoriesSaid
<1> DEFINE list == PublicGrantIf(q, m, v)
<1> HIDE DEF list
<1>6. /\ Says(three \o list, "Repository", "unregister", r, n) <=>
           \/ Says(list, "Repository", "unregister", r, n)
           \/ Silent(list, "Repository", r, n) /\ Says(three, "Repository", "unregister", r, n)
      /\ Silent(three \o list, "Repository", r, n) <=>
           Silent(three, "Repository", r, n) /\ Silent(list, "Repository", r, n)
  BY <1>2, <1>4, SaysAppended DEF list
<1> QED BY <1>1, <1>3, <1>5, <1>6 DEF list

-----------------------------------------------------------------------------
(* Requests on one repository that wait for one another.                   *)

\* From the acceptance of a request to the result of its Operation (or the death
\* of its worker): what a client that waits for the Operation waits for.
UnderWay(o) == pc[o] \notin {"idle"} \union Final

\* Requests that may put a visibility into overlay row (r, n), ...
Sets(q, r, n) ==
  /\ q.reg = r
  /\ \/ q.kind \in {"CreateRepository", "UpdateRepository"} /\ q.repo = n
     \/ q.kind = "RenameRepository" /\ q.newName = n

\* ... may tell iam that the repository is gone, ...
Forgets(q, r, n) ==
  q.kind \in {"DeleteTag", "DeleteRepository", "RenameRepository"} /\ q.reg = r /\ q.repo = n

\* ... or put tags into it.
Fills(q, r, n) ==
  /\ q.reg = r
  /\ \/ q.kind = "Push" /\ q.repo = n
     \/ q.kind = "RenameRepository" /\ q.newName = n

\* Nobody sets the overlay row of the old name of a rename that is under way.
RenamesInTurn ==
  \A o, p \in Op : Renaming(o) /\ UnderWay(o) /\ UnderWay(p) =>
    ~Sets(req[p], req[o].reg, req[o].repo)

\* A request that is over stays so, and one that was accepted was.
LEMMA AcceptedStays ==
  ASSUME WorkersOK, NEW o \in Op, Progress(o) \/ CallFails(o) \/ Crash(o)
  PROVE  pc[o] \notin Final /\ pc'[o] # "idle"
<1>0. pc \in [Op -> Place]
  BY DEF WorkersOK, CPTypeOK, Place
<1> USE DEF At, Go, Fail, GuardRefuses, StatementFails, Final
<1>1. CASE RegistryStep(o)
  BY <1>0, <1>1 DEF RegistryStep, BeginCreateRegistry, CreateInsert, CreateConflict,
       BeginUpdateRegistry, UpdateCommit, UpdateRefused, BeginDeleteRegistry, DeleteMark,
       DeleteRecheck, DeleteRow
<1>2. CASE OverlayStep(o)
  BY <1>0, <1>2 DEF OverlayStep, BeginCreateRepository, CreateRepositoryInsert, ReadProjection,
       BeginUpdateRepository, UpdateRepositoryPatch, UpdateRepositoryReadDefault,
       UpdateRepositoryPromote, UpdateRepositoryRetry, BeginDeleteRepository,
       DeleteRepositoryCheckEmpty, DeleteRepositoryRow
<1>3. CASE RenameStep(o)
  BY <1>0, <1>3 DEF RenameStep, BeginRename, RenameReadOld, RenameCheckOverlay,
       RenameCheckProjection, TargetFree, RenameList, RenameCopy, RenameDrop,
       RenameReadRegistry, RenameRekey
<1>4. CASE ContentStep(o)
  BY <1>0, <1>4 DEF ContentStep, BeginDeleteTag, DeleteTagEngine, DeleteTagList,
       DeleteTagUnregister, BeginPush, PushForward, PushRegister
<1>5. CASE Finalize(o) \/ CallFails(o) \/ Crash(o)
  BY <1>0, <1>5 DEF Finalize, CallFails, Crash, Calls
<1> QED BY <1>1, <1>2, <1>3, <1>4, <1>5 DEF Progress

\* The store and the tags are written on behalf of requests that are under way.
LEMMA WriterUnderWay ==
  ASSUME WorkersOK, NEW o \in Op, Progress(o) \/ CallFails(o) \/ Crash(o),
         storeVars' # storeVars \/ tags' # tags
  PROVE  UnderWay(o)
<1>1. pc[o] # "idle"
  <2>1. RegistryStep(o) => pc[o] # "idle"
    BY DEF RegistryStep, BeginCreateRegistry, CreateInsert, CreateConflict, BeginUpdateRegistry,
         UpdateCommit, UpdateRefused, BeginDeleteRegistry, DeleteMark, DeleteRecheck, DeleteRow, At
  <2>2. OverlayStep(o) => pc[o] # "idle"
    BY DEF OverlayStep, BeginCreateRepository, CreateRepositoryInsert, ReadProjection,
         BeginUpdateRepository, UpdateRepositoryPatch, UpdateRepositoryReadDefault,
         UpdateRepositoryPromote, UpdateRepositoryRetry, BeginDeleteRepository,
         DeleteRepositoryCheckEmpty, DeleteRepositoryRow, At
  <2>3. RenameStep(o) => pc[o] # "idle"
    BY DEF RenameStep, BeginRename, RenameReadOld, RenameCheckOverlay,
         RenameCheckProjection, RenameList, RenameCopy, RenameDrop, RenameReadRegistry,
         RenameRekey, At
  <2>4. ContentStep(o) => pc[o] # "idle"
    BY DEF ContentStep, BeginDeleteTag, DeleteTagEngine, DeleteTagList, DeleteTagUnregister,
         BeginPush, PushForward, PushRegister, At
  <2>5. ~Finalize(o) /\ ~CallFails(o) /\ ~Crash(o)
    BY DEF Finalize, CallFails, Crash
  <2> QED BY <2>1, <2>2, <2>3, <2>4, <2>5 DEF Progress
<1> QED BY <1>1, AcceptedStays DEF UnderWay

\* Who puts a visibility into an overlay row, or another one.
LEMMA RowSetBy ==
  ASSUME CPInv, NEW o \in Op, Progress(o) \/ CallFails(o) \/ Crash(o),
         NEW r \in RegId, NEW n \in RepoName, configs'[r][n] \notin {configs[r][n], NoConfig}
  PROVE  Sets(req[o], r, n) /\ UnderWay(o)
<1>0. /\ StoreTypeOK /\ WorkersOK /\ req[o] \in Request /\ req[o].reg \in RegId
      /\ MayCall(req[o].kind, pc[o])
      /\ configs \in [RegId -> [RepoName -> Visibility \union {NoConfig}]]
  BY RequestFields DEF CPInv, IInv, StoreTypeOK, WorkersOK, CPTypeOK, CallsOfKind
<1>1. configs' # configs
  OBVIOUS
<1>2. UnderWay(o)
  BY <1>0, <1>1, WriterUnderWay DEF storeVars
<1>3. ASSUME NEW m \in RepoName, NEW v,
             configs' = [configs EXCEPT ![req[o].reg] = [configs[req[o].reg] EXCEPT ![m] = v]]
      PROVE  r = req[o].reg /\ n = m
  BY <1>0, <1>3
<1>4. CASE CreateRepositoryInsert(o)
  <2>1. req[o].kind = "CreateRepository" /\ req[o].repo \in RepoName
    BY <1>0, <1>4, RequestFields DEF CreateRepositoryInsert, MayCall, At
  <2>2. configs' = [configs EXCEPT ![req[o].reg] =
                      [configs[req[o].reg] EXCEPT ![req[o].repo] = loc[o].vis]]
    BY <1>1, <1>4 DEF CreateRepositoryInsert, StatementFails, GuardRefuses, InsertConfig,
         runConfigTx, storeVars
  <2> QED BY <1>2, <1>3, <2>1, <2>2 DEF Sets
<1>5. CASE UpdateRepositoryPromote(o)
  <2>1. req[o].kind = "UpdateRepository" /\ req[o].repo \in RepoName
    BY <1>0, <1>5, RequestFields DEF UpdateRepositoryPromote, MayCall, At
  <2>2. configs' = [configs EXCEPT ![req[o].reg] =
                      [configs[req[o].reg] EXCEPT ![req[o].repo] = loc[o].vis]]
    BY <1>1, <1>5 DEF UpdateRepositoryPromote, GuardRefuses, InsertConfig, runConfigTx, storeVars
  <2> QED BY <1>2, <1>3, <2>1, <2>2 DEF Sets
<1>6. CASE UpdateRepositoryPatch(o) \/ UpdateRepositoryRetry(o)
  <2>1. req[o].kind = "UpdateRepository" /\ req[o].repo \in RepoName
    BY <1>0, <1>6, RequestFields DEF UpdateRepositoryPatch, UpdateRepositoryRetry, MayCall, At
  <2>2. PatchConfig(req[o])
    BY <1>1, <1>6 DEF UpdateRepositoryPatch, UpdateRepositoryRetry, StatementFails, GuardRefuses,
         storeVars
  <2>3. \E v : configs' = [configs EXCEPT ![req[o].reg] =
                             [configs[req[o].reg] EXCEPT ![req[o].repo] = v]]
    BY <2>2 DEF PatchConfig, UpdateConfig, runConfigTx
  <2> QED BY <1>2, <1>3, <2>1, <2>3 DEF Sets
<1>7. CASE DeleteRepositoryRow(o)
  <2>1. req[o].repo \in RepoName
    BY <1>0, <1>7, RequestFields DEF DeleteRepositoryRow, MayCall, At
  <2>2. configs' = [configs EXCEPT ![req[o].reg] =
                      [configs[req[o].reg] EXCEPT ![req[o].repo] = NoConfig]]
    BY <1>1, <1>7 DEF DeleteRepositoryRow, GuardRefuses, DeleteConfig, runConfigTx, storeVars
  <2> QED BY <1>0, <2>1, <2>2
<1>8. CASE DeleteRow(o)
  <2>1. configs' = [configs EXCEPT ![req[o].reg] = [m \in RepoName |-> NoConfig]]
    BY <1>1, <1>8 DEF DeleteRow, Delete, storeVars
  <2> QED BY <1>0, <2>1
<1>9. CASE RenameRekey(o)
  <2>1. Renaming(o)
    BY <1>0, <1>9 DEF RenameRekey, MayCall, At, Renaming, Is
  <2> DEFINE q == req[o].reg  old == req[o].repo  new == req[o].newName
             ms == renameIntents(q, old, new, loc[o].vis)
  <2>2. new \in RepoName /\ old \in RepoName
    BY <2>1, <1>0, RequestFields DEF Renaming, Is
  <2>3. RekeyConfig(q, old, new, ms) \/ InsertConfig(q, new, loc[o].vis, ms)
    BY <1>1, <1>9 DEF RenameRekey, StatementFails, GuardRefuses, storeVars
  <2>4. CASE RekeyConfig(q, old, new, ms)
    <3>1. configs' = [configs EXCEPT ![q] =
                        [configs[q] EXCEPT ![old] = NoConfig, ![new] = configs[q][old]]]
      BY <2>4 DEF RekeyConfig, runConfigTx
    <3>2. q = r /\ new = n
      BY <1>0, <2>2, <3>1
    <3> QED BY <1>2, <2>1, <3>2 DEF Sets, Renaming, Is
  <2>5. CASE InsertConfig(q, new, loc[o].vis, ms)
    <3>1. configs' = [configs EXCEPT ![q] = [configs[q] EXCEPT ![new] = loc[o].vis]]
      BY <2>5 DEF InsertConfig, runConfigTx
    <3>2. q = r /\ new = n
      BY <1>3, <2>2, <3>1
    <3> QED BY <1>2, <2>1, <3>2 DEF Sets, Renaming, Is
  <2> QED BY <2>3, <2>4, <2>5
<1>10. RegistryStep(o) => DeleteRow(o)
  BY <1>1 DEF RegistryStep, BeginCreateRegistry, CreateInsert, CreateConflict, Insert,
       BeginUpdateRegistry, UpdateCommit, Update, UpdateRefused, BeginDeleteRegistry,
       DeleteMark, MarkDeleting, DeleteRecheck, storeVars
<1>11. OverlayStep(o) => \/ CreateRepositoryInsert(o) \/ UpdateRepositoryPromote(o)
                         \/ UpdateRepositoryPatch(o) \/ UpdateRepositoryRetry(o)
                         \/ DeleteRepositoryRow(o)
  BY <1>1 DEF OverlayStep, BeginCreateRepository, ReadProjection, BeginUpdateRepository,
         UpdateRepositoryReadDefault, BeginDeleteRepository, DeleteRepositoryCheckEmpty, storeVars
<1>12. RenameStep(o) => RenameRekey(o)
  BY <1>1 DEF RenameStep, BeginRename, RenameReadOld, RenameCheckOverlay,
       RenameCheckProjection, TargetFree, RenameList, RenameCopy, RenameDrop,
       RenameReadRegistry, storeVars
<1>13. ~ContentStep(o) /\ ~Finalize(o) /\ ~CallFails(o) /\ ~Crash(o)
  BY <1>1 DEF ContentStep, BeginDeleteTag, DeleteTagEngine, DeleteTagList, DeleteTagUnregister,
       BeginPush, PushForward, PushRegister, emitRepoIntent, Finalize, CallFails, Crash, storeVars
<1> QED BY <1>4, <1>5, <1>6, <1>7, <1>8, <1>9, <1>10, <1>11, <1>12, <1>13 DEF Progress

\* Of a rename only the last transaction writes.
LEMMA RenameCommits ==
  ASSUME WorkersOK, NEW o \in Op, Renaming(o), Progress(o) \/ CallFails(o) \/ Crash(o)
  PROVE  UNCHANGED storeVars \/ Rekeys(o)
<1>0. pc \in [Op -> Place]
  BY DEF WorkersOK, CPTypeOK, Place
<1>1. CASE RenameRekey(o)
  <2>1. pc[o] = "rekey" /\ (Go(o, "project") => pc'[o] = "project")
    BY <1>0, <1>1 DEF RenameRekey, At, Go
  <2> QED BY <1>1, <2>1 DEF RenameRekey, StatementFails, GuardRefuses, Rekeys
<1>2. CASE ~RenameRekey(o)
  <2>1. RenameStep(o) \/ ReadProjection(o) \/ Finalize(o) \/ CallFails(o) \/ Crash(o)
    BY RenameProgram
  <2> QED BY <1>2, <2>1
          DEF RenameStep, BeginRename, RenameReadOld, RenameCheckOverlay,
              RenameCheckProjection, TargetFree, RenameList, RenameCopy, RenameDrop,
              RenameReadRegistry, ReadProjection, Finalize, CallFails, Crash
<1> QED BY <1>1, <1>2

-----------------------------------------------------------------------------
(* Anonymous reads.                                                        *)

\* A rename between its first read and its transaction.
Midway == {"checkOverlay", "checkProjection", "list", "copy", "drop", "readRegistry", "rekey"}

\* While a rename is midway nobody else writes a visibility into the overlay row
\* it read.
SourceSteady ==
  \A o \in Op : Renaming(o) /\ pc[o] \in Midway /\ pc'[o] \in Midway =>
    configs'[req[o].reg][req[o].repo] \in {configs[req[o].reg][req[o].repo], NoConfig}

\* It is so when requests on one repository wait for one another: a row is only
\* written on behalf of a request that may set it and is under way.
LEMMA InTurnSteady ==
  ASSUME CPInv, RenamesInTurn, [CPNext]_vars
  PROVE  SourceSteady
<1> SUFFICES ASSUME NEW o \in Op, Renaming(o), pc[o] \in Midway, pc'[o] \in Midway,
                    configs'[req[o].reg][req[o].repo]
                      \notin {configs[req[o].reg][req[o].repo], NoConfig}
             PROVE  FALSE
  BY DEF SourceSteady
<1>1. /\ WorkersOK /\ req[o].reg \in RegId /\ req[o].repo \in RepoName
  BY RequestFields DEF CPInv, WorkersOK, CPTypeOK, Renaming, Is
<1>2. PICK p \in Op : Progress(p) \/ CallFails(p) \/ Crash(p)
  BY DEF CPNext, vars, storeVars
<1>3. Sets(req[p], req[o].reg, req[o].repo) /\ UnderWay(p)
  BY <1>1, <1>2, RowSetBy
<1>4. UnderWay(o)
  BY DEF UnderWay, Midway, Final
<1> QED BY <1>2, <1>3, <1>4 DEF RenamesInTurn

\* What a rename remembers of the overlay row it is to move is true of it, or
\* the row has gone.
OverlayRemembered ==
  \A o \in Op : Renaming(o) =>
    LET row == configs[req[o].reg][req[o].repo] IN
    /\ pc[o] \in Midway \ {"rekey"} => row \in {loc[o].vis, NoConfig}
    /\ pc[o] = "rekey" => row = NoConfig \/ (loc[o].exists /\ row = loc[o].vis)

\* A rename's own steps, up to its transaction.
LEMMA RenameRemembers ==
  ASSUME WorkersOK, NEW o \in Op, Renaming(o), Progress(o) \/ CallFails(o) \/ Crash(o)
  PROVE  \/ pc'[o] \notin Midway
         \/ pc'[o] = "checkOverlay" /\ loc'[o].vis = configs[req[o].reg][req[o].repo]
            /\ UNCHANGED configs
         \/ pc[o] \in Midway \ {"rekey"} /\ pc'[o] \in Midway \ {"rekey"}
            /\ loc'[o].vis = loc[o].vis
         \/ pc[o] = "readRegistry" /\ pc'[o] = "rekey"
            /\ loc'[o].exists = (loc[o].vis # NoConfig)
            /\ (loc[o].vis # NoConfig => loc'[o].vis = loc[o].vis)
<1>0. pc \in [Op -> Place] /\ loc \in [Op -> Local] /\ loc[o] \in Local
  BY DEF WorkersOK, CPTypeOK, Place
<1>1. CASE RenameReadOld(o)
  <2>1. pc'[o] = "checkOverlay" /\ UNCHANGED configs
        /\ loc'[o] = [loc[o] EXCEPT !.vis = configs[req[o].reg][req[o].repo]]
    BY <1>0, <1>1 DEF RenameReadOld, Go, storeVars
  <2> QED BY <1>0, <2>1 DEF Local
<1>2. CASE RenameCheckOverlay(o) \/ RenameCheckProjection(o)
  BY <1>0, <1>2 DEF RenameCheckOverlay, RenameCheckProjection, TargetFree, Fail, Go, At, Midway
<1>3. CASE RenameList(o)
  BY <1>0, <1>3 DEF RenameList, Go, At, Midway, Local
<1>4. CASE RenameCopy(o)
  <2>1. At(o, "copy") /\ \/ \E t : loc' = [loc EXCEPT ![o].left = @ \ {t}] /\ UNCHANGED pc
                         \/ Fail(o, "UNAVAILABLE")
                         \/ loc' = [loc EXCEPT ![o].left = loc[o].list] /\ Go(o, "drop")
    BY <1>4 DEF RenameCopy
  <2> QED BY <1>0, <2>1 DEF Fail, Go, At, Midway, Local
<1>5. CASE RenameDrop(o)
  <2>1. At(o, "drop") /\ \/ \E t : loc' = [loc EXCEPT ![o].left = @ \ {t}] /\ UNCHANGED pc
                         \/ Go(o, "readRegistry") /\ UNCHANGED loc
    BY <1>5 DEF RenameDrop
  <2> QED BY <1>0, <2>1 DEF Go, At, Midway, Local
<1>6. CASE RenameReadRegistry(o)
  <2>1. CASE Fail(o, "NOT_FOUND")
    BY <1>0, <2>1 DEF Fail, Go, Midway
  <2>2. CASE ~Fail(o, "NOT_FOUND")
    <3> DEFINE b == loc[o].vis # NoConfig
               v == resolveVisibility(loc[o].vis, registries[req[o].reg].defaultVisibility)
    <3>1. /\ pc[o] = "readRegistry" /\ pc'[o] = "rekey"
          /\ loc' = [loc EXCEPT ![o].exists = b, ![o].vis = v]
      BY <1>0, <1>6, <2>2 DEF RenameReadRegistry, Go, At
    <3>2. b => v = loc[o].vis
      BY <1>0 DEF resolveVisibility, Local
    <3> HIDE DEF b, v
    <3>3. loc'[o].exists = b /\ loc'[o].vis = v
      BY <1>0, <3>1 DEF Local
    <3> QED BY <3>1, <3>2, <3>3 DEF b
  <2> QED BY <2>1, <2>2
<1>7. CASE RenameRekey(o) \/ BeginRename(o)
  BY <1>0, <1>7 DEF RenameRekey, BeginRename, StatementFails, GuardRefuses, Fail, Go, Midway
<1>8. CASE ReadProjection(o) \/ CallFails(o) \/ Finalize(o) \/ Crash(o)
  BY <1>0, <1>8 DEF ReadProjection, CallFails, Finalize, Crash, Fail, Go, Midway
<1> QED BY <1>1, <1>2, <1>3, <1>4, <1>5, <1>6, <1>7, <1>8, RenameProgram DEF RenameStep

LEMMA NextOverlayRemembered ==
  ASSUME CPInv, OverlayRemembered, SourceSteady, [CPNext]_vars
  PROVE  OverlayRemembered'
<1> DEFINE row(o) == configs[req[o].reg][req[o].repo]
           R(o) == Renaming(o) =>
             /\ pc[o] \in Midway \ {"rekey"} => row(o) \in {loc[o].vis, NoConfig}
             /\ pc[o] = "rekey" => row(o) = NoConfig \/ (loc[o].exists /\ row(o) = loc[o].vis)
<1>0. WorkersOK /\ req' = req
  BY OthersStay DEF CPInv, CPNext, vars
<1>1. ASSUME NEW o \in Op, pc'[o] = pc[o], loc'[o] = loc[o]
      PROVE  R(o)'
  <2> SUFFICES ASSUME Renaming(o), pc[o] \in Midway PROVE R(o)'
    BY <1>0, <1>1 DEF Renaming, Is, Midway
  <2>1. row(o)' \in {row(o), NoConfig}
    BY <1>0, <1>1 DEF SourceSteady
  <2> QED BY <1>0, <1>1, <2>1 DEF OverlayRemembered
<1>2. ASSUME NEW o \in Op, Renaming(o), Progress(o) \/ CallFails(o) \/ Crash(o)
      PROVE  R(o)'
  <2>1. CASE pc'[o] \notin Midway
    BY <2>1 DEF Midway
  <2>2. CASE pc'[o] = "checkOverlay" /\ loc'[o].vis = row(o) /\ UNCHANGED configs
    BY <1>0, <2>2
  <2>3. CASE pc[o] \in Midway \ {"rekey"} /\ pc'[o] \in Midway \ {"rekey"}
             /\ loc'[o].vis = loc[o].vis
    <3>1. row(o)' \in {row(o), NoConfig}
      BY <1>0, <1>2, <2>3 DEF SourceSteady
    <3> QED BY <1>0, <1>2, <2>3, <3>1 DEF OverlayRemembered
  <2>4. CASE pc[o] = "readRegistry" /\ pc'[o] = "rekey"
             /\ loc'[o].exists = (loc[o].vis # NoConfig)
             /\ (loc[o].vis # NoConfig => loc'[o].vis = loc[o].vis)
    <3>1. row(o)' \in {row(o), NoConfig}
      BY <1>0, <1>2, <2>4 DEF SourceSteady, Midway
    <3>2. row(o) \in {loc[o].vis, NoConfig}
      BY <1>2, <2>4 DEF OverlayRemembered, Midway
    <3> QED BY <1>0, <2>4, <3>1, <3>2
  <2> QED BY <1>0, <1>2, <2>1, <2>2, <2>3, <2>4, RenameRemembers
<1>3. ASSUME UNCHANGED vars
      PROVE  \A o \in Op : R(o)'
  BY <1>1, <1>3 DEF vars
<1>4. ASSUME CPNext
      PROVE  \A o \in Op : R(o)'
  <2>1. PICK p \in Op : Progress(p) \/ CallFails(p) \/ Crash(p)
    BY <1>4 DEF CPNext
  <2>2. \A o \in Op \ {p} : R(o)'
    BY <1>0, <1>1, <2>1, OthersStay
  <2>3. R(p)'
    BY <1>0, <1>2, <2>1 DEF Renaming, Is
  <2> QED BY <2>2, <2>3
<1> QED BY <1>3, <1>4 DEF OverlayRemembered

Granted(r, n) == LastWord("PublicGrant", "register", r, n)

\* A registry that was deleted: iam was told so.
Gone(r) == Issued(r) /\ ~Exists(r)

GoneStay == \A r \in RegId : Gone(r) => Gone(r)'

LEMMA NextGoneStay ==
  ASSUME CPInv, [CPNext]_vars
  PROVE  GoneStay
<1>1. StoreTypeOK /\ [StoreNext]_storeVars
  BY StepIsTx DEF CPInv, WorkersOK, CPTypeOK
<1> QED BY <1>1, IssuedStep, GoneStaysGone DEF GoneStay, Gone

\* GrantFollowsVisibility, of the registries that were not deleted.
GrantsOfLive ==
  \A r \in RegId, n \in RepoName :
    ~Gone(r) => (configs[r][n] = "PUBLIC" <=> Granted(r, n))

\* A transaction that appends "ms" does right by every grant when each overlay
\* row it leaves PUBLIC is one it grants, or one it found PUBLIC and is silent of.
LEMMA GrantTx ==
  ASSUME StoreTypeOK, GrantsOfLive, GoneStay, NEW ms \in Seq(Intent), outbox' = outbox \o ms,
         \A r \in RegId, n \in RepoName : ~Gone(r)' =>
           (configs'[r][n] = "PUBLIC" <=>
             \/ Says(ms, "PublicGrant", "register", r, n)
             \/ Silent(ms, "PublicGrant", r, n) /\ configs[r][n] = "PUBLIC")
  PROVE  GrantsOfLive'
<1> SUFFICES ASSUME NEW r \in RegId, NEW n \in RepoName, ~Gone(r)'
             PROVE  configs'[r][n] = "PUBLIC" <=> Granted(r, n)'
  BY DEF GrantsOfLive
<1>1. configs[r][n] = "PUBLIC" <=> Says(outbox, "PublicGrant", "register", r, n)
  BY LastWordIs DEF GrantsOfLive, GoneStay, Granted
<1>2. Granted(r, n)' <=> Says(outbox', "PublicGrant", "register", r, n)
  BY LastWordIs DEF Granted
<1>3. outbox \in Seq(Intent)
  BY DEF StoreTypeOK
<1>4. Says(outbox', "PublicGrant", "register", r, n) <=>
        \/ Says(ms, "PublicGrant", "register", r, n)
        \/ Silent(ms, "PublicGrant", r, n) /\ Says(outbox, "PublicGrant", "register", r, n)
  BY <1>3, SaysAppended
<1> QED BY <1>1, <1>2, <1>4

\* An intent about a registry, or one about a repository, grants nothing.
LEMMA GrantsUntouched ==
  ASSUME StoreTypeOK, GrantsOfLive, GoneStay, NEW m \in Intent, m.kind # "PublicGrant",
         outbox' = outbox \o <<m>>,
         \A r \in RegId, n \in RepoName :
           ~Gone(r)' => (configs'[r][n] = "PUBLIC" <=> configs[r][n] = "PUBLIC")
  PROVE  GrantsOfLive'
<1>1. <<m>> \in Seq(Intent)
  OBVIOUS
<1>2. ASSUME NEW r \in RegId, NEW n \in RepoName
      PROVE  Silent(<<m>>, "PublicGrant", r, n) /\ ~Says(<<m>>, "PublicGrant", "register", r, n)
  <2>1. ~Speaks(m, "PublicGrant", r, n)
    BY DEF Speaks
  <2> QED BY <2>1, OneIntent
<1> QED BY <1>1, <1>2, GrantTx

LEMMA PlainGrant ==
  ASSUME StoreTypeOK, GrantsOfLive, GoneStay, PlainTx
  PROVE  GrantsOfLive'
<1>0. configs \in [RegId -> [RepoName -> Visibility \union {NoConfig}]]
      /\ registries \in [RegId -> Row \union {NoRow}]
  BY DEF StoreTypeOK
<1>1. ASSUME NEW r \in RegId, NEW p \in Project, NEW n \in RegName, NEW l \in Labels,
             Insert(r, p, n, l)
      PROVE  GrantsOfLive'
  <2>1. RegisterRegistry(r, l) \in Intent /\ RegisterRegistry(r, l).kind = "Registry"
    BY IntentTypes DEF RegisterRegistry
  <2> QED BY <1>1, <2>1, GrantsUntouched DEF Insert, Emit
<1>2. ASSUME NEW r \in RegId, NEW n \in RegName, NEW l \in Labels, NEW v \in Visibility,
             Update(r, n, l, v)
      PROVE  GrantsOfLive'
  <2>1. registries[r] \in Row
    BY <1>0, <1>2 DEF Update, Active, Exists
  <2>2. registries'[r].labels = l
    BY <1>0, <1>2, <2>1 DEF Update, Row
  <2>3. RegisterRegistry(r, l) \in Intent /\ RegisterRegistry(r, l).kind = "Registry"
    BY IntentTypes DEF RegisterRegistry
  <2> QED BY <1>2, <2>2, <2>3, GrantsUntouched DEF Update, Emit
<1>3. ASSUME NEW r \in RegId, MarkDeleting(r)
      PROVE  GrantsOfLive'
  BY <1>3 DEF MarkDeleting, GrantsOfLive, GoneStay, Granted, LastWord, LastIntent
<1>4. ASSUME NEW r \in RegId, NEW n \in RepoName, NEW v \in Visibility,
             InsertConfig(r, n, v, createRepoIntents(r, n, v))
      PROVE  GrantsOfLive'
  <2>1. /\ configs' = [configs EXCEPT ![r] = [configs[r] EXCEPT ![n] = v]]
        /\ outbox' = outbox \o createRepoIntents(r, n, v) /\ configs[r][n] # "PUBLIC"
    BY <1>4 DEF InsertConfig, runConfigTx, Emit, NoConfig
  <2>2. createRepoIntents(r, n, v) \in Seq(Intent)
    BY ListsAreIntents
  <2>3. \A q \in RegId, m \in RepoName :
          configs'[q][m] = IF q = r /\ m = n THEN v ELSE configs[q][m]
    BY <1>0, <2>1
  <2>4. \A q \in RegId, m \in RepoName :
          /\ Says(createRepoIntents(r, n, v), "PublicGrant", "register", q, m) <=>
                q = r /\ m = n /\ v = "PUBLIC"
          /\ Silent(createRepoIntents(r, n, v), "PublicGrant", q, m) <=>
                ~(q = r /\ m = n /\ v = "PUBLIC")
    BY CreateGrantSaid
  <2>5. \A q \in RegId, m \in RepoName :
          configs'[q][m] = "PUBLIC" <=>
            \/ Says(createRepoIntents(r, n, v), "PublicGrant", "register", q, m)
            \/ /\ Silent(createRepoIntents(r, n, v), "PublicGrant", q, m)
               /\ configs[q][m] = "PUBLIC"
    BY <2>1, <2>3, <2>4
  <2> QED BY <2>1, <2>2, <2>5, GrantTx
<1>5. ASSUME NEW r \in RegId, NEW n \in RepoName, NEW v \in Visibility,
             UpdateConfig(r, n, v, updateGovernanceIntents(r, n, TRUE, v))
      PROVE  GrantsOfLive'
  <2>1. /\ configs' = [configs EXCEPT ![r] = [configs[r] EXCEPT ![n] = v]]
        /\ outbox' = outbox \o updateGovernanceIntents(r, n, TRUE, v)
    BY <1>5 DEF UpdateConfig, runConfigTx, Emit
  <2>2. updateGovernanceIntents(r, n, TRUE, v) \in Seq(Intent)
    BY ListsAreIntents
  <2>3. \A q \in RegId, m \in RepoName :
          configs'[q][m] = IF q = r /\ m = n THEN v ELSE configs[q][m]
    BY <1>0, <2>1
  <2>4. \A q \in RegId, m \in RepoName :
          /\ Says(updateGovernanceIntents(r, n, TRUE, v), "PublicGrant", "register", q, m) <=>
                q = r /\ m = n /\ v = "PUBLIC"
          /\ Silent(updateGovernanceIntents(r, n, TRUE, v), "PublicGrant", q, m) <=>
                ~(q = r /\ m = n)
    BY GovernanceGrantSaid
  <2>5. \A q \in RegId, m \in RepoName :
          configs'[q][m] = "PUBLIC" <=>
            \/ Says(updateGovernanceIntents(r, n, TRUE, v), "PublicGrant", "register", q, m)
            \/ /\ Silent(updateGovernanceIntents(r, n, TRUE, v), "PublicGrant", q, m)
               /\ configs[q][m] = "PUBLIC"
    BY <2>3, <2>4
  <2> QED BY <2>1, <2>2, <2>5, GrantTx
<1>6. ASSUME NEW r \in RegId, NEW n \in RepoName, UpdateConfig(r, n, configs[r][n], << >>)
      PROVE  GrantsOfLive'
  <2>1. /\ configs' = configs /\ outbox' = outbox \o << >>
    BY <1>0, <1>6 DEF UpdateConfig, runConfigTx, Emit
  <2>2. << >> \in Seq(Intent)
    OBVIOUS
  <2> QED BY <2>1, <2>2, GrantTx, NoIntent
<1>7. ASSUME NEW r \in RegId, NEW n \in RepoName, DeleteConfig(r, n, deleteRepoIntents(r, n))
      PROVE  GrantsOfLive'
  <2>1. /\ configs' = [configs EXCEPT ![r] = [configs[r] EXCEPT ![n] = NoConfig]]
        /\ outbox' = outbox \o deleteRepoIntents(r, n) /\ "PUBLIC" \in Visibility
    BY <1>7 DEF DeleteConfig, runConfigTx, Emit, Visibility
  <2>2. deleteRepoIntents(r, n) \in Seq(Intent)
    BY <2>1, ListsAreIntents
  <2>3. \A q \in RegId, m \in RepoName :
          configs'[q][m] = "PUBLIC" <=> configs[q][m] = "PUBLIC" /\ ~(q = r /\ m = n)
    BY <1>0, <2>1 DEF NoConfig
  <2>4. \A q \in RegId, m \in RepoName :
          /\ ~Says(deleteRepoIntents(r, n), "PublicGrant", "register", q, m)
          /\ Silent(deleteRepoIntents(r, n), "PublicGrant", q, m) <=> ~(q = r /\ m = n)
    BY <2>1, DeleteGrantSaid
  <2> QED BY <2>1, <2>2, <2>3, <2>4, GrantTx
<1>8. ASSUME NEW r \in RegId, NEW n \in RepoName, emitRepoIntent(RegisterIntentForRepoPush(r, n))
      PROVE  GrantsOfLive'
  <2>1. RegisterIntentForRepoPush(r, n) \in Intent
        /\ RegisterIntentForRepoPush(r, n).kind # "PublicGrant"
    BY IntentTypes DEF RegisterIntentForRepoPush, RepoIntent
  <2> QED BY <1>8, <2>1, GrantsUntouched DEF emitRepoIntent, Emit
<1> QED BY <1>1, <1>2, <1>3, <1>4, <1>5, <1>6, <1>7, <1>8 DEF PlainTx

\* A deletion takes the rows of its registry with it, and iam is told nothing of
\* their grants: the registry is one of those that are gone.
LEMMA RemovesGrant ==
  ASSUME StoreTypeOK, IInv, GrantsOfLive, GoneStay, [StoreNext]_storeVars,
         NEW r \in RegId, Delete(r)
  PROVE  GrantsOfLive'
<1>1. /\ Exists(r) /\ registries' = [registries EXCEPT ![r] = NoRow]
      /\ configs' = [configs EXCEPT ![r] = [n \in RepoName |-> NoConfig]]
      /\ outbox' = outbox \o <<UnregisterIntentForDelete(r)>>
  BY DEF Delete, Emit
<1>2. Gone(r)'
  <2>1. ~Exists(r)'
    BY <1>1 DEF StoreTypeOK, Exists
  <2>2. Issued(r)
    BY <1>1, IssuedIsAbout DEF IInv, RowsIssued
  <2> QED BY <2>1, <2>2, IssuedStep DEF Gone
<1>3. \A q \in RegId, n \in RepoName :
        ~Gone(q)' => (configs'[q][n] = "PUBLIC" <=> configs[q][n] = "PUBLIC")
  <2>1. \A q \in RegId : q # r => configs'[q] = configs[q]
    BY <1>1 DEF StoreTypeOK
  <2> QED BY <1>2, <2>1
<1>4. UnregisterIntentForDelete(r) \in Intent
  BY IntentTypes
<1>5. UnregisterIntentForDelete(r).kind # "PublicGrant"
  BY DEF UnregisterIntentForDelete
<1> QED BY <1>1, <1>3, <1>4, <1>5, GrantsUntouched

LEMMA PromotesGrant ==
  ASSUME StoreTypeOK, GrantsOfLive, GoneStay, NEW r \in RegId, NEW n \in RepoName,
         NEW v \in Visibility, InsertConfig(r, n, v, PublicGrantIf(r, n, v))
  PROVE  GrantsOfLive'
<1>1. /\ configs' = [configs EXCEPT ![r] = [configs[r] EXCEPT ![n] = v]]
      /\ outbox' = outbox \o PublicGrantIf(r, n, v) /\ configs[r][n] # "PUBLIC"
  BY DEF InsertConfig, runConfigTx, Emit, NoConfig
<1>2. PublicGrantIf(r, n, v) \in Seq(Intent)
  BY ListsAreIntents
<1>3. \A q \in RegId, m \in RepoName :
        configs'[q][m] = IF q = r /\ m = n THEN v ELSE configs[q][m]
  BY <1>1 DEF StoreTypeOK
<1>4. \A q \in RegId, m \in RepoName :
        /\ Says(PublicGrantIf(r, n, v), "PublicGrant", "register", q, m) <=>
              q = r /\ m = n /\ v = "PUBLIC"
        /\ Silent(PublicGrantIf(r, n, v), "PublicGrant", q, m) <=>
              ~(q = r /\ m = n /\ v = "PUBLIC")
  BY PublicGrantSaid
<1>5. \A q \in RegId, m \in RepoName :
        configs'[q][m] = "PUBLIC" <=>
          \/ Says(PublicGrantIf(r, n, v), "PublicGrant", "register", q, m)
          \/ Silent(PublicGrantIf(r, n, v), "PublicGrant", q, m) /\ configs[q][m] = "PUBLIC"
  BY <1>1, <1>3, <1>4
<1> QED BY <1>1, <1>2, <1>5, GrantTx

\* The row a rename moves, or creates, has the visibility it remembers, and its
\* intents speak of that one.
LEMMA RekeyMoves ==
  ASSUME StoreTypeOK, OverlayRemembered, NEW o \in Op, Rekeys(o),
         req[o].reg \in RegId, req[o].newName \in RepoName,
         req[o].repo \in RepoName \ {req[o].newName}, loc[o].vis \in Visibility
  PROVE  LET r == req[o].reg  old == req[o].repo  new == req[o].newName  v == loc[o].vis
         IN  /\ outbox' = outbox \o renameIntents(r, old, new, v)
             /\ configs[r][new] = NoConfig
             /\ configs' = [configs EXCEPT ![r] =
                              [configs[r] EXCEPT ![old] = NoConfig, ![new] = v]]
<1> DEFINE r == req[o].reg  old == req[o].repo  new == req[o].newName  v == loc[o].vis
           ms == renameIntents(r, old, new, v)
<1>1. configs[r][old] = NoConfig \/ (loc[o].exists /\ configs[r][old] = v)
  BY DEF Rekeys, OverlayRemembered
<1>2. /\ outbox' = outbox \o ms /\ configs[r][new] = NoConfig
      /\ configs' = [configs EXCEPT ![r] =
                       [configs[r] EXCEPT ![old] = NoConfig, ![new] = v]]
  <2>1. CASE loc[o].exists /\ RekeyConfig(r, old, new, ms)
    BY <1>1, <2>1 DEF RekeyConfig, runConfigTx, Emit
  <2>2. CASE ~loc[o].exists /\ InsertConfig(r, new, v, ms)
    <3>1. configs[r][old] = NoConfig
      BY <1>1, <2>2
    <3>2. configs[r] = [configs[r] EXCEPT ![old] = NoConfig]
      BY <3>1 DEF StoreTypeOK
    <3>3. /\ configs' = [configs EXCEPT ![r] = [configs[r] EXCEPT ![new] = v]]
          /\ outbox' = outbox \o ms /\ configs[r][new] = NoConfig
      BY <2>2 DEF InsertConfig, runConfigTx, Emit
    <3> HIDE DEF ms
    <3> QED BY <3>2, <3>3
  <2> QED BY <2>1, <2>2 DEF Rekeys
<1> QED BY <1>2

LEMMA RekeysGrant ==
  ASSUME StoreTypeOK, GrantsOfLive, GoneStay, OverlayRemembered, NEW o \in Op,
         req[o].reg \in RegId, req[o].newName \in RepoName,
         req[o].repo \in RepoName \ {req[o].newName}, loc[o].vis \in Visibility, Rekeys(o)
  PROVE  GrantsOfLive'
<1> DEFINE r == req[o].reg  old == req[o].repo  new == req[o].newName  v == loc[o].vis
           ms == renameIntents(r, old, new, v)
<1>2. /\ outbox' = outbox \o ms /\ configs[r][new] = NoConfig
      /\ configs' = [configs EXCEPT ![r] =
                       [configs[r] EXCEPT ![old] = NoConfig, ![new] = v]]
  BY RekeyMoves
<1>3. ms \in Seq(Intent)
  BY ListsAreIntents
<1>4. \A q \in RegId, m \in RepoName :
        configs'[q][m] = IF q = r /\ m = new THEN v
                         ELSE IF q = r /\ m = old THEN NoConfig ELSE configs[q][m]
  BY <1>2 DEF StoreTypeOK
<1>5. \A q \in RegId, m \in RepoName :
        /\ Says(ms, "PublicGrant", "register", q, m) <=> q = r /\ m = new /\ v = "PUBLIC"
        /\ Silent(ms, "PublicGrant", q, m) <=>
             ~(q = r /\ m = new /\ v = "PUBLIC") /\ ~(q = r /\ m = old)
  BY RenameGrantsSaid
<1>6. old # new
  OBVIOUS
<1> HIDE DEF r, old, new, v, ms
<1>7. \A q \in RegId, m \in RepoName :
        configs'[q][m] = "PUBLIC" <=>
          \/ Says(ms, "PublicGrant", "register", q, m)
          \/ Silent(ms, "PublicGrant", q, m) /\ configs[q][m] = "PUBLIC"
  BY <1>2, <1>4, <1>5, <1>6 DEF NoConfig
<1> QED BY <1>2, <1>3, <1>7, GrantTx

LEMMA UnregistersGrant ==
  ASSUME StoreTypeOK, GrantsOfLive, GoneStay, NEW o \in Op, req[o].reg \in RegId,
         req[o].repo \in RepoName, Unregisters(o)
  PROVE  GrantsOfLive'
<1> DEFINE m == UnregisterIntentForRepo(req[o].reg, req[o].repo)
<1>1. m \in Intent /\ m.kind # "PublicGrant"
  BY IntentTypes DEF UnregisterIntentForRepo, RepoIntent
<1>2. outbox' = outbox \o <<m>> /\ configs' = configs
  BY DEF Unregisters, emitRepoIntent, Emit
<1> HIDE DEF m
<1> QED BY <1>1, <1>2, GrantsUntouched

LEMMA NextGrants ==
  ASSUME CPInv, OverlayRemembered, GrantsOfLive, [CPNext]_vars
  PROVE  GrantsOfLive'
<1>0. WorkersOK /\ StoreTypeOK /\ IInv /\ req \in Inbox /\ GoneStay /\ [StoreNext]_storeVars
  BY NextGoneStay, StepIsTx DEF CPInv, WorkersOK, CPTypeOK
<1>1. ASSUME UNCHANGED storeVars
      PROVE  GrantsOfLive'
  BY <1>0, <1>1 DEF storeVars, GrantsOfLive, GoneStay, Granted, LastWord, LastIntent
<1>2. ASSUME NEW o \in Op, StoreStep(o)
      PROVE  GrantsOfLive'
  <2>1. req[o] \in Request /\ req[o].reg \in RegId
    BY <1>0, RequestFields DEF WorkersOK, CPTypeOK
  <2>2. CASE PlainTx
    BY <1>0, <2>2, PlainGrant
  <2>3. CASE Removes(o)
    BY <1>0, <2>1, <2>3, RemovesGrant DEF Removes
  <2>4. CASE Promotes(o)
    <3>1. req[o].repo \in RepoName /\ loc[o].vis \in Visibility
      BY <1>0, <2>1, <2>4, RequestFields DEF Promotes, Is, WorkersOK, VisibilityResolved
    <3> QED BY <1>0, <2>1, <2>4, <3>1, PromotesGrant DEF Promotes
  <2>5. CASE Rekeys(o)
    <3>1. req[o].kind = "RenameRepository" /\ loc[o].vis \in Visibility
      BY <1>0, <2>5 DEF Rekeys, Renaming, Is, WorkersOK, VisibilityResolved
    <3>2. req[o].newName \in RepoName /\ req[o].repo \in RepoName \ {req[o].newName}
      BY <1>0, <2>1, <3>1, RequestFields, InboxAssumption
    <3> QED BY <1>0, <2>1, <2>5, <3>1, <3>2, RekeysGrant
  <2>6. CASE Unregisters(o)
    <3>1. req[o].repo \in RepoName
      BY <2>1, <2>6, RequestFields DEF Unregisters, Is
    <3> QED BY <1>0, <2>1, <2>6, <3>1, UnregistersGrant
  <2> QED BY <1>1, <1>2, <2>2, <2>3, <2>4, <2>5, <2>6 DEF StoreStep
<1>3. CASE CPNext
  BY <1>0, <1>2, <1>3, StepInStore DEF CPNext
<1> QED BY <1>1, <1>3 DEF vars, storeVars

LEMMA InitGrants == CPInit => GrantsOfLive /\ OverlayRemembered
<1> SUFFICES ASSUME CPInit PROVE GrantsOfLive /\ OverlayRemembered
  OBVIOUS
<1>1. GrantsOfLive
  BY DEF CPInit, StoreInit, GrantsOfLive, Granted, LastWord, NoConfig
<1>2. OverlayRemembered
  BY DEF CPInit, OverlayRemembered, Midway
<1> QED BY <1>1, <1>2

\* What iam is told last about anonymous reads of a repository of a registry
\* that was not deleted is what its overlay row says (fga_intent.go), through
\* every creation, flip, promotion, deletion and rename, failed, abandoned or
\* racing, as long as nobody creates, updates or renames a repository onto the
\* old name of a rename whose Operation is unfinished.
THEOREM LiveGrantsFollow == CPSpec /\ []RenamesInTurn => []GrantsOfLive
<1>1. CPInit => GrantsOfLive /\ OverlayRemembered
  BY InitGrants
<1>2. CPInv /\ OverlayRemembered /\ RenamesInTurn /\ [CPNext]_vars => OverlayRemembered'
  BY InTurnSteady, NextOverlayRemembered
<1>3. CPInv /\ OverlayRemembered /\ GrantsOfLive /\ [CPNext]_vars => GrantsOfLive'
  BY NextGrants
<1> QED BY <1>1, <1>2, <1>3, ControlPlaneInvariant, PTL DEF CPSpec

\* No request deletes a registry.
NoRegistryDeleted == \A q \in Inbox : \A o \in Op : q[o].kind # "DeleteRegistry"

NoneGone == \A r \in RegId : ~Gone(r)

LEMMA NextNoneGone ==
  ASSUME NoRegistryDeleted, CPInv, NoneGone, [CPNext]_vars
  PROVE  NoneGone'
<1>0. StoreTypeOK /\ WorkersOK /\ [StoreNext]_storeVars /\ req \in Inbox
  BY StepIsTx DEF CPInv, WorkersOK, CPTypeOK
<1> SUFFICES ASSUME NEW r \in RegId, Issued(r)' PROVE Exists(r)'
  BY DEF NoneGone, Gone
<1>1. Exists(r) \/ Exists(r)'
  BY <1>0, IssuedStep DEF NoneGone, Gone, Born
<1>2. ASSUME Exists(r)
      PROVE  Exists(r)'
  <2>1. CASE registries' = registries
    BY <1>2, <2>1 DEF Exists
  <2>2. CASE PlainTx
    BY <1>0, <1>2, <2>2, PlainKeepsRow
  <2>3. \A o \in Op : ~Removes(o)
    BY <1>0 DEF NoRegistryDeleted, Removes, Is
  <2>4. ASSUME NEW o \in Op, Promotes(o) \/ Rekeys(o) \/ Unregisters(o)
        PROVE  registries' = registries
    BY <2>4 DEF Promotes, Rekeys, Unregisters, InsertConfig, RekeyConfig, runConfigTx, emitRepoIntent
  <2> QED BY <1>0, <2>1, <2>2, <2>3, <2>4, StepInStore DEF StoreStep, CPNext, vars, storeVars
<1> QED BY <1>1, <1>2

\* The same of every repository where no registry is deleted.
THEOREM GrantsFollow ==
  ASSUME NoRegistryDeleted
  PROVE  CPSpec /\ []RenamesInTurn => []GrantFollowsVisibility
<1>1. CPInit => NoneGone
  <2>1. ASSUME CPInit, NEW r \in RegId
        PROVE  ~Issued(r)
    <3>1. outbox = << >>
      BY <2>1 DEF CPInit, StoreInit
    <3> QED BY <3>1 DEF Issued
  <2> QED BY <2>1 DEF NoneGone, Gone
<1>2. CPInv /\ NoneGone /\ [CPNext]_vars => NoneGone'
  BY NextNoneGone
<1>3. NoneGone /\ GrantsOfLive => GrantFollowsVisibility
  BY DEF NoneGone, GrantsOfLive, GrantFollowsVisibility, Granted
<1> QED BY <1>1, <1>2, <1>3, LiveGrantsFollow, ControlPlaneInvariant, PTL DEF CPSpec

-----------------------------------------------------------------------------
(* What iam has heard of.                                                  *)

\* Whatever a step commits, it takes nothing back from the outbox.
LEMMA OutboxGrows ==
  ASSUME StoreTypeOK, [StoreNext]_storeVars
  PROVE  outbox' = outbox \/ \E ms \in Seq(Intent) : outbox' = outbox \o ms
<1>1. CASE UNCHANGED storeVars
  BY <1>1 DEF storeVars
<1>2. ASSUME NEW r \in RegId, RepoLevelStep(r)
      PROVE  \E ms \in Seq(Intent) : outbox' = outbox \o ms
  <2>1. \A s \in Seq(RepoIntent) : s \in Seq(Intent)
    BY DEF RepoIntent
  <2> QED BY <1>2, <2>1 DEF RepoLevelStep
<1>3. ASSUME NEW r \in RegId, RegistryTx(r)
      PROVE  outbox' = outbox \/ \E ms \in Seq(Intent) : outbox' = outbox \o ms
  <2>1. CASE \E p \in Project, n \in RegName, l \in Labels : Insert(r, p, n, l)
    <3>1. PICK l \in Labels : outbox' = outbox \o <<RegisterRegistry(r, l)>>
      BY <2>1 DEF Insert, Emit
    <3>2. <<RegisterRegistry(r, l)>> \in Seq(Intent)
      BY IntentTypes
    <3> QED BY <3>1, <3>2
  <2>2. ASSUME NEW n \in RegName, NEW l \in Labels, NEW v \in Visibility, Update(r, n, l, v)
        PROVE  \E ms \in Seq(Intent) : outbox' = outbox \o ms
    <3>1. registries[r] \in Row
      BY <2>2 DEF Update, Active, Exists, StoreTypeOK
    <3>2. registries'[r].labels = l
      BY <2>2, <3>1 DEF Update, Row, StoreTypeOK
    <3>3. <<RegisterRegistry(r, l)>> \in Seq(Intent)
      BY IntentTypes
    <3> QED BY <2>2, <3>2, <3>3 DEF Update, Emit
  <2>3. CASE MarkDeleting(r)
    BY <2>3 DEF MarkDeleting
  <2>4. CASE Delete(r)
    <3>1. <<UnregisterIntentForDelete(r)>> \in Seq(Intent)
      BY IntentTypes
    <3> QED BY <2>4, <3>1 DEF Delete, Emit
  <2> QED BY <1>3, <2>1, <2>2, <2>3, <2>4 DEF RegistryTx
<1> QED BY <1>1, <1>2, <1>3, ConfigTxStep, RepoTxStep DEF StoreNext

\* Who was announced stays so: iam may be told to forget, but has heard of it.
LEMMA AnnouncedStays ==
  ASSUME CPInv, [CPNext]_vars, NEW r, NEW n, Announced(r, n)
  PROVE  Announced(r, n)'
<1>0. StoreTypeOK /\ outbox \in Seq(Intent)
  BY DEF CPInv, IInv, StoreTypeOK
<1>1. outbox' = outbox \/ \E ms \in Seq(Intent) : outbox' = outbox \o ms
  BY <1>0, StepIsTx, OutboxGrows DEF CPInv
<1>2. CASE outbox' = outbox
  BY <1>2 DEF Announced
<1>3. ASSUME NEW ms \in Seq(Intent), outbox' = outbox \o ms
      PROVE  Announced(r, n)'
  <2>1. PICK i \in DOMAIN outbox : outbox[i] = RegisterIntentForRepoPush(r, n)
    BY DEF Announced
  <2>2. i \in DOMAIN outbox' /\ outbox'[i] = outbox[i]
    BY <1>0, <1>3, <2>1, AppendedRows
  <2> QED BY <2>1, <2>2 DEF Announced, RegisterIntentForRepoPush
<1> QED BY <1>1, <1>2, <1>3

\* A transaction announces what its first intent announces.
LEMMA FirstAnnounces ==
  ASSUME StoreTypeOK, NEW r \in RegId, NEW n \in RepoName, NEW ms \in Seq(Intent),
         Len(ms) > 0, ms[1] = RegisterIntentForRepoPush(r, n), outbox' = outbox \o ms
  PROVE  Announced(r, n)'
<1>1. outbox \in Seq(Intent)
  BY DEF StoreTypeOK
<1>2. Len(outbox) + 1 \in DOMAIN outbox' /\ outbox'[Len(outbox) + 1] = ms[1]
  BY <1>1
<1> QED BY <1>2 DEF Announced, RegisterIntentForRepoPush

\* The lists of a creation and of a rename begin with the register intent.
LEMMA CreateAnnounces ==
  ASSUME StoreTypeOK, NEW r \in RegId, NEW n \in RepoName, NEW v \in Visibility,
         outbox' = outbox \o createRepoIntents(r, n, v)
  PROVE  Announced(r, n)'
<1> DEFINE m == RegisterIntentForRepoPush(r, n)
           grant == PublicGrantIf(r, n, v)
<1>1. m \in Intent /\ grant \in Seq(Intent)
  BY IntentTypes, ListsAreIntents DEF RepoIntent
<1>2. createRepoIntents(r, n, v) = <<m>> \o grant
  BY DEF createRepoIntents
<1> HIDE DEF m, grant
<1>3. /\ <<m>> \o grant \in Seq(Intent) /\ Len(<<m>> \o grant) > 0
      /\ (<<m>> \o grant)[1] = m
  BY <1>1
<1> QED BY <1>2, <1>3, FirstAnnounces DEF m

LEMMA RenameAnnounces ==
  ASSUME StoreTypeOK, NEW r \in RegId, NEW old \in RepoName, NEW n \in RepoName,
         NEW v \in Visibility, outbox' = outbox \o renameIntents(r, old, n, v)
  PROVE  Announced(r, n)'
<1> DEFINE m == RegisterIntentForRepoPush(r, n)
           a == UnregisterIntentForRepo(r, old)
           b == UnregisterIntentForRepoPublicGrant(r, old)
           grant == PublicGrantIf(r, n, v)
<1>1. m \in Intent /\ a \in Intent /\ b \in Intent
  BY IntentTypes DEF RepoIntent
<1>2. grant \in Seq(Intent)
  BY ListsAreIntents
<1>3. renameIntents(r, old, n, v) = <<m, a, b>> \o grant
  BY DEF renameIntents
<1> HIDE DEF m, a, b, grant
<1>4. /\ <<m, a, b>> \o grant \in Seq(Intent) /\ Len(<<m, a, b>> \o grant) > 0
      /\ (<<m, a, b>> \o grant)[1] = m
  BY <1>1, <1>2
<1> QED BY <1>3, <1>4, FirstAnnounces DEF m

LEMMA PushAnnounces ==
  ASSUME StoreTypeOK, NEW r \in RegId, NEW n \in RepoName,
         emitRepoIntent(RegisterIntentForRepoPush(r, n))
  PROVE  Announced(r, n)'
<1> DEFINE m == RegisterIntentForRepoPush(r, n)
<1>1. m \in Intent
  BY IntentTypes DEF RepoIntent
<1>2. outbox' = outbox \o <<m>>
  BY DEF emitRepoIntent, Emit
<1> HIDE DEF m
<1>3. <<m>> \in Seq(Intent) /\ Len(<<m>>) > 0 /\ <<m>>[1] = m
  BY <1>1
<1> QED BY <1>2, <1>3, FirstAnnounces DEF m

\* The first step of an UpdateRepository is its admission.
LEMMA UpdateAdmitted ==
  ASSUME WorkersOK, NEW o \in Op, Is(o, "UpdateRepository"), pc[o] = "idle",
         Progress(o) \/ CallFails(o) \/ Crash(o)
  PROVE  BeginUpdateRepository(o)
<1> USE DEF Is, At
<1>1. ~RegistryStep(o)
  BY DEF RegistryStep, BeginCreateRegistry, CreateInsert, CreateConflict,
       BeginUpdateRegistry, UpdateCommit, UpdateRefused, BeginDeleteRegistry, DeleteMark,
       DeleteRecheck, DeleteRow
<1>2. OverlayStep(o) => BeginUpdateRepository(o)
  BY DEF OverlayStep, BeginCreateRepository, CreateRepositoryInsert, ReadProjection,
       UpdateRepositoryPatch, UpdateRepositoryReadDefault,
       UpdateRepositoryPromote, UpdateRepositoryRetry, BeginDeleteRepository,
       DeleteRepositoryCheckEmpty, DeleteRepositoryRow
<1>3. ~RenameStep(o)
  BY DEF RenameStep, BeginRename, RenameReadOld, RenameCheckOverlay,
       RenameCheckProjection, RenameList, RenameCopy, RenameDrop, RenameReadRegistry,
       RenameRekey
<1>4. ~ContentStep(o)
  BY DEF ContentStep, BeginDeleteTag, DeleteTagEngine, DeleteTagList,
       DeleteTagUnregister, BeginPush, PushForward, PushRegister
<1>5. ~Finalize(o) /\ ~CallFails(o) /\ ~Crash(o)
  BY DEF Finalize, CallFails, Crash, Calls
<1> QED BY <1>1, <1>2, <1>3, <1>4, <1>5 DEF Progress

\* Every durable repository is one iam has heard of: no check on it could ever
\* pass otherwise.  The promotion of updaterepo.go announces nothing itself.
DurableAnnounced ==
  \A r \in RegId, n \in RepoName : configs[r][n] # NoConfig => Announced(r, n)

\* It rests on this: UpdateRepository is let in for an announced repository only.
UpdatesAnnounced ==
  \A o \in Op : Is(o, "UpdateRepository") /\ pc[o] # "idle" =>
    Announced(req[o].reg, req[o].repo)

LEMMA NextUpdatesAnnounced ==
  ASSUME CPInv, UpdatesAnnounced, [CPNext]_vars
  PROVE  UpdatesAnnounced'
<1>0. WorkersOK
  BY DEF CPInv
<1>1. CASE UNCHANGED vars
  BY <1>1 DEF vars, storeVars, UpdatesAnnounced, Is, Announced
<1>2. CASE CPNext
  <2>1. PICK p \in Op : Progress(p) \/ CallFails(p) \/ Crash(p)
    BY <1>2 DEF CPNext
  <2>2. req' = req /\ \A o \in Op \ {p} : pc'[o] = pc[o]
    BY <1>0, <2>1, OthersStay
  <2> SUFFICES ASSUME NEW o \in Op, Is(o, "UpdateRepository"), pc'[o] # "idle"
               PROVE  Announced(req[o].reg, req[o].repo)'
    BY <2>2 DEF UpdatesAnnounced, Is
  <2>3. CASE pc[o] # "idle"
    <3>1. Announced(req[o].reg, req[o].repo)
      BY <2>3 DEF UpdatesAnnounced
    <3>2. \A r, n : Announced(r, n) => Announced(r, n)'
      BY AnnouncedStays
    <3> QED BY <2>2, <3>1, <3>2 DEF Announced
  <2>4. CASE pc[o] = "idle"
    <3>1. o = p
      BY <2>2, <2>4
    <3>2. BeginUpdateRepository(o)
      BY <1>0, <2>1, <2>4, <3>1, UpdateAdmitted
    <3> QED BY <2>2, <3>2 DEF BeginUpdateRepository, Announced, storeVars
  <2> QED BY <2>3, <2>4
<1> QED BY <1>1, <1>2

\* An overlay row appears with the intents of a creation or of a rename, or by a
\* promotion.
RowCause(o, r, n) ==
  \/ \E v \in Visibility : outbox' = outbox \o createRepoIntents(r, n, v)
  \/ \E v \in Visibility, old \in RepoName \ {n} : outbox' = outbox \o renameIntents(r, old, n, v)
  \/ Is(o, "UpdateRepository") /\ UnderWay(o) /\ req[o].reg = r /\ req[o].repo = n

LEMMA RowAppears ==
  ASSUME CPInv, NEW o \in Op, StoreStep(o),
         NEW r \in RegId, NEW n \in RepoName, configs[r][n] = NoConfig, configs'[r][n] # NoConfig
  PROVE  RowCause(o, r, n)
<1>0. /\ StoreTypeOK /\ WorkersOK /\ req \in Inbox
      /\ configs \in [RegId -> [RepoName -> Visibility \union {NoConfig}]]
      /\ req[o] \in Request /\ req[o].reg \in RegId
  BY RequestFields DEF CPInv, IInv, StoreTypeOK, WorkersOK, CPTypeOK
<1>1. CASE configs' = configs
  BY <1>1
<1>2. CASE PlainTx
  <2>1. ASSUME NEW q \in RegId, NEW m \in RepoName, NEW v \in Visibility,
               InsertConfig(q, m, v, createRepoIntents(q, m, v))
        PROVE  RowCause(o, r, n)
    <3>1. /\ configs' = [configs EXCEPT ![q] = [configs[q] EXCEPT ![m] = v]]
          /\ outbox' = outbox \o createRepoIntents(q, m, v)
      BY <2>1 DEF InsertConfig, runConfigTx, Emit
    <3>2. q = r /\ m = n
      BY <1>0, <3>1
    <3> QED BY <3>1, <3>2 DEF RowCause
  <2>2. ASSUME NEW q \in RegId, NEW m \in RepoName, NEW v,
               NEW ms, UpdateConfig(q, m, v, ms)
        PROVE  FALSE
    <3>1. configs' = [configs EXCEPT ![q] = [configs[q] EXCEPT ![m] = v]] /\ configs[q][m] # NoConfig
      BY <2>2 DEF UpdateConfig, runConfigTx
    <3> QED BY <1>0, <3>1
  <2>3. ASSUME NEW q \in RegId, NEW m \in RepoName, DeleteConfig(q, m, deleteRepoIntents(q, m))
        PROVE  FALSE
    <3>1. configs' = [configs EXCEPT ![q] = [configs[q] EXCEPT ![m] = NoConfig]]
      BY <2>3 DEF DeleteConfig, runConfigTx
    <3> QED BY <1>0, <3>1
  <2> QED BY <1>1, <1>2, <2>1, <2>2, <2>3 DEF PlainTx, Insert, Update, MarkDeleting, emitRepoIntent
<1>3. CASE Removes(o)
  <2>1. configs' = [configs EXCEPT ![req[o].reg] = [m \in RepoName |-> NoConfig]]
    BY <1>3 DEF Removes, Delete
  <2> QED BY <1>0, <2>1
<1>4. CASE Promotes(o)
  <2>1. /\ Is(o, "UpdateRepository") /\ pc[o] # "idle"
        /\ configs' = [configs EXCEPT ![req[o].reg] =
                         [configs[req[o].reg] EXCEPT ![req[o].repo] = loc[o].vis]]
    BY <1>4 DEF Promotes, InsertConfig, runConfigTx
  <2>2. r = req[o].reg /\ n = req[o].repo
    BY <1>0, <2>1
  <2> QED BY <1>4, <2>1, <2>2 DEF Promotes, UnderWay, Final, RowCause
<1>5. CASE Rekeys(o)
  <2>1. req[o].kind = "RenameRepository" /\ loc[o].vis \in Visibility
    BY <1>0, <1>5 DEF Rekeys, Renaming, Is, WorkersOK, VisibilityResolved
  <2>2. req[o].newName \in RepoName /\ req[o].repo \in RepoName \ {req[o].newName}
    BY <1>0, <2>1, RequestFields, InboxAssumption
  <2> DEFINE q == req[o].reg  old == req[o].repo  new == req[o].newName
             ms == renameIntents(q, old, new, loc[o].vis)
  <2>3. outbox' = outbox \o ms
    BY <1>5 DEF Rekeys, RekeyConfig, InsertConfig, runConfigTx, Emit
  <2>4. /\ \A g \in RegId \ {q} : configs'[g] = configs[g]
        /\ \A m \in RepoName \ {new} : configs'[q][m] # NoConfig => configs[q][m] # NoConfig
    <3>1. CASE RekeyConfig(q, old, new, ms)
      <4>1. configs' = [configs EXCEPT ![q] =
                          [configs[q] EXCEPT ![old] = NoConfig, ![new] = configs[q][old]]]
        BY <3>1 DEF RekeyConfig, runConfigTx
      <4> QED BY <1>0, <2>2, <4>1
    <3>2. CASE InsertConfig(q, new, loc[o].vis, ms)
      <4>1. configs' = [configs EXCEPT ![q] = [configs[q] EXCEPT ![new] = loc[o].vis]]
        BY <3>2 DEF InsertConfig, runConfigTx
      <4> QED BY <1>0, <2>2, <4>1
    <3> QED BY <1>5, <3>1, <3>2 DEF Rekeys
  <2>5. r = q /\ n = new
    BY <1>0, <2>4
  <2> QED BY <2>1, <2>2, <2>3, <2>5 DEF RowCause
<1>6. CASE Unregisters(o)
  BY <1>1, <1>6 DEF Unregisters, emitRepoIntent
<1> QED BY <1>1, <1>2, <1>3, <1>4, <1>5, <1>6 DEF StoreStep, storeVars

LEMMA NextDurableAnnounced ==
  ASSUME CPInv, UpdatesAnnounced, DurableAnnounced, [CPNext]_vars
  PROVE  DurableAnnounced'
<1> SUFFICES ASSUME NEW r \in RegId, NEW n \in RepoName, configs'[r][n] # NoConfig
             PROVE  Announced(r, n)'
  BY DEF DurableAnnounced
<1>1. Announced(r, n) => Announced(r, n)'
  BY AnnouncedStays
<1>2. CASE configs[r][n] # NoConfig
  BY <1>1, <1>2 DEF DurableAnnounced
<1>3. CASE configs[r][n] = NoConfig
  <2>1. CPNext
    BY <1>3 DEF vars, storeVars
  <2>2. PICK o \in Op : StoreStep(o)
    BY <2>1, StepInStore DEF CPNext, CPInv
  <2>3. RowCause(o, r, n)
    BY <1>3, <2>2, RowAppears
  <2>4. StoreTypeOK
    BY DEF CPInv, IInv
  <2>5. CASE Is(o, "UpdateRepository") /\ UnderWay(o) /\ req[o].reg = r /\ req[o].repo = n
    BY <1>1, <2>5 DEF UpdatesAnnounced, UnderWay
  <2> QED BY <2>3, <2>4, <2>5, CreateAnnounces, RenameAnnounces DEF RowCause
<1> QED BY <1>2, <1>3

\* 0005_repository_configs.sql, updaterepo.go: iam was told of every repository that
\* has an overlay row, before the row or with it, whoever created, promoted or
\* renamed it, and whatever failed or died.  A check on it can pass.
THEOREM DurablesAreAnnounced == CPSpec => []DurableAnnounced
<1>1. CPInit => UpdatesAnnounced /\ DurableAnnounced
  BY DEF CPInit, StoreInit, UpdatesAnnounced, DurableAnnounced
<1>2. CPInv /\ UpdatesAnnounced /\ [CPNext]_vars => UpdatesAnnounced'
  BY NextUpdatesAnnounced
<1>3. CPInv /\ UpdatesAnnounced /\ DurableAnnounced /\ [CPNext]_vars => DurableAnnounced'
  BY NextDurableAnnounced
<1> QED BY <1>1, <1>2, <1>3, ControlPlaneInvariant, PTL DEF CPSpec

-----------------------------------------------------------------------------
(* Content that iam has not heard of.                                      *)

\* Of the environment: the transaction that is to hold the intent of a push, once
\* zot has taken the manifest, does not fail, nor does the process die before it.
\* (handler.go logs the failure and answers 201 all the same.)
IntentsCommit ==
  \A o \in Op : pc[o] = "registerPush" /\ pc'[o] # "registerPush" => outbox' # outbox

\* A rename that found tags to copy and has not committed.
Unfinished == {"copy", "drop", "readRegistry", "rekey", "fail", "error", "dead"}

Rehomes(o, r, n) ==
  /\ Renaming(o) /\ req[o].reg = r /\ req[o].newName = n
  /\ loc[o].list # {} /\ pc[o] \in Unfinished

\* A push whose manifest zot has taken and which is about to tell iam.
Announces(o, r, n) ==
  Is(o, "Push") /\ req[o].reg = r /\ req[o].repo = n /\ pc[o] = "registerPush"

\* A repository with content is one iam has heard of, or is about to hear of from
\* a push, or it is the new name of a rename that has not come to its end.
ContentAnnounced ==
  \A r \in RegId, n \in RepoName : tags[r][n] # {} =>
    Announced(r, n) \/ \E o \in Op : Announces(o, r, n) \/ Rehomes(o, r, n)

\* A push that will not tell iam, because it found the repository there, was
\* admitted by a check on that repository.
PushesInformed ==
  \A o \in Op : Is(o, "Push") /\ pc[o] = "forward" /\ loc[o].exists =>
    Announced(req[o].reg, req[o].repo)

\* A rename copies what it listed.
LeftIsListed ==
  \A o \in Op : Renaming(o) /\ pc[o] = "copy" => loc[o].left \subseteq loc[o].list

ContentInv == ContentAnnounced /\ PushesInformed /\ LeftIsListed

\* The steps of a push.
LEMMA PushProgram ==
  ASSUME WorkersOK, NEW o \in Op, Is(o, "Push"), Progress(o) \/ CallFails(o) \/ Crash(o)
  PROVE  BeginPush(o) \/ PushForward(o) \/ PushRegister(o) \/ Finalize(o) \/ CallFails(o)
         \/ Crash(o)
<1>1. MayCall("Push", pc[o])
  BY DEF WorkersOK, CallsOfKind, Is
<1>2. ~RegistryStep(o)
  BY <1>1 DEF RegistryStep, BeginCreateRegistry, CreateInsert, CreateConflict,
       BeginUpdateRegistry, UpdateCommit, UpdateRefused, BeginDeleteRegistry, DeleteMark,
       DeleteRecheck, DeleteRow, Is, At, MayCall
<1>3. ~OverlayStep(o)
  BY <1>1 DEF OverlayStep, BeginCreateRepository, CreateRepositoryInsert, ReadProjection,
       BeginUpdateRepository, UpdateRepositoryPatch, UpdateRepositoryReadDefault,
       UpdateRepositoryPromote, UpdateRepositoryRetry, BeginDeleteRepository,
       DeleteRepositoryCheckEmpty, DeleteRepositoryRow, Is, At, MayCall
<1>4. ~RenameStep(o)
  BY <1>1 DEF RenameStep, BeginRename, RenameReadOld, RenameCheckOverlay,
       RenameCheckProjection, RenameList, RenameCopy, RenameDrop, RenameReadRegistry,
       RenameRekey, Is, At, MayCall
<1>5. ContentStep(o) => BeginPush(o) \/ PushForward(o) \/ PushRegister(o)
  BY <1>1 DEF ContentStep, BeginDeleteTag, DeleteTagEngine, DeleteTagList,
       DeleteTagUnregister, Is, At, MayCall
<1> QED BY <1>2, <1>3, <1>4, <1>5 DEF Progress

\* A repository gets a tag from a push or from the copying of a rename.
LEMMA TagsPut ==
  ASSUME WorkersOK, NEW o \in Op, Progress(o) \/ CallFails(o) \/ Crash(o),
         NEW r \in RegId, NEW n \in RepoName, NEW u \in tags'[r][n], u \notin tags[r][n]
  PROVE  \/ PushForward(o) /\ Is(o, "Push") /\ req[o].reg = r /\ req[o].repo = n
         \/ /\ Renaming(o) /\ req[o].reg = r /\ req[o].newName = n
            /\ \E t \in loc[o].left : Copies(o, t)
<1>0. /\ tags \in [RegId -> [RepoName -> SUBSET Tag]]
      /\ req[o] \in Request /\ req[o].reg \in RegId /\ MayCall(req[o].kind, pc[o])
  BY RequestFields DEF WorkersOK, CPTypeOK, CallsOfKind
<1>1. ASSUME NEW g \in RegId, NEW m \in RepoName, NEW ts,
             tags' = [tags EXCEPT ![g][m] = ts]
      PROVE  r = g /\ n = m
  BY <1>0, <1>1
<1>2. ASSUME NEW g \in RegId, NEW m \in RepoName, NEW ts,
             tags' = [tags EXCEPT ![g][m] = @ \ ts]
      PROVE  FALSE
  <2>1. tags'[r][n] = tags[r][n] \/ tags'[r][n] = tags[r][n] \ ts
    BY <1>0, <1>2
  <2> QED BY <2>1
<1>3. tags' # tags
  OBVIOUS
<1>4. CASE PushForward(o)
  <2>1. Is(o, "Push") /\ req[o].repo \in RepoName
    BY <1>0, <1>4, RequestFields DEF PushForward, At, MayCall, Is
  <2>2. \E ts : tags' = [tags EXCEPT ![req[o].reg][req[o].repo] = ts]
    BY <1>4 DEF PushForward
  <2> QED BY <1>0, <1>1, <1>4, <2>1, <2>2
<1>5. CASE Renaming(o)
  <2>1. req[o].repo \in RepoName /\ req[o].newName \in RepoName
    BY <1>5, RenameFields
  <2>2. PICK t \in Tag : Copies(o, t) \/ Drops(o, t)
    BY <1>3, <1>5, RenameMoves DEF Passes, Lists, Turns
  <2>3. ~Drops(o, t)
    <3>1. ASSUME Drops(o, t)
          PROVE  \E ts : tags' = [tags EXCEPT ![req[o].reg][req[o].repo] = @ \ ts]
      BY <3>1 DEF Drops
    <3> QED BY <1>0, <1>2, <2>1, <3>1
  <2>4. Copies(o, t)
    BY <2>2, <2>3
  <2>5. \E ts : tags' = [tags EXCEPT ![req[o].reg][req[o].newName] = ts]
    BY <2>4 DEF Copies
  <2> QED BY <1>0, <1>1, <1>5, <2>1, <2>4, <2>5 DEF Copies
<1>6. CASE DeleteTagEngine(o)
  <2>1. req[o].repo \in RepoName
    BY <1>0, <1>6, RequestFields DEF DeleteTagEngine, At, MayCall
  <2>2. \E ts : tags' = [tags EXCEPT ![req[o].reg][req[o].repo] = @ \ ts]
    BY <1>6 DEF DeleteTagEngine
  <2> QED BY <1>0, <1>2, <2>1, <2>2
<1>7. RenameStep(o) => Renaming(o)
  BY <1>0 DEF RenameStep, BeginRename, RenameReadOld, RenameCheckOverlay,
       RenameCheckProjection, RenameList, RenameCopy, RenameDrop, RenameReadRegistry,
       RenameRekey, Is, At, MayCall, Renaming
<1>8. ContentStep(o) => PushForward(o) \/ DeleteTagEngine(o)
  BY <1>3 DEF ContentStep, BeginDeleteTag, DeleteTagList, DeleteTagUnregister, BeginPush,
       PushRegister
<1>9. ~RegistryStep(o) /\ ~OverlayStep(o)
  BY <1>3 DEF RegistryStep, BeginCreateRegistry, CreateInsert, CreateConflict,
       BeginUpdateRegistry, UpdateCommit, UpdateRefused, BeginDeleteRegistry, DeleteMark,
       DeleteRecheck, DeleteRow, OverlayStep, BeginCreateRepository, CreateRepositoryInsert,
       ReadProjection, BeginUpdateRepository, UpdateRepositoryPatch,
       UpdateRepositoryReadDefault, UpdateRepositoryPromote, UpdateRepositoryRetry,
       BeginDeleteRepository, DeleteRepositoryCheckEmpty, DeleteRepositoryRow
<1> QED BY <1>3, <1>4, <1>5, <1>6, <1>7, <1>8, <1>9 DEF Progress, Finalize, CallFails, Crash

\* A push that found the repository there looked in its first step.
LEMMA PushFinds ==
  ASSUME WorkersOK, NEW o \in Op, Is(o, "Push"), Progress(o) \/ CallFails(o) \/ Crash(o),
         pc'[o] = "forward", loc'[o].exists
  PROVE  BeginPush(o) /\ tags[req[o].reg][req[o].repo] # {} /\ tags' = tags
<1>0. pc \in [Op -> Place] /\ loc \in [Op -> Local]
  BY DEF WorkersOK, CPTypeOK, Place
<1>1. ~PushForward(o)
  BY <1>0 DEF PushForward, Go
<1>2. ~PushRegister(o) /\ ~Finalize(o) /\ ~CallFails(o) /\ ~Crash(o)
  BY <1>0 DEF PushRegister, Finalize, CallFails, Crash, Go, Fail
<1>3. BeginPush(o)
  BY <1>1, <1>2, PushProgram
<1>4. tags[req[o].reg][req[o].repo] # {}
  BY <1>0, <1>3 DEF BeginPush, Local
<1> QED BY <1>3, <1>4 DEF BeginPush

LEMMA NextPushesInformed ==
  ASSUME CPInv, PushesInformed, [CPNext]_vars
  PROVE  PushesInformed'
<1>0. WorkersOK /\ pc \in [Op -> Place] /\ loc \in [Op -> Local]
  BY DEF CPInv, WorkersOK, CPTypeOK, Place
<1>1. CASE UNCHANGED vars
  BY <1>1 DEF vars, storeVars, PushesInformed, Is, Announced
<1>2. CASE CPNext
  <2>1. PICK p \in Op : Progress(p) \/ CallFails(p) \/ Crash(p)
    BY <1>2 DEF CPNext
  <2>2. req' = req /\ \A o \in Op \ {p} : pc'[o] = pc[o] /\ loc'[o] = loc[o]
    BY <1>0, <2>1, OthersStay
  <2>3. \A r, n : Announced(r, n) => Announced(r, n)'
    BY AnnouncedStays
  <2> SUFFICES ASSUME NEW o \in Op, Is(o, "Push"), pc'[o] = "forward", loc'[o].exists
               PROVE  Announced(req[o].reg, req[o].repo)'
    BY <2>2 DEF PushesInformed, Is
  <2>4. CASE o # p
    <3>1. Announced(req[o].reg, req[o].repo)
      BY <2>2, <2>4 DEF PushesInformed
    <3> QED BY <2>2, <2>3, <3>1 DEF Announced
  <2>5. CASE o = p
    <3>1. BeginPush(o) /\ tags[req[o].reg][req[o].repo] # {}
      BY <1>0, <2>1, <2>5, PushFinds
    <3>2. Announced(req[o].reg, req[o].repo)
      BY <3>1 DEF BeginPush
    <3> QED BY <2>2, <2>3, <3>2 DEF Announced
  <2> QED BY <2>4, <2>5
<1> QED BY <1>1, <1>2

LEMMA NextLeftIsListed ==
  ASSUME WorkersOK, LeftIsListed, [CPNext]_vars
  PROVE  LeftIsListed'
<1>1. CASE UNCHANGED vars
  BY <1>1 DEF vars, LeftIsListed, Renaming, Is
<1>2. CASE CPNext
  <2>1. PICK p \in Op : Progress(p) \/ CallFails(p) \/ Crash(p)
    BY <1>2 DEF CPNext
  <2>2. req' = req /\ \A o \in Op \ {p} : pc'[o] = pc[o] /\ loc'[o] = loc[o]
    BY <2>1, OthersStay
  <2> SUFFICES ASSUME NEW o \in Op, Renaming(o), pc'[o] = "copy"
               PROVE  loc'[o].left \subseteq loc'[o].list
    BY <2>2 DEF LeftIsListed, Renaming, Is
  <2>3. CASE o # p
    BY <2>2, <2>3 DEF LeftIsListed
  <2>4. CASE o = p
    <3>1. ~Passes(o) /\ ~Turns(o) /\ \A t \in Tag : ~Drops(o, t)
      BY DEF Passes, Turns, Drops
    <3>2. Lists(o) \/ \E t \in Tag : Copies(o, t)
      BY <2>1, <2>4, <3>1, RenameMoves
    <3> QED BY <3>2 DEF Lists, Copies, LeftIsListed
  <2> QED BY <2>3, <2>4
<1> QED BY <1>1, <1>2

\* An unfinished rename stays one until its transaction.
LEMMA RehomesOrCommits ==
  ASSUME CPInv, [CPNext]_vars, NEW o \in Op, NEW r \in RegId, NEW n \in RepoName, Rehomes(o, r, n)
  PROVE  \/ Rehomes(o, r, n)'
         \/ \E old \in RepoName \ {n}, v \in Visibility :
              outbox' = outbox \o renameIntents(r, old, n, v)
<1>0. WorkersOK /\ pc \in [Op -> Place] /\ loc \in [Op -> Local] /\ loc[o] \in Local
      /\ StoreTypeOK
  BY DEF CPInv, IInv, WorkersOK, CPTypeOK, Place
<1>1. CASE UNCHANGED <<req, pc, loc>>
  BY <1>1 DEF Rehomes, Renaming, Is
<1>2. CASE CPNext
  <2>1. PICK p \in Op : Progress(p) \/ CallFails(p) \/ Crash(p)
    BY <1>2 DEF CPNext
  <2>2. req' = req /\ \A q \in Op \ {p} : pc'[q] = pc[q] /\ loc'[q] = loc[q]
    BY <1>0, <2>1, OthersStay
  <2>3. CASE o # p
    BY <2>2, <2>3 DEF Rehomes, Renaming, Is
  <2>4. ASSUME o = p, pc'[o] \in Unfinished, loc'[o].list = loc[o].list
        PROVE  Rehomes(o, r, n)'
    BY <2>2, <2>4 DEF Rehomes, Renaming, Is
  <2>5. ASSUME o = p, loc'[o].list # loc[o].list
        PROVE  FALSE
    <3>1. RenameStep(o) \/ ReadProjection(o) \/ Finalize(o) \/ CallFails(o) \/ Crash(o)
      BY <1>0, <2>1, <2>5, RenameProgram DEF Rehomes
    <3>2. pc[o] # "list" /\ Renaming(o)
      BY DEF Rehomes, Unfinished
    <3>3. ~RenameList(o)
      BY <3>2 DEF RenameList, At
    <3>4. ~BeginRename(o) /\ ~RenameReadOld(o) /\ ~RenameCheckOverlay(o)
          /\ ~RenameCheckProjection(o) /\ ~ReadProjection(o)
      BY DEF Rehomes, Unfinished, BeginRename, RenameReadOld, RenameCheckOverlay,
           RenameCheckProjection, ReadProjection, At
    <3>5. ~RenameCopy(o) /\ ~RenameDrop(o)
      <4>1. ASSUME NEW left, loc' = [loc EXCEPT ![o].left = left] \/ loc' = loc
            PROVE  FALSE
        BY <1>0, <2>5, <4>1 DEF Local
      <4>2. ~Fail(o, "UNAVAILABLE")
        BY <1>0, <2>5 DEF Fail, Local
      <4> QED BY <4>1, <4>2 DEF RenameCopy, RenameDrop
    <3>6. ~RenameReadRegistry(o) /\ ~RenameRekey(o)
      BY <1>0, <2>5 DEF RenameReadRegistry, RenameRekey, StatementFails, GuardRefuses, Fail, Local
    <3>7. ~CallFails(o)
      BY <1>0, <2>5 DEF CallFails, Fail, Local
    <3>8. ~Finalize(o) /\ ~Crash(o)
      BY <1>0, <2>5 DEF Finalize, Crash, NoLocal
    <3> QED BY <3>1, <3>3, <3>4, <3>5, <3>6, <3>7, <3>8 DEF RenameStep
  <2>6. ASSUME o = p, pc'[o] \notin Unfinished
        PROVE  \E old \in RepoName \ {n}, v \in Visibility :
                 outbox' = outbox \o renameIntents(r, old, n, v)
    <3>1. RenameStep(o) \/ ReadProjection(o) \/ Finalize(o) \/ CallFails(o) \/ Crash(o)
      BY <1>0, <2>1, <2>6, RenameProgram DEF Rehomes
    <3>2. pc[o] \in Unfinished /\ Renaming(o) /\ req[o].reg = r /\ req[o].newName = n
      BY DEF Rehomes
    <3>3. RenameRekey(o)
      <4>1. ~RenameCopy(o)
        BY <1>0, <2>6, <3>2 DEF RenameCopy, Unfinished, At, Go, Fail
      <4>2. ~RenameDrop(o) /\ ~RenameReadRegistry(o)
        BY <1>0, <2>6, <3>2 DEF RenameDrop, RenameReadRegistry, Unfinished, At, Go, Fail
      <4>3. ~BeginRename(o) /\ ~RenameReadOld(o) /\ ~RenameCheckOverlay(o)
            /\ ~RenameCheckProjection(o) /\ ~RenameList(o) /\ ~ReadProjection(o)
        BY <3>2 DEF BeginRename, RenameReadOld, RenameCheckOverlay, RenameCheckProjection,
             RenameList, ReadProjection, Unfinished, At
      <4>4. ~Finalize(o) /\ ~CallFails(o) /\ ~Crash(o)
        BY <1>0, <2>6, <3>2 DEF Finalize, CallFails, Crash, Unfinished, At, Go, Fail, Calls
      <4> QED BY <3>1, <4>1, <4>2, <4>3, <4>4 DEF RenameStep
    <3>4. pc[o] = "rekey" /\ pc'[o] # "fail"
      BY <2>6, <3>3 DEF RenameRekey, At, Unfinished
    <3>5. loc[o].vis \in Visibility /\ req[o].repo \in RepoName \ {n}
      BY <1>0, <3>2, <3>4, RenameFields DEF WorkersOK, VisibilityResolved
    <3>6. outbox' = outbox \o renameIntents(r, req[o].repo, n, loc[o].vis)
      BY <1>0, <3>2, <3>3, <3>4 DEF RenameRekey, StatementFails, GuardRefuses, Fail, Go,
           RekeyConfig, InsertConfig, runConfigTx, Emit
    <3> QED BY <3>5, <3>6
  <2> QED BY <2>3, <2>4, <2>5, <2>6
<1> QED BY <1>1, <1>2 DEF vars

LEMMA PushCommits ==
  ASSUME WorkersOK, IntentsCommit, [CPNext]_vars, NEW o \in Op,
         pc[o] = "registerPush", pc'[o] # "registerPush"
  PROVE  PushRegister(o) /\ Is(o, "Push")
<1>1. PICK p \in Op : Progress(p) \/ CallFails(p) \/ Crash(p)
  BY DEF CPNext, vars
<1>2. o = p /\ outbox' # outbox
  BY <1>1, OthersStay DEF IntentsCommit
<1>3. Is(o, "Push")
  BY DEF WorkersOK, CallsOfKind, MayCall, Is
<1>4. ~BeginPush(o) /\ ~PushForward(o) /\ ~Finalize(o) /\ ~CallFails(o) /\ ~Crash(o)
  BY <1>2 DEF BeginPush, PushForward, Finalize, CallFails, Crash, storeVars
<1> QED BY <1>1, <1>2, <1>3, <1>4, PushProgram

LEMMA NextContentAnnounced ==
  ASSUME CPInv, ContentInv, IntentsCommit, [CPNext]_vars
  PROVE  ContentAnnounced'
<1>0. /\ WorkersOK /\ pc \in [Op -> Place] /\ loc \in [Op -> Local]
      /\ StoreTypeOK /\ ContentAnnounced /\ PushesInformed /\ LeftIsListed
  BY DEF CPInv, IInv, WorkersOK, CPTypeOK, Place, ContentInv
<1>1. CASE UNCHANGED vars
  BY <1>0, <1>1 DEF vars, storeVars, ContentAnnounced, Announces, Rehomes, Renaming, Is, Announced
<1>2. CASE CPNext
  <2>1. PICK p \in Op : Progress(p) \/ CallFails(p) \/ Crash(p)
    BY <1>2 DEF CPNext
  <2>2. req' = req /\ \A o \in Op \ {p} : pc'[o] = pc[o] /\ loc'[o] = loc[o]
    BY <1>0, <2>1, OthersStay
  <2> SUFFICES ASSUME NEW r \in RegId, NEW n \in RepoName, tags'[r][n] # {}
               PROVE  Announced(r, n)' \/ \E o \in Op : Announces(o, r, n)' \/ Rehomes(o, r, n)'
    BY DEF ContentAnnounced
  <2>3. \A g, m : Announced(g, m) => Announced(g, m)'
    BY AnnouncedStays
  <2>4. ASSUME NEW o \in Op, Announces(o, r, n)
        PROVE  Announced(r, n)' \/ Announces(o, r, n)'
    <3>1. CASE pc'[o] = "registerPush"
      BY <2>2, <2>4, <3>1 DEF Announces, Is
    <3>2. CASE pc'[o] # "registerPush"
      <4>1. PushRegister(o)
        BY <1>0, <2>4, <3>2, PushCommits DEF Announces
      <4>2. emitRepoIntent(RegisterIntentForRepoPush(r, n))
        BY <2>4, <4>1 DEF PushRegister, Announces
      <4> QED BY <1>0, <4>2, PushAnnounces
    <3> QED BY <3>1, <3>2
  <2>5. ASSUME NEW o \in Op, Rehomes(o, r, n)
        PROVE  Announced(r, n)' \/ Rehomes(o, r, n)'
    BY <1>0, <2>5, RehomesOrCommits, RenameAnnounces
  <2>6. CASE tags[r][n] # {}
    <3>1. Announced(r, n) \/ \E o \in Op : Announces(o, r, n) \/ Rehomes(o, r, n)
      BY <1>0, <2>6 DEF ContentAnnounced
    <3> QED BY <2>3, <2>4, <2>5, <3>1
  <2>7. ASSUME PushForward(p), Is(p, "Push"), req[p].reg = r, req[p].repo = n
        PROVE  Announced(r, n)' \/ Announces(p, r, n)'
    <3>1. CASE loc[p].exists
      <4>1. Announced(r, n)
        BY <1>0, <2>7, <3>1 DEF PushForward, PushesInformed, At
      <4> QED BY <2>3, <4>1
    <3>2. CASE ~loc[p].exists
      <4>1. pc'[p] = "registerPush"
        BY <1>0, <2>7, <3>2 DEF PushForward, Go
      <4> QED BY <2>2, <2>7, <4>1 DEF Announces, Is
    <3> QED BY <3>1, <3>2
  <2>8. ASSUME NEW t \in loc[p].left, Renaming(p), req[p].reg = r, req[p].newName = n, Copies(p, t)
        PROVE  Rehomes(p, r, n)'
    <3>1. /\ pc'[p] = "copy" /\ loc'[p].list = loc[p].list
          /\ loc[p].left \subseteq loc[p].list
      BY <1>0, <2>8 DEF Copies, LeftIsListed
    <3>2. loc'[p].list # {}
      BY <3>1
    <3> QED BY <2>2, <2>8, <3>1, <3>2 DEF Rehomes, Unfinished, Renaming, Is
  <2>9. CASE tags[r][n] = {}
    <3>1. \/ PushForward(p) /\ Is(p, "Push") /\ req[p].reg = r /\ req[p].repo = n
          \/ /\ Renaming(p) /\ req[p].reg = r /\ req[p].newName = n
             /\ \E t \in loc[p].left : Copies(p, t)
      <4>1. PICK u \in tags'[r][n] : u \notin tags[r][n]
        BY <2>9
      <4> QED BY <1>0, <2>1, <4>1, TagsPut
    <3> QED BY <2>7, <2>8, <3>1
  <2> QED BY <2>6, <2>9
<1> QED BY <1>1, <1>2

\* handler.go, servePush; rename_repository.go: content that iam has never heard of
\* is content of a push that is about to say so or of a rename that listed tags and
\* did not reach its transaction, whatever else fails or dies, as long as the first
\* intent of a push is not lost between zot's answer and its commit, where
\* servePush only logs the failure.
THEOREM ContentIsAnnounced ==
  CPSpec /\ [][IntentsCommit]_vars => []ContentAnnounced
<1>1. CPInit => ContentInv
  BY DEF CPInit, ContentInv, ContentAnnounced, PushesInformed, LeftIsListed
<1>2. CPInv /\ ContentInv /\ [CPNext]_vars /\ [IntentsCommit]_vars => ContentInv'
  <2>1. UNCHANGED vars => IntentsCommit
    BY DEF vars, IntentsCommit
  <2>2. ASSUME CPInv, ContentInv, [CPNext]_vars, [IntentsCommit]_vars
        PROVE  ContentInv'
    <3>1. WorkersOK /\ PushesInformed /\ LeftIsListed
      BY <2>2 DEF CPInv, ContentInv
    <3>2. ContentAnnounced'
      BY <2>1, <2>2, NextContentAnnounced
    <3>3. PushesInformed' /\ LeftIsListed'
      BY <2>2, <3>1, NextPushesInformed, NextLeftIsListed
    <3> QED BY <3>2, <3>3 DEF ContentInv
  <2> QED BY <2>2
<1>3. ContentInv => ContentAnnounced
  BY DEF ContentInv
<1> QED BY <1>1, <1>2, <1>3, ControlPlaneInvariant, PTL DEF CPSpec

-----------------------------------------------------------------------------
(* What iam was told to forget.                                            *)

Unregistered(r, n) == LastWord("Repository", "unregister", r, n)

\* A list of intents that does not say so leaves no repository forgotten anew.
LEMMA NotForgottenBy ==
  ASSUME StoreTypeOK, NEW ms \in Seq(Intent), outbox' = outbox \o ms,
         NEW r, NEW n, Unregistered(r, n)'
  PROVE  \/ Says(ms, "Repository", "unregister", r, n)
         \/ Silent(ms, "Repository", r, n) /\ Unregistered(r, n)
<1>1. Unregistered(r, n) <=> Says(outbox, "Repository", "unregister", r, n)
  BY LastWordIs DEF Unregistered
<1>2. Unregistered(r, n)' <=> Says(outbox', "Repository", "unregister", r, n)
  BY LastWordIs DEF Unregistered
<1>3. outbox \in Seq(Intent)
  BY DEF StoreTypeOK
<1>4. Says(outbox', "Repository", "unregister", r, n) <=>
        \/ Says(ms, "Repository", "unregister", r, n)
        \/ Silent(ms, "Repository", r, n) /\ Says(outbox, "Repository", "unregister", r, n)
  BY <1>3, SaysAppended
<1> QED BY <1>1, <1>2, <1>4

\* Nor does a single intent of another kind, or one that registers.
LEMMA NotForgottenByOne ==
  ASSUME StoreTypeOK, NEW m \in Intent, m.kind # "Repository" \/ m.event # "unregister",
         outbox' = outbox \o <<m>>, NEW r, NEW n, Unregistered(r, n)'
  PROVE  Unregistered(r, n)
<1>1. <<m>> \in Seq(Intent)
  OBVIOUS
<1>2. ~Says(<<m>>, "Repository", "unregister", r, n)
  <2>1. ~(Speaks(m, "Repository", r, n) /\ m.event = "unregister")
    BY DEF Speaks
  <2> QED BY <2>1, OneIntent
<1> QED BY <1>1, <1>2, NotForgottenBy

\* Of the plain transactions the deletion of an overlay row is the only one.
LEMMA PlainForgets ==
  ASSUME StoreTypeOK, PlainTx, NEW r \in RegId, NEW n \in RepoName,
         ~Unregistered(r, n), Unregistered(r, n)'
  PROVE  DeleteConfig(r, n, deleteRepoIntents(r, n))
<1>0. registries \in [RegId -> Row \union {NoRow}]
  BY DEF StoreTypeOK
<1>1. ASSUME NEW q \in RegId, NEW p \in Project, NEW m \in RegName, NEW l \in Labels,
             Insert(q, p, m, l)
      PROVE  FALSE
  <2>1. RegisterRegistry(q, l) \in Intent /\ RegisterRegistry(q, l).kind = "Registry"
    BY IntentTypes DEF RegisterRegistry
  <2> QED BY <1>1, <2>1, NotForgottenByOne DEF Insert, Emit
<1>2. ASSUME NEW q \in RegId, NEW m \in RegName, NEW l \in Labels, NEW v \in Visibility,
             Update(q, m, l, v)
      PROVE  FALSE
  <2>1. registries[q] \in Row
    BY <1>0, <1>2 DEF Update, Active, Exists
  <2>2. registries'[q].labels = l
    BY <1>0, <1>2, <2>1 DEF Update, Row
  <2>3. RegisterRegistry(q, l) \in Intent /\ RegisterRegistry(q, l).kind = "Registry"
    BY IntentTypes DEF RegisterRegistry
  <2> QED BY <1>2, <2>2, <2>3, NotForgottenByOne DEF Update, Emit
<1>3. outbox' # outbox
  BY DEF Unregistered, LastWord, LastIntent
<1>4. ASSUME NEW q \in RegId, NEW m \in RepoName, NEW v \in Visibility,
             NEW ms \in Seq(Intent), outbox' = outbox \o ms,
             ~Says(ms, "Repository", "unregister", r, n)
      PROVE  FALSE
  BY <1>4, NotForgottenBy
<1>5. ASSUME NEW q \in RegId, NEW m \in RepoName, NEW v \in Visibility,
             \/ InsertConfig(q, m, v, createRepoIntents(q, m, v))
             \/ UpdateConfig(q, m, v, updateGovernanceIntents(q, m, TRUE, v))
      PROVE  FALSE
  <2>1. /\ createRepoIntents(q, m, v) \in Seq(Intent)
        /\ updateGovernanceIntents(q, m, TRUE, v) \in Seq(Intent)
    BY ListsAreIntents
  <2>2. /\ ~Says(createRepoIntents(q, m, v), "Repository", "unregister", r, n)
        /\ ~Says(updateGovernanceIntents(q, m, TRUE, v), "Repository", "unregister", r, n)
    BY RepositoriesSaid
  <2>3. outbox' = outbox \o createRepoIntents(q, m, v)
        \/ outbox' = outbox \o updateGovernanceIntents(q, m, TRUE, v)
    BY <1>5 DEF InsertConfig, UpdateConfig, runConfigTx, Emit
  <2> QED BY <1>4, <2>1, <2>2, <2>3
<1>6. ASSUME NEW q \in RegId, NEW m \in RepoName, UpdateConfig(q, m, configs[q][m], << >>)
      PROVE  FALSE
  <2>1. outbox' = outbox \o << >> /\ outbox \in Seq(Intent)
    BY <1>6 DEF UpdateConfig, runConfigTx, Emit, StoreTypeOK
  <2> QED BY <1>3, <2>1
<1>7. ASSUME NEW q \in RegId, NEW m \in RepoName, DeleteConfig(q, m, deleteRepoIntents(q, m))
      PROVE  q = r /\ m = n
  <2>1. outbox' = outbox \o deleteRepoIntents(q, m) /\ "PUBLIC" \in Visibility
    BY <1>7 DEF DeleteConfig, runConfigTx, Emit, Visibility
  <2>2. deleteRepoIntents(q, m) \in Seq(Intent)
    BY <2>1, ListsAreIntents
  <2>3. Says(deleteRepoIntents(q, m), "Repository", "unregister", r, n) <=> r = q /\ n = m
    BY <2>1, RepositoriesSaid
  <2> QED BY <2>1, <2>2, <2>3, NotForgottenBy
<1>8. ASSUME NEW q \in RegId, NEW m \in RepoName, emitRepoIntent(RegisterIntentForRepoPush(q, m))
      PROVE  FALSE
  <2>1. RegisterIntentForRepoPush(q, m) \in Intent
        /\ RegisterIntentForRepoPush(q, m).event # "unregister"
    BY IntentTypes DEF RegisterIntentForRepoPush, RepoIntent
  <2> QED BY <1>8, <2>1, NotForgottenByOne DEF emitRepoIntent, Emit
<1> QED BY <1>1, <1>2, <1>3, <1>5, <1>6, <1>7, <1>8 DEF PlainTx, MarkDeleting

\* An overlay row that goes without its registry was deleted by DeleteRepository, or
\* moved by a rename.
LEMMA RowTakenBy ==
  ASSUME WorkersOK, StoreTypeOK, NEW o \in Op, ~Renaming(o),
         Progress(o) \/ CallFails(o) \/ Crash(o),
         NEW r \in RegId, NEW n \in RepoName,
         configs[r][n] # NoConfig, configs'[r][n] = NoConfig, registries' = registries
  PROVE  /\ req[o].kind = "DeleteRepository" /\ req[o].reg = r /\ req[o].repo = n
         /\ pc'[o] # pc[o]
<1>0. /\ req[o] \in Request /\ req[o].reg \in RegId /\ MayCall(req[o].kind, pc[o])
      /\ configs \in [RegId -> [RepoName -> Visibility \union {NoConfig}]]
      /\ registries \in [RegId -> Row \union {NoRow}] /\ pc \in [Op -> Place]
  BY RequestFields DEF WorkersOK, CPTypeOK, CallsOfKind, StoreTypeOK, Place
<1>1. configs' # configs
  OBVIOUS
<1>2. ASSUME NEW q \in RegId, NEW m \in RepoName, NEW v \in Visibility,
             configs' = [configs EXCEPT ![q] = [configs[q] EXCEPT ![m] = v]]
      PROVE  FALSE
  <2>1. v # NoConfig
    BY DEF Visibility, NoConfig
  <2> QED BY <1>0, <1>2, <2>1
<1>3. ~DeleteRow(o)
  <2>1. ~Delete(req[o].reg)
    BY <1>0 DEF Delete, Exists
  <2> QED BY <1>1, <2>1 DEF DeleteRow, storeVars
<1>4. ~RegistryStep(o)
  BY <1>1, <1>3 DEF RegistryStep, BeginCreateRegistry, CreateInsert, CreateConflict, Insert,
       BeginUpdateRegistry, UpdateCommit, Update, UpdateRefused, BeginDeleteRegistry,
       DeleteMark, MarkDeleting, DeleteRecheck, storeVars
<1>5. ~CreateRepositoryInsert(o)
  <2>1. ASSUME CreateRepositoryInsert(o)
        PROVE  /\ req[o].repo \in RepoName /\ loc[o].vis \in Visibility
               /\ configs' = [configs EXCEPT ![req[o].reg] =
                                [configs[req[o].reg] EXCEPT ![req[o].repo] = loc[o].vis]]
    BY <1>0, <1>1, <2>1, RequestFields
       DEF CreateRepositoryInsert, WorkersOK, VisibilityResolved, MayCall, At,
           StatementFails, GuardRefuses, InsertConfig, runConfigTx, storeVars
  <2> QED BY <1>0, <1>2, <2>1
<1>6. ~UpdateRepositoryPromote(o)
  <2>1. ASSUME UpdateRepositoryPromote(o)
        PROVE  /\ req[o].repo \in RepoName /\ loc[o].vis \in Visibility
               /\ configs' = [configs EXCEPT ![req[o].reg] =
                                [configs[req[o].reg] EXCEPT ![req[o].repo] = loc[o].vis]]
    BY <1>0, <1>1, <2>1, RequestFields
       DEF UpdateRepositoryPromote, WorkersOK, VisibilityResolved, MayCall, At,
           GuardRefuses, InsertConfig, runConfigTx, storeVars
  <2> QED BY <1>0, <1>2, <2>1
<1>7. ~UpdateRepositoryPatch(o) /\ ~UpdateRepositoryRetry(o)
  <2> SUFFICES ASSUME UpdateRepositoryPatch(o) \/ UpdateRepositoryRetry(o)
               PROVE  FALSE
    OBVIOUS
  <2>1. req[o].repo \in RepoName /\ req[o].vis \in Visibility
    BY <1>0, RequestFields DEF UpdateRepositoryPatch, UpdateRepositoryRetry, MayCall, At
  <2>2. PatchConfig(req[o])
    BY <1>1 DEF UpdateRepositoryPatch, UpdateRepositoryRetry, StatementFails, GuardRefuses, storeVars
  <2>3. configs[req[o].reg][req[o].repo] \in Visibility
    BY <1>0, <2>1, <2>2 DEF PatchConfig, UpdateConfig
  <2>4. \E v \in Visibility : configs' = [configs EXCEPT ![req[o].reg] =
                                            [configs[req[o].reg] EXCEPT ![req[o].repo] = v]]
    BY <2>1, <2>2, <2>3 DEF PatchConfig, UpdateConfig, runConfigTx
  <2> QED BY <1>0, <1>2, <2>1, <2>4
<1>8. ~RenameStep(o)
  BY <1>0 DEF RenameStep, BeginRename, RenameReadOld, RenameCheckOverlay,
       RenameCheckProjection, RenameList, RenameCopy, RenameDrop, RenameReadRegistry,
       RenameRekey, Is, At, MayCall, Renaming
<1>9. ~ContentStep(o) /\ ~Finalize(o) /\ ~CallFails(o) /\ ~Crash(o)
  BY <1>1 DEF ContentStep, BeginDeleteTag, DeleteTagEngine, DeleteTagList, DeleteTagUnregister,
       BeginPush, PushForward, PushRegister, emitRepoIntent, Finalize, CallFails, Crash, storeVars
<1>10. DeleteRepositoryRow(o)
  BY <1>1, <1>4, <1>5, <1>6, <1>7, <1>8, <1>9
     DEF Progress, OverlayStep, BeginCreateRepository, ReadProjection, BeginUpdateRepository,
         UpdateRepositoryReadDefault, BeginDeleteRepository, DeleteRepositoryCheckEmpty, storeVars
<1>11. /\ req[o].kind = "DeleteRepository" /\ pc[o] = "deleteConfig"
       /\ DeleteConfig(req[o].reg, req[o].repo, deleteRepoIntents(req[o].reg, req[o].repo))
       /\ pc'[o] = "succeed"
  BY <1>0, <1>1, <1>10 DEF DeleteRepositoryRow, GuardRefuses, MayCall, At, Go, storeVars
<1>12. req[o].repo \in RepoName
  BY <1>0, <1>11, RequestFields
<1>13. configs' = [configs EXCEPT ![req[o].reg] = [configs[req[o].reg] EXCEPT ![req[o].repo] = NoConfig]]
  BY <1>11 DEF DeleteConfig, runConfigTx
<1>14. req[o].reg = r /\ req[o].repo = n
  BY <1>0, <1>12, <1>13
<1> QED BY <1>11, <1>14

\* Who tells iam to forget a repository: a DeleteTag, a DeleteRepository or a rename
\* of it.
LEMMA ForgottenBy ==
  ASSUME CPInv, NEW o \in Op, Progress(o) \/ CallFails(o) \/ Crash(o),
         NEW r \in RegId, NEW n \in RepoName, ~Unregistered(r, n), Unregistered(r, n)'
  PROVE  /\ req[o].kind \in {"DeleteTag", "DeleteRepository", "RenameRepository"}
         /\ req[o].reg = r /\ req[o].repo = n
         /\ pc'[o] # pc[o] /\ outbox' # outbox
<1>0. /\ StoreTypeOK /\ WorkersOK /\ req \in Inbox
      /\ req[o] \in Request /\ req[o].reg \in RegId
      /\ configs \in [RegId -> [RepoName -> Visibility \union {NoConfig}]]
  BY RequestFields DEF CPInv, IInv, StoreTypeOK, WorkersOK, CPTypeOK
<1>1. outbox' # outbox
  BY DEF Unregistered, LastWord, LastIntent
<1>2. ASSUME Rekeys(o)
      PROVE  req[o].kind = "RenameRepository" /\ req[o].reg = r /\ req[o].repo = n /\ pc'[o] # pc[o]
  <2> DEFINE q == req[o].reg  old == req[o].repo  new == req[o].newName
             ms == renameIntents(q, old, new, loc[o].vis)
  <2>1. /\ req[o].kind = "RenameRepository" /\ loc[o].vis \in Visibility
        /\ pc[o] = "rekey" /\ pc'[o] = "project"
    BY <1>0, <1>2 DEF Rekeys, Renaming, Is, WorkersOK, VisibilityResolved
  <2>2. new \in RepoName /\ old \in RepoName
    BY <1>0, <2>1, RequestFields
  <2>3. outbox' = outbox \o ms
    BY <1>2 DEF Rekeys, RekeyConfig, InsertConfig, runConfigTx, Emit
  <2>4. ms \in Seq(Intent)
    BY <1>0, <2>1, <2>2, ListsAreIntents
  <2>5. Says(ms, "Repository", "unregister", r, n) <=> r = q /\ n = old
    BY <1>0, <2>1, <2>2, RenameRepositoriesSaid
  <2> QED BY <1>0, <2>1, <2>3, <2>4, <2>5, NotForgottenBy
<1>3. CASE Renaming(o)
  BY <1>0, <1>1, <1>2, <1>3, RenameCommits DEF storeVars
<1>4. CASE PlainTx /\ ~Renaming(o)
  <2>1. DeleteConfig(r, n, deleteRepoIntents(r, n))
    BY <1>0, <1>4, PlainForgets
  <2>2. /\ configs[r][n] # NoConfig /\ registries' = registries
        /\ configs' = [configs EXCEPT ![r] = [configs[r] EXCEPT ![n] = NoConfig]]
    BY <2>1 DEF DeleteConfig, runConfigTx
  <2>3. configs'[r][n] = NoConfig
    BY <1>0, <2>2
  <2> QED BY <1>0, <1>1, <1>4, <2>2, <2>3, RowTakenBy
<1>5. ~Removes(o)
  <2>1. /\ UnregisterIntentForDelete(req[o].reg) \in Intent
        /\ UnregisterIntentForDelete(req[o].reg).kind # "Repository"
    BY <1>0, IntentTypes DEF UnregisterIntentForDelete
  <2> QED BY <1>0, <2>1, NotForgottenByOne DEF Removes, Delete, Emit
<1>6. ~Promotes(o)
  <2> SUFFICES ASSUME Promotes(o)
               PROVE  FALSE
    OBVIOUS
  <2> DEFINE ms == PublicGrantIf(req[o].reg, req[o].repo, loc[o].vis)
  <2>1. req[o].repo \in RepoName /\ loc[o].vis \in Visibility
    BY <1>0, RequestFields DEF Promotes, Is, WorkersOK, VisibilityResolved
  <2>2. outbox' = outbox \o ms
    BY DEF Promotes, InsertConfig, runConfigTx, Emit
  <2>3. ms \in Seq(Intent) /\ ~Says(ms, "Repository", "unregister", r, n)
    BY <1>0, <2>1, ListsAreIntents, RepositoriesSaid
  <2> HIDE DEF ms
  <2> QED BY <1>0, <2>2, <2>3, NotForgottenBy
<1>7. CASE Unregisters(o)
  <2> DEFINE m == UnregisterIntentForRepo(req[o].reg, req[o].repo)
  <2>1. /\ req[o].kind = "DeleteTag" /\ pc'[o] # pc[o] /\ outbox' = outbox \o <<m>>
        /\ req[o].repo \in RepoName
    BY <1>0, <1>7, RequestFields DEF Unregisters, Is, emitRepoIntent, Emit
  <2>2. m \in Intent
    BY <1>0, <2>1, IntentTypes DEF RepoIntent
  <2>3. Speaks(m, "Repository", r, n) <=> r = req[o].reg /\ n = req[o].repo
    BY IntentSays
  <2> HIDE DEF m
  <2>4. <<m>> \in Seq(Intent)
    BY <2>2
  <2>5. Says(<<m>>, "Repository", "unregister", r, n) => r = req[o].reg /\ n = req[o].repo
    BY <2>3, OneIntent
  <2>6. Says(<<m>>, "Repository", "unregister", r, n)
    BY <1>0, <2>1, <2>4, NotForgottenBy
  <2> QED BY <1>1, <2>1, <2>5, <2>6
<1>8. StoreStep(o)
  BY <1>0, StepInStore
<1> QED BY <1>1, <1>2, <1>3, <1>4, <1>5, <1>6, <1>7, <1>8 DEF StoreStep, storeVars

-----------------------------------------------------------------------------
(* Durable repositories.                                                   *)

\* Nobody tells iam to forget a repository that an unfinished UpdateRepository
\* may be promoting.
UpdatesInTurn ==
  \A o, p \in Op : Is(o, "UpdateRepository") /\ UnderWay(o) /\ UnderWay(p) =>
    ~Forgets(req[p], req[o].reg, req[o].repo)

\* Of iam: a check on a repository passes only while its last word on it is not
\* "unregister".  A promotion announces no repository, it relies on the check.
AdmitsByLastWord ==
  \A o \in Op : Is(o, "UpdateRepository") /\ pc[o] = "idle" /\ pc'[o] # "idle" =>
    ~Unregistered(req[o].reg, req[o].repo)

\* Somebody asked to delete a tag of the repository: deletetag.go does not read
\* the overlay before it unregisters an empty repository.
TagDeleted(r, n) ==
  \E o \in Op : Is(o, "DeleteTag") /\ req[o].reg = r /\ req[o].repo = n /\ pc[o] # "idle"

\* DurableStaysRegistered, of the repositories no tag was deleted from.
DurableKept ==
  \A r \in RegId, n \in RepoName :
    configs[r][n] # NoConfig => ~Unregistered(r, n) \/ TagDeleted(r, n)

\* An update under way is about a repository iam knows.
UpdatesKnown ==
  \A o \in Op : Is(o, "UpdateRepository") /\ UnderWay(o) =>
    ~Unregistered(req[o].reg, req[o].repo)

LEMMA NextUpdatesKnown ==
  ASSUME CPInv, UpdatesKnown, UpdatesInTurn, [CPNext]_vars, [AdmitsByLastWord]_vars
  PROVE  UpdatesKnown'
<1>0. WorkersOK
  BY DEF CPInv
<1>1. CASE UNCHANGED vars
  BY <1>1 DEF vars, storeVars, UpdatesKnown, Is, UnderWay, Unregistered, LastWord, LastIntent
<1>2. CASE CPNext /\ ~UNCHANGED vars
  <2>1. PICK p \in Op : Progress(p) \/ CallFails(p) \/ Crash(p)
    BY <1>2 DEF CPNext
  <2>2. req' = req /\ \A o \in Op \ {p} : pc'[o] = pc[o]
    BY <1>0, <2>1, OthersStay
  <2>3. AdmitsByLastWord
    BY <1>2
  <2> SUFFICES ASSUME NEW o \in Op, Is(o, "UpdateRepository"), UnderWay(o)'
               PROVE  ~Unregistered(req[o].reg, req[o].repo)'
    BY <2>2 DEF UpdatesKnown, Is, Unregistered, LastWord, LastIntent
  <2>4. CASE UnderWay(o)
    <3>1. ASSUME Unregistered(req[o].reg, req[o].repo)'
          PROVE  FALSE
      <4>1. req[o].reg \in RegId /\ req[o].repo \in RepoName
        BY <1>0, RequestFields DEF WorkersOK, CPTypeOK, Is
      <4>2. PICK r \in RegId, n \in RepoName :
              r = req[o].reg /\ n = req[o].repo /\ ~Unregistered(r, n) /\ Unregistered(r, n)'
        BY <2>2, <2>4, <3>1, <4>1 DEF UpdatesKnown, Unregistered, LastWord, LastIntent
      <4>3. /\ req[p].kind \in {"DeleteTag", "DeleteRepository", "RenameRepository"}
            /\ req[p].reg = r /\ req[p].repo = n /\ outbox' # outbox
        BY <2>1, <4>2, ForgottenBy
      <4>4. UnderWay(p)
        BY <1>0, <2>1, <4>3, WriterUnderWay DEF storeVars
      <4> QED BY <2>4, <4>2, <4>3, <4>4 DEF UpdatesInTurn, Forgets
    <3> QED BY <3>1
  <2>5. CASE ~UnderWay(o)
    <3>1. o = p
      BY <2>2, <2>5 DEF UnderWay
    <3>2. pc[o] = "idle" /\ pc'[o] # "idle"
      BY <1>0, <2>1, <2>5, <3>1, AcceptedStays DEF UnderWay
    <3>3. BeginUpdateRepository(o)
      BY <1>0, <2>1, <3>1, <3>2, UpdateAdmitted
    <3>4. outbox' = outbox
      BY <3>3 DEF BeginUpdateRepository, storeVars
    <3>5. ~Unregistered(req[o].reg, req[o].repo)
      BY <2>3, <3>2 DEF AdmitsByLastWord
    <3> QED BY <2>2, <3>4, <3>5 DEF Unregistered, LastWord, LastIntent
  <2> QED BY <2>4, <2>5
<1> QED BY <1>1, <1>2

\* Of those who tell iam to forget a repository only DeleteTag leaves an overlay row.
LEMMA ForgetsRow ==
  ASSUME CPInv, OverlayRemembered, NEW o \in Op, Progress(o) \/ CallFails(o) \/ Crash(o),
         NEW r \in RegId, NEW n \in RepoName, ~Unregistered(r, n), Unregistered(r, n)',
         req[o].kind # "DeleteTag"
  PROVE  configs'[r][n] = NoConfig
<1>0. /\ StoreTypeOK /\ WorkersOK /\ req \in Inbox
      /\ req[o] \in Request /\ req[o].reg \in RegId
      /\ configs \in [RegId -> [RepoName -> Visibility \union {NoConfig}]]
  BY RequestFields DEF CPInv, IInv, StoreTypeOK, WorkersOK, CPTypeOK
<1>1. /\ req[o].kind \in {"DeleteRepository", "RenameRepository"}
      /\ req[o].reg = r /\ req[o].repo = n /\ outbox' # outbox
  BY ForgottenBy
<1>2. CASE req[o].kind = "RenameRepository"
  <2>1. Rekeys(o)
    BY <1>0, <1>1, <1>2, RenameCommits DEF Renaming, Is, storeVars
  <2>2. /\ req[o].newName \in RepoName /\ req[o].repo \in RepoName \ {req[o].newName}
        /\ loc[o].vis \in Visibility
    BY <1>0, <1>2, <2>1, RequestFields, InboxAssumption DEF Rekeys, WorkersOK, VisibilityResolved
  <2>3. configs' = [configs EXCEPT ![req[o].reg] =
                      [configs[req[o].reg] EXCEPT ![req[o].repo] = NoConfig,
                                                  ![req[o].newName] = loc[o].vis]]
    BY <1>0, <2>1, <2>2, RekeyMoves
  <2> QED BY <1>0, <1>1, <2>2, <2>3
<1>3. CASE req[o].kind = "DeleteRepository"
  <2>1. PlainTx
    BY <1>0, <1>1, <1>3, StepInStore
       DEF StoreStep, storeVars, Removes, Promotes, Rekeys, Unregisters, Renaming, Is
  <2>2. DeleteConfig(r, n, deleteRepoIntents(r, n))
    BY <1>0, <2>1, PlainForgets
  <2> QED BY <1>0, <2>2 DEF DeleteConfig, runConfigTx
<1> QED BY <1>1, <1>2, <1>3

LEMMA NextDurable ==
  ASSUME CPInv, OverlayRemembered, UpdatesKnown, DurableKept, [CPNext]_vars
  PROVE  DurableKept'
<1>0. WorkersOK /\ StoreTypeOK
  BY DEF CPInv, IInv
<1>1. CASE UNCHANGED vars
  BY <1>1 DEF vars, storeVars, DurableKept, TagDeleted, Is, Unregistered, LastWord, LastIntent
<1>2. CASE CPNext
  <2>1. PICK p \in Op : Progress(p) \/ CallFails(p) \/ Crash(p)
    BY <1>2 DEF CPNext
  <2>2. req' = req /\ (\A o \in Op \ {p} : pc'[o] = pc[o]) /\ pc'[p] # "idle"
    BY <1>0, <2>1, OthersStay, AcceptedStays
  <2> SUFFICES ASSUME NEW r \in RegId, NEW n \in RepoName,
                      configs'[r][n] # NoConfig, Unregistered(r, n)'
               PROVE  TagDeleted(r, n)'
    BY DEF DurableKept
  <2>3. ASSUME TagDeleted(r, n)
        PROVE  TagDeleted(r, n)'
    BY <2>2, <2>3 DEF TagDeleted, Is
  <2>4. CASE ~Unregistered(r, n)
    <3>1. req[p].kind = "DeleteTag"
      BY <2>1, <2>4, ForgetsRow
    <3>2. req[p].reg = r /\ req[p].repo = n
      BY <2>1, <2>4, ForgottenBy
    <3> QED BY <2>2, <3>1, <3>2 DEF TagDeleted, Is
  <2>5. CASE Unregistered(r, n) /\ configs[r][n] # NoConfig
    BY <2>3, <2>5 DEF DurableKept
  <2>6. CASE Unregistered(r, n) /\ configs[r][n] = NoConfig
    <3>1. RowCause(p, r, n)
      BY <1>0, <2>1, <2>6, StepInStore, RowAppears
    <3>2. ASSUME NEW v \in Visibility, outbox' = outbox \o createRepoIntents(r, n, v)
          PROVE  FALSE
      <4>1. createRepoIntents(r, n, v) \in Seq(Intent)
        BY ListsAreIntents
      <4>2. /\ ~Says(createRepoIntents(r, n, v), "Repository", "unregister", r, n)
            /\ ~Silent(createRepoIntents(r, n, v), "Repository", r, n)
        BY RepositoriesSaid
      <4> QED BY <1>0, <3>2, <4>1, <4>2, NotForgottenBy
    <3>3. ASSUME NEW v \in Visibility, NEW old \in RepoName \ {n},
                 outbox' = outbox \o renameIntents(r, old, n, v)
          PROVE  FALSE
      <4>1. renameIntents(r, old, n, v) \in Seq(Intent)
        BY ListsAreIntents
      <4>2. /\ ~Says(renameIntents(r, old, n, v), "Repository", "unregister", r, n)
            /\ ~Silent(renameIntents(r, old, n, v), "Repository", r, n)
        BY RenameRepositoriesSaid
      <4> QED BY <1>0, <3>3, <4>1, <4>2, NotForgottenBy
    <3> QED BY <2>6, <3>1, <3>2, <3>3 DEF RowCause, UpdatesKnown
  <2> QED BY <2>4, <2>5, <2>6
<1> QED BY <1>1, <1>2

\* iam is never left with "unregistered" as its last word on a durable repository
\* (0005_repository_configs.sql) no tag was ever deleted from, whatever is created,
\* promoted, pushed, renamed, deleted, failed or abandoned, as long as nobody sets
\* the old name of an unfinished rename or unregisters what an unfinished update
\* promotes, and iam lets no update through to what it was told to forget.
THEOREM DurablesKept ==
  CPSpec /\ []RenamesInTurn /\ []UpdatesInTurn /\ [][AdmitsByLastWord]_vars => []DurableKept
<1>1. CPInit => DurableKept /\ UpdatesKnown /\ OverlayRemembered
  <2>1. CPInit => DurableKept /\ UpdatesKnown
    BY DEF CPInit, StoreInit, DurableKept, UpdatesKnown, UnderWay
  <2> QED BY <2>1, InitGrants
<1>2. CPInv /\ OverlayRemembered /\ RenamesInTurn /\ [CPNext]_vars => OverlayRemembered'
  BY InTurnSteady, NextOverlayRemembered
<1>3. CPInv /\ UpdatesKnown /\ UpdatesInTurn /\ [CPNext]_vars /\ [AdmitsByLastWord]_vars
        => UpdatesKnown'
  BY NextUpdatesKnown
<1>4. CPInv /\ OverlayRemembered /\ UpdatesKnown /\ DurableKept /\ [CPNext]_vars => DurableKept'
  BY NextDurable
<1> QED BY <1>1, <1>2, <1>3, <1>4, ControlPlaneInvariant, PTL DEF CPSpec

\* No tag is to be deleted from a repository that some request makes durable.
DurableTagsSpared ==
  \A q \in Inbox : \A o, p \in Op : q[o].kind = "DeleteTag" => ~Sets(q[p], q[o].reg, q[o].repo)

\* Whatever row there is, some request set it.
RowsWereSet ==
  \A r \in RegId, n \in RepoName : configs[r][n] # NoConfig => \E p \in Op : Sets(req[p], r, n)

LEMMA NextRowsWereSet ==
  ASSUME CPInv, RowsWereSet, [CPNext]_vars
  PROVE  RowsWereSet'
<1> SUFFICES ASSUME NEW r \in RegId, NEW n \in RepoName, configs'[r][n] # NoConfig
             PROVE  (\E p \in Op : Sets(req[p], r, n))'
  BY DEF RowsWereSet
<1>1. req' = req
  BY OthersStay DEF CPInv, CPNext, vars
<1>2. CASE configs[r][n] # NoConfig
  BY <1>1, <1>2 DEF RowsWereSet
<1>3. CASE configs[r][n] = NoConfig
  <2>1. PICK p \in Op : Progress(p) \/ CallFails(p) \/ Crash(p)
    BY <1>3 DEF CPNext, vars, storeVars
  <2>2. Sets(req[p], r, n)
    BY <1>3, <2>1, RowSetBy
  <2> QED BY <1>1, <2>2
<1> QED BY <1>2, <1>3

\* The same of every durable repository where no tag of one is to be deleted.
THEOREM DurableRegistered ==
  ASSUME DurableTagsSpared
  PROVE  /\ CPSpec
         /\ []RenamesInTurn /\ []UpdatesInTurn /\ [][AdmitsByLastWord]_vars
         => []DurableStaysRegistered
<1>1. CPInit => RowsWereSet
  BY DEF CPInit, StoreInit, RowsWereSet
<1>2. CPInv /\ RowsWereSet /\ [CPNext]_vars => RowsWereSet'
  BY NextRowsWereSet
<1>3. CPInv /\ RowsWereSet /\ DurableKept => DurableStaysRegistered
  BY DEF CPInv, WorkersOK, DurableTagsSpared, RowsWereSet, DurableKept, TagDeleted, Is,
         DurableStaysRegistered, Unregistered
<1> QED BY <1>1, <1>2, <1>3, DurablesKept, ControlPlaneInvariant, PTL DEF CPSpec

-----------------------------------------------------------------------------
(* Content that iam was told to forget.                                    *)

\* iam's last word on a repository with content is not that it has gone, unless
\* a push is about to say otherwise or a rename to this name has not come to its end.
ContentNotForgotten ==
  \A r \in RegId, n \in RepoName : tags[r][n] # {} =>
    ~Unregistered(r, n) \/ \E o \in Op : Announces(o, r, n) \/ Rehomes(o, r, n)

\* Nobody puts tags into a repository that an unfinished request is about to
\* tell iam to forget, or empties one that an unfinished request is filling.
FillsInTurn ==
  \A o, p \in Op, r \in RegId, n \in RepoName :
    UnderWay(o) /\ UnderWay(p) /\ Fills(req[o], r, n) => ~Forgets(req[p], r, n)

\* What the requests saw of a repository, an engine call or more ago, is still so:
\* what they found or made empty is, what a rename has not copied or dropped was
\* not there, and what a push found present is.
SeenHolds ==
  \A o \in Op :
    /\ pc[o] \in {"unregister", "deleteConfig", "readRegistry", "rekey"} => OldTags(o) = {}
    /\ pc[o] = "copy" => OldTags(o) \subseteq loc[o].list
    /\ pc[o] = "drop" => OldTags(o) \subseteq loc[o].left
    /\ pc[o] = "forward" /\ loc[o].exists => OldTags(o) # {}

\* Two workers set out to tell iam only when the engine lists no tag.
LEMMA ForgetsWhenEmpty ==
  ASSUME WorkersOK, NEW o \in Op, Progress(o) \/ CallFails(o) \/ Crash(o),
         pc'[o] \in {"unregister", "deleteConfig"}
  PROVE  OldTags(o) = {} /\ tags' = tags
<1>0. pc \in [Op -> Place]
  BY DEF WorkersOK, CPTypeOK, Place
<1> USE DEF At, Go, Fail, GuardRefuses, StatementFails
<1>1. ~RegistryStep(o)
  BY <1>0 DEF RegistryStep, BeginCreateRegistry, CreateInsert, CreateConflict,
       BeginUpdateRegistry, UpdateCommit, UpdateRefused, BeginDeleteRegistry, DeleteMark,
       DeleteRecheck, DeleteRow
<1>2. CASE OverlayStep(o)
  BY <1>0, <1>2 DEF OverlayStep, BeginCreateRepository, CreateRepositoryInsert, ReadProjection,
       BeginUpdateRepository, UpdateRepositoryPatch, UpdateRepositoryReadDefault,
       UpdateRepositoryPromote, UpdateRepositoryRetry, BeginDeleteRepository,
       DeleteRepositoryCheckEmpty, DeleteRepositoryRow, OldTags
<1>3. ~RenameStep(o)
  BY <1>0 DEF RenameStep, BeginRename, RenameReadOld, RenameCheckOverlay,
       RenameCheckProjection, TargetFree, RenameList, RenameCopy, RenameDrop,
       RenameReadRegistry, RenameRekey
<1>4. CASE ContentStep(o)
  BY <1>0, <1>4 DEF ContentStep, BeginDeleteTag, DeleteTagEngine, DeleteTagList,
       DeleteTagUnregister, BeginPush, PushForward, PushRegister, OldTags
<1>5. ~Finalize(o) /\ ~CallFails(o) /\ ~Crash(o)
  BY <1>0 DEF Finalize, CallFails, Crash
<1> QED BY <1>1, <1>2, <1>3, <1>4, <1>5 DEF Progress

\* The tags of a repository change under the hands of others as it suits those
\* who wait for one another.
LEMMA InTurnTags ==
  ASSUME WorkersOK, FillsInTurn, NEW p \in Op, NEW o \in Op \ {p},
         Progress(p) \/ CallFails(p) \/ Crash(p)
  PROVE  /\ pc[o] \in {"unregister", "deleteConfig", "readRegistry", "rekey", "copy", "drop"} =>
              OldTags(o)' \subseteq OldTags(o)
         /\ pc[o] = "forward" => OldTags(o) \subseteq OldTags(o)'
<1>0. /\ req' = req /\ req[o] \in Request /\ req[o].reg \in RegId
      /\ MayCall(req[o].kind, pc[o])
  BY OthersStay, RequestFields DEF WorkersOK, CPTypeOK, CallsOfKind
<1>1. ASSUME pc[o] \in {"unregister", "deleteConfig", "readRegistry", "rekey", "copy", "drop"},
             NEW t \in OldTags(o)', t \notin OldTags(o)
      PROVE  FALSE
  <2>1. /\ req[o].kind \in {"DeleteTag", "DeleteRepository", "RenameRepository"}
        /\ UnderWay(o)
    BY <1>0, <1>1 DEF MayCall, UnderWay, Final
  <2>2. req[o].repo \in RepoName
    BY <1>0, <2>1, RequestFields
  <2>3. Fills(req[p], req[o].reg, req[o].repo) /\ tags' # tags
    BY <1>0, <1>1, <2>2, TagsPut DEF OldTags, Fills, Renaming, Is
  <2>4. UnderWay(p)
    BY <2>3, WriterUnderWay
  <2> QED BY <1>0, <2>1, <2>2, <2>3, <2>4 DEF FillsInTurn, Forgets
<1>2. ASSUME pc[o] = "forward", NEW t \in OldTags(o), t \notin OldTags(o)'
      PROVE  FALSE
  <2>1. req[o].kind = "Push" /\ UnderWay(o)
    BY <1>0, <1>2 DEF MayCall, UnderWay, Final
  <2>2. req[o].repo \in RepoName
    BY <1>0, <2>1, RequestFields
  <2>3. TakesTags(req[p]) /\ req[p].reg = req[o].reg /\ req[p].repo = req[o].repo /\ tags' # tags
    BY <1>0, <1>2, <2>2, TagsTaken DEF OldTags
  <2>4. UnderWay(p)
    BY <2>3, WriterUnderWay
  <2> QED BY <1>0, <2>1, <2>2, <2>3, <2>4 DEF FillsInTurn, Fills, Forgets, TakesTags
<1> QED BY <1>1, <1>2

LEMMA NextSeenHolds ==
  ASSUME CPInv, FillsInTurn, SeenHolds, [CPNext]_vars
  PROVE  SeenHolds'
<1> DEFINE S(o) ==
      /\ pc[o] \in {"unregister", "deleteConfig", "readRegistry", "rekey"} => OldTags(o) = {}
      /\ pc[o] = "copy" => OldTags(o) \subseteq loc[o].list
      /\ pc[o] = "drop" => OldTags(o) \subseteq loc[o].left
      /\ pc[o] = "forward" /\ loc[o].exists => OldTags(o) # {}
<1>0. WorkersOK /\ WorkersOK'
  BY NextCPInv DEF CPInv
<1>1. CASE UNCHANGED vars
  BY <1>1 DEF vars, SeenHolds, OldTags
<1>2. CASE CPNext
  <2>1. PICK p \in Op : Progress(p) \/ CallFails(p) \/ Crash(p)
    BY <1>2 DEF CPNext
  <2>2. req' = req /\ \A o \in Op \ {p} : pc'[o] = pc[o] /\ loc'[o] = loc[o]
    BY <1>0, <2>1, OthersStay
  <2>3. ASSUME NEW o \in Op \ {p}
        PROVE  S(o)'
    <3>1. S(o) /\ pc'[o] = pc[o] /\ loc'[o] = loc[o]
      BY <2>2 DEF SeenHolds
    <3>2. /\ pc[o] \in {"unregister", "deleteConfig", "readRegistry", "rekey", "copy", "drop"} =>
               OldTags(o)' \subseteq OldTags(o)
          /\ pc[o] = "forward" => OldTags(o) \subseteq OldTags(o)'
      BY <1>0, <2>1, InTurnTags
    <3> QED BY <3>1, <3>2
  <2>4. ASSUME Renaming(p)
        PROVE  S(p)'
    <3>1. /\ req[p].reg \in RegId /\ req[p].repo \in RepoName /\ req[p].newName \in RepoName
          /\ req[p].repo # req[p].newName /\ tags \in [RegId -> [RepoName -> SUBSET Tag]]
      BY <1>0, <2>4, RenameFields
    <3>2. MayCall("RenameRepository", pc[p])' /\ S(p)
      BY <1>0, <2>2, <2>4 DEF WorkersOK, CallsOfKind, Renaming, Is, SeenHolds
    <3>3. pc'[p] \notin {"unregister", "deleteConfig", "forward"}
      BY <3>2 DEF MayCall
    <3>4. CASE Passes(p)
      BY <2>2, <3>2, <3>3, <3>4 DEF Passes, OldTags
    <3>5. CASE Lists(p)
      BY <2>2, <3>5 DEF Lists, OldTags
    <3>6. CASE Turns(p)
      BY <2>2, <3>2, <3>6 DEF Turns, OldTags
    <3>7. ASSUME NEW t \in Tag, Copies(p, t)
          PROVE  S(p)'
      <4>1. OldTags(p)' = OldTags(p)
        BY <2>2, <3>1, <3>7 DEF Copies, OldTags
      <4> QED BY <3>2, <3>7, <4>1 DEF Copies
    <3>8. ASSUME NEW t \in Tag, Drops(p, t)
          PROVE  S(p)'
      <4>1. OldTags(p)' = OldTags(p) \ {t}
        BY <2>2, <3>1, <3>8 DEF Drops, OldTags
      <4> QED BY <3>2, <3>8, <4>1 DEF Drops
    <3> QED BY <1>0, <2>1, <2>4, <3>4, <3>5, <3>6, <3>7, <3>8, RenameMoves
  <2>5. ASSUME ~Renaming(p)
        PROVE  S(p)'
    <3>1. pc'[p] \notin {"readRegistry", "rekey", "copy", "drop"}
      BY <1>0, <2>2, <2>5 DEF WorkersOK, CallsOfKind, MayCall, Renaming, Is
    <3>2. pc'[p] \in {"unregister", "deleteConfig"} => OldTags(p)' = {}
      BY <1>0, <2>1, <2>2, ForgetsWhenEmpty DEF OldTags
    <3>3. ASSUME pc'[p] = "forward", loc'[p].exists
          PROVE  OldTags(p)' # {}
      <4>1. Is(p, "Push")
        BY <1>0, <2>2, <3>3 DEF WorkersOK, CallsOfKind, MayCall, Is
      <4> QED BY <1>0, <2>1, <2>2, <3>3, <4>1, PushFinds DEF OldTags
    <3> QED BY <3>1, <3>2, <3>3
  <2> QED BY <2>3, <2>4, <2>5 DEF SeenHolds
<1> QED BY <1>1, <1>2

\* So when iam is told to forget a repository, the engine has no tag of it.
LEMMA ForgottenEmpty ==
  ASSUME CPInv, SeenHolds, NEW o \in Op, Progress(o) \/ CallFails(o) \/ Crash(o),
         NEW r \in RegId, NEW n \in RepoName, ~Unregistered(r, n), Unregistered(r, n)'
  PROVE  tags[r][n] = {}
<1>0. WorkersOK
  BY DEF CPInv
<1>1. /\ req[o].kind \in {"DeleteTag", "DeleteRepository", "RenameRepository"}
      /\ req[o].reg = r /\ req[o].repo = n /\ outbox' # outbox
  BY ForgottenBy
<1>2. pc[o] \in {"unregister", "deleteConfig", "rekey"}
  <2>1. MayCall(req[o].kind, pc[o])
    BY <1>0 DEF WorkersOK, CallsOfKind
  <2>2. ~RegistryStep(o)
    BY <1>1, <2>1 DEF RegistryStep, BeginCreateRegistry, CreateInsert, CreateConflict,
         BeginUpdateRegistry, UpdateCommit, UpdateRefused, BeginDeleteRegistry, DeleteMark,
         DeleteRecheck, DeleteRow, Is, At, MayCall
  <2>3. OverlayStep(o) => At(o, "deleteConfig")
    BY <1>1, <2>1 DEF OverlayStep, BeginCreateRepository, CreateRepositoryInsert,
         ReadProjection, BeginUpdateRepository, UpdateRepositoryPatch,
         UpdateRepositoryReadDefault, UpdateRepositoryPromote, UpdateRepositoryRetry,
         BeginDeleteRepository, DeleteRepositoryCheckEmpty, DeleteRepositoryRow, Is, At,
         MayCall, storeVars
  <2>4. RenameStep(o) => At(o, "rekey")
    BY <1>1 DEF RenameStep, BeginRename, RenameReadOld, RenameCheckOverlay,
         RenameCheckProjection, TargetFree, RenameList, RenameCopy, RenameDrop,
         RenameReadRegistry, RenameRekey, storeVars
  <2>5. ContentStep(o) => At(o, "unregister")
    BY <1>1, <2>1 DEF ContentStep, BeginDeleteTag, DeleteTagEngine, DeleteTagList,
         DeleteTagUnregister, BeginPush, PushForward, PushRegister, Is, At, MayCall, storeVars
  <2>6. ~Finalize(o) /\ ~CallFails(o) /\ ~Crash(o)
    BY <1>1 DEF Finalize, CallFails, Crash, storeVars
  <2> QED BY <2>2, <2>3, <2>4, <2>5, <2>6 DEF Progress, At
<1> QED BY <1>1, <1>2 DEF SeenHolds, OldTags

LEMMA NextContentNotForgotten ==
  ASSUME CPInv, LeftIsListed, SeenHolds, ContentNotForgotten, IntentsCommit, [CPNext]_vars
  PROVE  ContentNotForgotten'
<1>0. WorkersOK /\ pc \in [Op -> Place] /\ loc \in [Op -> Local] /\ StoreTypeOK
  BY DEF CPInv, IInv, WorkersOK, CPTypeOK, Place
<1>1. CASE UNCHANGED vars
  BY <1>1 DEF vars, storeVars, ContentNotForgotten, Unregistered, LastWord, LastIntent,
       Announces, Rehomes, Renaming, Is
<1>2. CASE CPNext
  <2>1. PICK p \in Op : Progress(p) \/ CallFails(p) \/ Crash(p)
    BY <1>2 DEF CPNext
  <2>2. req' = req /\ \A o \in Op \ {p} : pc'[o] = pc[o] /\ loc'[o] = loc[o]
    BY <1>0, <2>1, OthersStay
  <2> SUFFICES ASSUME NEW r \in RegId, NEW n \in RepoName, tags'[r][n] # {}
               PROVE  ~Unregistered(r, n)' \/ \E o \in Op : Announces(o, r, n)' \/ Rehomes(o, r, n)'
    BY DEF ContentNotForgotten
  <2>3. ASSUME NEW o \in Op, Announces(o, r, n)
        PROVE  ~Unregistered(r, n)' \/ Announces(o, r, n)'
    <3>1. CASE pc'[o] = "registerPush"
      BY <2>2, <2>3, <3>1 DEF Announces, Is
    <3>2. CASE pc'[o] # "registerPush"
      <4> DEFINE m == RegisterIntentForRepoPush(r, n)
      <4>1. PushRegister(o)
        BY <1>0, <2>3, <3>2, PushCommits DEF Announces
      <4>2. outbox' = outbox \o <<m>>
        BY <2>3, <4>1 DEF PushRegister, Announces, emitRepoIntent, Emit
      <4>3. m \in Intent
        BY IntentTypes DEF RepoIntent
      <4>4. Speaks(m, "Repository", r, n) /\ m.event # "unregister"
        BY IntentSays
      <4> HIDE DEF m
      <4>5. /\ ~Says(<<m>>, "Repository", "unregister", r, n)
            /\ ~Silent(<<m>>, "Repository", r, n)
        BY <4>4, OneIntent
      <4>6. <<m>> \in Seq(Intent)
        BY <4>3
      <4> QED BY <1>0, <4>2, <4>5, <4>6, NotForgottenBy
    <3> QED BY <3>1, <3>2
  <2>4. ASSUME NEW o \in Op, Rehomes(o, r, n)
        PROVE  ~Unregistered(r, n)' \/ Rehomes(o, r, n)'
    <3>1. ASSUME NEW old \in RepoName \ {n}, NEW v \in Visibility,
                 outbox' = outbox \o renameIntents(r, old, n, v)
          PROVE  ~Unregistered(r, n)'
      <4>1. renameIntents(r, old, n, v) \in Seq(Intent)
        BY ListsAreIntents
      <4>2. /\ ~Says(renameIntents(r, old, n, v), "Repository", "unregister", r, n)
            /\ ~Silent(renameIntents(r, old, n, v), "Repository", r, n)
        BY RenameRepositoriesSaid
      <4> QED BY <1>0, <3>1, <4>1, <4>2, NotForgottenBy
    <3> QED BY <2>4, <3>1, RehomesOrCommits
  <2>5. CASE tags[r][n] # {}
    <3>1. ~Unregistered(r, n) => ~Unregistered(r, n)'
      BY <2>1, <2>5, ForgottenEmpty
    <3>2. ~Unregistered(r, n) \/ \E o \in Op : Announces(o, r, n) \/ Rehomes(o, r, n)
      BY <2>5 DEF ContentNotForgotten
    <3> QED BY <2>3, <2>4, <3>1, <3>2
  <2>6. CASE tags[r][n] = {}
    <3>1. ASSUME PushForward(p), Is(p, "Push"), req[p].reg = r, req[p].repo = n
          PROVE  Announces(p, r, n)'
      <4>1. pc[p] = "forward" /\ pc'[p] \in {"succeed", "registerPush"}
        BY <1>0, <3>1 DEF PushForward, At, Go
      <4>2. pc'[p] = "registerPush"
        BY <1>0, <2>6, <3>1, <4>1 DEF PushForward, SeenHolds, OldTags, Go, At
      <4> QED BY <2>2, <3>1, <4>2 DEF Announces, Is
    <3>2. ASSUME NEW t \in loc[p].left, Renaming(p), req[p].reg = r, req[p].newName = n,
                 Copies(p, t)
          PROVE  Rehomes(p, r, n)'
      <4>1. /\ pc'[p] = "copy" /\ loc'[p].list = loc[p].list
            /\ loc[p].left \subseteq loc[p].list
        BY <3>2 DEF Copies, LeftIsListed
      <4>2. loc'[p].list # {}
        BY <4>1
      <4> QED BY <2>2, <3>2, <4>1, <4>2 DEF Rehomes, Unfinished, Renaming, Is
    <3>3. \/ PushForward(p) /\ Is(p, "Push") /\ req[p].reg = r /\ req[p].repo = n
          \/ /\ Renaming(p) /\ req[p].reg = r /\ req[p].newName = n
             /\ \E t \in loc[p].left : Copies(p, t)
      <4>1. PICK u \in tags'[r][n] : u \notin tags[r][n]
        BY <2>6
      <4> QED BY <1>0, <2>1, <4>1, TagsPut
    <3> QED BY <3>1, <3>2, <3>3
  <2> QED BY <2>5, <2>6
<1> QED BY <1>1, <1>2

\* deletetag.go, delete_repository.go, rename_repository.go, handler.go: iam is not left
\* with the word that a repository is gone while the engine has content of it, though
\* each of them looks at the engine in one call and tells iam in a later one, as long
\* as nobody fills a repository while an unfinished request may unregister it, and
\* the intents of pushes are not lost.
THEOREM ContentIsNotForgotten ==
  CPSpec /\ []FillsInTurn /\ [][IntentsCommit]_vars => []ContentNotForgotten
<1>1. CPInit => LeftIsListed /\ SeenHolds /\ ContentNotForgotten
  BY DEF CPInit, LeftIsListed, SeenHolds, ContentNotForgotten
<1>2. CPInv /\ LeftIsListed /\ [CPNext]_vars => LeftIsListed'
  BY NextLeftIsListed DEF CPInv
<1>3. CPInv /\ FillsInTurn /\ SeenHolds /\ [CPNext]_vars => SeenHolds'
  BY NextSeenHolds
<1>4. CPInv /\ LeftIsListed /\ SeenHolds /\ ContentNotForgotten /\ [CPNext]_vars
        /\ [IntentsCommit]_vars => ContentNotForgotten'
  <2>1. CASE UNCHANGED vars
    BY <2>1 DEF vars, storeVars, ContentNotForgotten, Unregistered, LastWord, LastIntent,
         Announces, Rehomes, Renaming, Is
  <2> QED BY <2>1, NextContentNotForgotten
<1> QED BY <1>1, <1>2, <1>3, <1>4, ControlPlaneInvariant, PTL DEF CPSpec

=============================================================================
