# A TLA+ model of kacho-registry

`kacho-registry` is a multi-tenant container registry service. Its *control
plane* (gRPC) keeps registries and per-repository configuration in PostgreSQL;
its *data plane* is an OCI proxy in front of zot, the storage engine that holds
manifests and blobs; and every change of who may see what is told to the
authorization service (iam, OpenFGA) through a transactional outbox. The three
stores are never in one transaction. What can go wrong is between them, and
that is what this project models.

## 1. Inventory

| component | state it keeps | operations | models |
|---|---|---|---|
| control-plane store (`repo/kacho/pg/registry.go`, `repository_config.go`, migrations 0001, 0005) | rows of `registries` and `repository_configs` ("overlays"), queue `registry_outbox` | Insert, Update, MarkDeleting, Delete; Insert/Update/Rekey/DeleteConfig under an ACTIVE guard; RegisterRepository, UnregisterRepository | `RegistryStore` |
| ids of the outbox (`emitFGAIntent`, `emitRepoIntent`, `guardRegistryActive`, migration 0002) | BIGSERIAL, row locks, advisory locks | lock, insert, commit, roll back | `OutboxCommit` |
| FGA intents (`domain/fga_intent.go` and the intent lists of the use cases) | none | which intents each change emits | `FgaIntents` |
| use cases (`apps/kacho/api/registry/*.go`) | an Operation per mutating RPC and what its worker remembers | Create/Update/DeleteRegistry, Create/Update/Rename/DeleteRepository, DeleteTag | `ControlPlane`, `RegistryLife` |
| contents in zot (`clients/zot/repository.go`, `graphql.go`) | tags of each repository | list, emptiness, delete a tag, re-home (copy all, drop all) | `ControlPlane` (tags only) |
| data plane, push against the control plane (`dataplane/handler.go` `servePush`) | none of its own | existence read, check, forward, register on first push | `ControlPlane` |
| data plane, all handlers (uploads, manifests, mounts, pulls; `pending_blob.go`, `push_grant.go`, `clients/zot/backend.go`, `blob_scope_cache.go`) | tables `registry_pending_blob`, `registry_push_grant` with a TTL, the cache of `BlobInRepo` | record, reveal, drop, sweep, scan, remember, evict | `DataPlane` |
| outbox relay (`clients/iam/register_applier.go`, `serve.go`, drainer of kacho-corelib) | `sent_at`, attempts of each row; the tuples iam holds | claim, apply each tuple, retry, poison, mark sent | `OutboxRelay` |
| listing (`List`, `ListTags`, `ListRepositories`, `_catalog`; `namepage`, `zot/graphql.go`, `handler/listauthz.go`) | cursors held by the client | gate, read, cut a window, add overlay rows, filter | `Listing` |
| JWKS verifier (`clients/jwks/verifier.go`) | cached keys, their age and TTL, time of the last refresh slot | look up, claim the slot, fetch, store, check | `JwksCache` |
| process lifecycle (`cmd/kacho-registry/serve.go`, `handler/operation_handler.go`) | servers, running handlers and workers | accept, persist, run, cancel; graceful stop, exit | `Process` |
| handlers and permission map (`internal/handler`, `internal/check`) | none | per-object checks before a use case, filters of lists | guards of the `Begin...` actions; `Listing` |
| path parsing, proxying, configuration, start-up, migrator, docs site, deployment | none or start-up only | | not modelled |

**How they interact.** A mutating RPC checks the caller, validates, persists an
Operation and returns it; a detached goroutine then makes its calls one by one
(transactions in PostgreSQL, REST or GraphQL calls to zot) and writes the result
into the Operation. Nothing but the row locks of single transactions orders the
workers of two RPCs. A manifest push runs inside its HTTP request: it asks zot
whether the repository exists, forwards, and announces a new repository. All
intents go through `registry_outbox`; a drainer in every replica delivers them to
iam, one call per tuple. Every request carries a token whose signature is checked
against cached keys of Hydra, the identity provider. On a signal the process stops its servers one
after the other, waits for its workers, and ends.

**What is hard here.**

- *Values read in one call and used in a later one*: the overlay read by a
  rename, the existence seen by a push, the emptiness seen by a delete, the
  default visibility of a create or a promotion.
- *Several workers on one row*: concurrent deletes of one registry, two
  promotions of one repository, an update and a delete.
- *One step of several failing*: a rename stops between any two tags; a reply is
  lost after the call took effect; the process dies. Nothing resumes an Operation.
- *Order*: iam keeps the last word about an object, so the order of intents is
  the order of grants and revocations, and ids are drawn before commits.
- *Cascades*: a row removed by a foreign key queues no intent.
- *Access that arrives late*: iam grants access some time after a push. Until
  then a pending row and a push grant stand in for it; they expire, are deleted
  by detached goroutines, and must neither hide what was just pushed nor show
  what belongs to somebody else.
- *Delivery*: a row of several tuples is retried after some were applied; two
  replicas work on rows of one object; an answer is lost after iam acted.
- *Caches with a clock*: keys are fetched with the lock released, so a slow
  fetch may store an old key set over a new one; what is served while the
  refresh slot is taken?
- *Pages of a list that changes*: a cursor is a name or a position, and the
  page is several reads of several stores.
- *Shutdown*: requests still arrive while servers are stopped in turn, and a
  worker whose process ends is never resumed.

**What makes each component correct.** Store: names of live registries are
unique in a project, an overlay has a registry, a registry is unregistered once
and only when it is gone, the last intent mirrors the row, DELETING is final.
Outbox: ids of one object grow in commit order. Use cases: a delete answered OK
is a delete; a registry lives one life; what iam is told last about anonymous
access is what the row says; a durable repository is not left unregistered; no
tag is lost in a rename and the overlay moves last; every Operation ends. Data
plane: nobody gets a digest of another tenant; an acknowledged upload and a
pushed repository are visible to the pusher; who lost access stays out. Relay: a
row marked sent was applied in full, iam ends with what was committed last, every
row settles. Listing: what is there all the time is shown, and only what must be
is shown twice; paging ends. JWKS: retired keys lapse, new ones are picked up, Hydra
is not flooded. Process: no Operation is left undone by an orderly end, what was
accepted is answered, and the end comes.

## 2. Modules

    FgaIntents          the intents of each change
      RegistryStore     tables and outbox, one action per transaction
        RegistryStore_proofs
        ControlPlane    the workers, over the store and the engine's tags
          ControlPlane_proofs
          MCControlPlane      (INSTANCEs RegistryLife through ControlPlane)
        MCRegistryStore
    RegistryLife        the life of a registry: the abstract specification
    OutboxCommit        locks, ids and commits of writer transactions
      OutboxCommit_proofs, MCOutboxCommit
      OutboxRelay       the drainers and iam, over those transactions
        OutboxRelay_proofs, MCOutboxRelay
    DataPlane           the OCI handlers, their two tables and their cache
      DataPlane_proofs, MCDataPlane
    Listing             a client that pages through a list
      Listing_proofs
    JwksCache           the token verifier and its keys
      JwksCache_proofs, MCJwksCache
    Process             one life of the process
      Process_proofs, MCProcess

**FgaIntents.** An intent is a record of event (register, unregister), kind
(Registry, Repository, PublicGrant), object and labels. It stands for a row of
`registry_outbox`; the tuples in its payload are determined by the kind and are
left out. `createRepoIntents`, `updateGovernanceIntents`, `renameIntents` and
`deleteRepoIntents` are the lists of the functions of those names.

**RegistryStore.** `registries[r]` is a row or `NoRow`; `configs[r][n]` is the
visibility of the overlay or `NoConfig`; `outbox` is the sequence of committed
intents in id order. Each transaction is one action: PostgreSQL's row locks and
unique indexes make it so, and `OutboxCommit` looks inside. `StoreSpec` lets any
transaction happen with any legal arguments: it is the most general client, and
what holds for it holds for every use case.

**ControlPlane.** `req[o]` is the request behind Operation `o`, `pc[o]` the next
call of its worker, `loc[o]` what the worker remembers, `tags` the engine. An
action is one call together with the branch taken on its answer, so everything
that may happen between two calls does. `CallFails` is a call that fails (before
it takes effect, or after with its answer lost), `Crash` a process that dies.
A per-object authorization check can pass only for an object announced to iam,
and that is the guard of each `Begin...` action. The engine's catalog may still list a
repository without tags until it collects it; `MayBeListed` lets DeleteRegistry's second
check fail on one that was once filled (its first check fails without a trace).

**RegistryLife.** A registry is unborn, ACTIVE, DELETING, gone, in that order and
once each; it is announced with its birth and unannounced with its removal.
`ControlPlane` implements it under the refinement mapping `Life`.

**OutboxCommit.** Transactions that take a lock (registry row, or the advisory
lock of a repository), draw an id by inserting, and commit or roll back at any
later time. A constant `Plan` says which transaction locks and touches what.

**DataPlane.** `req[c]` is an HTTP request, `pc[c]` the next call of its handler
(`servePush`, `serveMount`, `serveBlob`, `servePullOnly`), `loc[c]` what the
handler remembers, `answer[c]` what the client was told. `stored` and `tags` are
zot; `pending` and `grants` the two tables, where a row is fresh or past its TTL
and `SweepStale` is a tick of both sweepers; `verdict` is the cache of
`BlobInRepo`, written by a call of its own after the scan; `drops` are the
goroutines of `dropPushGrantMaterialized`. `announced` and `allowed` are iam as
this service sees it: access materialises some time after the registration, if
ever. `FailClosed` is a call that fails, `Crash` loses requests, goroutines and
cache and keeps the tables. `past` is history and is read by properties only.
zot is external: a blob stored anywhere is found from everywhere, and a manifest
is accepted only if its layers are stored in its own repository.

**OutboxRelay.** Extends `OutboxCommit`: the writers go on while the drainers
work. `claim[d]` is the row replica `d` has locked, `pos[d]` the tuple it is
about to send; `sent` and `attempts` are columns. `ApplyTuple` is one call of
iam; `FailTransient` leaves the row to a later attempt, with or without iam
having acted; `FailPermanent` poisons it; `MarkSent` ends it; `Crash` loses the
claim and nothing else. `Relations` is the list of tuples of each intent, in the
order of `fga_intent.go`. `fga` is iam (external): for each tuple the row that
last registered it. Here each transaction writes one row. `newest` and
`overtaken` are history.

**Listing.** One client, one list, and everybody else. Names are numbers in sort
order. `entries`, `tagged` and `overlay` are the engine's enumeration,
the repositories with tags, the overlay rows; `may` and `gate` what the caller may
see. `pc` walks through the reads of a page in the order of the code: gate,
engine or database, tags of the window, overlay rows, filter and answer. Between
any two, `Others` push, empty, collect, create, delete, grant or revoke; `Fail` is a
read without an answer, after which the client asks for the same page again.

**JwksCache.** `keys`, `fetched`, `ttl`, `lastRefresh` are the `Verifier`; `pc[c]`
is a call of `Verify` between two lock sections: about to fetch, with the body
in hand, about to look up again, about to check. `clock` is time; a fetch ends
within `Timeout`, since its context has that deadline. Hydra (external) rotates at
any time. `since`, `until`, `snap`, `cacheSnap`, `attempt` are history.

**Process.** `server[s]`, `handler[r]`, `op[r]`, `worker[r]` and the positions of
`main` and of the shutdown goroutine. `Shutdown` follows the goroutine of `serve.go`
call by call: internal server, public server, data plane (with a timeout that cuts
nobody off), workers (with a timeout). `Kill` is a death without any of it.
What a handler or worker does is left to the other modules.

## 3. Runs

| run | what it asks | result |
|---|---|---|
| `Store` | safety of the store, any client | holds |
| `Workers` | deletes of one registry racing each other, an update, a push, a create of the same name; a repository deleted and created again; failures and crashes throughout | holds; refines `RegistryLife` |
| `Overlays` | four writers of one overlay; a rename of two tags against pushes and an overlay under its new name; failures and crashes | holds |
| `Finish` | every kind of repository request in pairs; the store's specification as a property; liveness | holds |
| `DataPlane` | first push, push after a delete, two tenants with a mount; pulls, failures, TTLs, revocation and one crash at any moment | holds |
| `Relay` | three transactions on one repository, racing and rolling back, and two replicas that relay their rows; failures, lost answers, poison, a death | holds; every row settles |
| `Jwks` | two callers, rotations, slow, failed and overlapping fetches | holds |
| `Listing` | a client pages through each kind of list while others change it | holds; paging ends |
| `Shutdown` | RPCs and data-plane requests before and during a shutdown; hanging workers and pulls | holds; the process ends |
| `StaleRename` | visibility flipped after a rename has read it | grant and row disagree |
| `LastTag` | DeleteTag on a durable repository that then has no tags | unregistered although durable |
| `TwoLocks` | overlay writer against repository intent | ids against commit order |

**Bounds.** `Store`: two registries, one repository, two names and label sets,
five intents (`MaxOutbox`); a live-name collision, an update, a delete and an
overlay in a deleted registry all fit in four. Ids, names and labels are
interchangeable there, hence the symmetry. The `ControlPlane` runs fix the
requests (`Inbox`, a set of choices built from the scenarios of
`MCControlPlane`) and leave every interleaving, failure and crash open: four or
five requests, of which the first creates the registry, so three or four race.
The properties relate one repository, or a pair of names, to at most three
writers. Two tags are needed for a rename to stop between two copies.
`MaxOutbox = 16` is never reached in them. The runs that show a violation use
`FaultFreeSpec`: no failure is needed. `DataPlane`: five requests in
three scenarios of `MCDataPlane`, one tag and two digests, at most one crash;
subjects whose access was revoked do not get it back. Two pulls and one push
are what the grant properties take, two tenants and three repositories what a
mount takes. The cache is that of one replica. A request whose first call fails
is one that was never made. `Relay`: a first push (two tuples),
a removal and a push again on one repository, in any order of commits; two
attempts per row, so that a row can fail, be retried and be exhausted; one death.
`Jwks`: one kid and one key that come and go; TTL, throttle window and fetch
timeout are two ticks each and the clock runs for five, so that a cache expires, a window
passes and two fetches overlap; a `max-age` below and one above the limit, which
is clamped. Callers are interchangeable, hence the symmetry. `Listing`: three names, pages of
one or two, two changes and one failure between any reads: a list needs two pages to
be disturbed between them, and a name before and one after the disturbance.
`Shutdown`: an admin RPC, two public ones, a push and a pull; the order of
`serve.go` has four waits and every request can fall into each.
`CHECK_DEADLOCK FALSE` is set where a system in which every request has been
answered may stop.

**Fairness.** `Fairness` is weak fairness of each worker that has started: a
goroutine whose next call is possible makes it, and each call returns, because
the engine's client, iam's client and the worker's context carry deadlines.
Requests need not arrive, calls need not fail, processes need not die; but they
may, so `OperationsFinish` says "ok, error or dead". `FairRelay` is weak fairness of
each replica's drainer: it polls for as long as the process lives, and a call of
iam ends by answer or deadline; rows need not be written. In `Listing` the service
answers a request that was made and the client asks for the next page.
`Process` assumes that the goroutines of `main` run and that RPC handlers return;
nothing of workers, pushes and pulls, which may hang. So `ShutdownEnds` rests on the
timeouts of the code where it has them (data plane, workers) and, for the two gRPC
servers, on handlers that return: `GracefulStop` has no timeout, and a hanging RPC would
keep the process.

**Disagreements found.**

1. *`StaleRename`.* `doRename` builds intents from the overlay read before the
   engine calls (`rename_repository.go:79`, `:108`) while `RekeyConfig` keeps
   the row's present visibility. In TLC's trace the flip comes right after the reading,
   before the first call of the engine, and no tag exists; one during the copies does
   the same. The same stale read unregisters an old name
   under which a durable repository was created meanwhile.
2. *`LastTag`.* `unregisterRepoIfEmpty` (`deletetag.go:85`) asks whether the
   repository has tags, not whether it is durable. The tag that was to be deleted need not
   have been there: deleting an absent one succeeds (`distribution.go:69`) and the same
   question follows. TLC's shortest trace has no push, it creates the repository
   and deletes a tag nobody pushed; after a push and the deletion of its tag the state is
   the same. A promotion that races with DeleteRepository
   leads to the same state: it inserts the row again and registers only a grant.
3. *`TwoLocks`.* `runConfigTx` and `emitRepoIntent` write intents of one
   repository under different locks, against the comment at `registry.go:344`.

Other windows are visible in the models and have no run:

- `doDelete` of a registry (`delete.go:113`) queues the registry's intent only.
  Overlays go by `ON DELETE CASCADE` (migration 0005, line 25); a PUBLIC one leaves its anonymous
  grant as the last word, against "visibility=PUBLIC ⟺ tuple"
  (`fga_intent.go:80`);
- `known-divergences.md:102` says that the next push registers a repository that
  a racing DeleteTag unregistered; `servePush` registers only when the engine
  knew no tag (`handler.go:423`, `:477`);
- `register_applier.go:109` does not send the row's `source_version`, which migration 0002
  (lines 8-11) and `pg/registry.go:342` rely on for "last source state wins". A
  row retried after a newer one of its object was sent is the last word in
  iam. `LastCommitWins` and `OwnerHasPlace` exempt tuples that were overtaken; without
  the exemption TLC reports the first in 13 steps;
- inside the throttle window a known kid is served from a cache of any age
  (`verifier.go:216`), against the bounded TTL of `:16-19` and `:183-185`: while fetches
  fail, a retired key stays accepted. `RetiredKeyLapses` exempts lookups made while the last
  fetch is under way or has failed;
- an overlay row appended to the first page is shown again by the engine window
  that has its repository, against `registry.go:272-274` of the use case ("not to be
  duplicated between pages"). `RepeatsOnlyAppended` bounds the repetition;
- the offset cursor (`namepage.go:64`) skips a repository when one before it
  leaves the engine's list between two pages. `OffsetReachesAll` exempts that;
- a push between the emptiness check and the deletion of an overlay
  (`delete_repository.go:58`, whose comment at `:24` claims to avoid it);
- a rename that failed half-way and whose retry is refused because its new name
  is no longer free;
- a pull answered 404 although its caller has pushed: the check denies, access
  materialises, another pull of the same caller is allowed and deletes the
  grant, and then the first one asks for the grant (`handler.go:340`, `:387`).
  `PusherPulls` exempts pulls during which access materialises for this reason;
- a push to a repository whose access has long materialised records a grant
  again (`handler.go:471`); if access is revoked before the next allowed pull,
  the grant opens the repository until its TTL. `RevokedStaysOut` speaks of
  callers who have not pushed since their grant was deleted;
- a first manifest that zot took and whose registration was lost: the repository
  exists from then on, so later pushes neither register it nor pass the check
  of `v_update`;
- a layer that was mounted, or whose negative verdict is cached, is not found by
  the scope check until a manifest names it and the entry has expired.

The comment at `handler.go:552` says a denied mount answers 404; the code
answers 403.

## 4. Proofs

| theorem | statement |
|---|---|
| `StoreInvariant` | `StoreSpec => []IInv` |
| `StoreTypes`, `OverlaysNeedRegistry`, `NamesUnique`, `ToldOnce`, `MirrorIsRow` | the invariants of run `Store`, for all constants |
| `DeletingTerminal` | the action property of run `Store` |
| `LocksOrderIds` | `Spec => [](TypeOK /\ LockOrder)`: ids under one lock follow its commits |
| `IdsInCommitOrder` | if transactions on one object share a lock (`Disciplined`), ids follow commits |
| `DataPlaneTypes` | `DPSpec => []DPTypeOK` |
| `TenantConfinement` | `DPSpec => []ConfinedToTenant`, for all tenants and requests |
| `RevokedAreOut`, `PushersFind`, `UploadsReadable` | `RevokedStaysOut`, `PusherPulls`, `AckedUploadIsVisible`: the other invariants of run `DataPlane`, for all requests |
| `ControlPlaneTypes` | `CPSpec => []CPTypeOK`, for any set of requests |
| `UseCasesAreTransactions` | `CPSpec => StoreSpec`: whatever holds for `RegistryStore` holds under the use cases |
| `RegistriesLiveOnce` | `CPSpec => Life!Spec`: the use cases implement `RegistryLife` |
| `DeleteOk` | `CPSpec => []DeleteOkMeansGone` |
| `TagsStayAddressable`, `OverlayLast` | `RenameKeepsAddressable` and `OverlayMovesLast`, under `TargetLeftAlone` and (the first) `SourceLeftAlone` |
| `LiveGrantsFollow`, `GrantsFollow` | `[]GrantsOfLive`: `GrantFollowsVisibility` of the registries that were not deleted, under `RenamesInTurn`; of all, where no request deletes one (`NoRegistryDeleted`) |
| `DurablesKept`, `DurableRegistered` | `[]DurableKept`: `DurableStaysRegistered` of the repositories no tag was deleted from, under `RenamesInTurn`, `UpdatesInTurn` and `AdmitsByLastWord`; of all, where no request deletes a tag of a durable one (`DurableTagsSpared`) |
| `DurablesAreAnnounced` | `CPSpec => []DurableAnnounced`: a repository with an overlay row was announced to iam, with no condition |
| `ContentIsAnnounced` | `[]ContentAnnounced`: so was one with content, or that is under way, under `IntentsCommit` |
| `ContentIsNotForgotten` | `[]ContentNotForgotten`: iam was not told last that it has gone, under `FillsInTurn` and `IntentsCommit` |
| `ListingTypes`, `KeysetOnce`, `OffsetReaches`, `DurableAreListed`, `RepeatsAppended` | the invariants of run `Listing`, for all names, page sizes, changes and failures |
| `RelayImplementsCommit` | `RelaySpec => Spec` of `OutboxCommit` |
| `RelayTypes`, `SentIsApplied`, `OwnersArePlaced` | three invariants of run `Relay`, for all transactions, replicas and numbers of attempts |
| `LastCommitReachesIam` | `LastCommitWins`, if transactions on one object share a lock (`Disciplined`) |
| `JwksTypes`, `RetiredKeysLapse`, `NewKeysPickedUp`, `FetchesAreSpaced` | the invariants of run `Jwks`, for all callers, keys and durations |
| `ProcessTypes`, `NoOperationLeft`, `NoRequestCut` | the invariants of run `Shutdown`, for all requests |

*Store.* `UnregisteredOnceWhenGone` and `MirrorFollowsRow` speak of the whole
queue and are not inductive: a step appends to it, and what it appends is right
only because of what the queue already holds. `IInv` adds that a row has been
announced (`RowsIssued`), that a registry announced and without a row has been
unregistered (`GoneIsTold`), and that the last intent about a registry carries
its row's labels (`LastIsRow`). Lemmas about appending one or two intents
(what `About` and the last position become) carry each case; the cases that
change no row share one lemma. Assumptions: `NoRow` is not a row, `NoRepo` not a
repository, `NoLabels` not a label set, `MaxOutbox` a natural number.

*Outbox.* Ids are drawn under the lock but commits come later, so the order of
commits is a fact about the lock: its holder has the largest id drawn under it
(`HolderIsLast`), and nobody else is between insert and commit
(`MutualExclusion`). `Disciplined` is the hypothesis that `TwoLocks` shows to be
false of the code as a whole and `Relay` satisfies: its rows are written under one advisory
lock.

*Data plane.* `DPTypeOK` is inductive once it says which handlers can be at
which call (`PcOfKind`). `ConfinedToTenant` speaks of answers; `Scoped` is what
carries it from one call to the next: iam allows members only (`IamScoped`),
a digest is stored in a repository only if its tenant uploaded it somewhere
(`StoreScoped`), manifests, pending rows and positive verdicts speak of stored
digests only, grants are held by members, and a handler about to make a call has
established what the call rests on (`ConnScoped`). Blobs are never unstored and
history only grows (`Grows`), so a reading that has become stale is still a
reading of the caller's tenant. The mount is the one step that needs
`TenantAssumption` (registries that share a member share all of them): a person
in two tenants may carry a layer from one to the other, which is their right and
would make the statement false. The proof also rests on the two facts about zot
named in section 2.

The three promises about pulls have an invariant each, all on top of the types.
`RevokeInv`: where a grant was dropped and nothing pushed since, there is no fresh
grant *and no push of that subject under way* (`ClosedMeansNoGrant`; a push on its
way past the check would still record one), and iam does not give back what was
revoked (`RevokedIsOut`); a pull begun then can only stand before the question
for the grant. `PusherInv`: a pusher holds the grant or is allowed (`PusherHolds`), which
survives the detached delete because that is started by allowed pulls only
(`DropsAfterAccess`) and an access once given ends only by a revocation; a pull that
was denied and is about to ask for the grant finds it (`LetIn`) unless access
materialised or ended meanwhile, and then the promise is void. `UploadInv`: an acknowledged
upload has its row (`AckedIsPending`: the 201 is sent after the insert), so the two
places that ask for the row say yes, and the way around them, to the question for the grant, is taken
by members only when the repository has got a manifest (`Reaches`).

*Use cases.* The base is `UseCasesAreTransactions`: each action of `ControlPlane` is
one transaction of `RegistryStore` or leaves the store alone, so `IInv` of the store is an
invariant here (`CPInv` adds the types of the workers, and that a worker is at a call of its own
program). For deletes, `DeletesInformed` carries what a worker learned in one call to the
next: a registry found not ACTIVE never becomes ACTIVE, one found gone never
comes back. `DeleteOkMeansGone` follows, and the refinement of `RegistryLife` uses it for the
removal, which is the only step that may unannounce. For renames, `CopiedSoFar` says
that what is not left to copy is under the new name, `ListedStays` that
until all is copied nothing has left the old one. The two statements about what iam
was told last look at the last intent about a repository, so each transaction needs a
lemma on what its intents say about which repository; a rename's intents are
computed from the overlay it read several calls before, and `OverlayRemembered`
says that what it read still is the row, or that the row has gone. `InTurnSteady` derives the
step that keeps it from `RenamesInTurn`: whoever writes a visibility is a request on that name
and not over. `LiveGrantsFollow` says of every other request that it may do what it likes; a
deleted registry never comes back (`GoneStay`), so what its cascade left behind is out of the
statement for good. `DurablesKept` needs besides that an update under way is about a
repository iam knows (`UpdatesKnown`). It goes through the ways to unregister a repository:
DeleteRepository and a rename take the row in the same transaction, and DeleteTag shows in
`TagDeleted`.

Three more statements say what iam knows of repositories, durable or not. They are
defined in `ControlPlane_proofs`, are proved, and belong to no run. `DurablesAreAnnounced` needs no
condition: CreateRepository, a rename and a first push queue a register intent
themselves, and a promotion, which registers nothing but the grant, is let in only for a
repository that has been announced (`UpdatesAnnounced`). `ContentIsAnnounced` speaks of
tags: a push that will not announce found the repository there and was therefore
admitted by a check on it (`PushesInformed`), and a rename copies what it listed
(`LeftIsListed`), so that the new name is either announced by its transaction or belongs to a rename
that has not come to its end (`Rehomes`). In `ContentIsNotForgotten` the question is who unregisters:
DeleteTag, DeleteRepository, and a rename for its old name, each for its own
repository only (`ForgottenBy`), and each some calls after it looked. `SeenHolds` says that what
they saw is still so: a worker about to unregister saw no tags or took them away, and there
are none; a push that was told the repository is there still finds tags.

**Hypotheses.** The service does not fence off the requests on one repository from
each other, so some of these statements are false of arbitrary requests, as the
violation runs and section 3 show. The theorems say for which requests they hold. The
hypotheses speak of requests and of the environment, never of the overlay, of
content, or of what a worker read; the code enforces none of them.

Of clients that wait for an Operation (`UnderWay`: accepted, and neither finished nor dead)
before they make the next request on the same name:

- `RenamesInTurn`: nobody creates, updates or renames onto the old name of a rename that is under
  way. All else may race with it, also on the new name. `StaleRename` breaks it.
- `UpdatesInTurn`: nobody deletes a tag of, deletes or renames away a repository while an update
  of it is under way.
- `FillsInTurn`: no push to a repository, and no rename onto it, is under way
  together with a DeleteTag, DeleteRepository or rename of it. These are the
  windows of `known-divergences.md` 3 and `delete_repository.go:58`.

Of the set of requests:

- `TargetLeftAlone`, `SourceLeftAlone`: no DeleteTag and no
  other rename takes tags from the new, or the old, name of a rename. A client may well
  delete a tag that a rename has just copied; nothing fences that off, and then the
  tag is gone as asked. Pushes, overlay writers, deletes, failures and deaths are not
  restricted.
- `NoRegistryDeleted` (`GrantsFollow` only): a registry that goes under a PUBLIC overlay row leaves its
  grant (second list of section 3). `LiveGrantsFollow` does without.
- `DurableTagsSpared` (`DurableRegistered` only): no request deletes a tag of a repository that some request
  makes durable. `LastTag` breaks it. `DurablesKept` does without.

Of the environment:

- `AdmitsByLastWord`: iam lets an update through only while its last word on the repository is not
  "unregister". The guard of the model asks less, that the repository was announced at some
  time, because iam may not have heard the last word yet.
- `IntentsCommit`: the transaction of a push's intent, after zot took the manifest, does not fail and
  the process does not die before it. The comment at `handler.go:482` accepts that loss. No other
  call and no other moment is restricted.

`RenamesInTurn`, `UpdatesInTurn`, `FillsInTurn`, `AdmitsByLastWord` and `IntentsCommit` are
each needed: with any one of them dropped TLC finds a violation of `GrantsOfLive`,
`DurableKept` or `ContentNotForgotten` within a few requests; with all of them
the same searches, of one to two million states, find none.

*Listing.* `LInv` says what the cursor means. For a keyset (`KeysetDivides`): names up to the
cursor have been shown, once if entitled, the others not at all, and a window that was read
has everything steady between the cursor and the next one. For an offset (`OffsetMissesNone`): a
steady repository was shown, is in the window, or its position is not below the
cursor, since without removals positions only grow; without additions they only
shrink, so what was shown stays behind the cursor (`OffsetRepeatsNone`). Positions are
cardinalities of sets of smaller entries, and the lemmas about them are those of
`FiniteSetTheorems`. That the first page takes the overlay rows (`FirstPageTakesOverlay`)
gives `DurableListed`.

*Relay.* `RInv` extends the invariant of the writers. `SentMeansApplied` needs that
the tuples before `pos` of a claimed row are confirmed (`Confirmed`) and that a
row has one claimant (`ClaimsHeld`). `OwnerHasPlace` and `LastCommitWins` are not
inductive and follow from what is said of `newest`: it is 0 or the id of a
committed row that iam was called with, and unless the tuple was overtaken iam
holds what that row says (`NewestActs`); it is not below the id of a row that was
confirmed (`AckedIsKnown`). For owners, a row that drops a place drops the owner
in the same call, and a row that names an owner has named the place before
(`PlaceAndOwner`): an owner without a place would make two rows with one id.
For the last commit, ids under one lock follow commits (`LockOrder`), so the row
behind `newest` is the last one committed. Assumptions: an intent about a registry is
written by a registry transaction, which names no repository; the ones about iam
in section 2.

*JWKS.* `JInv` adds the ages: a fetch under way is at most `Timeout` old (`Flights`,
from the deadline of its context), so the cache is stored at most `Timeout` after Hydra composed it
(`CacheAge`), also when an overtaken fetch stores last; its contents were published at that moment
and differ from what is published now only where something changed since
(`Contents`). If the fetch of the last slot stored its answer, the cache is not
older than that slot, which bounds what is served while lookups are throttled.

*Process.* `OperationsDrained` and `AcceptedIsAnswered` speak of the end only. While
the process lives, `Orderly` says that a stopped server has no handler left,
that servers are stopped in order, that an undone Operation has a
handler or a worker, and that no worker runs once the wait for them is over. The
step that matters is `Run`: it cannot happen after that wait, because its handler
belongs to a gRPC server that had to drain first. `ProcessAssumption`: a request
belongs to one server.

*Only model-checked:* the four liveness properties `OperationsFinish`, `RowsSettle`,
`ListingEnds` and `ShutdownEnds` (liveness under fairness is out of this prover's reach),
and the three runs that end in a violation. Conversely, the three statements about
what iam knows of repositories, `GrantsOfLive` and `DurableKept` are proved and not part of a run. Every invariant and action
property of the other runs is stated by a theorem above.

## 5. Left out

- Validation, field masks of descriptive fields, overlay labels and
  descriptions, response bodies, logging.
- Who holds which relation: a check is reduced to what must precede it.
- Manifests and digests in `ControlPlane`: each tag has a manifest of its own.
  What zot does to the other tags of a digest that is deleted is not in this
  repository, so a model of it would check an assumption.
- The operations package, the drainer's loop, iam, Hydra and zot are external and
  modelled from how the code uses them. In `DataPlane` iam grants access at some
  later time; how it gets there is `OutboxRelay`.
- In `DataPlane`: path parsing, upload sessions before their finalizing request,
  collection of garbage by the engine.
- In `JwksCache`: decoding of segments and arithmetic of signatures; a token has
  a signer.
- In `Listing`: the encoding of tokens, fields of a row; `ListOperations`, which
  kacho-corelib pages.
- Start-up wiring, configuration, the migrator: sequential, without state of their own.
- `TriggerGC`, `Stats`, `ListReferrers`: no state of this service.

## 6. Open

1. What a retried rename promises: the code does not say how one that failed half-way is
   resumed, so there is nothing to state yet.
2. That `LiveGrantsFollow` and `DurablesKept` compose with the relay: what
   `ControlPlane` writes last is what iam holds, where rows are not overtaken.
3. The push of `DataPlane` as a refinement of the push of `ControlPlane`; they model the same
   handler for different questions.
