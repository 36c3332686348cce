----------------------------- MODULE DataPlane -----------------------------
(***************************************************************************)
(* The OCI data plane (internal/dataplane/handler.go): blob uploads,       *)
(* manifest pushes, cross-repository mounts and pulls, over the storage    *)
(* engine, the check of iam, and the three memories that bridge them:      *)
(*   pending   uploads no manifest names yet (registry_pending_blob),      *)
(*   grants    who has just pushed a repository (registry_push_grant),     *)
(*   verdict   the cache of BlobInRepo in the zot client.                  *)
(*                                                                         *)
(* A request is one HTTP request; one action is one call it makes to the   *)
(* engine, to iam or to Postgres with the branch taken on its result.      *)
(* Each call may fail, and the process may die once (then all requests,    *)
(* all detached deletes and the cache are gone, the tables are not).       *)
(* Time is whether an entry has passed its TTL.                            *)
(*                                                                         *)
(* A repository is a full name <registry>/<repo>.  Left out: the token     *)
(* check and path parsing before the handlers, the catalog, upload         *)
(* sessions before their finalizing PUT, bodies and headers.               *)
(***************************************************************************)
EXTENDS Naturals, FiniteSets

CONSTANTS
  Repo, Subject, Digest, Tag,
  Member,   \* Member[n]: who may push new repositories into the registry of n
  Conn,     \* request ids
  Inbox     \* the requests that may arrive together: functions from Conn

ASSUME MemberAssumption == Member \in [Repo -> SUBSET Subject]

\* Tenants are disjoint: registries that share a member share them all.
ASSUME TenantAssumption ==
  \A m, n \in Repo : Member[m] \intersect Member[n] # {} => Member[m] = Member[n]

Request ==
  [kind : {"Upload", "GetBlob"}, repo : Repo, subject : Subject, digest : Digest] \union
  [kind : {"Mount"}, repo : Repo, from : Repo, subject : Subject, digest : Digest] \union
  [kind : {"PutManifest"}, repo : Repo, subject : Subject, tag : Tag,
   layers : SUBSET Digest] \union
  [kind : {"GetManifest"}, repo : Repo, subject : Subject, tag : Tag] \union
  [kind : {"DeleteTag"}, repo : Repo, tag : Tag]

\* A manifest names at least its config: {} stands for no manifest.
ASSUME RequestsAssumption ==
  /\ Inbox \subseteq [Conn -> Request]
  /\ \A q \in Inbox, c \in Conn : q[c].kind = "PutManifest" => q[c].layers # {}

VARIABLES
  stored,     \* stored[n]: blobs uploaded or mounted into n (engine)
  tags,       \* tags[n][t]: layers and config of the tagged manifest (engine)
  pending,    \* pending[n][d]: the row of registry_pending_blob
  grants,     \* grants[n][s]: the row of registry_push_grant
  verdict,    \* verdict[n][d]: the cached answer of BlobInRepo
  announced,  \* repositories whose registration was queued for iam
  allowed,    \* allowed[n]: who iam allows v_get, v_list and v_update on n
  drops,      \* requests whose detached DeletePushGrant is still to come
  req, pc, loc,
  answer,     \* answer[c]: what the client was told
  crashed,
  past        \* history, for the properties only

engineVars == <<stored, tags>>
tableVars == <<pending, grants>>
iamVars == <<announced, allowed>>
vars == <<engineVars, tableVars, iamVars, verdict, drops, req, pc, loc, answer, crashed, past>>

Age == {"none", "fresh", "stale"}

Calls ==
  {"exists", "check", "forward", "record", "grant", "register",
   "source", "scope", "remember", "pushContext", "uploaded", "bridge", "pending"}

Answers ==
  {"none", "accepted", "served",  \* 2xx of a push, 200 of a pull
   "hidden", "denied",            \* 404 and 403 of the handler itself
   "refused",                     \* what zot answered was not 2xx
   "unavailable", "lost"}         \* 503; the process died

Local ==
  [exists : BOOLEAN,   \* RepoExists said so
   may    : BOOLEAN,   \* v_get on the repository pulled or mounted from
   in     : BOOLEAN]   \* the scan found the digest

Past ==
  [uploads     : SUBSET (Repo \X Digest),     \* blobs uploaded, by whomever
   acked       : SUBSET (Repo \X Digest),     \* ... with 201, the row within its TTL
   established : SUBSET Repo,                 \* had a manifest at some time
   pushed      : SUBSET (Repo \X Subject),    \* holds a grant, or v_get since
   revoked     : SUBSET (Repo \X Subject),
   closed      : SUBSET (Repo \X Subject),    \* grant dropped and no push since
   seesUpload  : SUBSET Conn,    \* pulls begun while acked, while pushed, while
   seesPush    : SUBSET Conn,    \* closed and revoked, and that to this moment
   seesNothing : SUBSET Conn]

DPTypeOK ==
  /\ stored \in [Repo -> SUBSET Digest]
  /\ tags \in [Repo -> [Tag -> SUBSET Digest]]
  /\ pending \in [Repo -> [Digest -> Age]]
  /\ grants \in [Repo -> [Subject -> Age]]
  /\ verdict \in [Repo -> [Digest -> {"unknown", "in", "out"}]]
  /\ announced \subseteq Repo
  /\ allowed \in [Repo -> SUBSET Subject]
  /\ drops \subseteq {c \in Conn : req[c].kind \in {"GetBlob", "GetManifest"}}
  /\ req \in [Conn -> Request]
  /\ pc \in [Conn -> Calls \union {"new", "done"}]
  /\ loc \in [Conn -> Local]
  /\ answer \in [Conn -> Answers]
  /\ crashed \in BOOLEAN
  /\ past \in Past
  /\ \A c \in Conn : pc[c] = "done" <=> answer[c] # "none"

DPInit ==
  /\ stored = [n \in Repo |-> {}]
  /\ tags = [n \in Repo |-> [t \in Tag |-> {}]]
  /\ pending = [n \in Repo |-> [d \in Digest |-> "none"]]
  /\ grants = [n \in Repo |-> [s \in Subject |-> "none"]]
  /\ verdict = [n \in Repo |-> [d \in Digest |-> "unknown"]]
  /\ announced = {}
  /\ allowed = [n \in Repo |-> {}]
  /\ drops = {}
  /\ req \in Inbox
  /\ pc = [c \in Conn |-> "new"]
  /\ loc = [c \in Conn |-> [f \in {"exists", "may", "in"} |-> FALSE]]
  /\ answer = [c \in Conn |-> "none"]
  /\ crashed = FALSE
  /\ past = [f \in {"uploads", "acked", "established", "pushed", "revoked", "closed",
                    "seesUpload", "seesPush", "seesNothing"} |-> {}]

-----------------------------------------------------------------------------
Is(c, kind) == req[c].kind = kind

At(c, call) == pc[c] = call

Go(c, to) == pc' = [pc EXCEPT ![c] = to] /\ UNCHANGED answer

Answer(c, a) == pc' = [pc EXCEPT ![c] = "done"] /\ answer' = [answer EXCEPT ![c] = a]

\* The branch of a handler: on to the next call, or an answer.
GoOr(c, condition, to, a) == IF condition THEN Go(c, to) ELSE Answer(c, a)

\* The engine keeps blobs content-addressed: a digest stored anywhere is
\* found from everywhere.  Its manifests name only blobs of their repository.
EngineHas(d) == \E n \in Repo : d \in stored[n]

RepoExists(n) == \E t \in Tag : tags[n][t] # {}

InManifests(n, d) == \E t \in Tag : d \in tags[n][t]

\* The rows of both tables: an upsert refreshes a row, and a row past its TTL
\* is as good as none.
Recorded(table, n, key) == [table EXCEPT ![n][key] = "fresh"]

BlobUploaded(n, d) == pending[n][d] = "fresh"

PushGranted(n, s) == grants[n][s] = "fresh"

DeletePushGrant(n, s) == [grants EXCEPT ![n][s] = "none"]

\* checkAllowed of the push verb: v_update on the repository if it exists,
\* else v_create on its registry.
MayPush(s, n, exists) == IF exists THEN s \in allowed[n] ELSE s \in Member[n]

\* History: what a pull that begins now has been promised.
NotePull(c) ==
  LET key == <<req[c].repo, req[c].subject>>
      If(condition) == IF condition THEN {c} ELSE {}
  IN past' = [past EXCEPT
       !.seesUpload = @ \union
          If(Is(c, "GetBlob") /\ <<req[c].repo, req[c].digest>> \in past.acked),
       !.seesPush = @ \union If(key \in past.pushed \ past.revoked),
       !.seesNothing = @ \union If(key \in past.revoked \intersect past.closed)]

\* A push of s that may yet record a grant.
Pushing(n, s) ==
  \E p \in Conn : /\ Is(p, "PutManifest") /\ req[p].repo = n /\ req[p].subject = s
                 /\ pc[p] \notin {"new", "done"}

PullsOf(n, s) == {c \in Conn : req[c].kind \in {"GetBlob", "GetManifest"}
                               /\ req[c].repo = n /\ req[c].subject = s}

-----------------------------------------------------------------------------
(* servePush: uploads and manifests.                                       *)

PushExists(c) ==
  /\ At(c, "new")
  /\ req[c].kind \in {"Upload", "PutManifest"}
  /\ Go(c, "check")
  /\ loc' = [loc EXCEPT ![c].exists = RepoExists(req[c].repo)]
  /\ past' = IF Is(c, "PutManifest")
             THEN [past EXCEPT !.closed = @ \ {<<req[c].repo, req[c].subject>>},
                               !.seesNothing = @ \ PullsOf(req[c].repo, req[c].subject)]
             ELSE past
  /\ UNCHANGED <<engineVars, tableVars, iamVars, verdict, drops, req, crashed>>

PushCheck(c) ==
  /\ At(c, "check")
  /\ req[c].kind \in {"Upload", "PutManifest"}
  /\ GoOr(c, MayPush(req[c].subject, req[c].repo, loc[c].exists), "forward", "denied")
  /\ UNCHANGED <<engineVars, tableVars, iamVars, verdict, drops, req, loc, crashed, past>>

\* Mutant: a finalizing POST is streamed like any other push.
ForwardCaptureStreams(c) ==
  /\ Is(c, "Upload")
  /\ At(c, "forward")
  /\ Answer(c, "accepted")
  /\ stored' = [stored EXCEPT ![req[c].repo] = @ \union {req[c].digest}]
  /\ past' = [past EXCEPT !.uploads = @ \union {<<req[c].repo, req[c].digest>>},
                          !.acked = @ \union {<<req[c].repo, req[c].digest>>}]
  /\ UNCHANGED <<tags, tableVars, iamVars, verdict, drops, req, loc, crashed>>

\* forwardBlobFinalize: zot's answer is held back until the row is written.
ForwardCapture(c) ==
  /\ Is(c, "Upload")
  /\ At(c, "forward")
  /\ Go(c, "record")
  /\ stored' = [stored EXCEPT ![req[c].repo] = @ \union {req[c].digest}]
  /\ past' = [past EXCEPT !.uploads = @ \union {<<req[c].repo, req[c].digest>>}]
  /\ UNCHANGED <<tags, tableVars, iamVars, verdict, drops, req, loc, crashed>>

RecordUploadedBlob(c) ==
  /\ At(c, "record")
  /\ Answer(c, "accepted")
  /\ pending' = Recorded(pending, req[c].repo, req[c].digest)
  /\ past' = [past EXCEPT !.acked = @ \union {<<req[c].repo, req[c].digest>>}]
  /\ UNCHANGED <<engineVars, grants, iamVars, verdict, drops, req, loc, crashed>>

\* zot takes the manifest; its answer may be lost (ok = FALSE), and then
\* nothing is recorded.
ForwardManifest(c, ok) ==
  /\ Is(c, "PutManifest")
  /\ At(c, "forward")
  /\ req[c].layers \subseteq stored[req[c].repo]
  /\ GoOr(c, ok, "grant", "refused")
  /\ tags' = [tags EXCEPT ![req[c].repo][req[c].tag] = req[c].layers]
  /\ past' = [past EXCEPT !.established = @ \union {req[c].repo}]
  /\ UNCHANGED <<stored, tableVars, iamVars, verdict, drops, req, loc, crashed>>

\* A failure to record is logged, and the push goes on (ok = FALSE).
RecordPushGrant(c, ok) ==
  LET n == req[c].repo
      s == req[c].subject
  IN /\ At(c, "grant")
     /\ GoOr(c, ~loc[c].exists, "register", "accepted")
     /\ IF ok
        THEN /\ grants' = Recorded(grants, n, s)
             /\ past' = [past EXCEPT !.pushed = @ \union {<<n, s>>}]
        ELSE UNCHANGED <<grants, past>>
     /\ UNCHANGED <<engineVars, pending, iamVars, verdict, drops, req, loc, crashed>>

\* Register on first push.  A failed transaction, or an intent without the
\* registry's project (its lookup failed), is logged and leads to no access.
RegisterRepository(c, ok) ==
  /\ At(c, "register")
  /\ Answer(c, "accepted")
  /\ announced' = IF ok THEN announced \union {req[c].repo} ELSE announced
  /\ UNCHANGED <<engineVars, tableVars, allowed, verdict, drops, req, loc, crashed, past>>

-----------------------------------------------------------------------------
(* BlobInRepo: the cached verdict, or a scan of the tags and then the cache. *)

ScopeRepo(c) == IF Is(c, "Mount") THEN req[c].from ELSE req[c].repo

\* serveBlobScoped asks for a pending row next; serveMount does not.
AfterScope(c, in) ==
  IF in THEN Go(c, "forward") ELSE GoOr(c, Is(c, "GetBlob"), "pending", "hidden")

ScopeCached(c) ==
  /\ At(c, "scope")
  /\ verdict[ScopeRepo(c)][req[c].digest] # "unknown"
  /\ AfterScope(c, verdict[ScopeRepo(c)][req[c].digest] = "in")
  /\ UNCHANGED <<engineVars, tableVars, iamVars, verdict, drops, req, loc, crashed, past>>

ScanTags(c) ==
  /\ At(c, "scope")
  /\ verdict[ScopeRepo(c)][req[c].digest] = "unknown"
  /\ Go(c, "remember")
  /\ loc' = [loc EXCEPT ![c].in = InManifests(ScopeRepo(c), req[c].digest)]
  /\ UNCHANGED <<engineVars, tableVars, iamVars, verdict, drops, req, crashed, past>>

RememberVerdict(c) ==
  /\ At(c, "remember")
  /\ AfterScope(c, loc[c].in)
  /\ verdict' = [verdict EXCEPT ![ScopeRepo(c)][req[c].digest] =
                   IF loc[c].in THEN "in" ELSE "out"]
  /\ UNCHANGED <<engineVars, tableVars, iamVars, drops, req, loc, crashed, past>>

-----------------------------------------------------------------------------
(* serveMount: v_get on the source, the push verb on the target, and the    *)
(* digest in a manifest of the source.                                      *)

MountSource(c) ==
  /\ Is(c, "Mount")
  /\ At(c, "new")
  /\ Go(c, "exists")
  /\ loc' = [loc EXCEPT ![c].may = req[c].subject \in allowed[req[c].from]]
  /\ UNCHANGED <<engineVars, tableVars, iamVars, verdict, drops, req, crashed, past>>

MountExists(c) ==
  /\ At(c, "exists")
  /\ Go(c, "check")
  /\ loc' = [loc EXCEPT ![c].exists = RepoExists(req[c].repo)]
  /\ UNCHANGED <<engineVars, tableVars, iamVars, verdict, drops, req, crashed, past>>

MountCheck(c) ==
  /\ Is(c, "Mount")
  /\ At(c, "check")
  /\ GoOr(c, loc[c].may /\ MayPush(req[c].subject, req[c].repo, loc[c].exists),
          "scope", "denied")
  /\ UNCHANGED <<engineVars, tableVars, iamVars, verdict, drops, req, loc, crashed, past>>

ForwardMount(c) ==
  /\ Is(c, "Mount")
  /\ At(c, "forward")
  /\ IF EngineHas(req[c].digest)
     THEN /\ Answer(c, "accepted")
          /\ stored' = [stored EXCEPT ![req[c].repo] = @ \union {req[c].digest}]
     ELSE Answer(c, "refused") /\ UNCHANGED stored
  /\ UNCHANGED <<tags, tableVars, iamVars, verdict, drops, req, loc, crashed, past>>

-----------------------------------------------------------------------------
(* Pulls: serveBlob and servePullOnly.  An allowed check starts the        *)
(* detached delete of the grant; a denied one may be bridged.              *)

PullAllowed(c) ==
  /\ At(c, "new")
  /\ req[c].kind \in {"GetBlob", "GetManifest"}
  /\ req[c].subject \in allowed[req[c].repo]
  /\ Go(c, IF Is(c, "GetBlob") THEN "scope" ELSE "forward")
  /\ loc' = [loc EXCEPT ![c].may = TRUE]
  /\ drops' = drops \union {c}
  /\ NotePull(c)
  /\ UNCHANGED <<engineVars, tableVars, iamVars, verdict, req, crashed>>

PullDenied(c) ==
  /\ At(c, "new")
  /\ req[c].kind \in {"GetBlob", "GetManifest"}
  /\ req[c].subject \notin allowed[req[c].repo]
  /\ Go(c, IF Is(c, "GetBlob") THEN "pushContext" ELSE "bridge")
  /\ NotePull(c)
  /\ UNCHANGED <<engineVars, tableVars, iamVars, verdict, drops, req, loc, crashed>>

\* pushContextRevealsBlob: no manifest yet, and the caller may push here.
PushContext(c) ==
  /\ At(c, "pushContext")
  /\ Go(c, IF ~RepoExists(req[c].repo) /\ req[c].subject \in Member[req[c].repo]
           THEN "uploaded" ELSE "bridge")
  /\ UNCHANGED <<engineVars, tableVars, iamVars, verdict, drops, req, loc, crashed, past>>

PushContextUploaded(c) ==
  /\ At(c, "uploaded")
  /\ Go(c, IF BlobUploaded(req[c].repo, req[c].digest) THEN "forward" ELSE "bridge")
  /\ UNCHANGED <<engineVars, tableVars, iamVars, verdict, drops, req, loc, crashed, past>>

\* Mutant: the grant opens every blob the engine has.
PushOwnerUnscoped(c) ==
  /\ At(c, "bridge")
  /\ GoOr(c, PushGranted(req[c].repo, req[c].subject), "forward", "hidden")
  /\ UNCHANGED <<engineVars, tableVars, iamVars, verdict, drops, req, loc, crashed, past>>

\* Mutant: the grant is dropped when it is used, not when iam allows.
PushOwnerOnce(c) ==
  /\ At(c, "bridge")
  /\ GoOr(c, PushGranted(req[c].repo, req[c].subject),
          IF Is(c, "GetBlob") THEN "scope" ELSE "forward", "hidden")
  /\ drops' = drops \union {c}
  /\ UNCHANGED <<engineVars, tableVars, iamVars, verdict, req, loc, crashed, past>>

\* pushOwnerRevealsRepo: for a blob the repository's scope still applies.
PushOwner(c) ==
  /\ At(c, "bridge")
  /\ GoOr(c, PushGranted(req[c].repo, req[c].subject),
          IF Is(c, "GetBlob") THEN "scope" ELSE "forward", "hidden")
  /\ UNCHANGED <<engineVars, tableVars, iamVars, verdict, drops, req, loc, crashed, past>>

ScopedUpload(c) ==
  /\ At(c, "pending")
  /\ GoOr(c, BlobUploaded(req[c].repo, req[c].digest), "forward", "hidden")
  /\ UNCHANGED <<engineVars, tableVars, iamVars, verdict, drops, req, loc, crashed, past>>

ForwardPull(c) ==
  /\ At(c, "forward")
  /\ req[c].kind \in {"GetBlob", "GetManifest"}
  /\ Answer(c, IF \/ Is(c, "GetBlob") /\ EngineHas(req[c].digest)
                  \/ Is(c, "GetManifest") /\ tags[req[c].repo][req[c].tag] # {}
               THEN "served" ELSE "refused")
  /\ UNCHANGED <<engineVars, tableVars, iamVars, verdict, drops, req, loc, crashed, past>>

\* Mutant: the delete spares rows within their TTL, as the sweeper does.
DropPushGrantStaleOnly(c, ok) ==
  LET n == req[c].repo
      s == req[c].subject
  IN /\ c \in drops
     /\ drops' = drops \ {c}
     /\ grants' = IF ok /\ grants[n][s] = "stale" THEN DeletePushGrant(n, s) ELSE grants
     /\ past' = IF ok /\ ~Pushing(n, s) THEN [past EXCEPT !.closed = @ \union {<<n, s>>}] ELSE past
     /\ UNCHANGED <<engineVars, pending, iamVars, verdict, req, pc, loc, answer, crashed>>

\* The goroutine of dropPushGrantMaterialized, at some later time; a failed
\* delete is logged and leaves the row to its TTL.
DropPushGrant(c, ok) ==
  LET n == req[c].repo
      s == req[c].subject
  IN /\ c \in drops
     /\ drops' = drops \ {c}
     /\ grants' = IF ok THEN DeletePushGrant(n, s) ELSE grants
     /\ past' = IF ok /\ ~Pushing(n, s) THEN [past EXCEPT !.closed = @ \union {<<n, s>>}] ELSE past
     /\ UNCHANGED <<engineVars, pending, iamVars, verdict, req, pc, loc, answer, crashed>>

-----------------------------------------------------------------------------
(* Failures, time, and the services around.                                *)

\* Mutant: failClosed without the return after it.
FailClosedNoReturn(c) ==
  /\ pc[c] \notin {"new", "done", "grant", "register", "remember"}
  /\ answer' = [answer EXCEPT ![c] = "unavailable"]
  /\ UNCHANGED <<engineVars, tableVars, iamVars, verdict, drops, req, pc, loc, crashed, past>>

\* failClosed: a call on which the answer depends failed (among them the
\* write of the row for a blob zot has accepted), or zot did not say 2xx.  A
\* request whose first call fails is one that never came.
FailClosed(c) ==
  /\ pc[c] \notin {"new", "done", "grant", "register", "remember"}
  /\ Answer(c, IF At(c, "forward") THEN "refused" ELSE "unavailable")
  /\ UNCHANGED <<engineVars, tableVars, iamVars, verdict, drops, req, loc, crashed, past>>

Crash ==
  /\ ~crashed
  /\ crashed' = TRUE
  /\ pc' = [c \in Conn |-> IF pc[c] = "new" THEN "new" ELSE "done"]
  /\ answer' = [c \in Conn |-> IF pc[c] \in {"new", "done"} THEN answer[c] ELSE "lost"]
  /\ drops' = {}
  /\ verdict' = [n \in Repo |-> [d \in Digest |-> "unknown"]]
  /\ UNCHANGED <<engineVars, tableVars, iamVars, req, loc, past>>

AgePending(n, d) ==
  /\ pending[n][d] = "fresh"
  /\ pending' = [pending EXCEPT ![n][d] = "stale"]
  /\ past' = [past EXCEPT !.acked = @ \ {<<n, d>>},
       !.seesUpload = {c \in @ : req[c].repo # n \/ req[c].digest # d}]
  /\ UNCHANGED <<engineVars, grants, iamVars, verdict, drops, req, pc, loc, answer, crashed>>

\* Until access has materialised the grant is all a pusher has.
AgeGrant(n, s) ==
  /\ grants[n][s] = "fresh"
  /\ grants' = [grants EXCEPT ![n][s] = "stale"]
  /\ past' = IF s \in allowed[n] THEN past
             ELSE [past EXCEPT !.pushed = @ \ {<<n, s>>}, !.seesPush = @ \ PullsOf(n, s)]
  /\ UNCHANGED <<engineVars, pending, iamVars, verdict, drops, req, pc, loc, answer, crashed>>

Swept(age) == IF age = "stale" THEN "none" ELSE age

\* One tick of both sweepers: each deletes all rows past the TTL.
SweepStale ==
  /\ pending' = [n \in Repo |-> [d \in Digest |-> Swept(pending[n][d])]]
  /\ grants' = [n \in Repo |-> [s \in Subject |-> Swept(grants[n][s])]]
  /\ tableVars' # tableVars
  /\ UNCHANGED <<engineVars, iamVars, verdict, drops, req, pc, loc, answer, crashed, past>>

\* The entry passed blobCacheTTL, or was evicted to make room.
ForgetVerdict(n, d) ==
  /\ verdict[n][d] # "unknown"
  /\ verdict' = [verdict EXCEPT ![n][d] = "unknown"]
  /\ UNCHANGED <<engineVars, tableVars, iamVars, drops, req, pc, loc, answer, crashed, past>>

\* iam applies the registration: members of the project gain access.
Materialise(n, s) ==
  /\ n \in announced
  /\ s \in Member[n] \ allowed[n]
  /\ <<n, s>> \notin past.revoked
  /\ allowed' = [allowed EXCEPT ![n] = @ \union {s}]
  /\ past' = [past EXCEPT !.seesPush = @ \ PullsOf(n, s)]
  /\ UNCHANGED <<engineVars, tableVars, announced, verdict, drops, req, pc, loc, answer, crashed>>

Revoke(n, s) ==
  /\ s \in allowed[n]
  /\ allowed' = [allowed EXCEPT ![n] = @ \ {s}]
  /\ past' = [past EXCEPT !.revoked = @ \union {<<n, s>>}, !.seesPush = @ \ PullsOf(n, s)]
  /\ UNCHANGED <<engineVars, tableVars, announced, verdict, drops, req, pc, loc, answer, crashed>>

\* DeleteTag of the control plane: the blobs stay until the engine collects.
DeleteTag(c) ==
  /\ Is(c, "DeleteTag")
  /\ At(c, "new")
  /\ Answer(c, "accepted")
  /\ tags' = [tags EXCEPT ![req[c].repo][req[c].tag] = {}]
  /\ UNCHANGED <<stored, tableVars, iamVars, verdict, drops, req, loc, crashed, past>>

-----------------------------------------------------------------------------
PushStep(c) ==
  \/ PushExists(c) \/ PushCheck(c) \/ ForwardCapture(c) \/ RecordUploadedBlob(c)
  \/ \E ok \in BOOLEAN :
       ForwardManifest(c, ok) \/ RecordPushGrant(c, ok) \/ RegisterRepository(c, ok)

MountStep(c) ==
  MountSource(c) \/ MountExists(c) \/ MountCheck(c) \/ ForwardMount(c)

ScopeStep(c) == ScopeCached(c) \/ ScanTags(c) \/ RememberVerdict(c)

PullStep(c) ==
  \/ PullAllowed(c) \/ PullDenied(c) \/ PushContext(c) \/ PushContextUploaded(c)
  \/ PushOwner(c) \/ ScopedUpload(c) \/ ForwardPull(c)
  \/ \E ok \in BOOLEAN : DropPushGrant(c, ok)

TimePasses ==
  \/ \E n \in Repo, d \in Digest : AgePending(n, d) \/ ForgetVerdict(n, d)
  \/ \E n \in Repo, s \in Subject : AgeGrant(n, s)
  \/ SweepStale

DPNext ==
  \/ \E c \in Conn : \/ PushStep(c) \/ MountStep(c) \/ ScopeStep(c) \/ PullStep(c)
                     \/ DeleteTag(c) \/ FailClosed(c)
  \/ \E n \in Repo, s \in Subject : Materialise(n, s) \/ Revoke(n, s)
  \/ TimePasses
  \/ Crash

DPSpec == DPInit /\ [][DPNext]_vars

-----------------------------------------------------------------------------
(* Properties                                                              *)

\* REG-37: whatever was mounted, scanned, cached, pending or granted, a
\* subject is served (or may mount) only digests that were uploaded into a
\* repository of a registry it belongs to.
ConfinedToTenant ==
  \A c \in Conn :
    req[c].kind \in {"GetBlob", "Mount"} /\ answer[c] \in {"served", "accepted"} =>
      \E n \in Repo : <<n, req[c].digest>> \in past.uploads /\ req[c].subject \in Member[n]

\* REG-33, defects A and B: after the 201 of an upload, and while its row is
\* within the TTL, a member who asks for the blob is told 404 only if iam
\* denies it and the repository has got its manifest meanwhile.
AckedUploadIsVisible ==
  \A c \in past.seesUpload :
    answer[c] = "hidden" /\ req[c].subject \in Member[req[c].repo] =>
      ~loc[c].may /\ req[c].repo \in past.established

\* REG-33, immediate pull: whoever pushed a manifest and had the grant
\* recorded finds the repository, before and after access materialises,
\* unless the grant runs out first or access is revoked.  A pull that was
\* denied before access materialised and asks for the grant afterwards is
\* not promised anything: another pull may have dropped the grant between.
PusherPulls ==
  \A c \in past.seesPush : Is(c, "GetManifest") => answer[c] # "hidden"

\* Revoke-safety: once the grant was dropped after an allowed pull, a pull
\* begun after the revocation finds nothing, whatever deletes, sweeps and
\* refused pushes of others are under way, until the subject pushes again.
RevokedStaysOut ==
  \A c \in past.seesNothing : Is(c, "GetManifest") => answer[c] # "served"
=============================================================================
