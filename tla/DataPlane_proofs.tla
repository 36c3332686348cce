------------------------- MODULE DataPlane_proofs -------------------------
(***************************************************************************)
(* Proofs about DataPlane for all repositories, subjects, digests, tags,   *)
(* tenants and sets of requests.                                           *)
(*                                                                         *)
(* First the types and the tenants, then the three promises about a pull:  *)
(* after a revocation (RevokeInv), after a push (PusherInv) and after the  *)
(* 201 of an upload (UploadInv).  Each has one lemma for the calls that    *)
(* neither give nor take what it speaks of, and one for each that does.    *)
(***************************************************************************)
EXTENDS DataPlane, TLAPS

\* What the request of a connection consists of.
LEMMA RequestParts ==
  ASSUME NEW q \in Request
  PROVE  /\ q.repo \in Repo
         /\ q.kind \in {"Upload", "GetBlob", "Mount", "PutManifest", "GetManifest", "DeleteTag"}
         /\ q.kind # "DeleteTag" => q.subject \in Subject
         /\ q.kind \in {"Upload", "GetBlob", "Mount"} => q.digest \in Digest
         /\ q.kind = "Mount" => q.from \in Repo
         /\ q.kind \in {"PutManifest", "GetManifest", "DeleteTag"} => q.tag \in Tag
         /\ q.kind = "PutManifest" => q.layers \subseteq Digest
  BY DEF Request

-----------------------------------------------------------------------------
(* Types.  The type invariant is taken apart into what one action changes. *)

\* The handlers that can be at a call.
PcOfKind ==
  \A c \in Conn :
    /\ pc[c] = "record" => Is(c, "Upload")
    /\ pc[c] \in {"grant", "register"} => Is(c, "PutManifest")
    /\ pc[c] = "exists" => Is(c, "Mount")
    /\ pc[c] = "check" => req[c].kind \in {"Upload", "PutManifest", "Mount"}
    /\ pc[c] \in {"scope", "remember"} => req[c].kind \in {"Mount", "GetBlob"}
    /\ pc[c] \in {"pushContext", "uploaded", "pending"} => Is(c, "GetBlob")
    /\ pc[c] = "bridge" => req[c].kind \in {"GetBlob", "GetManifest"}
    /\ pc[c] = "forward" => ~Is(c, "DeleteTag")

EngineOK ==
  /\ stored \in [Repo -> SUBSET Digest]
  /\ tags \in [Repo -> [Tag -> SUBSET Digest]]

TablesOK ==
  /\ pending \in [Repo -> [Digest -> Age]]
  /\ grants \in [Repo -> [Subject -> Age]]

CacheOK == verdict \in [Repo -> [Digest -> {"unknown", "in", "out"}]]

IamOK == announced \subseteq Repo /\ allowed \in [Repo -> SUBSET Subject]

ConnOK ==
  /\ req \in [Conn -> Request]
  /\ pc \in [Conn -> Calls \union {"new", "done"}]
  /\ answer \in [Conn -> Answers]
  /\ \A c \in Conn : pc[c] = "done" <=> answer[c] # "none"
  /\ PcOfKind

DropsOK == drops \subseteq {c \in Conn : req[c].kind \in {"GetBlob", "GetManifest"}}

LocOK == loc \in [Conn -> Local]

Typed ==
  /\ EngineOK /\ TablesOK /\ CacheOK /\ IamOK /\ ConnOK /\ DropsOK /\ LocOK
  /\ past \in Past
  /\ crashed \in BOOLEAN

\* The parts add up to the type invariant, strengthened by PcOfKind.
LEMMA TypedParts == Typed <=> DPTypeOK /\ PcOfKind
  BY DEF Typed, DPTypeOK, EngineOK, TablesOK, CacheOK, IamOK, ConnOK, DropsOK, LocOK

\* Before the first request all of the state is typed.
LEMMA TypedInit == DPInit => Typed
<1> SUFFICES ASSUME DPInit PROVE Typed
  OBVIOUS
<1>1. req \in [Conn -> Request]
  BY RequestsAssumption DEF DPInit
<1>2. past \in Past
  BY DEF DPInit, Past
<1>3. LocOK
  BY DEF DPInit, LocOK, Local
<1>4. EngineOK /\ TablesOK /\ CacheOK /\ IamOK /\ DropsOK
  BY DEF DPInit, EngineOK, TablesOK, CacheOK, IamOK, DropsOK, Age
<1>5. ConnOK
  BY <1>1 DEF DPInit, ConnOK, PcOfKind, Calls, Answers
<1>. QED
  BY <1>2, <1>3, <1>4, <1>5 DEF Typed, DPInit

\* What an action leaves alone keeps its type.
LEMMA Frame ==
  ASSUME Typed, UNCHANGED req
  PROVE  /\ UNCHANGED <<stored, tags>> => EngineOK'
         /\ UNCHANGED <<pending, grants>> => TablesOK'
         /\ UNCHANGED verdict => CacheOK'
         /\ UNCHANGED <<announced, allowed>> => IamOK'
         /\ UNCHANGED <<pc, answer>> => ConnOK'
         /\ UNCHANGED drops => DropsOK'
         /\ UNCHANGED loc => LocOK'
         /\ UNCHANGED past => (past \in Past)'
         /\ UNCHANGED crashed => (crashed \in BOOLEAN)'
  BY DEF Typed, EngineOK, TablesOK, CacheOK, IamOK, ConnOK, PcOfKind, Is, DropsOK, LocOK

\* A handler goes on to a call of its own, or it answers.
LEMMA GoTyped ==
  ASSUME ConnOK, UNCHANGED req, NEW c \in Conn, pc[c] # "done", NEW to \in Calls, Go(c, to),
         /\ to = "record" => Is(c, "Upload")
         /\ to \in {"grant", "register"} => Is(c, "PutManifest")
         /\ to = "exists" => Is(c, "Mount")
         /\ to = "check" => req[c].kind \in {"Upload", "PutManifest", "Mount"}
         /\ to \in {"scope", "remember"} => req[c].kind \in {"Mount", "GetBlob"}
         /\ to \in {"pushContext", "uploaded", "pending"} => Is(c, "GetBlob")
         /\ to = "bridge" => req[c].kind \in {"GetBlob", "GetManifest"}
         /\ to = "forward" => ~Is(c, "DeleteTag")
  PROVE  ConnOK'
<1>1. to # "done"
  BY DEF Calls
<1>. QED
  BY <1>1 DEF ConnOK, Go, PcOfKind, Is

\* An answer ends the handler, and only an answer does.
LEMMA AnswerTyped ==
  ASSUME ConnOK, UNCHANGED req, NEW c \in Conn, NEW a \in Answers, a # "none", Answer(c, a)
  PROVE  ConnOK'
  BY DEF ConnOK, Answer, PcOfKind, Is

\* A local of a handler takes a new truth value.
LEMMA LocTyped ==
  ASSUME LocOK, NEW c \in Conn, NEW b \in BOOLEAN
  PROVE  /\ [loc EXCEPT ![c].exists = b] \in [Conn -> Local]
         /\ [loc EXCEPT ![c].may = b] \in [Conn -> Local]
         /\ [loc EXCEPT ![c].in = b] \in [Conn -> Local]
  BY DEF LocOK, Local

\* Pushes keep the types.
LEMMA TypedPush ==
  ASSUME Typed, NEW c \in Conn, PushStep(c)
  PROVE  Typed'
<1>1. CASE PushExists(c)
  <2>1. ConnOK'
    BY <1>1, GoTyped, AnswerTyped DEF PushExists, GoOr, Typed, ConnOK, PcOfKind, At, Is,
       Calls, Answers
  <2>2. LocOK'
    BY <1>1, LocTyped DEF PushExists, RepoExists, LocOK, Typed
  <2>3. (past \in Past)'
    BY <1>1, RequestParts DEF PushExists, Typed, ConnOK, PcOfKind, At, Is, Past
  <2>. QED
    BY <1>1, <2>1, <2>2, <2>3, Frame DEF PushExists, engineVars, tableVars, iamVars, Typed
<1>2. CASE PushCheck(c)
  <2>1. ConnOK'
    BY <1>2, GoTyped, AnswerTyped DEF PushCheck, GoOr, Typed, ConnOK, PcOfKind, At, Is,
       Calls, Answers
  <2>. QED
    BY <1>2, <2>1, Frame DEF PushCheck, engineVars, tableVars, iamVars, Typed
<1>3. CASE ForwardCapture(c)
  <2>1. ConnOK'
    BY <1>3, GoTyped, AnswerTyped DEF ForwardCapture, GoOr, Typed, ConnOK, PcOfKind, At,
       Is, Calls, Answers
  <2>2. EngineOK'
    BY <1>3, RequestParts DEF ForwardCapture, Typed, ConnOK, PcOfKind, EngineOK, At, Is
  <2>3. (past \in Past)'
    BY <1>3, RequestParts DEF ForwardCapture, Typed, ConnOK, PcOfKind, At, Is, Past
  <2>. QED
    BY <1>3, <2>1, <2>2, <2>3, Frame DEF ForwardCapture, engineVars, tableVars, iamVars,
       Typed
<1>4. CASE RecordUploadedBlob(c)
  <2>1. ConnOK'
    BY <1>4, GoTyped, AnswerTyped DEF RecordUploadedBlob, GoOr, Typed, ConnOK, PcOfKind,
       At, Is, Calls, Answers
  <2>2. TablesOK'
    BY <1>4, RequestParts DEF RecordUploadedBlob, Recorded, Typed, ConnOK, DropsOK,
       PcOfKind, TablesOK, Age, At, Is
  <2>3. (past \in Past)'
    BY <1>4, RequestParts DEF RecordUploadedBlob, Typed, ConnOK, PcOfKind, At, Is, Past
  <2>. QED
    BY <1>4, <2>1, <2>2, <2>3, Frame DEF RecordUploadedBlob, engineVars, tableVars,
       iamVars, Typed
<1>5. ASSUME NEW ok \in BOOLEAN, ForwardManifest(c, ok) PROVE Typed'
  <2>1. ConnOK'
    BY <1>5, GoTyped, AnswerTyped DEF ForwardManifest, GoOr, Typed, ConnOK, PcOfKind, At,
       Is, Calls, Answers
  <2>2. EngineOK'
    BY <1>5, RequestParts DEF ForwardManifest, Typed, ConnOK, PcOfKind, EngineOK, At, Is
  <2>3. (past \in Past)'
    BY <1>5, RequestParts DEF ForwardManifest, Typed, ConnOK, PcOfKind, At, Is, Past
  <2>. QED
    BY <1>5, <2>1, <2>2, <2>3, Frame DEF ForwardManifest, engineVars, tableVars, iamVars,
       Typed
<1>6. ASSUME NEW ok \in BOOLEAN, RecordPushGrant(c, ok) PROVE Typed'
  <2>1. ConnOK'
    BY <1>6, GoTyped, AnswerTyped DEF RecordPushGrant, GoOr, Typed, ConnOK, PcOfKind, At,
       Is, Calls, Answers
  <2>2. TablesOK'
    <3>1. req[c].repo \in Repo /\ req[c].subject \in Subject
      BY <1>6, RequestParts DEF RecordPushGrant, Typed, ConnOK, PcOfKind, At, Is
    <3>2. Recorded(grants, req[c].repo, req[c].subject) \in [Repo -> [Subject -> Age]]
      BY <3>1 DEF Recorded, Typed, TablesOK, Age
    <3>3. pending' = pending
      BY <1>6 DEF RecordPushGrant
    <3>4. grants' \in [Repo -> [Subject -> Age]]
      BY <1>6, <3>2 DEF RecordPushGrant, Typed, TablesOK
    <3>. QED
      BY <3>3, <3>4 DEF TablesOK, Typed
  <2>3. (past \in Past)'
    BY <1>6, RequestParts DEF RecordPushGrant, Typed, ConnOK, PcOfKind, At, Is, Past
  <2>. QED
    BY <1>6, <2>1, <2>2, <2>3, Frame DEF RecordPushGrant, engineVars, tableVars, iamVars,
       Typed
<1>7. ASSUME NEW ok \in BOOLEAN, RegisterRepository(c, ok) PROVE Typed'
  <2>1. ConnOK'
    BY <1>7, GoTyped, AnswerTyped DEF RegisterRepository, GoOr, Typed, ConnOK, PcOfKind,
       At, Is, Calls, Answers
  <2>2. IamOK'
    BY <1>7, RequestParts DEF RegisterRepository, Typed, ConnOK, IamOK
  <2>. QED
    BY <1>7, <2>1, <2>2, Frame DEF RegisterRepository, engineVars, tableVars, iamVars, Typed
<1>. QED
  BY <1>1, <1>2, <1>3, <1>4, <1>5, <1>6, <1>7 DEF PushStep

\* Mounts keep the types.
LEMMA TypedMount ==
  ASSUME Typed, NEW c \in Conn, MountStep(c)
  PROVE  Typed'
<1>1. CASE MountSource(c)
  <2>1. ConnOK'
    BY <1>1, GoTyped, AnswerTyped DEF MountSource, GoOr, Typed, ConnOK, PcOfKind, At, Is,
       Calls, Answers
  <2>2. LocOK'
    <3>1. (req[c].subject \in allowed[req[c].from]) \in BOOLEAN
      OBVIOUS
    <3>. QED
      BY <1>1, <3>1, LocTyped DEF MountSource, LocOK, Typed
  <2>. QED
    BY <1>1, <2>1, <2>2, Frame DEF MountSource, engineVars, tableVars, iamVars, Typed
<1>2. CASE MountExists(c)
  <2>1. ConnOK'
    BY <1>2, GoTyped, AnswerTyped DEF MountExists, GoOr, Typed, ConnOK, PcOfKind, At, Is,
       Calls, Answers
  <2>2. LocOK'
    BY <1>2, LocTyped DEF MountExists, RepoExists, LocOK, Typed
  <2>. QED
    BY <1>2, <2>1, <2>2, Frame DEF MountExists, engineVars, tableVars, iamVars, Typed
<1>3. CASE MountCheck(c)
  <2>1. ConnOK'
    BY <1>3, GoTyped, AnswerTyped DEF MountCheck, GoOr, Typed, ConnOK, PcOfKind, At, Is,
       Calls, Answers
  <2>. QED
    BY <1>3, <2>1, Frame DEF MountCheck, engineVars, tableVars, iamVars, Typed
<1>4. CASE ForwardMount(c)
  <2>1. ConnOK'
    BY <1>4, GoTyped, AnswerTyped DEF ForwardMount, GoOr, Typed, ConnOK, PcOfKind, At,
       Is, Calls, Answers
  <2>2. EngineOK'
    BY <1>4, RequestParts DEF ForwardMount, Typed, ConnOK, PcOfKind, EngineOK, At, Is
  <2>. QED
    BY <1>4, <2>1, <2>2, Frame DEF ForwardMount, engineVars, tableVars, iamVars, Typed
<1>. QED
  BY <1>1, <1>2, <1>3, <1>4 DEF MountStep

\* The scope check keeps the types.
LEMMA TypedScope ==
  ASSUME Typed, NEW c \in Conn, ScopeStep(c)
  PROVE  Typed'
<1>1. CASE ScopeCached(c)
  <2>1. ConnOK'
    BY <1>1, GoTyped, AnswerTyped DEF ScopeCached, AfterScope, GoOr, Typed, ConnOK,
       PcOfKind, At, Is, Calls, Answers
  <2>. QED
    BY <1>1, <2>1, Frame DEF ScopeCached, engineVars, tableVars, iamVars, Typed
<1>2. CASE ScanTags(c)
  <2>1. ConnOK'
    BY <1>2, GoTyped, AnswerTyped DEF ScanTags, GoOr, Typed, ConnOK, PcOfKind, At, Is,
       Calls, Answers
  <2>2. LocOK'
    BY <1>2, LocTyped DEF ScanTags, InManifests, LocOK, Typed
  <2>. QED
    BY <1>2, <2>1, <2>2, Frame DEF ScanTags, engineVars, tableVars, iamVars, Typed
<1>3. CASE RememberVerdict(c)
  <2>1. ConnOK'
    BY <1>3, GoTyped, AnswerTyped DEF RememberVerdict, AfterScope, GoOr, Typed, ConnOK,
       PcOfKind, At, Is, Calls, Answers
  <2>2. CacheOK'
    BY <1>3, RequestParts DEF RememberVerdict, Typed, ConnOK, PcOfKind, CacheOK, At, Is,
       ScopeRepo
  <2>. QED
    BY <1>3, <2>1, <2>2, Frame DEF RememberVerdict, engineVars, tableVars, iamVars, Typed
<1>. QED
  BY <1>1, <1>2, <1>3 DEF ScopeStep

\* Pulls and the deletes they start keep the types.
LEMMA TypedPull ==
  ASSUME Typed, NEW c \in Conn, PullStep(c)
  PROVE  Typed'
<1>1. CASE PullAllowed(c)
  <2>1. ConnOK'
    BY <1>1, GoTyped, AnswerTyped DEF PullAllowed, GoOr, Typed, ConnOK, PcOfKind, At, Is,
       Calls, Answers
  <2>2. LocOK'
    BY <1>1, LocTyped DEF PullAllowed, LocOK, Typed
  <2>3. DropsOK'
    BY <1>1 DEF PullAllowed, Typed, DropsOK
  <2>4. (past \in Past)'
    BY <1>1 DEF PullAllowed, NotePull, Typed, Past
  <2>. QED
    BY <1>1, <2>1, <2>2, <2>3, <2>4, Frame DEF PullAllowed, engineVars, tableVars,
       iamVars, Typed
<1>2. CASE PullDenied(c)
  <2>1. ConnOK'
    BY <1>2, GoTyped, AnswerTyped DEF PullDenied, GoOr, Typed, ConnOK, PcOfKind, At, Is,
       Calls, Answers
  <2>2. (past \in Past)'
    BY <1>2 DEF PullDenied, NotePull, Typed, Past
  <2>. QED
    BY <1>2, <2>1, <2>2, Frame DEF PullDenied, engineVars, tableVars, iamVars, Typed
<1>3. CASE PushContext(c)
  <2>1. ConnOK'
    BY <1>3, GoTyped, AnswerTyped DEF PushContext, GoOr, Typed, ConnOK, PcOfKind, At, Is,
       Calls, Answers
  <2>. QED
    BY <1>3, <2>1, Frame DEF PushContext, engineVars, tableVars, iamVars, Typed
<1>4. CASE PushContextUploaded(c)
  <2>1. ConnOK'
    BY <1>4, GoTyped, AnswerTyped DEF PushContextUploaded, GoOr, Typed, ConnOK, PcOfKind,
       At, Is, Calls, Answers
  <2>. QED
    BY <1>4, <2>1, Frame DEF PushContextUploaded, engineVars, tableVars, iamVars, Typed
<1>5. CASE PushOwner(c)
  <2>1. ConnOK'
    BY <1>5, GoTyped, AnswerTyped DEF PushOwner, GoOr, Typed, ConnOK, PcOfKind, At, Is,
       Calls, Answers
  <2>. QED
    BY <1>5, <2>1, Frame DEF PushOwner, engineVars, tableVars, iamVars, Typed
<1>6. CASE ScopedUpload(c)
  <2>1. ConnOK'
    BY <1>6, GoTyped, AnswerTyped DEF ScopedUpload, GoOr, Typed, ConnOK, PcOfKind, At,
       Is, Calls, Answers
  <2>. QED
    BY <1>6, <2>1, Frame DEF ScopedUpload, engineVars, tableVars, iamVars, Typed
<1>7. CASE ForwardPull(c)
  <2>1. ConnOK'
    BY <1>7, GoTyped, AnswerTyped DEF ForwardPull, GoOr, Typed, ConnOK, PcOfKind, At, Is,
       Calls, Answers
  <2>. QED
    BY <1>7, <2>1, Frame DEF ForwardPull, engineVars, tableVars, iamVars, Typed
<1>8. ASSUME NEW ok \in BOOLEAN, DropPushGrant(c, ok) PROVE Typed'
  <2>1. TablesOK'
    BY <1>8, RequestParts DEF DropPushGrant, DeletePushGrant, Typed, ConnOK, DropsOK,
       PcOfKind, TablesOK, Age, At, Is
  <2>2. DropsOK'
    BY <1>8 DEF DropPushGrant, Typed, DropsOK
  <2>3. (past \in Past)'
    BY <1>8, RequestParts DEF DropPushGrant, Typed, ConnOK, PcOfKind, At, Is, Past, DropsOK
  <2>. QED
    BY <1>8, <2>1, <2>2, <2>3, Frame DEF DropPushGrant, engineVars, tableVars, iamVars,
       Typed
<1>. QED
  BY <1>1, <1>2, <1>3, <1>4, <1>5, <1>6, <1>7, <1>8 DEF PullStep

\* Time keeps the types.
LEMMA TypedTime ==
  ASSUME Typed, TimePasses
  PROVE  Typed'
<1>1. ASSUME NEW n \in Repo, NEW d \in Digest, AgePending(n, d) PROVE Typed'
  <2>1. TablesOK'
    BY <1>1, RequestParts DEF AgePending, Typed, ConnOK, DropsOK, PcOfKind, TablesOK,
       Age, At, Is
  <2>2. (past \in Past)'
    BY <1>1 DEF AgePending, Typed, Past
  <2>. QED
    BY <1>1, <2>1, <2>2, Frame DEF AgePending, engineVars, tableVars, iamVars, Typed
<1>2. ASSUME NEW n \in Repo, NEW d \in Digest, ForgetVerdict(n, d) PROVE Typed'
  <2>1. CacheOK'
    BY <1>2, RequestParts DEF ForgetVerdict, Typed, ConnOK, PcOfKind, CacheOK, At, Is
  <2>. QED
    BY <1>2, <2>1, Frame DEF ForgetVerdict, engineVars, tableVars, iamVars, Typed
<1>3. ASSUME NEW n \in Repo, NEW s \in Subject, AgeGrant(n, s) PROVE Typed'
  <2>1. TablesOK'
    BY <1>3, RequestParts DEF AgeGrant, Typed, ConnOK, DropsOK, PcOfKind, TablesOK, Age,
       At, Is
  <2>2. (past \in Past)'
    BY <1>3 DEF AgeGrant, Typed, Past, PullsOf
  <2>. QED
    BY <1>3, <2>1, <2>2, Frame DEF AgeGrant, engineVars, tableVars, iamVars, Typed
<1>4. CASE SweepStale
  <2>1. TablesOK'
    BY <1>4, RequestParts DEF SweepStale, Swept, Typed, ConnOK, DropsOK, PcOfKind,
       TablesOK, Age, At, Is
  <2>. QED
    BY <1>4, <2>1, Frame DEF SweepStale, engineVars, tableVars, iamVars, Typed
<1>. QED
  BY <1>1, <1>2, <1>3, <1>4 DEF TimePasses

\* Every step keeps the types.
LEMMA TypedStep ==
  ASSUME Typed, [DPNext]_vars
  PROVE  Typed'
<1>1. ASSUME NEW c \in Conn, DeleteTag(c) PROVE Typed'
  <2>1. ConnOK'
    BY <1>1, GoTyped, AnswerTyped DEF DeleteTag, GoOr, Typed, ConnOK, PcOfKind, At, Is,
       Calls, Answers
  <2>2. EngineOK'
    BY <1>1, RequestParts DEF DeleteTag, Typed, ConnOK, PcOfKind, EngineOK, At, Is
  <2>. QED
    BY <1>1, <2>1, <2>2, Frame DEF DeleteTag, engineVars, tableVars, iamVars, Typed
<1>2. ASSUME NEW c \in Conn, FailClosed(c) PROVE Typed'
  <2>1. ConnOK'
    BY <1>2, GoTyped, AnswerTyped DEF FailClosed, GoOr, Typed, ConnOK, PcOfKind, At, Is,
       Calls, Answers
  <2>. QED
    BY <1>2, <2>1, Frame DEF FailClosed, engineVars, tableVars, iamVars, Typed
<1>3. ASSUME NEW n \in Repo, NEW s \in Subject, Materialise(n, s) PROVE Typed'
  <2>1. IamOK'
    BY <1>3, RequestParts DEF Materialise, Typed, ConnOK, IamOK
  <2>2. (past \in Past)'
    BY <1>3 DEF Materialise, Typed, Past, PullsOf
  <2>. QED
    BY <1>3, <2>1, <2>2, Frame DEF Materialise, engineVars, tableVars, iamVars, Typed
<1>4. ASSUME NEW n \in Repo, NEW s \in Subject, Revoke(n, s) PROVE Typed'
  <2>1. IamOK'
    BY <1>4, RequestParts DEF Revoke, Typed, ConnOK, IamOK
  <2>2. (past \in Past)'
    <3>1. past.revoked \union {<<n, s>>} \subseteq Repo \X Subject
      BY DEF Typed, Past
    <3>2. past.seesPush \ PullsOf(n, s) \subseteq Conn
      BY DEF Typed, Past
    <3>. QED
      BY <1>4, <3>1, <3>2 DEF Revoke, Typed, Past
  <2>. QED
    BY <1>4, <2>1, <2>2, Frame DEF Revoke, engineVars, tableVars, iamVars, Typed
<1>5. CASE Crash
  <2>1. ConnOK'
    BY <1>5 DEF Crash, Typed, ConnOK, PcOfKind, Is, Answers, Calls
  <2>2. CacheOK'
    BY <1>5 DEF Crash, CacheOK
  <2>3. DropsOK'
    BY <1>5 DEF Crash, DropsOK
  <2>4. (crashed \in BOOLEAN)'
    BY <1>5 DEF Crash
  <2>. QED
    BY <1>5, <2>1, <2>2, <2>3, <2>4, Frame DEF Crash, engineVars, tableVars, iamVars, Typed
<1>6. CASE UNCHANGED vars
  BY <1>6, Frame DEF vars, engineVars, tableVars, iamVars, Typed
<1>. QED
  BY <1>1, <1>2, <1>3, <1>4, <1>5, <1>6,
     TypedPush, TypedMount, TypedScope, TypedPull, TypedTime DEF DPNext

\* DPTypeOK: in every behaviour all of the state is well-typed, and a
\* request is answered exactly when its handler has ended.
THEOREM DataPlaneTypes == DPSpec => []DPTypeOK
<1>1. DPInit => Typed
  BY TypedInit
<1>2. Typed /\ [DPNext]_vars => Typed'
  BY TypedStep
<1>3. Typed => DPTypeOK
  BY TypedParts
<1>. QED
  BY <1>1, <1>2, <1>3, PTL DEF DPSpec
-----------------------------------------------------------------------------
(* Confinement.  ConfinedToTenant is about answers; what makes it inductive *)
(* is that whatever a handler consults speaks only of digests stored in the *)
(* repository it asks about, and of subjects who are members there.         *)

\* d was uploaded into a repository of the tenant that owns n.
Own(n, d) == \E m \in Repo : <<m, d>> \in past.uploads /\ Member[m] = Member[n]

IamScoped == \A n \in Repo : allowed[n] \subseteq Member[n]

StoreScoped == \A n \in Repo : \A d \in stored[n] : Own(n, d)

TagsScoped == \A n \in Repo : \A t \in Tag : tags[n][t] \subseteq stored[n]

PendingScoped == \A n \in Repo : \A d \in Digest : pending[n][d] # "none" => d \in stored[n]

GrantsScoped == \A n \in Repo : \A s \in Subject : grants[n][s] # "none" => s \in Member[n]

CacheScoped == \A n \in Repo : \A d \in Digest : verdict[n][d] = "in" => d \in stored[n]

\* What a handler has established when it is about to make a call.
ConnScoped(c) ==
  /\ pc[c] = "record" => req[c].digest \in stored[req[c].repo]
  /\ Is(c, "PutManifest") /\ pc[c] \in {"forward", "grant"} =>
       req[c].subject \in Member[req[c].repo]
  /\ Is(c, "Mount") /\ pc[c] \in {"exists", "check"} /\ loc[c].may =>
       req[c].subject \in Member[req[c].from]
  /\ Is(c, "Mount") /\ pc[c] \in {"scope", "remember", "forward"} =>
       req[c].subject \in Member[req[c].from] \intersect Member[req[c].repo]
  /\ Is(c, "GetBlob") /\ pc[c] \in {"scope", "remember", "pending", "uploaded", "forward"} =>
       req[c].subject \in Member[req[c].repo]
  /\ pc[c] = "remember" /\ loc[c].in => req[c].digest \in stored[ScopeRepo(c)]
  /\ req[c].kind \in {"Mount", "GetBlob"} /\ pc[c] = "forward" =>
       req[c].digest \in stored[ScopeRepo(c)]

ConfinedAt(c) ==
  req[c].kind \in {"GetBlob", "Mount"} /\ answer[c] \in {"served", "accepted"} =>
    \E n \in Repo : <<n, req[c].digest>> \in past.uploads /\ req[c].subject \in Member[n]

Scoped ==
  /\ IamScoped /\ StoreScoped /\ TagsScoped /\ PendingScoped /\ GrantsScoped /\ CacheScoped
  /\ \A c \in Conn : ConnScoped(c)
  /\ \A c \in Conn : ConfinedAt(c)

\* Before the first request nothing is stored, recorded or allowed.
LEMMA ScopedInit == DPInit => Scoped
<1> SUFFICES ASSUME DPInit PROVE Scoped
  OBVIOUS
<1>1. IamScoped /\ StoreScoped /\ TagsScoped /\ PendingScoped /\ GrantsScoped /\ CacheScoped
  BY DEF DPInit, IamScoped, StoreScoped, TagsScoped, PendingScoped, GrantsScoped, CacheScoped
<1>2. ASSUME NEW c \in Conn PROVE ConnScoped(c) /\ ConfinedAt(c)
  BY DEF DPInit, ConnScoped, ConfinedAt
<1>. QED
  BY <1>1, <1>2 DEF Scoped

\* Requests stay, and nothing is unstored or forgotten.
Grows ==
  /\ req' = req
  /\ \A n \in Repo : stored[n] \subseteq stored'[n]
  /\ past.uploads \subseteq past'.uploads

\* What an action leaves alone stays scoped.
LEMMA ScopedFrame ==
  ASSUME Typed, Scoped, Grows
  PROVE  /\ UNCHANGED allowed => IamScoped'
         /\ UNCHANGED stored => StoreScoped'
         /\ UNCHANGED tags => TagsScoped'
         /\ UNCHANGED pending => PendingScoped'
         /\ UNCHANGED grants => GrantsScoped'
         /\ UNCHANGED verdict => CacheScoped'
<1>1. UNCHANGED allowed => IamScoped'
  BY DEF Scoped, IamScoped
<1>2. UNCHANGED stored => StoreScoped'
  BY DEF Scoped, StoreScoped, Own, Grows
<1>3. UNCHANGED tags => TagsScoped'
  BY DEF Scoped, TagsScoped, Grows
<1>4. UNCHANGED pending => PendingScoped'
  BY DEF Scoped, PendingScoped, Grows
<1>5. UNCHANGED grants => GrantsScoped'
  BY DEF Scoped, GrantsScoped
<1>6. UNCHANGED verdict => CacheScoped'
  BY DEF Scoped, CacheScoped, Grows
<1>. QED
  BY <1>1, <1>2, <1>3, <1>4, <1>5, <1>6

\* A request that does not move stays as it was, answered or not.
LEMMA ScopedStill ==
  ASSUME Typed, Scoped, Grows, NEW c \in Conn,
         pc'[c] = pc[c], loc'[c] = loc[c], answer'[c] = answer[c]
  PROVE  ConnScoped(c)' /\ ConfinedAt(c)'
<1>1. req[c] \in Request /\ req' = req
  BY DEF Typed, ConnOK, Grows
<1>2. ConnScoped(c)'
  <2>1. pc[c] = "record" => req[c].digest \in stored'[req[c].repo]
    BY <1>1, RequestParts DEF Scoped, ConnScoped, Grows
  <2>2. req[c].kind \in {"Mount", "GetBlob"} =>
          ScopeRepo(c) \in Repo /\ ScopeRepo(c)' = ScopeRepo(c)
    BY <1>1, RequestParts DEF ScopeRepo, Is
  <2>3. pc[c] = "remember" => req[c].kind \in {"Mount", "GetBlob"}
    BY DEF Typed, ConnOK, PcOfKind
  <2>4. pc[c] = "remember" /\ loc[c].in => req[c].digest \in stored'[ScopeRepo(c)]
    BY <2>2, <2>3 DEF Scoped, ConnScoped, Grows
  <2>5. req[c].kind \in {"Mount", "GetBlob"} /\ pc[c] = "forward" =>
          req[c].digest \in stored'[ScopeRepo(c)]
    BY <2>2 DEF Scoped, ConnScoped, Grows
  <2>. QED
    BY <1>1, <2>1, <2>2, <2>3, <2>4, <2>5 DEF Scoped, ConnScoped, Is
<1>3. ConfinedAt(c)'
  BY <1>1 DEF Scoped, ConfinedAt, Grows
<1>. QED
  BY <1>2, <1>3

\* Only the request that takes the step can change what it has established.
Only(c) ==
  \A e \in Conn \ {c} : pc'[e] = pc[e] /\ loc'[e] = loc[e] /\ answer'[e] = answer[e]

\* So a step of one request is scoped if that request is scoped after it.
LEMMA ScopedOnly ==
  ASSUME Typed, Scoped, Grows, NEW c \in Conn, Only(c), ConnScoped(c)', ConfinedAt(c)'
  PROVE  (\A e \in Conn : ConnScoped(e))' /\ (\A e \in Conn : ConfinedAt(e))'
  BY ScopedStill DEF Only

\* Neither a step to the next call nor an answer without content adds to
\* what a client was served.
LEMMA ConfinedStill ==
  ASSUME Typed, Scoped, Grows, NEW c \in Conn,
         \/ answer'[c] = answer[c]
         \/ answer'[c] \notin {"served", "accepted"}
         \/ req[c].kind \notin {"GetBlob", "Mount"}
  PROVE  ConfinedAt(c)'
  BY DEF Scoped, ConfinedAt, Grows

\* No step takes anything out of the store, and history only grows.
LEMMA GrowsStep ==
  ASSUME Typed, [DPNext]_vars
  PROVE  Grows
<1> USE DEF engineVars, tableVars, iamVars
<1>0. past \in Past /\ req \in [Conn -> Request] /\ stored \in [Repo -> SUBSET Digest]
  BY DEF Typed, ConnOK, EngineOK
<1>1. ASSUME NEW c \in Conn, PushStep(c) PROVE Grows
  <2>1. CASE PushExists(c)
    BY <1>0, <2>1 DEF PushExists, Grows, Past
  <2>2. CASE ForwardCapture(c)
    <3>1. past'.uploads = past.uploads \union {<<req[c].repo, req[c].digest>>}
      BY <1>0, <2>2 DEF ForwardCapture, Past
    <3>2. \A n \in Repo : stored[n] \subseteq stored'[n]
      BY <1>0, <2>2 DEF ForwardCapture
    <3>. QED
      BY <2>2, <3>1, <3>2 DEF ForwardCapture, Grows
  <2>3. CASE RecordUploadedBlob(c)
    BY <1>0, <2>3 DEF RecordUploadedBlob, Grows, Past
  <2>4. ASSUME NEW ok \in BOOLEAN, ForwardManifest(c, ok) PROVE Grows
    BY <1>0, <2>4 DEF ForwardManifest, Grows, Past
  <2>5. ASSUME NEW ok \in BOOLEAN, RecordPushGrant(c, ok) PROVE Grows
    BY <1>0, <2>5 DEF RecordPushGrant, Grows, Past
  <2>6. CASE PushCheck(c)
    BY <2>6 DEF PushCheck, Grows
  <2>7. ASSUME NEW ok \in BOOLEAN, RegisterRepository(c, ok) PROVE Grows
    BY <2>7 DEF RegisterRepository, Grows
  <2>. QED
    BY <1>1, <2>1, <2>2, <2>3, <2>4, <2>5, <2>6, <2>7 DEF PushStep
<1>2. ASSUME NEW c \in Conn, MountStep(c) PROVE Grows
  <2>1. UNCHANGED <<req, past>>
    BY <1>2 DEF MountStep, MountSource, MountExists, MountCheck, ForwardMount
  <2>2. \A n \in Repo : stored[n] \subseteq stored'[n]
    BY <1>0, <1>2 DEF MountStep, MountSource, MountExists, MountCheck, ForwardMount
  <2>. QED
    BY <2>1, <2>2 DEF Grows
<1>3. ASSUME NEW c \in Conn, ScopeStep(c) PROVE Grows
  BY <1>3 DEF ScopeStep, ScopeCached, ScanTags, RememberVerdict, Grows
<1>4. ASSUME NEW c \in Conn, PullStep(c) PROVE Grows
  <2>1. CASE PullAllowed(c)
    BY <1>0, <2>1 DEF PullAllowed, NotePull, Grows, Past
  <2>2. CASE PullDenied(c)
    BY <1>0, <2>2 DEF PullDenied, NotePull, Grows, Past
  <2>3. ASSUME NEW ok \in BOOLEAN, DropPushGrant(c, ok) PROVE Grows
    BY <1>0, <2>3 DEF DropPushGrant, Grows, Past
  <2>4. CASE \/ PushContext(c) \/ PushContextUploaded(c) \/ PushOwner(c)
             \/ ScopedUpload(c) \/ ForwardPull(c)
    BY <2>4 DEF PushContext, PushContextUploaded, PushOwner, ScopedUpload, ForwardPull, Grows
  <2>. QED
    BY <1>4, <2>1, <2>2, <2>3, <2>4 DEF PullStep
<1>5. CASE TimePasses
  <2>1. ASSUME NEW n \in Repo, NEW d \in Digest, AgePending(n, d) PROVE Grows
    BY <1>0, <2>1 DEF AgePending, Grows, Past
  <2>2. ASSUME NEW n \in Repo, NEW s \in Subject, AgeGrant(n, s) PROVE Grows
    BY <1>0, <2>2 DEF AgeGrant, Grows, Past
  <2>3. ASSUME NEW n \in Repo, NEW d \in Digest, ForgetVerdict(n, d) PROVE Grows
    BY <2>3 DEF ForgetVerdict, Grows
  <2>4. CASE SweepStale
    BY <2>4 DEF SweepStale, Grows
  <2>. QED
    BY <1>5, <2>1, <2>2, <2>3, <2>4 DEF TimePasses
<1>6. ASSUME NEW c \in Conn, DeleteTag(c) \/ FailClosed(c) PROVE Grows
  BY <1>6 DEF DeleteTag, FailClosed, Grows
<1>7. ASSUME NEW n \in Repo, NEW s \in Subject, Materialise(n, s) \/ Revoke(n, s) PROVE Grows
  BY <1>0, <1>7 DEF Materialise, Revoke, Grows, Past
<1>8. CASE Crash
  BY <1>8 DEF Crash, Grows
<1>9. CASE UNCHANGED vars
  BY <1>9 DEF vars, Grows
<1>. QED
  BY <1>1, <1>2, <1>3, <1>4, <1>5, <1>6, <1>7, <1>8, <1>9 DEF DPNext

\* A handler that goes on: what the next call rests on must be there.
LEMMA ScopedGo ==
  ASSUME Typed, Scoped, Grows, NEW c \in Conn, NEW to, Go(c, to),
         \A e \in Conn \ {c} : loc'[e] = loc[e],
         ConnScoped(c)'
  PROVE  (\A e \in Conn : ConnScoped(e))' /\ (\A e \in Conn : ConfinedAt(e))'
<1>1. Only(c) /\ answer' = answer
  BY DEF Only, Go, Typed, ConnOK
<1>2. ConfinedAt(c)'
  BY <1>1, ConfinedStill
<1>. QED
  BY <1>1, <1>2, ScopedOnly

\* A handler that answers with no blob, or with one of the caller's tenant.
LEMMA ScopedAnswer ==
  ASSUME Typed, Scoped, Grows, NEW c \in Conn, NEW a, Answer(c, a), UNCHANGED loc,
         \/ a \notin {"served", "accepted"}
         \/ req[c].kind \notin {"GetBlob", "Mount"}
         \/ \E n \in Repo : <<n, req[c].digest>> \in past.uploads /\ req[c].subject \in Member[n]
  PROVE  (\A e \in Conn : ConnScoped(e))' /\ (\A e \in Conn : ConfinedAt(e))'
<1>1. Only(c) /\ pc'[c] = "done" /\ answer'[c] = a
  BY DEF Only, Answer, Typed, ConnOK
<1>2. ConfinedAt(c)'
  BY <1>1, ConfinedStill DEF Grows, ConfinedAt
<1>3. ConnScoped(c)'
  BY <1>1 DEF ConnScoped
<1>. QED
  BY <1>1, <1>2, <1>3, ScopedOnly

\* What the push verb allows is a member, whether the repository exists or not.
LEMMA MayPushMember ==
  ASSUME Scoped, NEW n \in Repo, NEW s, NEW exists, MayPush(s, n, exists)
  PROVE  s \in Member[n]
  BY DEF MayPush, Scoped, IamScoped

\* Pushes keep the state scoped: a blob uploaded into n counts as n's own,
\* and a manifest names only what is stored in its repository.
LEMMA ScopedPush ==
  ASSUME Typed, Scoped, Grows, NEW c \in Conn, PushStep(c)
  PROVE  Scoped'
<1> USE DEF engineVars, tableVars, iamVars
<1> DEFINE Requests == (\A e \in Conn : ConnScoped(e))' /\ (\A e \in Conn : ConfinedAt(e))'
<1>0. /\ req[c] \in Request /\ req' = req /\ req[c].repo \in Repo
      /\ pc \in [Conn -> Calls \union {"new", "done"}] /\ loc \in [Conn -> Local]
  BY RequestParts DEF Typed, ConnOK, LocOK, Grows
<1>1. CASE PushExists(c)
  <2>1. ConnScoped(c)'
    BY <1>0, <1>1 DEF PushExists, Go, ConnScoped, Is
  <2>2. Requests
    BY <1>0, <1>1, <2>1, ScopedGo DEF PushExists
  <2>. QED
    BY <1>1, <2>2, ScopedFrame DEF PushExists, Scoped
<1>2. CASE PushCheck(c)
  <2>1. ASSUME MayPush(req[c].subject, req[c].repo, loc[c].exists)
             PROVE  Requests
    <3>1. Go(c, "forward") /\ loc' = loc
      BY <1>2, <2>1 DEF PushCheck, GoOr
    <3>2. req[c].subject \in Member[req[c].repo]
      BY <1>0, <2>1, MayPushMember
    <3>3. ConnScoped(c)'
      BY <1>0, <1>2, <3>1, <3>2 DEF PushCheck, Go, ConnScoped, Is
    <3>. QED
      BY <3>1, <3>3, ScopedGo
  <2>2. ASSUME ~MayPush(req[c].subject, req[c].repo, loc[c].exists)
             PROVE  Requests
    <3>1. Answer(c, "denied") /\ loc' = loc
      BY <1>2, <2>2 DEF PushCheck, GoOr
    <3>. QED
      BY <3>1, ScopedAnswer
  <2>3. Requests
    BY <2>1, <2>2
  <2>. QED
    BY <1>2, <2>3, ScopedFrame DEF PushCheck, Scoped
<1>3. CASE ForwardCapture(c)
  <2>1. req[c].digest \in stored'[req[c].repo]
    BY <1>0, <1>3 DEF ForwardCapture, Typed, EngineOK
  <2>2. ConnScoped(c)'
    BY <1>0, <1>3, <2>1 DEF ForwardCapture, Go, ConnScoped, Is
  <2>3. Requests
    BY <1>3, <2>2, ScopedGo DEF ForwardCapture
  <2>4. <<req[c].repo, req[c].digest>> \in past'.uploads
    BY <1>3 DEF ForwardCapture, Typed, Past
  <2>5. StoreScoped'
    <3>1. SUFFICES ASSUME NEW n \in Repo, NEW d \in stored'[n] PROVE Own(n, d)'
      BY DEF StoreScoped
    <3>2. d \in stored[n] \/ (n = req[c].repo /\ d = req[c].digest)
      BY <1>0, <1>3 DEF ForwardCapture, Typed, EngineOK
    <3>. QED
      BY <2>4, <3>2 DEF Own, Scoped, StoreScoped, Grows
  <2>. QED
    BY <1>3, <2>3, <2>5, ScopedFrame DEF ForwardCapture, Scoped
<1>4. CASE RecordUploadedBlob(c)
  <2>1. Requests
    BY <1>4, ScopedAnswer DEF RecordUploadedBlob, Typed, ConnOK, PcOfKind, At, Is
  <2>2. PendingScoped'
    <3>1. req[c].digest \in stored[req[c].repo]
      BY <1>4 DEF RecordUploadedBlob, Scoped, ConnScoped, At
    <3>2. SUFFICES ASSUME NEW n \in Repo, NEW d \in Digest, pending'[n][d] # "none"
                   PROVE  d \in stored[n]
      BY DEF PendingScoped, Grows
    <3>3. pending[n][d] # "none" \/ (n = req[c].repo /\ d = req[c].digest)
      BY <1>0, <1>4, <3>2 DEF RecordUploadedBlob, Recorded, Typed, TablesOK
    <3>. QED
      BY <3>1, <3>3 DEF Scoped, PendingScoped
  <2>. QED
    BY <1>4, <2>1, <2>2, ScopedFrame DEF RecordUploadedBlob, Scoped
<1>5. ASSUME NEW ok \in BOOLEAN, ForwardManifest(c, ok) PROVE Scoped'
  <2>1. ASSUME ok PROVE Requests
    <3>1. Go(c, "grant") /\ loc' = loc
      BY <1>5, <2>1 DEF ForwardManifest, GoOr
    <3>2. ConnScoped(c)'
      BY <1>0, <1>5, <3>1 DEF ForwardManifest, Go, ConnScoped, Is, At, Scoped
    <3>. QED
      BY <3>1, <3>2, ScopedGo
  <2>2. ASSUME ~ok PROVE Requests
    <3>1. Answer(c, "refused") /\ loc' = loc
      BY <1>5, <2>2 DEF ForwardManifest, GoOr
    <3>. QED
      BY <3>1, ScopedAnswer
  <2>3. Requests
    BY <2>1, <2>2
  <2>4. TagsScoped'
    <3>1. SUFFICES ASSUME NEW n \in Repo, NEW t \in Tag PROVE tags'[n][t] \subseteq stored[n]
      BY DEF TagsScoped, Grows
    <3>2. tags'[n][t] = tags[n][t] \/ (n = req[c].repo /\ tags'[n][t] = req[c].layers)
      BY <1>0, <1>5 DEF ForwardManifest, Typed, EngineOK
    <3>. QED
      BY <1>5, <3>2 DEF ForwardManifest, Scoped, TagsScoped
  <2>. QED
    BY <1>5, <2>3, <2>4, ScopedFrame DEF ForwardManifest, Scoped
<1>6. ASSUME NEW ok \in BOOLEAN, RecordPushGrant(c, ok) PROVE Scoped'
  <2>0. Is(c, "PutManifest") /\ req[c].subject \in Member[req[c].repo]
    BY <1>6 DEF RecordPushGrant, Typed, ConnOK, PcOfKind, At, Is, Scoped, ConnScoped
  <2>1. ASSUME ~loc[c].exists PROVE Requests
    <3>1. Go(c, "register") /\ loc' = loc
      BY <1>6, <2>1 DEF RecordPushGrant, GoOr
    <3>2. ConnScoped(c)'
      BY <1>0, <2>0, <3>1 DEF Go, ConnScoped, Is
    <3>. QED
      BY <3>1, <3>2, ScopedGo
  <2>2. ASSUME loc[c].exists PROVE Requests
    <3>1. Answer(c, "accepted") /\ loc' = loc
      BY <1>6, <2>2 DEF RecordPushGrant, GoOr
    <3>. QED
      BY <2>0, <3>1, ScopedAnswer DEF Is
  <2>3. Requests
    BY <2>1, <2>2
  <2>4. GrantsScoped'
    <3>1. SUFFICES ASSUME NEW n \in Repo, NEW s \in Subject, grants'[n][s] # "none"
                   PROVE  s \in Member[n]
      BY DEF GrantsScoped
    <3>2. CASE ok
      <4>1. grants[n][s] # "none" \/ (n = req[c].repo /\ s = req[c].subject)
        BY <1>0, <1>6, <3>1, <3>2 DEF RecordPushGrant, Recorded, Typed, TablesOK
      <4>. QED
        BY <2>0, <4>1 DEF Scoped, GrantsScoped
    <3>3. CASE ~ok
      BY <1>6, <3>1, <3>3 DEF RecordPushGrant, Scoped, GrantsScoped
    <3>. QED
      BY <3>2, <3>3
  <2>. QED
    BY <1>6, <2>3, <2>4, ScopedFrame DEF RecordPushGrant, Scoped
<1>7. ASSUME NEW ok \in BOOLEAN, RegisterRepository(c, ok) PROVE Scoped'
  <2>1. Requests
    BY <1>7, ScopedAnswer DEF RegisterRepository, Typed, ConnOK, PcOfKind, At, Is
  <2>. QED
    BY <1>7, <2>1, ScopedFrame DEF RegisterRepository, Scoped
<1>. QED
  BY <1>1, <1>2, <1>3, <1>4, <1>5, <1>6, <1>7 DEF PushStep

\* Mounts keep the state scoped: the caller is a member on both sides, so
\* both registries are the same tenant's (TenantAssumption).
LEMMA ScopedMount ==
  ASSUME Typed, Scoped, Grows, NEW c \in Conn, MountStep(c)
  PROVE  Scoped'
<1> USE DEF engineVars, tableVars, iamVars
<1> DEFINE Requests == (\A e \in Conn : ConnScoped(e))' /\ (\A e \in Conn : ConfinedAt(e))'
<1>0. /\ req[c] \in Request /\ req' = req /\ req[c].repo \in Repo
      /\ pc \in [Conn -> Calls \union {"new", "done"}] /\ loc \in [Conn -> Local]
  BY RequestParts DEF Typed, ConnOK, LocOK, Grows
<1>m. Is(c, "Mount") /\ req[c].from \in Repo
  BY <1>0, RequestParts DEF MountStep, MountSource, MountExists, MountCheck, ForwardMount,
     Typed, ConnOK, PcOfKind, At, Is
<1>1. CASE MountSource(c)
  <2>1. loc'[c].may => req[c].subject \in Member[req[c].from]
    BY <1>0, <1>1, <1>m DEF MountSource, Scoped, IamScoped, Local
  <2>2. ConnScoped(c)'
    BY <1>0, <1>1, <1>m, <2>1 DEF MountSource, Go, ConnScoped, Is
  <2>3. Requests
    BY <1>0, <1>1, <2>2, ScopedGo DEF MountSource
  <2>. QED
    BY <1>1, <2>3, ScopedFrame DEF MountSource, Scoped
<1>2. CASE MountExists(c)
  <2>1. loc'[c].may = loc[c].may
    BY <1>0, <1>2 DEF MountExists, Local
  <2>2. ConnScoped(c)'
    BY <1>0, <1>2, <1>m, <2>1 DEF MountExists, Go, ConnScoped, Is, At, Scoped
  <2>3. Requests
    BY <1>0, <1>2, <2>2, ScopedGo DEF MountExists
  <2>. QED
    BY <1>2, <2>3, ScopedFrame DEF MountExists, Scoped
<1>3. CASE MountCheck(c)
  <2>1. ASSUME loc[c].may /\ MayPush(req[c].subject, req[c].repo, loc[c].exists)
        PROVE  Requests
    <3>1. Go(c, "scope") /\ loc' = loc
      BY <1>3, <2>1 DEF MountCheck, GoOr
    <3>2. req[c].subject \in Member[req[c].repo]
      BY <1>0, <2>1, MayPushMember
    <3>3. req[c].subject \in Member[req[c].from]
      BY <1>3, <1>m, <2>1 DEF MountCheck, Scoped, ConnScoped, At, Is
    <3>4. ConnScoped(c)'
      BY <1>0, <1>m, <3>1, <3>2, <3>3 DEF Go, ConnScoped, Is
    <3>. QED
      BY <3>1, <3>4, ScopedGo
  <2>2. ASSUME ~(loc[c].may /\ MayPush(req[c].subject, req[c].repo, loc[c].exists))
        PROVE  Requests
    <3>1. Answer(c, "denied") /\ loc' = loc
      BY <1>3, <2>2 DEF MountCheck, GoOr
    <3>. QED
      BY <3>1, ScopedAnswer
  <2>. QED
    BY <1>3, <2>1, <2>2, ScopedFrame DEF MountCheck, Scoped
<1>4. CASE ForwardMount(c)
  <2>1. /\ req[c].subject \in Member[req[c].from] \intersect Member[req[c].repo]
        /\ req[c].digest \in stored[req[c].from]
    BY <1>4, <1>m DEF ForwardMount, Scoped, ConnScoped, ScopeRepo, At, Is
  <2>2. Member[req[c].from] = Member[req[c].repo]
    BY <1>0, <1>m, <2>1, TenantAssumption
  <2>3. Own(req[c].repo, req[c].digest)
    BY <1>m, <2>1, <2>2 DEF Scoped, StoreScoped, Own
  <2>4. \E n \in Repo : <<n, req[c].digest>> \in past.uploads /\ req[c].subject \in Member[n]
    BY <2>1, <2>3 DEF Own
  <2>5. Requests
    BY <1>4, <2>4, ScopedAnswer DEF ForwardMount
  <2>6. StoreScoped'
    <3>1. SUFFICES ASSUME NEW n \in Repo, NEW d \in stored'[n] PROVE Own(n, d)'
      BY DEF StoreScoped
    <3>2. d \in stored[n] \/ (n = req[c].repo /\ d = req[c].digest)
      BY <1>0, <1>4 DEF ForwardMount, Typed, EngineOK
    <3>3. Own(n, d)
      BY <2>3, <3>2 DEF Scoped, StoreScoped
    <3>. QED
      BY <3>3 DEF Own, Grows
  <2>. QED
    BY <1>4, <2>5, <2>6, ScopedFrame DEF ForwardMount, Scoped
<1>. QED
  BY <1>1, <1>2, <1>3, <1>4 DEF MountStep

\* The branch after the scope check: a hit is a digest stored where it was
\* looked for, a miss asks for a pending row or answers 404.
LEMMA ScopedAfterScope ==
  ASSUME Typed, Scoped, Grows, NEW c \in Conn, pc[c] \in {"scope", "remember"}, NEW in,
         in => req[c].digest \in stored[ScopeRepo(c)],
         AfterScope(c, in), UNCHANGED loc
  PROVE  (\A e \in Conn : ConnScoped(e))' /\ (\A e \in Conn : ConfinedAt(e))'
<1>0. /\ req[c] \in Request /\ req' = req /\ pc \in [Conn -> Calls \union {"new", "done"}]
      /\ req[c].kind \in {"Mount", "GetBlob"}
  BY DEF Typed, ConnOK, PcOfKind, Grows
<1>1. ScopeRepo(c) \in Repo /\ ScopeRepo(c)' = ScopeRepo(c)
  BY <1>0, RequestParts DEF ScopeRepo, Is
<1>2. CASE in
  <2>1. Go(c, "forward")
    BY <1>2 DEF AfterScope
  <2>2. req[c].digest \in stored'[ScopeRepo(c)]
    BY <1>1, <1>2 DEF Grows
  <2>3. ConnScoped(c)'
    BY <1>0, <1>1, <2>1, <2>2 DEF Go, ConnScoped, Is, Scoped
  <2>. QED
    BY <2>1, <2>3, ScopedGo
<1>3. CASE ~in /\ Is(c, "GetBlob")
  <2>1. Go(c, "pending")
    BY <1>3 DEF AfterScope, GoOr
  <2>2. ConnScoped(c)'
    BY <1>0, <1>3, <2>1 DEF Go, ConnScoped, Is, Scoped
  <2>. QED
    BY <2>1, <2>2, ScopedGo
<1>4. CASE ~in /\ ~Is(c, "GetBlob")
  <2>1. Answer(c, "hidden")
    BY <1>4 DEF AfterScope, GoOr
  <2>. QED
    BY <2>1, ScopedAnswer
<1>. QED
  BY <1>2, <1>3, <1>4

\* The scope check keeps the state scoped: a verdict "in" was a manifest of
\* the repository when it was scanned, and blobs outlive their tags.
LEMMA ScopedScope ==
  ASSUME Typed, Scoped, Grows, NEW c \in Conn, ScopeStep(c)
  PROVE  Scoped'
<1> USE DEF engineVars, tableVars, iamVars
<1>0. /\ req[c] \in Request /\ req' = req
      /\ pc \in [Conn -> Calls \union {"new", "done"}] /\ loc \in [Conn -> Local]
      /\ req[c].kind \in {"Mount", "GetBlob"}
  BY DEF ScopeStep, ScopeCached, ScanTags, RememberVerdict, Typed, ConnOK, PcOfKind, At,
     LocOK, Grows
<1>1. ScopeRepo(c) \in Repo /\ ScopeRepo(c)' = ScopeRepo(c) /\ req[c].digest \in Digest
  BY <1>0, RequestParts DEF ScopeRepo, Is
<1>2. CASE ScopeCached(c)
  <2>1. verdict[ScopeRepo(c)][req[c].digest] = "in" => req[c].digest \in stored[ScopeRepo(c)]
    BY <1>1 DEF Scoped, CacheScoped
  <2>2. (\A e \in Conn : ConnScoped(e))' /\ (\A e \in Conn : ConfinedAt(e))'
    BY <1>2, <2>1, ScopedAfterScope DEF ScopeCached, At
  <2>. QED
    BY <1>2, <2>2, ScopedFrame DEF ScopeCached, Scoped
<1>3. CASE ScanTags(c)
  <2>1. InManifests(ScopeRepo(c), req[c].digest) => req[c].digest \in stored[ScopeRepo(c)]
    BY <1>1 DEF InManifests, Scoped, TagsScoped
  <2>2. loc'[c].in => req[c].digest \in stored[ScopeRepo(c)]
    BY <1>0, <1>3, <2>1 DEF ScanTags, Local
  <2>3. Go(c, "remember") /\ stored' = stored /\ pc[c] = "scope"
    BY <1>3 DEF ScanTags, At
  <2>4. ConnScoped(c)'
    BY <1>0, <1>1, <2>2, <2>3 DEF Go, ConnScoped, Is, Scoped
  <2>5. (\A e \in Conn : ConnScoped(e))' /\ (\A e \in Conn : ConfinedAt(e))'
    BY <1>0, <1>3, <2>4, ScopedGo DEF ScanTags
  <2>. QED
    BY <1>3, <2>5, ScopedFrame DEF ScanTags, Scoped
<1>4. CASE RememberVerdict(c)
  <2>1. loc[c].in => req[c].digest \in stored[ScopeRepo(c)]
    BY <1>4 DEF RememberVerdict, At, Scoped, ConnScoped
  <2>2. (\A e \in Conn : ConnScoped(e))' /\ (\A e \in Conn : ConfinedAt(e))'
    BY <1>4, <2>1, ScopedAfterScope DEF RememberVerdict, At
  <2>3. CacheScoped'
    <3>1. SUFFICES ASSUME NEW n \in Repo, NEW d \in Digest, verdict'[n][d] = "in"
                   PROVE  d \in stored[n]
      BY DEF CacheScoped, Grows
    <3>2. verdict[n][d] = "in" \/ (n = ScopeRepo(c) /\ d = req[c].digest /\ loc[c].in)
      BY <1>1, <1>4, <3>1 DEF RememberVerdict, Typed, CacheOK
    <3>. QED
      BY <2>1, <3>2 DEF Scoped, CacheScoped
  <2>. QED
    BY <1>4, <2>2, <2>3, ScopedFrame DEF RememberVerdict, Scoped
<1>. QED
  BY <1>2, <1>3, <1>4 DEF ScopeStep

\* Pulls keep the state scoped: each bridge past a denied check (the push
\* context, the grant) admits members only, and the scope check or a pending
\* row stands before every blob that is forwarded.
LEMMA ScopedPull ==
  ASSUME Typed, Scoped, Grows, NEW c \in Conn, PullStep(c)
  PROVE  Scoped'
<1> USE DEF engineVars, tableVars, iamVars
<1> DEFINE Requests == (\A e \in Conn : ConnScoped(e))' /\ (\A e \in Conn : ConfinedAt(e))'
<1>0. /\ req[c] \in Request /\ req' = req /\ req[c].repo \in Repo
      /\ pc \in [Conn -> Calls \union {"new", "done"}] /\ loc \in [Conn -> Local]
  BY RequestParts DEF Typed, ConnOK, LocOK, Grows
<1>1. CASE PullAllowed(c)
  <2>1. req[c].subject \in Member[req[c].repo]
    BY <1>0, <1>1 DEF PullAllowed, Scoped, IamScoped
  <2>2. ConnScoped(c)'
    BY <1>0, <1>1, <2>1 DEF PullAllowed, Go, ConnScoped, Is
  <2>3. Requests
    BY <1>0, <1>1, <2>2, ScopedGo DEF PullAllowed
  <2>. QED
    BY <1>1, <2>3, ScopedFrame DEF PullAllowed, Scoped
<1>2. CASE PullDenied(c)
  <2>1. ConnScoped(c)'
    BY <1>0, <1>2 DEF PullDenied, Go, ConnScoped, Is
  <2>2. Requests
    BY <1>0, <1>2, <2>1, ScopedGo DEF PullDenied
  <2>. QED
    BY <1>2, <2>2, ScopedFrame DEF PullDenied, Scoped
<1>3. CASE PushContext(c)
  <2>1. Is(c, "GetBlob")
    BY <1>3 DEF PushContext, At, Typed, ConnOK, PcOfKind
  <2>2. ConnScoped(c)'
    BY <1>0, <1>3, <2>1 DEF PushContext, Go, ConnScoped, Is
  <2>3. Requests
    BY <1>0, <1>3, <2>2, ScopedGo DEF PushContext
  <2>. QED
    BY <1>3, <2>3, ScopedFrame DEF PushContext, Scoped
<1>4. CASE PushContextUploaded(c)
  <2>1. Is(c, "GetBlob") /\ req[c].digest \in Digest
    BY <1>0, <1>4, RequestParts DEF PushContextUploaded, At, Typed, ConnOK, PcOfKind, Is
  <2>2. BlobUploaded(req[c].repo, req[c].digest) => req[c].digest \in stored[req[c].repo]
    BY <1>0, <2>1 DEF BlobUploaded, Scoped, PendingScoped
  <2>3. req[c].subject \in Member[req[c].repo]
    BY <1>4, <2>1 DEF PushContextUploaded, At, Scoped, ConnScoped, Is
  <2>4. stored' = stored
    BY <1>4 DEF PushContextUploaded
  <2>5. ConnScoped(c)'
    BY <1>0, <1>4, <2>1, <2>2, <2>3, <2>4 DEF PushContextUploaded, Go, ConnScoped, Is, ScopeRepo
  <2>6. Requests
    BY <1>0, <1>4, <2>5, ScopedGo DEF PushContextUploaded
  <2>. QED
    BY <1>4, <2>6, ScopedFrame DEF PushContextUploaded, Scoped
<1>5. CASE PushOwner(c)
  <2>1. req[c].kind \in {"GetBlob", "GetManifest"} /\ req[c].subject \in Subject
    BY <1>0, <1>5, RequestParts DEF PushOwner, At, Typed, ConnOK, PcOfKind
  <2>2. ASSUME PushGranted(req[c].repo, req[c].subject) PROVE Requests
    <3>1. Go(c, IF Is(c, "GetBlob") THEN "scope" ELSE "forward") /\ loc' = loc
      BY <1>5, <2>2 DEF PushOwner, GoOr
    <3>2. req[c].subject \in Member[req[c].repo]
      BY <1>0, <2>1, <2>2 DEF PushGranted, Scoped, GrantsScoped
    <3>3. ConnScoped(c)'
      BY <1>0, <2>1, <3>1, <3>2 DEF Go, ConnScoped, Is
    <3>. QED
      BY <3>1, <3>3, ScopedGo
  <2>3. ASSUME ~PushGranted(req[c].repo, req[c].subject) PROVE Requests
    <3>1. Answer(c, "hidden") /\ loc' = loc
      BY <1>5, <2>3 DEF PushOwner, GoOr
    <3>. QED
      BY <3>1, ScopedAnswer
  <2>. QED
    BY <1>5, <2>2, <2>3, ScopedFrame DEF PushOwner, Scoped
<1>6. CASE ScopedUpload(c)
  <2>1. Is(c, "GetBlob") /\ req[c].digest \in Digest
    BY <1>0, <1>6, RequestParts DEF ScopedUpload, At, Typed, ConnOK, PcOfKind, Is
  <2>2. ASSUME BlobUploaded(req[c].repo, req[c].digest) PROVE Requests
    <3>1. Go(c, "forward") /\ loc' = loc /\ stored' = stored
      BY <1>6, <2>2 DEF ScopedUpload, GoOr
    <3>2. req[c].digest \in stored[req[c].repo]
      BY <1>0, <2>1, <2>2 DEF BlobUploaded, Scoped, PendingScoped
    <3>3. req[c].subject \in Member[req[c].repo]
      BY <1>6, <2>1 DEF ScopedUpload, At, Scoped, ConnScoped, Is
    <3>4. ConnScoped(c)'
      BY <1>0, <2>1, <3>1, <3>2, <3>3 DEF Go, ConnScoped, Is, ScopeRepo
    <3>. QED
      BY <3>1, <3>4, ScopedGo
  <2>3. ASSUME ~BlobUploaded(req[c].repo, req[c].digest) PROVE Requests
    <3>1. Answer(c, "hidden") /\ loc' = loc
      BY <1>6, <2>3 DEF ScopedUpload, GoOr
    <3>. QED
      BY <3>1, ScopedAnswer
  <2>. QED
    BY <1>6, <2>2, <2>3, ScopedFrame DEF ScopedUpload, Scoped
<1>7. CASE ForwardPull(c)
  <2>1. ASSUME Is(c, "GetBlob")
        PROVE  \E n \in Repo : <<n, req[c].digest>> \in past.uploads /\ req[c].subject \in Member[n]
    <3>1. req[c].digest \in stored[req[c].repo] /\ req[c].subject \in Member[req[c].repo]
      BY <1>7, <2>1 DEF ForwardPull, At, Scoped, ConnScoped, Is, ScopeRepo
    <3>. QED
      BY <1>0, <3>1 DEF Scoped, StoreScoped, Own
  <2>2. Requests
    BY <1>7, <2>1, ScopedAnswer DEF ForwardPull, Is
  <2>. QED
    BY <1>7, <2>2, ScopedFrame DEF ForwardPull, Scoped
<1>8. ASSUME NEW ok \in BOOLEAN, DropPushGrant(c, ok) PROVE Scoped'
  <2>1. Requests
    BY <1>8, ScopedStill DEF DropPushGrant
  <2>2. GrantsScoped'
    BY <1>0, <1>8 DEF DropPushGrant, DeletePushGrant, Scoped, GrantsScoped, Typed, TablesOK
  <2>. QED
    BY <1>8, <2>1, <2>2, ScopedFrame DEF DropPushGrant, Scoped
<1>. QED
  BY <1>1, <1>2, <1>3, <1>4, <1>5, <1>6, <1>7, <1>8 DEF PullStep

\* A row that ages or is swept, and an entry that is forgotten, opens nothing.
LEMMA ScopedTime ==
  ASSUME Typed, Scoped, Grows, TimePasses
  PROVE  Scoped'
<1> USE DEF engineVars, tableVars, iamVars
<1>0. (\A e \in Conn : ConnScoped(e))' /\ (\A e \in Conn : ConfinedAt(e))'
  BY ScopedStill DEF TimePasses, AgePending, ForgetVerdict, AgeGrant, SweepStale
<1>1. ASSUME NEW n \in Repo, NEW d \in Digest, AgePending(n, d) PROVE Scoped'
  <2>1. PendingScoped'
    BY <1>1 DEF AgePending, Scoped, PendingScoped, Typed, TablesOK
  <2>. QED
    BY <1>0, <1>1, <2>1, ScopedFrame DEF AgePending, Scoped
<1>2. ASSUME NEW n \in Repo, NEW d \in Digest, ForgetVerdict(n, d) PROVE Scoped'
  <2>1. CacheScoped'
    BY <1>2 DEF ForgetVerdict, Scoped, CacheScoped, Typed, CacheOK
  <2>. QED
    BY <1>0, <1>2, <2>1, ScopedFrame DEF ForgetVerdict, Scoped
<1>3. ASSUME NEW n \in Repo, NEW s \in Subject, AgeGrant(n, s) PROVE Scoped'
  <2>1. GrantsScoped'
    BY <1>3 DEF AgeGrant, Scoped, GrantsScoped, Typed, TablesOK
  <2>. QED
    BY <1>0, <1>3, <2>1, ScopedFrame DEF AgeGrant, Scoped
<1>4. CASE SweepStale
  <2>1. PendingScoped'
    BY <1>4 DEF SweepStale, Swept, Scoped, PendingScoped
  <2>2. GrantsScoped'
    BY <1>4 DEF SweepStale, Swept, Scoped, GrantsScoped
  <2>. QED
    BY <1>0, <1>4, <2>1, <2>2, ScopedFrame DEF SweepStale, Scoped
<1>. QED
  BY <1>1, <1>2, <1>3, <1>4 DEF TimePasses

\* Every step keeps the state scoped.
LEMMA ScopedStep ==
  ASSUME Typed, Scoped, [DPNext]_vars
  PROVE  Scoped'
<1> USE DEF engineVars, tableVars, iamVars
<1>0. Grows
  BY GrowsStep
<1>1. ASSUME NEW c \in Conn, DeleteTag(c) PROVE Scoped'
  <2>1. (\A e \in Conn : ConnScoped(e))' /\ (\A e \in Conn : ConfinedAt(e))'
    BY <1>0, <1>1, ScopedAnswer DEF DeleteTag, Is
  <2>2. TagsScoped'
    BY <1>1 DEF DeleteTag, Scoped, TagsScoped, Typed, EngineOK
  <2>. QED
    BY <1>0, <1>1, <2>1, <2>2, ScopedFrame DEF DeleteTag, Scoped
<1>2. ASSUME NEW c \in Conn, FailClosed(c) PROVE Scoped'
  <2>1. (\A e \in Conn : ConnScoped(e))' /\ (\A e \in Conn : ConfinedAt(e))'
    BY <1>0, <1>2, ScopedAnswer DEF FailClosed
  <2>. QED
    BY <1>0, <1>2, <2>1, ScopedFrame DEF FailClosed, Scoped
<1>3. ASSUME NEW n \in Repo, NEW s \in Subject, Materialise(n, s) \/ Revoke(n, s) PROVE Scoped'
  <2>1. (\A e \in Conn : ConnScoped(e))' /\ (\A e \in Conn : ConfinedAt(e))'
    BY <1>0, <1>3, ScopedStill DEF Materialise, Revoke
  <2>2. IamScoped'
    BY <1>3 DEF Materialise, Revoke, Scoped, IamScoped, Typed, IamOK
  <2>. QED
    BY <1>0, <1>3, <2>1, <2>2, ScopedFrame DEF Materialise, Revoke, Scoped
<1>4. CASE Crash
  <2>1. ASSUME NEW c \in Conn PROVE ConnScoped(c)' /\ ConfinedAt(c)'
    <3>1. pc'[c] \in {"new", "done"}
      BY <1>4 DEF Crash
    <3>2. answer'[c] = answer[c] \/ answer'[c] = "lost"
      BY <1>4 DEF Crash
    <3>3. ConfinedAt(c)'
      BY <1>0, <3>2, ConfinedStill
    <3>. QED
      BY <3>1, <3>3 DEF ConnScoped
  <2>2. CacheScoped'
    BY <1>4 DEF Crash, CacheScoped
  <2>. QED
    BY <1>0, <1>4, <2>1, <2>2, ScopedFrame DEF Crash, Scoped
<1>5. CASE UNCHANGED vars
  <2>1. (\A e \in Conn : ConnScoped(e))' /\ (\A e \in Conn : ConfinedAt(e))'
    BY <1>0, <1>5, ScopedStill DEF vars
  <2>. QED
    BY <1>0, <1>5, <2>1, ScopedFrame DEF vars, Scoped
<1>. QED
  BY <1>0, <1>1, <1>2, <1>3, <1>4, <1>5,
     ScopedPush, ScopedMount, ScopedScope, ScopedPull, ScopedTime DEF DPNext

\* ConfinedToTenant: in every deployment whose tenants are disjoint, and
\* however requests, failures, TTLs, grants and revocations interleave, a
\* caller of serveBlob or serveMount gets only digests that were uploaded
\* into a registry it is a member of.
THEOREM TenantConfinement == DPSpec => []ConfinedToTenant
<1>1. DPInit => Typed /\ Scoped
  BY TypedInit, ScopedInit
<1>2. Typed /\ Scoped /\ [DPNext]_vars => Typed' /\ Scoped'
  BY TypedStep, ScopedStep
<1>3. Scoped => ConfinedToTenant
  BY DEF Scoped, ConfinedAt, ConfinedToTenant
<1>. QED
  BY <1>1, <1>2, <1>3, PTL DEF DPSpec
-----------------------------------------------------------------------------
(* Who sees what after a revocation, a push or an upload.                  *)

Key(c) == <<req[c].repo, req[c].subject>>

\* The grant is gone and nobody is about to record another one.
ClosedMeansNoGrant ==
  \A n \in Repo, s \in Subject :
    <<n, s>> \in past.closed => ~PushGranted(n, s) /\ ~Pushing(n, s)

\* iam does not give back what was revoked.
RevokedIsOut ==
  \A n \in Repo, s \in Subject : <<n, s>> \in past.revoked => s \notin allowed[n]

\* Where a pull stands that began after the grant and the access were gone.
LockedOut(c) ==
  /\ req[c].kind \in {"GetBlob", "GetManifest"}
  /\ Key(c) \in past.revoked \intersect past.closed
  /\ Is(c, "GetManifest") => pc[c] \in {"bridge", "done"} /\ answer[c] # "served"

RevokeInv ==
  /\ ClosedMeansNoGrant
  /\ RevokedIsOut
  /\ \A c \in past.seesNothing : LockedOut(c)

\* A pusher keeps the grant until iam lets it in or access is revoked.
PusherHolds ==
  \A n \in Repo, s \in Subject :
    <<n, s>> \in past.pushed \ past.revoked => PushGranted(n, s) \/ s \in allowed[n]

\* Only an allowed pull has the grant dropped.
DropsAfterAccess ==
  \A c \in drops : req[c].subject \in allowed[req[c].repo] \/ Key(c) \in past.revoked

\* Where a pull of a manifest stands that began while its subject held a grant.
LetIn(c) ==
  Is(c, "GetManifest") =>
    /\ pc[c] # "new"
    /\ pc[c] = "bridge" => /\ PushGranted(req[c].repo, req[c].subject)
                           /\ req[c].subject \notin allowed[req[c].repo]
                           /\ Key(c) \notin past.revoked
    /\ answer[c] # "hidden"

PusherInv ==
  /\ PusherHolds
  /\ DropsAfterAccess
  /\ \A c \in past.seesPush : LetIn(c)

\* The row of an upload is there as long as the client may rely on it.
AckedIsPending ==
  \A n \in Repo, d \in Digest : <<n, d>> \in past.acked => BlobUploaded(n, d)

\* A repository in the engine has had a manifest.
ExistsIsEstablished == \A n \in Repo : RepoExists(n) => n \in past.established

\* Until iam has allowed a pull of a blob, v_get is not noted.
DeniedSoFar ==
  \A c \in Conn : Is(c, "GetBlob") /\ pc[c] \in {"new", "pushContext", "uploaded", "bridge"} =>
    ~loc[c].may

\* Where a pull stands that began after the 201 of the upload of its blob.
Reaches(c) ==
  /\ Is(c, "GetBlob")
  /\ pc[c] # "new"
  /\ <<req[c].repo, req[c].digest>> \in past.acked
  /\ (pc[c] = "bridge" \/ answer[c] = "hidden") /\ req[c].subject \in Member[req[c].repo] =>
       ~loc[c].may /\ req[c].repo \in past.established

UploadInv ==
  /\ AckedIsPending
  /\ ExistsIsEstablished
  /\ DeniedSoFar
  /\ \A c \in past.seesUpload : Reaches(c)

\* One call of the handler of c.
Handles(c) ==
  \/ PushStep(c) \/ MountStep(c) \/ ScopeStep(c) \/ DeleteTag(c) \/ FailClosed(c)
  \/ PullAllowed(c) \/ PullDenied(c) \/ PushContext(c) \/ PushContextUploaded(c)
  \/ PushOwner(c) \/ ScopedUpload(c) \/ ForwardPull(c)

\* A handler moves nobody but itself, and only until it has answered.
Moves(c) ==
  /\ pc[c] # "done"
  /\ \A k \in Conn : k # c => pc'[k] = pc[k] /\ answer'[k] = answer[k] /\ loc'[k] = loc[k]

\* Only an allowed pull starts a detached delete; no call changes what iam allows.
LEMMA HandlesMoves ==
  ASSUME Typed, NEW c \in Conn, Handles(c)
  PROVE  (Moves(c) /\ UNCHANGED <<req, drops, allowed>>) \/ PullAllowed(c)
<1>. ConnOK /\ LocOK
  BY DEF Typed
<1>1. CASE PushStep(c)
  BY <1>1 DEF PushStep, PushExists, PushCheck, ForwardCapture, RecordUploadedBlob,
     ForwardManifest, RecordPushGrant, RegisterRepository, GoOr, Go, Answer, Moves, At,
     ConnOK, LocOK, iamVars
<1>2. CASE MountStep(c)
  BY <1>2 DEF MountStep, MountSource, MountExists, MountCheck, ForwardMount, GoOr, Go,
     Answer, Moves, At, ConnOK, LocOK, iamVars
<1>3. CASE ScopeStep(c)
  BY <1>3 DEF ScopeStep, ScopeCached, ScanTags, RememberVerdict, AfterScope, GoOr, Go,
     Answer, Moves, At, ConnOK, LocOK, iamVars
<1>4. CASE DeleteTag(c) \/ FailClosed(c)
  BY <1>4 DEF DeleteTag, FailClosed, Answer, Moves, At, ConnOK, LocOK, iamVars
<1>5. CASE PullDenied(c) \/ PushContext(c) \/ PushContextUploaded(c)
  BY <1>5 DEF PullDenied, PushContext, PushContextUploaded, Go, Moves, At, ConnOK, LocOK,
     iamVars
<1>6. CASE PushOwner(c) \/ ScopedUpload(c) \/ ForwardPull(c)
  BY <1>6 DEF PushOwner, ScopedUpload, ForwardPull, GoOr, Go, Answer, Moves, At, ConnOK,
     LocOK, iamVars
<1>. QED
  BY <1>1, <1>2, <1>3, <1>4, <1>5, <1>6 DEF Handles

LEMMA AllowedMoves ==
  ASSUME Typed, NEW c \in Conn, PullAllowed(c)
  PROVE  Moves(c) /\ UNCHANGED <<req, allowed>>
  BY DEF PullAllowed, Go, Moves, At, Typed, ConnOK, LocOK, iamVars

\* What a pull of a manifest can do.
LEMMA ManifestPull ==
  ASSUME Typed, NEW c \in Conn, Handles(c), Is(c, "GetManifest")
  PROVE  PullAllowed(c) \/ PullDenied(c) \/ PushOwner(c) \/ ForwardPull(c) \/ FailClosed(c)
<1>. PcOfKind
  BY DEF Typed, ConnOK
<1>1. ~PushStep(c)
  BY DEF PushStep, PushExists, PushCheck, ForwardCapture, RecordUploadedBlob,
     ForwardManifest, RecordPushGrant, RegisterRepository, PcOfKind, At, Is
<1>2. ~MountStep(c) /\ ~ScopeStep(c) /\ ~DeleteTag(c)
  BY DEF MountStep, MountSource, MountExists, MountCheck, ForwardMount, ScopeStep,
     ScopeCached, ScanTags, RememberVerdict, DeleteTag, PcOfKind, At, Is
<1>3. ~PushContext(c) /\ ~PushContextUploaded(c) /\ ~ScopedUpload(c)
  BY DEF PushContext, PushContextUploaded, ScopedUpload, PcOfKind, At, Is
<1>. QED
  BY <1>1, <1>2, <1>3 DEF Handles

-----------------------------------------------------------------------------
(* After a revocation.                                                     *)

LEMMA RevokeInit == DPInit => RevokeInv
  BY DEF DPInit, RevokeInv, ClosedMeansNoGrant, RevokedIsOut

\* A pull of a manifest that was locked out can only be told so, or fail.
LEMMA LockedOutHandles ==
  ASSUME Typed, RevokeInv, NEW c \in past.seesNothing, Handles(c), Is(c, "GetManifest")
  PROVE  pc'[c] = "done" /\ answer'[c] # "served"
<1>1. c \in Conn /\ req[c].repo \in Repo /\ req[c].subject \in Subject
  BY RequestParts DEF Typed, Past, ConnOK, Is
<1>2. LockedOut(c) /\ ~PushGranted(req[c].repo, req[c].subject)
  BY <1>1 DEF RevokeInv, ClosedMeansNoGrant, LockedOut, Key
<1>3. ConnOK /\ pc[c] = "bridge"
  BY <1>1, <1>2, HandlesMoves, AllowedMoves DEF LockedOut, Moves, Typed
<1>4. PushOwner(c) \/ FailClosed(c)
  BY <1>1, <1>3, ManifestPull DEF PullAllowed, PullDenied, ForwardPull, At
<1>. QED
  BY <1>1, <1>2, <1>3, <1>4 DEF PushOwner, FailClosed, GoOr, Answer, ConnOK, At

\* A push that is under way was so before a step of another kind.
LEMMA PushingBefore ==
  ASSUME Typed, NEW c \in Conn, Moves(c), UNCHANGED req,
         NEW n \in Repo, NEW s \in Subject, Pushing(n, s)',
         pc[c] = "new" => ~Is(c, "PutManifest")
  PROVE  Pushing(n, s)
  BY DEF Pushing, Moves, Is

\* The pulls that no step of c disturbs.
LEMMA LockedOutStays ==
  ASSUME Typed, RevokeInv, NEW c \in Conn, Handles(c), Moves(c), UNCHANGED req,
         NEW k \in past.seesNothing,
         Key(k) \in past'.revoked \intersect past'.closed
  PROVE  LockedOut(k)'
<1>1. LockedOut(k) /\ k \in Conn
  BY DEF RevokeInv, Typed, Past
<1>2. Key(k)' = Key(k) /\ Is(k, "GetManifest")' = Is(k, "GetManifest") /\ req'[k].kind = req[k].kind
  BY DEF Key, Is
<1>3. CASE k # c
  BY <1>1, <1>2, <1>3 DEF LockedOut, Moves
<1>4. CASE k = c
  BY <1>1, <1>2, <1>4, LockedOutHandles DEF LockedOut
<1>. QED
  BY <1>3, <1>4

\* A handler that records no grant and begins neither push nor pull.
LEMMA RevokeQuiet ==
  ASSUME Typed, RevokeInv, NEW c \in Conn, Handles(c), Moves(c),
         UNCHANGED <<req, grants, allowed>>,
         past'.closed = past.closed, past'.revoked = past.revoked,
         past'.seesNothing = past.seesNothing,
         pc[c] = "new" => ~Is(c, "PutManifest")
  PROVE  RevokeInv'
<1>1. ClosedMeansNoGrant'
  BY PushingBefore DEF RevokeInv, ClosedMeansNoGrant, PushGranted
<1>2. RevokedIsOut'
  BY DEF RevokeInv, RevokedIsOut
<1>3. ASSUME NEW k \in past.seesNothing PROVE LockedOut(k)'
  BY <1>3, LockedOutStays DEF RevokeInv, LockedOut
<1>. QED
  BY <1>1, <1>2, <1>3 DEF RevokeInv

\* A push reopens what it may soon have a grant for.
LEMMA RevokePushExists ==
  ASSUME Typed, RevokeInv, NEW c \in Conn, PushExists(c)
  PROVE  RevokeInv'
<1>1. Handles(c)
  BY DEF Handles, PushStep
<1>2. Moves(c) /\ UNCHANGED <<req, grants, allowed>>
  BY <1>1, HandlesMoves, AllowedMoves DEF PushExists, tableVars, iamVars
<1>3. CASE ~Is(c, "PutManifest")
  BY <1>1, <1>2, <1>3, RevokeQuiet DEF PushExists
<1>4. CASE Is(c, "PutManifest")
  <2>. DEFINE n == req[c].repo
              s == req[c].subject
  <2>1. n \in Repo /\ s \in Subject
    BY <1>4, RequestParts DEF Typed, ConnOK, Is
  <2>2. /\ past'.closed = past.closed \ {<<n, s>>}
        /\ past'.seesNothing = past.seesNothing \ PullsOf(n, s)
        /\ past'.revoked = past.revoked
    BY <1>4 DEF PushExists, Typed, Past
  <2>3. ClosedMeansNoGrant'
    <3>. SUFFICES ASSUME NEW m \in Repo, NEW u \in Subject, <<m, u>> \in past'.closed
                  PROVE  (~PushGranted(m, u) /\ ~Pushing(m, u))'
      BY DEF ClosedMeansNoGrant
    <3>1. ~PushGranted(m, u) /\ ~Pushing(m, u) /\ <<m, u>> # <<n, s>>
      BY <2>2 DEF RevokeInv, ClosedMeansNoGrant
    <3>2. ~(Pushing(m, u)')
      BY <1>2, <3>1 DEF Pushing, Moves, Is
    <3>. QED
      BY <1>2, <3>1, <3>2 DEF PushGranted
  <2>4. RevokedIsOut'
    BY <1>2, <2>2 DEF RevokeInv, RevokedIsOut
  <2>5. ASSUME NEW k \in past'.seesNothing PROVE LockedOut(k)'
    <3>1. k \in past.seesNothing /\ k \notin PullsOf(n, s) /\ k \in Conn
      BY <2>2, <2>5 DEF Typed, Past
    <3>2. Key(k) \in past.revoked \intersect past.closed /\ Key(k) # <<n, s>>
      BY <3>1 DEF RevokeInv, LockedOut, PullsOf, Key
    <3>. QED
      BY <1>1, <1>2, <2>2, <3>1, <3>2, LockedOutStays
  <2>. QED
    BY <2>3, <2>4, <2>5 DEF RevokeInv
<1>. QED
  BY <1>3, <1>4

\* A pull that begins is promised what holds at this moment.
LEMMA RevokeNotePull ==
  ASSUME Typed, RevokeInv, NEW c \in Conn, PullAllowed(c) \/ PullDenied(c)
  PROVE  RevokeInv'
<1>1. Handles(c) /\ req[c].kind \in {"GetBlob", "GetManifest"} /\ pc[c] = "new"
  BY DEF Handles, PullAllowed, PullDenied, At
<1>2. Moves(c) /\ UNCHANGED <<req, grants, allowed>>
  BY <1>1, HandlesMoves, AllowedMoves DEF PullAllowed, PullDenied, tableVars, iamVars
<1>3. /\ past'.closed = past.closed /\ past'.revoked = past.revoked
      /\ past'.seesNothing = past.seesNothing \union
           (IF Key(c) \in past.revoked \intersect past.closed THEN {c} ELSE {})
  BY DEF PullAllowed, PullDenied, NotePull, Typed, Past, Key
<1>4. ClosedMeansNoGrant' /\ RevokedIsOut'
  BY <1>1, <1>2, <1>3, PushingBefore DEF RevokeInv, ClosedMeansNoGrant, RevokedIsOut,
     PushGranted, Is
<1>5. ASSUME NEW k \in past'.seesNothing PROVE LockedOut(k)'
  <2>1. CASE k \in past.seesNothing
    BY <1>1, <1>2, <1>3, <2>1, LockedOutStays DEF RevokeInv, LockedOut
  <2>2. CASE k \notin past.seesNothing
    <3>1. k = c /\ Key(c) \in past.revoked \intersect past.closed
      BY <1>3, <1>5, <2>2
    <3>2. req[c].repo \in Repo /\ req[c].subject \in Subject
      BY <1>1, RequestParts DEF Typed, ConnOK
    <3>3. req[c].subject \notin allowed[req[c].repo]
      BY <3>1, <3>2 DEF RevokeInv, RevokedIsOut, Key
    <3>4. Is(c, "GetManifest") => pc'[c] = "bridge" /\ answer'[c] # "served"
      BY <1>1, <3>3 DEF PullAllowed, PullDenied, Go, Is, Typed, ConnOK
    <3>. QED
      BY <1>1, <1>2, <1>3, <3>1, <3>4 DEF LockedOut, Key, Is
  <2>. QED
    BY <2>1, <2>2
<1>. QED
  BY <1>4, <1>5 DEF RevokeInv

\* Nobody records a grant for a subject that is locked out.
LEMMA RevokeRecordGrant ==
  ASSUME Typed, RevokeInv, NEW c \in Conn, NEW ok \in BOOLEAN, RecordPushGrant(c, ok)
  PROVE  RevokeInv'
<1>1. Handles(c) /\ pc[c] = "grant" /\ Is(c, "PutManifest")
  BY DEF Handles, PushStep, RecordPushGrant, At, Typed, ConnOK, PcOfKind
<1>2. Moves(c) /\ UNCHANGED <<req, allowed>>
  BY <1>1, HandlesMoves, AllowedMoves
<1>3. CASE ~ok
  BY <1>1, <1>2, <1>3, RevokeQuiet DEF RecordPushGrant
<1>4. CASE ok
  <2>. DEFINE n == req[c].repo
              s == req[c].subject
  <2>1. n \in Repo /\ s \in Subject
    BY <1>1, RequestParts DEF Typed, ConnOK, Is
  <2>2. /\ past'.closed = past.closed /\ past'.revoked = past.revoked
        /\ past'.seesNothing = past.seesNothing
    BY <1>4 DEF RecordPushGrant, Typed, Past
  <2>3. <<n, s>> \notin past.closed
    BY <1>1, <2>1 DEF RevokeInv, ClosedMeansNoGrant, Pushing
  <2>4. ASSUME NEW m \in Repo, NEW u \in Subject, <<m, u>> # <<n, s>>
        PROVE  grants'[m][u] = grants[m][u]
    BY <1>4, <2>1, <2>4 DEF RecordPushGrant, Recorded, Typed, TablesOK
  <2>5. ClosedMeansNoGrant'
    BY <1>1, <1>2, <2>2, <2>3, <2>4, PushingBefore DEF RevokeInv, ClosedMeansNoGrant, PushGranted
  <2>6. RevokedIsOut'
    BY <1>2, <2>2 DEF RevokeInv, RevokedIsOut
  <2>7. ASSUME NEW k \in past.seesNothing PROVE LockedOut(k)'
    BY <1>1, <1>2, <2>2, <2>7, LockedOutStays DEF RevokeInv, LockedOut
  <2>. QED
    BY <2>2, <2>5, <2>6, <2>7 DEF RevokeInv
<1>. QED
  BY <1>3, <1>4

\* Every call of every handler.
LEMMA RevokeHandles ==
  ASSUME Typed, RevokeInv, NEW c \in Conn, Handles(c)
  PROVE  RevokeInv'
<1>1. CASE PushExists(c)
  BY <1>1, RevokePushExists
<1>2. CASE \E ok \in BOOLEAN : RecordPushGrant(c, ok)
  BY <1>2, RevokeRecordGrant
<1>3. CASE PullAllowed(c) \/ PullDenied(c)
  BY <1>3, RevokeNotePull
<1>4. CASE /\ ~PushExists(c) /\ ~PullAllowed(c) /\ ~PullDenied(c)
           /\ \A ok \in BOOLEAN : ~RecordPushGrant(c, ok)
  <2>1. Moves(c) /\ UNCHANGED <<req, allowed>>
    BY <1>4, HandlesMoves
  <2>2. /\ UNCHANGED grants /\ past'.closed = past.closed /\ past'.revoked = past.revoked
        /\ past'.seesNothing = past.seesNothing
        /\ pc[c] = "new" => ~Is(c, "PutManifest")
    <3>. past \in Past
      BY DEF Typed
    <3>1. CASE PushStep(c)
      BY <1>4, <3>1 DEF PushStep, PushCheck, ForwardCapture, RecordUploadedBlob,
         ForwardManifest, RegisterRepository, At, Past, tableVars
    <3>2. CASE MountStep(c) \/ ScopeStep(c)
      BY <3>2 DEF MountStep, MountSource, MountExists, MountCheck, ForwardMount, ScopeStep,
         ScopeCached, ScanTags, RememberVerdict, At, Is, tableVars
    <3>3. CASE DeleteTag(c) \/ FailClosed(c)
      BY <3>3 DEF DeleteTag, FailClosed, At, Is, tableVars
    <3>4. CASE PushContext(c) \/ PushContextUploaded(c) \/ PushOwner(c)
      BY <3>4 DEF PushContext, PushContextUploaded, PushOwner, At, tableVars
    <3>5. CASE ScopedUpload(c) \/ ForwardPull(c)
      BY <3>5 DEF ScopedUpload, ForwardPull, At, tableVars
    <3>. QED
      BY <1>4, <3>1, <3>2, <3>3, <3>4, <3>5 DEF Handles
  <2>. QED
    BY <2>1, <2>2, RevokeQuiet
<1>. QED
  BY <1>1, <1>2, <1>3, <1>4

\* The pulls stay where they are when no handler moves.
LEMMA LockedOutAside ==
  ASSUME RevokeInv, UNCHANGED <<req, pc, answer>>, NEW k \in past.seesNothing,
         Key(k) \in past'.revoked \intersect past'.closed
  PROVE  LockedOut(k)'
  BY DEF RevokeInv, LockedOut, Key, Is

\* The detached delete closes what no push is about to reopen.
LEMMA RevokeDrop ==
  ASSUME Typed, RevokeInv, NEW c \in Conn, NEW ok \in BOOLEAN, DropPushGrant(c, ok)
  PROVE  RevokeInv'
<1>. DEFINE n == req[c].repo
            s == req[c].subject
<1>1. n \in Repo /\ s \in Subject
  BY RequestParts DEF DropPushGrant, Typed, DropsOK, ConnOK
<1>2. /\ past'.revoked = past.revoked /\ past'.seesNothing = past.seesNothing
      /\ past.closed \subseteq past'.closed
      /\ \A m \in Repo, u \in Subject :
           <<m, u>> \in past'.closed =>
             <<m, u>> \in past.closed \/ (<<m, u>> = <<n, s>> /\ ok /\ ~Pushing(n, s))
  BY DEF DropPushGrant, Typed, Past
<1>3. UNCHANGED <<req, pc, answer, allowed>>
  BY DEF DropPushGrant, iamVars
<1>4. \A m \in Repo, u \in Subject :
        /\ grants'[m][u] = "fresh" => grants[m][u] = "fresh"
        /\ ok /\ <<m, u>> = <<n, s>> => grants'[m][u] # "fresh"
  BY <1>1 DEF DropPushGrant, DeletePushGrant, Typed, TablesOK
<1>5. ClosedMeansNoGrant'
  <2>. SUFFICES ASSUME NEW m \in Repo, NEW u \in Subject, <<m, u>> \in past'.closed
                PROVE  (~PushGranted(m, u) /\ ~Pushing(m, u))'
    BY DEF ClosedMeansNoGrant
  <2>1. Pushing(m, u)' = Pushing(m, u)
    BY <1>3 DEF Pushing, Is
  <2>2. CASE <<m, u>> \in past.closed
    BY <1>4, <2>1, <2>2 DEF RevokeInv, ClosedMeansNoGrant, PushGranted
  <2>3. CASE <<m, u>> \notin past.closed
    <3>1. m = n /\ u = s /\ ok /\ ~Pushing(m, u)
      BY <1>2, <2>3
    <3>. QED
      BY <1>4, <2>1, <3>1 DEF PushGranted
  <2>. QED
    BY <2>2, <2>3
<1>6. RevokedIsOut'
  BY <1>2, <1>3 DEF RevokeInv, RevokedIsOut
<1>7. ASSUME NEW k \in past.seesNothing PROVE LockedOut(k)'
  BY <1>2, <1>3, <1>7, LockedOutAside DEF RevokeInv, LockedOut
<1>. QED
  BY <1>2, <1>5, <1>6, <1>7 DEF RevokeInv

\* What leaves the handlers alone: no grant becomes fresh, nothing closes, and
\* what is revoked is not allowed.
LEMMA RevokeAside ==
  ASSUME Typed, RevokeInv, UNCHANGED <<req, pc, answer>>,
         past'.closed = past.closed, past'.seesNothing = past.seesNothing,
         past.revoked \subseteq past'.revoked,
         \A n \in Repo, s \in Subject : PushGranted(n, s)' => PushGranted(n, s),
         RevokedIsOut'
  PROVE  RevokeInv'
<1>1. ClosedMeansNoGrant'
  BY DEF RevokeInv, ClosedMeansNoGrant, Pushing, Is
<1>2. ASSUME NEW k \in past.seesNothing PROVE LockedOut(k)'
  BY <1>2, LockedOutAside DEF RevokeInv, LockedOut
<1>. QED
  BY <1>1, <1>2 DEF RevokeInv

LEMMA RevokeTime ==
  ASSUME Typed, RevokeInv, TimePasses
  PROVE  RevokeInv'
<1>1. ASSUME NEW n \in Repo, NEW d \in Digest, AgePending(n, d) \/ ForgetVerdict(n, d)
      PROVE  RevokeInv'
  <2>1. /\ UNCHANGED <<req, pc, answer, grants, allowed>>
        /\ past'.closed = past.closed /\ past'.seesNothing = past.seesNothing
        /\ past'.revoked = past.revoked
    BY <1>1 DEF AgePending, ForgetVerdict, tableVars, iamVars, Typed, Past
  <2>. QED
    BY <2>1, RevokeAside DEF RevokeInv, RevokedIsOut, PushGranted
<1>2. ASSUME NEW n \in Repo, NEW s \in Subject, AgeGrant(n, s) PROVE RevokeInv'
  <2>1. /\ UNCHANGED <<req, pc, answer, allowed>>
        /\ past'.closed = past.closed /\ past'.seesNothing = past.seesNothing
        /\ past'.revoked = past.revoked
    BY <1>2 DEF AgeGrant, iamVars, Typed, Past
  <2>2. \A m \in Repo, u \in Subject : PushGranted(m, u)' => PushGranted(m, u)
    BY <1>2 DEF AgeGrant, PushGranted, Typed, TablesOK
  <2>. QED
    BY <2>1, <2>2, RevokeAside DEF RevokeInv, RevokedIsOut
<1>3. CASE SweepStale
  <2>1. UNCHANGED <<req, pc, answer, allowed, past>>
    BY <1>3 DEF SweepStale, iamVars
  <2>2. \A m \in Repo, u \in Subject : PushGranted(m, u)' => PushGranted(m, u)
    BY <1>3 DEF SweepStale, Swept, PushGranted
  <2>. QED
    BY <2>1, <2>2, RevokeAside DEF RevokeInv, RevokedIsOut
<1>. QED
  BY <1>1, <1>2, <1>3 DEF TimePasses

\* The services around and a crash.
LEMMA RevokeAround ==
  ASSUME Typed, RevokeInv,
         \/ \E n \in Repo, s \in Subject : Materialise(n, s) \/ Revoke(n, s)
         \/ Crash
  PROVE  RevokeInv'
<1>1. ASSUME NEW n \in Repo, NEW s \in Subject, Materialise(n, s) PROVE RevokeInv'
  <2>1. /\ UNCHANGED <<req, pc, answer, grants>>
        /\ past'.closed = past.closed /\ past'.seesNothing = past.seesNothing
        /\ past'.revoked = past.revoked
    BY <1>1 DEF Materialise, tableVars, Typed, Past
  <2>2. RevokedIsOut'
    BY <1>1, <2>1 DEF Materialise, RevokeInv, RevokedIsOut, Typed, IamOK
  <2>. QED
    BY <2>1, <2>2, RevokeAside DEF PushGranted
<1>2. ASSUME NEW n \in Repo, NEW s \in Subject, Revoke(n, s) PROVE RevokeInv'
  <2>1. /\ UNCHANGED <<req, pc, answer, grants>>
        /\ past'.closed = past.closed /\ past'.seesNothing = past.seesNothing
        /\ past'.revoked = past.revoked \union {<<n, s>>}
    BY <1>2 DEF Revoke, tableVars, Typed, Past
  <2>2. RevokedIsOut'
    BY <1>2, <2>1 DEF Revoke, RevokeInv, RevokedIsOut, Typed, IamOK
  <2>. QED
    BY <2>1, <2>2, RevokeAside DEF PushGranted
<1>3. CASE Crash
  <2>1. UNCHANGED <<req, grants, allowed, past>>
    BY <1>3 DEF Crash, tableVars, iamVars
  <2>2. ClosedMeansNoGrant'
    BY <1>3, <2>1 DEF Crash, RevokeInv, ClosedMeansNoGrant, Pushing, Is, PushGranted
  <2>3. RevokedIsOut'
    BY <2>1 DEF RevokeInv, RevokedIsOut
  <2>4. ASSUME NEW k \in past.seesNothing PROVE LockedOut(k)'
    <3>1. LockedOut(k) /\ k \in Conn
      BY DEF RevokeInv, Typed, Past
    <3>. QED
      BY <1>3, <2>1, <3>1 DEF Crash, LockedOut, Key, Is
  <2>. QED
    BY <2>1, <2>2, <2>3, <2>4 DEF RevokeInv
<1>. QED
  BY <1>1, <1>2, <1>3

\* Every step is a call of a handler, a detached delete, time, iam or a crash.
LEMMA StepKinds ==
  ASSUME DPNext
  PROVE  \/ \E c \in Conn : Handles(c)
         \/ \E c \in Conn, ok \in BOOLEAN : DropPushGrant(c, ok)
         \/ TimePasses
         \/ \E n \in Repo, s \in Subject : Materialise(n, s) \/ Revoke(n, s)
         \/ Crash
  BY DEF DPNext, Handles, PullStep

LEMMA RevokeStep ==
  ASSUME Typed, RevokeInv, [DPNext]_vars
  PROVE  RevokeInv'
<1>1. CASE DPNext
  BY <1>1, StepKinds, RevokeHandles, RevokeDrop, RevokeTime, RevokeAround
<1>2. CASE UNCHANGED vars
  <2>1. UNCHANGED <<req, pc, answer, grants, allowed, past>>
    BY <1>2 DEF vars, tableVars, iamVars
  <2>. QED
    BY <2>1, RevokeAside DEF RevokeInv, RevokedIsOut, PushGranted
<1>. QED
  BY <1>1, <1>2

\* Revoke-safety, for all requests and all interleavings: a pull of a manifest
\* begun after the grant was dropped and the access revoked (servePullOnly,
\* pushOwnerRevealsRepo) is not served until its subject pushes again.
THEOREM RevokedAreOut == DPSpec => []RevokedStaysOut
<1>1. DPInit => Typed /\ RevokeInv
  BY TypedInit, RevokeInit
<1>2. Typed /\ RevokeInv /\ [DPNext]_vars => (Typed /\ RevokeInv)'
  BY TypedStep, RevokeStep
<1>3. Typed /\ RevokeInv => RevokedStaysOut
  BY DEF Typed, Past, RevokeInv, RevokedStaysOut, LockedOut
<1>. QED
  BY <1>1, <1>2, <1>3, PTL DEF DPSpec

-----------------------------------------------------------------------------
(* After a push.                                                           *)

LEMMA PusherInit == DPInit => PusherInv
  BY DEF DPInit, PusherInv, PusherHolds, DropsAfterAccess

\* A pull of a manifest that was let in is not told that there is nothing.
LEMMA LetInHandles ==
  ASSUME Typed, PusherInv, NEW c \in past.seesPush, Handles(c), Is(c, "GetManifest")
  PROVE  pc'[c] \notin {"new", "bridge"} /\ answer'[c] # "hidden"
<1>1. c \in Conn /\ LetIn(c) /\ ConnOK
  BY DEF Typed, Past, PusherInv
<1>2. PushOwner(c) \/ ForwardPull(c) \/ FailClosed(c)
  BY <1>1, ManifestPull DEF LetIn, PullAllowed, PullDenied, At
<1>. QED
  BY <1>1, <1>2 DEF LetIn, PushOwner, ForwardPull, FailClosed, GoOr, Go, Answer, ConnOK,
     At, Is

\* A handler that takes no grant away and begins no pull.
LEMMA LetInStays ==
  ASSUME Typed, PusherInv, NEW c \in Conn, Handles(c), Moves(c), UNCHANGED <<req, allowed>>,
         past'.revoked = past.revoked, NEW k \in past.seesPush,
         PushGranted(req[k].repo, req[k].subject) =>
           PushGranted(req[k].repo, req[k].subject)'
  PROVE  LetIn(k)'
<1>1. LetIn(k) /\ k \in Conn
  BY DEF PusherInv, Typed, Past
<1>2. CASE k # c
  BY <1>1, <1>2 DEF LetIn, Moves, Is, Key, PushGranted
<1>3. CASE k = c
  BY <1>1, <1>3, LetInHandles DEF LetIn, Is
<1>. QED
  BY <1>2, <1>3

LEMMA PusherQuiet ==
  ASSUME Typed, PusherInv, NEW c \in Conn, Handles(c), Moves(c),
         UNCHANGED <<req, grants, allowed, drops>>,
         past'.pushed = past.pushed, past'.revoked = past.revoked,
         past'.seesPush = past.seesPush
  PROVE  PusherInv'
<1>1. PusherHolds' /\ DropsAfterAccess'
  BY DEF PusherInv, PusherHolds, DropsAfterAccess, PushGranted, Key
<1>2. ASSUME NEW k \in past.seesPush PROVE LetIn(k)'
  BY <1>2, LetInStays DEF PushGranted
<1>. QED
  BY <1>1, <1>2 DEF PusherInv

\* A pull that begins is promised what its subject holds at this moment.
LEMMA PusherNotePull ==
  ASSUME Typed, PusherInv, NEW c \in Conn, PullAllowed(c) \/ PullDenied(c)
  PROVE  PusherInv'
<1>1. Handles(c) /\ req[c].kind \in {"GetBlob", "GetManifest"} /\ pc[c] = "new"
  BY DEF Handles, PullAllowed, PullDenied, At
<1>2. Moves(c) /\ UNCHANGED <<req, grants, allowed>>
  BY <1>1, HandlesMoves, AllowedMoves DEF PullAllowed, PullDenied, tableVars, iamVars
<1>3. /\ past'.pushed = past.pushed /\ past'.revoked = past.revoked
      /\ past'.seesPush = past.seesPush \union
           (IF Key(c) \in past.pushed \ past.revoked THEN {c} ELSE {})
  BY DEF PullAllowed, PullDenied, NotePull, Typed, Past, Key
<1>4. PusherHolds'
  BY <1>2, <1>3 DEF PusherInv, PusherHolds, PushGranted
<1>5. DropsAfterAccess'
  <2>1. \A k \in drops' : k \in drops \/ (k = c /\ req[c].subject \in allowed[req[c].repo])
    BY DEF PullAllowed, PullDenied
  <2>. QED
    BY <1>2, <1>3, <2>1 DEF PusherInv, DropsAfterAccess, Key
<1>6. ASSUME NEW k \in past'.seesPush PROVE LetIn(k)'
  <2>1. CASE k \in past.seesPush
    BY <1>1, <1>2, <1>3, <2>1, LetInStays DEF PushGranted
  <2>2. CASE k \notin past.seesPush
    <3>1. k = c /\ Key(c) \in past.pushed \ past.revoked
      BY <1>3, <1>6, <2>2
    <3>2. req[c].repo \in Repo /\ req[c].subject \in Subject
      BY <1>1, RequestParts DEF Typed, ConnOK
    <3>3. PushGranted(req[c].repo, req[c].subject) \/ req[c].subject \in allowed[req[c].repo]
      BY <3>1, <3>2 DEF PusherInv, PusherHolds, Key
    <3>4. answer'[c] = "none"
      BY <1>1 DEF PullAllowed, PullDenied, Go, Typed, ConnOK
    <3>5. Is(c, "GetManifest") =>
            pc'[c] = IF req[c].subject \in allowed[req[c].repo] THEN "forward" ELSE "bridge"
      BY DEF PullAllowed, PullDenied, Go, Is, Typed, ConnOK
    <3>. QED
      BY <1>2, <1>3, <3>1, <3>3, <3>4, <3>5 DEF LetIn, Key, Is, PushGranted
  <2>. QED
    BY <2>1, <2>2
<1>. QED
  BY <1>4, <1>5, <1>6 DEF PusherInv

\* A push that records its grant holds it.
LEMMA PusherRecordGrant ==
  ASSUME Typed, PusherInv, NEW c \in Conn, NEW ok \in BOOLEAN, RecordPushGrant(c, ok)
  PROVE  PusherInv'
<1>1. Handles(c) /\ pc[c] = "grant" /\ Is(c, "PutManifest")
  BY DEF Handles, PushStep, RecordPushGrant, At, Typed, ConnOK, PcOfKind
<1>2. Moves(c) /\ UNCHANGED <<req, allowed, drops>>
  BY <1>1, HandlesMoves, AllowedMoves DEF RecordPushGrant
<1>3. CASE ~ok
  BY <1>1, <1>2, <1>3, PusherQuiet DEF RecordPushGrant
<1>4. CASE ok
  <2>. DEFINE n == req[c].repo
              s == req[c].subject
  <2>1. n \in Repo /\ s \in Subject
    BY <1>1, RequestParts DEF Typed, ConnOK, Is
  <2>2. /\ past'.pushed = past.pushed \union {<<n, s>>} /\ past'.revoked = past.revoked
        /\ past'.seesPush = past.seesPush
    BY <1>4 DEF RecordPushGrant, Typed, Past
  <2>3. /\ PushGranted(n, s)'
        /\ \A m \in Repo, u \in Subject : PushGranted(m, u) => PushGranted(m, u)'
    <3>1. grants' = [grants EXCEPT ![n][s] = "fresh"]
      BY <1>4 DEF RecordPushGrant, Recorded
    <3>2. grants \in [Repo -> [Subject -> Age]]
      BY DEF Typed, TablesOK
    <3>3. grants'[n][s] = "fresh"
      BY <2>1, <3>1, <3>2
    <3>4. \A m \in Repo, u \in Subject : grants[m][u] = "fresh" => grants'[m][u] = "fresh"
      BY <2>1, <3>1, <3>2
    <3>. QED
      BY <1>2, <3>3, <3>4 DEF PushGranted
  <2>4. PusherHolds'
    BY <1>2, <2>2, <2>3 DEF PusherInv, PusherHolds
  <2>5. DropsAfterAccess'
    BY <1>2, <2>2 DEF PusherInv, DropsAfterAccess, Key
  <2>6. ASSUME NEW k \in past.seesPush PROVE LetIn(k)'
    <3>1. k \in Conn
      BY DEF Typed, Past
    <3>2. CASE Is(k, "GetManifest")
      <4>1. req[k].repo \in Repo /\ req[k].subject \in Subject
        BY <3>1, <3>2, RequestParts DEF Typed, ConnOK, Is
      <4>. QED
        BY <1>1, <1>2, <2>2, <2>3, <4>1, LetInStays
    <3>3. CASE ~Is(k, "GetManifest")
      BY <1>2, <3>3 DEF LetIn, Is
    <3>. QED
      BY <3>2, <3>3
  <2>. QED
    BY <2>2, <2>4, <2>5, <2>6 DEF PusherInv
<1>. QED
  BY <1>3, <1>4

\* Every call of every handler.
LEMMA PusherHandles ==
  ASSUME Typed, PusherInv, NEW c \in Conn, Handles(c)
  PROVE  PusherInv'
<1>1. CASE \E ok \in BOOLEAN : RecordPushGrant(c, ok)
  BY <1>1, PusherRecordGrant
<1>2. CASE PullAllowed(c) \/ PullDenied(c)
  BY <1>2, PusherNotePull
<1>3. CASE /\ ~PullAllowed(c) /\ ~PullDenied(c)
           /\ \A ok \in BOOLEAN : ~RecordPushGrant(c, ok)
  <2>1. Moves(c) /\ UNCHANGED <<req, allowed, drops>>
    BY <1>3, HandlesMoves
  <2>2. /\ UNCHANGED grants /\ past'.pushed = past.pushed /\ past'.revoked = past.revoked
        /\ past'.seesPush = past.seesPush
    <3>. past \in Past
      BY DEF Typed
    <3>1. CASE PushStep(c)
      BY <1>3, <3>1 DEF PushStep, PushExists, PushCheck, ForwardCapture, RecordUploadedBlob,
         ForwardManifest, RegisterRepository, Past, tableVars
    <3>2. CASE MountStep(c) \/ ScopeStep(c)
      BY <3>2 DEF MountStep, MountSource, MountExists, MountCheck, ForwardMount, ScopeStep,
         ScopeCached, ScanTags, RememberVerdict, tableVars
    <3>3. CASE DeleteTag(c) \/ FailClosed(c)
      BY <3>3 DEF DeleteTag, FailClosed, tableVars
    <3>4. CASE PushContext(c) \/ PushContextUploaded(c) \/ PushOwner(c)
      BY <3>4 DEF PushContext, PushContextUploaded, PushOwner, tableVars
    <3>5. CASE ScopedUpload(c) \/ ForwardPull(c)
      BY <3>5 DEF ScopedUpload, ForwardPull, tableVars
    <3>. QED
      BY <1>3, <3>1, <3>2, <3>3, <3>4, <3>5 DEF Handles
  <2>. QED
    BY <2>1, <2>2, PusherQuiet
<1>. QED
  BY <1>1, <1>2, <1>3

\* The detached delete comes after access: its subject needs no grant any more.
LEMMA PusherDrop ==
  ASSUME Typed, PusherInv, NEW c \in Conn, NEW ok \in BOOLEAN, DropPushGrant(c, ok)
  PROVE  PusherInv'
<1>. DEFINE n == req[c].repo
            s == req[c].subject
<1>1. n \in Repo /\ s \in Subject /\ c \in drops
  BY RequestParts DEF DropPushGrant, Typed, DropsOK, ConnOK
<1>2. s \in allowed[n] \/ <<n, s>> \in past.revoked
  BY <1>1 DEF PusherInv, DropsAfterAccess, Key
<1>3. /\ past'.revoked = past.revoked /\ past'.seesPush = past.seesPush
      /\ past'.pushed = past.pushed
      /\ UNCHANGED <<req, pc, answer, allowed>> /\ drops' = drops \ {c}
  BY DEF DropPushGrant, iamVars, Typed, Past
<1>4. \A m \in Repo, u \in Subject :
        m # n \/ u # s => (PushGranted(m, u) => PushGranted(m, u)')
  <2>1. grants' \in {grants, [grants EXCEPT ![n][s] = "none"]}
    BY DEF DropPushGrant, DeletePushGrant
  <2>2. grants \in [Repo -> [Subject -> Age]]
    BY DEF Typed, TablesOK
  <2>. QED
    BY <1>1, <2>1, <2>2 DEF PushGranted
<1>5. PusherHolds'
  BY <1>2, <1>3, <1>4 DEF PusherInv, PusherHolds
<1>6. DropsAfterAccess'
  BY <1>3 DEF PusherInv, DropsAfterAccess, Key
<1>7. ASSUME NEW k \in past.seesPush PROVE LetIn(k)'
  <2>. SUFFICES ASSUME Is(k, "GetManifest") PROVE LetIn(k)'
    BY <1>3 DEF LetIn, Is
  <2>1. k \in Conn /\ LetIn(k)
    BY <1>7 DEF Typed, Past, PusherInv
  <2>2. req[k].repo \in Repo /\ req[k].subject \in Subject
    BY <2>1, RequestParts DEF Typed, ConnOK, Is
  <2>3. pc[k] = "bridge" => req[k].repo # n \/ req[k].subject # s
    BY <1>2, <2>1 DEF LetIn, Key
  <2>. QED
    BY <1>3, <1>4, <2>1, <2>2, <2>3 DEF LetIn, Is, Key
<1>. QED
  BY <1>3, <1>5, <1>6, <1>7 DEF PusherInv

\* What leaves the handlers and their promises alone.
LEMMA PusherAside ==
  ASSUME Typed, PusherInv, UNCHANGED <<req, pc, answer, allowed, drops>>,
         past'.pushed = past.pushed, past'.seesPush = past.seesPush,
         past'.revoked = past.revoked,
         \A n \in Repo, s \in Subject : PushGranted(n, s) => PushGranted(n, s)'
  PROVE  PusherInv'
<1>1. PusherHolds' /\ DropsAfterAccess'
  BY DEF PusherInv, PusherHolds, DropsAfterAccess, Key
<1>2. ASSUME NEW k \in past.seesPush PROVE LetIn(k)'
  <2>. SUFFICES ASSUME Is(k, "GetManifest") PROVE LetIn(k)'
    BY DEF LetIn, Is
  <2>1. k \in Conn /\ LetIn(k)
    BY DEF Typed, Past, PusherInv
  <2>2. req[k].repo \in Repo /\ req[k].subject \in Subject
    BY <2>1, RequestParts DEF Typed, ConnOK, Is
  <2>. QED
    BY <2>1, <2>2 DEF LetIn, Is, Key
<1>. QED
  BY <1>1, <1>2 DEF PusherInv

\* A pull whose subject loses what it was promised on is promised nothing; the
\* others do not notice.
LEMMA LetInApart ==
  ASSUME Typed, PusherInv, UNCHANGED <<req, pc, answer>>, NEW n \in Repo, NEW s \in Subject,
         NEW k \in past.seesPush \ PullsOf(n, s),
         \A m \in Repo, u \in Subject :
           m # n \/ u # s => /\ PushGranted(m, u) => PushGranted(m, u)'
                             /\ u \in allowed'[m] <=> u \in allowed[m]
                             /\ <<m, u>> \in past'.revoked <=> <<m, u>> \in past.revoked
  PROVE  LetIn(k)'
<1>. SUFFICES ASSUME Is(k, "GetManifest") PROVE LetIn(k)'
  BY DEF LetIn, Is
<1>1. k \in Conn /\ LetIn(k)
  BY DEF Typed, Past, PusherInv
<1>2. req[k].repo \in Repo /\ req[k].subject \in Subject
  BY <1>1, RequestParts DEF Typed, ConnOK, Is
<1>3. req[k].repo # n \/ req[k].subject # s
  BY <1>1 DEF PullsOf, Is
<1>. QED
  BY <1>1, <1>2, <1>3 DEF LetIn, Is, Key

LEMMA PusherAgeGrant ==
  ASSUME Typed, PusherInv, NEW n \in Repo, NEW s \in Subject, AgeGrant(n, s)
  PROVE  PusherInv'
<1>1. UNCHANGED <<req, pc, answer, allowed, drops>> /\ past'.revoked = past.revoked
  BY DEF AgeGrant, iamVars, Typed, Past
<1>2. \A m \in Repo, u \in Subject :
        m # n \/ u # s => (PushGranted(m, u) => PushGranted(m, u)')
  BY DEF AgeGrant, PushGranted, Typed, TablesOK
<1>3. DropsAfterAccess'
  BY <1>1 DEF PusherInv, DropsAfterAccess, Key
<1>4. CASE s \in allowed[n]
  <2>1. past' = past
    BY <1>4 DEF AgeGrant
  <2>2. PusherHolds'
    BY <1>1, <1>2, <1>4, <2>1 DEF PusherInv, PusherHolds
  <2>3. ASSUME NEW k \in past.seesPush PROVE LetIn(k)'
    <3>. SUFFICES ASSUME Is(k, "GetManifest") PROVE LetIn(k)'
      BY <1>1 DEF LetIn, Is
    <3>1. k \in Conn /\ LetIn(k)
      BY <2>3 DEF Typed, Past, PusherInv
    <3>2. req[k].repo \in Repo /\ req[k].subject \in Subject
      BY <3>1, RequestParts DEF Typed, ConnOK, Is
    <3>. QED
      BY <1>1, <1>2, <1>4, <2>1, <3>1, <3>2 DEF LetIn, Is, Key
  <2>. QED
    BY <1>3, <2>1, <2>2, <2>3 DEF PusherInv
<1>5. CASE s \notin allowed[n]
  <2>1. /\ past'.pushed = past.pushed \ {<<n, s>>}
        /\ past'.seesPush = past.seesPush \ PullsOf(n, s)
    BY <1>5 DEF AgeGrant, Typed, Past
  <2>2. PusherHolds'
    <3>. SUFFICES ASSUME NEW m \in Repo, NEW u \in Subject,
                         <<m, u>> \in past'.pushed \ past'.revoked
                  PROVE  PushGranted(m, u)' \/ u \in allowed'[m]
      BY DEF PusherHolds, PushGranted
    <3>1. (m # n \/ u # s) /\ <<m, u>> \in past.pushed \ past.revoked
      BY <1>1, <2>1
    <3>. QED
      BY <1>1, <1>2, <3>1 DEF PusherInv, PusherHolds
  <2>3. ASSUME NEW k \in past'.seesPush PROVE LetIn(k)'
    BY <1>1, <1>2, <2>1, <2>3, LetInApart
  <2>. QED
    BY <1>3, <2>2, <2>3 DEF PusherInv
<1>. QED
  BY <1>4, <1>5

LEMMA PusherTime ==
  ASSUME Typed, PusherInv, TimePasses
  PROVE  PusherInv'
<1>1. ASSUME NEW n \in Repo, NEW d \in Digest, AgePending(n, d) \/ ForgetVerdict(n, d)
      PROVE  PusherInv'
  <2>1. /\ UNCHANGED <<req, pc, answer, grants, allowed, drops>>
        /\ past'.pushed = past.pushed /\ past'.seesPush = past.seesPush
        /\ past'.revoked = past.revoked
    BY <1>1 DEF AgePending, ForgetVerdict, tableVars, iamVars, Typed, Past
  <2>. QED
    BY <2>1, PusherAside DEF PushGranted
<1>2. CASE SweepStale
  <2>1. UNCHANGED <<req, pc, answer, allowed, drops, past>>
    BY <1>2 DEF SweepStale, iamVars
  <2>2. \A m \in Repo, u \in Subject : PushGranted(m, u) => PushGranted(m, u)'
    BY <1>2 DEF SweepStale, Swept, PushGranted
  <2>. QED
    BY <2>1, <2>2, PusherAside
<1>. QED
  BY <1>1, <1>2, PusherAgeGrant DEF TimePasses

\* The services around and a crash.
LEMMA PusherAround ==
  ASSUME Typed, PusherInv,
         \/ \E n \in Repo, s \in Subject : Materialise(n, s) \/ Revoke(n, s)
         \/ Crash
  PROVE  PusherInv'
<1>1. ASSUME NEW n \in Repo, NEW s \in Subject, Materialise(n, s) \/ Revoke(n, s)
      PROVE  PusherInv'
  <2>1. /\ UNCHANGED <<req, pc, answer, grants, drops>>
        /\ past'.pushed = past.pushed
        /\ past'.seesPush = past.seesPush \ PullsOf(n, s)
    BY <1>1 DEF Materialise, Revoke, tableVars, Typed, Past
  <2>2. \/ /\ past'.revoked = past.revoked
           /\ allowed' = [allowed EXCEPT ![n] = @ \union {s}]
        \/ /\ past'.revoked = past.revoked \union {<<n, s>>}
           /\ allowed' = [allowed EXCEPT ![n] = @ \ {s}]
    BY <1>1 DEF Materialise, Revoke, Typed, Past
  <2>3. /\ past.revoked \subseteq past'.revoked
        /\ \A m \in Repo, u \in Subject :
             u \in allowed[m] => u \in allowed'[m] \/ <<m, u>> \in past'.revoked
    BY <2>2 DEF Typed, IamOK
  <2>4. PusherHolds'
    BY <2>1, <2>3 DEF PusherInv, PusherHolds, PushGranted
  <2>5. DropsAfterAccess'
    <3>. SUFFICES ASSUME NEW c \in drops
                  PROVE  (req[c].subject \in allowed[req[c].repo] \/ Key(c) \in past.revoked)'
      BY <2>1 DEF DropsAfterAccess
    <3>1. req[c].repo \in Repo /\ req[c].subject \in Subject
      BY RequestParts DEF Typed, DropsOK, ConnOK
    <3>2. req[c].subject \in allowed[req[c].repo] \/ Key(c) \in past.revoked
      BY DEF PusherInv, DropsAfterAccess
    <3>. QED
      BY <2>1, <2>3, <3>1, <3>2 DEF Key
  <2>6. \A m \in Repo, u \in Subject :
          m # n \/ u # s => /\ u \in allowed'[m] <=> u \in allowed[m]
                            /\ <<m, u>> \in past'.revoked <=> <<m, u>> \in past.revoked
    BY <2>2 DEF Typed, IamOK
  <2>7. ASSUME NEW k \in past'.seesPush PROVE LetIn(k)'
    BY <2>1, <2>6, <2>7, LetInApart DEF PushGranted
  <2>. QED
    BY <2>4, <2>5, <2>7 DEF PusherInv
<1>2. CASE Crash
  <2>1. UNCHANGED <<req, grants, allowed, past>> /\ drops' = {}
    BY <1>2 DEF Crash, tableVars, iamVars
  <2>2. PusherHolds' /\ DropsAfterAccess'
    BY <2>1 DEF PusherInv, PusherHolds, DropsAfterAccess, PushGranted
  <2>3. ASSUME NEW k \in past.seesPush PROVE LetIn(k)'
    <3>1. LetIn(k) /\ k \in Conn
      BY DEF PusherInv, Typed, Past
    <3>. QED
      BY <1>2, <2>1, <3>1 DEF Crash, LetIn, Is, Key
  <2>. QED
    BY <2>1, <2>2, <2>3 DEF PusherInv
<1>. QED
  BY <1>1, <1>2

LEMMA PusherStep ==
  ASSUME Typed, PusherInv, [DPNext]_vars
  PROVE  PusherInv'
<1>1. CASE DPNext
  BY <1>1, StepKinds, PusherHandles, PusherDrop, PusherTime, PusherAround
<1>2. CASE UNCHANGED vars
  BY <1>2, PusherAside DEF vars, tableVars, iamVars, PushGranted
<1>. QED
  BY <1>1, <1>2

\* REG-33, the immediate pull, for all requests and all interleavings: a pull
\* of a manifest begun by a subject that recorded a grant (servePush,
\* recordPushGrant) is not told that there is nothing, neither before iam lets
\* the subject in nor after its grant is dropped because iam did.
THEOREM PushersFind == DPSpec => []PusherPulls
<1>1. DPInit => Typed /\ PusherInv
  BY TypedInit, PusherInit
<1>2. Typed /\ PusherInv /\ [DPNext]_vars => (Typed /\ PusherInv)'
  BY TypedStep, PusherStep
<1>3. Typed /\ PusherInv => PusherPulls
  BY DEF Typed, Past, PusherInv, PusherPulls, LetIn
<1>. QED
  BY <1>1, <1>2, <1>3, PTL DEF DPSpec

-----------------------------------------------------------------------------
(* After the 201 of an upload.                                             *)

LEMMA UploadInit == DPInit => UploadInv
  BY DEF DPInit, UploadInv, AckedIsPending, ExistsIsEstablished, RepoExists, DeniedSoFar

\* What a pull of a blob can do.
LEMMA BlobPull ==
  ASSUME Typed, NEW c \in Conn, Handles(c), Is(c, "GetBlob")
  PROVE  \/ PullAllowed(c) \/ PullDenied(c) \/ PushContext(c) \/ PushContextUploaded(c)
         \/ PushOwner(c) \/ ScopeStep(c) \/ ScopedUpload(c) \/ ForwardPull(c) \/ FailClosed(c)
<1>. PcOfKind
  BY DEF Typed, ConnOK
<1>1. ~PushStep(c)
  BY DEF PushStep, PushExists, PushCheck, ForwardCapture, RecordUploadedBlob,
     ForwardManifest, RecordPushGrant, RegisterRepository, PcOfKind, At, Is
<1>2. ~MountStep(c) /\ ~DeleteTag(c)
  BY DEF MountStep, MountSource, MountExists, MountCheck, ForwardMount, DeleteTag,
     PcOfKind, At, Is
<1>. QED
  BY <1>1, <1>2 DEF Handles

\* v_get is noted for a blob only where the scope is asked next.
LEMMA DeniedHandles ==
  ASSUME Typed, UploadInv, NEW c \in Conn, Handles(c), Moves(c), UNCHANGED req
  PROVE  DeniedSoFar'
<1>. ConnOK /\ LocOK /\ DeniedSoFar
  BY DEF Typed, UploadInv
<1>. SUFFICES ASSUME NEW k \in Conn, Is(k, "GetBlob"),
                     pc'[k] \in {"new", "pushContext", "uploaded", "bridge"}
              PROVE  ~loc'[k].may
  BY DEF DeniedSoFar, Is
<1>1. CASE k # c
  BY <1>1 DEF DeniedSoFar, Moves
<1>2. CASE k = c
  <2>1. CASE PullAllowed(c) \/ PullDenied(c)
    BY <1>2, <2>1 DEF PullAllowed, PullDenied, Go, ConnOK, DeniedSoFar, At
  <2>2. CASE PushContext(c) \/ PushContextUploaded(c)
    BY <1>2, <2>2 DEF PushContext, PushContextUploaded, Go, ConnOK, DeniedSoFar, At
  <2>3. CASE PushOwner(c) \/ ScopedUpload(c) \/ ForwardPull(c) \/ FailClosed(c)
    BY <1>2, <2>3 DEF PushOwner, ScopedUpload, ForwardPull, FailClosed, GoOr, Go, Answer,
       ConnOK
  <2>4. CASE ScopeStep(c)
    BY <1>2, <2>4 DEF ScopeStep, ScopeCached, ScanTags, RememberVerdict, AfterScope, GoOr,
       Go, Answer, ConnOK, Is
  <2>. QED
    BY <1>2, <2>1, <2>2, <2>3, <2>4, BlobPull
<1>. QED
  BY <1>1, <1>2

\* The row of the upload leads a pull past every refusal but the one of iam.
LEMMA ReachesHandles ==
  ASSUME Typed, UploadInv, NEW c \in past.seesUpload, Handles(c)
  PROVE  /\ pc'[c] # "new"
         /\ (pc'[c] = "bridge" \/ answer'[c] = "hidden")
              /\ req[c].subject \in Member[req[c].repo] =>
                ~loc'[c].may /\ req[c].repo \in past.established
<1>1. c \in Conn /\ Reaches(c) /\ ConnOK
  BY DEF Typed, Past, UploadInv
<1>2. req[c].repo \in Repo /\ req[c].digest \in Digest
  BY <1>1, RequestParts DEF ConnOK, Reaches, Is
<1>3. BlobUploaded(req[c].repo, req[c].digest)
  BY <1>1, <1>2 DEF UploadInv, AckedIsPending, Reaches
<1>4. ~PullAllowed(c) /\ ~PullDenied(c)
  BY <1>1 DEF PullAllowed, PullDenied, At, Reaches
<1>5. pc[c] # "done" => answer[c] = "none"
  BY <1>1 DEF ConnOK
<1>6. CASE PushContext(c)
  <2>1. ~loc[c].may /\ UNCHANGED <<loc, answer>>
    BY <1>1, <1>6 DEF PushContext, Go, UploadInv, DeniedSoFar, Reaches, At
  <2>2. pc'[c] = "bridge" /\ req[c].subject \in Member[req[c].repo] => RepoExists(req[c].repo)
    BY <1>1, <1>6 DEF PushContext, Go, ConnOK
  <2>3. pc'[c] # "new"
    BY <1>1, <1>6 DEF PushContext, Go, ConnOK
  <2>. QED
    BY <1>2, <1>5, <1>6, <2>1, <2>2, <2>3 DEF PushContext, At, UploadInv, ExistsIsEstablished
<1>7. CASE PushContextUploaded(c) \/ ScopedUpload(c)
  BY <1>1, <1>3, <1>5, <1>7 DEF PushContextUploaded, ScopedUpload, GoOr, Go, Answer, ConnOK, At
<1>8. CASE PushOwner(c)
  BY <1>1, <1>8 DEF PushOwner, GoOr, Go, Answer, ConnOK, At, Reaches
<1>9. CASE ForwardPull(c) \/ FailClosed(c)
  BY <1>1, <1>9 DEF ForwardPull, FailClosed, Answer, ConnOK, At
<1>10. CASE ScopeStep(c)
  BY <1>1, <1>5, <1>10 DEF ScopeStep, ScopeCached, ScanTags, RememberVerdict, AfterScope,
     GoOr, Go, Answer, ConnOK, At, Is, Reaches
<1>. QED
  BY <1>1, <1>4, <1>6, <1>7, <1>8, <1>9, <1>10, BlobPull DEF Reaches

LEMMA ReachesStays ==
  ASSUME Typed, UploadInv, NEW c \in Conn, Handles(c), Moves(c), UNCHANGED req,
         past.acked \subseteq past'.acked, past.established \subseteq past'.established,
         NEW k \in past.seesUpload
  PROVE  Reaches(k)'
<1>1. Reaches(k) /\ k \in Conn
  BY DEF UploadInv, Typed, Past
<1>2. CASE k # c
  BY <1>1, <1>2 DEF Reaches, Moves, Is
<1>3. CASE k = c
  BY <1>1, <1>3, ReachesHandles DEF Reaches, Is
<1>. QED
  BY <1>2, <1>3

LEMMA UploadQuiet ==
  ASSUME Typed, UploadInv, NEW c \in Conn, Handles(c), Moves(c),
         UNCHANGED <<req, pending, tags>>,
         past'.acked = past.acked, past'.established = past.established,
         past'.seesUpload = past.seesUpload
  PROVE  UploadInv'
<1>1. AckedIsPending' /\ ExistsIsEstablished'
  BY DEF UploadInv, AckedIsPending, BlobUploaded, ExistsIsEstablished, RepoExists
<1>2. DeniedSoFar'
  BY DeniedHandles
<1>3. ASSUME NEW k \in past.seesUpload PROVE Reaches(k)'
  BY <1>3, ReachesStays
<1>. QED
  BY <1>1, <1>2, <1>3 DEF UploadInv

\* The 201 follows the row.
LEMMA UploadRecord ==
  ASSUME Typed, UploadInv, NEW c \in Conn, RecordUploadedBlob(c)
  PROVE  UploadInv'
<1>. DEFINE n == req[c].repo
            d == req[c].digest
<1>1. Handles(c) /\ Is(c, "Upload") /\ n \in Repo /\ d \in Digest
  BY RequestParts DEF Handles, PushStep, RecordUploadedBlob, At, Typed, ConnOK, PcOfKind, Is
<1>2. Moves(c) /\ UNCHANGED <<req, tags>>
  BY <1>1, HandlesMoves, AllowedMoves DEF RecordUploadedBlob, engineVars
<1>3. /\ past'.acked = past.acked \union {<<n, d>>} /\ past'.established = past.established
      /\ past'.seesUpload = past.seesUpload
  BY DEF RecordUploadedBlob, Typed, Past
<1>4. pending' = [pending EXCEPT ![n][d] = "fresh"] /\ pending \in [Repo -> [Digest -> Age]]
  BY DEF RecordUploadedBlob, Recorded, Typed, TablesOK
<1>5. AckedIsPending'
  <2>. SUFFICES ASSUME NEW m \in Repo, NEW e \in Digest, <<m, e>> \in past'.acked
                PROVE  pending'[m][e] = "fresh"
    BY DEF AckedIsPending, BlobUploaded
  <2>1. CASE m = n /\ e = d
    BY <1>1, <1>4, <2>1
  <2>2. CASE m # n \/ e # d
    BY <1>1, <1>3, <1>4, <2>2 DEF UploadInv, AckedIsPending, BlobUploaded
  <2>. QED
    BY <2>1, <2>2
<1>6. ExistsIsEstablished' /\ DeniedSoFar'
  BY <1>1, <1>2, <1>3, DeniedHandles DEF UploadInv, ExistsIsEstablished, RepoExists
<1>7. ASSUME NEW k \in past.seesUpload PROVE Reaches(k)'
  BY <1>1, <1>2, <1>3, <1>7, ReachesStays
<1>. QED
  BY <1>3, <1>5, <1>6, <1>7 DEF UploadInv

\* A first manifest establishes its repository; deleting a tag establishes none.
LEMMA UploadTags ==
  ASSUME Typed, UploadInv, NEW c \in Conn,
         DeleteTag(c) \/ \E ok \in BOOLEAN : ForwardManifest(c, ok)
  PROVE  UploadInv'
<1>1. Handles(c)
  BY DEF Handles, PushStep
<1>2. Moves(c) /\ UNCHANGED <<req, pending>>
  BY <1>1, HandlesMoves, AllowedMoves DEF DeleteTag, ForwardManifest, tableVars
<1>3. /\ past'.acked = past.acked /\ past'.seesUpload = past.seesUpload
      /\ past.established \subseteq past'.established
  BY DEF DeleteTag, ForwardManifest, Typed, Past
<1>4. ExistsIsEstablished'
  <2>1. CASE DeleteTag(c)
    BY <1>3, <2>1 DEF DeleteTag, UploadInv, ExistsIsEstablished, RepoExists, Typed, EngineOK
  <2>2. ASSUME NEW ok \in BOOLEAN, ForwardManifest(c, ok) PROVE ExistsIsEstablished'
    <3>1. past'.established = past.established \union {req[c].repo}
      BY <2>2 DEF ForwardManifest, Typed, Past
    <3>2. \A m \in Repo : m # req[c].repo => tags'[m] = tags[m]
      BY <2>2 DEF ForwardManifest, Typed, EngineOK
    <3>. QED
      BY <3>1, <3>2 DEF UploadInv, ExistsIsEstablished, RepoExists
  <2>. QED
    BY <2>1, <2>2
<1>5. AckedIsPending' /\ DeniedSoFar'
  BY <1>1, <1>2, <1>3, DeniedHandles DEF UploadInv, AckedIsPending, BlobUploaded
<1>6. ASSUME NEW k \in past.seesUpload PROVE Reaches(k)'
  BY <1>1, <1>2, <1>3, <1>6, ReachesStays
<1>. QED
  BY <1>3, <1>4, <1>5, <1>6 DEF UploadInv

\* A pull that begins is promised the blob while the row is there.
LEMMA UploadNotePull ==
  ASSUME Typed, UploadInv, NEW c \in Conn, PullAllowed(c) \/ PullDenied(c)
  PROVE  UploadInv'
<1>1. Handles(c) /\ pc[c] = "new"
  BY DEF Handles, PullAllowed, PullDenied, At
<1>2. Moves(c) /\ UNCHANGED <<req, pending, tags>>
  BY <1>1, HandlesMoves, AllowedMoves DEF PullAllowed, PullDenied, tableVars, engineVars
<1>3. /\ past'.acked = past.acked /\ past'.established = past.established
      /\ past'.seesUpload = past.seesUpload \union
           (IF Is(c, "GetBlob") /\ <<req[c].repo, req[c].digest>> \in past.acked
            THEN {c} ELSE {})
  BY DEF PullAllowed, PullDenied, NotePull, Typed, Past
<1>4. AckedIsPending' /\ ExistsIsEstablished' /\ DeniedSoFar'
  BY <1>1, <1>2, <1>3, DeniedHandles DEF UploadInv, AckedIsPending, BlobUploaded,
     ExistsIsEstablished, RepoExists
<1>5. ASSUME NEW k \in past'.seesUpload PROVE Reaches(k)'
  <2>1. CASE k \in past.seesUpload
    BY <1>1, <1>2, <1>3, <2>1, ReachesStays
  <2>2. CASE k \notin past.seesUpload
    <3>1. k = c /\ Is(c, "GetBlob") /\ <<req[c].repo, req[c].digest>> \in past.acked
      BY <1>3, <1>5, <2>2
    <3>2. answer'[c] = "none" /\ pc'[c] \in {"scope", "pushContext"}
      BY <1>1, <3>1 DEF PullAllowed, PullDenied, Go, Typed, ConnOK
    <3>. QED
      BY <1>2, <1>3, <3>1, <3>2 DEF Reaches, Is
  <2>. QED
    BY <2>1, <2>2
<1>. QED
  BY <1>4, <1>5 DEF UploadInv

\* Every call of every handler.
LEMMA UploadHandles ==
  ASSUME Typed, UploadInv, NEW c \in Conn, Handles(c)
  PROVE  UploadInv'
<1>1. CASE RecordUploadedBlob(c)
  BY <1>1, UploadRecord
<1>2. CASE DeleteTag(c) \/ \E ok \in BOOLEAN : ForwardManifest(c, ok)
  BY <1>2, UploadTags
<1>3. CASE PullAllowed(c) \/ PullDenied(c)
  BY <1>3, UploadNotePull
<1>4. CASE /\ ~RecordUploadedBlob(c) /\ ~DeleteTag(c) /\ ~PullAllowed(c) /\ ~PullDenied(c)
           /\ \A ok \in BOOLEAN : ~ForwardManifest(c, ok)
  <2>1. Moves(c) /\ UNCHANGED req
    BY <1>4, HandlesMoves
  <2>2. /\ UNCHANGED <<pending, tags>> /\ past'.acked = past.acked
        /\ past'.established = past.established /\ past'.seesUpload = past.seesUpload
    <3>. past \in Past
      BY DEF Typed
    <3>1. CASE PushStep(c)
      BY <1>4, <3>1 DEF PushStep, PushExists, PushCheck, ForwardCapture, RecordPushGrant,
         RegisterRepository, Past, tableVars, engineVars
    <3>2. CASE MountStep(c) \/ ScopeStep(c)
      BY <3>2 DEF MountStep, MountSource, MountExists, MountCheck, ForwardMount, ScopeStep,
         ScopeCached, ScanTags, RememberVerdict, tableVars, engineVars
    <3>3. CASE FailClosed(c) \/ PushContext(c) \/ PushContextUploaded(c)
      BY <3>3 DEF FailClosed, PushContext, PushContextUploaded, tableVars, engineVars
    <3>4. CASE PushOwner(c) \/ ScopedUpload(c) \/ ForwardPull(c)
      BY <3>4 DEF PushOwner, ScopedUpload, ForwardPull, tableVars, engineVars
    <3>. QED
      BY <1>4, <3>1, <3>2, <3>3, <3>4 DEF Handles
  <2>. QED
    BY <2>1, <2>2, UploadQuiet
<1>. QED
  BY <1>1, <1>2, <1>3, <1>4

\* What leaves the handlers alone and takes no promise away.
LEMMA UploadAside ==
  ASSUME UploadInv, UNCHANGED <<req, pc, answer, loc, tags>>,
         past'.established = past.established,
         past'.acked \subseteq past.acked,
         past'.seesUpload \subseteq past.seesUpload,
         \A k \in past'.seesUpload :
           <<req[k].repo, req[k].digest>> \in past.acked =>
             <<req[k].repo, req[k].digest>> \in past'.acked,
         \A n \in Repo, d \in Digest :
           <<n, d>> \in past'.acked => (BlobUploaded(n, d) => BlobUploaded(n, d)')
  PROVE  UploadInv'
<1>1. AckedIsPending'
  BY DEF UploadInv, AckedIsPending, BlobUploaded
<1>2. ExistsIsEstablished' /\ DeniedSoFar'
  BY DEF UploadInv, ExistsIsEstablished, RepoExists, DeniedSoFar, Is
<1>3. ASSUME NEW k \in past'.seesUpload PROVE Reaches(k)'
  BY <1>3 DEF UploadInv, Reaches, Is
<1>. QED
  BY <1>1, <1>2, <1>3 DEF UploadInv

LEMMA UploadTime ==
  ASSUME Typed, UploadInv, TimePasses
  PROVE  UploadInv'
<1>1. ASSUME NEW n \in Repo, NEW d \in Digest, AgePending(n, d) PROVE UploadInv'
  <2>1. /\ UNCHANGED <<req, pc, answer, loc, tags>>
        /\ past'.established = past.established
        /\ past'.acked = past.acked \ {<<n, d>>}
        /\ past'.seesUpload = {k \in past.seesUpload : req[k].repo # n \/ req[k].digest # d}
    BY <1>1 DEF AgePending, engineVars, Typed, Past
  <2>2. \A m \in Repo, e \in Digest :
          m # n \/ e # d => (BlobUploaded(m, e) => BlobUploaded(m, e)')
    BY <1>1 DEF AgePending, BlobUploaded, Typed, TablesOK
  <2>. QED
    BY <2>1, <2>2, UploadAside
<1>2. ASSUME NEW n \in Repo, NEW d \in Digest, ForgetVerdict(n, d) PROVE UploadInv'
  BY <1>2, UploadAside DEF ForgetVerdict, engineVars, tableVars, BlobUploaded
<1>3. ASSUME NEW n \in Repo, NEW s \in Subject, AgeGrant(n, s) PROVE UploadInv'
  <2>1. /\ UNCHANGED <<req, pc, answer, loc, tags, pending>>
        /\ past'.established = past.established
        /\ past'.acked = past.acked /\ past'.seesUpload = past.seesUpload
    BY <1>3 DEF AgeGrant, engineVars, Typed, Past
  <2>. QED
    BY <2>1, UploadAside DEF BlobUploaded
<1>4. CASE SweepStale
  <2>1. UNCHANGED <<req, pc, answer, loc, tags, past>>
    BY <1>4 DEF SweepStale, engineVars
  <2>2. \A m \in Repo, e \in Digest : BlobUploaded(m, e) => BlobUploaded(m, e)'
    BY <1>4 DEF SweepStale, Swept, BlobUploaded
  <2>. QED
    BY <2>1, <2>2, UploadAside
<1>. QED
  BY <1>1, <1>2, <1>3, <1>4 DEF TimePasses

\* The detached deletes, the services around and a crash.
LEMMA UploadAround ==
  ASSUME Typed, UploadInv,
         \/ \E c \in Conn, ok \in BOOLEAN : DropPushGrant(c, ok)
         \/ \E n \in Repo, s \in Subject : Materialise(n, s) \/ Revoke(n, s)
         \/ Crash
  PROVE  UploadInv'
<1>1. ASSUME NEW c \in Conn, NEW ok \in BOOLEAN, DropPushGrant(c, ok) PROVE UploadInv'
  <2>1. /\ UNCHANGED <<req, pc, answer, loc, tags, pending>>
        /\ past'.established = past.established
        /\ past'.acked = past.acked /\ past'.seesUpload = past.seesUpload
    BY <1>1 DEF DropPushGrant, engineVars, Typed, Past
  <2>. QED
    BY <2>1, UploadAside DEF BlobUploaded
<1>2. ASSUME NEW n \in Repo, NEW s \in Subject, Materialise(n, s) \/ Revoke(n, s)
      PROVE  UploadInv'
  <2>1. /\ UNCHANGED <<req, pc, answer, loc, tags, pending>>
        /\ past'.established = past.established
        /\ past'.acked = past.acked /\ past'.seesUpload = past.seesUpload
    BY <1>2 DEF Materialise, Revoke, engineVars, tableVars, Typed, Past
  <2>. QED
    BY <2>1, UploadAside DEF BlobUploaded
<1>3. CASE Crash
  <2>1. UNCHANGED <<req, loc, tags, pending, past>>
    BY <1>3 DEF Crash, engineVars, tableVars
  <2>2. AckedIsPending' /\ ExistsIsEstablished'
    BY <2>1 DEF UploadInv, AckedIsPending, BlobUploaded, ExistsIsEstablished, RepoExists
  <2>3. DeniedSoFar'
    BY <1>3, <2>1 DEF Crash, UploadInv, DeniedSoFar, Is
  <2>4. ASSUME NEW k \in past.seesUpload PROVE Reaches(k)'
    <3>1. Reaches(k) /\ k \in Conn
      BY DEF UploadInv, Typed, Past
    <3>. QED
      BY <1>3, <2>1, <3>1 DEF Crash, Reaches, Is
  <2>. QED
    BY <2>1, <2>2, <2>3, <2>4 DEF UploadInv
<1>. QED
  BY <1>1, <1>2, <1>3

LEMMA UploadStep ==
  ASSUME Typed, UploadInv, [DPNext]_vars
  PROVE  UploadInv'
<1>1. CASE DPNext
  BY <1>1, StepKinds, UploadHandles, UploadTime, UploadAround
<1>2. CASE UNCHANGED vars
  BY <1>2, UploadAside DEF vars, engineVars, tableVars, BlobUploaded
<1>. QED
  BY <1>1, <1>2

\* REG-33, the read after the 201, for all requests and all interleavings: a
\* pull of a blob begun while the row of its upload is within the TTL
\* (RecordUploadedBlob, then pushContextRevealsBlob or serveBlobScoped) is told
\* 404 to a member only if iam denied it and the repository got its manifest.
THEOREM UploadsReadable == DPSpec => []AckedUploadIsVisible
<1>1. DPInit => Typed /\ UploadInv
  BY TypedInit, UploadInit
<1>2. Typed /\ UploadInv /\ [DPNext]_vars => (Typed /\ UploadInv)'
  BY TypedStep, UploadStep
<1>3. Typed /\ UploadInv => AckedUploadIsVisible
  BY DEF Typed, Past, UploadInv, AckedUploadIsVisible, Reaches
<1>. QED
  BY <1>1, <1>2, <1>3, PTL DEF DPSpec

=============================================================================
