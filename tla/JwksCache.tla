----------------------------- MODULE JwksCache -----------------------------
(***************************************************************************)
(* The verifier of identity tokens and its cache of Hydra's public keys    *)
(* (internal/clients/jwks/verifier.go).                                    *)
(*                                                                         *)
(* A call of Verify looks its kid up in the cache under one lock; a miss   *)
(* may claim the refresh slot, one per minRefresh, and fetch the key set   *)
(* with the lock released.  The answer of the fetch is read, stored under  *)
(* the lock, and the kid looked up again under another lock, so fetches,   *)
(* stores and lookups of several calls interleave.  Hydra (external)       *)
(* rotates its keys at any time and answers at any time or not at all.     *)
(*                                                                         *)
(* Time is a clock in units much larger than a lock section.  A fetch is   *)
(* over Timeout after its slot was claimed (the context of keyFor).        *)
(***************************************************************************)
EXTENDS Integers

CONSTANTS
  Caller,      \* concurrent calls of Verify
  Kid,         \* non-empty kids
  NoKid,       \* the empty kid of a header; a published key without a kid
               \* is skipped by refresh, so published has none
  Key,         \* key material
  None,        \* no key
  AlgOf,       \* AlgOf[k]: the algorithm toKey supports k for, or "unsupported"
  Token,       \* the tokens presented
  DefaultTTL, MaxTTL, MinRefresh, Timeout,
  MaxAge,      \* the max-age values Hydra sends; 0: absent or malformed
  Epoch,       \* the first moment; the zero time.Time is long past by then
  MaxTime      \* bound on the clock

Allowed == {"RS256", "ES256"}   \* the allowlist of Verify

ASSUME JwksAssumption ==
  /\ NoKid \notin Kid
  /\ None \notin Key
  /\ AlgOf \in [Key -> Allowed \union {"unsupported"}]
  /\ DefaultTTL \in Nat /\ MaxTTL \in Nat /\ DefaultTTL <= MaxTTL
  /\ MinRefresh \in Nat /\ Timeout \in Nat
  /\ MaxAge \subseteq Nat
  /\ Epoch \in Nat /\ MaxTTL <= Epoch /\ MinRefresh <= Epoch
  /\ MaxTime \in Nat
  /\ \A t \in Token : t.kid \in Kid \union {NoKid}

KeySet == [Kid -> Key \union {None}]
NoKeys == [k \in Kid |-> None]

VARIABLES
  clock,
  published,   \* the key set Hydra serves (external)
  keys, fetched, ttl, lastRefresh,   \* the Verifier
  pc, token, at,                     \* at[c]: when the call looked its kid up
  doc, key, via,                     \* the keys fetched, the key chosen, how
  \* history, read by no guard
  snap,        \* snap[c]: when Hydra composed doc[c]
  cacheSnap,   \* when Hydra composed what is in keys
  attempt,     \* the fetch of the last slot: who claimed it, what became of it
  since,       \* since[k]: since when published[k] is what it is
  until        \* until[k][x]: the last moment x was published under k

verifier == <<keys, fetched, ttl, lastRefresh>>
call     == <<token, at, doc, key, via, snap>>
hydra    == <<published, since, until>>
vars     == <<clock, verifier, pc, call, hydra, cacheSnap, attempt>>

JwksTypeOK ==
  /\ clock \in Nat
  /\ published \in KeySet /\ keys \in KeySet
  /\ fetched \in 0 .. clock /\ lastRefresh \in 0 .. clock
  /\ ttl \in 0 .. MaxTTL
  /\ pc \in [Caller -> {"fetch", "body", "reread", "verify", "unknown",
                        "refused", "accepted"}]
  /\ token \in [Caller -> Token \union {None}]
  /\ at \in [Caller -> 0 .. clock] /\ snap \in [Caller -> 0 .. clock]
  /\ doc \in [Caller -> KeySet]
  /\ key \in [Caller -> Key \union {None}]
  /\ via \in [Caller -> {"none", "fresh", "known", "unrefreshed", "refetch"}]
  /\ cacheSnap \in 0 .. clock
  /\ attempt \in [by : Caller \union {None}, end : {"flying", "ok", "failed"}]
  /\ since \in [Kid -> 0 .. clock]
  /\ until \in [Kid -> [Key -> 0 .. clock]]

Init ==
  /\ clock = Epoch
  /\ published \in KeySet
  /\ keys = NoKeys /\ fetched = 0 /\ ttl = DefaultTTL /\ lastRefresh = 0
  /\ pc = [c \in Caller |-> "refused"]   \* no call under way
  /\ token = [c \in Caller |-> None]
  /\ at = [c \in Caller |-> 0] /\ snap = [c \in Caller |-> 0]
  /\ doc = [c \in Caller |-> NoKeys]
  /\ key = [c \in Caller |-> None] /\ via = [c \in Caller |-> "none"]
  /\ cacheSnap = 0 /\ attempt = [by |-> None, end |-> "failed"]
  /\ since = [k \in Kid |-> 0]
  /\ until = [k \in Kid |-> [x \in Key |-> IF published[k] = x THEN clock ELSE 0]]

-----------------------------------------------------------------------------
\* keyFor: what the first lock section reads.
Fresh     == clock - fetched < ttl
Throttled == clock - lastRefresh < MinRefresh
Cached(k) == IF k \in Kid THEN keys[k] ELSE None

AtRest(c) == pc[c] \in {"refused", "accepted"}

\* A call arrives with token t and looks its kid up; how it goes on is p.
LookUp(c, t, p, k, v) ==
  /\ AtRest(c)
  /\ pc' = [pc EXCEPT ![c] = p]
  /\ token' = [token EXCEPT ![c] = t]
  /\ at' = [at EXCEPT ![c] = clock]
  /\ key' = [key EXCEPT ![c] = k]
  /\ via' = [via EXCEPT ![c] = v]
  /\ UNCHANGED <<clock, keys, fetched, ttl, doc, snap, hydra, cacheSnap>>

\* The call returns: p is its answer, its locals are gone.
Return(c, p) ==
  /\ pc' = [pc EXCEPT ![c] = p]
  /\ token' = [token EXCEPT ![c] = None]
  /\ at' = [at EXCEPT ![c] = 0] /\ snap' = [snap EXCEPT ![c] = 0]
  /\ doc' = [doc EXCEPT ![c] = NoKeys]
  /\ key' = [key EXCEPT ![c] = None] /\ via' = [via EXCEPT ![c] = "none"]

\* Verify: not a compact JWS, or its alg is not allowed.
RefuseHeader(c, t) ==
  /\ AtRest(c)
  /\ t.alg \notin Allowed
  /\ Return(c, "refused")
  /\ UNCHANGED <<clock, verifier, hydra, cacheSnap, attempt>>

\* Mutant: the age of the cache is not looked at.
CacheHitAnyAge(c, t) ==
  /\ t.alg \in Allowed
  /\ Cached(t.kid) # None
  /\ LookUp(c, t, "verify", Cached(t.kid), "fresh")
  /\ UNCHANGED <<lastRefresh, attempt>>

\* keyFor: ok && fresh.
CacheHit(c, t) ==
  /\ t.alg \in Allowed
  /\ Cached(t.kid) # None /\ Fresh
  /\ LookUp(c, t, "verify", Cached(t.kid), "fresh")
  /\ UNCHANGED <<lastRefresh, attempt>>

\* How a throttled lookup was served, for the properties: from what the last
\* fetch brought, or while that fetch is under way or has failed.
ThrottledVia == IF attempt.end = "ok" THEN "known" ELSE "unrefreshed"

\* keyFor: throttled, and the kid is in the cache, however old.
ServeKnown(c, t) ==
  /\ t.alg \in Allowed
  /\ Cached(t.kid) # None /\ ~Fresh /\ Throttled
  /\ LookUp(c, t, "verify", Cached(t.kid), ThrottledVia)
  /\ UNCHANGED <<lastRefresh, attempt>>

\* Mutant: a kid the cache lacks is refused outside of the throttle window too.
RefuseUnknownAlways(c, t) ==
  /\ t.alg \in Allowed
  /\ Cached(t.kid) = None
  /\ LookUp(c, t, "unknown", None, ThrottledVia)
  /\ UNCHANGED <<lastRefresh, attempt>>

\* keyFor: throttled, and the kid is not in the cache.
RefuseUnknown(c, t) ==
  /\ t.alg \in Allowed
  /\ Cached(t.kid) = None /\ Throttled
  /\ LookUp(c, t, "unknown", None, ThrottledVia)
  /\ UNCHANGED <<lastRefresh, attempt>>

\* Mutant: the slot is not claimed before the lock is released.
ClaimSlotLate(c, t) ==
  /\ t.alg \in Allowed
  /\ ~(Cached(t.kid) # None /\ Fresh) /\ ~Throttled
  /\ LookUp(c, t, "fetch", None, "refetch")
  /\ attempt' = [by |-> c, end |-> "flying"]
  /\ UNCHANGED lastRefresh

\* keyFor: the slot is claimed under the lock; the fetch runs without it, and
\* whether or not the caller goes away.
ClaimSlot(c, t) ==
  /\ t.alg \in Allowed
  /\ ~(Cached(t.kid) # None /\ Fresh) /\ ~Throttled
  /\ LookUp(c, t, "fetch", None, "refetch")
  /\ lastRefresh' = clock
  /\ attempt' = [by |-> c, end |-> "flying"]

\* refresh: the keys of a document that go into the map.
Loaded(d) ==
  [k \in Kid |-> IF d[k] # None /\ AlgOf[d[k]] \in Allowed
                   THEN d[k] ELSE None]

\* Mutant: the max-age of the server is believed.
ClampNot(age) == age

\* parseMaxAge and its clamp; 0 leaves the TTL as it is.
Clamp(age) == IF age > MaxTTL THEN MaxTTL ELSE age

\* Hydra composes its answer (external).
Respond(c) ==
  /\ pc[c] = "fetch"
  /\ pc' = [pc EXCEPT ![c] = "body"]
  /\ doc' = [doc EXCEPT ![c] = Loaded(published)]
  /\ snap' = [snap EXCEPT ![c] = clock]
  /\ UNCHANGED <<clock, verifier, token, at, key, via, hydra, cacheSnap, attempt>>

\* refresh: the request fails, times out, is answered with another status than
\* 200, or its body does not decode.  keyFor returns the error.
FetchFails(c) ==
  /\ pc[c] \in {"fetch", "body"}
  /\ Return(c, "refused")
  /\ attempt' = IF attempt.by = c THEN [attempt EXCEPT !.end = "failed"] ELSE attempt
  /\ UNCHANGED <<clock, verifier, hydra, cacheSnap>>

\* refresh: the map is replaced under the lock, by whichever fetch is done.
\* age is the max-age of the answer's Cache-Control.
Store(c, age) ==
  /\ pc[c] = "body"
  /\ pc' = [pc EXCEPT ![c] = "reread"]
  /\ keys' = doc[c]
  /\ fetched' = clock
  /\ ttl' = IF age > 0 THEN Clamp(age) ELSE ttl
  /\ cacheSnap' = snap[c]
  /\ attempt' = IF attempt.by = c THEN [attempt EXCEPT !.end = "ok"] ELSE attempt
  /\ UNCHANGED <<clock, lastRefresh, call, hydra>>

\* keyFor: the second lock section.
Reread(c) ==
  /\ pc[c] = "reread"
  /\ key' = [key EXCEPT ![c] = Cached(token[c].kid)]
  /\ pc' = [pc EXCEPT ![c] = IF Cached(token[c].kid) # None THEN "verify" ELSE "unknown"]
  /\ UNCHANGED <<clock, verifier, token, at, doc, via, snap, hydra, cacheSnap, attempt>>

\* Verify: signature (the type of the key must fit the alg), exp against the
\* clock of this moment, aud and iss, a non-empty sub.
Check(c) ==
  /\ pc[c] = "verify"
  /\ LET t == token[c]
         good == /\ t.signer = key[c] /\ AlgOf[key[c]] = t.alg
                 /\ t.exp # 0 /\ clock <= t.exp
                 /\ t.forUs
     IN  Return(c, IF good THEN "accepted" ELSE "refused")
  /\ UNCHANGED <<clock, verifier, hydra, cacheSnap, attempt>>

\* keyFor: the error "unknown kid" becomes the answer of Verify.
RefuseKid(c) ==
  /\ pc[c] = "unknown"
  /\ Return(c, "refused")
  /\ UNCHANGED <<clock, verifier, hydra, cacheSnap, attempt>>

-----------------------------------------------------------------------------
\* Hydra publishes a key, replaces one or retires one (external).
Rotate(k, x) ==
  /\ published[k] # x
  /\ published' = [published EXCEPT ![k] = x]
  /\ since' = [since EXCEPT ![k] = clock]
  /\ until' = [until EXCEPT ![k] = [y \in Key |-> IF y = x THEN clock ELSE @[y]]]
  /\ UNCHANGED <<clock, verifier, pc, call, cacheSnap, attempt>>

\* Time passes, but not past the deadline of a fetch.
Tick ==
  /\ clock < MaxTime
  /\ \A c \in Caller : pc[c] \in {"fetch", "body"} => clock < at[c] + Timeout
  /\ clock' = clock + 1
  /\ until' = [k \in Kid |-> [x \in Key |->
                  IF published[k] = x THEN clock + 1 ELSE until[k][x]]]
  /\ UNCHANGED <<verifier, pc, call, published, since, cacheSnap, attempt>>

Verify(c) ==
  \/ \E t \in Token :
       \/ RefuseHeader(c, t) \/ CacheHit(c, t) \/ ServeKnown(c, t)
       \/ RefuseUnknown(c, t) \/ ClaimSlot(c, t)
  \/ Respond(c) \/ FetchFails(c)
  \/ \E age \in MaxAge : Store(c, age)
  \/ Reread(c) \/ Check(c) \/ RefuseKid(c)

Next ==
  \/ \E c \in Caller : Verify(c)
  \/ \E k \in Kid, x \in Key \union {None} : Rotate(k, x)
  \/ Tick

Spec == Init /\ [][Next]_vars

-----------------------------------------------------------------------------
\* How long a key may be out of the published set when a call is given it.
Window ==
  [v \in {"fresh", "known", "refetch"} |->
     (IF v = "fresh" THEN MaxTTL ELSE IF v = "known" THEN MinRefresh ELSE 0) + Timeout]

\* keyFor (README of the package: "bounded TTL, but not for ever"): unless the
\* last fetch is under way or failed, a call is given a key that was published
\* under its kid not longer ago than the TTL (or the throttle window, or
\* nothing for a call that fetched) plus one fetch, whatever rotations and
\* overlapping fetches came between.
RetiredKeyLapses ==
  \A c \in Caller :
    key[c] # None /\ via[c] # "unrefreshed" =>
      at[c] <= until[token[c].kid][key[c]] + Window[via[c]]

\* keyFor ("a rotation is picked up with a delay of at most minRefresh"): unless
\* the last fetch is under way or failed, a kid is refused as unknown only if its
\* key was published less than the throttle window plus one fetch before.
RotationPickedUp ==
  \A c \in Caller :
    pc[c] = "unknown" /\ via[c] # "unrefreshed" =>
      LET k == token[c].kid
      IN  k \in Kid /\ Loaded(published)[k] # None => at[c] <= since[k] + Window[via[c]]

\* keyFor ("concurrent misses collapse into one fetch"): fetches in flight were
\* begun at least minRefresh apart, however many calls miss.
FetchesSpaced ==
  \A c, d \in Caller :
    c # d /\ pc[c] \in {"fetch", "body"} /\ pc[d] \in {"fetch", "body"} =>
      at[c] + MinRefresh <= at[d] \/ at[d] + MinRefresh <= at[c]
=============================================================================
