-------------------------- MODULE JwksCache_proofs --------------------------
(***************************************************************************)
(* Proofs about JwksCache, for any number of callers, any keys and any     *)
(* durations.                                                              *)
(*                                                                         *)
(* The argument: a fetch ends within Timeout, so what is stored was        *)
(* composed by Hydra at most Timeout before, whichever of several fetches  *)
(* stored it.  The age of the cache at a lookup is bounded by the TTL, or  *)
(* by the throttle window if the fetch of the last slot stored something.  *)
(***************************************************************************)
EXTENDS JwksCache, TLAPS

Flying(c) == pc[c] \in {"fetch", "body"}

\* keyFor, refresh: the slot was claimed when the call looked its kid up, and the
\* context of the fetch is not over.
Flights ==
  \A c \in Caller : Flying(c) =>
    /\ at[c] <= lastRefresh /\ clock <= at[c] + Timeout
    /\ pc[c] = "body" => at[c] <= snap[c]

\* The locals of a call of Verify.
Calls ==
  \A c \in Caller :
    /\ ~AtRest(c) => token[c] \in Token
    /\ key[c] # None => token[c].kid \in Kid /\ via[c] # "none"
    /\ pc[c] \in {"fetch", "body", "reread"} => via[c] = "refetch"
    /\ pc[c] = "unknown" => via[c] \in {"known", "unrefreshed", "refetch"}
    /\ pc[c] = "reread" => at[c] <= fetched

\* refresh: the cache is at most one fetch younger than its contents.
CacheAge ==
  /\ fetched <= cacheSnap + Timeout
  /\ attempt.end = "ok" => lastRefresh <= fetched

\* ks is what refresh makes of the key set Hydra published at moment s.
Composed(ks, s) ==
  \A k \in Kid :
    /\ ks[k] # None => s <= until[k][ks[k]]
    /\ ks[k] # Loaded(published)[k] => s <= since[k]

Contents ==
  /\ Composed(keys, cacheSnap)
  /\ \A c \in Caller : pc[c] = "body" => Composed(doc[c], snap[c])
  /\ \A k \in Kid : published[k] # None => until[k][published[k]] = clock

JInv ==
  /\ JwksTypeOK /\ Flights /\ Calls /\ CacheAge /\ Contents
  /\ RetiredKeyLapses /\ RotationPickedUp /\ FetchesSpaced

-----------------------------------------------------------------------------
LEMMA Durations ==
  /\ DefaultTTL \in Nat /\ MaxTTL \in Nat /\ MinRefresh \in Nat /\ Timeout \in Nat
  /\ Epoch \in Nat /\ DefaultTTL <= MaxTTL
  /\ Window["fresh"] = MaxTTL + Timeout /\ Window["known"] = MinRefresh + Timeout
  /\ Window["refetch"] = Timeout
  BY JwksAssumption DEF Window

LEMMA LoadedFacts ==
  ASSUME NEW d \in KeySet
  PROVE  /\ Loaded(d) \in KeySet
         /\ \A k \in Kid : Loaded(d)[k] # None => Loaded(d)[k] = d[k]
  BY DEF Loaded, KeySet

LEMMA InitJInv == Init => JInv
<1> SUFFICES ASSUME Init PROVE JInv
  OBVIOUS
<1> USE Durations
<1>1. JwksTypeOK
  <2>1. NoKeys \in KeySet
    BY DEF NoKeys, KeySet
  <2>2. attempt \in [by : Caller \union {None}, end : {"flying", "ok", "failed"}]
    BY DEF Init
  <2>3. until \in [Kid -> [Key -> 0 .. clock]]
    BY DEF Init
  <2> QED  BY <2>1, <2>2, <2>3 DEF Init, JwksTypeOK
<1>2. Flights /\ Calls /\ CacheAge
  BY DEF Init, Flights, Flying, Calls, AtRest, CacheAge
<1>3. Contents
  <2>1. published \in KeySet /\ cacheSnap = 0 /\ clock = Epoch
    BY DEF Init
  <2>2. \A k \in Kid : keys[k] = None /\ since[k] = 0
    BY DEF Init, NoKeys
  <2>3. Composed(keys, cacheSnap)
    BY <2>1, <2>2 DEF Composed
  <2>4. \A k \in Kid : published[k] # None => until[k][published[k]] = clock
    BY <2>1 DEF Init, KeySet
  <2>5. \A c \in Caller : pc[c] # "body"
    BY DEF Init
  <2> QED  BY <2>3, <2>4, <2>5 DEF Contents
<1>4. RetiredKeyLapses /\ RotationPickedUp /\ FetchesSpaced
  BY DEF Init, RetiredKeyLapses, RotationPickedUp, FetchesSpaced
<1> QED  BY <1>1, <1>2, <1>3, <1>4 DEF JInv

-----------------------------------------------------------------------------
\* What the cache can hold at a lookup, and what it can lack.
LEMMA CacheReading ==
  ASSUME JInv, NEW t \in Token
  PROVE  /\ Cached(t.kid) \in Key \union {None}
         /\ Cached(t.kid) # None => t.kid \in Kid /\ fetched <= until[t.kid][Cached(t.kid)] + Timeout
         /\ Cached(t.kid) = None /\ t.kid \in Kid /\ Loaded(published)[t.kid] # None =>
              fetched <= since[t.kid] + Timeout
<1> DEFINE k == t.kid
<1>1. keys \in KeySet /\ fetched \in Nat /\ cacheSnap \in Nat /\ Timeout \in Nat
  BY Durations DEF JInv, JwksTypeOK
<1>2. Cached(k) \in Key \union {None} /\ (Cached(k) # None => k \in Kid)
  BY <1>1 DEF Cached, KeySet
<1>3. ASSUME k \in Kid, Cached(k) # None  PROVE fetched <= until[k][Cached(k)] + Timeout
  <2>1. Cached(k) = keys[k] /\ cacheSnap <= until[k][keys[k]]
    BY <1>3 DEF Cached, JInv, Contents, Composed
  <2>2. until[k][keys[k]] \in Nat
    BY <1>2, <1>3, <2>1 DEF JInv, JwksTypeOK
  <2>3. fetched <= cacheSnap + Timeout
    BY DEF JInv, CacheAge
  <2> QED  BY <1>1, <2>1, <2>2, <2>3
<1>4. ASSUME Cached(k) = None, k \in Kid, Loaded(published)[k] # None
      PROVE  fetched <= since[k] + Timeout
  <2>1. cacheSnap <= since[k]
    BY <1>4 DEF Cached, JInv, Contents, Composed
  <2>2. since[k] \in Nat
    BY <1>4 DEF JInv, JwksTypeOK
  <2>3. fetched <= cacheSnap + Timeout
    BY DEF JInv, CacheAge
  <2> QED  BY <1>1, <2>1, <2>2, <2>3
<1> QED  BY <1>2, <1>3, <1>4

\* A step that leaves Hydra and the clock alone keeps what is said of documents.
LEMMA ContentsSame ==
  ASSUME Contents, UNCHANGED <<clock, hydra, keys, cacheSnap>>,
         \A c \in Caller : pc'[c] = "body" => pc[c] = "body" /\ doc'[c] = doc[c] /\ snap'[c] = snap[c]
  PROVE  Contents'
  BY DEF Contents, Composed, hydra, Loaded

\* A lookup that is answered from the cache, in either way.
LEMMA AnsweredJInv ==
  ASSUME JInv, NEW c \in Caller, NEW t \in Token,
         CacheHit(c, t) \/ ServeKnown(c, t) \/ RefuseUnknown(c, t)
  PROVE  JInv'
<1> USE Durations
<1>1. PICK p, k, v :
        /\ LookUp(c, t, p, k, v) /\ UNCHANGED <<lastRefresh, attempt>>
        /\ \/ p = "verify" /\ k = Cached(t.kid) /\ k # None /\ v = "fresh" /\ Fresh
           \/ p = "verify" /\ k = Cached(t.kid) /\ k # None /\ Throttled /\ v = ThrottledVia
           \/ p = "unknown" /\ k = None /\ Cached(t.kid) = None /\ Throttled /\ v = ThrottledVia
  BY DEF CacheHit, ServeKnown, RefuseUnknown
<1>2. /\ pc' = [pc EXCEPT ![c] = p] /\ token' = [token EXCEPT ![c] = t]
      /\ at' = [at EXCEPT ![c] = clock] /\ key' = [key EXCEPT ![c] = k]
      /\ via' = [via EXCEPT ![c] = v]
      /\ UNCHANGED <<clock, keys, fetched, ttl, doc, snap, hydra, cacheSnap>>
      /\ UNCHANGED <<lastRefresh, attempt>>
  BY <1>1 DEF LookUp
<1>3. /\ p \in {"verify", "unknown"} /\ k \in Key \union {None}
      /\ v \in {"fresh", "known", "unrefreshed"} /\ (p = "unknown" => v # "fresh")
      /\ k # None => t.kid \in Kid
  BY <1>1, CacheReading DEF ThrottledVia
<1>4. JwksTypeOK'
  BY <1>2, <1>3 DEF JInv, JwksTypeOK, hydra
<1>5. Flights' /\ FetchesSpaced'
  BY <1>2, <1>3 DEF JInv, JwksTypeOK, Flights, Flying, FetchesSpaced
<1>6. Calls'
  BY <1>2, <1>3 DEF JInv, JwksTypeOK, Calls, AtRest
<1>7. CacheAge'
  BY <1>2 DEF JInv, CacheAge
<1>8. Contents'
  BY <1>2, <1>3, ContentsSame DEF JInv, JwksTypeOK
<1>9. /\ clock \in Nat /\ fetched \in Nat /\ ttl \in Nat /\ ttl <= MaxTTL /\ lastRefresh \in Nat
      /\ \A j \in Kid : since[j] \in Nat /\ \A x \in Key : until[j][x] \in Nat
  BY DEF JInv, JwksTypeOK
<1>10. ASSUME v = "known"  PROVE clock <= fetched + MinRefresh
  <2>1. Throttled /\ attempt.end = "ok"
    BY <1>1, <1>10 DEF ThrottledVia
  <2> QED  BY <1>9, <2>1 DEF Throttled, JInv, CacheAge
<1>11. RetiredKeyLapses'
  <2>1. ASSUME k # None, v # "unrefreshed"
        PROVE  clock <= until[t.kid][k] + Window[v]
    <3>1. t.kid \in Kid /\ k \in Key /\ fetched <= until[t.kid][k] + Timeout
      BY <1>1, <1>3, <2>1, CacheReading
    <3>2. CASE v = "fresh"
      BY <1>1, <1>9, <3>1, <3>2 DEF Fresh, ThrottledVia
    <3>3. CASE v = "known"
      BY <1>9, <1>10, <3>1, <3>3
    <3> QED  BY <1>3, <2>1, <3>2, <3>3
  <2> QED  BY <1>2, <2>1 DEF JInv, JwksTypeOK, RetiredKeyLapses, hydra
<1>12. RotationPickedUp'
  <2>1. ASSUME p = "unknown", v # "unrefreshed", t.kid \in Kid, Loaded(published)[t.kid] # None
        PROVE  clock <= since[t.kid] + Window[v]
    <3>1. v = "known" /\ fetched <= since[t.kid] + Timeout
      BY <1>1, <1>3, <2>1, CacheReading
    <3> QED  BY <1>9, <1>10, <2>1, <3>1
  <2> QED  BY <1>2, <2>1 DEF JInv, JwksTypeOK, RotationPickedUp, hydra, Loaded
<1> QED  BY <1>4, <1>5, <1>6, <1>7, <1>8, <1>11, <1>12 DEF JInv

\* The slot is claimed under the lock, minRefresh after the last one.
LEMMA ClaimSlotJInv ==
  ASSUME JInv, NEW c \in Caller, NEW t \in Token, ClaimSlot(c, t)
  PROVE  JInv'
<1> USE Durations
<1>1. /\ pc' = [pc EXCEPT ![c] = "fetch"] /\ token' = [token EXCEPT ![c] = t]
      /\ at' = [at EXCEPT ![c] = clock] /\ key' = [key EXCEPT ![c] = None]
      /\ via' = [via EXCEPT ![c] = "refetch"]
      /\ UNCHANGED <<clock, keys, fetched, ttl, doc, snap, hydra, cacheSnap>>
      /\ lastRefresh' = clock /\ attempt' = [by |-> c, end |-> "flying"]
      /\ ~Throttled
  BY DEF ClaimSlot, LookUp
<1>2. JwksTypeOK'
  BY <1>1 DEF JInv, JwksTypeOK, hydra
<1>3. /\ clock \in Nat /\ lastRefresh \in 0 .. clock /\ at \in [Caller -> 0 .. clock]
      /\ pc \in [Caller -> {"fetch", "body", "reread", "verify", "unknown", "refused", "accepted"}]
  BY DEF JInv, JwksTypeOK
<1>4. Flights'
  BY <1>1, <1>3 DEF JInv, Flights, Flying
<1>5. FetchesSpaced'
  <2>1. \A d \in Caller : Flying(d) => at[d] + MinRefresh <= clock
    BY <1>1, <1>3 DEF JInv, Flights, Throttled
  <2> QED  BY <1>1, <1>3, <2>1 DEF JInv, FetchesSpaced, Flying
<1>6. Calls'
  BY <1>1 DEF JInv, JwksTypeOK, Calls, AtRest
<1>7. CacheAge'
  BY <1>1 DEF JInv, CacheAge
<1>8. Contents'
  BY <1>1, <1>3, ContentsSame DEF JInv
<1>9. RetiredKeyLapses' /\ RotationPickedUp'
  BY <1>1 DEF JInv, JwksTypeOK, RetiredKeyLapses, RotationPickedUp, hydra, Loaded
<1> QED  BY <1>2, <1>4, <1>5, <1>6, <1>7, <1>8, <1>9 DEF JInv

\* A call returns; nothing depends on its locals any more.
LEMMA ReturnJInv ==
  ASSUME JInv, NEW c \in Caller, NEW p \in {"refused", "accepted"}, Return(c, p),
         UNCHANGED <<clock, verifier, hydra, cacheSnap>>,
         attempt' = attempt \/ attempt' = [attempt EXCEPT !.end = "failed"]
  PROVE  JInv'
<1> USE Durations
<1>1. /\ pc' = [pc EXCEPT ![c] = p] /\ token' = [token EXCEPT ![c] = None]
      /\ at' = [at EXCEPT ![c] = 0] /\ snap' = [snap EXCEPT ![c] = 0]
      /\ doc' = [doc EXCEPT ![c] = NoKeys]
      /\ key' = [key EXCEPT ![c] = None] /\ via' = [via EXCEPT ![c] = "none"]
  BY DEF Return
<1>2. /\ NoKeys \in KeySet
      /\ attempt' \in [by : Caller \union {None}, end : {"flying", "ok", "failed"}]
      /\ attempt'.end = "ok" => attempt.end = "ok"
  BY DEF NoKeys, KeySet, JInv, JwksTypeOK
<1>3. JwksTypeOK'
  BY <1>1, <1>2 DEF JInv, JwksTypeOK, hydra, verifier
<1>4. Flights' /\ FetchesSpaced'
  BY <1>1 DEF JInv, JwksTypeOK, Flights, Flying, FetchesSpaced, verifier
<1>5. Calls'
  BY <1>1 DEF JInv, JwksTypeOK, Calls, AtRest, verifier
<1>6. CacheAge'
  BY <1>2 DEF JInv, CacheAge, verifier
<1>7. Contents'
  BY <1>1, ContentsSame DEF JInv, JwksTypeOK, verifier
<1>8. RetiredKeyLapses' /\ RotationPickedUp'
  BY <1>1 DEF JInv, JwksTypeOK, RetiredKeyLapses, RotationPickedUp, hydra, Loaded
<1> QED  BY <1>3, <1>4, <1>5, <1>6, <1>7, <1>8 DEF JInv

\* Hydra answers with what it publishes at this moment.
LEMMA RespondJInv ==
  ASSUME JInv, NEW c \in Caller, Respond(c)
  PROVE  JInv'
<1> USE Durations
<1>1. /\ pc[c] = "fetch" /\ pc' = [pc EXCEPT ![c] = "body"]
      /\ doc' = [doc EXCEPT ![c] = Loaded(published)] /\ snap' = [snap EXCEPT ![c] = clock]
      /\ UNCHANGED <<clock, keys, fetched, ttl, lastRefresh, token, at, key, via>>
      /\ UNCHANGED <<published, since, until, cacheSnap, attempt>>
  BY DEF Respond, verifier, hydra
<1>2. published \in KeySet /\ clock \in Nat /\ at \in [Caller -> 0 .. clock]
  BY DEF JInv, JwksTypeOK
<1>3. JwksTypeOK'
  BY <1>1, <1>2, LoadedFacts DEF JInv, JwksTypeOK
<1>4. Flights' /\ FetchesSpaced'
  BY <1>1, <1>2 DEF JInv, JwksTypeOK, Flights, Flying, FetchesSpaced
<1>5. Calls' /\ CacheAge'
  BY <1>1 DEF JInv, JwksTypeOK, Calls, AtRest, CacheAge
<1>6. Contents'
  <2>1. Composed(Loaded(published), clock)
    BY <1>2, LoadedFacts DEF Composed, JInv, Contents
  <2>2. \A ks, z : Composed(ks, z)' <=> Composed(ks, z)
    BY <1>1 DEF Composed, Loaded
  <2>3. ASSUME NEW d \in Caller, pc'[d] = "body"  PROVE Composed(doc'[d], snap'[d])
    <3>1. CASE d = c
      BY <1>1, <2>1, <3>1 DEF JInv, JwksTypeOK
    <3>2. CASE d # c
      BY <1>1, <2>3, <3>2 DEF JInv, JwksTypeOK, Contents
    <3> QED  BY <3>1, <3>2
  <2> QED  BY <1>1, <2>2, <2>3 DEF JInv, Contents, Composed, Loaded
<1>7. RetiredKeyLapses' /\ RotationPickedUp'
  BY <1>1 DEF JInv, JwksTypeOK, RetiredKeyLapses, RotationPickedUp, Loaded
<1> QED  BY <1>3, <1>4, <1>5, <1>6, <1>7 DEF JInv

\* A fetch replaces the cache, also one that was overtaken by a later one: what it
\* brings is at most Timeout old.
LEMMA StoreJInv ==
  ASSUME JInv, NEW c \in Caller, NEW age \in MaxAge, Store(c, age)
  PROVE  JInv'
<1> USE Durations
<1>1. /\ pc[c] = "body" /\ pc' = [pc EXCEPT ![c] = "reread"]
      /\ keys' = doc[c] /\ fetched' = clock /\ cacheSnap' = snap[c]
      /\ ttl' = IF age > 0 THEN Clamp(age) ELSE ttl
      /\ attempt' = IF attempt.by = c THEN [attempt EXCEPT !.end = "ok"] ELSE attempt
      /\ UNCHANGED <<clock, lastRefresh, token, at, doc, key, via, snap>>
      /\ UNCHANGED <<published, since, until>>
  BY DEF Store, call, hydra
<1>2. /\ clock \in Nat /\ at \in [Caller -> 0 .. clock] /\ snap \in [Caller -> 0 .. clock]
      /\ lastRefresh \in 0 .. clock
      /\ pc \in [Caller -> {"fetch", "body", "reread", "verify", "unknown", "refused", "accepted"}]
  BY DEF JInv, JwksTypeOK
<1>3. JwksTypeOK'
  <2>1. ttl' \in 0 .. MaxTTL
    BY <1>1, JwksAssumption DEF Clamp, JInv, JwksTypeOK
  <2>2. attempt' \in [by : Caller \union {None}, end : {"flying", "ok", "failed"}]
    BY <1>1 DEF JInv, JwksTypeOK
  <2> QED  BY <1>1, <1>2, <2>1, <2>2 DEF JInv, JwksTypeOK
<1>4. Flights' /\ FetchesSpaced'
  BY <1>1, <1>2 DEF JInv, Flights, Flying, FetchesSpaced
<1>5. Calls'
  BY <1>1, <1>2 DEF JInv, Calls, AtRest
<1>6. CacheAge'
  <2>1. clock <= at[c] + Timeout /\ at[c] <= snap[c]
    BY <1>1 DEF JInv, Flights, Flying
  <2> QED  BY <1>1, <1>2, <2>1 DEF CacheAge
<1>7. Contents'
  <2>1. Composed(doc[c], snap[c])
    BY <1>1 DEF JInv, Contents
  <2>2. \A ks, z : Composed(ks, z)' <=> Composed(ks, z)
    BY <1>1 DEF Composed, Loaded
  <2>3. \A d \in Caller : pc'[d] = "body" => Composed(doc[d], snap[d])
    BY <1>1, <1>2 DEF JInv, Contents
  <2> QED  BY <1>1, <2>1, <2>2, <2>3 DEF JInv, Contents, Composed, Loaded
<1>8. RetiredKeyLapses' /\ RotationPickedUp'
  BY <1>1, <1>2 DEF JInv, RetiredKeyLapses, RotationPickedUp, Loaded
<1> QED  BY <1>3, <1>4, <1>5, <1>6, <1>7, <1>8 DEF JInv

\* The second lookup finds the answer of this fetch or of a later store.
LEMMA RereadJInv ==
  ASSUME JInv, NEW c \in Caller, Reread(c)
  PROVE  JInv'
<1> USE Durations
<1> DEFINE k == token[c].kid
<1>1. /\ pc[c] = "reread"
      /\ pc' = [pc EXCEPT ![c] = IF Cached(k) # None THEN "verify" ELSE "unknown"]
      /\ key' = [key EXCEPT ![c] = Cached(k)]
      /\ UNCHANGED <<clock, keys, fetched, ttl, lastRefresh, token, at, doc, via, snap>>
      /\ UNCHANGED <<published, since, until, cacheSnap, attempt>>
  BY DEF Reread, verifier, hydra
<1>2. token[c] \in Token /\ via[c] = "refetch" /\ at[c] <= fetched
  BY <1>1 DEF JInv, Calls, AtRest
<1>3. /\ Cached(k) \in Key \union {None}
      /\ Cached(k) # None => k \in Kid /\ fetched <= until[k][Cached(k)] + Timeout
      /\ Cached(k) = None /\ k \in Kid /\ Loaded(published)[k] # None => fetched <= since[k] + Timeout
  BY <1>2, CacheReading
<1>4. /\ pc \in [Caller -> {"fetch", "body", "reread", "verify", "unknown", "refused", "accepted"}]
      /\ key \in [Caller -> Key \union {None}] /\ at \in [Caller -> 0 .. clock]
      /\ clock \in Nat /\ fetched \in Nat
      /\ \A j \in Kid : since[j] \in Nat /\ \A x \in Key : until[j][x] \in Nat
  BY DEF JInv, JwksTypeOK
<1>5. JwksTypeOK'
  BY <1>1, <1>3 DEF JInv, JwksTypeOK
<1>6. Flights' /\ FetchesSpaced'
  BY <1>1, <1>4 DEF JInv, Flights, Flying, FetchesSpaced
<1>7. Calls' /\ CacheAge'
  BY <1>1, <1>2, <1>3, <1>4 DEF JInv, Calls, AtRest, CacheAge
<1>8. Contents'
  BY <1>1, <1>4, ContentsSame DEF JInv, hydra
<1>9. RetiredKeyLapses'
  <2>1. Cached(k) # None => at[c] <= until[k][Cached(k)] + Window[via[c]]
    BY <1>2, <1>3, <1>4
  <2> QED  BY <1>1, <1>4, <2>1 DEF JInv, RetiredKeyLapses
<1>10. RotationPickedUp'
  <2>1. Cached(k) = None /\ k \in Kid /\ Loaded(published)[k] # None =>
          at[c] <= since[k] + Window[via[c]]
    BY <1>2, <1>3, <1>4
  <2> QED  BY <1>1, <1>4, <2>1 DEF JInv, RotationPickedUp, Loaded
<1> QED  BY <1>5, <1>6, <1>7, <1>8, <1>9, <1>10 DEF JInv

\* Hydra and the clock: what was published is remembered, what changes is new.
LEMMA HydraJInv ==
  ASSUME JInv, UNCHANGED <<verifier, pc, call, cacheSnap, attempt>>,
         Tick \/ \E k \in Kid, x \in Key \union {None} : Rotate(k, x)
  PROVE  JInv'
<1> USE Durations
<1>1. /\ clock \in Nat /\ published \in KeySet /\ fetched \in 0 .. clock /\ lastRefresh \in 0 .. clock
      /\ at \in [Caller -> 0 .. clock] /\ snap \in [Caller -> 0 .. clock] /\ cacheSnap \in 0 .. clock
      /\ since \in [Kid -> 0 .. clock] /\ until \in [Kid -> [Key -> 0 .. clock]]
      /\ keys \in KeySet /\ doc \in [Caller -> KeySet]
      /\ key \in [Caller -> Key \union {None}]
      /\ via \in [Caller -> {"none", "fresh", "known", "unrefreshed", "refetch"}]
  BY DEF JInv, JwksTypeOK
<1>2. /\ clock' \in Nat /\ clock <= clock' /\ published' \in KeySet
      /\ since' \in [Kid -> 0 .. clock'] /\ until' \in [Kid -> [Key -> 0 .. clock']]
      /\ \A j \in Kid : \A y \in Key : until[j][y] <= until'[j][y]
      /\ \A j \in Kid : \/ published'[j] = published[j] /\ since'[j] = since[j]
                        \/ since'[j] = clock
      /\ \A j \in Kid : published'[j] # None => until'[j][published'[j]] = clock'
      /\ \A c \in Caller : Flying(c) => clock' <= at[c] + Timeout
  <2>1. CASE Tick
    <3>1. /\ clock' = clock + 1 /\ published' = published /\ since' = since
          /\ until' = [j \in Kid |-> [y \in Key |->
                         IF published[j] = y THEN clock + 1 ELSE until[j][y]]]
          /\ \A c \in Caller : Flying(c) => clock < at[c] + Timeout
      BY <2>1 DEF Tick, Flying
    <3>2. \A j \in Kid : \A y \in Key : until'[j][y] \in 0 .. clock' /\ until[j][y] <= until'[j][y]
      BY <1>1, <3>1
    <3>3. until' \in [Kid -> [Key -> 0 .. clock']]
      BY <1>1, <3>1
    <3>4. \A j \in Kid : published'[j] # None => until'[j][published'[j]] = clock'
      BY <1>1, <3>1 DEF KeySet
    <3> QED  BY <1>1, <3>1, <3>2, <3>3, <3>4
  <2>2. ASSUME NEW k \in Kid, NEW x \in Key \union {None}, Rotate(k, x)
        PROVE  <1>2!:
    <3>1. /\ clock' = clock /\ published' = [published EXCEPT ![k] = x]
          /\ since' = [since EXCEPT ![k] = clock]
          /\ until' = [until EXCEPT ![k] = [y \in Key |-> IF y = x THEN clock ELSE until[k][y]]]
      BY <2>2 DEF Rotate
    <3>2. published' \in KeySet
      BY <1>1, <3>1 DEF KeySet
    <3>3. until' \in [Kid -> [Key -> 0 .. clock']]
      BY <1>1, <3>1
    <3>4. \A j \in Kid : \A y \in Key : until[j][y] <= until'[j][y]
      BY <1>1, <3>1
    <3>5. \A j \in Kid : published'[j] # None => until'[j][published'[j]] = clock'
      BY <1>1, <3>1 DEF KeySet, JInv, Contents
    <3>6. \A c \in Caller : Flying(c) => clock' <= at[c] + Timeout
      BY <3>1 DEF JInv, Flights
    <3> QED  BY <1>1, <3>1, <3>2, <3>3, <3>4, <3>5, <3>6
  <2> QED  BY <2>1, <2>2
<1>3. UNCHANGED <<keys, fetched, ttl, lastRefresh, pc, token, at, doc, key, via, snap, cacheSnap, attempt>>
  BY DEF verifier, call
<1>4. JwksTypeOK'
  BY <1>1, <1>2, <1>3 DEF JInv, JwksTypeOK
<1>5. Flights' /\ FetchesSpaced' /\ Calls' /\ CacheAge'
  BY <1>1, <1>2, <1>3 DEF JInv, Flights, Flying, FetchesSpaced, Calls, AtRest, CacheAge
<1>6. ASSUME NEW ks \in KeySet, NEW z \in 0 .. clock, Composed(ks, z)
      PROVE  Composed(ks, z)'
  <2> SUFFICES ASSUME NEW k \in Kid
               PROVE  /\ ks[k] # None => z <= until'[k][ks[k]]
                      /\ ks[k] # (Loaded(published)')[k] => z <= since'[k]
    BY DEF Composed
  <2>1. ks[k] # None => z <= until'[k][ks[k]]
    BY <1>1, <1>2, <1>6 DEF Composed, KeySet
  <2>2. CASE since'[k] = clock
    BY <1>1, <2>1, <2>2
  <2>3. CASE published'[k] = published[k] /\ since'[k] = since[k]
    <3>1. (Loaded(published)')[k] = Loaded(published)[k]
      BY <2>3 DEF Loaded
    <3> QED  BY <1>6, <2>1, <2>3, <3>1 DEF Composed
  <2> QED  BY <1>2, <2>2, <2>3
<1>7. Contents'
  <2>1. Composed(keys, cacheSnap)'
    <3>1. Composed(keys, cacheSnap)
      BY DEF JInv, Contents
    <3> QED  BY <1>1, <1>3, <1>6, <3>1 DEF Composed, Loaded
  <2>2. \A c \in Caller : pc'[c] = "body" => Composed(doc[c], snap[c])'
    <3> SUFFICES ASSUME NEW c \in Caller, pc'[c] = "body"  PROVE Composed(doc[c], snap[c])'
      OBVIOUS
    <3>1. Composed(doc[c], snap[c])
      BY <1>3 DEF JInv, Contents
    <3> QED  BY <1>1, <1>3, <1>6, <3>1 DEF Composed, Loaded
  <2> QED  BY <1>2, <2>1, <2>2 DEF Contents
<1>8. \A v \in {"fresh", "known", "refetch"} : Window[v] \in Nat
  OBVIOUS
<1>9. RetiredKeyLapses'
  <2> SUFFICES ASSUME NEW c \in Caller, key[c] # None, via[c] # "unrefreshed"
               PROVE  at[c] <= until'[token[c].kid][key[c]] + Window[via[c]]
    BY <1>3 DEF RetiredKeyLapses
  <2>1. token[c].kid \in Kid /\ key[c] \in Key /\ via[c] \in {"fresh", "known", "refetch"}
    BY <1>1 DEF JInv, Calls
  <2>2. at[c] <= until[token[c].kid][key[c]] + Window[via[c]]
    BY DEF JInv, RetiredKeyLapses
  <2>3. /\ until[token[c].kid][key[c]] \in Nat /\ until'[token[c].kid][key[c]] \in Nat
        /\ until[token[c].kid][key[c]] <= until'[token[c].kid][key[c]]
        /\ Window[via[c]] \in Nat /\ at[c] \in Nat
    BY <1>1, <1>2, <1>8, <2>1
  <2> QED  BY <2>2, <2>3
<1>10. RotationPickedUp'
  <2> SUFFICES ASSUME NEW c \in Caller, pc[c] = "unknown", via[c] # "unrefreshed",
                      token[c].kid \in Kid, (Loaded(published)')[token[c].kid] # None
               PROVE  at[c] <= since'[token[c].kid] + Window[via[c]]
    BY <1>3 DEF RotationPickedUp
  <2> DEFINE k == token[c].kid
  <2>1. Window[via[c]] \in Nat /\ at[c] \in 0 .. clock
    BY <1>1, <1>8 DEF JInv, Calls
  <2>2. CASE since'[k] = clock
    BY <1>1, <2>1, <2>2
  <2>3. CASE published'[k] = published[k] /\ since'[k] = since[k]
    <3>1. Loaded(published)[k] # None
      BY <2>3 DEF Loaded
    <3> QED  BY <2>3, <3>1 DEF JInv, RotationPickedUp
  <2> QED  BY <1>2, <2>2, <2>3
<1> QED  BY <1>4, <1>5, <1>7, <1>9, <1>10 DEF JInv

LEMMA NextJInv == JInv /\ [Next]_vars => JInv'
<1> SUFFICES ASSUME JInv, [Next]_vars PROVE JInv'
  OBVIOUS
<1>1. ASSUME NEW c \in Caller, NEW t \in Token,
             CacheHit(c, t) \/ ServeKnown(c, t) \/ RefuseUnknown(c, t) \/ ClaimSlot(c, t)
      PROVE  JInv'
  BY <1>1, AnsweredJInv, ClaimSlotJInv
<1>2. ASSUME NEW c \in Caller, \/ \E t \in Token : RefuseHeader(c, t)
                               \/ FetchFails(c) \/ Check(c) \/ RefuseKid(c)
      PROVE  JInv'
  <2>1. \E p \in {"refused", "accepted"} : Return(c, p)
    BY <1>2 DEF RefuseHeader, FetchFails, Check, RefuseKid
  <2>2. /\ UNCHANGED <<clock, verifier, hydra, cacheSnap>>
        /\ attempt' = attempt \/ attempt' = [attempt EXCEPT !.end = "failed"]
    BY <1>2 DEF RefuseHeader, FetchFails, Check, RefuseKid
  <2> QED  BY <2>1, <2>2, ReturnJInv
<1>3. ASSUME NEW c \in Caller, Respond(c) \/ Reread(c) \/ \E age \in MaxAge : Store(c, age)
      PROVE  JInv'
  BY <1>3, RespondJInv, RereadJInv, StoreJInv
<1>4. CASE Tick \/ \E k \in Kid, x \in Key \union {None} : Rotate(k, x)
  <2>1. UNCHANGED <<verifier, pc, call, cacheSnap, attempt>>
    BY <1>4 DEF Tick, Rotate
  <2> QED  BY <1>4, <2>1, HydraJInv
<1>5. CASE UNCHANGED vars
  BY <1>5 DEF vars, verifier, call, hydra, JInv, JwksTypeOK, Flights, Flying, Calls, AtRest, CacheAge,
     Contents, Composed, Loaded, RetiredKeyLapses, RotationPickedUp, FetchesSpaced
<1> QED  BY <1>1, <1>2, <1>3, <1>4, <1>5 DEF Next, Verify

-----------------------------------------------------------------------------
\* The inductive invariant of the verifier holds in every behaviour.
THEOREM JwksInvariant == Spec => []JInv
  BY InitJInv, NextJInv, PTL DEF Spec

\* keyFor: for any durations and any number of overlapping calls, a key is not given to a
\* call longer than the TTL (or the throttle window) plus one fetch after it was retired,
\* unless the last fetch is under way or failed.
THEOREM RetiredKeysLapse == Spec => []RetiredKeyLapses
<1>1. JInv => RetiredKeyLapses
  BY DEF JInv
<1> QED  BY <1>1, JwksInvariant, PTL

\* keyFor: a new key is not unknown longer than the throttle window plus one fetch,
\* unless the last fetch is under way or failed.
THEOREM NewKeysPickedUp == Spec => []RotationPickedUp
<1>1. JInv => RotationPickedUp
  BY DEF JInv
<1> QED  BY <1>1, JwksInvariant, PTL

\* keyFor: fetches in flight were begun minRefresh apart, for any number of callers.
THEOREM FetchesAreSpaced == Spec => []FetchesSpaced
<1>1. JInv => FetchesSpaced
  BY DEF JInv
<1> QED  BY <1>1, JwksInvariant, PTL

\* Type correctness of the verifier, its calls and the history.
THEOREM JwksTypes == Spec => []JwksTypeOK
<1>1. JInv => JwksTypeOK
  BY DEF JInv
<1> QED  BY <1>1, JwksInvariant, PTL
=============================================================================
