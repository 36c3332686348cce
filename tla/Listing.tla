------------------------------ MODULE Listing ------------------------------
(***************************************************************************)
(* A client that follows the pages of a list while the service is used by  *)
(* others (internal/apps/kacho/api/registry/registry.go, shared/namepage,  *)
(* clients/zot/graphql.go, handler/listauthz.go, handler/public.go,        *)
(* repo/kacho/pg/registry.go, dataplane/handler.go).                       *)
(*                                                                         *)
(*   "registries"    keyset cursor over rows, each row filtered;           *)
(*   "tags"          keyset cursor over the tags of a repository;          *)
(*   "repositories"  offset cursor over the engine's repositories, union   *)
(*                   the overlay rows, each row filtered;                  *)
(*   "catalog"       offset cursor over the engine's catalog, filtered.    *)
(*                                                                         *)
(* A page is several reads: a gate, the engine or the database, the tags   *)
(* of the window, the overlay, the checks.  A failed one is answered with  *)
(* an error and the client asks for the same page again.                   *)
(*                                                                         *)
(* Names are numbers in their sort order; a cursor of 0 is no token.       *)
(***************************************************************************)
EXTENDS Integers, FiniteSets, FiniteSetsExt

CONSTANTS
  MaxName,      \* names are 1 .. MaxName
  MaxPage,      \* the largest page size (1000; catalogMaxPageSize)
  DefaultPage,  \* the page size for 0 (50)
  Asked,        \* the page sizes clients ask for
  Rights,       \* the sets of names a caller may list, to begin with
  MaxChanges, MaxFailures   \* bounds

Name == 1 .. MaxName
Many == 3       \* how often a name was returned is counted up to here
Kind == {"registries", "tags", "repositories", "catalog"}

ASSUME ListingAssumption ==
  /\ MaxName \in Nat /\ MaxPage \in Nat /\ Asked \subseteq Int
  /\ DefaultPage \in 1 .. MaxPage /\ Rights \subseteq SUBSET Name
  /\ MaxChanges \in Nat /\ MaxFailures \in Nat

VARIABLES
  entries,   \* repositories the engine enumerates
  tagged,    \* those with tags; also: the rows, or the tags, of a keyset list
  overlay,   \* repositories with an overlay row
  may,       \* names the caller has v_list on
  gate,      \* the caller has v_list on the registry, or on the repository
  changes,
  kind, size, pc, cursor, window, next, returned, failures,
  \* history, read by no guard
  steady, durable, allowed,   \* in tagged, overlay, may since the list began
  appended,                   \* overlay rows added to the first page
  added, removed              \* the engine's list grew, shrank meanwhile

world   == <<entries, tagged, overlay, may, gate, changes>>
page    == <<kind, size, pc, cursor, window, next, returned, failures, appended>>
history == <<steady, durable, allowed, added, removed>>
vars    == <<world, page, history>>

ListingTypeOK ==
  /\ entries \subseteq Name /\ tagged \subseteq entries
  /\ overlay \subseteq Name /\ may \subseteq Name /\ gate \in BOOLEAN
  /\ changes \in 0 .. MaxChanges /\ failures \in 0 .. MaxFailures
  /\ kind \in Kind /\ size \in 1 .. MaxPage
  /\ pc \in {"idle", "gate", "read", "images", "configs", "filter", "done", "refused"}
  /\ cursor \in 0 .. MaxName /\ next \in 0 .. MaxName
  /\ window \subseteq Name /\ appended \subseteq Name
  /\ returned \in [Name -> 0 .. Many]
  /\ steady \subseteq tagged /\ durable \subseteq overlay /\ allowed \subseteq may
  /\ added \in BOOLEAN /\ removed \in BOOLEAN

Init ==
  /\ entries \in SUBSET Name /\ tagged = entries
  /\ overlay \in SUBSET Name /\ may \in Rights /\ gate = TRUE
  /\ changes = 0
  /\ kind = "tags" /\ size = DefaultPage /\ pc = "idle"
  /\ cursor = 0 /\ window = {} /\ next = 0
  /\ returned = [n \in Name |-> 0] /\ failures = 0
  /\ steady = {} /\ durable = {} /\ allowed = {} /\ appended = {}
  /\ added = FALSE /\ removed = FALSE

-----------------------------------------------------------------------------
\* The position of n in the sorted set S, from 1.
Rank(S, n) == Cardinality({m \in S : m <= n})

\* Mutant: the name in the cursor is not skipped.
KeysetPageInclusive(S, key) ==
  LET rest == {n \in S : key <= n}
      w    == {n \in rest : Rank(rest, n) <= size}
  IN  [window |-> w, next |-> IF Cardinality(rest) > size THEN Max(w) ELSE 0]

\* namepage.Window, and List of the store (LIMIT size + 1): what follows the key.
KeysetPage(S, key) ==
  LET rest == {n \in S : key < n}
      w    == {n \in rest : Rank(rest, n) <= size}
  IN  [window |-> w, next |-> IF Cardinality(rest) > size THEN Max(w) ELSE 0]

\* Mutant: the cursor counts from the first position of the next page.
OffsetPageOffByOne(S, off) ==
  [window |-> {n \in S : off < Rank(S, n) /\ Rank(S, n) <= off + size},
   next   |-> IF off + size < Cardinality(S) THEN off + size + 1 ELSE 0]

\* Mutant: the position in the cursor is relative to the page.
OffsetPageRelative(S, off) ==
  [window |-> {n \in S : off < Rank(S, n) /\ Rank(S, n) <= off + size},
   next   |-> IF off + size < Cardinality(S) THEN size ELSE 0]

\* namepage.WindowByOffset and catalogWindow: positions off + 1 .. off + size.
OffsetPage(S, off) ==
  [window |-> {n \in S : off < Rank(S, n) /\ Rank(S, n) <= off + size},
   next   |-> IF off + size < Cardinality(S) THEN off + size ELSE 0]

\* Mutant: n= is taken as it comes.
PageSizeUnclamped(k, n) == IF n <= 0 THEN DefaultPage ELSE n

\* parseCatalogPageSize clamps; corevalidate.PageSize (external) refuses what is
\* out of range and takes the default for 0.
PageSize(k, n) ==
  IF k = "catalog"
    THEN IF n <= 0 \/ n > MaxPage THEN MaxPage ELSE n
    ELSE IF n = 0 THEN DefaultPage ELSE n

ValidSize(k, n) == k = "catalog" \/ n \in 0 .. MaxPage

-----------------------------------------------------------------------------
\* The first request of a list.  A size out of range is refused where it is first
\* used, before anything is shown.
Start(k, n) ==
  /\ pc = "idle"
  /\ kind' = k
  /\ size' = IF ValidSize(k, n) THEN PageSize(k, n) ELSE size
  /\ pc' = IF ValidSize(k, n) THEN "gate" ELSE "refused"
  /\ steady' = tagged /\ durable' = overlay /\ allowed' = may
  /\ UNCHANGED <<world, cursor, window, next, returned, failures, appended, added, removed>>

\* namespaceGate of ListRepositories, checkRepo of ListTags; a denial is NOT_FOUND.
\* List and the catalog have no gate of their own.
Gate ==
  /\ pc = "gate"
  /\ pc' = IF kind \in {"registries", "catalog"} \/ gate THEN "read" ELSE "refused"
  /\ UNCHANGED <<world, kind, size, cursor, window, next, returned, failures, appended, history>>

Read(p, q) ==
  /\ pc = "read"
  /\ window' = p.window /\ next' = p.next
  /\ pc' = q
  /\ UNCHANGED <<world, kind, size, cursor, returned, failures, appended, history>>

\* List of the store.
ListRegistries == kind = "registries" /\ Read(KeysetPage(tagged, cursor), "filter")

\* ListTags: ImageList, sorted and cut.
ListTags == kind = "tags" /\ Read(KeysetPage(tagged, cursor), "filter")

\* ListRepositories: GlobalSearch, sorted and cut before the tags are asked for.
GlobalSearch == kind = "repositories" /\ Read(OffsetPage(entries, cursor), "images")

\* serveCatalog: CatalogRepoNames, cut.
CatalogRepoNames == kind = "catalog" /\ Read(OffsetPage(entries, cursor), "filter")

\* ListRepositories: ImageList of each repository of the window; one without
\* tags is dropped from the page.
ImageList ==
  /\ pc = "images"
  /\ window' = window \intersect tagged
  /\ pc' = "configs"
  /\ UNCHANGED <<world, kind, size, cursor, next, returned, failures, appended, history>>

\* Mutant: only what the engine does not enumerate is appended.
ListConfigsUnseen ==
  /\ pc = "configs"
  /\ appended' = IF cursor = 0 THEN overlay \ entries ELSE appended
  /\ window' = IF cursor = 0 THEN window \union (overlay \ entries) ELSE window
  /\ pc' = "filter"
  /\ UNCHANGED <<world, kind, size, cursor, next, returned, failures, history>>

\* Mutant: every page gets the overlay rows.
ListConfigsEveryPage ==
  /\ pc = "configs"
  /\ appended' = appended \union (overlay \ window)
  /\ window' = window \union overlay
  /\ pc' = "filter"
  /\ UNCHANGED <<world, kind, size, cursor, next, returned, failures, history>>

\* ListRepositories of the use case: overlay rows that are not in the window are
\* appended to the first page.
ListConfigs ==
  /\ pc = "configs"
  /\ appended' = IF cursor = 0 THEN overlay \ window ELSE appended
  /\ window' = IF cursor = 0 THEN window \union overlay ELSE window
  /\ pc' = "filter"
  /\ UNCHANGED <<world, kind, size, cursor, next, returned, failures, history>>

\* filterRegistries, filterRepos and the filter of serveCatalog, and the answer
\* of the page with its token; tags have been checked at the gate.
Respond ==
  /\ pc = "filter"
  /\ LET shown == IF kind = "tags" THEN window ELSE window \intersect may
     IN  returned' = [n \in Name |-> IF n \in shown THEN Min({returned[n] + 1, Many})
                                                  ELSE returned[n]]
  /\ window' = {} /\ next' = 0
  /\ cursor' = next
  /\ pc' = IF next = 0 THEN "done" ELSE "gate"
  /\ UNCHANGED <<world, kind, size, failures, appended, history>>

\* The engine, the database or iam does not answer: UNAVAILABLE, nothing is shown.
Fail ==
  /\ pc \in {"gate", "read", "images", "configs", "filter"}
  /\ failures < MaxFailures
  /\ failures' = failures + 1
  /\ pc' = "gate"
  /\ window' = {} /\ next' = 0
  /\ appended' = IF cursor = 0 THEN {} ELSE appended
  /\ UNCHANGED <<world, kind, size, cursor, returned, history>>

-----------------------------------------------------------------------------
\* What others do meanwhile.
Change(e, t, o, m, g) ==
  /\ pc \notin {"idle", "done", "refused"}
  /\ changes < MaxChanges
  /\ changes' = changes + 1
  /\ entries' = e /\ tagged' = t /\ overlay' = o /\ may' = m /\ gate' = g
  /\ steady' = steady \intersect t /\ durable' = durable \intersect o
  /\ allowed' = allowed \intersect m
  /\ added' = (added \/ ~(e \subseteq entries))
  /\ removed' = (removed \/ ~(entries \subseteq e))
  /\ UNCHANGED page

Push(n)   == n \notin tagged /\ Change(entries \union {n}, tagged \union {n}, overlay, may, gate)
Empty(n)  == n \in tagged /\ Change(entries, tagged \ {n}, overlay, may, gate)
Collect(n) == n \in entries \ tagged /\ Change(entries \ {n}, tagged, overlay, may, gate)
AddOverlay(n)  == n \notin overlay /\ Change(entries, tagged, overlay \union {n}, may, gate)
DropOverlay(n) == n \in overlay /\ Change(entries, tagged, overlay \ {n}, may, gate)
Grant(n)  == n \notin may /\ Change(entries, tagged, overlay, may \union {n}, gate)
Revoke(n) == n \in may /\ Change(entries, tagged, overlay, may \ {n}, gate)
CloseGate == gate /\ Change(entries, tagged, overlay, may, FALSE)

Service ==
  \/ Gate \/ ListRegistries \/ ListTags \/ GlobalSearch \/ CatalogRepoNames
  \/ ImageList \/ ListConfigs \/ Respond

Others ==
  \/ CloseGate
  \/ \E n \in Name :
       \/ Push(n) \/ Empty(n) \/ Collect(n) \/ AddOverlay(n) \/ DropOverlay(n)
       \/ Grant(n) \/ Revoke(n)

Next == Service \/ Fail \/ Others \/ \E k \in Kind, n \in Asked : Start(k, n)

\* A request that was made is served; the client asks for the next page.
Spec == Init /\ [][Next]_vars /\ WF_vars(Service)

-----------------------------------------------------------------------------
\* namepage.Window, RegistryRepo.List: following a keyset cursor shows what was
\* there and allowed all the time exactly once, and nothing twice, whatever is
\* created, deleted, granted or revoked between two pages.
KeysetShowsOnce ==
  pc = "done" /\ kind \in {"registries", "tags"} =>
    \A n \in Name :
      /\ returned[n] <= 1
      /\ n \in steady /\ (n \in allowed \/ kind = "tags") => returned[n] = 1

\* public.go ("all allowed repositories are reachable by paging, even through pages
\* the filter emptied"), serveCatalog: with an offset cursor this holds as long as
\* no repository leaves the engine's list.
OffsetReachesAll ==
  pc = "done" /\ kind \in {"repositories", "catalog"} /\ ~removed =>
    \A n \in steady \intersect allowed : returned[n] >= 1

\* ListRepositories of the use case (A20, "durable repositories survive emptiness
\* and are listed"): a repository that kept its overlay row is listed, also when its
\* tags, its engine entry or its neighbours come and go between the reads.
DurableListed ==
  pc = "done" /\ kind = "repositories" =>
    \A n \in durable \intersect allowed : returned[n] >= 1

\* ListRepositories ("not to be duplicated between pages"): unless the engine's list
\* grew, a repository is shown once, or twice when its overlay row was appended to
\* the first page and a later window has it too.
RepeatsOnlyAppended ==
  kind \in {"repositories", "catalog"} /\ ~added =>
    \A n \in Name : returned[n] <= IF n \in appended THEN 2 ELSE 1

\* A client that follows the tokens comes to the end of every list.
ListingEnds == pc = "gate" ~> pc \in {"done", "refused"}
=============================================================================
