--------------------------- MODULE Listing_proofs ---------------------------
(***************************************************************************)
(* Proofs about Listing: what a client that follows the pages of a list    *)
(* gets to see, for any number of names and changes, any page sizes, and   *)
(* any failures of the reads a page is made of.                            *)
(***************************************************************************)
EXTENDS Listing, FiniteSetTheorems, WellFoundedInduction, TLAPS

\* A list is under way; a window has been read for the page.
Paging  == pc \in {"gate", "read", "images", "configs", "filter"}
Fetched == pc \in {"images", "configs", "filter"}

Keyset == kind \in {"registries", "tags"}
Offset == kind \in {"repositories", "catalog"}

\* The client begins with the first page, having seen nothing, and goes forward.
FromTheStart ==
  /\ pc = "idle" => cursor = 0
  /\ (Paging \/ pc = "idle") /\ cursor = 0 => \A n \in Name : returned[n] = 0
  /\ pc \in {"idle", "gate", "read", "images", "configs"} /\ cursor = 0 => appended = {}
  /\ pc \in {"images", "configs"} => kind = "repositories"
  /\ Fetched /\ next # 0 => cursor < next

Entitled(n) == n \in steady /\ (n \in allowed \/ kind = "tags")

\* A keyset cursor divides the names: those up to it have been shown, the others
\* have not.
KeysetDivides ==
  Keyset =>
    /\ Paging => \A n \in Name :
         /\ n > cursor => returned[n] = 0
         /\ n <= cursor => returned[n] <= 1 /\ (Entitled(n) => returned[n] = 1)
    /\ pc = "filter" =>
         /\ \A n \in window : cursor < n /\ (next = 0 \/ n <= next)
         /\ \A n \in steady : cursor < n /\ (next = 0 \/ n <= next) => n \in window
    /\ pc = "done" => \A n \in Name :
         returned[n] <= 1 /\ (Entitled(n) => returned[n] = 1)

\* A repository that was there all the time was shown, is in the window, or its
\* position is still ahead of the cursor: positions only grow.
Ahead(n, position) == Rank(entries, n) > position

OffsetMissesNone ==
  Offset /\ ~removed =>
    \A n \in steady \intersect allowed :
      /\ Paging => returned[n] >= 1 \/ Ahead(n, cursor)
      /\ Fetched => \/ returned[n] >= 1 \/ n \in window
                    \/ next # 0 /\ Ahead(n, next)
      /\ pc = "done" => returned[n] >= 1

\* The first page takes every overlay row.
FirstPageTakesOverlay ==
  kind = "repositories" =>
    /\ pc = "filter" /\ cursor = 0 => durable \subseteq window
    /\ pc = "done" \/ (Paging /\ cursor # 0) =>
         \A n \in durable \intersect allowed : returned[n] >= 1

\* What the engine's pages showed lies behind the cursor: positions only shrink.
Twice(n) == IF n \in appended THEN 1 ELSE 0

OffsetRepeatsNone ==
  Offset /\ ~added =>
    \A n \in Name :
      /\ Paging => returned[n] <= Twice(n) + (IF Ahead(n, cursor) THEN 0 ELSE 1)
      /\ Fetched /\ n \in window =>
           /\ returned[n] <= Twice(n)
           /\ \/ next = 0 \/ ~Ahead(n, next)
              \/ returned[n] = 0 /\ n \in appended
      /\ returned[n] <= Twice(n) + 1

LInv ==
  /\ ListingTypeOK
  /\ FromTheStart
  /\ KeysetDivides
  /\ OffsetMissesNone
  /\ FirstPageTakesOverlay
  /\ OffsetRepeatsNone

-----------------------------------------------------------------------------
(* Positions in a sorted list.                                             *)

\* A set of numbers has a least element, ...
LEMMA HasLeast ==
  ASSUME NEW T \in SUBSET Nat, T # {}
  PROVE  \E x \in T : \A y \in T : x <= y
<1>1. PICK x \in T : \A y \in T : ~ (<<y, x>> \in OpToRel(<, Nat))
  BY NatLessThanWellFounded, WFMin
<1>2. \A y \in T : ~(y < x)
  BY <1>1 DEF OpToRel
<1> QED BY <1>2

\* ... and a set of names a greatest, which is its Max.
LEMMA MaxOfNames ==
  ASSUME NEW S \in SUBSET Name, S # {}
  PROVE  Max(S) \in S /\ \A n \in S : n <= Max(S)
<1> DEFINE Above == {u \in Nat : \A n \in S : n <= u}
<1>1. MaxName \in Above
  BY ListingAssumption DEF Name
<1>2. PICK u \in Above : \A v \in Above : u <= v
  BY <1>1, HasLeast
<1>3. u \in S
  <2>1. PICK n \in S : TRUE
    OBVIOUS
  <2>2. SUFFICES ASSUME u \notin S PROVE FALSE
    OBVIOUS
  <2>3. u \in Nat /\ \A m \in S : m \in Nat /\ m >= 1 /\ m <= u
    BY <1>2, ListingAssumption DEF Name
  <2>4. u - 1 \in Above
    BY <2>1, <2>2, <2>3
  <2> QED BY <1>2, <2>3, <2>4
<1>4. \E x \in S : \A n \in S : x >= n
  BY <1>2, <1>3, ListingAssumption DEF Name
<1> QED BY <1>4, ListingAssumption DEF Max, Name

LEMMA MinOfTwo ==
  ASSUME NEW a \in Nat, NEW b \in Nat
  PROVE  Min({a, b}) = IF a <= b THEN a ELSE b
<1>1. CASE a <= b
  BY <1>1 DEF Min
<1>2. CASE ~(a <= b)
  BY <1>2 DEF Min
<1> QED BY <1>1, <1>2

LEMMA NamesAreFinite ==
  ASSUME NEW S \in SUBSET Name
  PROVE  IsFiniteSet(S) /\ Cardinality(S) \in 0 .. MaxName
<1>1. IsFiniteSet(Name) /\ Cardinality(Name) <= MaxName
  BY FS_Interval, ListingAssumption DEF Name
<1>2. IsFiniteSet(S) /\ Cardinality(S) <= Cardinality(Name)
  BY <1>1, FS_Subset
<1>3. Cardinality(S) \in Nat /\ Cardinality(Name) \in Nat
  BY <1>1, <1>2, FS_CardinalityType
<1> QED BY <1>1, <1>2, <1>3, ListingAssumption

LEMMA FewerNames ==
  ASSUME NEW S \in SUBSET Name, NEW T \in SUBSET S
  PROVE  Cardinality(T) <= Cardinality(S)
  BY NamesAreFinite, FS_Subset

\* A position is a number up to the length of the list, from 1 for its members; it
\* grows along the list, and with the list.
LEMMA Ranks ==
  ASSUME NEW S \in SUBSET Name, NEW n \in Name
  PROVE  /\ Rank(S, n) \in 0 .. Cardinality(S)
         /\ n \in S => Rank(S, n) >= 1
<1> DEFINE T == {m \in S : m <= n}
<1>1. T \in SUBSET Name /\ T \in SUBSET S
  OBVIOUS
<1>2. Cardinality(T) \in Nat /\ Cardinality(S) \in Nat /\ Cardinality(T) <= Cardinality(S)
  BY <1>1, NamesAreFinite, FewerNames
<1>3. ASSUME n \in S PROVE Cardinality(T) # 0
  <2>1. n \in T
    BY <1>3, ListingAssumption DEF Name
  <2>2. IsFiniteSet(T)
    BY <1>1, NamesAreFinite
  <2> QED BY <2>1, <2>2, FS_EmptySet
<1> QED BY <1>2, <1>3 DEF Rank

LEMMA RanksGrow ==
  ASSUME NEW S \in SUBSET Name, NEW T \in SUBSET S, NEW m \in Name, NEW n \in Name, m <= n
  PROVE  Rank(T, m) <= Rank(S, n)
<1> DEFINE A == {k \in T : k <= m}  B == {k \in S : k <= n}
<1>1. \A k \in Name : k \in Nat
  BY ListingAssumption DEF Name
<1>2. B \in SUBSET Name /\ A \in SUBSET B
  BY <1>1
<1> QED BY <1>2, FewerNames DEF Rank

\* The first member of a list has position 1.
LEMMA FirstRank ==
  ASSUME NEW S \in SUBSET Name, S # {}
  PROVE  \E n \in S : Rank(S, n) = 1
<1>1. S \in SUBSET Nat
  BY ListingAssumption DEF Name
<1>2. PICK n \in S : \A m \in S : n <= m
  BY <1>1, HasLeast
<1>3. \A m \in S : m <= n <=> m = n
  BY <1>1, <1>2
<1>4. {m \in S : m <= n} = {n}
  BY <1>2, <1>3
<1> QED BY <1>2, <1>4, FS_Singleton DEF Rank

-----------------------------------------------------------------------------
(* Pages.                                                                  *)

\* A page of a keyset list is what follows the key, up to the next key if there
\* is one, and the next key lies ahead.
LEMMA KeysetPages ==
  ASSUME NEW S \in SUBSET Name, NEW key \in 0 .. MaxName, size \in 1 .. MaxPage
  PROVE  LET p == KeysetPage(S, key) IN
         /\ p.window \subseteq S /\ p.next \in 0 .. MaxName
         /\ p.next # 0 => key < p.next
         /\ \A n \in S : n \in p.window <=> key < n /\ (p.next = 0 \/ n <= p.next)
<1> DEFINE rest == {n \in S : key < n}
           w == {n \in rest : Rank(rest, n) <= size}
           p == KeysetPage(S, key)
<1>1. p.window = w /\ p.next = IF Cardinality(rest) > size THEN Max(w) ELSE 0
  BY DEF KeysetPage
<1>2. rest \in SUBSET Name /\ w \in SUBSET Name /\ Cardinality(rest) \in Nat
  BY NamesAreFinite
<1>3. \A n \in S : n \in Nat /\ n \in 1 .. MaxName
  BY ListingAssumption DEF Name
<1>4. CASE ~(Cardinality(rest) > size)
  <2>1. \A n \in rest : Rank(rest, n) <= size
    BY <1>2, <1>4, Ranks, ListingAssumption
  <2> QED BY <1>1, <1>4, <2>1, ListingAssumption
<1>5. CASE Cardinality(rest) > size
  <2>1. rest # {}
    BY <1>5, FS_EmptySet, ListingAssumption
  <2>2. PICK first \in rest : Rank(rest, first) = 1
    BY <1>2, <2>1, FirstRank
  <2>3. w # {}
    BY <2>2, ListingAssumption
  <2>4. Max(w) \in w /\ \A n \in w : n <= Max(w)
    BY <1>2, <2>3, MaxOfNames
  <2>5. p.next = Max(w) /\ Max(w) # 0
    BY <1>1, <1>3, <1>5, <2>4
  <2>6. ASSUME NEW n \in rest, n <= Max(w) PROVE n \in w
    <3>1. Rank(rest, n) <= Rank(rest, Max(w))
      BY <1>2, <2>4, <2>6, RanksGrow
    <3>2. Rank(rest, Max(w)) <= size /\ Rank(rest, Max(w)) \in Int /\ Rank(rest, n) \in Int
      BY <1>2, <2>4, Ranks
    <3> QED BY <3>1, <3>2, ListingAssumption
  <2>7. \A n \in S : n \in w <=> key < n /\ n <= Max(w)
    BY <2>4, <2>6
  <2>8. Max(w) \in S /\ key < Max(w)
    BY <2>4
  <2> HIDE DEF w, rest, p
  <2>9. p.next \in 0 .. MaxName /\ key < p.next
    BY <1>3, <2>5, <2>8, ListingAssumption
  <2>10. \A n \in S : n \in p.window <=> key < n /\ (p.next = 0 \/ n <= p.next)
    BY <1>1, <2>5, <2>7
  <2>11. p.window \subseteq S
    BY <1>1 DEF w, rest
  <2> QED BY <2>9, <2>10, <2>11 DEF p
<1> QED BY <1>4, <1>5

\* A page of an offset list is the positions after the offset, up to the next
\* offset if there is one, and the next offset lies ahead.
LEMMA OffsetPages ==
  ASSUME NEW S \in SUBSET Name, NEW off \in 0 .. MaxName, size \in 1 .. MaxPage
  PROVE  LET p == OffsetPage(S, off) IN
         /\ p.window \subseteq S /\ p.next \in 0 .. MaxName
         /\ p.next # 0 => off < p.next
         /\ \A n \in S : n \in p.window <=>
              off < Rank(S, n) /\ (p.next = 0 \/ Rank(S, n) <= p.next)
<1> DEFINE p == OffsetPage(S, off)
<1>1. /\ p.window = {n \in S : off < Rank(S, n) /\ Rank(S, n) <= off + size}
      /\ p.next = IF off + size < Cardinality(S) THEN off + size ELSE 0
  BY DEF OffsetPage
<1>2. Cardinality(S) \in 0 .. MaxName /\ size \in Nat /\ size >= 1 /\ off \in Nat
  BY NamesAreFinite, ListingAssumption
<1>3. \A n \in S : Rank(S, n) \in 0 .. Cardinality(S)
  BY Ranks
<1> HIDE DEF p
<1>4. p.window \subseteq S
  BY <1>1
<1>5. p.next \in 0 .. MaxName /\ (p.next # 0 => off < p.next)
  BY <1>1, <1>2, ListingAssumption
<1>6. ASSUME NEW n \in S
      PROVE  n \in p.window <=> off < Rank(S, n) /\ (p.next = 0 \/ Rank(S, n) <= p.next)
  BY <1>1, <1>2, <1>3
<1> QED BY <1>4, <1>5, <1>6 DEF p


-----------------------------------------------------------------------------
(* Types.                                                                  *)

LEMMA InitType == Init => ListingTypeOK
<1> SUFFICES ASSUME Init PROVE ListingTypeOK
  OBVIOUS
<1>1. /\ entries \subseteq Name /\ tagged \subseteq entries /\ overlay \subseteq Name
      /\ may \subseteq Name /\ window \subseteq Name /\ appended \subseteq Name
      /\ steady \subseteq tagged /\ durable \subseteq overlay /\ allowed \subseteq may
  BY ListingAssumption DEF Init
<1>2. /\ changes \in 0 .. MaxChanges /\ failures \in 0 .. MaxFailures
      /\ cursor \in 0 .. MaxName /\ next \in 0 .. MaxName /\ size \in 1 .. MaxPage
  BY ListingAssumption DEF Init
<1>3. /\ kind \in Kind /\ returned \in [Name -> 0 .. Many]
      /\ pc \in {"idle", "gate", "read", "images", "configs", "filter", "done", "refused"}
  BY DEF Init, Kind, Many
<1>4. gate \in BOOLEAN /\ added \in BOOLEAN /\ removed \in BOOLEAN
  BY DEF Init
<1> QED BY <1>1, <1>2, <1>3, <1>4 DEF ListingTypeOK

LEMMA StartType ==
  ASSUME ListingTypeOK, NEW k \in Kind, NEW n \in Asked, Start(k, n)
  PROVE  ListingTypeOK'
<1>1. size' \in 1 .. MaxPage
  BY ListingAssumption DEF Start, ListingTypeOK, ValidSize, PageSize
<1>2. pc' \in {"gate", "refused"}
  BY DEF Start
<1> QED BY <1>1, <1>2 DEF Start, ListingTypeOK, world

\* A page read from the engine or the database.
Reads(S, p) ==
  /\ pc = "read" /\ window' = p.window /\ next' = p.next
  /\ UNCHANGED <<world, kind, size, cursor, returned, failures, appended, history>>

LEMMA PagesRead ==
  ASSUME ListingTypeOK, ListRegistries \/ ListTags \/ GlobalSearch \/ CatalogRepoNames
  PROVE  \/ Keyset /\ pc' = "filter" /\ Reads(tagged, KeysetPage(tagged, cursor))
         \/ /\ Offset /\ Reads(entries, OffsetPage(entries, cursor))
            /\ pc' = IF kind = "repositories" THEN "images" ELSE "filter"
  BY DEF ListRegistries, ListTags, GlobalSearch, CatalogRepoNames, Read, Reads, Keyset, Offset

LEMMA ReadType ==
  ASSUME ListingTypeOK, ListRegistries \/ ListTags \/ GlobalSearch \/ CatalogRepoNames
  PROVE  ListingTypeOK'
<1>1. tagged \in SUBSET Name /\ entries \in SUBSET Name /\ cursor \in 0 .. MaxName
      /\ size \in 1 .. MaxPage
  BY DEF ListingTypeOK
<1>2. window' \subseteq Name /\ next' \in 0 .. MaxName
  <2>1. CASE Reads(tagged, KeysetPage(tagged, cursor))
    BY <1>1, <2>1, KeysetPages DEF Reads
  <2>2. CASE Reads(entries, OffsetPage(entries, cursor))
    BY <1>1, <2>2, OffsetPages DEF Reads
  <2> QED BY <2>1, <2>2, PagesRead
<1>3. pc' \in {"images", "filter"}
  BY PagesRead
<1>4. UNCHANGED <<world, kind, size, cursor, returned, failures, appended, history>>
  BY PagesRead DEF Reads
<1> QED BY <1>2, <1>3, <1>4 DEF ListingTypeOK, world, history

\* A name is counted once more, or not.
LEMMA Counted ==
  ASSUME ListingTypeOK, Respond
  PROVE  LET shown == IF kind = "tags" THEN window ELSE window \intersect may IN
         /\ returned' \in [Name -> 0 .. Many]
         /\ \A n \in Name :
              /\ n \notin shown => returned'[n] = returned[n]
              /\ n \in shown => returned'[n] >= 1 /\ returned'[n] >= returned[n]
                                /\ returned'[n] <= returned[n] + 1
<1> DEFINE shown == IF kind = "tags" THEN window ELSE window \intersect may
<1> HIDE DEF shown
<1>1. returned' = [n \in Name |-> IF n \in shown THEN Min({returned[n] + 1, Many})
                                                ELSE returned[n]]
  BY DEF Respond, shown
<1>2. ASSUME NEW n \in Name
      PROVE  /\ returned[n] \in 0 .. Many
             /\ Min({returned[n] + 1, Many}) =
                  IF returned[n] + 1 <= Many THEN returned[n] + 1 ELSE Many
  <2>1. returned[n] \in 0 .. Many
    BY DEF ListingTypeOK
  <2>2. returned[n] + 1 \in Nat /\ Many \in Nat
    BY <2>1 DEF Many
  <2> QED BY <2>1, <2>2, MinOfTwo
<1>3. ASSUME NEW n \in Name
      PROVE  /\ returned'[n] \in 0 .. Many
             /\ n \notin shown => returned'[n] = returned[n]
             /\ n \in shown => returned'[n] >= 1 /\ returned'[n] >= returned[n]
                               /\ returned'[n] <= returned[n] + 1
  BY <1>1, <1>2 DEF Many
<1>4. returned' \in [Name -> 0 .. Many]
  BY <1>1, <1>3
<1> QED BY <1>3, <1>4 DEF shown

LEMMA ServiceType ==
  ASSUME ListingTypeOK, Service
  PROVE  ListingTypeOK'
<1>1. CASE Gate
  BY <1>1 DEF Gate, ListingTypeOK, world, history
<1>2. CASE ImageList
  BY <1>2 DEF ImageList, ListingTypeOK, world, history
<1>3. CASE ListConfigs
  BY <1>3 DEF ListConfigs, ListingTypeOK, world, history
<1>4. CASE Respond
  <2>1. returned' \in [Name -> 0 .. Many]
    BY <1>4, Counted
  <2>2. pc' \in {"done", "gate"}
    BY <1>4 DEF Respond
  <2> QED BY <1>4, <2>1, <2>2, ListingAssumption DEF Respond, ListingTypeOK, world, history
<1> QED BY <1>1, <1>2, <1>3, <1>4, ReadType DEF Service

LEMMA FailType ==
  ASSUME ListingTypeOK, Fail
  PROVE  ListingTypeOK'
  BY ListingAssumption DEF Fail, ListingTypeOK, world, history

\* What others do: a repository with tags is one the engine enumerates.
LEMMA OthersChange ==
  ASSUME ListingTypeOK, Others
  PROVE  \E e, t, o, m \in SUBSET Name, g \in BOOLEAN : t \subseteq e /\ Change(e, t, o, m, g)
<1>0. /\ entries \in SUBSET Name /\ tagged \in SUBSET entries /\ overlay \in SUBSET Name
      /\ may \in SUBSET Name /\ gate \in BOOLEAN
  BY DEF ListingTypeOK
<1>1. CASE CloseGate
  BY <1>0, <1>1 DEF CloseGate
<1>2. ASSUME NEW n \in Name, Push(n) \/ Empty(n) \/ Collect(n)
      PROVE  \E e, t, o, m \in SUBSET Name, g \in BOOLEAN : t \subseteq e /\ Change(e, t, o, m, g)
  <2>1. CASE Push(n)
    <3>1. entries \union {n} \in SUBSET Name /\ tagged \union {n} \subseteq entries \union {n}
      BY <1>0
    <3> QED BY <1>0, <2>1, <3>1 DEF Push
  <2>2. CASE Empty(n)
    <3>1. tagged \ {n} \subseteq entries
      BY <1>0
    <3> QED BY <1>0, <2>2, <3>1 DEF Empty
  <2>3. CASE Collect(n)
    <3>1. entries \ {n} \in SUBSET Name /\ tagged \subseteq entries \ {n}
      BY <1>0, <2>3 DEF Collect
    <3> QED BY <1>0, <2>3, <3>1 DEF Collect
  <2> QED BY <1>2, <2>1, <2>2, <2>3
<1>3. ASSUME NEW n \in Name,
             AddOverlay(n) \/ DropOverlay(n) \/ Grant(n) \/ Revoke(n)
      PROVE  \E e, t, o, m \in SUBSET Name, g \in BOOLEAN : t \subseteq e /\ Change(e, t, o, m, g)
  <2>1. /\ overlay \union {n} \in SUBSET Name /\ overlay \ {n} \in SUBSET Name
        /\ may \union {n} \in SUBSET Name /\ may \ {n} \in SUBSET Name
    BY <1>0
  <2> QED BY <1>0, <1>3, <2>1 DEF AddOverlay, DropOverlay, Grant, Revoke
<1> QED BY <1>1, <1>2, <1>3 DEF Others

LEMMA OthersType ==
  ASSUME ListingTypeOK, Others
  PROVE  ListingTypeOK'
<1>1. PICK e, t, o, m \in SUBSET Name, g \in BOOLEAN : t \subseteq e /\ Change(e, t, o, m, g)
  BY OthersChange
<1>2. changes' \in 0 .. MaxChanges
  BY <1>1, ListingAssumption DEF Change, ListingTypeOK
<1>3. added' \in BOOLEAN /\ removed' \in BOOLEAN
  BY <1>1 DEF Change, ListingTypeOK
<1> QED BY <1>1, <1>2, <1>3 DEF Change, ListingTypeOK, page

LEMMA NextType == ListingTypeOK /\ [Next]_vars => ListingTypeOK'
<1>1. ListingTypeOK /\ UNCHANGED vars => ListingTypeOK'
  BY DEF ListingTypeOK, vars, world, page, history
<1> QED BY <1>1, StartType, ServiceType, FailType, OthersType DEF Next


-----------------------------------------------------------------------------
(* The invariant, part by part.                                            *)

LEMMA NextFromTheStart ==
  ASSUME ListingTypeOK, FromTheStart, [Next]_vars
  PROVE  FromTheStart'
<1>1. CASE \E k \in Kind, n \in Asked : Start(k, n)
  BY <1>1 DEF Start, FromTheStart, Paging, Fetched
<1>2. CASE Gate \/ ImageList \/ ListConfigs
  BY <1>2 DEF Gate, ImageList, ListConfigs, FromTheStart, Paging, Fetched
<1>3. CASE ListRegistries \/ ListTags \/ GlobalSearch \/ CatalogRepoNames
  <2>1. tagged \in SUBSET Name /\ entries \in SUBSET Name /\ cursor \in 0 .. MaxName
        /\ size \in 1 .. MaxPage
    BY DEF ListingTypeOK
  <2>2. next' # 0 => cursor < next'
    <3>1. CASE Reads(tagged, KeysetPage(tagged, cursor))
      BY <2>1, <3>1, KeysetPages DEF Reads
    <3>2. CASE Reads(entries, OffsetPage(entries, cursor))
      BY <2>1, <3>2, OffsetPages DEF Reads
    <3> QED BY <1>3, <3>1, <3>2, PagesRead
  <2>3. /\ pc = "read" /\ UNCHANGED <<cursor, returned, kind, appended>>
        /\ pc' \in {"images", "filter"} /\ (pc' = "images" => kind = "repositories")
    BY <1>3, PagesRead DEF Reads
  <2> QED BY <2>2, <2>3 DEF FromTheStart, Paging, Fetched
<1>4. CASE Respond
  BY <1>4 DEF Respond, FromTheStart, Paging, Fetched
<1>5. CASE Fail
  BY <1>5 DEF Fail, FromTheStart, Paging, Fetched
<1>6. CASE Others
  <2>1. UNCHANGED page
    BY <1>6, OthersChange DEF Change
  <2> QED BY <2>1 DEF page, FromTheStart, Paging, Fetched
<1>7. CASE UNCHANGED vars
  BY <1>7 DEF vars, page, FromTheStart, Paging, Fetched
<1> QED BY <1>1, <1>2, <1>3, <1>4, <1>5, <1>6, <1>7 DEF Next, Service

LEMMA NextKeysetDivides ==
  ASSUME ListingTypeOK, FromTheStart, KeysetDivides, [Next]_vars
  PROVE  KeysetDivides'
<1>0. /\ cursor \in 0 .. MaxName /\ next \in 0 .. MaxName /\ steady \subseteq tagged
      /\ tagged \in SUBSET Name /\ size \in 1 .. MaxPage /\ window \subseteq Name
      /\ \A n \in Name : n \in Nat /\ n >= 1
  BY ListingAssumption DEF ListingTypeOK, Name
<1>1. CASE \E k \in Kind, n \in Asked : Start(k, n)
  BY <1>0, <1>1 DEF Start, FromTheStart, KeysetDivides, Paging
<1>2. CASE Gate
  BY <1>2 DEF Gate, KeysetDivides, Keyset, Paging, Entitled, history
<1>3. CASE ImageList \/ ListConfigs
  BY <1>3 DEF ImageList, ListConfigs, FromTheStart, KeysetDivides, Keyset
<1>4. CASE ListRegistries \/ ListTags \/ GlobalSearch \/ CatalogRepoNames
  <2>1. SUFFICES ASSUME Keyset PROVE KeysetDivides'
    BY <1>4, PagesRead DEF Reads, KeysetDivides, Keyset
  <2> DEFINE p == KeysetPage(tagged, cursor)
  <2>2. /\ pc = "read" /\ pc' = "filter" /\ window' = p.window /\ next' = p.next
        /\ UNCHANGED <<kind, cursor, returned, steady, allowed>>
    BY <1>4, <2>1, PagesRead DEF Reads, Keyset, Offset, history
  <2>3. /\ p.window \subseteq tagged
        /\ \A n \in tagged : n \in p.window <=> cursor < n /\ (p.next = 0 \/ n <= p.next)
    BY <1>0, KeysetPages
  <2> HIDE DEF p
  <2>4. \A n \in Name : Entitled(n)' <=> Entitled(n)
    BY <2>2 DEF Entitled
  <2> QED BY <1>0, <2>1, <2>2, <2>3, <2>4 DEF KeysetDivides, Paging
<1>5. CASE Respond
  <2>1. SUFFICES ASSUME Keyset PROVE KeysetDivides'
    BY <1>5 DEF Respond, KeysetDivides, Keyset
  <2> DEFINE shown == IF kind = "tags" THEN window ELSE window \intersect may
  <2>2. /\ pc = "filter" /\ cursor' = next /\ pc' = IF next = 0 THEN "done" ELSE "gate"
        /\ UNCHANGED <<kind, steady, allowed>> /\ allowed \subseteq may
    BY <1>5 DEF Respond, history, ListingTypeOK
  <2>3. \A n \in Name : Entitled(n)' <=> Entitled(n)
    BY <2>2 DEF Entitled
  <2>4. \A n \in Name :
          /\ returned[n] \in Nat /\ returned'[n] \in Nat
          /\ n \notin shown => returned'[n] = returned[n]
          /\ n \in shown => returned'[n] >= 1 /\ returned'[n] <= returned[n] + 1
    BY <1>5, Counted DEF ListingTypeOK, Many
  <2>5. shown \subseteq window /\ \A n \in window : Entitled(n) => n \in shown
    BY <2>2 DEF Entitled
  <2> HIDE DEF shown
  <2>6. next # 0 => cursor < next
    BY <2>2 DEF FromTheStart, Fetched
  <2>7. ASSUME NEW n \in Name, next = 0 \/ n <= next
        PROVE  returned'[n] <= 1 /\ (Entitled(n) => returned'[n] = 1)
    <3>1. CASE n <= cursor
      <4>1. n \notin window
        BY <1>0, <2>1, <2>2, <3>1 DEF KeysetDivides
      <4> QED BY <2>1, <2>2, <2>4, <2>5, <3>1, <4>1 DEF KeysetDivides, Paging
    <3>2. CASE n > cursor
      <4>1. returned[n] = 0
        BY <2>1, <2>2, <3>2 DEF KeysetDivides, Paging
      <4>2. Entitled(n) => n \in window
        BY <2>1, <2>2, <2>7, <3>2 DEF KeysetDivides, Entitled
      <4> QED BY <2>4, <2>5, <4>1, <4>2
    <3> QED BY <1>0, <3>1, <3>2
  <2>8. ASSUME NEW n \in Name, next # 0, n > next
        PROVE  returned'[n] = 0
    <3>1. n > cursor /\ n \notin window
      BY <1>0, <2>1, <2>2, <2>6, <2>8 DEF KeysetDivides
    <3> QED BY <2>1, <2>2, <2>4, <2>5, <3>1 DEF KeysetDivides, Paging
  <2> QED BY <1>0, <2>2, <2>3, <2>7, <2>8 DEF KeysetDivides, Paging
<1>6. CASE Fail
  BY <1>6 DEF Fail, KeysetDivides, Keyset, Paging, Entitled, history
<1>7. CASE Others
  <2>1. /\ UNCHANGED <<kind, pc, cursor, window, next, returned>>
        /\ steady' \subseteq steady /\ allowed' \subseteq allowed
    BY <1>7, OthersChange DEF Change, page
  <2>2. \A n \in Name : Entitled(n)' => Entitled(n)
    BY <2>1 DEF Entitled
  <2> QED BY <2>1, <2>2 DEF KeysetDivides, Keyset, Paging
<1>8. CASE UNCHANGED vars
  BY <1>8 DEF vars, page, history, KeysetDivides, Keyset, Paging, Entitled
<1> QED BY <1>1, <1>2, <1>3, <1>4, <1>5, <1>6, <1>7, <1>8 DEF Next, Service


\* Positions, from one state to the next.
LEMMA PositionsGrow ==
  ASSUME ListingTypeOK, Others, ~removed', NEW n \in Name, NEW c \in 0 .. MaxName, Ahead(n, c)
  PROVE  Rank(entries', n) > c /\ ~removed
<1>1. PICK e, t, o, m \in SUBSET Name, g \in BOOLEAN : Change(e, t, o, m, g)
  BY OthersChange
<1>2. entries \in SUBSET e /\ entries' = e /\ ~removed
  BY <1>1 DEF Change
<1>3. n \in Nat /\ c \in Int
  BY ListingAssumption DEF Name
<1>4. Rank(entries, n) <= Rank(e, n)
  BY <1>1, <1>2, <1>3, RanksGrow
<1>5. Rank(entries, n) \in Int /\ Rank(e, n) \in Int
  BY <1>2, Ranks
<1> QED BY <1>2, <1>3, <1>4, <1>5 DEF Ahead

LEMMA PositionsShrink ==
  ASSUME ListingTypeOK, Others, ~added', NEW n \in Name, NEW c \in 0 .. MaxName,
         Rank(entries', n) > c
  PROVE  Ahead(n, c) /\ ~added
<1>1. PICK e, t, o, m \in SUBSET Name, g \in BOOLEAN : Change(e, t, o, m, g)
  BY OthersChange
<1>2. e \in SUBSET entries /\ entries' = e /\ ~added
  BY <1>1 DEF Change
<1>3. n \in Nat /\ c \in Int /\ entries \in SUBSET Name
  BY ListingAssumption DEF Name, ListingTypeOK
<1>4. Rank(e, n) <= Rank(entries, n)
  BY <1>2, <1>3, RanksGrow
<1>5. Rank(entries, n) \in Int /\ Rank(e, n) \in Int
  BY <1>2, <1>3, Ranks
<1> QED BY <1>2, <1>3, <1>4, <1>5 DEF Ahead

LEMMA NextOffsetMissesNone ==
  ASSUME ListingTypeOK, FromTheStart, OffsetMissesNone, [Next]_vars
  PROVE  OffsetMissesNone'
<1>0. /\ cursor \in 0 .. MaxName /\ next \in 0 .. MaxName
      /\ steady \subseteq tagged /\ tagged \subseteq entries /\ entries \in SUBSET Name
      /\ allowed \subseteq may /\ size \in 1 .. MaxPage
      /\ \A n \in Name : returned[n] \in Nat
  BY DEF ListingTypeOK, Many
<1>1. CASE \E k \in Kind, n \in Asked : Start(k, n)
  <2>1. /\ cursor' = 0 /\ entries' = entries /\ steady' = tagged /\ pc' \in {"gate", "refused"}
    BY <1>1 DEF Start, FromTheStart, world
  <2>2. ASSUME NEW n \in entries PROVE Ahead(n, 0)
    <3>1. Rank(entries, n) \in 0 .. Cardinality(entries) /\ Rank(entries, n) >= 1
      BY <1>0, Ranks
    <3>2. Cardinality(entries) \in Nat
      BY <1>0, NamesAreFinite, ListingAssumption
    <3> QED BY <3>1, <3>2 DEF Ahead
  <2>3. \A n \in steady' : Ahead(n, cursor)'
    BY <1>0, <2>1, <2>2 DEF Ahead
  <2> QED BY <2>1, <2>3 DEF OffsetMissesNone, Paging, Fetched
<1>2. CASE Gate
  BY <1>2 DEF Gate, OffsetMissesNone, Offset, Paging, Fetched, Ahead, world, history
<1>3. CASE ImageList
  BY <1>0, <1>3 DEF ImageList, OffsetMissesNone, Offset, Paging, Fetched, Ahead, world, history
<1>4. CASE ListConfigs
  BY <1>4 DEF ListConfigs, OffsetMissesNone, Offset, Paging, Fetched, Ahead, world, history
<1>5. CASE ListRegistries \/ ListTags \/ GlobalSearch \/ CatalogRepoNames
  <2>1. SUFFICES ASSUME Offset, ~removed PROVE OffsetMissesNone'
    BY <1>5, PagesRead DEF Reads, OffsetMissesNone, Offset, history
  <2> DEFINE p == OffsetPage(entries, cursor)
  <2>2. /\ pc = "read" /\ pc' \in {"images", "filter"} /\ window' = p.window /\ next' = p.next
        /\ UNCHANGED <<kind, cursor, returned, steady, allowed, entries>>
    BY <1>5, <2>1, PagesRead DEF Reads, Keyset, Offset, history, world
  <2>3. \A n \in entries : n \in p.window <=>
          cursor < Rank(entries, n) /\ (p.next = 0 \/ Rank(entries, n) <= p.next)
    BY <1>0, OffsetPages
  <2>4. p.next \in 0 .. MaxName
    BY <1>0, OffsetPages
  <2>5. \A n \in entries : Rank(entries, n) \in Nat
    BY <1>0, Ranks
  <2> HIDE DEF p
  <2>6. ASSUME NEW n \in steady \intersect allowed
        PROVE  /\ returned[n] >= 1 \/ Ahead(n, cursor)
               /\ returned[n] >= 1 \/ n \in p.window \/ (p.next # 0 /\ Ahead(n, p.next))
    <3>1. returned[n] >= 1 \/ Ahead(n, cursor)
      BY <2>1, <2>2, <2>6 DEF OffsetMissesNone, Paging
    <3> QED BY <1>0, <2>3, <2>4, <2>5, <3>1 DEF Ahead
  <2> QED BY <2>2, <2>6 DEF OffsetMissesNone, Paging, Fetched, Ahead
<1>6. CASE Respond
  <2>1. SUFFICES ASSUME Offset, ~removed PROVE OffsetMissesNone'
    BY <1>6 DEF Respond, OffsetMissesNone, Offset, history
  <2>2. /\ pc = "filter" /\ cursor' = next /\ pc' = IF next = 0 THEN "done" ELSE "gate"
        /\ UNCHANGED <<kind, steady, allowed, entries>>
    BY <1>6 DEF Respond, history, world
  <2>3. \A n \in Name : /\ returned'[n] >= returned[n] /\ returned'[n] \in Nat
                        /\ n \in window /\ n \in may => returned'[n] >= 1
    BY <1>0, <1>6, <2>1, Counted DEF Many, Offset
  <2>4. ASSUME NEW n \in steady \intersect allowed
        PROVE  returned'[n] >= 1 \/ (next # 0 /\ Ahead(n, next))
    <3>1. returned[n] >= 1 \/ n \in window \/ (next # 0 /\ Ahead(n, next))
      BY <2>1, <2>2, <2>4 DEF OffsetMissesNone, Paging, Fetched
    <3> QED BY <1>0, <2>3, <3>1
  <2> QED BY <2>2, <2>4 DEF OffsetMissesNone, Paging, Fetched, Ahead
<1>7. CASE Fail
  <2>1. UNCHANGED <<kind, cursor, returned, steady, allowed, entries, removed>> /\ pc' = "gate"
    BY <1>7 DEF Fail, world, history
  <2>2. SUFFICES ASSUME Offset, ~removed, NEW n \in steady \intersect allowed
                 PROVE  returned[n] >= 1 \/ Ahead(n, cursor)
    BY <2>1 DEF OffsetMissesNone, Offset, Paging, Fetched, Ahead
  <2>3. pc \in {"gate", "read", "images", "configs", "filter"}
    BY <1>7 DEF Fail
  <2> QED BY <2>2, <2>3 DEF OffsetMissesNone, Paging
<1>8. CASE Others
  <2>1. /\ UNCHANGED <<kind, pc, cursor, window, next, returned>>
        /\ steady' \subseteq steady /\ allowed' \subseteq allowed
    BY <1>8, OthersChange DEF Change, page
  <2>2. SUFFICES ASSUME Offset, ~removed' PROVE OffsetMissesNone'
    BY <2>1 DEF OffsetMissesNone, Offset
  <2>3. ~removed
    BY <1>8, <2>2, OthersChange DEF Change
  <2>4. \A n \in Name : /\ Ahead(n, cursor) => Rank(entries', n) > cursor
                        /\ Ahead(n, next) => Rank(entries', n) > next
    BY <1>0, <1>8, <2>2, PositionsGrow
  <2> QED BY <1>0, <2>1, <2>2, <2>3, <2>4 DEF OffsetMissesNone, Paging, Fetched, Ahead
<1>9. CASE UNCHANGED vars
  BY <1>9 DEF vars, page, world, history, OffsetMissesNone, Offset, Paging, Fetched, Ahead
<1> QED BY <1>1, <1>2, <1>3, <1>4, <1>5, <1>6, <1>7, <1>8, <1>9 DEF Next, Service


LEMMA NextFirstPageTakesOverlay ==
  ASSUME ListingTypeOK, FromTheStart, FirstPageTakesOverlay, [Next]_vars
  PROVE  FirstPageTakesOverlay'
<1>0. /\ durable \subseteq overlay /\ allowed \subseteq may /\ overlay \subseteq Name
      /\ \A n \in Name : returned[n] \in Nat
  BY DEF ListingTypeOK, Many
<1>1. CASE \E k \in Kind, n \in Asked : Start(k, n)
  BY <1>1 DEF Start, FromTheStart, FirstPageTakesOverlay
<1>2. CASE Gate
  BY <1>2 DEF Gate, FirstPageTakesOverlay, Paging, history
<1>3. CASE ImageList
  BY <1>3 DEF ImageList, FirstPageTakesOverlay, Paging, history
<1>4. CASE ListConfigs
  BY <1>0, <1>4 DEF ListConfigs, FirstPageTakesOverlay, Paging, history
<1>5. CASE ListRegistries \/ ListTags \/ GlobalSearch \/ CatalogRepoNames
  <2>1. /\ pc = "read" /\ pc' \in {"images", "filter"}
        /\ pc' = "filter" => kind # "repositories"
        /\ UNCHANGED <<kind, cursor, returned, durable, allowed>>
    BY <1>5, PagesRead DEF Reads, Keyset, history
  <2> QED BY <2>1 DEF FirstPageTakesOverlay, Paging
<1>6. CASE Respond
  <2>1. SUFFICES ASSUME kind = "repositories" PROVE FirstPageTakesOverlay'
    BY <1>6 DEF Respond, FirstPageTakesOverlay
  <2>2. pc = "filter" /\ UNCHANGED <<kind, durable, allowed>>
    BY <1>6 DEF Respond, history
  <2>3. \A n \in Name : /\ returned'[n] >= returned[n] /\ returned'[n] \in Nat
                        /\ n \in window /\ n \in may => returned'[n] >= 1
    BY <1>0, <1>6, <2>1, Counted DEF Many
  <2>4. ASSUME NEW n \in durable \intersect allowed
        PROVE  returned'[n] >= 1
    <3>1. CASE cursor = 0
      <4>1. n \in window
        BY <2>1, <2>2, <2>4, <3>1 DEF FirstPageTakesOverlay
      <4> QED BY <1>0, <2>3, <4>1
    <3>2. CASE cursor # 0
      <4>1. returned[n] >= 1
        BY <2>1, <2>2, <2>4, <3>2 DEF FirstPageTakesOverlay, Paging
      <4> QED BY <1>0, <2>3, <4>1
    <3> QED BY <3>1, <3>2
  <2>5. pc' \in {"done", "gate"}
    BY <1>6 DEF Respond
  <2> QED BY <2>2, <2>4, <2>5 DEF FirstPageTakesOverlay
<1>7. CASE Fail
  BY <1>7 DEF Fail, FirstPageTakesOverlay, Paging, history
<1>8. CASE Others
  <2>1. /\ UNCHANGED <<kind, pc, cursor, window, returned>>
        /\ durable' \subseteq durable /\ allowed' \subseteq allowed
    BY <1>8, OthersChange DEF Change, page
  <2> QED BY <2>1 DEF FirstPageTakesOverlay, Paging
<1>9. CASE UNCHANGED vars
  BY <1>9 DEF vars, page, history, FirstPageTakesOverlay, Paging
<1> QED BY <1>1, <1>2, <1>3, <1>4, <1>5, <1>6, <1>7, <1>8, <1>9 DEF Next, Service

LEMMA NextOffsetRepeatsNone ==
  ASSUME ListingTypeOK, FromTheStart, OffsetRepeatsNone, [Next]_vars
  PROVE  OffsetRepeatsNone'
<1>0. /\ cursor \in 0 .. MaxName /\ next \in 0 .. MaxName
      /\ window \subseteq Name /\ entries \in SUBSET Name /\ size \in 1 .. MaxPage
      /\ \A n \in Name : returned[n] \in Nat
  BY DEF ListingTypeOK, Many
<1>1. CASE \E k \in Kind, n \in Asked : Start(k, n)
  <2>1. /\ \A n \in Name : returned'[n] = 0
        /\ pc' \in {"gate", "refused"}
    BY <1>1 DEF Start, FromTheStart
  <2> QED BY <2>1 DEF OffsetRepeatsNone, Fetched, Twice
<1>2. CASE Gate
  BY <1>2 DEF Gate, OffsetRepeatsNone, Offset, Paging, Fetched, Ahead, Twice, world, history
<1>3. CASE ImageList
  BY <1>3 DEF ImageList, OffsetRepeatsNone, Offset, Paging, Fetched, Ahead, Twice, world, history
<1>4. CASE ListConfigs
  <2>1. SUFFICES ASSUME Offset, ~added PROVE OffsetRepeatsNone'
    BY <1>4 DEF ListConfigs, OffsetRepeatsNone, Offset, history
  <2>2. /\ pc = "configs" /\ pc' = "filter"
        /\ UNCHANGED <<kind, cursor, next, returned, entries>>
    BY <1>4 DEF ListConfigs, world
  <2>3. CASE cursor = 0
    <3>1. \A n \in Name : returned[n] = 0
      BY <2>2, <2>3 DEF FromTheStart, Paging
    <3>2. appended' = overlay \ window /\ window' = window \union overlay
      BY <1>4, <2>3 DEF ListConfigs
    <3>3. appended = {}
      BY <2>2, <2>3 DEF FromTheStart
    <3>4. ASSUME NEW n \in Name, n \in window'
          PROVE  next = 0 \/ ~Ahead(n, next) \/ n \in appended'
      BY <2>1, <2>2, <3>2, <3>3, <3>4 DEF OffsetRepeatsNone, Fetched
    <3> QED BY <2>2, <3>1, <3>2, <3>4 DEF OffsetRepeatsNone, Fetched, Paging, Ahead, Twice
  <2>4. CASE cursor # 0
    <3>1. UNCHANGED <<appended, window>>
      BY <1>4, <2>4 DEF ListConfigs
    <3> QED BY <2>1, <2>2, <3>1 DEF OffsetRepeatsNone, Fetched, Paging, Ahead, Twice
  <2> QED BY <2>3, <2>4
<1>5. CASE ListRegistries \/ ListTags \/ GlobalSearch \/ CatalogRepoNames
  <2>1. SUFFICES ASSUME Offset, ~added PROVE OffsetRepeatsNone'
    BY <1>5, PagesRead DEF Reads, OffsetRepeatsNone, Offset, history
  <2> DEFINE p == OffsetPage(entries, cursor)
  <2>2. /\ pc = "read" /\ pc' \in {"images", "filter"} /\ window' = p.window /\ next' = p.next
        /\ UNCHANGED <<kind, cursor, returned, entries, appended>>
    BY <1>5, <2>1, PagesRead DEF Reads, Keyset, Offset, world
  <2>3. /\ p.window \subseteq entries
        /\ \A n \in entries : n \in p.window <=>
             cursor < Rank(entries, n) /\ (p.next = 0 \/ Rank(entries, n) <= p.next)
    BY <1>0, OffsetPages
  <2>4. p.next \in 0 .. MaxName
    BY <1>0, OffsetPages
  <2>5. \A n \in entries : Rank(entries, n) \in Nat
    BY <1>0, Ranks
  <2> HIDE DEF p
  <2>6. ASSUME NEW n \in p.window
        PROVE  Ahead(n, cursor) /\ (p.next = 0 \/ ~Ahead(n, p.next))
    BY <1>0, <2>3, <2>4, <2>5 DEF Ahead
  <2> QED BY <1>0, <2>1, <2>2, <2>6 DEF OffsetRepeatsNone, Fetched, Paging, Ahead, Twice
<1>6. CASE Respond
  <2>1. SUFFICES ASSUME Offset, ~added PROVE OffsetRepeatsNone'
    BY <1>6 DEF Respond, OffsetRepeatsNone, Offset, history
  <2>2. /\ pc = "filter" /\ cursor' = next /\ pc' = IF next = 0 THEN "done" ELSE "gate"
        /\ UNCHANGED <<kind, entries, appended>>
    BY <1>6 DEF Respond, world
  <2>3. \A n \in Name : /\ returned'[n] <= returned[n] + 1 /\ returned'[n] \in Nat
                        /\ n \notin window => returned'[n] = returned[n]
    BY <1>0, <1>6, <2>1, Counted DEF Many, Offset
  <2>4. ASSUME NEW n \in Name
        PROVE  returned'[n] <= Twice(n) + 1
    <3>1. n \in window => returned[n] <= Twice(n)
      BY <2>1, <2>2 DEF OffsetRepeatsNone, Fetched
    <3>2. returned[n] <= Twice(n) + 1
      BY <2>1 DEF OffsetRepeatsNone
    <3> QED BY <1>0, <2>3, <3>1, <3>2 DEF Twice
  <2>5. ASSUME next # 0, NEW n \in Name, Ahead(n, next)
        PROVE  returned'[n] <= Twice(n)
    <3>1. CASE n \in window
      <4>1. returned[n] = 0 /\ n \in appended
        BY <2>1, <2>2, <2>5, <3>1 DEF OffsetRepeatsNone, Fetched
      <4> QED BY <2>3, <4>1 DEF Twice
    <3>2. CASE n \notin window
      <4>1. Rank(entries, n) \in Int /\ cursor < next
        BY <1>0, <2>2, <2>5, Ranks DEF FromTheStart, Fetched
      <4>2. Ahead(n, cursor)
        BY <1>0, <2>5, <4>1 DEF Ahead
      <4> QED BY <2>1, <2>2, <2>3, <3>2, <4>2 DEF OffsetRepeatsNone, Paging, Twice
    <3> QED BY <3>1, <3>2
  <2> QED BY <2>2, <2>4, <2>5 DEF OffsetRepeatsNone, Fetched, Paging, Ahead, Twice
<1>7. CASE Fail
  <2>1. SUFFICES ASSUME Offset, ~added PROVE OffsetRepeatsNone'
    BY <1>7 DEF Fail, OffsetRepeatsNone, Offset, history
  <2>2. /\ pc \in {"gate", "read", "images", "configs", "filter"} /\ pc' = "gate"
        /\ UNCHANGED <<kind, cursor, returned, entries>>
    BY <1>7 DEF Fail, world
  <2>3. CASE cursor = 0
    <3>1. \A n \in Name : returned[n] = 0
      BY <2>2, <2>3 DEF FromTheStart, Paging
    <3> QED BY <2>2, <3>1 DEF OffsetRepeatsNone, Fetched, Twice
  <2>4. CASE cursor # 0
    <3>1. appended' = appended
      BY <1>7, <2>4 DEF Fail
    <3> QED BY <2>1, <2>2, <3>1 DEF OffsetRepeatsNone, Fetched, Paging, Ahead, Twice
  <2> QED BY <2>3, <2>4
<1>8. CASE Others
  <2>1. UNCHANGED <<kind, pc, cursor, window, next, returned, appended>>
    BY <1>8, OthersChange DEF Change, page
  <2>2. SUFFICES ASSUME Offset, ~added' PROVE OffsetRepeatsNone'
    BY <2>1 DEF OffsetRepeatsNone, Offset
  <2>3. ~added
    BY <1>8, <2>2, OthersChange DEF Change
  <2>4. \A n \in Name : /\ Rank(entries', n) > cursor => Ahead(n, cursor)
                        /\ Rank(entries', n) > next => Ahead(n, next)
    BY <1>0, <1>8, <2>2, PositionsShrink
  <2> QED BY <1>0, <2>1, <2>2, <2>3, <2>4 DEF OffsetRepeatsNone, Fetched, Paging, Ahead, Twice
<1>9. CASE UNCHANGED vars
  BY <1>9 DEF vars, page, world, history, OffsetRepeatsNone, Offset, Paging, Fetched, Ahead, Twice
<1> QED BY <1>1, <1>2, <1>3, <1>4, <1>5, <1>6, <1>7, <1>8, <1>9 DEF Next, Service


-----------------------------------------------------------------------------
(* Theorems.                                                               *)

LEMMA InitLInv == Init => LInv
<1> SUFFICES ASSUME Init PROVE LInv
  OBVIOUS
<1>1. ListingTypeOK
  BY InitType
<1>2. /\ pc = "idle" /\ kind = "tags" /\ cursor = 0 /\ appended = {}
      /\ \A n \in Name : returned[n] = 0
  BY DEF Init
<1>3. FromTheStart
  BY <1>2 DEF FromTheStart, Fetched
<1>4. KeysetDivides
  BY <1>2 DEF KeysetDivides, Paging
<1>5. OffsetMissesNone /\ FirstPageTakesOverlay /\ OffsetRepeatsNone
  BY <1>2 DEF OffsetMissesNone, FirstPageTakesOverlay, OffsetRepeatsNone, Offset
<1> QED BY <1>1, <1>3, <1>4, <1>5 DEF LInv

LEMMA NextLInv == LInv /\ [Next]_vars => LInv'
  BY NextType, NextFromTheStart, NextKeysetDivides, NextOffsetMissesNone,
     NextFirstPageTakesOverlay, NextOffsetRepeatsNone DEF LInv

\* What the four lists of the service keep true between the reads of a page and
\* between pages, whatever is pushed, deleted, granted or revoked meanwhile.
THEOREM ListingInvariant == Spec => []LInv
  BY InitLInv, NextLInv, PTL DEF Spec

\* A page holds names, its cursor is a position or a name, and nothing is counted
\* that was not there: the registry.go, namepage and catalog handlers.
THEOREM ListingTypes == Spec => []ListingTypeOK
<1>1. LInv => ListingTypeOK
  BY DEF LInv
<1> QED BY <1>1, ListingInvariant, PTL

\* RegistryRepo.List and namepage.Window: following a keyset cursor to the end
\* shows every name that was there and allowed all the time exactly once, and no
\* name twice.
THEOREM KeysetOnce == Spec => []KeysetShowsOnce
<1>1. LInv => KeysetShowsOnce
  <2> SUFFICES ASSUME LInv, pc = "done", Keyset, NEW n \in Name
               PROVE  /\ returned[n] <= 1
                      /\ n \in steady /\ (n \in allowed \/ kind = "tags") => returned[n] = 1
    BY DEF KeysetShowsOnce, Keyset
  <2> QED BY DEF LInv, KeysetDivides, Entitled
<1> QED BY <1>1, ListingInvariant, PTL

\* namepage.WindowByOffset and serveCatalog: as long as no repository leaves the
\* engine's list, following an offset cursor shows every repository that had tags
\* and was allowed all the time, through pages that the filter emptied.
THEOREM OffsetReaches == Spec => []OffsetReachesAll
<1>1. LInv => OffsetReachesAll
  BY DEF LInv, OffsetReachesAll, OffsetMissesNone, Offset
<1> QED BY <1>1, ListingInvariant, PTL

\* ListRepositories of the use case: a repository that kept its overlay row is
\* shown, whatever happened to its tags and to its neighbours.
THEOREM DurableAreListed == Spec => []DurableListed
<1>1. LInv => DurableListed
  BY DEF LInv, DurableListed, FirstPageTakesOverlay
<1> QED BY <1>1, ListingInvariant, PTL

\* ListRepositories and serveCatalog: as long as the engine's list does not grow,
\* a repository is shown once, and one whose overlay row was appended to the first
\* page at most twice.
THEOREM RepeatsAppended == Spec => []RepeatsOnlyAppended
<1>1. LInv => RepeatsOnlyAppended
  BY DEF LInv, RepeatsOnlyAppended, OffsetRepeatsNone, Offset, Twice
<1> QED BY <1>1, ListingInvariant, PTL

=============================================================================
