---------------------------- MODULE MCDataPlane ----------------------------
(***************************************************************************)
(* Instances of DataPlane for TLC: alice owns the registry of x, bob that  *)
(* of y and z.                                                             *)
(***************************************************************************)
EXTENDS DataPlane, TLC

TwoTenants == [n \in Repo |-> IF n = "x" THEN {"alice"} ELSE {"bob"}]

Upload(n, s, d) == [kind |-> "Upload", repo |-> n, subject |-> s, digest |-> d]

GetBlob(n, s, d) == [kind |-> "GetBlob", repo |-> n, subject |-> s, digest |-> d]

Mount(n, m, s, d) == [kind |-> "Mount", repo |-> n, from |-> m, subject |-> s, digest |-> d]

Put(n, s, ls) == [kind |-> "PutManifest", repo |-> n, subject |-> s, tag |-> "t", layers |-> ls]

Get(n, s) == [kind |-> "GetManifest", repo |-> n, subject |-> s, tag |-> "t"]

Delete(n) == [kind |-> "DeleteTag", repo |-> n, tag |-> "t"]

\* All ways to choose a request for each id.
Choices(scenario) ==
  {q \in [DOMAIN scenario -> UNION {scenario[c] : c \in DOMAIN scenario}] :
     \A c \in DOMAIN scenario : q[c] \in scenario[c]}

\* One push, whole, with two pulls of its manifest at any moment.
FirstPush ==
  << {Upload("x", "alice", "d")},
     {Put("x", "alice", {"d"})},
     {Get("x", "alice")},
     {Get("x", "alice")},
     {Delete("x")} >>

\* The repository is emptied and pushed to again, with a pull of its blob.
PushAgain ==
  << {Upload("x", "alice", "d")},
     {Put("x", "alice", {"d"})},
     {Delete("x")},
     {Put("x", "alice", {"d"})},
     {GetBlob("x", "alice", "d")} >>

\* bob, with repositories of his own, mounts from one to the other and asks
\* for a digest that only alice has uploaded.
Tenants ==
  << {Upload("x", "alice", "d")},
     {Upload("y", "bob", "e")},
     {Put("y", "bob", {"e"})},
     {Mount("z", "y", "bob", "d"), Mount("z", "y", "bob", "e")},
     {GetBlob("y", "bob", "d")} >>

DataPlaneInbox == Choices(FirstPush) \union Choices(PushAgain) \union Choices(Tenants)

=============================================================================
