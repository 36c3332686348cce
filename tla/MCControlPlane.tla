--------------------------- MODULE MCControlPlane ---------------------------
(***************************************************************************)
(* Instances of ControlPlane for TLC: the requests each run is made of.    *)
(* A run covers every choice of one request per id from its scenarios.     *)
(***************************************************************************)
EXTENDS ControlPlane, TLC

CreateReg(r) ==
  [kind |-> "CreateRegistry", reg |-> r, project |-> "prj", name |-> "alpha", labels |-> "l1"]

UpdateReg(r, mask, n, l, v) ==
  [kind |-> "UpdateRegistry", reg |-> r, mask |-> mask, name |-> n, labels |-> l, vis |-> v]

DeleteReg(r) == [kind |-> "DeleteRegistry", reg |-> r]

CreateRepo(r, n, v) == [kind |-> "CreateRepository", reg |-> r, repo |-> n, vis |-> v]

UpdateRepo(r, n, v) ==
  [kind |-> "UpdateRepository", reg |-> r, repo |-> n, applyVisibility |-> TRUE, vis |-> v]

Describe(r, n) ==
  [kind |-> "UpdateRepository", reg |-> r, repo |-> n, applyVisibility |-> FALSE,
   vis |-> "PRIVATE"]

Rename(r, old, new) == [kind |-> "RenameRepository", reg |-> r, repo |-> old, newName |-> new]

DeleteRepo(r, n) == [kind |-> "DeleteRepository", reg |-> r, repo |-> n]

Tagged(kind, r, n, t) == [kind |-> kind, reg |-> r, repo |-> n, tag |-> t]

\* All ways to choose a request for each id.
Choices(scenario) ==
  {q \in [DOMAIN scenario -> UNION {scenario[o] : o \in DOMAIN scenario}] :
     \A o \in DOMAIN scenario : q[o] \in scenario[o]}

DefaultPublic(r) == UpdateReg(r, {"default_visibility"}, "alpha", "l1", "PUBLIC")

-----------------------------------------------------------------------------
\* Two or three deletes of one registry race an update, a push that may fill
\* it again, or the creation of a registry with the same name.
LifecycleScenario ==
  << {CreateReg("A")},
     {DeleteReg("A")},
     {DeleteReg("A")},
     {UpdateReg("A", {"name", "labels"}, "beta", "l2", "PRIVATE"), CreateReg("B")},
     {Tagged("Push", "A", "x", "t"), DeleteReg("A")} >>

\* One repository, created or promoted, flipped both ways and deleted at once,
\* while the default it may inherit changes.
OverlayScenario ==
  << {CreateReg("A")},
     {CreateRepo("A", "x", "UNSPECIFIED"), CreateRepo("A", "x", "PUBLIC")},
     {UpdateRepo("A", "x", "PRIVATE"), Describe("A", "x")},
     {UpdateRepo("A", "x", "PUBLIC"), DefaultPublic("A")},
     {DeleteRepo("A", "x")} >>

\* A durable repository deleted, created again and pushed to.
RecreateScenario ==
  << {CreateReg("A")},
     {CreateRepo("A", "x", "PRIVATE")},
     {DeleteRepo("A", "x")},
     {CreateRepo("A", "x", "PUBLIC"), DeleteRepo("A", "x")},
     {Tagged("Push", "A", "x", "t")} >>

\* A repository of two tags is renamed, while its new name may be taken by an
\* overlay or by a push.
RenameScenario ==
  << {CreateReg("A")},
     {Tagged("Push", "A", "x", "t")},
     {Tagged("Push", "A", "x", "u")},
     {CreateRepo("A", "y", "PRIVATE"), Tagged("Push", "A", "y", "t")},
     {Rename("A", "x", "y")} >>

WorkersInbox == Choices(LifecycleScenario) \union Choices(RecreateScenario)

OverlaysInbox == Choices(OverlayScenario) \union Choices(RenameScenario)

\* Every kind of request on one repository, two at a time.
FinishInbox == Choices(
  << {CreateReg("A")},
     {Tagged("Push", "A", "x", "t"), CreateRepo("A", "x", "PRIVATE")},
     {UpdateRepo("A", "x", "PUBLIC"), Tagged("DeleteTag", "A", "x", "t"), DeleteReg("A")},
     {UpdateRepo("A", "x", "PRIVATE"), Rename("A", "x", "y"), DeleteRepo("A", "x")} >>)

-----------------------------------------------------------------------------
\* A rename that read the overlay before a visibility flip.
StaleRenameInbox == Choices(
  << {CreateReg("A")}, {CreateRepo("A", "x", "PRIVATE")},
     {UpdateRepo("A", "x", "PUBLIC")}, {Rename("A", "x", "y")} >>)

\* DeleteTag of a durable repository, of its only tag or before that is pushed:
\* either way no tag is left.
LastTagInbox == Choices(
  << {CreateReg("A")}, {CreateRepo("A", "x", "PRIVATE")},
     {Tagged("Push", "A", "x", "t")}, {Tagged("DeleteTag", "A", "x", "t")} >>)
=============================================================================
