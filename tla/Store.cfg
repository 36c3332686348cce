SPECIFICATION StoreSpec
CONSTANTS
  RegId = {r1, r2}
  RepoName = {x}
  Labels = {l1, l2}
  Project = {p1}
  RegName = {a, b}
  NoRepo = NoRepo
  NoLabels = NoLabels
  NoRow = NoRow
  MaxOutbox = 5
SYMMETRY StoreSymmetry
INVARIANTS
  StoreTypeOK
  LiveNamesUnique
  UnregisteredOnceWhenGone
  MirrorFollowsRow
  NoOverlayWithoutRegistry
PROPERTY DeletingIsTerminal
CHECK_DEADLOCK FALSE
