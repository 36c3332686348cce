SPECIFICATION FairSpec
CONSTANTS
  RegId = {"A"}
  RepoName = {"x", "y"}
  Tag = {"t"}
  Labels = {"l1", "l2"}
  Project = {"prj"}
  RegName = {"alpha", "beta"}
  Op = {1, 2, 3, 4}
  Inbox <- FinishInbox
  NoRepo = NoRepo
  NoLabels = NoLabels
  NoRow = NoRow
  MaxOutbox = 16
PROPERTIES StoreBehaviour OverlayMovesLast OperationsFinish
CHECK_DEADLOCK FALSE
