SPECIFICATION CPSpec
CONSTANTS
  RegId = {"A"}
  RepoName = {"x", "y"}
  Tag = {"t", "u"}
  Labels = {"l1", "l2"}
  Project = {"prj"}
  RegName = {"alpha", "beta"}
  Op = {1, 2, 3, 4, 5}
  Inbox <- OverlaysInbox
  NoRepo = NoRepo
  NoLabels = NoLabels
  NoRow = NoRow
  MaxOutbox = 16
INVARIANTS CPTypeOK GrantFollowsVisibility RenameKeepsAddressable
CHECK_DEADLOCK FALSE
