SPECIFICATION FaultFreeSpec
CONSTANTS
  RegId = {"A"}
  RepoName = {"x", "y"}
  Tag = {"t"}
  Labels = {"l1", "l2"}
  Project = {"prj"}
  RegName = {"alpha", "beta"}
  Op = {1, 2, 3, 4}
  Inbox <- StaleRenameInbox
  NoRepo = NoRepo
  NoLabels = NoLabels
  NoRow = NoRow
  MaxOutbox = 16
INVARIANT GrantFollowsVisibility

CHECK_DEADLOCK FALSE
