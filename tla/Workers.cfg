SPECIFICATION CPSpec
CONSTANTS
  RegId = {"A", "B"}
  RepoName = {"x"}
  Tag = {"t"}
  Labels = {"l1", "l2"}
  Project = {"prj"}
  RegName = {"alpha", "beta"}
  Op = {1, 2, 3, 4, 5}
  Inbox <- WorkersInbox
  NoRepo = NoRepo
  NoLabels = NoLabels
  NoRow = NoRow
  MaxOutbox = 16
INVARIANTS DeleteOkMeansGone DurableStaysRegistered
PROPERTY LifeBehaviour
CHECK_DEADLOCK FALSE
