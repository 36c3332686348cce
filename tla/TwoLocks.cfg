SPECIFICATION Spec
CONSTANTS
  Tx = {1, 2}
  RegId = {"A"}
  RepoName = {"x", "y", "z"}
  Plan <- TwoLocksPlan
INVARIANTS IdsFollowCommits
CHECK_DEADLOCK FALSE
