SPECIFICATION FairRelay
CONSTANTS
  Tx = {1, 2, 3}
  RegId = {"A"}
  RepoName = {"x", "y", "z"}
  Plan <- OneLockPlan
  Intent <- OneLockIntent
  Replica = {d1, d2}
  Nobody = Nobody
  MaxAttempts = 2
  MaxCrashes = 1
INVARIANTS RelayTypeOK IdsFollowCommits SentMeansApplied OwnerHasPlace LastCommitWins
PROPERTIES RowsSettle
CHECK_DEADLOCK FALSE
