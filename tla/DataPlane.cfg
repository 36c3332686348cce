SPECIFICATION DPSpec
CONSTANTS
  Repo = {"x", "y", "z"}
  Subject = {"alice", "bob"}
  Digest = {"d", "e"}
  Tag = {"t"}
  Conn = {1, 2, 3, 4, 5}
  Member <- TwoTenants
  Inbox <- DataPlaneInbox
INVARIANTS DPTypeOK ConfinedToTenant AckedUploadIsVisible PusherPulls RevokedStaysOut
CHECK_DEADLOCK FALSE
