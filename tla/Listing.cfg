SPECIFICATION Spec
CONSTANTS
  MaxName = 3
  MaxPage = 2
  DefaultPage = 1
  Asked = {0, 2, 3}
  Rights = {{1, 2, 3}, {1, 3}}
  MaxChanges = 2
  MaxFailures = 1
INVARIANTS ListingTypeOK KeysetShowsOnce OffsetReachesAll DurableListed RepeatsOnlyAppended
PROPERTIES ListingEnds
CHECK_DEADLOCK FALSE
