SPECIFICATION FileSpec
CONSTANTS
  Operator = {o1}
  Manifest = {"first", "second", "third", "fourth"}
  Id <- MCId
  Records <- MCRecords
  Policy <- MCPolicy
  Rank <- MCRank
  Parents <- MCParents
  Needs <- MCNeeds
  Refs <- MCRefs
  MaxStarts = 6
  Process = {"older", "newer", "fork"}
  Release <- MCRelease
  MaxDeaths = 3
  Publisher = {p1, p2}
  Limits = {1, 2}
  MaxEvents = 3
  MaxLosses = 2
INVARIANTS ResumesAfterLastCommitted RollbackIsNotBlocked OpenedIsMigrated PublishedInOrder
PROPERTIES ImplementsRehearsal OnlyOwnRowsAreRemoved SomeReleaseOpens EventuallyPublished
CHECK_DEADLOCK FALSE
