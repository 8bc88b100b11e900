SPECIFICATION FairSpec
CONSTANTS
  Names <- MCNames
  Key <- MCKey
  Size <- MCSize
  QueueCount = 3
  Insertion = 3
  Included <- MCIncluded
  Missing <- MCMissing
  Directories <- MCDirectories
  Patterns = {"early", "late"}
  Matches <- MCMatches
  NoPattern = "any"
  Batch = 2
  Capacities = {1, 3}
  MaxRestarts = 1
INVARIANTS NoDuplicates FirstQueueWins NothingLost Complete
PROPERTIES ImplementsListing Ends
