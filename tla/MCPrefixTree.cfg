SPECIFICATION FairSpec
CONSTANTS
  Components <- MCComponents
  Empty = ""
  Data = {d1, d2}
  Strings <- MCStrings
  Canonical <- MCCanonical
  NoPath = NoPath
  Addresses <- MCAddresses
  NoNode = NoNode
  NoData = NoData
  AfterMove <- DirectorCalls
INVARIANTS VisitsLiveNodes BranchesLeadToData
PROPERTIES ImplementsMap CallsReturn
