SPECIFICATION Spec
CONSTANTS
  n1 = n1
  n3 = n3
  n7 = n7
  Names <- MCNames
  Length <- MCLength
  Other = Other
  Directory <- MCDirectory
  Single <- MCSingle
  Offsets <- MCOffsets
  Addresses <- MCAddresses
  Capacities <- MCCapacities
  Contents <- MCContents
INVARIANTS WritesInBounds FoundByOffsets OverflowTellsLength AnsweredAsSystem
