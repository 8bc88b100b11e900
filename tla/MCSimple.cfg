SPECIFICATION Spec
CONSTANTS
  Names <- MCNames
  Paths <- MCPaths
  Threads = {t1, t2}
  Configurations <- SimpleConfigurations
  Requests <- SimpleRequests
  Roots <- MCRoots
  MayDelete = TRUE
INVARIANTS ListingIsView RedirectionIdentified
PROPERTIES ImplementsFilesystem
