SPECIFICATION Spec
CONSTANTS
  Names <- MCNames
  Paths <- MCPaths
  Threads = {t1}
  Configurations <- Hidden
  Requests <- HiddenRequests
  Roots <- AboveOrigins
  MayDelete = FALSE
INVARIANTS ListingIsView
