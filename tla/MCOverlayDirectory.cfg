SPECIFICATION Spec
CONSTANTS
  Names <- MCNames
  Paths <- MCPaths
  Threads = {t1, t2}
  Configurations <- OriginDirectory
  Requests <- DirectoryRequests
  Roots <- AboveOrigins
  MayDelete = FALSE
INVARIANTS ListingIsView
