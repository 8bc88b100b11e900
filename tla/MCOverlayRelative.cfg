SPECIFICATION Spec
CONSTANTS
  Names <- MCNames
  Paths <- MCPaths
  Threads = {t1}
  Configurations <- OriginOnly
  Requests <- BelowRedirected
  Roots <- MCRoots
  MayDelete = FALSE
PROPERTIES FoundIfSeen
