SPECIFICATION Spec
CONSTANTS
  Names <- MCNames
  Paths <- MCPaths
  Threads = {t1}
  Configurations <- OriginOnly
  Requests <- CreateRequests
  Roots <- AboveOrigins
  MayDelete = FALSE
PROPERTIES CreateOnlyNew
