SPECIFICATION Spec
CONSTANTS
  Names <- MCNames
  Paths <- MCPaths
  Threads = {t1, t2}
  Configurations <- RaceConfigurations
  Requests <- OverlayRequests
  Roots <- AboveOrigins
  MayDelete = FALSE
INVARIANTS ListingIsView
PROPERTIES HandleOnView CreationsOnTarget
