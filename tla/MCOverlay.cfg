SPECIFICATION Spec
CONSTANTS
  Names <- MCNames
  Paths <- MCPaths
  Threads = {t1}
  Configurations <- OverlayConfigurations
  Requests <- OverlayRequests
  Roots <- AboveOrigins
  MayDelete = FALSE
PROPERTIES ImplementsFilesystem
