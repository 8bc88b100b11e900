SPECIFICATION FairSpec
CONSTANTS
  Names <- MCNames
  Paths <- MCPaths
  Configurations <- MCConfigurations
  Temporary <- MCTemporary
  TempDirectory <- M
  GeneratedName <- MCGeneratedName
  Limit = 2
CHECK_DEADLOCK FALSE
INVARIANTS BuiltIsValid Verdict
PROPERTIES Ends
