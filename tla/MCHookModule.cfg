SPECIFICATION Spec
CONSTANTS
  h1 = h1
  h2 = h2
  h3 = h3
  Handles = {h1, h2, h3}
  NoHandle = NoHandle
  Closed = Closed
  NoEntry = NoEntry
  Names <- MCNames
  Paths <- MCPaths
  Configured <- MCConfigured
  Current <- MCCurrent
  Temporary <- MCTemporary
  Requests <- MCRequests
SYMMETRY Symmetric
CHECK_DEADLOCK FALSE
INVARIANTS StoredHandlesAreOpen CurrentDirectoryIntercepted
PROPERTY RulesFixed
