SPECIFICATION Spec
CONSTANTS
  Threads = {t1, t2}
  Handles = {h1, h2}
  Names <- MCNames
  Redirected <- MCRedirected
  Prefixes <- MCPrefixes
  Parts <- MCParts
  Join <- MCJoin
  Sibling <- MCSibling
  Concurrent <- ReadersOverlap
  NoThread = NoThread
  NoHandle = NoHandle
  NoName = NoName
  NoPart = NoPart
  NoEntry = NoEntry
  Closed = Closed
SYMMETRY Symmetric
VIEW WithoutAnswers
INVARIANTS StoreFaithful TargetFaithful NoStaleEntry ViewsLive
PROPERTIES AssertionsHold AnswerTrue ImplementsHandleNames
