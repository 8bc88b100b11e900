SPECIFICATION Spec
CONSTANTS
  Threads = {t1, t2}
  Workers = {w1, w2}
  Handles = {h1, h2}
  Requests = {r1, r2}
  Buffers = {b1, b2}
  Granularity = 2
  PoolSize = 1
  NoRequest = NoRequest
  NoBuffer = NoBuffer
  Fresh = Fresh
  Deleted = Deleted
CHECK_DEADLOCK FALSE
INVARIANTS ApcOfItsRequest
