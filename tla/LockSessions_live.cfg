\* Two sessions with timeouts, three acquires and one cache operation of any kind.
CONSTANTS
  s1 = s1  s2 = s2  s3 = s3  s4 = s4
  k1 = k1  k2 = k2  o1 = o1  o2 = o2
  c1 = c1  c2 = c2  c3 = c3  c4 = c4
  p1 = p1  p2 = p2
  NoSession = NoSession
  NoObject = NoObject
  Sessions = {s1, s2}
  Keys = {k1}
  Objects = {o1, o2}
  Calls = {c1, c2, c3}
  Caller <- TwoOne
  Requests <- OneKey
  Ops = {p1}
  Kinds = {"set", "update", "remove", "read", "evict"}
  Exclusive = {}
  BlockRead = {s2}
  Timed = {s1, s2}
SPECIFICATION FairSpec
INVARIANTS TypeOK OwnerTracked WaitsOnHolder
PROPERTIES AcquireSettles OpsFinish
CHECK_DEADLOCK FALSE
