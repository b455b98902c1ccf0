\* Four sessions acquire one record once each.
CONSTANTS
  s1 = s1  s2 = s2  s3 = s3  s4 = s4
  k1 = k1  k2 = k2  o1 = o1  o2 = o2
  c1 = c1  c2 = c2  c3 = c3  c4 = c4
  p1 = p1  p2 = p2
  NoSession = NoSession
  NoObject = NoObject
  Sessions = {s1, s2, s3, s4}
  Keys = {k1}
  Objects = {o1}
  Calls = {c1, c2, c3, c4}
  Caller <- OneEach4
  Requests <- OneKey
  Ops = {}
  Kinds = {}
  Exclusive = {}
  BlockRead = {}
  Timed = {}
SPECIFICATION OrderlySpec
INVARIANTS MutualExclusion
CHECK_DEADLOCK FALSE
