\* Two calls by s1 and one by the exclusive s2, over two records.
CONSTANTS
  s1 = s1  s2 = s2  s3 = s3  s4 = s4
  k1 = k1  k2 = k2  o1 = o1  o2 = o2
  c1 = c1  c2 = c2  c3 = c3  c4 = c4
  p1 = p1  p2 = p2
  NoSession = NoSession
  NoObject = NoObject
  Sessions = {s1, s2}
  Keys = {k1, k2}
  Objects = {o1, o2}
  Calls = {c1, c2, c3}
  Caller <- TwoOne
  Requests <- AllPairs
  Ops = {}
  Kinds = {}
  Exclusive = {s2}
  BlockRead = {}
  Timed = {s1}
SPECIFICATION Spec
INVARIANTS ReservationTracked AcquireGrants RunServesItsCalls
PROPERTIES ReleaseFreesAll
SYMMETRY ObjectSymmetry
CHECK_DEADLOCK FALSE
