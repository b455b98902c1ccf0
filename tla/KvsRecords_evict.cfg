\* Two sets of one key, one of its name in another scope, one of another name: two are
\* evicted; the engine may fail.  Three objects: one of the four sets goes without.
CONSTANTS
  k1 = k1  k2 = k2  k3 = k3  k4 = k4
  o1 = o1  o2 = o2  o3 = o3  o4 = o4  o5 = o5  o6 = o6
  c1 = c1  c2 = c2  c3 = c3  c4 = c4
  x1 = x1  x2 = x2  global = global  users = users
  Evictor = Evictor
  Clearer = Clearer
  NoObject = NoObject
  NoValue = NoValue
  Keys = {k1, k2, k3}
  ScopeOf <- TwoScopes
  NameOf <- NameTwice
  Objects = {o1, o2, o3}
  Sets = {c1, c2, c3, c4}
  KeyOf <- TwoOneOne
  WithTTL = {c1, c2}
  Removes = {}
  MaxClears = 0
  Evicting = TRUE
  MaxRecords = 1
  Failing = TRUE
SPECIFICATION Spec
INVARIANTS TypeOK NoDanglingRecord ExpiryScheduled
CHECK_DEADLOCK FALSE
