\* Two sets of one key and one of its name in another scope, a remove and a clear; the
\* engine may fail.  Two objects: a replacement, or a record in each scope.
CONSTANTS
  k1 = k1  k2 = k2  k3 = k3  k4 = k4
  o1 = o1  o2 = o2  o3 = o3  o4 = o4  o5 = o5  o6 = o6
  c1 = c1  c2 = c2  c3 = c3  c4 = c4
  x1 = x1  x2 = x2  global = global  users = users
  Evictor = Evictor
  Clearer = Clearer
  NoObject = NoObject
  NoValue = NoValue
  Keys = {k1, k2}
  ScopeOf <- TwoScopes
  NameOf <- NameTwice
  Objects = {o1, o2}
  Sets = {c1, c2, c3}
  KeyOf <- TwoAndOne
  WithTTL = {c2}
  Removes = {x1}
  MaxClears = 1
  Evicting = FALSE
  MaxRecords = 1
  Failing = TRUE
SPECIFICATION FairSpec
PROPERTIES ClearEnds RecordsExpire

CHECK_DEADLOCK FALSE
