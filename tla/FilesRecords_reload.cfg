\* Two sets of one file, a read and a removal; the file grows, moves or goes.
CONSTANTS
  p1 = p1  p2 = p2  o1 = o1  o2 = o2
  c1 = c1  c2 = c2  r1 = r1  x1 = x1  e1 = e1
  Clearer = Clearer
  Original = Original
  Missing = Missing
  NoObject = NoObject
  Paths = {p1, p2}
  Objects = {o1, o2}
  Sets = {c1, c2}
  PathOf <- OneFile
  TTLOf <- KeepEvict
  Sliding = {c1, c2}
  InMemory = {o1, o2}
  Edits = {e1}
  EditKinds = {"update", "delete", "rename"}
  SizeOf <- Grows
  MaxFileSize = 3
  MaxTotalSize = 3
  Warm = {c1}
  Reads = {r1}
  Removes = {x1}
  MaxClears = 0
SPECIFICATION Spec
INVARIANTS TypeOK LedgerExact SweepFrees CachedIsStored CachedIsFresh
INVARIANTS KeysAgree ContentExpires
CHECK_DEADLOCK FALSE
