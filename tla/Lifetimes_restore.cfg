\* One record, with removals of its name in another scope and of another
\* name; the clock reads 1 to 3.
CONSTANTS
  k1 = k1
  memory = memory  disk = disk
  Absent = Absent  Bad = Bad
  Flavors = {"kvs", "files"}
  Keys = {k1}
  name = name  other = other
  Names = {name, other}
  NameOf <- NameOfKey
  Engines = {memory, disk}
  Options <- SomeOptions
  Assignments <- SomeAssignments
  DefaultTTL = 1
  DefaultIdle = 1
  MaxTime = 3
SPECIFICATION Spec
INVARIANTS TypeOK JobOnTime
PROPERTIES RestoredAsSaved
CHECK_DEADLOCK FALSE
