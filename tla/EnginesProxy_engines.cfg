\* Three calls for one record kept in memory and on disk, whose file may be
\* renamed meanwhile.
CONSTANTS
  r1 = r1  r2 = r2  old = old  new = new  key = key
  c1 = c1  c2 = c2  c3 = c3
  memory = memory  disk = disk  redis = redis  s3 = s3
  NoValue = NoValue
  NoResponse = NoResponse
  Records = {r1}
  Files = {r1}
  Places = {old, new}
  Keys = {old, new}
  KeyOf <- EachItsKey
  Engines = {memory, disk}
  Memory = memory
  Calls = {c1, c2, c3}
  Renames <- Once
SPECIFICATION FairSpec
INVARIANTS TypeOK SetIsInAllEngines FailedSetLeavesNothing ReadIsFresh OwnRemoveForgets
 
CHECK_DEADLOCK FALSE
