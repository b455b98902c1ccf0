\* One key in two scopes; two lines fill the buffer.
CONSTANTS
  k1 = k1  k2 = k2  global = global  other = other  name = name
  Missing = Missing  Header = Header  Footer = Footer
  Keys = {k1, k2}
  Values = {1, 2}
  Scopes = {global, other}
  Names = {name}
  NameOf <- OneName
  ScopeOf <- TwoScopes
  Mortal = {k1}
  Capacity = 2
  Block = 1
  Uses <- LocalAndS3
SPECIFICATION FairSpec
INVARIANTS TypeOK FlagsMatch
PROPERTIES CopySpec BackupSettles RestoreSettles
CHECK_DEADLOCK FALSE
