\* Two keys of one scope; two lines fill the buffer.
CONSTANTS
  k1 = k1  k2 = k2  global = global  other = other  name = name
  Missing = Missing  Header = Header  Footer = Footer
  Keys = {k1, k2}
  Values = {1}
  Scopes = {global}
  Names = {k1, k2}
  NameOf <- OwnName
  ScopeOf <- OneScope
  Mortal = {}
  Capacity = 2
  Block = 1
  Uses <- Local
SPECIFICATION FairSpec
PROPERTIES BackupEnds
CHECK_DEADLOCK FALSE
