SPECIFICATION FairSpec
CONSTANTS
  NoImport = NoImport
  i1 = i1
  i2 = i2
  i3 = i3
  Imports = {i1, i2, i3}
  KindOf <- OneOfEach
  Chunks <- Sheets
  Invalid = {i3}
  Deletable = {}
  Faults = {"crash"}
  MaxFaults = 2
CHECK_DEADLOCK FALSE
PROPERTIES
  ImportEnds
  OwnerIsTold
