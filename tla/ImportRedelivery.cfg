SPECIFICATION Spec
CONSTANTS
  NoImport = NoImport
  i1 = i1
  i2 = i2
  i3 = i3
  Imports = {i1, i2}
  KindOf <- OneOfEach
  Chunks <- Sheets
  Invalid = {}
  Deletable = {i2}
  Faults = {"crash", "database"}
  MaxFaults = 2
CHECK_DEADLOCK FALSE
INVARIANTS
  TypeOK
  CountsAgree
  NoChunkLost
  ChunkExactlyOnce
  FinishedIsComplete
