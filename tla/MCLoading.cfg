SPECIFICATION Spec
CONSTANTS
  OFFSETS = 3
  PARAGRAPH = 2
  ADDRESSES = 9
  Mapped <- MCMapped
  Values <- MCValues
  Bases = {2}
  MaxRecords = 4
  Types = {"PT_LOAD", "PT_NOTE"}
  PT_LOAD = "PT_LOAD"
  Paddrs = {2, 11}
  VECTOR = 2
  MaxFiles = 2
INVARIANTS
  TypeOK
  MemoryIsWhatTheFilesSay
CHECK_DEADLOCK FALSE
