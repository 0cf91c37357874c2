SPECIFICATION FairSpec
CONSTANTS
  BITS = 2
  FLASH_SIZE = 32
  PAGE = 8
  CMD_PROGRAM <- MCProgram
  CMD_ERASE <- MCErase
  BL_OPTS = 4
  OPTS = 3
  FW_START = 16
  Requests <- MCRequests
  Updates <- MCUpdates
INVARIANTS
  TypeOK
  BytesArrive
PROPERTIES
  OnlyItsPages
  ProgramsAsPromised
  LogIsQueue
  EveryWordServes
