SPECIFICATION DeviceSpec
CONSTANTS
  BITS = 2
  FLASH_SIZE = 16
  PAGE = 8
  CMD_PROGRAM <- MCProgram
  CMD_ERASE <- MCErase
  SRAM_BASE = 16
  SRAM_SIZE = 4
  CTRL_BASE = 24
  CTRL_SIZE = 20
  SCS_BASE = 44
  SCS_SIZE = 8
  VTOR = 4
  Stored <- MCStored
INVARIANTS
  DeviceTypeOK
PROPERTIES
  FlashIsFlash
CHECK_DEADLOCK FALSE
