SPECIFICATION BoardSpec
CONSTANTS
  WORD = 2
  SECTOR = 4
  FW_START = 8
  FLASH_END = 16
  Bits = {b}
  MaxBytes = 7
  BASE = 16
  REPEATS = 3
  ErrorCodes = {0, 1, 2, 15, 16, 17, 33, 256, 4096}
INVARIANTS TypeOK WordsProgrammedOnce ReasonIsReadable
