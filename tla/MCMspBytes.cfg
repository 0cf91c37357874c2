SPECIFICATION Spec
CONSTANTS
  WORD = 2
  SECTOR = 4
  FW_START = 8
  FLASH_END = 16
  Bits = {b}
  MaxBytes = 7
INVARIANT BytesArrive
