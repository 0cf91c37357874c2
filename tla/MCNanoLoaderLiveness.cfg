SPECIFICATION HistoryFairSpec
CONSTANTS
  FW_START = 8
  FW_END = 56
  FW_SIZE_OFF = 4
  FW_PAGE_SZ = 8
  RADIX = 4
  BLOCK = 8
  checksum <- MCchecksum
  program_bits <- MCprogram_bits
  Torn = {1}
  TornPointers <- MCTornPointers
  Factory <- MCFactory
  Staged <- MCStaged
  MaxCrashes = 1
  MaxFaults = 1
  MaxUpdates = 1
  Images <- MCImages
  Broken = Broken
  Nothing = Nothing
  Unbootable = Unbootable
PROPERTIES SoundUpdateRuns BrokenDeviceRecovers
