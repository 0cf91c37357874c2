SPECIFICATION FairSpec
CONSTANTS
  PAIRS = 4
  Addresses = {a1, a2}
  Damaged = {d1}
  Blank = Blank
  NoRequest = NoRequest
  MaxErrors = 2
INVARIANTS TypeOK WordsWrittenOnce
PROPERTIES LogIsQueue EveryPairServes
