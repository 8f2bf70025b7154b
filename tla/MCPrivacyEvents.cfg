SPECIFICATION Spec
CONSTANTS
  Values <- MCValue
  Convs = {c1}
  MaxSalts = 1
  Speech = {"text", "token", "split"}
  MaxItems = 1
  MaxChunk = 4
  MaxMinted = 1
INVARIANTS
  NoTokenLeaks
CHECK_DEADLOCK FALSE
