SPECIFICATION TextSpec
CONSTANTS
  Requests = {r1}
  Terminals = {"done", "error"}
  Capacity = 1
  Pieces <- MCPieces
  BytesMax = 4
INVARIANT TextIsExact
CHECK_DEADLOCK FALSE
