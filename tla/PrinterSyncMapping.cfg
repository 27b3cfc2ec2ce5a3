\* A sync writes back the mapping it read before its await.
SPECIFICATION SyncSpec
CONSTANTS
  Null = Null
  p1 = p1
  Clients = {c1}
  Catalogs = {k1}
  Spools = {s1}
  Events = {}
  Tags = {}
  Slots = {x1}
  MaxGrams = 0
  Candidates <- MCCandidates
  EditDeltas = {}
  MaxVersion = 4
  MaxTime = 0
  Printers = {p1}
  PrinterOf <- MCPrinterOf
  Syncs = {r1}
SYMMETRY MCSymmetry
PROPERTY UserMappingWins
CHECK_DEADLOCK FALSE
