\* Two sync-now requests of a printer that race with mappings and deletions.
SPECIFICATION SyncSpec
CONSTANTS
  Null = Null
  p1 = p1
  Clients = {c1}
  Catalogs = {k1}
  Spools = {s1}
  Events = {e1}
  Tags = {}
  Slots = {x1}
  MaxGrams = 0
  Candidates <- MCCandidates
  EditDeltas = {}
  MaxVersion = 5
  MaxTime = 0
  Printers = {p1}
  PrinterOf <- MCPrinterOf
  Syncs = {r1, r2}
SYMMETRY MCSymmetry
INVARIANTS
  PrinterTypeOK
  DeletedPrinterHasNoSlots
  NoLostMapping
PROPERTY
  OnlyReportsMapDeletedSpools
CHECK_DEADLOCK FALSE
