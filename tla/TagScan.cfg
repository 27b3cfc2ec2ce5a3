\* A spool and two tags whose chips are written late, torn or not at all.
SPECIFICATION ScanSpec
CONSTANTS
  Null = Null
  Clients = {c1}
  Catalogs = {k1}
  Spools = {s1}
  Events = {}
  Tags = {t1, t2}
  Slots = {}
  MaxGrams = 0
  Candidates = {}
  EditDeltas = {}
  MaxVersion = 4
  MaxTime = 1
  Base = 4
  RefLength = 2
  ExclusiveOr <- MCExclusiveOr
  KeyHashes = {6}
  WrittenRef <- CompactRef
  SoughtRef <- CompactPublicKeyRef
SYMMETRY MCSymmetry
INVARIANTS
  ScanTypeOK
  ValidMeansCurrent
PROPERTY StaleUntilGranted
CONSTRAINT MCBound
CHECK_DEADLOCK FALSE
