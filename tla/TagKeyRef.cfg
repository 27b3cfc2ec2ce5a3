\* A key whose hash has no highest byte.
SPECIFICATION ScanSpec
CONSTANTS
  Null = Null
  Clients = {c1}
  Catalogs = {k1}
  Spools = {s1}
  Events = {}
  Tags = {t1, t2}
  Slots = {}
  MaxGrams = 0
  Candidates = {}
  EditDeltas = {}
  MaxVersion = 3
  MaxTime = 1
  Base = 4
  RefLength = 2
  ExclusiveOr <- MCExclusiveOr
  KeyHashes = {2}
  WrittenRef <- CompactRef
  SoughtRef <- CompactPublicKeyRef
SYMMETRY MCSymmetry
INVARIANT SignedPayloadsVerify
CONSTRAINT MCBound
CHECK_DEADLOCK FALSE
