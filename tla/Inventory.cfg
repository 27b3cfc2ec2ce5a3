\* Two spools with their tags and usage events under every request, and one of them
\* with a backup that takes it back to what it was.
SPECIFICATION RestoreSpec
CONSTANTS
  Null = Null
  Clients = {c1}
  Catalogs = {k1}
  Spools = {s1, s2}
  Events = {e1, e2}
  Tags = {t1, t2}
  Slots = {}
  MaxGrams = 1
  Candidates <- MCOneGram
  EditDeltas = {1}
  MaxVersion = 3
  MaxTime = 1
  MaxBackups = 1
SYMMETRY MCSymmetry
INVARIANTS
  RestoreTypeOK
  NoLostUpdateSinceRestore
  LedgerBalanced
  RemainingNonNegative
  ActiveTagsAgree
PROPERTIES
  History
  OnlyEditsExceedInitial
  ImplementsLedger
CONSTRAINT MCBound
CHECK_DEADLOCK FALSE
