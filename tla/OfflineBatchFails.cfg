\* A conflict that is submitted again fails the whole batch.
SPECIFICATION OfflineSpec
CONSTANTS
  Null = Null
  Clients = {c1}
  Catalogs = {k1}
  Spools = {s1}
  Events = {e1, e2}
  Tags = {}
  Slots = {}
  MaxGrams = 0
  Candidates = {}
  EditDeltas = {}
  MaxVersion = 3
  MaxTime = 0
  Phones = {c1}
  Requests = {r1, r2}
  EditWeights = {0, 1}
  MaxBatch = 2
  MaxEdits = 2
SYMMETRY MCSymmetry
INVARIANT BatchesAnswered
CHECK_DEADLOCK FALSE
