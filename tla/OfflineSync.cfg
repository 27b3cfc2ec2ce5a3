\* One phone with three edits against batches of two, two requests under way, and
\* the writes of another client.  Weights may have a sign, which no schema of the
\* batch refuses, and the queue's file may not be written or read.
SPECIFICATION OfflineSpec
CONSTANTS
  Null = Null
  Clients = {c1}
  Catalogs = {k1}
  Spools = {s1}
  Events = {e1, e2}
  Tags = {}
  Slots = {}
  MaxGrams = 1
  Candidates = {}
  EditDeltas = {}
  MaxVersion = 3
  MaxTime = 0
  Phones = {c1}
  Requests = {r1, r2}
  EditWeights <- MCWeights
  MaxBatch = 2
  MaxEdits = 3
SYMMETRY MCSymmetry
INVARIANTS
  OfflineTypeOK
  AtMostOnce
  PhoneTellsTruth
  ConflictsAreQueued
  NegativeWeightWasQueued
PROPERTY ImplementsEdits
CONSTRAINTS
  MCBound
  MCFiles
CHECK_DEADLOCK FALSE
