\* Two attempts at a time, three devices, a code that expires, and stops.
SPECIFICATION Spec
CONSTANTS
  Null = Null
  Users = {u1, u2}
  Devices = {d1, d2, d3}
  Tokens = {t1, t2, t3}
  Codes = {c1}
  Emails = {m1, m2}
  Attempts = {a1, a2}
  Lifetime = 1
  MaxTime = 1
SYMMETRY MCSymmetry
INVARIANTS
  TypeOK
  CodePairsOnce
PROPERTY
  TokensNotRevived
CHECK_DEADLOCK FALSE
