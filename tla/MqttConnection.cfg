\* Three callers of one printer, stops and restarts, a client that reconnects.
SPECIFICATION FairSpec
CONSTANTS
  Null = Null
  Keys = {k1}
  Readers = {c1, c2, c3}
  Reads = {r1, r2}
  MaxConnects = 2
INVARIANTS
  TypeOK
  OneSession
  NoAbortedReadShared
  NoClientAfterStop
  ActiveClientsExact
PROPERTIES
  OneSafeRequest
  ReadersAnswered
