\* Two installations that exchange backups and stop at any moment.
SPECIFICATION Spec
CONSTANTS
  Null = Null
  Hosts = {h1, h2}
  Uids = {u1}
  Spools = {s1}
  MaxBackups = 1
SYMMETRY MCSymmetry
INVARIANTS
  TypeOK
  RestartKeepsKeys
  OwnTagsRecognised
PROPERTY
  OnlyRestoresSplitKeys
CHECK_DEADLOCK FALSE
