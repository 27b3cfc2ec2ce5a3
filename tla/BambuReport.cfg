\* Two units of two trays, and an external tray, that change during a read.
SPECIFICATION Spec
CONSTANTS
  NumUnits = 2
  SlotsPerUnit = 2
  External <- MCExternal
  NoTray <- MCNoTray
  Materials = {m1}
  Empty = Empty
  Null = Null
  MaxChanges = 1
  Layouts <- MCLayouts
INVARIANTS
  ReportTypeOK
  ObservedWasTrue
