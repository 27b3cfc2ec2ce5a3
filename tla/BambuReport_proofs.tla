-------------------------- MODULE BambuReport_proofs --------------------------
(***************************************************************************)
(* Theorems about BambuReport, for every value of its constants.           *)
(***************************************************************************)
EXTENDS BambuReport, TLAPS

-----------------------------------------------------------------------------
(***************************************************************************)
(* The number of a tray: unit * SlotsPerUnit + slot                        *)
(***************************************************************************)
Units == 0..(NumUnits - 1)
UnitSlots == 0..(SlotsPerUnit - 1)

\* A tray is named by its unit and its slot.
LEMMA UnitAndSlot ==
  ASSUME NEW t \in Trays
  PROVE  /\ t \in Nat
         /\ t \div SlotsPerUnit \in Units
         /\ t % SlotsPerUnit \in UnitSlots
         /\ t = (t \div SlotsPerUnit) * SlotsPerUnit + (t % SlotsPerUnit)
<1> DEFINE u == t \div SlotsPerUnit
           s == t % SlotsPerUnit
<1>1. /\ NumUnits \in Nat /\ SlotsPerUnit \in Nat \ {0}
      /\ t \in Nat /\ t < NumUnits * SlotsPerUnit
  BY TrayAssumption DEF Trays
<1>2. u \in Nat /\ s \in UnitSlots /\ t = u * SlotsPerUnit + s
  BY <1>1 DEF UnitSlots
<1>3. ASSUME u >= NumUnits PROVE FALSE
  <2>1. u * SlotsPerUnit >= NumUnits * SlotsPerUnit
    BY <1>1, <1>2, <1>3
  <2> QED
    BY <2>1, <1>1, <1>2 DEF UnitSlots
<1> QED
  BY <1>1, <1>2, <1>3 DEF Units

\* A unit and a slot name a tray, and that tray names them.
LEMMA NumberOf ==
  ASSUME NEW u \in Units, NEW s \in UnitSlots
  PROVE  /\ u * SlotsPerUnit + s \in Trays
         /\ (u * SlotsPerUnit + s) \div SlotsPerUnit = u
         /\ (u * SlotsPerUnit + s) % SlotsPerUnit = s
<1>1. NumUnits \in Nat /\ SlotsPerUnit \in Nat \ {0}
  BY TrayAssumption
<1>2. u \in Nat /\ s \in Nat /\ u + 1 <= NumUnits /\ s + 1 <= SlotsPerUnit
  BY <1>1 DEF Units, UnitSlots
<1>3. (u + 1) * SlotsPerUnit <= NumUnits * SlotsPerUnit
  BY <1>1, <1>2
<1>4. u * SlotsPerUnit + s \in Trays
  BY <1>1, <1>2, <1>3 DEF Trays
<1> QED
  BY <1>1, <1>2, <1>4
-----------------------------------------------------------------------------
(***************************************************************************)
(* What a report tells of the units                                        *)
(***************************************************************************)
UnitAt(units, i) == Position(units[i].id, i)
SlotAt(unit, j) == Position(unit.tray[j].id, j)
NumberAt(units, i, j) == UnitAt(units, i) * SlotsPerUnit + SlotAt(units[i], j)

Filled == [Places -> Materials \cup {Empty}]

\* An array tells the trays of a layout, in their places or by their names, and
\* nothing of them that is not among some facts.
TellsAs(units, array, facts) ==
  /\ array \in Layouts
  /\ DOMAIN units = DOMAIN array
  /\ \A i \in DOMAIN array :
       /\ DOMAIN units[i].tray = DOMAIN array[i].trays
       /\ UnitAt(units, i) = IF array[i].named THEN array[i].unit ELSE i - 1
       /\ \A j \in DOMAIN array[i].trays :
            /\ SlotAt(units[i], j) =
                 IF array[i].trays[j].named THEN array[i].trays[j].slot ELSE j - 1
            /\ units[i].tray[j].material # Null =>
                 Fact(OwnNumber(array, i, j), units[i].tray[j].material, FALSE) \in facts

\* A layout names units and slots of the printer.
LEMMA LayoutTypes ==
  ASSUME NEW array \in Layouts
  PROVE  /\ array \in Seq(UnitLayout) /\ Len(array) \in Nat /\ Len(array) <= NumUnits
         /\ DOMAIN array = 1..Len(array)
         /\ \A i \in DOMAIN array :
              /\ array[i].unit \in Units /\ array[i].named \in BOOLEAN
              /\ i - 1 \in Units
              /\ array[i].trays \in Seq(TrayLayout)
              /\ Len(array[i].trays) \in Nat
              /\ DOMAIN array[i].trays = 1..Len(array[i].trays)
              /\ \A j \in DOMAIN array[i].trays :
                   /\ array[i].trays[j].slot \in UnitSlots
                   /\ array[i].trays[j].named \in BOOLEAN
                   /\ j - 1 \in UnitSlots
<1>1. NumUnits \in Nat /\ SlotsPerUnit \in Nat \ {0}
  BY TrayAssumption
<1>2. /\ array \in Seq(UnitLayout) /\ Len(array) <= NumUnits
      /\ \A i \in DOMAIN array : Len(array[i].trays) <= SlotsPerUnit
  BY LayoutAssumption
<1>3. Len(array) \in Nat /\ DOMAIN array = 1..Len(array)
  BY <1>2
<1>4. ASSUME NEW i \in DOMAIN array
      PROVE  /\ array[i].unit \in Units /\ array[i].named \in BOOLEAN
             /\ i - 1 \in Units
             /\ array[i].trays \in Seq(TrayLayout)
             /\ Len(array[i].trays) \in Nat
             /\ DOMAIN array[i].trays = 1..Len(array[i].trays)
  <2>1. array[i] \in UnitLayout
    BY <1>2, <1>3
  <2>2. i - 1 \in Units
    BY <1>1, <1>2, <1>3 DEF Units
  <2>3. array[i].trays \in Seq(TrayLayout)
    BY <2>1 DEF UnitLayout
  <2> QED
    BY <2>1, <2>2, <2>3 DEF UnitLayout, Units
<1>5. ASSUME NEW i \in DOMAIN array, NEW j \in DOMAIN array[i].trays
      PROVE  /\ array[i].trays[j].slot \in UnitSlots
             /\ array[i].trays[j].named \in BOOLEAN
             /\ j - 1 \in UnitSlots
  <2>1. array[i].trays[j] \in TrayLayout
    BY <1>4
  <2>2. j - 1 \in UnitSlots
    BY <1>1, <1>2, <1>4 DEF UnitSlots
  <2> QED
    BY <2>1, <2>2 DEF TrayLayout, UnitSlots
<1> QED
  BY <1>2, <1>3, <1>4, <1>5

\* The number under which a tray is read, and the one it has, are of the printer.
LEMMA ReadNumbers ==
  ASSUME NEW units, NEW facts, NEW array, TellsAs(units, array, facts),
         NEW i \in DOMAIN units, NEW j \in DOMAIN units[i].tray
  PROVE  /\ i \in DOMAIN array /\ j \in DOMAIN array[i].trays
         /\ UnitAt(units, i) \in Units /\ SlotAt(units[i], j) \in UnitSlots
         /\ NumberAt(units, i, j) = ReadAs(array, i, j)
         /\ NumberAt(units, i, j) \in Trays
         /\ OwnNumber(array, i, j) \in Trays
<1>1. i \in DOMAIN array /\ j \in DOMAIN array[i].trays /\ array \in Layouts
  BY DEF TellsAs
<1>2. /\ array[i].unit \in Units /\ i - 1 \in Units
      /\ array[i].trays[j].slot \in UnitSlots /\ j - 1 \in UnitSlots
  BY <1>1, LayoutTypes
<1>3. /\ UnitAt(units, i) = IF array[i].named THEN array[i].unit ELSE i - 1
      /\ SlotAt(units[i], j) = IF array[i].trays[j].named THEN array[i].trays[j].slot ELSE j - 1
  BY <1>1 DEF TellsAs
<1>4. UnitAt(units, i) \in Units /\ SlotAt(units[i], j) \in UnitSlots
  BY <1>2, <1>3
<1>5. NumberAt(units, i, j) = ReadAs(array, i, j)
  BY <1>3 DEF NumberAt, ReadAs, Number
<1>6. NumberAt(units, i, j) \in Trays
  BY <1>4, NumberOf DEF NumberAt
<1>7. OwnNumber(array, i, j) \in Trays
  BY <1>2, NumberOf DEF OwnNumber, Number
<1> QED
  BY <1>1, <1>4, <1>5, <1>6, <1>7

\* Two trays of a layout have two numbers.
LEMMA OwnNumbersDiffer ==
  ASSUME NEW array \in Layouts,
         NEW i \in DOMAIN array, NEW j \in DOMAIN array[i].trays,
         NEW k \in DOMAIN array, NEW l \in DOMAIN array[k].trays,
         OwnNumber(array, i, j) = OwnNumber(array, k, l)
  PROVE  i = k /\ j = l
<1>1. /\ array[i].unit \in Units /\ array[i].trays[j].slot \in UnitSlots
      /\ array[k].unit \in Units /\ array[k].trays[l].slot \in UnitSlots
  BY LayoutTypes
<1>2. array[i].unit = array[k].unit /\ array[i].trays[j].slot = array[k].trays[l].slot
  BY <1>1, NumberOf DEF OwnNumber, Number
<1>3. i = k
  BY <1>2, LayoutAssumption
<1>4. array[i].trays[j].slot = array[i].trays[l].slot /\ l \in DOMAIN array[i].trays
  BY <1>2, <1>3
<1>5. j = l
  BY <1>4, LayoutAssumption
<1> QED
  BY <1>3, <1>5

\* What the printer tells of its trays is a report, and true.
LEMMA ToldTruly ==
  ASSUME filled \in Filled, NEW array \in Layouts, array # Null
  PROVE  /\ Tell(array) \in Seq(UnitRow)
         /\ TellsAs(Tell(array), array, Facts(filled, feeding))
<1> DEFINE units == Tell(array)
           id(i) == IF array[i].named THEN array[i].unit ELSE Null
           trays(i) == [j \in DOMAIN array[i].trays |->
                          TellTray(array[i].unit, array[i].trays[j])]
<1>1. Null \notin Nat
  BY TrayAssumption
<1>2. /\ Len(array) \in Nat /\ DOMAIN array = 1..Len(array)
      /\ units = [i \in DOMAIN array |-> [id |-> id(i), tray |-> trays(i)]]
  BY LayoutTypes DEF Tell
<1>3. ASSUME NEW i \in DOMAIN array, NEW j \in DOMAIN array[i].trays
      PROVE  LET told == TellTray(array[i].unit, array[i].trays[j]) IN
             /\ told \in TrayRow
             /\ Position(told.id, j) =
                  IF array[i].trays[j].named THEN array[i].trays[j].slot ELSE j - 1
             /\ told.material # Null =>
                  Fact(OwnNumber(array, i, j), told.material, FALSE) \in Facts(filled, feeding)
  <2> DEFINE told == TellTray(array[i].unit, array[i].trays[j])
             own == OwnNumber(array, i, j)
  <2>1. array[i].unit \in Units /\ array[i].trays[j].slot \in UnitSlots
    BY LayoutTypes
  <2>2. array[i].trays[j].slot \in Nat
    BY <2>1, TrayAssumption DEF UnitSlots
  <2>3. own \in Places
    BY <2>1, NumberOf DEF OwnNumber, Number, Places
  <2>4. filled[own] \in Materials \cup {Empty}
    BY <2>3 DEF Filled
  <2>5. /\ told = [id |-> told.id, material |-> told.material]
        /\ told.id = IF array[i].trays[j].named THEN array[i].trays[j].slot ELSE Null
        /\ told.material = IF array[i].trays[j].told THEN filled[own] ELSE Null
    BY DEF TellTray, OwnNumber
  <2> HIDE DEF told, own
  <2>6. told \in TrayRow
    BY <2>2, <2>4, <2>5 DEF TrayRow
  <2>7. Position(told.id, j) = IF array[i].trays[j].named THEN array[i].trays[j].slot ELSE j - 1
    BY <1>1, <2>2, <2>5 DEF Position, Or
  <2>8. told.material # Null => Fact(own, told.material, FALSE) \in Facts(filled, feeding)
    BY <2>3, <2>5 DEF Facts
  <2> QED
    BY <2>6, <2>7, <2>8 DEF told, own
<1>4. ASSUME NEW i \in DOMAIN array
      PROVE  /\ [id |-> id(i), tray |-> trays(i)] \in UnitRow
             /\ Position(id(i), i) = IF array[i].named THEN array[i].unit ELSE i - 1
  <2>1. array[i].unit \in Nat
    BY LayoutTypes, TrayAssumption DEF Units
  <2>2. id(i) \in Nat \cup {Null}
    BY <2>1
  <2>3. trays(i) \in Seq(TrayRow)
    <3>1. Len(array[i].trays) \in Nat /\ DOMAIN array[i].trays = 1..Len(array[i].trays)
      BY LayoutTypes
    <3>2. trays(i) \in [1..Len(array[i].trays) -> TrayRow]
      BY <1>3, <3>1
    <3> QED
      BY <3>1, <3>2
  <2>4. Position(id(i), i) = IF array[i].named THEN array[i].unit ELSE i - 1
    BY <1>1, <2>1 DEF Position, Or
  <2> HIDE DEF id, trays
  <2> QED
    BY <2>2, <2>3, <2>4 DEF UnitRow
<1>5. units \in Seq(UnitRow)
  <2>1. units \in [1..Len(array) -> UnitRow]
    BY <1>2, <1>4
  <2> QED
    BY <1>2, <2>1
<1>6. DOMAIN units = DOMAIN array
  BY <1>2
<1>7. ASSUME NEW i \in DOMAIN array
      PROVE  units[i].id = id(i) /\ units[i].tray = trays(i)
  BY <1>2
<1>8. TellsAs(units, array, Facts(filled, feeding))
  <2>1. ASSUME NEW i \in DOMAIN array
        PROVE  /\ DOMAIN units[i].tray = DOMAIN array[i].trays
               /\ UnitAt(units, i) = IF array[i].named THEN array[i].unit ELSE i - 1
    BY <1>4, <1>7 DEF UnitAt
  <2>2. ASSUME NEW i \in DOMAIN array, NEW j \in DOMAIN array[i].trays
        PROVE  /\ SlotAt(units[i], j) =
                    IF array[i].trays[j].named THEN array[i].trays[j].slot ELSE j - 1
               /\ units[i].tray[j].material # Null =>
                    Fact(OwnNumber(array, i, j), units[i].tray[j].material, FALSE)
                      \in Facts(filled, feeding)
    <3>1. units[i].tray[j] = TellTray(array[i].unit, array[i].trays[j])
      BY <1>7
    <3> QED
      BY <1>3, <3>1 DEF SlotAt
  <2> HIDE DEF units
  <2> QED
    BY <1>6, <2>1, <2>2 DEF TellsAs
<1> QED
  BY <1>5, <1>8
-----------------------------------------------------------------------------
(***************************************************************************)
(* The invariant: the merged report tells what its layout says, and only   *)
(* what was true, and the slots are those it shows.                        *)
(***************************************************************************)
Typed ==
  /\ filled \in Filled
  /\ feeding \in Places \cup {NoTray}
  /\ snapshot \in ReportRow

\* A merged report tells facts only, and its array those of a layout.
TrueReport(report, array, facts) ==
  /\ report.tray_now # Null => Fact(report.tray_now, Null, TRUE) \in facts
  /\ report.ams # Null => array # Null /\ TellsAs(report.ams, array, facts)
  /\ report.vt_tray # Null /\ report.vt_tray.material # Null =>
       Fact(External, report.vt_tray.material, FALSE) \in facts

ReportInv ==
  /\ Typed
  /\ Facts(filled, feeding) \subseteq truth
  /\ TrueReport(snapshot, layout, truth)
  /\ observed = ObservedSlots(snapshot)

\* What was true stays in the history, and so does what a report tells of it.
LEMMA StaysTrue ==
  ASSUME NEW report, NEW array, NEW facts, NEW more, facts \subseteq more,
         TrueReport(report, array, facts)
  PROVE  TrueReport(report, array, more)
BY DEF TrueReport, TellsAs

LEMMA ReportInit == Init => ReportInv
<1> SUFFICES ASSUME Init PROVE ReportInv
  OBVIOUS
<1>1. Typed
  BY DEF Init, Typed, Filled, ReportRow, NoReport
<1>2. TrueReport(snapshot, layout, truth)
  BY DEF Init, TrueReport, NoReport
<1>3. ObservedSlots(NoReport) = {}
  BY DEF ObservedSlots, AmsSlots, ExternalSlots, NoReport, Or
<1> QED
  BY <1>1, <1>2, <1>3 DEF Init, ReportInv

LEMMA ChangeStep ==
  ASSUME ReportInv, NEW trays \in Filled, NEW now \in Places \cup {NoTray},
         Change(trays, now)
  PROVE  ReportInv'
<1>1. TrueReport(snapshot, layout, truth')
  <2>1. truth \subseteq truth'
    BY DEF Change
  <2> QED
    BY <2>1, StaysTrue DEF ReportInv
<1> QED
  BY <1>1 DEF ReportInv, Change, Typed, Facts

\* What is merged is true if both parts are; its array is the later one.
LEMMA MergedTrue ==
  ASSUME NEW base \in ReportRow, NEW patch \in ReportRow, NEW facts, NEW old, NEW new,
         TrueReport(base, old, facts), TrueReport(patch, new, facts)
  PROVE  /\ Merge(base, patch) \in ReportRow
         /\ TrueReport(Merge(base, patch), IF patch.ams = Null THEN old ELSE new, facts)
<1> DEFINE merged == Merge(base, patch)
           array == IF patch.ams = Null THEN old ELSE new
<1>1. /\ merged.tray_now = Or(patch.tray_now, base.tray_now)
      /\ merged.ams = Or(patch.ams, base.ams)
      /\ merged.vt_tray = MergeTray(base.vt_tray, patch.vt_tray)
  BY DEF Merge
<1>2. merged.tray_now \in Nat \cup {Null} /\ merged.ams \in Seq(UnitRow) \cup {Null}
  BY <1>1 DEF ReportRow, Or
<1>3. merged.vt_tray \in TrayRow \cup {Null}
  BY <1>1 DEF ReportRow, Or, MergeTray, TrayRow
<1>4. merged \in ReportRow
  BY <1>1, <1>2, <1>3 DEF Merge, ReportRow
<1>5. merged.tray_now # Null => Fact(merged.tray_now, Null, TRUE) \in facts
  BY <1>1 DEF TrueReport, Or
<1>6. merged.ams # Null => array # Null /\ TellsAs(merged.ams, array, facts)
  BY <1>1 DEF TrueReport, Or
<1>7. merged.vt_tray # Null /\ merged.vt_tray.material # Null =>
        Fact(External, merged.vt_tray.material, FALSE) \in facts
  <2>1. CASE base.vt_tray = Null \/ patch.vt_tray = Null
    BY <2>1, <1>1 DEF MergeTray, TrueReport, Or
  <2>2. CASE base.vt_tray # Null /\ patch.vt_tray # Null
    <3>1. merged.vt_tray.material = Or(patch.vt_tray.material, base.vt_tray.material)
      BY <2>2, <1>1 DEF MergeTray
    <3> QED
      BY <2>2, <3>1 DEF TrueReport, Or
  <2> QED
    BY <2>1, <2>2
<1> HIDE DEF merged, array
<1>8. TrueReport(merged, array, facts)
  BY <1>5, <1>6, <1>7 DEF TrueReport
<1> QED
  BY <1>4, <1>8 DEF merged, array

LEMMA ReceiveStep ==
  ASSUME ReportInv, NEW array \in Layouts \cup {Null}, NEW now \in BOOLEAN,
         NEW external \in ToldExternal, Receive(array, now, external)
  PROVE  ReportInv'
<1> DEFINE patch == [tray_now |-> IF now THEN feeding ELSE Null,
                     ams |-> Tell(array),
                     vt_tray |-> external]
<1>1. Null \notin Nat /\ External \in Nat /\ NoTray \in Nat /\ \A t \in Trays : t \in Nat
  BY TrayAssumption, UnitAndSlot
<1>2. Typed /\ Facts(filled, feeding) \subseteq truth
  BY DEF ReportInv
<1>3. feeding \in Nat /\ Fact(feeding, Null, TRUE) \in truth
  BY <1>1, <1>2 DEF Typed, Places, Facts
<1>4. filled[External] \in Materials \cup {Empty} /\ Fact(External, filled[External], FALSE) \in truth
  BY <1>2 DEF Typed, Filled, Places, Facts
<1>5. Tell(array) # Null =>
        /\ Tell(array) \in Seq(UnitRow)
        /\ array # Null
        /\ TellsAs(Tell(array), array, truth)
  <2>1. array = Null => Tell(array) = Null
    BY DEF Tell
  <2>2. ASSUME array # Null
        PROVE  /\ Tell(array) \in Seq(UnitRow)
               /\ TellsAs(Tell(array), array, Facts(filled, feeding))
    BY <2>2, <1>2, ToldTruly DEF Typed
  <2>3. array # Null => TellsAs(Tell(array), array, truth)
    BY <2>2, <1>2 DEF TellsAs
  <2> QED
    BY <2>1, <2>2, <2>3
<1>6. external = Null \/ external \in TrayRow
  BY <1>1, <1>4 DEF ToldExternal, TrayRow
<1>7. external # Null /\ external.material # Null =>
        Fact(External, external.material, FALSE) \in truth
  BY <1>4 DEF ToldExternal
<1>8. patch \in ReportRow
  BY <1>3, <1>5, <1>6 DEF ReportRow
<1>9. TrueReport(patch, array, truth)
  BY <1>3, <1>5, <1>7 DEF TrueReport
<1>10. /\ snapshot' = Merge(snapshot, patch) /\ observed' = ObservedSlots(Merge(snapshot, patch))
       /\ layout' = IF patch.ams = Null THEN layout ELSE array
  BY DEF Receive
<1>11. UNCHANGED <<filled, feeding, truth>>
  BY DEF Receive
<1> HIDE DEF patch
<1>12. Merge(snapshot, patch) \in ReportRow /\ TrueReport(Merge(snapshot, patch), layout', truth)
  BY <1>2, <1>8, <1>9, <1>10, MergedTrue DEF ReportInv, Typed
<1> QED
  BY <1>2, <1>10, <1>11, <1>12 DEF ReportInv, Typed, Facts

LEMMA StartReadStep ==
  ASSUME ReportInv, StartRead
  PROVE  ReportInv'
<1>1. NoReport \in ReportRow /\ ObservedSlots(NoReport) = {}
  BY DEF ReportRow, NoReport, ObservedSlots, AmsSlots, ExternalSlots, Or
<1>2. TrueReport(NoReport, layout', truth')
  BY DEF TrueReport, NoReport
<1> QED
  BY <1>1, <1>2 DEF ReportInv, StartRead, Typed, Facts

LEMMA ReportStep == ReportInv /\ [Next]_vars => ReportInv'
<1> SUFFICES ASSUME ReportInv, [Next]_vars PROVE ReportInv'
  OBVIOUS
<1>1. ASSUME NEW p \in Places, NEW m \in Materials \cup {Empty},
             Change([filled EXCEPT ![p] = m], feeding)
      PROVE  ReportInv'
  <2>1. [filled EXCEPT ![p] = m] \in Filled /\ feeding \in Places \cup {NoTray}
    BY DEF ReportInv, Typed, Filled
  <2> QED
    BY <1>1, <2>1, ChangeStep
<1>2. ASSUME NEW p \in Places \cup {NoTray}, Change(filled, p)
      PROVE  ReportInv'
  BY <1>2, ChangeStep DEF ReportInv, Typed
<1>3. ASSUME NEW array \in Layouts \cup {Null}, NEW now \in BOOLEAN,
             NEW external \in ToldExternal, Receive(array, now, external)
      PROVE  ReportInv'
  BY <1>3, ReceiveStep
<1>4. CASE StartRead
  BY <1>4, StartReadStep
<1>5. CASE UNCHANGED vars
  BY <1>5 DEF vars, ReportInv, Typed, Facts
<1> QED
  BY <1>1, <1>2, <1>3, <1>4, <1>5 DEF Next

\* Every reachable merged report tells what its layout says, and is true.
LEMMA ReportInvariance == Spec => []ReportInv
<1>1. Init => ReportInv
  BY ReportInit
<1>2. ReportInv /\ [Next]_vars => ReportInv'
  BY ReportStep
<1> QED
  BY <1>1, <1>2, PTL DEF Spec
-----------------------------------------------------------------------------
(***************************************************************************)
(* What the slots of a true report show                                    *)
(***************************************************************************)
AmsSlotAt(report, i, j) ==
  Slot("ams", UnitAt(report.ams, i), SlotAt(report.ams[i], j),
       report.tray_now = NumberAt(report.ams, i, j), report.ams[i].tray[j].material)

ExternalSlot(report) ==
  Slot("external", 0, 0, report.tray_now = External, report.vt_tray.material)

\* A slot comes from a tray of the array or from the external one.
LEMMA SlotOrigin ==
  ASSUME NEW report \in ReportRow, NEW x \in ObservedSlots(report)
  PROVE  \/ /\ report.ams # Null
            /\ \E i \in DOMAIN report.ams : \E j \in DOMAIN report.ams[i].tray :
                 x = AmsSlotAt(report, i, j)
         \/ report.vt_tray # Null /\ x = ExternalSlot(report)
<1>1. CASE x \in AmsSlots(report)
  <2>1. report.ams # Null
    BY <1>1 DEF AmsSlots, Or
  <2>2. Or(report.ams, <<>>) = report.ams
    BY <2>1 DEF Or
  <2>3. \E i \in DOMAIN report.ams : \E j \in DOMAIN report.ams[i].tray :
          x = AmsSlotAt(report, i, j)
    BY <1>1, <2>2 DEF AmsSlots, AmsSlotAt, UnitAt, SlotAt, NumberAt
  <2> QED
    BY <2>1, <2>3
<1>2. CASE x \in ExternalSlots(report)
  BY <1>2 DEF ExternalSlots, ExternalSlot
<1> QED
  BY <1>1, <1>2 DEF ObservedSlots

\* A slot shows the material of its tray, and feeding if tray_now names it.
Shows(x, fed, material) ==
  /\ x.state \in {"feeding", "loaded", "empty"}
  /\ x.state = "feeding" <=> fed
  /\ x.material \in Materials \cup {Null}
  /\ x.material # Null => x.material = material

LEMMA SlotFields ==
  ASSUME NEW type, NEW u, NEW s, NEW fed \in BOOLEAN, NEW material
  PROVE  /\ Slot(type, u, s, fed, material).unit_type = type
         /\ Slot(type, u, s, fed, material).unit_index = u
         /\ Slot(type, u, s, fed, material).slot_index = s
         /\ Shows(Slot(type, u, s, fed, material), fed, material)
  BY Zenon DEF Slot, SlotState, Shows

\* A material shown in a place was true there, or of another tray that is read as
\* that place.
TrueOrMisread(array, place, material, facts) ==
  \E p \in Places : /\ Fact(p, material, FALSE) \in facts
                    /\ \/ p = place
                       \/ /\ array # Null
                          /\ \E i \in DOMAIN array : \E j \in DOMAIN array[i].trays :
                               /\ ReadAs(array, i, j) = place
                               /\ OwnNumber(array, i, j) # place

\* A slot of the array has the number its tray is read under, and its material.
LEMMA AmsSlotShows ==
  ASSUME NEW report \in ReportRow, NEW array, NEW facts, TrueReport(report, array, facts),
         report.ams # Null, NEW i \in DOMAIN report.ams, NEW j \in DOMAIN report.ams[i].tray
  PROVE  LET x == AmsSlotAt(report, i, j) IN
         /\ x.unit_type = "ams"
         /\ x.state \in {"feeding", "loaded", "empty"}
         /\ x.material \in Materials \cup {Null}
         /\ x.unit_index = UnitAt(report.ams, i) /\ x.unit_index \in Units
         /\ x.slot_index = SlotAt(report.ams[i], j) /\ x.slot_index \in UnitSlots
         /\ PlaceOf(x) = NumberAt(report.ams, i, j) /\ PlaceOf(x) \in Trays
         /\ x.state = "feeding" => report.tray_now = PlaceOf(x)
         /\ x.material # Null => TrueOrMisread(array, PlaceOf(x), x.material, facts)
<1> DEFINE x == AmsSlotAt(report, i, j)
           fed == report.tray_now = NumberAt(report.ams, i, j)
<1>1. /\ x.unit_type = "ams" /\ x.unit_index = UnitAt(report.ams, i)
      /\ x.slot_index = SlotAt(report.ams[i], j)
      /\ Shows(x, fed, report.ams[i].tray[j].material)
  <2>1. fed \in BOOLEAN
    OBVIOUS
  <2>2. x = Slot("ams", UnitAt(report.ams, i), SlotAt(report.ams[i], j), fed,
                 report.ams[i].tray[j].material)
    BY DEF AmsSlotAt
  <2> HIDE DEF x, fed
  <2> QED
    BY <2>1, <2>2, SlotFields
<1>2. TellsAs(report.ams, array, facts) /\ array # Null
  BY DEF TrueReport
<1>3. /\ i \in DOMAIN array /\ j \in DOMAIN array[i].trays
      /\ UnitAt(report.ams, i) \in Units /\ SlotAt(report.ams[i], j) \in UnitSlots
      /\ NumberAt(report.ams, i, j) = ReadAs(array, i, j)
      /\ NumberAt(report.ams, i, j) \in Trays
      /\ OwnNumber(array, i, j) \in Places
  BY <1>2, ReadNumbers DEF Places
<1>4. report.ams[i].tray[j].material # Null =>
        Fact(OwnNumber(array, i, j), report.ams[i].tray[j].material, FALSE) \in facts
  BY <1>2, <1>3 DEF TellsAs
<1>5. report.ams[i].tray[j].material # Null =>
        TrueOrMisread(array, NumberAt(report.ams, i, j), report.ams[i].tray[j].material, facts)
  BY <1>2, <1>3, <1>4 DEF TrueOrMisread
<1> HIDE DEF x
<1>6. PlaceOf(x) = NumberAt(report.ams, i, j)
  BY <1>1 DEF PlaceOf, NumberAt
<1> QED
  BY <1>1, <1>3, <1>5, <1>6 DEF x, Shows

LEMMA ExternalSlotShows ==
  ASSUME NEW report \in ReportRow, NEW array, NEW facts, TrueReport(report, array, facts),
         report.vt_tray # Null
  PROVE  LET x == ExternalSlot(report) IN
         /\ x.state \in {"feeding", "loaded", "empty"}
         /\ x.material \in Materials \cup {Null}
         /\ x.slot_index = 0
         /\ PlaceOf(x) = External
         /\ x.state = "feeding" => report.tray_now = PlaceOf(x)
         /\ x.material # Null => TrueOrMisread(array, PlaceOf(x), x.material, facts)
<1> DEFINE x == ExternalSlot(report)
           fed == report.tray_now = External
<1>1. /\ x.unit_type = "external" /\ x.slot_index = 0
      /\ Shows(x, fed, report.vt_tray.material)
  <2>1. fed \in BOOLEAN
    OBVIOUS
  <2>2. x = Slot("external", 0, 0, fed, report.vt_tray.material)
    BY DEF ExternalSlot
  <2> HIDE DEF x, fed
  <2> QED
    BY <2>1, <2>2, SlotFields
<1>2. report.vt_tray.material # Null =>
        TrueOrMisread(array, External, report.vt_tray.material, facts)
  BY DEF TrueReport, TrueOrMisread, Places
<1> HIDE DEF x
<1>3. PlaceOf(x) = External
  BY <1>1 DEF PlaceOf
<1> QED
  BY <1>1, <1>2, <1>3 DEF x, Shows

\* A true report shows a place that exists, and there what is true or misread.
ShowsTruly(x, report, array, facts) ==
  /\ x.state \in {"feeding", "loaded", "empty"}
  /\ x.material \in Materials \cup {Null}
  /\ x.slot_index \in UnitSlots
  /\ PlaceOf(x) \in Places
  /\ x.state = "feeding" => report.tray_now = PlaceOf(x)
  /\ x.material # Null => TrueOrMisread(array, PlaceOf(x), x.material, facts)

LEMMA SlotShows ==
  ASSUME NEW report \in ReportRow, NEW array, NEW facts, TrueReport(report, array, facts),
         NEW x \in ObservedSlots(report)
  PROVE  ShowsTruly(x, report, array, facts)
<1>1. ASSUME report.ams # Null, NEW i \in DOMAIN report.ams,
             NEW j \in DOMAIN report.ams[i].tray, x = AmsSlotAt(report, i, j)
      PROVE  ShowsTruly(x, report, array, facts)
  BY <1>1, AmsSlotShows DEF Places, ShowsTruly
<1>2. ASSUME report.vt_tray # Null, x = ExternalSlot(report)
      PROVE  ShowsTruly(x, report, array, facts)
  <2>1. 0 \in UnitSlots
    BY TrayAssumption DEF UnitSlots
  <2> QED
    BY <1>2, <2>1, ExternalSlotShows DEF Places, ShowsTruly
<1> QED
  BY <1>1, <1>2, SlotOrigin

\* Another tray than its own is read as a place.
Misread(array, place) ==
  /\ array # Null
  /\ \E i \in DOMAIN array : \E j \in DOMAIN array[i].trays :
       ReadAs(array, i, j) = place /\ OwnNumber(array, i, j) # place

LEMMA MisreadIsMisplaced == \A place : Misread(layout, place) <=> place \in Misplaced
BY DEF Misread, Misplaced

\* A true report shows a place once, unless it is misread.
LEMMA PlaceShownOnce ==
  ASSUME NEW report \in ReportRow, NEW array, NEW facts, TrueReport(report, array, facts),
         NEW x \in ObservedSlots(report), NEW y \in ObservedSlots(report),
         PlaceOf(x) = PlaceOf(y), ~Misread(array, PlaceOf(x))
  PROVE  x = y
<1>1. External \notin Trays
  BY TrayAssumption
<1>2. ASSUME report.ams # Null,
             NEW i \in DOMAIN report.ams, NEW j \in DOMAIN report.ams[i].tray,
             NEW k \in DOMAIN report.ams, NEW l \in DOMAIN report.ams[k].tray,
             x = AmsSlotAt(report, i, j), y = AmsSlotAt(report, k, l)
      PROVE  x = y
  <2>1. TellsAs(report.ams, array, facts) /\ array # Null /\ array \in Layouts
    BY <1>2 DEF TrueReport, TellsAs
  <2>2. PlaceOf(x) = NumberAt(report.ams, i, j) /\ PlaceOf(x) = NumberAt(report.ams, k, l)
    <3>1. PlaceOf(AmsSlotAt(report, i, j)) = NumberAt(report.ams, i, j)
      BY <1>2, AmsSlotShows
    <3>2. PlaceOf(AmsSlotAt(report, k, l)) = NumberAt(report.ams, k, l)
      BY <1>2, AmsSlotShows
    <3> QED
      BY <1>2, <3>1, <3>2
  <2>3. /\ i \in DOMAIN array /\ j \in DOMAIN array[i].trays
        /\ k \in DOMAIN array /\ l \in DOMAIN array[k].trays
        /\ ReadAs(array, i, j) = PlaceOf(x) /\ ReadAs(array, k, l) = PlaceOf(x)
    BY <1>2, <2>1, <2>2, ReadNumbers
  <2>4. OwnNumber(array, i, j) = OwnNumber(array, k, l)
    BY <2>1, <2>3 DEF Misread
  <2>5. i = k /\ j = l
    BY <2>1, <2>3, <2>4, OwnNumbersDiffer
  <2> QED
    BY <1>2, <2>5
<1>3. ASSUME report.ams # Null, NEW i \in DOMAIN report.ams,
             NEW j \in DOMAIN report.ams[i].tray, report.vt_tray # Null
      PROVE  PlaceOf(AmsSlotAt(report, i, j)) # PlaceOf(ExternalSlot(report))
  <2>1. PlaceOf(AmsSlotAt(report, i, j)) \in Trays
    BY <1>3, AmsSlotShows
  <2>2. PlaceOf(ExternalSlot(report)) = External
    BY <1>3, ExternalSlotShows
  <2> QED
    BY <1>1, <2>1, <2>2
<1>4. CASE /\ report.vt_tray # Null /\ x = ExternalSlot(report)
  BY <1>3, <1>4, SlotOrigin
<1>5. CASE /\ report.ams # Null
           /\ \E i \in DOMAIN report.ams : \E j \in DOMAIN report.ams[i].tray :
                x = AmsSlotAt(report, i, j)
  BY <1>2, <1>3, <1>5, SlotOrigin
<1> QED
  BY <1>4, <1>5, SlotOrigin
-----------------------------------------------------------------------------
\* Printer and reports have their types, and every slot that a read returns is one
\* of the printer's (extractBambuObservedSlots).
THEOREM ReportTypes == Spec => []ReportTypeOK
<1>1. ReportInv => ReportTypeOK
  <2> SUFFICES ASSUME ReportInv PROVE ReportTypeOK
    OBVIOUS
  <2>1. ASSUME NEW x \in observed
        PROVE  /\ x.state \in {"feeding", "loaded", "empty"}
               /\ x.material \in Materials \cup {Null}
               /\ x.slot_index \in 0..(SlotsPerUnit - 1)
               /\ PlaceOf(x) \in Places
    BY SlotShows DEF ReportInv, Typed, UnitSlots, ShowsTruly
  <2> QED
    BY <2>1 DEF ReportInv, Typed, Filled, ReportTypeOK
<1> QED
  BY <1>1, ReportInvariance, PTL

\* However the reports of a read were cut, arranged and merged, what it shows was
\* true while it lasted and a place is shown once, except for the places as which an
\* array without names tells another tray (deepMergeBambuReport,
\* extractBambuObservedSlots).
THEOREM ObservedTrue == Spec => []ObservedWasTrue
<1>1. ReportInv => ObservedWasTrue
  <2> SUFFICES ASSUME ReportInv PROVE ObservedWasTrue
    OBVIOUS
  <2>1. /\ snapshot \in ReportRow /\ TrueReport(snapshot, layout, truth)
        /\ observed = ObservedSlots(snapshot)
    BY DEF ReportInv, Typed
  <2>2. ASSUME NEW x \in observed, x.material # Null
        PROVE  \E p \in Places : /\ Fact(p, x.material, FALSE) \in truth
                                 /\ p = PlaceOf(x) \/ PlaceOf(x) \in Misplaced
    <3>1. TrueOrMisread(layout, PlaceOf(x), x.material, truth)
      BY <2>1, <2>2, SlotShows DEF ShowsTruly
    <3>2. PICK p \in Places : /\ Fact(p, x.material, FALSE) \in truth
                              /\ p = PlaceOf(x) \/ Misread(layout, PlaceOf(x))
      BY <3>1 DEF TrueOrMisread, Misread
    <3> QED
      BY <3>2, MisreadIsMisplaced
  <2>3. ASSUME NEW x \in observed, x.state = "feeding"
        PROVE  snapshot.tray_now = PlaceOf(x)
    BY <2>1, <2>3, SlotShows DEF ShowsTruly
  <2>4. ASSUME NEW x \in observed, x.state = "feeding"
        PROVE  Fact(PlaceOf(x), Null, TRUE) \in truth
    <3>1. PlaceOf(x) # Null
      <4>1. PlaceOf(x) \in Nat
        BY <2>1, SlotShows, UnitAndSlot, TrayAssumption DEF Places, ShowsTruly
      <4> QED
        BY <4>1, TrayAssumption
    <3> QED
      BY <2>1, <2>3, <2>4, <3>1 DEF TrueReport
  <2>5. ASSUME NEW x \in observed, NEW y \in observed,
               PlaceOf(x) = PlaceOf(y) \/ {x.state, y.state} = {"feeding"}
        PROVE  x = y \/ PlaceOf(x) \in Misplaced
    <3>1. {x.state, y.state} = {"feeding"} => PlaceOf(x) = PlaceOf(y)
      BY <2>3
    <3> QED
      BY <2>1, <2>5, <3>1, PlaceShownOnce, MisreadIsMisplaced
  <2> QED
    BY <2>2, <2>4, <2>5 DEF ObservedWasTrue
<1> QED
  BY <1>1, ReportInvariance, PTL
===============================================================================
