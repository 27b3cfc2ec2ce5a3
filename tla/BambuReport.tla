------------------------------ MODULE BambuReport ------------------------------
(***************************************************************************)
(* What one read of a Bambu printer makes of its reports: partial reports  *)
(* arrive one after the other, are merged (deepMergeBambuReport), and the  *)
(* first merged report that shows a slot ends the read                     *)
(* (extractBambuObservedSlots, packages/printer-connector/src/index.ts).   *)
(* The printer, which is external, is what the reports are about: its      *)
(* trays are changed while they are sent.                                  *)
(*                                                                         *)
(* A tray is known by its number, unit * SlotsPerUnit + slot.  A report may *)
(* tell any of the trays, in any arrangement, name the units and trays it  *)
(* tells or leave their names out: a layout says which and how.  A material *)
(* stands for a material or a colour, which the code treats alike.  Fields *)
(* near RFID, which are dropped on arrival, are left out.                  *)
(***************************************************************************)
EXTENDS Integers, Sequences, FiniteSets

CONSTANTS
  NumUnits,      \* units of the printer's material system
  SlotsPerUnit,  \* trays of a unit: 4 in the code
  External,      \* the number of the external tray: 254 in the code
  NoTray,        \* the number tray_now has when nothing is fed
  Materials,     \* materials a tray may hold
  Empty,         \* what the printer says of an empty tray
  Null,          \* a field that a report leaves out
  Layouts,       \* the arrays of units a report may have: what they tell and name
  MaxChanges     \* bound: changes of the trays during a read

Trays == 0..(NumUnits * SlotsPerUnit - 1)
Places == Trays \cup {External}

\* A unit of an array: which it is, whether the report says so, and its trays:
\* which they are, whether the report says so, and whether it tells their material.
TrayLayout == [slot : 0..(SlotsPerUnit - 1), named : BOOLEAN, told : BOOLEAN]
UnitLayout == [unit : 0..(NumUnits - 1), named : BOOLEAN, trays : Seq(TrayLayout)]

ASSUME TrayAssumption ==
  /\ NumUnits \in Nat /\ SlotsPerUnit \in Nat \ {0} /\ MaxChanges \in Nat
  /\ External \in Nat \ Trays /\ NoTray \in Nat \ Places
  /\ Empty \notin Materials /\ Null \notin Materials \cup {Empty} \cup Nat

\* An array tells a unit once, and a tray of it once.
ASSUME LayoutAssumption ==
  \A array \in Layouts :
    /\ array \in Seq(UnitLayout) /\ Len(array) <= NumUnits
    /\ \A i, k \in DOMAIN array : array[i].unit = array[k].unit => i = k
    /\ \A i \in DOMAIN array :
         /\ Len(array[i].trays) <= SlotsPerUnit
         /\ \A j, l \in DOMAIN array[i].trays :
              array[i].trays[j].slot = array[i].trays[l].slot => j = l

VARIABLES
  filled,    \* filled[p]: what the printer's tray p holds
  feeding,   \* the tray the printer feeds from
  snapshot,  \* the reports of this read, merged
  observed,  \* the slots the read returned: {} while it waits for more
  changes,   \* changes of the trays since the read began
  truth,     \* history variable: what was true of the printer during the read
  layout     \* history variable: the layout of the array in the merged report

vars == <<filled, feeding, snapshot, observed, changes, truth, layout>>

\* A tray as a report tells it: without identity, or without its material.
TrayRow == [id : Nat \cup {Null}, material : Materials \cup {Empty, Null}]
UnitRow == [id : Nat \cup {Null}, tray : Seq(TrayRow)]
ReportRow == [tray_now : Nat \cup {Null}, ams : Seq(UnitRow) \cup {Null},
              vt_tray : TrayRow \cup {Null}]
NoReport == [tray_now |-> Null, ams |-> Null, vt_tray |-> Null]

Fact(p, material, fed) == [place |-> p, material |-> material, fed |-> fed]
Facts(trays, now) == {Fact(p, trays[p], FALSE) : p \in Places} \cup {Fact(now, Null, TRUE)}

Init ==
  /\ filled \in [Places -> Materials \cup {Empty}]
  /\ feeding \in Places \cup {NoTray}
  /\ snapshot = NoReport
  /\ observed = {}
  /\ changes = 0
  /\ truth = Facts(filled, feeding)
  /\ layout = Null
-----------------------------------------------------------------------------
(***************************************************************************)
(* Merging and reading reports                                             *)
(***************************************************************************)
Or(value, default) == IF value = Null THEN default ELSE value

\* deepMergeBambuReport: records are merged key by key, an array is replaced.
MergeTray(base, patch) ==
  IF base = Null \/ patch = Null THEN Or(patch, base)
  ELSE [id |-> Or(patch.id, base.id), material |-> Or(patch.material, base.material)]

Merge(base, patch) ==
  [tray_now |-> Or(patch.tray_now, base.tray_now),
   ams |-> Or(patch.ams, base.ams),
   vt_tray |-> MergeTray(base.vt_tray, patch.vt_tray)]

\* A tray with neither an identity nor a material is no slot.
IsSlot(tray) == tray.id # Null \/ tray.material \in Materials

SlotState(fed, material) ==
  CASE fed -> "feeding"
    [] ~fed /\ material \in Materials -> "loaded"
    [] OTHER -> "empty"

Slot(type, unit, slot, fed, material) ==
  [unit_type |-> type, unit_index |-> unit, slot_index |-> slot,
   state |-> SlotState(fed, material),
   material |-> IF material \in Materials THEN material ELSE Null]

\* Mutants of Position: the position counts whatever the identity says; it
\* counts from one.
PositionByIndex(id, i) == i - 1
PositionFromOne(id, i) == Or(id, i)

\* The identity a unit or a tray has, or else its position in the array.
Position(id, i) == Or(id, i - 1)

AmsSlots(report) ==
  LET units == Or(report.ams, <<>>)
      Number(i, j) == Position(units[i].id, i) * SlotsPerUnit + Position(units[i].tray[j].id, j)
      SlotAt(i, j) == Slot("ams", Position(units[i].id, i), Position(units[i].tray[j].id, j),
                           report.tray_now = Number(i, j), units[i].tray[j].material)
  IN UNION {{SlotAt(i, j) : j \in {k \in DOMAIN units[i].tray : IsSlot(units[i].tray[k])}}
              : i \in DOMAIN units}

ExternalSlots(report) ==
  LET tray == report.vt_tray IN
  IF tray = Null \/ ~IsSlot(tray) THEN {}
  ELSE {Slot("external", 0, 0, report.tray_now = External, tray.material)}

\* extractBambuObservedSlots.
ObservedSlots(report) == AmsSlots(report) \cup ExternalSlots(report)
-----------------------------------------------------------------------------
(***************************************************************************)
(* The printer and the read                                                *)
(***************************************************************************)

\* A user changes a tray, or the printer feeds from another one.  What changes
\* after the read is not its business.
Change(trays, now) ==
  /\ observed = {}
  /\ changes < MaxChanges
  /\ changes' = changes + 1
  /\ filled' = trays
  /\ feeding' = now
  /\ truth' = truth \cup Facts(trays, now)
  /\ UNCHANGED <<snapshot, observed, layout>>

Number(unit, slot) == unit * SlotsPerUnit + slot

\* What an array of some layout says of the trays; Null: the report has none.
TellTray(unit, tray) ==
  [id |-> IF tray.named THEN tray.slot ELSE Null,
   material |-> IF tray.told THEN filled[Number(unit, tray.slot)] ELSE Null]

Tell(array) ==
  IF array = Null THEN Null
  ELSE [i \in DOMAIN array |->
         [id |-> IF array[i].named THEN array[i].unit ELSE Null,
          tray |-> [j \in DOMAIN array[i].trays |->
                     TellTray(array[i].unit, array[i].trays[j])]]]

\* A report arrives.  What is no report at all is ignored and changes nothing.
Receive(array, now, external) ==
  LET patch == [tray_now |-> IF now THEN feeding ELSE Null,
                ams |-> Tell(array),
                vt_tray |-> external]
      merged == Merge(snapshot, patch)
  IN
  /\ observed = {}
  /\ snapshot' = merged
  /\ observed' = ObservedSlots(merged)
  /\ layout' = IF patch.ams = Null THEN layout ELSE array
  /\ UNCHANGED <<filled, feeding, changes, truth>>

\* The external tray may be told in part.
ToldExternal ==
  {Null} \cup [id : {Null, 0}, material : {Null, filled[External]}]

\* The next read starts from nothing: this one ended, timed out or failed.
StartRead ==
  /\ snapshot' = NoReport
  /\ observed' = {}
  /\ changes' = 0
  /\ truth' = Facts(filled, feeding)
  /\ layout' = Null
  /\ UNCHANGED <<filled, feeding>>

Next ==
  \/ \E p \in Places, m \in Materials \cup {Empty} : Change([filled EXCEPT ![p] = m], feeding)
  \/ \E p \in Places \cup {NoTray} : Change(filled, p)
  \/ \E array \in Layouts \cup {Null}, now \in BOOLEAN, external \in ToldExternal :
       Receive(array, now, external)
  \/ StartRead

Spec == Init /\ [][Next]_vars
-----------------------------------------------------------------------------
(***************************************************************************)
(* Properties                                                              *)
(***************************************************************************)
PlaceOf(slot) ==
  IF slot.unit_type = "external" THEN External
  ELSE slot.unit_index * SlotsPerUnit + slot.slot_index

\* Printer and reports have their types, and every slot a read returns is one
\* of the printer's.
ReportTypeOK ==
  /\ filled \in [Places -> Materials \cup {Empty}]
  /\ feeding \in Places \cup {NoTray}
  /\ snapshot \in ReportRow
  /\ \A slot \in observed :
       /\ slot.state \in {"feeding", "loaded", "empty"}
       /\ slot.material \in Materials \cup {Null}
       /\ slot.slot_index \in 0..(SlotsPerUnit - 1)
       /\ PlaceOf(slot) \in Places

\* The number a tray of the array has, and the one it is read under: a unit or
\* tray that is not named is taken for the one whose place in the array it has.
OwnNumber(array, i, j) == Number(array[i].unit, array[i].trays[j].slot)
ReadAs(array, i, j) ==
  Number(IF array[i].named THEN array[i].unit ELSE i - 1,
         IF array[i].trays[j].named THEN array[i].trays[j].slot ELSE j - 1)

\* The numbers under which the array tells another tray than their own: none when
\* it names what it tells, or tells it from the first unit and tray on in order.
Misplaced ==
  IF layout = Null THEN {}
  ELSE UNION {{ReadAs(layout, i, j) :
                 j \in {l \in DOMAIN layout[i].trays :
                          ReadAs(layout, i, l) # OwnNumber(layout, i, l)}} :
                i \in DOMAIN layout}

\* However its reports were cut, arranged and merged, a read shows nothing that was
\* not true of the printer while it lasted (extractBambuObservedSlots,
\* deepMergeBambuReport): a place shown feeding was fed from, a material shown was
\* in some tray, and in the very place it is shown in unless that place is
\* misplaced; a place is shown once, and at most one of them feeding, unless it is
\* misplaced.  A part of an array without names does show a material in a wrong
\* place, or one place twice: that is what the exception says.  "empty" says
\* nothing: a tray told by its name alone is shown empty, whatever it holds.
ObservedWasTrue ==
  /\ \A slot \in observed :
       /\ slot.state = "feeding" => Fact(PlaceOf(slot), Null, TRUE) \in truth
       /\ slot.material # Null =>
            \E p \in Places : /\ Fact(p, slot.material, FALSE) \in truth
                              /\ p = PlaceOf(slot) \/ PlaceOf(slot) \in Misplaced
  /\ \A x, y \in observed :
       PlaceOf(x) = PlaceOf(y) \/ {x.state, y.state} = {"feeding"} =>
         x = y \/ PlaceOf(x) \in Misplaced
=============================================================================
