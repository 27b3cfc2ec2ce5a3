---------------------------- MODULE MCBambuReport ----------------------------
(***************************************************************************)
(* Values of the constants of BambuReport for TLC.                         *)
(***************************************************************************)
EXTENDS BambuReport, SequencesExt, TLC

\* The numbers of the code for the external tray and for no tray.
MCExternal == 254
MCNoTray == 255

\* Some trays in order, as an array that names its units, its trays, both or
\* neither, and tells of the trays in blank nothing but that they are there.
Ordered(numbers) == SetToSortSeq(numbers, <)

TrayIn(t, named, blank) == [slot |-> t % SlotsPerUnit, named |-> named, told |-> t \notin blank]

UnitIn(u, trays, unitsNamed, traysNamed, blank) ==
  LET own == Ordered({t \in trays : t \div SlotsPerUnit = u})
  IN [unit |-> u, named |-> unitsNamed,
      trays |-> [j \in DOMAIN own |-> TrayIn(own[j], traysNamed, blank)]]

Array(trays, unitsNamed, traysNamed, blank) ==
  LET units == Ordered({t \div SlotsPerUnit : t \in trays})
  IN [i \in DOMAIN units |-> UnitIn(units[i], trays, unitsNamed, traysNamed, blank)]

\* No tray, one tray of either unit, trays of both units and all trays, with names
\* and without; one with the name of its unit alone and one with its own alone; all
\* in another order; and one tray in blank.
Parts == {{}, {1}, {2}, {0, 3}, Trays}

MCLayouts ==
  {Array(trays, named, named, {}) : trays \in Parts, named \in BOOLEAN}
    \cup {Array({3}, TRUE, FALSE, {}), Array({3}, FALSE, TRUE, {})}
    \cup {Reverse(Array(Trays, named, named, {})) : named \in BOOLEAN}
    \cup {Array({1}, named, named, {1}) : named \in BOOLEAN}
=============================================================================
