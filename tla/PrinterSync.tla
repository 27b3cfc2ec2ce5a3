------------------------------ MODULE PrinterSync ------------------------------
(***************************************************************************)
(* Printers, their slots, and POST /api/printers/:id/sync-now (app.ts),    *)
(* which reads the slots, awaits the printer's report, and then writes the *)
(* observed slots and the usage candidates.  Every other request may run   *)
(* during the await, but for the restore of a backup: the module is about  *)
(* the time between two restores.                                          *)
(*                                                                         *)
(* A slot of Repository is a position of a printer: printer_slots has one  *)
(* row per (printer, unit, index) and a deleted row keeps its position.    *)
(***************************************************************************)
EXTENDS Repository

CONSTANTS
  Printers,   \* identifiers of printers
  PrinterOf,  \* PrinterOf[x]: the printer position x belongs to
  Syncs       \* sync-now requests that may be waiting for a printer at a time

ASSUME PrinterAssumption ==
  /\ PrinterOf \in [Slots -> Printers]
  /\ Null \notin Printers

VARIABLES
  printer,  \* printers
  sync,     \* sync[r]: what sync-now request r read before its await
  shown     \* shown[c][x]: the row of slot x client c fetched last

printerVars == <<printer, sync, shown>>
allVars == <<vars, printerVars>>

\* "mock": the connector answers without contacting the printer, which it does
\* for manual printers and for models it has no protocol for; "lan": it reads
\* the printer's MQTT report.
Modes == {"mock", "lan"}

PrinterRow == [row: RowStates, version: Nat, mode: Modes]
NoPrinter == [row |-> "none", version |-> 0, mode |-> "mock"]

\* A request keeps the mappings it read, by position (existingSlots).
SyncRow == [printer: Printers \cup {Null}, mapping: [Slots -> Spools \cup {Null}]]
NoSync == [printer |-> Null, mapping |-> [x \in Slots |-> Null]]

PrinterInit ==
  /\ Init
  /\ printer = [p \in Printers |-> NoPrinter]
  /\ sync = [r \in Syncs |-> NoSync]
  /\ shown = [c \in Clients |-> [x \in Slots |-> NoSlot]]
-----------------------------------------------------------------------------
LivePrinter(p) == printer[p].row = "live"
LiveSlot(x) == slot[x].row = "live"
SlotsOf(p) == {x \in Slots : PrinterOf[x] = p}

\* listPrinterSlots: the live slots of a printer.
ListedSlots(p) == {x \in SlotsOf(p) : LiveSlot(x)}

\* The write of a printer's row every operation on it ends with.
WritePrinter(p, row) ==
  /\ printer[p].version < MaxVersion
  /\ printer' = [printer EXCEPT ![p] = [row EXCEPT !.version = printer[p].version + 1]]

\* Mutants of Upserted: a deleted row becomes live again; the version stays.
UpsertedLive(x, spoolId) ==
  [row |-> "live", version |-> slot[x].version + 1, mapped_spool |-> spoolId]

UpsertedSameVersion(x, spoolId) ==
  IF slot[x].row = "none"
  THEN [row |-> "live", version |-> 1, mapped_spool |-> spoolId]
  ELSE [slot[x] EXCEPT !.mapped_spool = spoolId]

\* upsertPrinterSlot finds the row of the position, deleted or not, and keeps
\* its deleted_at.
Upserted(x, spoolId) ==
  IF slot[x].row = "none"
  THEN [row |-> "live", version |-> 1, mapped_spool |-> spoolId]
  ELSE [slot[x] EXCEPT !.mapped_spool = spoolId, !.version = @ + 1]

UpsertAll(observed, mapping) ==
  /\ \A x \in observed : slot[x].version < MaxVersion
  /\ slot' = [x \in Slots |-> IF x \in observed THEN Upserted(x, mapping[x]) ELSE slot[x]]
-----------------------------------------------------------------------------
CreatePrinter(p, mode) ==
  /\ printer[p].row = "none"
  /\ printer' = [printer EXCEPT ![p] = [row |-> "live", version |-> 1, mode |-> mode]]
  /\ UNCHANGED <<vars, sync, shown>>

UpdatePrinter(p, mode, expected) ==
  /\ LivePrinter(p)
  /\ printer[p].version = expected
  /\ WritePrinter(p, [printer[p] EXCEPT !.mode = mode])
  /\ UNCHANGED <<vars, sync, shown>>

\* Mutant of DeletePrinter: the row is removed from the table.
DeletePrinterHard(p, expected) ==
  /\ LivePrinter(p)
  /\ printer[p].version = expected
  /\ printer' = [printer EXCEPT ![p] = NoPrinter]
  /\ slot' = [x \in Slots |->
                IF x \in ListedSlots(p)
                THEN [Unmap(slot[x]) EXCEPT !.row = "deleted"]
                ELSE slot[x]]
  /\ UNCHANGED <<catalog, spool, usage, tag, clock, seen, opening, sync, shown>>

\* The same transaction deletes and unmaps the printer's live slots.
DeletePrinter(p, expected) ==
  /\ LivePrinter(p)
  /\ printer[p].version = expected
  /\ WritePrinter(p, [printer[p] EXCEPT !.row = "deleted"])
  /\ slot' = [x \in Slots |->
                IF x \in ListedSlots(p)
                THEN [Unmap(slot[x]) EXCEPT !.row = "deleted"]
                ELSE slot[x]]
  /\ UNCHANGED <<catalog, spool, usage, tag, clock, seen, opening, sync, shown>>

\* POST /api/printers/:id/test-connection reads no more of the printer than
\* its identifier before its await, and writes it after (touchPrinterSeen).
TestConnection(p) ==
  /\ LivePrinter(p)
  /\ WritePrinter(p, printer[p])
  /\ UNCHANGED <<vars, sync, shown>>

\* GET /api/printers/:id/slots.
FetchSlots(c, p) ==
  /\ LivePrinter(p)
  /\ shown' = [shown EXCEPT ![c] =
                [x \in Slots |-> IF x \in ListedSlots(p) THEN slot[x] ELSE shown[c][x]]]
  /\ UNCHANGED <<vars, printer, sync>>

\* Mutant of MapPrinterSlot: the spool may be deleted.
MapAnySpool(c, x, spoolId) ==
  /\ LiveSlot(x)
  /\ shown[c][x].version = slot[x].version
  /\ spoolId # Null => spool[spoolId].row # "none"
  /\ slot[x].version < MaxVersion
  /\ slot' = [slot EXCEPT ![x].mapped_spool = spoolId, ![x].version = @ + 1]
  /\ UNCHANGED <<catalog, spool, usage, tag, clock, seen, opening, printerVars>>

\* PATCH /api/printer-slots/:id/mapping with the version the client was shown.
MapPrinterSlot(c, x, spoolId) ==
  /\ LiveSlot(x)
  /\ shown[c][x].version = slot[x].version
  /\ spoolId # Null => LiveSpool(spoolId)
  /\ slot[x].version < MaxVersion
  /\ slot' = [slot EXCEPT ![x].mapped_spool = spoolId, ![x].version = @ + 1]
  /\ UNCHANGED <<catalog, spool, usage, tag, clock, seen, opening, printerVars>>
-----------------------------------------------------------------------------
(***************************************************************************)
(* sync-now                                                                *)
(***************************************************************************)

\* What existingSlots says of a position: its mapping, null if it is not listed.
ReadMapping(p) ==
  [x \in Slots |-> IF x \in ListedSlots(p) THEN slot[x].mapped_spool ELSE Null]

\* The mock connector observes the listed slots, or the default ones of the
\* model when there are none, and may report use of one mapped slot.  It does
\* not wait, so the whole request is one step.
MockSync(p, observed) ==
  LET mapping == ReadMapping(p)
      mapped == {x \in ListedSlots(p) : slot[x].mapped_spool # Null}
      touched == IF observed = {} THEN UNCHANGED printer ELSE WritePrinter(p, printer[p])
  IN
  /\ LivePrinter(p)
  /\ printer[p].mode = "mock"
  /\ observed \subseteq SlotsOf(p)
  /\ ListedSlots(p) # {} => observed = ListedSlots(p)
  /\ UpsertAll(observed, mapping)
  /\ UNCHANGED <<catalog, spool, tag, clock, seen, opening, sync, shown>>
  /\ \/ \* The mapped slots are empty or unavailable, or there are none.
        /\ touched
        /\ UNCHANGED usage
     \/ \E x \in mapped, e \in Events, d \in Candidates :
          LET s == mapping[x]
              before == spool[s].remaining
          IN
          /\ LiveSpool(s)
          /\ InsertUsage(e, NewUsage(s, "pending", d, before, ClampAtZero(before + d)))
          /\ touched
     \/ \* createPendingUsageEvent throws: the slots are written all the same.
        /\ \E x \in mapped : ~LiveSpool(mapping[x])
        /\ UNCHANGED <<usage, printer>>

StartSync(r, p) ==
  /\ sync[r].printer = Null
  /\ LivePrinter(p)
  /\ printer[p].mode = "lan"
  /\ sync' = [sync EXCEPT ![r] = [printer |-> p, mapping |-> ReadMapping(p)]]
  /\ UNCHANGED <<vars, printer, shown>>

\* The report arrived: the observed slots are written with the mappings that
\* were read before the await, then the printer is touched.
FinishSync(r, observed) ==
  LET p == sync[r].printer IN
  /\ p # Null
  /\ LivePrinter(p)
  /\ observed # {}
  /\ observed \subseteq SlotsOf(p)
  /\ UpsertAll(observed, sync[r].mapping)
  /\ WritePrinter(p, printer[p])
  /\ sync' = [sync EXCEPT ![r] = NoSync]
  /\ UNCHANGED <<catalog, spool, usage, tag, clock, seen, opening, shown>>

\* The printer was deleted during the await.  The slots are written up to the
\* first that has no row, where createPrinterSlot throws not_found; if all have
\* one, touchPrinterSeen throws.  The printer is not written.
FinishSyncDeleted(r, written) ==
  LET p == sync[r].printer IN
  /\ p # Null
  /\ ~LivePrinter(p)
  /\ written \subseteq SlotsOf(p)
  /\ \A x \in written : slot[x].row # "none"
  /\ UpsertAll(written, sync[r].mapping)
  /\ sync' = [sync EXCEPT ![r] = NoSync]
  /\ UNCHANGED <<catalog, spool, usage, tag, clock, seen, opening, printer, shown>>

\* No report, or no credentials: a warning, and nothing is written.
FailSync(r) ==
  /\ sync[r].printer # Null
  /\ sync' = [sync EXCEPT ![r] = NoSync]
  /\ UNCHANGED <<vars, printer, shown>>
-----------------------------------------------------------------------------
PrinterNext ==
  \/ \E p \in Printers :
       \/ \E mode \in Modes : CreatePrinter(p, mode)
       \/ \E mode \in Modes, v \in Versions : UpdatePrinter(p, mode, v)
       \/ \E v \in Versions : DeletePrinter(p, v)
       \/ TestConnection(p)
       \/ \E observed \in SUBSET Slots : MockSync(p, observed)
       \/ \E r \in Syncs : StartSync(r, p)
       \/ \E c \in Clients : FetchSlots(c, p)
  \/ \E c \in Clients, x \in Slots, s \in Spools \cup {Null} : MapPrinterSlot(c, x, s)
  \/ \E r \in Syncs :
       \/ \E observed \in SUBSET Slots : FinishSync(r, observed)
       \/ \E written \in SUBSET Slots : FinishSyncDeleted(r, written)
       \/ FailSync(r)

\* Every request of Repository may run between any two of these.
RepositoryNext == Next /\ UNCHANGED printerVars

SyncNext == PrinterNext \/ RepositoryNext

SyncSpec == PrinterInit /\ [][SyncNext]_allVars
-----------------------------------------------------------------------------
(***************************************************************************)
(* Properties                                                              *)
(***************************************************************************)

\* The columns of printers and printer_slots have their types, and a waiting
\* request names a printer that exists.
PrinterTypeOK ==
  /\ TypeOK
  /\ printer \in [Printers -> PrinterRow]
  /\ sync \in [Syncs -> SyncRow]
  /\ shown \in [Clients -> [Slots -> SlotRow]]
  /\ \A r \in Syncs : sync[r].printer # Null => printer[sync[r].printer].row # "none"

\* "Printer deletion must soft-delete active slots for that printer"
\* (SPEC.md:599), and no report that arrives after the deletion, however late,
\* brings a slot of it back (deletePrinter, upsertPrinterSlot).
DeletedPrinterHasNoSlots ==
  \A x \in Slots : LiveSlot(x) => LivePrinter(PrinterOf[x])

\* Optimistic concurrency of mappings: a client whose version of a slot is the
\* current one was shown the current row, whatever syncs, other clients and
\* deletions wrote in between (upsertPrinterSlot, mapPrinterSlot, deleteSpool).  A
\* restore issues versions twice and is no step here.
NoLostMapping ==
  \A c \in Clients, x \in Slots :
    shown[c][x].version = slot[x].version => shown[c][x] = slot[x]

\* Spool deletion must "clear active printer slot mappings" (SPEC.md:558).  Only
\* a report that arrives after the deletion, with the mapping its request read
\* before, maps a live slot to a deleted spool: no deletion leaves one mapped and
\* no mapping request or immediate sync makes one (deleteSpool, mapPrinterSlot).
MapsDeletedSpool(x) ==
  slot[x].row = "live" /\ slot[x].mapped_spool # Null /\ ~LiveSpool(slot[x].mapped_spool)

OnlyReportsMapDeletedSpools ==
  [][\A x \in Slots : MapsDeletedSpool(x)' =>
       \/ MapsDeletedSpool(x)
       \/ \E r \in Syncs : /\ sync[r].printer = PrinterOf[x]
                           /\ sync'[r] = NoSync
                           /\ slot'[x].mapped_spool = sync[r].mapping[x]]_allVars

\* A sync never changes the mapping of a slot: "User mapping wins over inferred
\* mapping" (SPEC.md:251).  Only a mapping request, or the deletion of the spool
\* or of the printer, changes one.
UserMappingWins ==
  [][\A x \in Slots :
       slot[x].row = "live" /\ slot'[x].mapped_spool # slot[x].mapped_spool =>
         \/ \E c \in Clients : MapPrinterSlot(c, x, slot'[x].mapped_spool)
         \/ \E s \in Spools : /\ s = slot[x].mapped_spool
                              /\ spool[s].row = "live"
                              /\ spool'[s].row = "deleted"
         \/ slot'[x].row = "deleted"]_allVars
=============================================================================
