-------------------------- MODULE PrinterSync_proofs --------------------------
(***************************************************************************)
(* Theorems about PrinterSync, for any printers, slots, clients and        *)
(* requests that wait for a report.                                        *)
(***************************************************************************)
EXTENDS PrinterSync, Repository_proofs

\* NoLostMapping is inductive once versions are known to grow: no client was
\* shown a row newer than the table's, and a position without a row has none.
ShownInv ==
  /\ \A x \in Slots : slot[x].row = "none" => slot[x] = NoSlot
  /\ \A c \in Clients, x \in Slots : shown[c][x].version <= slot[x].version
  /\ NoLostMapping

PrinterInv ==
  /\ PrinterTypeOK
  /\ ActiveTagsAgree
  /\ DeletedPrinterHasNoSlots
  /\ ShownInv
-----------------------------------------------------------------------------
(***************************************************************************)
(* What a step does to the slots                                           *)
(***************************************************************************)

\* A slot stays as it is, is inserted for a live printer, or is written once.
Inserted(x) ==
  /\ slot[x].row = "none"
  /\ slot'[x].row = "live"
  /\ slot'[x].version = 1
  /\ LivePrinter(PrinterOf[x])

Overwritten(x) ==
  /\ slot[x].row # "none"
  /\ slot'[x].version = slot[x].version + 1
  /\ slot'[x].row \in {slot[x].row, "deleted"}

SlotStep(x) ==
  \/ slot'[x] = slot[x]
  \/ Inserted(x)
  \/ Overwritten(x)

\* The writes of a row.
LEMMA UpsertedRow ==
  ASSUME TypeOK, NEW x \in Slots, NEW s \in Spools \cup {Null}
  PROVE  /\ Upserted(x, s) \in SlotRow
         /\ Upserted(x, s).mapped_spool = s
         /\ slot[x].row = "none" => /\ Upserted(x, s).row = "live"
                                    /\ Upserted(x, s).version = 1
         /\ slot[x].row # "none" => /\ Upserted(x, s).row = slot[x].row
                                    /\ Upserted(x, s).version = slot[x].version + 1
<1>1. slot[x] \in SlotRow /\ slot[x].version + 1 \in Nat
  BY DEF TypeOK, SlotRow
<1>2. [row |-> "live", version |-> 1, mapped_spool |-> s] \in SlotRow
  BY DEF SlotRow, RowStates
<1>3. CASE slot[x].row = "none"
  BY <1>2, <1>3 DEF Upserted
<1>4. CASE slot[x].row # "none"
  <2> DEFINE new == [slot[x] EXCEPT !.mapped_spool = s, !.version = @ + 1]
  <2>1. /\ new \in SlotRow /\ new.mapped_spool = s /\ new.row = slot[x].row
        /\ new.version = slot[x].version + 1
    BY <1>1 DEF SlotRow
  <2>2. Upserted(x, s) = new
    BY <1>4 DEF Upserted
  <2> QED
    BY <1>4, <2>1, <2>2
<1> QED
  BY <1>3, <1>4

LEMMA UpsertAllSteps ==
  ASSUME TypeOK, NEW p \in Printers, NEW observed \in SUBSET SlotsOf(p),
         NEW mapping, mapping \in [Slots -> Spools \cup {Null}],
         UpsertAll(observed, mapping),
         LivePrinter(p) \/ \A x \in observed : slot[x].row # "none"
  PROVE  /\ slot' \in [Slots -> SlotRow]
         /\ \A x \in Slots : SlotStep(x)
         /\ \A x \in observed : slot'[x].mapped_spool = mapping[x]
         /\ \A x \in Slots \ observed : slot'[x] = slot[x]
<1>1. slot' = [x \in Slots |-> IF x \in observed THEN Upserted(x, mapping[x]) ELSE slot[x]]
  BY DEF UpsertAll
<1>2. ASSUME NEW x \in Slots, x \in observed
      PROVE  /\ slot'[x] \in SlotRow /\ SlotStep(x)
             /\ slot'[x].mapped_spool = mapping[x]
  <2>1. slot'[x] = Upserted(x, mapping[x]) /\ mapping[x] \in Spools \cup {Null}
    BY <1>1, <1>2
  <2>2. slot[x].row = "none" => LivePrinter(PrinterOf[x])
    BY <1>2 DEF SlotsOf
  <2> QED
    BY <2>1, <2>2, UpsertedRow DEF SlotStep, Inserted, Overwritten
<1>3. ASSUME NEW x \in Slots, x \notin observed
      PROVE  slot'[x] = slot[x] /\ slot'[x] \in SlotRow /\ SlotStep(x)
  BY <1>1, <1>3 DEF SlotStep, TypeOK
<1>4. observed \subseteq Slots
  BY DEF SlotsOf
<1> QED
  BY <1>1, <1>2, <1>3, <1>4

LEMMA ReadMappingType ==
  ASSUME TypeOK, NEW p \in Printers
  PROVE  ReadMapping(p) \in [Slots -> Spools \cup {Null}]
BY DEF ReadMapping, TypeOK, SlotRow

\* An unmapped row, deleted or not.
LEMMA UnmapStep ==
  ASSUME TypeOK, NEW x \in Slots, LiveSlot(x), NEW state \in {"live", "deleted"},
         slot'[x] = [Unmap(slot[x]) EXCEPT !.row = state]
  PROVE  /\ slot'[x] \in SlotRow
         /\ SlotStep(x)
         /\ slot'[x].row = state
         /\ slot'[x].mapped_spool = Null
<1>1. slot[x] \in SlotRow /\ slot[x].version + 1 \in Nat
  BY DEF TypeOK, SlotRow
<1>2. slot'[x] = [row |-> state, version |-> slot[x].version + 1, mapped_spool |-> Null]
  BY <1>1 DEF Unmap, SlotRow
<1>3. slot[x].row = "live"
  BY DEF LiveSlot
<1> QED
  BY <1>1, <1>2, <1>3 DEF SlotRow, RowStates, SlotStep, Overwritten

\* Of the requests of Repository, only the deletion of a spool writes slots, and
\* only it ends a spool.
Retires(s) ==
  /\ spool[s].row = "live"
  /\ \A x \in Spools : x # s => spool'[x] = spool[x]
  /\ slot' = [x \in Slots |->
                IF slot[x].mapped_spool = s /\ slot[x].row = "live"
                THEN Unmap(slot[x])
                ELSE slot[x]]

LEMMA RepositorySlots ==
  ASSUME TypeOK, [Next]_vars
  PROVE  \/ /\ UNCHANGED slot
            /\ \A s \in Spools : LiveSpool(s) => LiveSpool(s)'
         \/ \E s \in Spools : Retires(s)
<1> DEFINE Keeps == /\ UNCHANGED slot
                    /\ \A s \in Spools : LiveSpool(s) => LiveSpool(s)'
<1>1. ASSUME UNCHANGED <<slot, spool>> PROVE Keeps
  BY <1>1 DEF LiveSpool
<1>2. ASSUME NEW s \in Spools, NEW t, NEW n,
             Written(s, spool[s].row, n, t), UNCHANGED slot
      PROVE  Keeps
  BY <1>2 DEF Written, LiveSpool
<1>3. ASSUME NEW s \in Spools, NEW k \in Catalogs, NEW initial \in Grams,
             NEW remaining \in Grams, CreateSpool(s, k, initial, remaining)
      PROVE  Keeps
  BY <1>3 DEF CreateSpool, LiveSpool, TypeOK
<1>4. ASSUME NEW s \in Spools, NEW c \in Clients, NEW k \in Catalogs,
             NEW initial \in Grams, UpdateSpool(c, s, k, initial)
      PROVE  Keeps
  <2>1. Written(s, spool[s].row, spool[s].remaining, spool[s].active_tag)
    BY <1>4, ActionWritten
  <2>2. UNCHANGED slot
    BY <1>4 DEF UpdateSpool
  <2> QED
    BY <1>2, <2>1, <2>2
<1>5. ASSUME NEW s \in Spools, NEW c \in Clients, DeleteSpool(c, s) PROVE Retires(s)
  <2>1. Written(s, "deleted", spool[s].remaining, Null)
    BY <1>5, ActionWritten
  <2> QED
    BY <1>5, <2>1 DEF DeleteSpool, VersionMatches, LiveSpool, Written, Retires
<1>6. ASSUME UsageNext PROVE Keeps
  <2>1. ASSUME NEW f \in Events, NEW s \in Spools, NEW c \in Clients, NEW w \in Grams,
               ManualAdjustment(c, s, f, w)
        PROVE  Keeps
    BY <1>2, <2>1, ActionWritten DEF ManualAdjustment, AdjustWeight
  <2>2. ASSUME NEW f \in Events, NEW c \in Clients, NEW d \in Int,
               NEW status \in {"approved", "edited"}, NEW checked \in BOOLEAN,
               ApplyUsageEvent(c, f, d, status, checked)
        PROVE  Keeps
    <3> PICK s \in Spools : s = usage[f].spool
      BY <2>2 DEF ApplyUsageEvent, TypeOK
    <3>0. status \in ReviewStates
      BY DEF ReviewStates
    <3>1. Written(s, spool[s].row, spool[s].remaining + d, spool[s].active_tag)
      BY <2>2, <3>0, ActionWritten
    <3> QED
      BY <1>2, <2>2, <3>1 DEF ApplyUsageEvent
  <2>3. \A f \in Events : usage[f].delta \in Int
    BY DEF TypeOK, UsageRow
  <2>4. ASSUME NEW f \in Events, NEW s \in Spools, NEW d \in Candidates,
               CreatePendingUsageEvent(s, f, d)
        PROVE  Keeps
    BY <1>1, <2>4 DEF CreatePendingUsageEvent
  <2>5. ASSUME NEW f \in Events, RejectUsageEvent(f) PROVE Keeps
    BY <1>1, <2>5 DEF RejectUsageEvent
  <2> QED
    BY <1>6, <2>1, <2>2, <2>3, <2>4, <2>5, BoundAssumption
    DEF UsageNext, ApproveUsageEvent, EditAndApproveUsageEvent
<1>7. ASSUME TagNext PROVE Keeps
  <2>1. ASSUME NEW t \in Tags, NEW c \in Clients, NEW s \in Spools, AssignNfcTag(c, s, t)
        PROVE  Keeps
    BY <1>2, <2>1, ActionWritten DEF AssignNfcTag
  <2>2. ASSUME NEW t \in Tags, NEW v \in Versions, RetireTag(t, v) PROVE Keeps
    <3> DEFINE s == tag[t].assigned_spool
    <3>1. UNCHANGED slot
      BY <2>2 DEF RetireTag
    <3>2. CASE spool[s].active_tag = t
      BY <1>2, <2>2, <3>1, <3>2, ActionWritten
    <3>3. CASE spool[s].active_tag # t
      BY <1>1, <2>2, <3>1, <3>3, ActionWritten
    <3> QED
      BY <3>2, <3>3
  <2> QED
    BY <1>1, <1>7, <2>1, <2>2 DEF TagNext, WritePayload, ScanTag
<1>8. CatalogNext \/ Tick \/ UNCHANGED vars => UNCHANGED <<slot, spool>>
  BY DEF CatalogNext, CreateCatalogItem, ImportCatalogItems, UpdateCatalogItem,
         DeleteCatalogItem, Tick, vars
<1>9. \A c \in Clients, s \in Spools : FetchSpool(c, s) => UNCHANGED <<slot, spool>>
  BY DEF FetchSpool
<1> QED
  BY <1>1, <1>3, <1>4, <1>5, <1>6, <1>7, <1>8, <1>9 DEF Next, SpoolNext
-----------------------------------------------------------------------------
(***************************************************************************)
(* The invariant, when the slots make their steps                          *)
(***************************************************************************)

\* Every live slot that comes to be mapped to a spool that is not live was
\* mapped to it by a report.
Reported ==
  \A x \in Slots : MapsDeletedSpool(x)' =>
    \/ MapsDeletedSpool(x)
    \/ \E r \in Syncs : /\ sync[r].printer = PrinterOf[x]
                        /\ sync'[r] = NoSync
                        /\ slot'[x].mapped_spool = sync[r].mapping[x]

LEMMA ShownStep ==
  ASSUME PrinterInv, slot' \in [Slots -> SlotRow], \A x \in Slots : SlotStep(x),
         UNCHANGED shown
  PROVE  ShownInv'
<1>1. ASSUME NEW x \in Slots
      PROVE  /\ slot'[x].row = "none" => slot'[x] = NoSlot
             /\ \A c \in Clients : /\ shown[c][x].version <= slot'[x].version
                                   /\ shown[c][x].version = slot'[x].version =>
                                        shown[c][x] = slot'[x]
  <2>1. /\ slot[x].version \in Nat
        /\ slot[x].row = "none" => slot[x] = NoSlot
        /\ \A c \in Clients : /\ shown[c][x].version \in Nat
                              /\ shown[c][x].version <= slot[x].version
                              /\ shown[c][x].version = slot[x].version =>
                                   shown[c][x] = slot[x]
    BY DEF PrinterInv, ShownInv, NoLostMapping, PrinterTypeOK, TypeOK, SlotRow
  <2>2. CASE slot'[x] = slot[x]
    BY <2>1, <2>2
  <2>3. CASE Inserted(x)
    <3>1. slot[x].version = 0
      BY <2>1, <2>3 DEF Inserted, NoSlot
    <3> QED
      BY <2>1, <2>3, <3>1 DEF Inserted
  <2>4. CASE Overwritten(x)
    BY <2>1, <2>4 DEF Overwritten
  <2> QED
    BY <2>2, <2>3, <2>4 DEF SlotStep
<1> QED
  BY <1>1 DEF ShownInv, NoLostMapping

LEMMA LiveStep ==
  ASSUME PrinterInv, \A x \in Slots : SlotStep(x),
         \A p \in Printers : LivePrinter(p) => LivePrinter(p)'
  PROVE  DeletedPrinterHasNoSlots'
<1>1. ASSUME NEW x \in Slots, LiveSlot(x)' PROVE LivePrinter(PrinterOf[x])
  BY <1>1 DEF PrinterInv, DeletedPrinterHasNoSlots, SlotStep, Inserted, Overwritten, LiveSlot
<1> QED
  BY <1>1, PrinterAssumption DEF DeletedPrinterHasNoSlots

\* The repository's other tables do not change.
LEMMA SlotsOnly ==
  ASSUME PrinterInv, UNCHANGED <<catalog, spool, usage, tag, clock, seen, opening>>,
         slot' \in [Slots -> SlotRow]
  PROVE  TypeOK' /\ ActiveTagsAgree'
<1>1. TypeOK'
  BY DEF PrinterInv, PrinterTypeOK, TypeOK
<1> QED
  BY <1>1, AgreeFrame DEF PrinterInv, PrinterTypeOK

LEMMA VarsSame ==
  ASSUME PrinterInv, UNCHANGED vars
  PROVE  /\ TypeOK' /\ ActiveTagsAgree'
         /\ slot' \in [Slots -> SlotRow]
         /\ \A x \in Slots : SlotStep(x)
         /\ Reported
<1>1. slot' \in [Slots -> SlotRow] /\ UNCHANGED <<catalog, spool, usage, tag, clock, seen, opening>>
  BY DEF PrinterInv, PrinterTypeOK, TypeOK, vars
<1>2. Reported
  BY DEF Reported, MapsDeletedSpool, LiveSpool, vars
<1> QED
  BY <1>1, <1>2, SlotsOnly DEF SlotStep, vars

LEMMA PrinterWritten ==
  ASSUME PrinterInv, NEW p \in Printers, NEW row \in PrinterRow, WritePrinter(p, row)
  PROVE  /\ printer' \in [Printers -> PrinterRow]
         /\ printer'[p].row = row.row
         /\ \A q \in Printers : q # p => printer'[q] = printer[q]
<1> DEFINE new == [row EXCEPT !.version = printer[p].version + 1]
<1>1. printer' = [printer EXCEPT ![p] = new]
  BY DEF WritePrinter
<1>2. printer[p].version + 1 \in Nat
  BY DEF PrinterInv, PrinterTypeOK, PrinterRow
<1>3. new \in PrinterRow /\ new.row = row.row
  BY <1>2 DEF PrinterRow
<1> HIDE DEF new
<1> QED
  BY <1>1, <1>3 DEF PrinterInv, PrinterTypeOK

\* A write that leaves the printer live.
LEMMA Touched ==
  ASSUME PrinterInv, NEW p \in Printers, LivePrinter(p),
         UNCHANGED printer \/ \E mode \in Modes :
           WritePrinter(p, [printer[p] EXCEPT !.mode = mode])
  PROVE  /\ printer' \in [Printers -> PrinterRow]
         /\ \A q \in Printers : /\ LivePrinter(q) => LivePrinter(q)'
                                /\ printer[q].row # "none" => printer'[q].row # "none"
<1>1. printer[p] \in PrinterRow /\ printer[p].row = "live"
  BY DEF PrinterInv, PrinterTypeOK, LivePrinter
<1>2. CASE UNCHANGED printer
  BY <1>2 DEF PrinterInv, PrinterTypeOK, LivePrinter
<1>3. ASSUME NEW mode \in Modes, WritePrinter(p, [printer[p] EXCEPT !.mode = mode])
      PROVE  /\ printer' \in [Printers -> PrinterRow]
             /\ \A q \in Printers : /\ LivePrinter(q) => LivePrinter(q)'
                                    /\ printer[q].row # "none" => printer'[q].row # "none"
  <2> DEFINE row == [printer[p] EXCEPT !.mode = mode]
  <2>1. row \in PrinterRow /\ row.row = "live"
    BY <1>1 DEF PrinterRow
  <2> HIDE DEF row
  <2>2. WritePrinter(p, row)
    BY <1>3 DEF row
  <2> QED
    BY <2>1, <2>2, PrinterWritten DEF LivePrinter
<1> QED
  BY <1>2, <1>3

LEMMA TouchIsPatch ==
  ASSUME PrinterInv, NEW p \in Printers
  PROVE  \E mode \in Modes : printer[p] = [printer[p] EXCEPT !.mode = mode]
BY DEF PrinterInv, PrinterTypeOK, PrinterRow
-----------------------------------------------------------------------------
(***************************************************************************)
(* Steps that write no slot                                                *)
(***************************************************************************)
LEMMA CreatePrinterStep ==
  ASSUME PrinterInv, NEW p \in Printers, NEW mode \in Modes, CreatePrinter(p, mode)
  PROVE  PrinterInv' /\ Reported
<1>1. /\ TypeOK' /\ ActiveTagsAgree' /\ Reported
      /\ slot' \in [Slots -> SlotRow]
      /\ \A x \in Slots : SlotStep(x)
  BY VarsSame DEF CreatePrinter
<1>2. /\ printer' \in [Printers -> PrinterRow]
      /\ \A q \in Printers : /\ LivePrinter(q) => LivePrinter(q)'
                             /\ printer[q].row # "none" => printer'[q].row # "none"
  <2>1. [row |-> "live", version |-> 1, mode |-> mode] \in PrinterRow
    BY DEF PrinterRow, RowStates
  <2> QED
    BY <2>1 DEF CreatePrinter, PrinterInv, PrinterTypeOK, LivePrinter
<1>3. ShownInv' /\ DeletedPrinterHasNoSlots'
  BY <1>1, <1>2, ShownStep, LiveStep DEF CreatePrinter
<1> QED
  BY <1>1, <1>2, <1>3 DEF CreatePrinter, PrinterInv, PrinterTypeOK, SyncRow

LEMMA TouchStep ==
  ASSUME PrinterInv, NEW p \in Printers,
         TestConnection(p) \/ \E mode \in Modes, v \in Versions : UpdatePrinter(p, mode, v)
  PROVE  PrinterInv' /\ Reported
<1>0. UNCHANGED <<vars, sync, shown>> /\ LivePrinter(p)
  BY DEF TestConnection, UpdatePrinter
<1>1. /\ TypeOK' /\ ActiveTagsAgree' /\ Reported
      /\ slot' \in [Slots -> SlotRow]
      /\ \A x \in Slots : SlotStep(x)
  BY <1>0, VarsSame
<1>2. /\ printer' \in [Printers -> PrinterRow]
      /\ \A q \in Printers : /\ LivePrinter(q) => LivePrinter(q)'
                             /\ printer[q].row # "none" => printer'[q].row # "none"
  <2>1. CASE TestConnection(p)
    <3>1. WritePrinter(p, printer[p])
      BY <2>1 DEF TestConnection
    <3>2. PICK mode \in Modes : printer[p] = [printer[p] EXCEPT !.mode = mode]
      BY TouchIsPatch
    <3>3. WritePrinter(p, [printer[p] EXCEPT !.mode = mode])
      BY <3>1, <3>2
    <3> QED
      BY <1>0, <3>3, Touched
  <2>2. CASE \E mode \in Modes, v \in Versions : UpdatePrinter(p, mode, v)
    <3>1. \E mode \in Modes : WritePrinter(p, [printer[p] EXCEPT !.mode = mode])
      BY <2>2 DEF UpdatePrinter
    <3> QED
      BY <1>0, <3>1, Touched
  <2> QED
    BY <2>1, <2>2
<1>3. ShownInv' /\ DeletedPrinterHasNoSlots'
  BY <1>0, <1>1, <1>2, ShownStep, LiveStep
<1> QED
  BY <1>0, <1>1, <1>2, <1>3 DEF PrinterInv, PrinterTypeOK, SyncRow

LEMMA SyncOnlyStep ==
  ASSUME PrinterInv, NEW r \in Syncs,
         FailSync(r) \/ \E p \in Printers : StartSync(r, p)
  PROVE  PrinterInv' /\ Reported
<1>0. UNCHANGED <<vars, printer, shown>>
  BY DEF FailSync, StartSync
<1>1. /\ TypeOK' /\ ActiveTagsAgree' /\ Reported
      /\ slot' \in [Slots -> SlotRow]
      /\ \A x \in Slots : SlotStep(x)
  BY <1>0, VarsSame
<1>2. ShownInv' /\ DeletedPrinterHasNoSlots'
  BY <1>0, <1>1, ShownStep, LiveStep DEF LivePrinter
<1>3. /\ sync' \in [Syncs -> SyncRow]
      /\ \A q \in Syncs : sync'[q].printer # Null => printer[sync'[q].printer].row # "none"
  <2>1. CASE FailSync(r)
    <3>1. NoSync \in SyncRow /\ NoSync.printer = Null
      BY DEF NoSync, SyncRow
    <3> QED
      BY <2>1, <3>1 DEF FailSync, PrinterInv, PrinterTypeOK
  <2>2. ASSUME NEW p \in Printers, StartSync(r, p)
        PROVE  /\ sync' \in [Syncs -> SyncRow]
               /\ \A q \in Syncs : sync'[q].printer # Null =>
                                     printer[sync'[q].printer].row # "none"
    <3> DEFINE new == [printer |-> p, mapping |-> ReadMapping(p)]
    <3>1. new \in SyncRow /\ new.printer = p
      BY ReadMappingType DEF SyncRow, PrinterInv, PrinterTypeOK
    <3>2. sync' = [sync EXCEPT ![r] = new] /\ printer[p].row # "none"
      BY <2>2 DEF StartSync, LivePrinter
    <3> HIDE DEF new
    <3> QED
      BY <3>1, <3>2 DEF PrinterInv, PrinterTypeOK
  <2> QED
    BY <2>1, <2>2
<1> QED
  BY <1>0, <1>1, <1>2, <1>3 DEF PrinterInv, PrinterTypeOK

LEMMA FetchStep ==
  ASSUME PrinterInv, NEW c \in Clients, NEW p \in Printers, FetchSlots(c, p)
  PROVE  PrinterInv' /\ Reported
<1>0. UNCHANGED <<vars, printer, sync>>
  BY DEF FetchSlots
<1>1. TypeOK' /\ ActiveTagsAgree' /\ Reported
  BY <1>0, VarsSame
<1>2. /\ shown' \in [Clients -> [Slots -> SlotRow]]
      /\ \A d \in Clients, x \in Slots : shown'[d][x] \in {shown[d][x], slot[x]}
  BY DEF FetchSlots, PrinterInv, PrinterTypeOK, TypeOK
<1>3. slot' = slot /\ \A x \in Slots : slot[x].version \in Nat
  BY <1>0 DEF vars, PrinterInv, PrinterTypeOK, TypeOK, SlotRow
<1>4. ShownInv'
  BY <1>2, <1>3 DEF PrinterInv, ShownInv, NoLostMapping
<1>5. DeletedPrinterHasNoSlots'
  BY <1>0, <1>3 DEF PrinterInv, DeletedPrinterHasNoSlots, LiveSlot, LivePrinter
<1> QED
  BY <1>0, <1>1, <1>2, <1>4, <1>5 DEF PrinterInv, PrinterTypeOK, SyncRow
-----------------------------------------------------------------------------
(***************************************************************************)
(* Steps that write slots                                                  *)
(***************************************************************************)
LEMMA DeletePrinterStep ==
  ASSUME PrinterInv, NEW p \in Printers, NEW v \in Versions, DeletePrinter(p, v)
  PROVE  PrinterInv' /\ Reported
<1>0. /\ UNCHANGED <<catalog, spool, usage, tag, clock, seen, opening, sync, shown>>
      /\ LivePrinter(p)
      /\ WritePrinter(p, [printer[p] EXCEPT !.row = "deleted"])
      /\ slot' = [x \in Slots |-> IF x \in ListedSlots(p)
                                  THEN [Unmap(slot[x]) EXCEPT !.row = "deleted"]
                                  ELSE slot[x]]
  BY DEF DeletePrinter
<1>1. ASSUME NEW x \in Slots
      PROVE  /\ slot'[x] \in SlotRow /\ SlotStep(x)
             /\ slot'[x] = slot[x] \/ slot'[x].row = "deleted"
             /\ LiveSlot(x) /\ PrinterOf[x] = p => slot'[x].row = "deleted"
  <2>1. CASE x \in ListedSlots(p)
    BY <1>0, <2>1, UnmapStep DEF ListedSlots, PrinterInv, PrinterTypeOK
  <2>2. CASE x \notin ListedSlots(p)
    BY <1>0, <2>2 DEF ListedSlots, SlotsOf, SlotStep, PrinterInv, PrinterTypeOK, TypeOK
  <2> QED
    BY <2>1, <2>2
<1>2. slot' \in [Slots -> SlotRow]
  BY <1>0, <1>1
<1>3. /\ printer' \in [Printers -> PrinterRow]
      /\ printer'[p].row = "deleted"
      /\ \A q \in Printers : q # p => printer'[q] = printer[q]
  <2> DEFINE row == [printer[p] EXCEPT !.row = "deleted"]
  <2>1. row \in PrinterRow /\ row.row = "deleted"
    BY DEF PrinterInv, PrinterTypeOK, PrinterRow, RowStates
  <2> HIDE DEF row
  <2>2. WritePrinter(p, row)
    BY <1>0 DEF row
  <2> QED
    BY <2>1, <2>2, PrinterWritten
<1>4. TypeOK' /\ ActiveTagsAgree'
  BY <1>0, <1>2, SlotsOnly
<1>5. ShownInv'
  BY <1>0, <1>1, <1>2, ShownStep
<1>6. DeletedPrinterHasNoSlots'
  <2>1. ASSUME NEW x \in Slots, slot'[x].row = "live"
        PROVE  printer'[PrinterOf[x]].row = "live"
    <3>1. LiveSlot(x) /\ PrinterOf[x] # p
      BY <1>1, <2>1 DEF LiveSlot
    <3>2. PrinterOf[x] \in Printers
      BY PrinterAssumption
    <3> QED
      BY <1>3, <3>1, <3>2 DEF PrinterInv, DeletedPrinterHasNoSlots, LivePrinter
  <2> QED
    BY <2>1 DEF DeletedPrinterHasNoSlots, LiveSlot, LivePrinter
<1>7. Reported
  BY <1>0, <1>1 DEF Reported, MapsDeletedSpool, LiveSpool
<1>8. \A r \in Syncs : sync'[r].printer # Null => printer'[sync'[r].printer].row # "none"
  BY <1>0, <1>3 DEF PrinterInv, PrinterTypeOK, SyncRow
<1> QED
  BY <1>0, <1>3, <1>4, <1>5, <1>6, <1>7, <1>8 DEF PrinterInv, PrinterTypeOK

LEMMA MapStep ==
  ASSUME PrinterInv, NEW c \in Clients, NEW x \in Slots, NEW s \in Spools \cup {Null},
         MapPrinterSlot(c, x, s)
  PROVE  PrinterInv' /\ Reported
<1> DEFINE new == [slot[x] EXCEPT !.mapped_spool = s, !.version = @ + 1]
<1>0. /\ UNCHANGED <<catalog, spool, usage, tag, clock, seen, opening, printer, sync, shown>>
      /\ slot[x].row = "live"
      /\ s # Null => LiveSpool(s)
      /\ slot' = [slot EXCEPT ![x] = new]
  BY DEF MapPrinterSlot, printerVars, LiveSlot, PrinterInv, PrinterTypeOK, TypeOK, SlotRow
<1>1. slot[x] \in SlotRow /\ slot[x].version + 1 \in Nat
  BY DEF PrinterInv, PrinterTypeOK, TypeOK, SlotRow
<1>2. /\ new \in SlotRow /\ new.row = "live" /\ new.mapped_spool = s
      /\ new.version = slot[x].version + 1
  BY <1>0, <1>1 DEF SlotRow
<1> HIDE DEF new
<1>3. /\ slot' \in [Slots -> SlotRow]
      /\ slot'[x] = new
      /\ \A y \in Slots : y # x => slot'[y] = slot[y]
  BY <1>0, <1>2 DEF PrinterInv, PrinterTypeOK, TypeOK
<1>4. \A y \in Slots : SlotStep(y)
  BY <1>0, <1>2, <1>3 DEF SlotStep, Overwritten
<1>5. TypeOK' /\ ActiveTagsAgree'
  BY <1>0, <1>3, SlotsOnly
<1>6. ShownInv' /\ DeletedPrinterHasNoSlots'
  BY <1>0, <1>3, <1>4, ShownStep, LiveStep DEF LivePrinter
<1>7. Reported
  BY <1>0, <1>2, <1>3 DEF Reported, MapsDeletedSpool, LiveSpool
<1> QED
  BY <1>0, <1>5, <1>6, <1>7 DEF PrinterInv, PrinterTypeOK

LEMMA CandidateType ==
  ASSUME PrinterInv, NEW s \in Spools, NEW e \in Events, NEW d \in Candidates,
         InsertUsage(e, NewUsage(s, "pending", d, spool[s].remaining,
                                 ClampAtZero(spool[s].remaining + d))),
         UNCHANGED <<catalog, spool, tag, clock, seen, opening>>,
         slot' \in [Slots -> SlotRow]
  PROVE  TypeOK' /\ ActiveTagsAgree'
<1> DEFINE row == NewUsage(s, "pending", d, spool[s].remaining,
                           ClampAtZero(spool[s].remaining + d))
<1>1. /\ spool[s].remaining \in Int /\ d \in Int
      /\ ClampAtZero(spool[s].remaining + d) \in Int
  BY BoundAssumption DEF PrinterInv, PrinterTypeOK, TypeOK, SpoolRow, ClampAtZero
<1>2. "pending" \in ReviewStates \ {"none"}
  BY DEF ReviewStates
<1>3. row \in UsageRow
  BY <1>1, <1>2, NewUsageType
<1>4. row.status = "pending" /\ row.spool = s
  BY DEF NewUsage
<1> HIDE DEF row
<1>5. usage' = [usage EXCEPT ![e] = row]
  BY DEF InsertUsage, row
<1>6. TypeOK'
  BY <1>3, <1>4, <1>5 DEF PrinterInv, PrinterTypeOK, TypeOK
<1> QED
  BY <1>6, AgreeFrame DEF PrinterInv, PrinterTypeOK

LEMMA MockStep ==
  ASSUME PrinterInv, NEW p \in Printers, NEW observed \in SUBSET Slots,
         MockSync(p, observed)
  PROVE  PrinterInv' /\ Reported
<1> DEFINE mapping == ReadMapping(p)
<1>0. /\ LivePrinter(p)
      /\ observed \in SUBSET SlotsOf(p)
      /\ UpsertAll(observed, mapping)
      /\ UNCHANGED <<catalog, spool, tag, clock, seen, opening, sync, shown>>
  BY DEF MockSync
<1>1. /\ slot' \in [Slots -> SlotRow]
      /\ \A x \in Slots : SlotStep(x)
      /\ \A x \in observed : slot'[x].mapped_spool = mapping[x]
      /\ \A x \in Slots \ observed : slot'[x] = slot[x]
  <2>1. mapping \in [Slots -> Spools \cup {Null}] /\ TypeOK
    BY ReadMappingType DEF PrinterInv, PrinterTypeOK
  <2> HIDE DEF mapping
  <2> QED
    BY <1>0, <2>1, UpsertAllSteps
<1>2. UNCHANGED printer \/ WritePrinter(p, printer[p])
  BY DEF MockSync
<1>3. /\ printer' \in [Printers -> PrinterRow]
      /\ \A q \in Printers : /\ LivePrinter(q) => LivePrinter(q)'
                             /\ printer[q].row # "none" => printer'[q].row # "none"
  <2> PICK mode \in Modes : printer[p] = [printer[p] EXCEPT !.mode = mode]
    BY TouchIsPatch
  <2>1. UNCHANGED printer \/ WritePrinter(p, [printer[p] EXCEPT !.mode = mode])
    BY <1>2
  <2> QED
    BY <1>0, <2>1, Touched
<1>4. TypeOK' /\ ActiveTagsAgree'
  <2>1. CASE UNCHANGED usage
    BY <1>0, <1>1, <2>1, SlotsOnly
  <2>2. CASE ~UNCHANGED usage
    <3> PICK x \in ListedSlots(p), e \in Events, d \in Candidates :
          /\ LiveSpool(mapping[x])
          /\ slot[x].mapped_spool # Null
          /\ InsertUsage(e, NewUsage(mapping[x], "pending", d, spool[mapping[x]].remaining,
                                     ClampAtZero(spool[mapping[x]].remaining + d)))
      BY <2>2 DEF MockSync
    <3>1. mapping[x] \in Spools
      BY DEF ReadMapping, ListedSlots, SlotsOf, PrinterInv, PrinterTypeOK, TypeOK, SlotRow
    <3> PICK s \in Spools : s = mapping[x]
      BY <3>1
    <3> HIDE DEF mapping
    <3> QED
      BY <1>0, <1>1, CandidateType
  <2> QED
    BY <2>1, <2>2
<1>5. ShownInv' /\ DeletedPrinterHasNoSlots'
  BY <1>0, <1>1, <1>3, ShownStep, LiveStep
<1>6. Reported
  <2>1. ASSUME NEW x \in Slots, MapsDeletedSpool(x)' PROVE MapsDeletedSpool(x)
    <3>1. CASE x \notin observed
      BY <1>0, <1>1, <2>1, <3>1 DEF MapsDeletedSpool, LiveSpool
    <3>2. CASE x \in observed
      <4>1. slot'[x].mapped_spool = ReadMapping(p)[x] /\ slot'[x].mapped_spool # Null
        BY <1>1, <2>1, <3>2 DEF MapsDeletedSpool
      <4>2. slot'[x].mapped_spool = slot[x].mapped_spool /\ slot[x].row = "live"
        BY <4>1 DEF ReadMapping, ListedSlots, LiveSlot
      <4> QED
        BY <1>0, <2>1, <4>2 DEF MapsDeletedSpool, LiveSpool
    <3> QED
      BY <3>1, <3>2
  <2> QED
    BY <2>1 DEF Reported
<1> QED
  BY <1>0, <1>3, <1>4, <1>5, <1>6 DEF PrinterInv, PrinterTypeOK, SyncRow

\* A report arrives, for a printer that is live or not.
LEMMA ReportStep ==
  ASSUME PrinterInv, NEW r \in Syncs, NEW observed \in SUBSET Slots,
         FinishSync(r, observed) \/ FinishSyncDeleted(r, observed)
  PROVE  PrinterInv' /\ Reported
<1> PICK p \in Printers : p = sync[r].printer
  BY DEF FinishSync, FinishSyncDeleted, PrinterInv, PrinterTypeOK, SyncRow
<1>0. /\ UNCHANGED <<catalog, spool, usage, tag, clock, seen, opening, shown>>
      /\ observed \in SUBSET SlotsOf(p)
      /\ UpsertAll(observed, sync[r].mapping)
      /\ sync' = [sync EXCEPT ![r] = NoSync]
      /\ LivePrinter(p) \/ \A x \in observed : slot[x].row # "none"
  BY DEF FinishSync, FinishSyncDeleted
<1>1. /\ slot' \in [Slots -> SlotRow]
      /\ \A x \in Slots : SlotStep(x)
      /\ \A x \in observed : slot'[x].mapped_spool = sync[r].mapping[x]
      /\ \A x \in Slots \ observed : slot'[x] = slot[x]
  <2>1. sync[r].mapping \in [Slots -> Spools \cup {Null}] /\ TypeOK
    BY DEF PrinterInv, PrinterTypeOK, SyncRow
  <2> QED
    BY <1>0, <2>1, UpsertAllSteps
<1>2. /\ printer' \in [Printers -> PrinterRow]
      /\ \A q \in Printers : /\ LivePrinter(q) => LivePrinter(q)'
                             /\ printer[q].row # "none" => printer'[q].row # "none"
  <2>1. CASE UNCHANGED printer
    BY <2>1 DEF PrinterInv, PrinterTypeOK, LivePrinter
  <2>2. CASE LivePrinter(p) /\ WritePrinter(p, printer[p])
    <3> PICK mode \in Modes : printer[p] = [printer[p] EXCEPT !.mode = mode]
      BY TouchIsPatch
    <3>1. WritePrinter(p, [printer[p] EXCEPT !.mode = mode])
      BY <2>2
    <3> QED
      BY <2>2, <3>1, Touched
  <2> QED
    BY <2>1, <2>2 DEF FinishSync, FinishSyncDeleted
<1>3. /\ sync' \in [Syncs -> SyncRow]
      /\ sync'[r] = NoSync
      /\ \A q \in Syncs : sync'[q].printer # Null => printer'[sync'[q].printer].row # "none"
  <2>1. NoSync \in SyncRow /\ NoSync.printer = Null
    BY DEF NoSync, SyncRow
  <2>2. /\ sync' \in [Syncs -> SyncRow]
        /\ sync'[r] = NoSync
        /\ \A q \in Syncs : q # r => sync'[q] = sync[q]
    BY <1>0, <2>1 DEF PrinterInv, PrinterTypeOK
  <2> QED
    BY <1>2, <2>1, <2>2 DEF PrinterInv, PrinterTypeOK, SyncRow
<1>4. TypeOK' /\ ActiveTagsAgree'
  BY <1>0, <1>1, SlotsOnly
<1>5. ShownInv' /\ DeletedPrinterHasNoSlots'
  BY <1>0, <1>1, <1>2, ShownStep, LiveStep
<1>6. Reported
  <2>1. ASSUME NEW x \in Slots, MapsDeletedSpool(x)', x \notin observed
        PROVE  MapsDeletedSpool(x)
    BY <1>0, <1>1, <2>1 DEF MapsDeletedSpool, LiveSpool
  <2>2. \A x \in observed : sync[r].printer = PrinterOf[x]
    BY <1>0 DEF SlotsOf
  <2> QED
    BY <1>1, <1>3, <2>1, <2>2 DEF Reported
<1> QED
  BY <1>0, <1>2, <1>3, <1>4, <1>5, <1>6 DEF PrinterInv, PrinterTypeOK

LEMMA RepositoryStep ==
  ASSUME PrinterInv, RepositoryNext
  PROVE  PrinterInv' /\ Reported
<1>0. [Next]_vars /\ UNCHANGED <<printer, sync, shown>>
  BY DEF RepositoryNext, printerVars
<1>1. TypeOK' /\ ActiveTagsAgree'
  BY <1>0, TypeStep, AgreeStep DEF PrinterInv, PrinterTypeOK
<1>2. slot' \in [Slots -> SlotRow] /\ \A x \in Slots : slot[x].mapped_spool \in Spools \cup {Null}
  BY <1>1 DEF TypeOK, PrinterInv, PrinterTypeOK, SlotRow
<1>3. (\A x \in Slots : SlotStep(x)) /\ Reported
  <2>1. CASE UNCHANGED slot /\ \A s \in Spools : LiveSpool(s) => LiveSpool(s)'
    BY <1>2, <2>1 DEF SlotStep, Reported, MapsDeletedSpool, LiveSpool
  <2>2. ASSUME NEW s \in Spools, Retires(s)
        PROVE  (\A x \in Slots : SlotStep(x)) /\ Reported
    <3>1. ASSUME NEW x \in Slots
          PROVE  /\ SlotStep(x)
                 /\ \/ slot'[x].mapped_spool = Null
                    \/ /\ slot'[x] = slot[x]
                       /\ slot[x].row = "live" => slot[x].mapped_spool # s
      <4>1. CASE slot[x].mapped_spool = s /\ slot[x].row = "live"
        <5>1. slot'[x] = Unmap(slot[x])
          BY <2>2, <4>1 DEF Retires
        <5>2. Unmap(slot[x]) = [Unmap(slot[x]) EXCEPT !.row = "live"]
          BY <4>1 DEF Unmap, PrinterInv, PrinterTypeOK, TypeOK, SlotRow
        <5>3. slot'[x] = [Unmap(slot[x]) EXCEPT !.row = "live"]
          BY <5>1, <5>2
        <5> QED
          BY <4>1, <5>3, UnmapStep DEF LiveSlot, PrinterInv, PrinterTypeOK
      <4>2. CASE ~(slot[x].mapped_spool = s /\ slot[x].row = "live")
        BY <2>2, <4>2 DEF Retires, SlotStep
      <4> QED
        BY <4>1, <4>2
    <3>2. ASSUME NEW x \in Slots, MapsDeletedSpool(x)' PROVE MapsDeletedSpool(x)
      BY <1>2, <2>2, <3>1, <3>2 DEF MapsDeletedSpool, Retires, LiveSpool
    <3> QED
      BY <3>1, <3>2 DEF Reported
  <2> QED
    BY <1>0, <2>1, <2>2, RepositorySlots DEF PrinterInv, PrinterTypeOK
<1>4. ShownInv' /\ DeletedPrinterHasNoSlots'
  BY <1>0, <1>2, <1>3, ShownStep, LiveStep DEF LivePrinter
<1> QED
  BY <1>0, <1>1, <1>3, <1>4 DEF PrinterInv, PrinterTypeOK

LEMMA StutterStep ==
  ASSUME PrinterInv, UNCHANGED allVars
  PROVE  PrinterInv' /\ Reported
<1>0. UNCHANGED vars /\ UNCHANGED <<printer, sync, shown>>
  BY DEF allVars, printerVars
<1>1. /\ TypeOK' /\ ActiveTagsAgree' /\ Reported
      /\ slot' \in [Slots -> SlotRow]
      /\ \A x \in Slots : SlotStep(x)
  BY <1>0, VarsSame
<1>2. ShownInv' /\ DeletedPrinterHasNoSlots'
  BY <1>0, <1>1, ShownStep, LiveStep DEF LivePrinter
<1> QED
  BY <1>0, <1>1, <1>2 DEF PrinterInv, PrinterTypeOK
-----------------------------------------------------------------------------
(***************************************************************************)
(* The theorems                                                            *)
(***************************************************************************)
LEMMA PrinterInitial == PrinterInit => PrinterInv
<1> SUFFICES ASSUME PrinterInit PROVE PrinterInv
  OBVIOUS
<1>1. TypeOK /\ ActiveTagsAgree
  BY TypeInit, AgreeInit DEF PrinterInit
<1>2. NoPrinter \in PrinterRow /\ NoSync \in SyncRow /\ NoSlot \in SlotRow
  BY DEF NoPrinter, PrinterRow, RowStates, Modes, NoSync, SyncRow, NoSlot, SlotRow
<1>3. PrinterTypeOK
  BY <1>1, <1>2 DEF PrinterInit, PrinterTypeOK, NoSync
<1>4. DeletedPrinterHasNoSlots /\ ShownInv
  BY DEF PrinterInit, Init, DeletedPrinterHasNoSlots, LiveSlot, NoSlot, ShownInv, NoLostMapping
<1> QED
  BY <1>1, <1>3, <1>4 DEF PrinterInv

LEMMA PrinterStep ==
  ASSUME PrinterInv, [SyncNext]_allVars
  PROVE  PrinterInv' /\ Reported
<1>1. CASE PrinterNext
  BY <1>1, CreatePrinterStep, TouchStep, DeletePrinterStep, MockStep, SyncOnlyStep,
     FetchStep, MapStep, ReportStep
  DEF PrinterNext
<1> QED
  BY <1>1, RepositoryStep, StutterStep DEF SyncNext

LEMMA PrinterInvariant == SyncSpec => []PrinterInv
BY PrinterInitial, PrinterStep, PTL DEF SyncSpec

\* The columns keep their types, and a request that waits for a report names a
\* printer that has a row.
THEOREM PrinterTypes == SyncSpec => []PrinterTypeOK
<1>1. PrinterInv => PrinterTypeOK
  BY DEF PrinterInv
<1> QED
  BY <1>1, PrinterInvariant, PTL

\* However many reports arrive after a printer was deleted, and whatever they
\* observed, none of its slots is live.
THEOREM DeletedPrintersEmpty == SyncSpec => []DeletedPrinterHasNoSlots
<1>1. PrinterInv => DeletedPrinterHasNoSlots
  BY DEF PrinterInv
<1> QED
  BY <1>1, PrinterInvariant, PTL

\* Between two restores, a client's mapping request that passes assertVersion
\* overwrites no mapping it was not shown, whatever number of syncs and clients
\* write slots.
THEOREM MappingsNotLost == SyncSpec => []NoLostMapping
<1>1. PrinterInv => NoLostMapping
  BY DEF PrinterInv, ShownInv
<1> QED
  BY <1>1, PrinterInvariant, PTL

\* Only a report that arrives with the mapping its request read before maps a
\* live slot to a spool that is deleted.
THEOREM ReportsMapDeleted == SyncSpec => OnlyReportsMapDeletedSpools
<1> DEFINE Step ==
      \A x \in Slots : MapsDeletedSpool(x)' =>
        \/ MapsDeletedSpool(x)
        \/ \E r \in Syncs : /\ sync[r].printer = PrinterOf[x]
                            /\ sync'[r] = NoSync
                            /\ slot'[x].mapped_spool = sync[r].mapping[x]
<1>1. ASSUME PrinterInv, [SyncNext]_allVars PROVE Step
  BY <1>1, PrinterStep DEF Reported
<1>2. PrinterInv /\ [SyncNext]_allVars => [Step]_allVars
  BY <1>1
<1> QED
  BY <1>2, PrinterInvariant, PTL DEF SyncSpec, OnlyReportsMapDeletedSpools
=============================================================================
