------------------------------ MODULE Repository ------------------------------
(***************************************************************************)
(* The inventory tables of the FilamentBridge server and the operations of *)
(* FilamentBridgeRepository (packages/db/src/index.ts) on them: filament   *)
(* catalog items, spools, the usage events that are the ledger of a        *)
(* spool's weight, and the NFC companion tags.                             *)
(*                                                                         *)
(* The database is synchronous and the server runs on one thread, so an    *)
(* operation is one step: it either commits all it writes or throws and    *)
(* changes nothing, and a throw is not modelled as a step.  The module is  *)
(* about the time between two restores of a backup, which replace all the  *)
(* tables (InventoryRestore, which has the specification), and leaves out  *)
(* the adjustments of POST /api/sync/events, whose weights no schema       *)
(* checks (OfflineSync).                                                   *)
(*                                                                         *)
(* Identifiers are random UUIDs: an operation that inserts a row takes any *)
(* identifier of the constant set that was never used.  A row is a record; *)
(* columns no guard reads (names, colours, notes, prices) are left out.    *)
(***************************************************************************)
EXTENDS Integers, FiniteSetsExt

CONSTANTS
  Clients,     \* API clients: browsers and phones
  Catalogs,    \* identifiers of catalog items
  Spools,      \* identifiers of spools
  Events,      \* identifiers of usage events
  Tags,        \* companion tags: a UID hash has at most one row
  Slots,       \* identifiers of printer slots
  Null,        \* the SQL null of the nullable columns
  MaxGrams,    \* largest weight a request body may hold (gramsSchema)
  Candidates,  \* weight changes of usage candidates: a connector reports use
  EditDeltas,  \* weight changes an edited event may name
  MaxVersion,  \* bound: no row is written beyond this version
  MaxTime      \* bound: the last reading of the server's clock

ASSUME NullAssumption ==
  Null \notin Catalogs \cup Spools \cup Tags

ASSUME NullTimeAssumption == Null \notin Nat   \* no timestamp is null

ASSUME BoundAssumption ==
  /\ MaxGrams \in Nat
  /\ Candidates \subseteq Int
  /\ \A d \in Candidates : d <= 0   \* the only one the connectors make is -12
  /\ EditDeltas \subseteq Int
  /\ MaxVersion \in Nat
  /\ MaxTime \in Nat

VARIABLES
  catalog,  \* catalog_items
  spool,    \* spools
  usage,    \* usage_events
  tag,      \* nfc_tags
  slot,     \* printer_slots: only the mapping matters to the inventory
  clock,    \* the server's clock, what nowIso() returns
  seen,     \* seen[c][s]: the row of spool s client c fetched last
  opening   \* history variable: the remaining weight a spool was created with

vars == <<catalog, spool, usage, tag, slot, clock, seen, opening>>

Grams == 0..MaxGrams
-----------------------------------------------------------------------------
(***************************************************************************)
(* Rows.  deleted_at is the soft delete: a deleted row stays in its table. *)
(***************************************************************************)
RowStates == {"none", "live", "deleted"}

CatalogRow == [row: RowStates, version: Nat]

SpoolRow == [row: RowStates, version: Nat, catalog: Catalogs \cup {Null},
             initial: Int, remaining: Int, active_tag: Tags \cup {Null},
             updated_at: Nat]

ReviewStates == {"none", "pending", "auto_approved", "approved", "edited", "rejected"}
AppliedStates == {"auto_approved", "approved", "edited"}

UsageRow == [status: ReviewStates, spool: Spools \cup {Null},
             delta: Int, before: Int, after: Int]

TagStates == {"none", "assigned", "stale", "retired"}
ActiveTagStates == {"assigned", "stale"}

TagRow == [status: TagStates, version: Nat, assigned_spool: Spools \cup {Null},
           last_written_at: Nat \cup {Null}]

SlotRow == [row: RowStates, version: Nat, mapped_spool: Spools \cup {Null}]

NoCatalog == [row |-> "none", version |-> 0]
NoSpool == [row |-> "none", version |-> 0, catalog |-> Null, initial |-> 0,
            remaining |-> 0, active_tag |-> Null, updated_at |-> 0]
NoUsage == [status |-> "none", spool |-> Null, delta |-> 0, before |-> 0, after |-> 0]
NoTag == [status |-> "none", version |-> 0, assigned_spool |-> Null,
          last_written_at |-> Null]
NoSlot == [row |-> "none", version |-> 0, mapped_spool |-> Null]

Init ==
  /\ catalog = [k \in Catalogs |-> NoCatalog]
  /\ spool = [s \in Spools |-> NoSpool]
  /\ usage = [e \in Events |-> NoUsage]
  /\ tag = [t \in Tags |-> NoTag]
  /\ slot = [x \in Slots |-> NoSlot]
  /\ clock = 0
  /\ seen = [c \in Clients |-> [s \in Spools |-> NoSpool]]
  /\ opening = [s \in Spools |-> 0]
-----------------------------------------------------------------------------
(***************************************************************************)
(* Helpers                                                                 *)
(***************************************************************************)

\* getSpool and getCatalogItem throw not_found on a missing or deleted row.
LiveSpool(s) == spool[s].row = "live"
LiveCatalog(k) == catalog[k].row = "live"

\* assertVersion with the version of the row the client fetched.
VersionMatches(c, s) ==
  /\ LiveSpool(s)
  /\ seen[c][s].version = spool[s].version

\* assertSpoolWeightInvariant on the weights of a row about to be written.
WeightInvariant(initial, remaining) == remaining <= initial

\* Mutant of WriteSpool: the version is not raised.
WriteSpoolSameVersion(s, row) ==
  spool' = [spool EXCEPT ![s] = [row EXCEPT !.updated_at = clock]]

\* SPOOL_UPDATE_SQL: version + 1, updated_at = now.  Every write of a spool that
\* is there, but for a restore, which inserts it anew.
WriteSpool(s, row) ==
  /\ spool[s].version < MaxVersion
  /\ spool' = [spool EXCEPT ![s] =
                [row EXCEPT !.version = spool[s].version + 1, !.updated_at = clock]]

\* The three writes of a tag's row; each raises its version.
SetStatus(row, status) == [row EXCEPT !.status = status, !.version = @ + 1]

AssignTo(row, s) ==
  [row EXCEPT !.status = "assigned", !.assigned_spool = s, !.version = @ + 1]

MarkWritten(row, now) ==
  [row EXCEPT !.status = "assigned", !.last_written_at = now, !.version = @ + 1]

\* A slot whose spool is deleted.
Unmap(row) == [row EXCEPT !.mapped_spool = Null, !.version = @ + 1]

NewUsage(s, status, delta, before, after) ==
  [status |-> status, spool |-> s, delta |-> delta, before |-> before, after |-> after]

\* insertUsageEvent: a row with an identifier never used.
InsertUsage(e, row) ==
  /\ usage[e].status = "none"
  /\ usage' = [usage EXCEPT ![e] = row]

ClampAtZero(n) == IF n < 0 THEN 0 ELSE n
-----------------------------------------------------------------------------
(***************************************************************************)
(* Catalog                                                                 *)
(***************************************************************************)
\* importCatalogItems creates all the items of a request or none.
ImportCatalogItems(new) ==
  /\ \A k \in new : catalog[k].row = "none"
  /\ catalog' = [k \in Catalogs |->
                   IF k \in new THEN [row |-> "live", version |-> 1] ELSE catalog[k]]
  /\ UNCHANGED <<spool, usage, tag, slot, clock, seen, opening>>

CreateCatalogItem(k) == ImportCatalogItems({k})

UpdateCatalogItem(k, expected) ==
  /\ LiveCatalog(k)
  /\ catalog[k].version = expected
  /\ expected < MaxVersion
  /\ catalog' = [catalog EXCEPT ![k].version = expected + 1]
  /\ UNCHANGED <<spool, usage, tag, slot, clock, seen, opening>>

\* Refused while a live spool refers to the item.
DeleteCatalogItem(k, expected) ==
  /\ LiveCatalog(k)
  /\ catalog[k].version = expected
  /\ expected < MaxVersion
  /\ \A s \in Spools : LiveSpool(s) => spool[s].catalog # k
  /\ catalog' = [catalog EXCEPT ![k] = [row |-> "deleted", version |-> expected + 1]]
  /\ UNCHANGED <<spool, usage, tag, slot, clock, seen, opening>>
-----------------------------------------------------------------------------
(***************************************************************************)
(* Spools                                                                  *)
(***************************************************************************)
CreateSpool(s, k, initial, remaining) ==
  /\ spool[s].row = "none"
  /\ WeightInvariant(initial, remaining)
  /\ LiveCatalog(k)
  /\ spool' = [spool EXCEPT ![s] =
                [row |-> "live", version |-> 1, catalog |-> k, initial |-> initial,
                 remaining |-> remaining, active_tag |-> Null, updated_at |-> clock]]
  /\ opening' = [opening EXCEPT ![s] = remaining]
  /\ UNCHANGED <<catalog, usage, tag, slot, clock, seen>>

\* A client fetches a live spool: GET /api/spools and /api/spools/:id.
FetchSpool(c, s) ==
  /\ LiveSpool(s)
  /\ seen' = [seen EXCEPT ![c][s] = spool[s]]
  /\ UNCHANGED <<catalog, spool, usage, tag, slot, clock, opening>>

\* Mutant of UpdateSpool: the new initial weight is not compared.
UpdateUnchecked(c, s, k, initial) ==
  /\ VersionMatches(c, s)
  /\ catalog[k].row # "none"
  /\ WriteSpool(s, [spool[s] EXCEPT !.catalog = k, !.initial = initial])
  /\ UNCHANGED <<catalog, usage, tag, slot, clock, seen, opening>>

\* The patch may name any catalog item the foreign key accepts, deleted or
\* not: updateSpool, unlike createSpool, does not call getCatalogItem.
UpdateSpool(c, s, k, initial) ==
  /\ VersionMatches(c, s)
  /\ catalog[k].row # "none"
  /\ WeightInvariant(initial, spool[s].remaining)
  /\ WriteSpool(s, [spool[s] EXCEPT !.catalog = k, !.initial = initial])
  /\ UNCHANGED <<catalog, usage, tag, slot, clock, seen, opening>>

\* Retiring is deleting.  The same transaction retires the spool's tags and
\* clears the live slots mapped to it.
DeleteSpool(c, s) ==
  /\ VersionMatches(c, s)
  /\ WriteSpool(s, [spool[s] EXCEPT !.row = "deleted", !.active_tag = Null])
  /\ tag' = [t \in Tags |->
               IF tag[t].assigned_spool = s /\ tag[t].status # "retired"
               THEN SetStatus(tag[t], "retired")
               ELSE tag[t]]
  /\ slot' = [x \in Slots |->
                IF slot[x].mapped_spool = s /\ slot[x].row = "live"
                THEN Unmap(slot[x])
                ELSE slot[x]]
  /\ UNCHANGED <<catalog, usage, clock, seen, opening>>
-----------------------------------------------------------------------------
(***************************************************************************)
(* Usage events: the ledger of a spool's remaining weight                  *)
(***************************************************************************)

\* Mutant of AdjustWeight: any version of the spool will do.
AdjustAnyVersion(s, expected, e, weight) ==
  LET before == spool[s].remaining IN
  /\ LiveSpool(s)
  /\ weight <= spool[s].initial
  /\ WriteSpool(s, [spool[s] EXCEPT !.remaining = weight])
  /\ InsertUsage(e, NewUsage(s, "auto_approved", weight - before, before, weight))
  /\ UNCHANGED <<catalog, tag, slot, clock, seen, opening>>

\* manualAdjustment checks the new weight against the initial weight only.
AdjustWeight(s, expected, e, weight) ==
  LET before == spool[s].remaining IN
  /\ LiveSpool(s)
  /\ spool[s].version = expected
  /\ weight <= spool[s].initial
  /\ WriteSpool(s, [spool[s] EXCEPT !.remaining = weight])
  /\ InsertUsage(e, NewUsage(s, "auto_approved", weight - before, before, weight))
  /\ UNCHANGED <<catalog, tag, slot, clock, seen, opening>>

\* POST /api/usage-events/adjustment with the version the client fetched.
ManualAdjustment(c, s, e, weight) == AdjustWeight(s, seen[c][s].version, e, weight)

\* A usage candidate of a printer: the event waits for review with a preview
\* of its effect, the spool does not change.
CreatePendingUsageEvent(s, e, delta) ==
  LET before == spool[s].remaining IN
  /\ LiveSpool(s)
  /\ InsertUsage(e, NewUsage(s, "pending", delta, before, ClampAtZero(before + delta)))
  /\ UNCHANGED <<catalog, spool, tag, slot, clock, seen, opening>>

\* Mutants of ApplyUsageEvent: the previewed weight is written, the check for
\* a negative weight is dropped, the event keeps the before weight of its preview.
ApplyPreview(c, e, delta, status, checked) ==
  LET s == usage[e].spool IN
  /\ usage[e].status = "pending"
  /\ LiveSpool(s)
  /\ checked => VersionMatches(c, s)
  /\ WriteSpool(s, [spool[s] EXCEPT !.remaining = usage[e].after])
  /\ usage' = [usage EXCEPT ![e].status = status]
  /\ UNCHANGED <<catalog, tag, slot, clock, seen, opening>>

ApplyUnchecked(c, e, delta, status, checked) ==
  LET s == usage[e].spool
      before == spool[s].remaining
  IN
  /\ usage[e].status = "pending"
  /\ LiveSpool(s)
  /\ checked => VersionMatches(c, s)
  /\ WriteSpool(s, [spool[s] EXCEPT !.remaining = before + delta])
  /\ usage' = [usage EXCEPT ![e] = NewUsage(s, status, delta, before, before + delta)]
  /\ UNCHANGED <<catalog, tag, slot, clock, seen, opening>>

ApplyKeepsBefore(c, e, delta, status, checked) ==
  LET s == usage[e].spool
      after == spool[s].remaining + delta
  IN
  /\ usage[e].status = "pending"
  /\ LiveSpool(s)
  /\ checked => VersionMatches(c, s)
  /\ after >= 0
  /\ WriteSpool(s, [spool[s] EXCEPT !.remaining = after])
  /\ usage' = [usage EXCEPT ![e] = NewUsage(s, status, delta, usage[e].before, after)]
  /\ UNCHANGED <<catalog, tag, slot, clock, seen, opening>>

\* applyUsageEvent: the delta is applied to the spool as it is now, whatever
\* the preview said.  checked: the request carried the expected spool version.
ApplyUsageEvent(c, e, delta, status, checked) ==
  LET s == usage[e].spool
      before == spool[s].remaining
  IN
  /\ usage[e].status = "pending"
  /\ LiveSpool(s)
  /\ checked => VersionMatches(c, s)
  /\ before + delta >= 0
  /\ WriteSpool(s, [spool[s] EXCEPT !.remaining = before + delta])
  /\ usage' = [usage EXCEPT ![e] = NewUsage(s, status, delta, before, before + delta)]
  /\ UNCHANGED <<catalog, tag, slot, clock, seen, opening>>

ApproveUsageEvent(c, e, checked) ==
  ApplyUsageEvent(c, e, usage[e].delta, "approved", checked)

EditAndApproveUsageEvent(c, e, delta, checked) ==
  ApplyUsageEvent(c, e, delta, "edited", checked)

\* Mutants of RejectUsageEvent: no check that the event is pending, or that
\* there is one.
RejectReviewedEvent(e) ==
  /\ usage[e].status # "none"
  /\ usage' = [usage EXCEPT ![e].status = "rejected"]
  /\ UNCHANGED <<catalog, spool, tag, slot, clock, seen, opening>>

RejectUsageEvent(e) ==
  /\ usage[e].status = "pending"
  /\ usage' = [usage EXCEPT ![e].status = "rejected"]
  /\ UNCHANGED <<catalog, spool, tag, slot, clock, seen, opening>>
-----------------------------------------------------------------------------
(***************************************************************************)
(* Companion tags                                                          *)
(***************************************************************************)

\* Mutant of AssignNfcTag: the tag the spool had stays in use.
AssignKeepsOldTag(c, s, t) ==
  /\ VersionMatches(c, s)
  /\ ~(tag[t].status \in ActiveTagStates /\ tag[t].assigned_spool # s)
  /\ tag[t].version < MaxVersion
  /\ tag' = [tag EXCEPT ![t] = AssignTo(@, s)]
  /\ WriteSpool(s, [spool[s] EXCEPT !.active_tag = t])
  /\ UNCHANGED <<catalog, usage, slot, clock, seen, opening>>

\* assignNfcTag: the spool's active tag is retired, then the row of the tag
\* is inserted or written over (computed from the row read at the start), and
\* becomes the spool's active tag.
AssignNfcTag(c, s, t) ==
  LET old == spool[s].active_tag IN
  /\ VersionMatches(c, s)
  /\ ~(tag[t].status \in ActiveTagStates /\ tag[t].assigned_spool # s)
  /\ tag[t].version < MaxVersion
  /\ tag' = [u \in Tags |->
               CASE u = t -> AssignTo(tag[t], s)
                 [] u # t /\ u = old -> SetStatus(tag[u], "retired")
                 [] OTHER -> tag[u]]
  /\ WriteSpool(s, [spool[s] EXCEPT !.active_tag = t])
  /\ UNCHANGED <<catalog, usage, slot, clock, seen, opening>>

\* POST /api/nfc/write-payload: the server signs a payload for the phone to
\* write and records the write (recordTagWrite) before the phone has made it.
WritePayload(c, s, t, force) ==
  /\ tag[t].status # "none"
  /\ VersionMatches(c, s)
  /\ tag[t].assigned_spool = s
  /\ spool[s].active_tag = t
  /\ tag[t].status = "stale" => force
  /\ LiveCatalog(spool[s].catalog)
  /\ tag[t].status # "retired"
  /\ tag[t].version < MaxVersion
  /\ tag' = [tag EXCEPT ![t] = MarkWritten(@, clock)]
  /\ UNCHANGED <<catalog, spool, usage, slot, clock, seen, opening>>

\* The spool was written after the tag was.
IsStale(t) ==
  /\ tag[t].last_written_at # Null
  /\ spool[tag[t].assigned_spool].updated_at > tag[t].last_written_at

\* The status a scan leaves: a retired tag stays retired.
ScannedStatus(t) ==
  CASE tag[t].status = "retired" -> "retired"
    [] tag[t].status # "retired" /\ IsStale(t) -> "stale"
    [] OTHER -> "assigned"

\* Mutant of ScanTag: the scan is recorded as a write.
ScanIsWrite(t) ==
  /\ tag[t].status # "none"
  /\ tag[t].status # "retired" => LiveSpool(tag[t].assigned_spool)
  /\ tag[t].version < MaxVersion
  /\ tag' = [tag EXCEPT ![t] = MarkWritten(@, clock)]
  /\ UNCHANGED <<catalog, spool, usage, slot, clock, seen, opening>>

\* POST /api/nfc/scan of a known tag with a payload that verifies.  A blank,
\* foreign or unverifiable payload and an unknown tag change nothing.
ScanTag(t) ==
  /\ tag[t].status # "none"
  /\ tag[t].status # "retired" => LiveSpool(tag[t].assigned_spool)
  /\ tag[t].version < MaxVersion
  /\ tag' = [tag EXCEPT ![t] = SetStatus(@, ScannedStatus(t))]
  /\ UNCHANGED <<catalog, spool, usage, slot, clock, seen, opening>>

\* retireTag throws not_found when the tag's spool is deleted.
RetireTag(t, expected) ==
  LET s == tag[t].assigned_spool IN
  /\ tag[t].status # "none"
  /\ tag[t].version = expected
  /\ expected < MaxVersion
  /\ LiveSpool(s)
  /\ tag' = [tag EXCEPT ![t] = SetStatus(@, "retired")]
  /\ IF spool[s].active_tag = t
     THEN WriteSpool(s, [spool[s] EXCEPT !.active_tag = Null])
     ELSE UNCHANGED spool
  /\ UNCHANGED <<catalog, usage, slot, clock, seen, opening>>

\* Time passes between two requests; two may share a millisecond.
Tick ==
  /\ clock < MaxTime
  /\ clock' = clock + 1
  /\ UNCHANGED <<catalog, spool, usage, tag, slot, seen, opening>>
-----------------------------------------------------------------------------
(***************************************************************************)
(* The requests, with the inputs the request schemas let through           *)
(***************************************************************************)
Versions == 1..MaxVersion

CatalogNext ==
  \/ \E new \in SUBSET Catalogs : ImportCatalogItems(new)
  \/ \E k \in Catalogs :
       \/ CreateCatalogItem(k)
       \/ \E v \in Versions : UpdateCatalogItem(k, v) \/ DeleteCatalogItem(k, v)

SpoolNext ==
  \E s \in Spools :
    \/ \E k \in Catalogs, initial, remaining \in Grams :
         CreateSpool(s, k, initial, remaining)
    \/ \E c \in Clients :
         \/ FetchSpool(c, s)
         \/ \E k \in Catalogs, initial \in Grams : UpdateSpool(c, s, k, initial)
         \/ DeleteSpool(c, s)

UsageNext ==
  \E e \in Events :
    \/ \E c \in Clients, s \in Spools, w \in Grams : ManualAdjustment(c, s, e, w)
    \/ \E s \in Spools, d \in Candidates : CreatePendingUsageEvent(s, e, d)
    \/ \E c \in Clients, checked \in BOOLEAN :
         \/ ApproveUsageEvent(c, e, checked)
         \/ \E d \in EditDeltas : EditAndApproveUsageEvent(c, e, d, checked)
    \/ RejectUsageEvent(e)

TagNext ==
  \E t \in Tags :
    \/ \E c \in Clients, s \in Spools :
         \/ AssignNfcTag(c, s, t)
         \/ \E force \in BOOLEAN : WritePayload(c, s, t, force)
    \/ ScanTag(t)
    \/ \E v \in Versions : RetireTag(t, v)

Next == CatalogNext \/ SpoolNext \/ UsageNext \/ TagNext \/ Tick
-----------------------------------------------------------------------------
(***************************************************************************)
(* Properties                                                              *)
(***************************************************************************)

\* The columns have the types of the schema (packages/db SCHEMA_SQL), and the
\* rows of events and tags that exist are the ones that name a spool.
TypeOK ==
  /\ catalog \in [Catalogs -> CatalogRow]
  /\ spool \in [Spools -> SpoolRow]
  /\ usage \in [Events -> UsageRow]
  /\ tag \in [Tags -> TagRow]
  /\ slot \in [Slots -> SlotRow]
  /\ clock \in Nat
  /\ seen \in [Clients -> [Spools -> SpoolRow]]
  /\ opening \in [Spools -> Int]
  /\ \A e \in Events : usage[e].status # "none" <=> usage[e].spool \in Spools
  /\ \A t \in Tags : tag[t].status # "none" <=> tag[t].assigned_spool \in Spools

\* Weight changes are event-backed: a spool's remaining weight is the weight
\* it was created with plus the deltas of its applied events, whatever
\* adjustments, approvals, edits and rejections were interleaved, and also
\* after it was deleted (manualAdjustment, applyUsageEvent, updateSpool).
LedgerBalanced ==
  \A s \in Spools : spool[s].row # "none" =>
    LET applied == {e \in Events : usage[e].spool = s /\ usage[e].status \in AppliedStates}
    IN spool[s].remaining =
         opening[s] + MapThenSumSet(LAMBDA e : usage[e].delta, applied)

\* No sequence of requests whose weights gramsSchema has passed makes a weight
\* negative: manualAdjustment itself does not refuse one, the schema of
\* POST /api/usage-events/adjustment does.  (POST /api/sync/events has no such
\* schema: OfflineSync.)
RemainingNonNegative == \A s \in Spools : spool[s].remaining >= 0

\* A spool's active tag and a tag's assigned spool agree: the active tag of a
\* spool is a tag in use that points back at it, and a tag in use is the
\* active tag of the live spool it points at.  So a spool has at most one tag
\* in use, two spools never share one, and a deleted spool has none.
ActiveTagsAgree ==
  /\ \A s \in Spools : spool[s].active_tag # Null =>
       /\ tag[spool[s].active_tag].status \in ActiveTagStates
       /\ tag[spool[s].active_tag].assigned_spool = s
  /\ \A t \in Tags : tag[t].status \in ActiveTagStates =>
       /\ LiveSpool(tag[t].assigned_spool)
       /\ spool[tag[t].assigned_spool].active_tag = t
=============================================================================
