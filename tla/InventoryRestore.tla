--------------------------- MODULE InventoryRestore ---------------------------
(***************************************************************************)
(* The inventory under backups and restores.  createExportSnapshot         *)
(* (packages/db/src/index.ts) copies the tables, restoreExportSnapshot     *)
(* deletes every row and inserts the copy in one transaction, with the     *)
(* versions the rows had then (POST /api/backup and POST /api/restore in   *)
(* apps/server/src/app.ts).  Clients are not told: what they fetched       *)
(* before, and the versions in it, they still send.                        *)
(*                                                                         *)
(* The backups are those of this server.  What a restore does to the       *)
(* signing keys, which are written after the transaction, is in            *)
(* BackupRestore; printers go the way of the other tables, and sync_events *)
(* are deleted, being in no backup.                                        *)
(***************************************************************************)
EXTENDS Repository

CONSTANT MaxBackups  \* bound: backups kept at a time

ASSUME BackupAssumption == MaxBackups \in Nat

VARIABLES
  backups,  \* the backups kept
  fetched,  \* history: fetched[c], the spools c fetched since the last restore
  issued    \* history: the identifiers ever given to a row

restoreVars == <<vars, backups, fetched, issued>>

Snapshots ==
  [catalog : [Catalogs -> CatalogRow], spool : [Spools -> SpoolRow],
   usage : [Events -> UsageRow], tag : [Tags -> TagRow], slot : [Slots -> SlotRow],
   opening : [Spools -> Int]]

\* Mutant of Tables: deleted spools are left out.
TablesWithoutDeleted ==
  [catalog |-> catalog,
   spool |-> [s \in Spools |-> IF spool[s].row = "deleted" THEN NoSpool ELSE spool[s]],
   usage |-> usage, tag |-> tag, slot |-> slot, opening |-> opening]

\* createExportSnapshot: every row, the soft-deleted ones too.
Tables == [catalog |-> catalog, spool |-> spool, usage |-> usage, tag |-> tag,
           slot |-> slot, opening |-> opening]

\* The identifiers of the rows of a snapshot.  A tag is found by the hash of its
\* UID, so its identifier may come back.
Present(b) ==
  {k \in Catalogs : b.catalog[k].row # "none"}
    \cup {s \in Spools : b.spool[s].row # "none"}
    \cup {e \in Events : b.usage[e].status # "none"}

\* exportFileSchema refuses a weight that gramsSchema does.
Restorable(b) ==
  /\ \A s \in Spools : b.spool[s].initial \in Grams /\ b.spool[s].remaining \in Grams
  /\ \A e \in Events :
       /\ b.usage[e].before \in Grams /\ b.usage[e].after \in Grams
       /\ b.usage[e].delta \in (-MaxGrams)..MaxGrams

RestoreInit ==
  /\ Init
  /\ backups = {}
  /\ fetched = [c \in Clients |-> {}]
  /\ issued = {}
-----------------------------------------------------------------------------
\* A client fetches a spool.
Fetch(c, s) ==
  /\ FetchSpool(c, s)
  /\ fetched' = [fetched EXCEPT ![c] = @ \cup {s}]
  /\ UNCHANGED <<backups, issued>>

\* Any other request of the inventory.  A new row has a new identifier, also
\* after a restore.
Request ==
  /\ UNCHANGED seen
  /\ Next
  /\ (Present(Tables)' \ Present(Tables)) \cap issued = {}
  /\ issued' = issued \cup Present(Tables)'
  /\ UNCHANGED <<backups, fetched>>

\* POST /api/backup, when any of the older files may have been thrown away.
BackUp ==
  /\ \E kept \in SUBSET backups :
       /\ Cardinality(kept) < MaxBackups
       /\ backups' = kept \cup {Tables}
  /\ UNCHANGED <<vars, fetched, issued>>

\* POST /api/restore: the tables are those of the backup, versions included.
Restore(b) ==
  /\ Restorable(b)
  /\ catalog' = b.catalog
  /\ spool' = b.spool
  /\ usage' = b.usage
  /\ tag' = b.tag
  /\ slot' = b.slot
  /\ opening' = b.opening
  /\ fetched' = [c \in Clients |-> {}]
  /\ UNCHANGED <<clock, seen, backups, issued>>

RestoreNext ==
  \/ \E c \in Clients, s \in Spools : Fetch(c, s)
  \/ Request
  \/ BackUp
  \/ \E b \in backups : Restore(b)

RestoreSpec == RestoreInit /\ [][RestoreNext]_restoreVars
-----------------------------------------------------------------------------
(***************************************************************************)
(* Properties                                                              *)
(***************************************************************************)

\* What the foreign keys of the schema ask of the tables of a snapshot.
ForeignKeys(b) ==
  LET items == {k \in Catalogs : b.catalog[k].row # "none"}
      spools == {s \in Spools : b.spool[s].row # "none"}
  IN /\ \A s \in spools : b.spool[s].catalog \in items
     /\ \A e \in Events : b.usage[e].status # "none" => b.usage[e].spool \in spools
     /\ \A t \in Tags : b.tag[t].status # "none" => b.tag[t].assigned_spool \in spools
     /\ \A x \in Slots : b.slot[x].mapped_spool \in spools \cup {Null}

\* Types, and foreign keys of the tables and of every backup: a backup has the
\* deleted rows that its other rows refer to, or its restore would be refused
\* (createExportSnapshot, listSpools(true)).
RestoreTypeOK ==
  /\ TypeOK
  /\ backups \subseteq Snapshots
  /\ fetched \in [Clients -> SUBSET Spools]
  /\ \A b \in backups \cup {Tables} : ForeignKeys(b) /\ Present(b) \subseteq issued

\* Optimistic concurrency is sound from one restore to the next: a client that
\* has fetched a spool since the last restore and sends its current version has
\* the current row, so no request of it that passes assertVersion overwrites a
\* change it has not seen, however many restores and stale rows there are
\* (between restores every write of a spool is SPOOL_UPDATE_SQL with version + 1).
NoLostUpdateSinceRestore ==
  \A c \in Clients : \A s \in fetched[c] :
    seen[c][s].version = spool[s].version => seen[c][s] = spool[s]

\* What only a restore may undo.
Restoring == \E b \in backups : Restore(b)

\* The audit trail survives: a deleted spool is never written again, and the
\* row of an applied or rejected event never changes, but by the restore of a
\* backup that is older.
History ==
  [][\/ Restoring
     \/ /\ \A s \in Spools : spool[s].row = "deleted" => spool'[s] = spool[s]
        /\ \A e \in Events :
             usage[e].status \in AppliedStates \cup {"rejected"} => usage'[e] = usage[e]]_vars

\* Only an edited usage event lifts a spool over its initial weight, and it has a
\* positive delta: adjustments, approvals and patches never do, in any order
\* (assertSpoolWeightInvariant guards them; editAndApproveUsageEvent it does not).
\* A restore brings back what an edit did before.
OnlyEditsExceedInitial ==
  [][\/ Restoring
     \/ \A s \in Spools :
          spool'[s].remaining > spool'[s].initial /\ spool[s].remaining <= spool[s].initial =>
            \E e \in Events :
              /\ usage[e].status = "pending"
              /\ usage'[e].status = "edited"
              /\ usage'[e].spool = s
              /\ usage'[e].delta > 0]_vars

\* The usage events implement an abstract ledger: an entry is a usage event
\* without the preview a pending or rejected event carries, and a backup is a
\* copy of the ledger.
StateOf(row) ==
  CASE row.row = "none" -> "new"
    [] row.row = "live" -> "open"
    [] row.row = "deleted" -> "closed"

EntryOf(u) ==
  LET Hidden(st) == [state |-> st, account |-> u.spool, delta |-> 0, before |-> 0, after |-> 0]
  IN CASE u.status = "none" -> Hidden("unused")
       [] u.status = "pending" -> Hidden("proposed")
       [] u.status = "rejected" -> Hidden("discarded")
       [] OTHER -> [state |-> "posted", account |-> u.spool, delta |-> u.delta,
                    before |-> u.before, after |-> u.after]

StatesOf(rows) == [s \in Spools |-> StateOf(rows[s])]
BalancesOf(rows) == [s \in Spools |-> rows[s].remaining]
EntriesOf(rows) == [e \in Events |-> EntryOf(rows[e])]

CopyOf(b) ==
  [state |-> StatesOf(b.spool), balance |-> BalancesOf(b.spool), entry |-> EntriesOf(b.usage)]

Ledger == INSTANCE WeightLedger WITH
  Accounts <- Spools, Entries <- Events, NoAccount <- Null,
  state <- StatesOf(spool), balance <- BalancesOf(spool), entry <- EntriesOf(usage),
  copies <- {CopyOf(b) : b \in backups}

\* Every step of the inventory is a step of the ledger or changes no weight and no
\* entry: posting is what approvals, edits and manual adjustments do, and a restore
\* goes back to a copy.
ImplementsLedger == Ledger!LedgerSpec
=============================================================================
