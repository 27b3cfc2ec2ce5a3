# FilamentBridge in TLA+

FilamentBridge keeps an inventory of 3D-printing filament: a local server
(`apps/server`, one Node process over one SQLite file), a web UI, an iOS app that
reads and writes NFC companion tags and works offline, and a connector that
reads Bambu printers over MQTT. This directory holds TLA+ modules translated
from that code, the TLC configurations that check them and the proofs that TLAPS
checks. Paths below are relative to the repository.

## 1. Inventory of the system

One fact decides what can interleave: the repository is synchronous SQLite and
the server runs on one thread, so **a request handler without an `await` is one
atomic step** for every other request. (If the process stops inside one that commits
more than once, the first writes stay: pairing, revocation, the sync batch, restore.)
Only setup, login, label rendering, test-connection and sync-now await something. Everything else that is concurrent lies outside the process: phones with
cached rows and queued edits, tags that are written later, printers that answer late.

| Component | State | Operations | Interacts with | Hard behaviours | What makes it correct |
| --- | --- | --- | --- | --- | --- |
| Inventory (`packages/db`, `packages/shared`, routes of `apps/server/src/app.ts`) | `catalog_items`, `spools`, `usage_events`, `nfc_tags` | create, import, patch, delete of items; create, patch, retire/delete of spools; adjustment; pending, approve, edit, reject of events; assign, write-payload, scan, retire of tags; backup and restore of all tables | every client; sync-now creates events; spool deletion writes tags and slots | stale clients; orders of review; tag reassignment; a restore that takes versions back | weights are backed by events, no lost update, one tag in use per spool, history is kept |
| Printers and sync-now (`app.ts` 497-583, `packages/db` 646-739, `packages/printer-connector`) | `printers`, `printer_slots`, the request that waits | create, patch, delete, test-connection, mapping, sync-now | connector (awaited), spools | everything may happen during the await | user mappings win, deleted printers have no slots, only a late report maps a slot to a deleted spool |
| Offline sync (`app.ts` 457-495, `OfflineQueue.swift`) | `sync_events`, the phone's queue in memory and in its file, its conflicts | submit, resolve, enqueue, sync | inventory (`manualAdjustment`) | lost answers, resubmission, a phone that restarts, a file that is not written or read, two syncs at once | an edit is applied at most once, none disappears silently, the queue drains |
| Setup, sessions, pairing (`app.ts` 208-275, 628-664) | `users`, `devices`, `sessions`, `pairing_codes` | owner setup, login, logout, pairing start and complete, revoke | every authenticated route | bcrypt is awaited between check and write | one owner, a code pairs once, a revoked device stays out |
| MQTT reader and connection server (`packages/printer-connector` 319-549) | cached snapshot, pending read, timers | start, stop, readSnapshot, message, error, timeout, abort | sync-now, test-connection | settle once, late events, stop during a read | every reader is answered, no connection is left open |
| Bambu report parsing (`packages/printer-connector` 581-745) | none | extract the slots of a report | MQTT reader | partial reports that are merged, missing identities, a printer that changes meanwhile | a read shows nothing that was not true while it lasted, and a place once, as far as the trays are named or told in order |
| Tag payload codec (`packages/shared` 635-750, `packages/crypto` 130-171, 255-269, `NFCCodec.swift`) | none | encode, decode, classify, sign, verify | crypto, phone | two functions compute the reference of the key | what was signed verifies |
| Signing keys and backups (`packages/crypto`, `app.ts` 586-609) | key files, in-memory key store, export | load, rotate, sign, verify, backup, restore | database, tags | a crash between two writes; memory and disk disagree | what was signed verifies after a restore |
| Phone NFC session (`NFCService.swift`) and the chips | last UID, last payload, what each chip holds | scan, detect, submit, assign, write | tags, write-payload, scan route | payloads written late, elsewhere, torn or never; a UID and a payload of two tags | a scan calls no old payload valid |
| Labels (`packages/db` 760-795, `app.ts` 317-333) | `label_templates` | CRUD, render | spools (read) | none of weight | - |
| Web UI, phone screens, API clients, build, Docker, CI | none shared | - | routes | - | - |

The hazards of this code, each at its line with the properties that cover it, are
listed in `PROJECT.json`.

## 2. Plan

The most important behaviour first. Done:

1. `Repository`: the tables of the inventory and its requests; `InventoryRestore` adds backups and
   restores and gives the specification; the abstract specification is `WeightLedger`; proofs `Repository_proofs`.
2. `PrinterSync` extends `Repository` with printers, slots and sync-now.
3. `OfflineSync` extends `Repository` with the phone's edits and queue, the batch route, losses and restarts; its abstract specification `EditLedger`.
4. `Access`: owner setup, sessions, devices, pairing codes.
5. `MqttConnection`: callers, coalesced reads, the connection server, stop; liveness; proofs `MqttConnection_proofs`.
6. `BackupRestore`: start, keys on disk and in memory, backup, restore, stops; proofs `BackupRestore_proofs`.
7. `TagScan` extends `Repository` with the chips, the phone's NFC session and the scan request, with the key references of `NfcPayload`.
8. `BambuReport`: one read of a printer, from partial reports to slots.

9. Proofs for what the runs check: `OfflineSync_proofs` (every safety property and the
   refinement of `EditLedger`), `PrinterSync_proofs`, `Access_proofs`, `TagScan_proofs`,
   and `LedgerBalanced` and `OnlyEditsExceedInitial` of the inventory.

10. `BambuReport_proofs`, and what ties the key references of `NfcPayload` to `TagScan`.

Left: a wider tag payload (the layout and the clamps of its numeric fields).

## 3. Modules

### `Repository`

| Variable | Code |
| --- | --- |
| `catalog`, `spool`, `usage`, `tag` | the tables; a row is a record of the columns some guard reads, `row` stands for the presence of the row and `deleted_at` |
| `slot` | `printer_slots`, which spool deletion writes; the rest is in `PrinterSync` |
| `clock` | what `nowIso()` returns; two requests may share a reading |
| `seen[c][s]` | the row of spool `s` that client `c` fetched last: the source of every `expected_version` for a spool |
| `opening` | history variable: the weight a spool was created with |

The module is about the time between two restores (which are in `InventoryRestore`, where the
specification of the inventory is; the other modules that extend `Repository` have their own)
and about those weights only that the schema of a route has checked (the sync route, which has none,
is in `OfflineSync`). Each other operation of `FilamentBridgeRepository` on these tables is an action of the same name. A
throw rolls back and is not a step. `ApplyUsageEvent(.., checked)` has both forms
of the request, with and without `expected_spool_version`. `WritePayload` and
`ScanTag` are route handlers (`app.ts` 366-451): the signature is abstracted, a
payload that does not verify changes nothing. Weights are integers, so that the
absence of negative weights is a property and not a type.

### `InventoryRestore`

| Variable | Code |
| --- | --- |
| `backups` | the backup files: `createExportSnapshot` (`packages/db` 822-840) copies every table, deleted rows too |
| `fetched[c]` | history variable: the spools client `c` fetched since the last restore |
| `issued` | history variable: the identifiers ever given to a row, of which a new row takes none |

`Restore(b)` is the whole transaction of `restoreExportSnapshot` (`packages/db`
842-857): all rows go, those of the backup come back with their old versions, and
no client is told (`seen` stays). `Restorable` is what `exportFileSchema` lets through:
weights and deltas within `gramsSchema`, so that a backup of a weight an edit lifted too far
is refused. `Fetch` and `Request` are the requests of `Repository`, and a
backup may be made or restored between any two of them. What a restore does to the signing
keys, after the transaction, is in `BackupRestore`; `printers` go the way of the other
tables, and `sync_events` are deleted, being in no backup.

### `WeightLedger`

What the usage events promise: an account has a balance that changes only by posting an entry; an
entry is posted at most once, states by how much the balance changed and what it found
and left, and is never rewritten. Copies of the whole ledger may be kept, and the ledger may go back to
one of them. `InventoryRestore!ImplementsLedger` maps spools to accounts, usage events to entries and
backups to copies; the previews a pending event carries are hidden.

### `PrinterSync`

Extends `Repository`; every action of `Repository`, that is every other request but a
restore, may run between any two of its own. A *slot* is a position of a printer (printer, unit, index): the table has
one row per position, and `upsertPrinterSlot` finds it deleted or not.
`sync[r]` holds what a request read before its await (`existingSlots`).
`StartSync` is the handler up to the await, `FinishSync` the rest when the report
arrives, `FinishSyncDeleted` the rest when the printer was deleted meanwhile (the
slots are written up to the first throw), `FailSync` the answer with a warning.
The mock connector does not wait, so `MockSync` is one step. `shown[c][x]` is the
row of a slot a client fetched last.

### `OfflineSync`

Extends `Repository`, whose other requests run whenever the server is between two
requests.

| Variable | Code |
| --- | --- |
| `edit[i]` | the `expectedVersion` and weight of one edit, and what the screen said of it: "Applied" or "Queued offline" (`ManualAdjustmentView.swift`) |
| `queue[p]` | `OfflineQueueStore.events`, in memory |
| `file[p]` | `offline-queue.json`, the queue as it was saved last |
| `missed` | history variable: the edits that a failed save did not write or a failed load did not read |
| `conflicts[p]` | `OfflineQueueStore.conflicts`, in memory only |
| `request[r]` | one HTTP request: on its way, being handled, answered or lost; whether the phone still waits for it; the items left and the results so far |
| `syncEvent[i]` | the row of `sync_events`, whose key the phone chooses |
| `applied[i]` | history variable: how often the server made the adjustment |

A batch (`app.ts` 457-495) is the one handler that commits more than once:
`AdjustItem`/`RefuseItem` is `manualAdjustment`, `RecordItem` the insert of the
result and `FailItem` that insert on a key that is taken, which ends the request
with an error and leaves what was done before. The handler has no await, so nothing
else runs on the server meanwhile (`Idle`), but the process may stop in
between (`Lose`). A phone gives up on a request that may still arrive
(`QueueAdjustment`, `GiveUpSync`), sends the queue again while a batch is under
way, and restarts with its file (`RestartApp`). `save()` and `load()` use `try?`
(`OfflineQueue.swift` 57-65): `Save` writes the file or leaves it, `Load` reads it or starts with an
empty queue, and nobody is told; so a restart may lose an edit, or bring back
one that the server has accepted. The adjustment route refuses a negative weight
(`AcceptAdjustment`), the sync route does not. Left out: rewrite intents and
`remove`, which no screen reaches, and the resolve route, which appends a row
nothing reads.

### `EditLedger`

What an edit promises the user who makes it: it is applied at most once, the phone
says "Applied" of nothing else, only what it said to be queued gets a verdict from the
server, and after a verdict the edit is neither applied nor judged again.
`OfflineSync!ImplementsEdits` maps `edit[i].told`, `applied` and `sync_events`; the
requests, the queue and the spool are hidden. An edit that was applied may
be recorded as a conflict: its own adjustment, whose answer was lost, made
the version it expects an old one.

### `Access`

`user`, `device`, `session` and `code` are the tables. Setup and login await bcrypt
between their check and their writes: `attempt[a]` is a request in that await.
The writes of a handler are separate statements; the parameter `written` says how
far they got when the server stopped, `complete` the same for a revocation. Only
`consumePairingCode` is a transaction. A token is an identifier that is issued
once and never guessed; a code expires `Lifetime` ticks of `clock` after it was issued, and
sessions do not. `pairedBy` is a history variable.

### `MqttConnection`

Every callback, timer and continuation of the event loop is a step.

| Variable | Code (`packages/printer-connector/src/index.ts`) |
| --- | --- |
| `running` | `abortController !== null` |
| `fresh` | keys whose cached snapshot is younger than `cacheTtlMs`; the content is abstracted |
| `inFlight`, `activeClients` | the map and the set of the same names |
| `reader[c]` | a call of `readSnapshot`: the read whose promise it awaits, and whether it started it |
| `read[r]` | one `readOneBambuMqttReport`: its phase, its signal, its subscriptions, timers and publication |

A read is `loading` while it awaits the `mqtt` module, `open` while its client may
deliver, `closing` between `finish` and the callback of `client.end`, `settled`
when its promise is. `Closed` settles the read and caches its snapshot, also when
a stop came before; `Return` is the continuation of a caller, in which the owner
takes the read out of `inFlight` if it is still there. The
MQTT library is not in the repository: of it the model takes that `end` calls its
callback, that a client may reconnect, and that callbacks may come in any order.

### `BackupRestore`

| Variable | Code |
| --- | --- |
| `db[h]` | `app_meta` of installation `h` (`instance_id`, `hash_salt`), its tags and the active tag of each spool |
| `keyFile[h]` | `signing-keys.json`: missing, torn, or a key store |
| `server[h]` | the key store and the salt that `createApp` captured |
| `backups` | backup files, which anyone may restore anywhere |
| `chip[u]` | what is written on a physical tag |

What an installation makes up (instance identifier, key, salt) is written as the
installation itself. A tag row is found by the hash of its UID and a salt, hence
`TagIds`. `Start`, `Restore` are the handlers when they get to their end,
`StartStops`, `RestoreStops` when the process ends between two of their writes or
within the write of the key file; in `RestoreFails` that write fails and the process goes on
(`app.ts` 604): the tables are those of the backup, the keys in memory are the old ones, and the
file is untouched or torn. Versions, stale status and spool deletion
are those of `Repository` and are left out here: they do not touch keys. A
payload is written on its tag at once; a signature is verified by comparing keys.
Not modelled: key rotation, which no caller uses, and backups without keys, which no
route makes.

### `TagScan` and `NfcPayload`

`TagScan` extends `Repository`; every request but the two it refines runs at any time.

| Variable | Code |
| --- | --- |
| `keyHash` | the 64-bit hash of `public_key_id` that both reference functions compute |
| `chip[t]` | what is written on the chip of tag `t`: nothing, foreign data, a torn payload, or a payload, possibly one that names another tag |
| `pending[c]` | the payload client `c` was handed by write-payload and may write at any later time |
| `phone` | `NFCService`: `lastUID` is set when a tag is detected, `lastPayload` when its pages are read |
| `scan` | a request to `POST /api/nfc/scan` that has not arrived |

`Grant` is write-payload (`app.ts` 366-407), which calls `recordTagWrite` when it
hands the payload out; whether and where it is written is up to the client
(`WriteChip`, `InterruptWrite`). `Classification` is the body of the scan route.
A payload is the tag and spool it names, the version of the row its snapshot was
taken from and the reference of the key; the time of its grant is history. The
phone itself never writes: the one screen that calls `beginWrite`
(`StaleRewriteView`) has no tag to call it with. So writers are any client.
The abstraction of verification in `BackupRestore`, equality of keys, is refined
here to equality of references, for one installation.

`NfcPayload` defines the two references for a hash of `RefLength` digits in base
`Base` (8 and 256 in the code): `CompactRef` writes, `CompactPublicKeyRef` looks up.
`Shifted` is what the second has left of the hash at each byte. The exclusive or
of the language, with which the first starts again, is the parameter `ExclusiveOr`; the
runs give it the bitwise operator of the community modules.

### `BambuReport`

| Variable | Code (`packages/printer-connector/src/index.ts`) |
| --- | --- |
| `filled`, `feeding` | the printer, which is external: what each tray holds and which one feeds |
| `snapshot` | the merged reports of one read (line 482) |
| `observed` | what `extractBambuObservedSlots` made of the report that ended the read |
| `truth` | history variable: what was true of the printer during the read |
| `layout` | history variable: the layout of the array in the merged report |

`Receive` is the message handler: merge, extract, finish when there is a slot. What
the printer tells is any part of the truth. A *layout* says how an array tells it: which
units and trays are in it and in which order, which of them it names, and of which trays it tells the
material; `Layouts` may be any set of layouts, partial arrays without names included. `tray_now` may be told
or not, the external tray in part. The code takes a unit or tray without a name for the one whose
place in the array it has (lines 590 and 595), so an array that leaves names and trays out tells one tray as another:
`Misplaced` is the set of the numbers for which it does, empty when the array names what it tells or
tells it from the first on in order. `ObservedWasTrue` excepts these places from saying in which tray a material was and
from being shown once, and nothing else: that a material was in some tray, and that a place
shown feeding was fed from, holds of them too.
The model assumes that a tray without filament is told with an empty material.

## 4. Runs

| Run | Shows | Bounds |
| --- | --- | --- |
| `Inventory` | `NoLostUpdateSinceRestore`, `LedgerBalanced`, `RemainingNonNegative`, `ActiveTagsAgree`, `History`, `OnlyEditsExceedInitial`, and that events implement `WeightLedger`, under requests, backups and restores | two spools that start full, two tags, two events, one client, versions up to 3, two clock readings; with a backup one spool, one event at a time, one clock reading |
| `PrinterSyncReports` | `DeletedPrinterHasNoSlots`, `NoLostMapping`, `OnlyReportsMapDeletedSpools` | one printer with one slot, two waiting requests, one event, versions up to 5 |
| `OfflineSync` | `AtMostOnce`, `PhoneTellsTruth`, `ConflictsAreQueued`, `NegativeWeightWasQueued`, and that edits implement `EditLedger` | one phone, three edits (the third only makes the queue too long), two requests under way, batches of two, a spool whose initial weight a patch changes, the writes of another client; up to two edits if a save or a load misses one, one edit if its weight has a sign |
| `Access` | `CodePairsOnce`, `TokensNotRevived` | two attempts, three devices and tokens, one code that expires |
| `MqttConnection` | `OneSession`, `NoAbortedReadShared`, `NoClientAfterStop`, `ActiveClientsExact`, `OneSafeRequest`, and `ReadersAnswered` under fairness | one printer, three calls, two reads under way, one reconnection; deadlock is checked |
| `BackupRestore` | `RestartKeepsKeys`, `OwnTagsRecognised`, `OnlyRestoresSplitKeys` | two installations, one physical tag, one spool, one backup kept |
| `TagScan` | `ValidMeansCurrent`, `StaleUntilGranted` | one spool, two tags, one client, versions up to 4, two clock readings |
| `BambuReport` | `ObservedWasTrue` | two units of two trays and the external one, one material, one change during a read; arrays of none, one, two and all trays, with and without names, in order and reversed, one tray told in blank |
| `PrinterSyncMapping` | violated: a late report undoes a user's mapping | one slot, one waiting request |
| `OfflineBatchFails` | violated: a conflict submitted again fails its batch | as `OfflineSync` |
| `AccessTwoOwners` | violated: two setups that overlap both create an owner | as `Access` |
| `TagKeyRef` | violated: an installation verifies none of the payloads it signed | as `TagScan`, a hash whose highest digit is zero |

Every passing run checks a type invariant as well.

**Bounds, and why they are enough.**

- `MaxVersion` caps the versions of every row, hence how often a row is written.
  Three in `Inventory` are a creation and two writes: a fetch, a write
  the client does not see and the stale request; and with a backup in between, a write after it, its
  restore, and the same version issued again for another row. Five are needed in
  `PrinterSyncReports` for a slot that a late report maps to a deleted spool and
  that is synced once more. `MaxTime` caps the clock: two readings are one that
  two requests share and one after it.
- `MaxGrams` bounds the weights a spool is created or patched with. With one gram,
  one gram of edit and candidates of one gram, weights go through 0, 1 and 2, which is
  what a rejected, a partial and a double deduction need, and an edit that lifts a
  weight over the initial weight.
- The `MCBound` of a run is a state constraint, stated and explained in its MC module. In
  `Inventory` a spool starts full; as long as there is no backup (`MCNoBackup`) a catalog item is written once after its
  creation; once there is one (`MCBackup`) the run is about one spool, one event at a time and a
  clock that stands, which is enough for a restore to bring back
  a version, a weight, an event and a tag that were written since. In `OfflineSync` the catalog item stays, the spool starts empty, and the
  last edit, made when the others are queued and the spool is live with its initial weight,
  never reaches the server when it is sent at once, so that it only lengthens the queue. In `TagScan` the catalog item stays, a spool
  is written twice after its creation (once by an assignment, once more), and the
  two tags are written six times in all. In the first and the last the clock goes on once
  a tag was written: before that no time is compared. A property is checked on every state and step
  that the constraint lets in.
- One client suffices in the inventory because a client may make any request at
  any time and only its cached row tells it from another; rows are also written by
  requests that do not check a version.
- Two edits and two requests give every overlap the queue can have: two batches with
  the same edits, an edit queued while a batch is under way, an edit sent at once and again
  from the queue. A third request adds no pair. With three edits every save and load succeeds and no weight has a
  sign (`MCSaved`); in the states in which the file misses an edit or is stale, or the weight has a sign (`MCMissed`),
  there are at most two edits, of which the second only lengthens the queue: a lost edit or a stale file, next to one that is
  well. One edit of a negative weight is enough because the route that checks it and the one that does not
  handle one edit at a time.
- One client and two tags in `TagScan` give every mix of payloads: the payload of
  the other tag, of an earlier grant, or none. Base 4 and two digits have hashes
  with and without a zero highest digit, which is all that tells the two functions apart.
- Two units of two trays in `BambuReport` are what a tray number, a unit number and
  the external tray can be confused with; one change makes two truths in one read. The
  arrays (`MCLayouts`) are of each kind the code reads differently: complete and partial, in order and not,
  with the names of both, one or neither of unit and tray.
- Two reads of one printer are one that a stop aborted and its successor; three
  callers are the owner of each and one that joins. Another printer shares
  nothing with the first but `running`.
- Two installations are one that made a backup and another. A backup may be
  deleted and made again, so `MaxBackups` 1 bounds only how many exist at a time.

Identifiers are interchangeable, so the runs use symmetry, except where a
liveness property is checked, and in `BambuReport`, whose trays are numbers.

**Fairness.** Only `MqttConnection!FairSpec` assumes any: weak fairness of what the
event loop owes (a module that loads or fails to, the deadline timer that
`setTimeout` has set, the callback of `end`, the continuation of a caller whose
promise is settled). Nothing obliges a printer to answer, a caller to call or
anyone to stop the server. The other specifications state safety only: nothing obliges a
user, a phone or the network.

**Deadlock** is checked in `MqttConnection` and `BambuReport`. The other runs say `CHECK_DEADLOCK FALSE`:
their bounds stop the system, and in `BackupRestore` a torn key file really
does.

**Mutants.** For every property of a passing run `PROJECT.json` names a mutant: a
mapped definition changed as a plausible bug would, which breaks the property.

## 5. Proofs

For every value of the constants that the named assumptions allow. `Null` is no
identifier and no time; the bounds are natural numbers; weights and deltas are integers,
and a usage candidate, which only a connector makes, is not positive (the one in the code
is -12, `packages/printer-connector/src/index.ts:216`). The operators that are
parameters (`PrinterOf`, the key references of `TagScan`, `ExclusiveOr`) may be any;
`SignedVerify` alone says what the key references are.

| Theorem | Statement |
| --- | --- |
| `Repository_proofs!BackupTypes` | `RestoreSpec => []RestoreTypeOK` |
| `Repository_proofs!TagsAgree` | `RestoreSpec => []ActiveTagsAgree` |
| `Repository_proofs!UpdatesNotLost` | `RestoreSpec => []NoLostUpdateSinceRestore` |
| `Repository_proofs!BooksBalance` | `RestoreSpec => []LedgerBalanced` |
| `Repository_proofs!WeightsNonNegative` | `RestoreSpec => []RemainingNonNegative` |
| `Repository_proofs!HistoryKept` | `RestoreSpec => History` |
| `Repository_proofs!OnlyEditsExceed` | `RestoreSpec => OnlyEditsExceedInitial` |
| `Repository_proofs!EventsImplementLedger` | `RestoreSpec => ImplementsLedger` |
| `PrinterSync_proofs!PrinterTypes` | `SyncSpec => []PrinterTypeOK` |
| `PrinterSync_proofs!DeletedPrintersEmpty` | `SyncSpec => []DeletedPrinterHasNoSlots` |
| `PrinterSync_proofs!MappingsNotLost` | `SyncSpec => []NoLostMapping` |
| `PrinterSync_proofs!ReportsMapDeleted` | `SyncSpec => OnlyReportsMapDeletedSpools` |
| `OfflineSync_proofs!OfflineTypes` | `OfflineSpec => []OfflineTypeOK` |
| `OfflineSync_proofs!EditsOnce` | `OfflineSpec => []AtMostOnce` |
| `OfflineSync_proofs!TruthTold` | `OfflineSpec => []PhoneTellsTruth` |
| `OfflineSync_proofs!NegativeWeightsQueued` | `OfflineSpec => []NegativeWeightWasQueued` |
| `OfflineSync_proofs!ConflictsQueued` | `OfflineSpec => []ConflictsAreQueued` |
| `OfflineSync_proofs!EditsImplementLedger` | `OfflineSpec => ImplementsEdits` |
| `Access_proofs!AccessTypes` | `Spec => []TypeOK` |
| `Access_proofs!CodesPairOnce` | `Spec => []CodePairsOnce` |
| `Access_proofs!TokensStayRevoked` | `Spec => TokensNotRevived` |
| `TagScan_proofs!ScanTypes` | `ScanSpec => []ScanTypeOK` |
| `TagScan_proofs!ValidIsCurrent` | `ScanSpec => []ValidMeansCurrent` |
| `TagScan_proofs!StaleStays` | `ScanSpec => StaleUntilGranted` |
| `TagScan_proofs!SignedVerify` | `ScanSpec => []SignedPayloadsVerify`, for the references of `NfcPayload` and keys whose hash has no zero highest digit |
| `BambuReport_proofs!ReportTypes` | `Spec => []ReportTypeOK` |
| `BambuReport_proofs!ObservedTrue` | `Spec => []ObservedWasTrue` |
| `MqttConnection_proofs!ReaderTypes` | `Spec => []TypeOK` |
| `MqttConnection_proofs!SessionsShared` | `Spec => []OneSession` |
| `MqttConnection_proofs!AbortedReadsLeft` | `Spec => []NoAbortedReadShared` |
| `MqttConnection_proofs!SessionsEnd` | `Spec => []NoClientAfterStop` |
| `MqttConnection_proofs!ClientsCounted` | `Spec => []ActiveClientsExact` |
| `MqttConnection_proofs!RequestsSafe` | `Spec => OneSafeRequest` |
| `BackupRestore_proofs!HostTypes` | `Spec => []TypeOK` |
| `BackupRestore_proofs!RestartsChangeNothing` | `Spec => []RestartKeepsKeys` |
| `BackupRestore_proofs!TagsRecognised` | `Spec => []OwnTagsRecognised` |
| `BackupRestore_proofs!KeysStayWithInventory` | `Spec => OnlyRestoresSplitKeys` |

**Repository.** `TypeOK` is not inductive alone: deleting or retiring a spool's tag writes the row
named by `active_tag`, which is a row of a tag that exists only because
`ActiveTagsAgree` says so; and `ActiveTagsAgree` needs the types. The two are
proved together (`TypeStep`, `AgreeStep`). `HistoryKept` rests on two lemmas about `Next`: which
spool a step writes and which event. `OnlyEditsExceed` needs that a pending event never has a
positive delta (`PendingIsUse`), or approving one could lift a weight. The refinement
proof shows, one action at a time, which step of the ledger a request is. The adjustments of the sync route are
not among the requests of `Repository`: `NegativeWeightsQueued` of `OfflineSync` is about those.

**InventoryRestore.** All theorems of the inventory are about `RestoreSpec`, restores included. Every step is a request or a restore
(`RequestOrRestore`). `UpdatesNotLost` needs that no client has fetched, since the last restore, a version later
than the current one (`FetchedInv`): a new write then gets a version that no such client
holds. After a restore nobody has fetched anything, and the versions may start over. A restore puts back what
was the state of the tables once, so it re-establishes whatever is about the tables alone
(`TablesInv`: types, tags, books, `PendingIsUse`, foreign keys), if that is known of every backup
(`Sound`): `TakenSound` says so of a backup when it is made, `RestoredSound` turns it back. That the weights a
restore brings are not negative is what `Restorable` lets through. In the ledger a backup is a copy, and a
restore goes back to it. That rows are never removed but by a restore (`RowsKept`) and that a spool keeps an existing item carry the foreign keys.

**LedgerBalanced** is about a sum over a set of events, which the library defines by
a fold, a recursive function over the subsets of a set. What is needed of it is that the
sum of an empty set is zero and that adding an element adds its value. These facts need an
induction over finite sets, and the induction theorems with an operator parameter cannot be
used; the lemmas take the set of subsets for which the claim would fail instead, and pick a
smallest one (`LeastSubset`). The invariant itself (`BalanceInv`) adds that the spool of an event
exists, so that a new spool has no events, and that only finitely many are applied: `Events` may
be infinite, a run makes finitely many.

**OfflineSync.** The invariant (`OfflineInv`) follows an edit from the screen to its verdict (`EditOK`).
An edit that was applied raised the version of its spool past the one it expects, and
versions only grow (`VersionInv`), so it is not applied again. An edit with a verdict
is *settled*: its spool is gone, has been written since, or has no room for the weight, and
none of that is ever undone while the edit waits, so no later batch applies it. What the phone says must have
happened: a request that was answered well was applied, and a batch carries
edits of its phone that are queued (`RequestInv`; an edit sent at once has one request, or an
answer could be told twice). An edit the phone called queued is still in its queue or has a final verdict,
unless a save or a load missed it. The file holds all that is queued but what was missed (`FileInv`, `SaveEffect`), and
possibly edits the server has judged since, which are settled and do no harm when they are
queued again. A batch keeps its edits in the queue only while its phone waits for it: a phone that restarts
reads none of its answers (`Deaf`). `NegativeWeightsQueued` says which step can make a
weight negative (`WeightStep`): a batch's, with the weight of an edit that was queued.
The requests of the inventory that run in between are handled once: they insert a spool or raise its version and
touch no edit (`Onward`); a request that only changes its state keeps its invariant (`Carried`). The queue is a
sequence; `Without`, which takes out what the server accepted, is a recursive function, and what it keeps
is proved from the least position at which the claim would fail (`LeastNatural`). The refinement maps
every action to a step of `EditLedger` or to a stutter.

**PrinterSync.** `PrinterInv` adds to the properties what `NoLostMapping` needs, as in the
inventory: no client was shown a version later than the current one, and a position
without a row has version zero (`ShownInv`). One lemma says what any action does to a slot: nothing, an
insert for a live printer, or one write that raises the version and never revives a row.
`ReportsMapDeleted` uses it with `ActiveTagsAgree`, which the inventory's own steps need.

**Access.** What a handler read before its `await` still holds after it, since users are
never deleted and attempts end with the server (`KnownInv`); a paired device exists and its
code is used up (`PairedInv`). `EnterStep` is the one lemma all three ways in
share: only a device that did not exist is trusted, only a token without a session gets one.

**TagScan.** `Told` says of every payload that was handed out, wherever it is (on any chip,
with any client, on the phone, in a request), that its tag and spool exist, that it is not
younger than the tag's last write and, if it is as old, that the tag's spool is the row it shows or was
written at that time or later. It is preserved because every write of a spool
stamps it with the clock and no row is younger than the clock (`ClockInv`). `ValidIsCurrent`
is what that comes to for a tag that is not stale. `StaleStays` shows that every step but a grant
for the tag keeps a stale tag stale (`FreshStep`), whatever happens to its chip.

**Key references.** `SignedVerify` has a hypothesis, that no hash of a key identifier has a zero
highest digit (`Full`); `TagKeyRef` shows what happens without it. Both references are
recursive functions. That the equations of `Shifted` have a solution, that under the hypothesis it never
reaches zero (`FullAtEachByte`) and that it then is the only solution of the equations of
`CompactRef` too (`NeverRestarts`) is proved from the least byte at which it would fail. The hash
itself may be any natural number, and nothing is asked of `ExclusiveOr`. The rest is an invariant of its own: what a client holds
carries the reference of the installation's key (`SignedInv`).

**BambuReport.** The invariant (`ReportInv`) says that what was true stays in `truth` and that the merged
report tells only facts (`TrueReport`): its array is that of `layout`, with the names and the materials the layout
says and what was true of the trays when it arrived (`TellsAs`). It is kept by a merge (`MergedTrue`) because an array replaces the one before,
while each field of the external tray, merged on its own, was true when it was told. A slot comes
from one tray of the array or from the external one (`SlotOrigin`), it shows what the report tells
of it, under the number it is read under (`ReadNumbers`), and that number is either the tray's own or misplaced
(`SlotShows`, `MisreadIsMisplaced`). The numbers of the trays of an array differ (`OwnNumbersDiffer`), from
division by `SlotsPerUnit` (`UnitAndSlot`, `NumberOf`), so two slots of one place are one
unless the place is misplaced; at most one slot feeds because `tray_now` is
one number, and `External` is no tray of a unit (`PlaceShownOnce`). `ReportTypes` needs that an array has at most `NumUnits` units of
at most `SlotsPerUnit` trays, so that a place in it is the number of one too.

**MqttConnection.** What makes sessions unique is `inFlight`, so the inductive
invariant says when it is right: a read in it has the key, is not aborted and has an
owner that still waits (`InFlightOwned`: the owner will take it out), and a
read under way that no stop has aborted is in it (`UnderWayInFlight`: two reads of a key cannot
both be). `OpenNotAborted` and `ActiveClientsExact` let a stop find
every client; `PublishedRequested` ties the publications to the flag that guards
them.

**BackupRestore.** A restart reads the file, so the copies in memory must be those of
the file (`RestartKeepsKeys`, inductive with the types). That a start takes no
inventory and its keys apart needs one fact more: an installation without a key
file has no tag in use (`NewHostsEmpty`), or its first key would not fit them.
`TagsRecognised` is a consequence of the first. `KeysStayWithInventory` goes through
the actions and shows that a whole host stays whole under all of them but the restores that stop
or fail.

The inductive invariants were checked with TLC on the instances of the runs before they were proved.

**Only model-checked:** `ReadersAnswered` (liveness under fairness is beyond the prover) and the
violations. Every invariant and every action property of a passing run is a theorem.

## 6. Findings

Four runs are violated: the code disagrees with its documents or its own
assertions. `PROJECT.json` quotes the lines.

- `PrinterSyncMapping`: sync-now writes the mapping it read before its await (`apps/server/src/app.ts:564`).
- `OfflineBatchFails`: a conflict stays in the queue and its second submission fails on the primary key (`apps/server/src/app.ts:480`).
- `AccessTwoOwners`: setup does not check again after hashing (`apps/server/src/app.ts:213`).
- `TagKeyRef`: the two functions that compute the reference of a key differ for one hash in 256 (`packages/shared/src/index.ts:650`, `packages/crypto/src/index.ts:266`).

Other disagreements met while modelling, which no run states:

- A restore takes the versions of all rows back, and they are issued again for other rows (`packages/db/src/index.ts:850`; compare SPEC.md:104, "monotonically increasing integer"): a client that fetched a spool before the restore may overwrite a change it has not seen. `NoLostUpdateSinceRestore` says that one that has fetched it since may not.
- The batch route takes a negative weight, which the adjustment route refuses and the phone then queues (`apps/server/src/app.ts:469`; compare `packages/shared/src/index.ts:65`). `NegativeWeightWasQueued` shows that nothing else makes one.
- `updateSpool` does not look whether the catalog item it is given is deleted (`packages/db/src/index.ts:442`; compare SPEC.md:557). The model allows it.
- A late report maps a slot to a spool deleted meanwhile (`apps/server/src/app.ts:564`; compare SPEC.md:558). `OnlyReportsMapDeletedSpools` shows that nothing else does.
- The phone ignores a failed save or load of its queue (`apps/ios/Sources/FilamentBridgeIOS/OfflineQueue.swift:57`, `:63`), so that an edit it called queued may be gone after a restart. `PhoneTellsTruth` excepts the edits a save or a load missed, and no others.
- A weight that an edit lifted over the bound of `gramsSchema`, or a negative one, makes a backup that no restore accepts (`packages/shared/src/index.ts:477`). `Restorable` in `InventoryRestore`.
- A key file that cannot be written leaves the tables restored and the keys in memory as they were (`apps/server/src/app.ts:604`). `OnlyRestoresSplitKeys` allows it.
- An array without names that tells only some trays shows a material in a wrong place, or one place twice (`packages/printer-connector/src/index.ts:590`, `:595`). `ObservedWasTrue` excepts those places (`Misplaced`), and no others.
- A restore leaves the instance identifier in memory as it was, so a backup made before the next restart names two instances (`apps/server/src/app.ts:604`). `OnlyRestoresSplitKeys` allows it.
- An edited event with a positive delta lifts the weight over the initial weight (`packages/db/src/index.ts:535`; compare line 476). `OnlyEditsExceedInitial` shows that nothing else does.
- The salt of the UIDs is not in a backup, so a fresh installation finds no restored tag by its UID (`packages/db/src/index.ts:847`). `OwnTagsRecognised` is about the tags whose UID was hashed with the salt of the installation.
- A payload that was handed out counts as written (`apps/server/src/app.ts:396`): if the chip is never written, its old payload is valid again (compare SPEC.md:572). The premise of `ValidMeansCurrent` excludes it, `StaleUntilGranted` says that nothing less than a grant does it.
- The scan route finds the tag by its UID and never compares it with the tag the payload names (`apps/server/src/app.ts:413`), while the phone may send the UID of one tag with the payload of another (`NFCService.swift:43`, `:63`). `ValidMeansCurrent` is about a payload that names the tag.
- Nozzle temperatures over 255 and weights over 65535, which the schemas admit, are cut in the payload (`packages/shared/src/index.ts:671`).
- A queue of more than 200 items is refused as a whole and never drains (`packages/shared/src/index.ts:289`). `OfflineSync` checks what such a refusal leaves behind.
- A tray a report tells by its identity alone is shown empty, and the first report that shows a slot ends the read, so that a snapshot may lack slots (`packages/printer-connector/src/index.ts:529`). `ObservedWasTrue` says only that what is shown was true.
- A torn `signing-keys.json` stops every later start (`packages/crypto/src/index.ts:110`).

## 7. Not modelled

Label templates and labels (rows nothing else depends on, and layout); names,
prices, notes and short codes; encryption and hashing (pure functions); the
fields of a payload other than its key reference (a fixed conversion that no rule of
the server reads); the normalisation of materials and colours; the resolve
route and rewrite intents of offline sync (the first appends a row nothing reads,
no screen makes the second); the web UI and the phone's other screens, which only
make requests that the models allow at any time; server start, API documentation,
static files, build and deployment. A restore during the await of sync-now, or between
two edits of a phone, is not a step of `PrinterSync` and `OfflineSync`, which are about the
time between two restores.
