----------------------------- MODULE BackupRestore -----------------------------
(***************************************************************************)
(* What an installation keeps so that it recognises its companion tags:    *)
(* the inventory and app_meta in the database, signing-keys.json in the    *)
(* key directory, and the copies of both that createApp holds in memory    *)
(* while the server runs; and the backups that carry some of it from one   *)
(* installation to another.  A server may stop between any two writes, and *)
(* within the write of a file; and the write of a file may fail while the  *)
(* server runs on.                                                         *)
(*                                                                         *)
(* An installation makes up one instance identifier, one signing key and   *)
(* one salt: each is written as the host.  (No route rotates the key.)     *)
(***************************************************************************)
EXTENDS Naturals, FiniteSets

CONSTANTS
  Hosts,       \* installations
  Uids,        \* physical tags
  Spools,
  Null,
  MaxBackups   \* bound: backups kept

ASSUME BackupAssumption == Null \notin Hosts \cup Spools \cup (Uids \X Hosts)

VARIABLES
  db,       \* db[h]: app_meta, tags and the active tag of each spool
  keyFile,  \* keyFile[h]: signing-keys.json
  server,   \* server[h]: what the process holds in memory
  backups,  \* the backup files, which may be copied between hosts
  chip      \* chip[u]: what is written on a physical tag

vars == <<db, keyFile, server, backups, chip>>

\* A tag is known by its tag_uid_hash: of its UID, with a salt.
TagIds == Uids \X Hosts

TagRow == [status: {"none", "assigned", "retired"}, spool: Spools \cup {Null},
           public_key: Hosts \cup {Null}]
NoTag == [status |-> "none", spool |-> Null, public_key |-> Null]

Inventory == [tag: [TagIds -> TagRow], active_tag: [Spools -> TagIds \cup {Null}]]
NoInventory == [tag |-> [i \in TagIds |-> NoTag], active_tag |-> [s \in Spools |-> Null]]

Database == [instance_id: Hosts \cup {Null}, hash_salt: Hosts \cup {Null}, rows: Inventory]
NoDatabase == [instance_id |-> Null, hash_salt |-> Null, rows |-> NoInventory]

SigningKeyStore == [instance_id: Hosts, key: Hosts]
NoFile == [state |-> "missing"]
Torn == [state |-> "torn"]
Saved(store) == [state |-> "saved", store |-> store]
KeyFile == {NoFile, Torn} \cup {Saved(store) : store \in SigningKeyStore}

Down == [up |-> FALSE]
Up(store, salt) == [up |-> TRUE, store |-> store, salt |-> salt]
Server == {Down} \cup {Up(store, salt) : store \in SigningKeyStore, salt \in Hosts}

\* filamentbridge-backup-v1: an export snapshot and the key store.  app_meta's
\* hash_salt is not in it.
BackupFile == [instance_id: Hosts, rows: Inventory, store: SigningKeyStore]

Blank == [state |-> "blank"]
Payload(tag, key) == [state |-> "payload", tag |-> tag, key |-> key]
Chip == {Blank} \cup {Payload(tag, key) : tag \in TagIds, key \in Hosts}

Init ==
  /\ db = [h \in Hosts |-> NoDatabase]
  /\ keyFile = [h \in Hosts |-> NoFile]
  /\ server = [h \in Hosts |-> Down]
  /\ backups = {}
  /\ chip = [u \in Uids |-> Blank]
-----------------------------------------------------------------------------
(***************************************************************************)
(* Starting and stopping                                                   *)
(***************************************************************************)

\* loadOrCreateSigningKeyStore.
LoadedStore(h) ==
  IF keyFile[h].state = "saved" THEN keyFile[h].store
  ELSE [instance_id |-> IF db[h].instance_id = Null THEN h ELSE db[h].instance_id, key |-> h]

\* A key file that does not parse is not replaced: createApp throws.
Startable(h) ==
  /\ ~server[h].up
  /\ keyFile[h].state # "torn"

WithInstance(h) ==
  [db[h] EXCEPT !.instance_id = IF @ = Null THEN LoadedStore(h).instance_id ELSE @]
WithSalt(row, h) == [row EXCEPT !.hash_salt = IF @ = Null THEN h ELSE @]

\* Mutant of Start: the database is not told its instance.
StartUnnamed(h) ==
  LET row == WithSalt(db[h], h) IN
  /\ Startable(h)
  /\ keyFile' = [keyFile EXCEPT ![h] = Saved(LoadedStore(h))]
  /\ db' = [db EXCEPT ![h] = row]
  /\ server' = [server EXCEPT ![h] = Up(LoadedStore(h), row.hash_salt)]
  /\ UNCHANGED <<backups, chip>>

\* createApp; the server answers requests when it is done.
Start(h) ==
  LET row == WithSalt(WithInstance(h), h) IN
  /\ Startable(h)
  /\ keyFile' = [keyFile EXCEPT ![h] = Saved(LoadedStore(h))]
  /\ db' = [db EXCEPT ![h] = row]
  /\ server' = [server EXCEPT ![h] = Up(LoadedStore(h), row.hash_salt)]
  /\ UNCHANGED <<backups, chip>>

\* The process ends in the write of a new key file, or after it, or before the salt.
StartStops(h) ==
  /\ Startable(h)
  /\ \/ /\ keyFile[h].state = "missing"
        /\ keyFile' = [keyFile EXCEPT ![h] = Torn]
        /\ UNCHANGED db
     \/ /\ keyFile' = [keyFile EXCEPT ![h] = Saved(LoadedStore(h))]
        /\ db' \in {db, [db EXCEPT ![h] = WithInstance(h)]}
  /\ UNCHANGED <<server, backups, chip>>

Stop(h) ==
  /\ server[h].up
  /\ server' = [server EXCEPT ![h] = Down]
  /\ UNCHANGED <<db, keyFile, backups, chip>>
-----------------------------------------------------------------------------
(***************************************************************************)
(* Tags                                                                    *)
(***************************************************************************)

\* The row is looked up by the hash with the salt in memory; the tag the spool
\* had is retired.
AssignNfcTag(h, u, s) ==
  LET i == <<u, server[h].salt>>
      rows == db[h].rows
  IN
  /\ server[h].up
  /\ rows.tag[i].status = "assigned" => rows.tag[i].spool = s
  /\ db' = [db EXCEPT ![h].rows =
       [tag |-> [j \in TagIds |->
          IF j = i
          THEN [status |-> "assigned", spool |-> s, public_key |-> server[h].store.key]
          ELSE IF j = rows.active_tag[s] THEN [rows.tag[j] EXCEPT !.status = "retired"]
          ELSE rows.tag[j]],
        active_tag |-> [rows.active_tag EXCEPT ![s] = i]]]
  /\ UNCHANGED <<keyFile, server, backups, chip>>

\* write-payload for the active tag of a spool, signed with the key in memory;
\* a client writes it on the tag.
WritePayload(h, s) ==
  LET i == db[h].rows.active_tag[s] IN
  /\ server[h].up
  /\ i # Null
  /\ chip' = [chip EXCEPT ![i[1]] = Payload(i, server[h].store.key)]
  /\ UNCHANGED <<db, keyFile, server, backups>>

RetireTag(h, i) ==
  LET rows == db[h].rows
      s == rows.tag[i].spool
  IN
  /\ server[h].up
  /\ rows.tag[i].status # "none"
  /\ db' = [db EXCEPT ![h].rows =
       [tag |-> [rows.tag EXCEPT ![i].status = "retired"],
        active_tag |-> IF rows.active_tag[s] = i THEN [rows.active_tag EXCEPT ![s] = Null]
                       ELSE rows.active_tag]]
  /\ UNCHANGED <<keyFile, server, backups, chip>>

\* verifyNfcPayload of an undamaged payload.
Verified(h, payload) == payload.key = server[h].store.key

\* What POST /api/nfc/scan answers on a tag whose content was read.
ScanTag(h, u) ==
  LET row == db[h].rows.tag[<<u, server[h].salt>>] IN
  CASE chip[u] = Blank -> "blank"
    [] chip[u] # Blank /\ ~Verified(h, chip[u]) -> "invalid_signature"
    [] chip[u] # Blank /\ Verified(h, chip[u]) /\ row.status = "none" -> "foreign"
    [] chip[u] # Blank /\ Verified(h, chip[u]) /\ row.status = "retired" -> "retired"
    [] OTHER -> "app_owned"
-----------------------------------------------------------------------------
(***************************************************************************)
(* Backups                                                                 *)
(***************************************************************************)

\* A file that was cut short does not parse and restores nothing: it is no backup.
BackUp(h) ==
  /\ server[h].up
  /\ Cardinality(backups) < MaxBackups
  /\ backups' = backups \cup
       {[instance_id |-> db[h].instance_id, rows |-> db[h].rows, store |-> server[h].store]}
  /\ UNCHANGED <<db, keyFile, server, chip>>

\* A backup that is not needed any more.
DeleteBackup(b) ==
  /\ backups' = backups \ {b}
  /\ UNCHANGED <<db, keyFile, server, chip>>

\* Mutant of Restored: the instance stays that of the installation.
RestoredElsewhere(h, b) == [db[h] EXCEPT !.rows = b.rows]

\* restoreExportSnapshot: one transaction, which keeps hash_salt.
Restored(h, b) == [db[h] EXCEPT !.instance_id = b.instance_id, !.rows = b.rows]

\* Mutants of Restore: the keys are restored in memory only, or in the file only.
RestoreInMemory(h, b) ==
  /\ server[h].up
  /\ db' = [db EXCEPT ![h] = Restored(h, b)]
  /\ server' = [server EXCEPT ![h].store.key = b.store.key]
  /\ UNCHANGED <<keyFile, backups, chip>>

RestoreFile(h, b) ==
  /\ server[h].up
  /\ db' = [db EXCEPT ![h] = Restored(h, b)]
  /\ keyFile' = [keyFile EXCEPT ![h] = Saved(b.store)]
  /\ UNCHANGED <<server, backups, chip>>

\* The key file is replaced; the store in memory keeps its instance_id.
Restore(h, b) ==
  /\ server[h].up
  /\ db' = [db EXCEPT ![h] = Restored(h, b)]
  /\ keyFile' = [keyFile EXCEPT ![h] = Saved(b.store)]
  /\ server' = [server EXCEPT ![h] =
                   Up([server[h].store EXCEPT !.key = b.store.key], server[h].salt)]
  /\ UNCHANGED <<backups, chip>>

\* The process ends after the transaction, in the write of the key file, or after it.
RestoreStops(h, b) ==
  /\ server[h].up
  /\ db' = [db EXCEPT ![h] = Restored(h, b)]
  /\ \E file \in {keyFile[h], Torn, Saved(b.store)} : keyFile' = [keyFile EXCEPT ![h] = file]
  /\ server' = [server EXCEPT ![h] = Down]
  /\ UNCHANGED <<backups, chip>>

\* The key file cannot be written, or not to its end: the request fails, and the
\* process runs on with the restored rows and the keys it had in memory.
RestoreFails(h, b) ==
  /\ server[h].up
  /\ db' = [db EXCEPT ![h] = Restored(h, b)]
  /\ \E file \in {keyFile[h], Torn} : keyFile' = [keyFile EXCEPT ![h] = file]
  /\ UNCHANGED <<server, backups, chip>>

Next ==
  \E h \in Hosts :
    \/ Start(h)
    \/ StartStops(h)
    \/ Stop(h)
    \/ \E s \in Spools : WritePayload(h, s) \/ \E u \in Uids : AssignNfcTag(h, u, s)
    \/ \E i \in TagIds : RetireTag(h, i)
    \/ BackUp(h)
    \/ \E b \in backups :
         DeleteBackup(b) \/ Restore(h, b) \/ RestoreStops(h, b) \/ RestoreFails(h, b)

Spec == Init /\ [][Next]_vars
-----------------------------------------------------------------------------
(***************************************************************************)
(* Properties                                                              *)
(***************************************************************************)

\* A tag in use is the active tag of its spool.
TagsInUse(rows) ==
  \A i \in TagIds : rows.tag[i].status = "assigned" => rows.active_tag[rows.tag[i].spool] = i

\* Types; a running server has an identity in its database, and a tag in use is
\* the active tag of its spool, in every inventory and in every backup.
TypeOK ==
  /\ db \in [Hosts -> Database]
  /\ keyFile \in [Hosts -> KeyFile]
  /\ server \in [Hosts -> Server]
  /\ backups \subseteq BackupFile
  /\ chip \in [Uids -> Chip]
  /\ \A h \in Hosts : server[h].up => db[h].instance_id # Null
  /\ \A h \in Hosts : TagsInUse(db[h].rows)
  /\ \A b \in backups : TagsInUse(b.rows)

\* A restart changes no answer: the keys and the salt a running server holds in
\* memory are those it would load, after every start, restore, failed restore and
\* crash in any order (createApp, POST /api/restore).  A restore that failed within
\* the key file leaves one that nothing can be loaded from: there is no restart.
RestartKeepsKeys ==
  \A h \in Hosts : server[h].up =>
    /\ keyFile[h].state # "missing"
    /\ keyFile[h].state = "saved" => keyFile[h].store.key = server[h].store.key
    /\ db[h].hash_salt = server[h].salt

\* The rows and the key store belong together: every tag in use was assigned
\* under the key, and both name one instance.
Whole(rows, instance, store) ==
  /\ instance \in {Null, store.instance_id}
  /\ \A i \in TagIds : rows.tag[i].status = "assigned" => rows.tag[i].public_key = store.key
WholeHost(h) ==
  keyFile[h].state = "saved" => Whole(db[h].rows, db[h].instance_id, keyFile[h].store)
WholeBackup(b) == Whole(b.rows, b.instance_id, b.store)

\* Only a restore that is stopped or cannot write the key file, or the restore of a
\* backup in which they do not belong together, takes an inventory and its keys
\* apart: no start, no stop of a start and no request does, not even after the
\* restore of another installation's backup (createApp, assignNfcTag,
\* POST /api/restore).
OnlyRestoresSplitKeys ==
  [][\A h \in Hosts : WholeHost(h) /\ ~WholeHost(h)' =>
       \E b \in backups : \/ RestoreStops(h, b) \/ RestoreFails(h, b)
                          \/ Restore(h, b) /\ ~WholeBackup(b)]_vars

\* A tag in use that holds a payload of its assignment.
Recognisable(h, i) ==
  /\ db[h].rows.tag[i].status = "assigned"
  /\ chip[i[1]] = Payload(i, db[h].rows.tag[i].public_key)

\* A tag in use is recognised when it is scanned, if its inventory and keys are
\* saved and whole and its UID was hashed with this installation's salt, whatever was
\* restored before (POST /api/nfc/scan, verifyNfcPayload, getTagByUidHash).  The
\* salt is not in a backup: a fresh installation finds no tag it was restored.
OwnTagsRecognised ==
  \A h \in Hosts : server[h].up /\ keyFile[h].state = "saved" /\ WholeHost(h) =>
    \A i \in TagIds : Recognisable(h, i) /\ i[2] = server[h].salt =>
      ScanTag(h, i[1]) = "app_owned"
=============================================================================
