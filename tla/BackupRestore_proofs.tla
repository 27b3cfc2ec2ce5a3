-------------------------- MODULE BackupRestore_proofs --------------------------
(***************************************************************************)
(* Proofs about BackupRestore, for any installations, tags and spools and  *)
(* any number of backups.                                                  *)
(***************************************************************************)
EXTENDS BackupRestore, TLAPS

\* What TypeOK says of a running server.
LEMMA UpTyped ==
  ASSUME TypeOK, NEW h \in Hosts, server[h].up
  PROVE  /\ server[h] = Up(server[h].store, server[h].salt)
         /\ server[h].store \in SigningKeyStore
         /\ server[h].salt \in Hosts
         /\ db[h].instance_id \in Hosts
<1>1. server[h] \in Server /\ db[h] \in Database /\ db[h].instance_id # Null
  BY DEF TypeOK
<1>2. server[h] # Down
  BY DEF Down
<1>3. PICK store \in SigningKeyStore, salt \in Hosts : server[h] = Up(store, salt)
  BY <1>1, <1>2 DEF Server
<1>4. server[h].store = store /\ server[h].salt = salt
  BY <1>3 DEF Up
<1>5. db[h].instance_id \in Hosts
  BY <1>1 DEF Database
<1> QED BY <1>3, <1>4, <1>5

\* The store a start loads or makes is a store, and it is saved afterwards.
LEMMA LoadedTyped ==
  ASSUME TypeOK, NEW h \in Hosts
  PROVE  /\ LoadedStore(h) \in SigningKeyStore
         /\ Saved(LoadedStore(h)) \in KeyFile
<1>1. keyFile[h] \in KeyFile /\ db[h].instance_id \in Hosts \cup {Null}
  BY DEF TypeOK, Database
<1>2. CASE keyFile[h].state = "saved"
  <2>1. keyFile[h] # NoFile /\ keyFile[h] # Torn
    BY <1>2 DEF NoFile, Torn
  <2>2. PICK store \in SigningKeyStore : keyFile[h] = Saved(store)
    BY <1>1, <2>1 DEF KeyFile
  <2>3. LoadedStore(h) = store
    BY <1>2, <2>2 DEF LoadedStore, Saved
  <2> QED BY <2>3 DEF KeyFile
<1>3. CASE keyFile[h].state # "saved"
  <2>1. LoadedStore(h) \in SigningKeyStore
    BY <1>1, <1>3 DEF LoadedStore, SigningKeyStore
  <2> QED BY <2>1 DEF KeyFile
<1> QED BY <1>2, <1>3

LEMMA InitTyped == Init => TypeOK
<1> SUFFICES ASSUME Init PROVE TypeOK
  OBVIOUS
<1>1. NoInventory \in Inventory /\ TagsInUse(NoInventory)
  BY DEF NoInventory, Inventory, TagRow, NoTag, TagsInUse
<1>2. NoDatabase \in Database
  BY <1>1 DEF NoDatabase, Database
<1>3. NoFile \in KeyFile /\ Down \in Server /\ Blank \in Chip
  BY DEF KeyFile, Server, Chip
<1>4. \A h \in Hosts : ~server[h].up
  BY DEF Init, Down
<1>5. \A h \in Hosts : db[h].rows = NoInventory
  BY DEF Init, NoDatabase
<1> QED BY <1>1, <1>2, <1>3, <1>4, <1>5 DEF Init, TypeOK

\* The row of app_meta after the first and the second step of a start.
LEMMA StartRows ==
  ASSUME TypeOK, NEW h \in Hosts
  PROVE  /\ WithInstance(h) \in Database
         /\ WithInstance(h).instance_id # Null
         /\ WithInstance(h).hash_salt = db[h].hash_salt
         /\ WithInstance(h).rows = db[h].rows
         /\ WithSalt(WithInstance(h), h) \in Database
         /\ WithSalt(WithInstance(h), h).instance_id = WithInstance(h).instance_id
         /\ WithSalt(WithInstance(h), h).rows = db[h].rows
         /\ WithSalt(WithInstance(h), h).hash_salt \in Hosts
<1> DEFINE store == LoadedStore(h)
<1>1. db[h] \in Database /\ store.instance_id \in Hosts
  BY LoadedTyped DEF TypeOK, SigningKeyStore
<1> HIDE DEF store
<1>2. WithInstance(h) = [db[h] EXCEPT !.instance_id = IF @ = Null THEN store.instance_id ELSE @]
  BY DEF WithInstance, store
<1>3. /\ WithInstance(h) \in Database
      /\ WithInstance(h).instance_id # Null
      /\ WithInstance(h).hash_salt = db[h].hash_salt
      /\ WithInstance(h).rows = db[h].rows
  BY <1>1, <1>2, BackupAssumption DEF Database
<1> DEFINE row == WithInstance(h)
<1> HIDE DEF row
<1>4. ASSUME row \in Database
      PROVE  /\ WithSalt(row, h) \in Database
             /\ WithSalt(row, h).instance_id = row.instance_id
             /\ WithSalt(row, h).rows = row.rows
             /\ WithSalt(row, h).hash_salt \in Hosts
  BY <1>4 DEF WithSalt, Database
<1> QED
  BY <1>3, <1>4 DEF row

\* A host's inventory after an assignment and after a retirement.
LEMMA AssignRows ==
  ASSUME NEW rows \in Inventory, TagsInUse(rows),
         NEW i \in TagIds, NEW s \in Spools, NEW key \in Hosts
  PROVE  LET next == [tag |-> [j \in TagIds |->
                        IF j = i THEN [status |-> "assigned", spool |-> s, public_key |-> key]
                        ELSE IF j = rows.active_tag[s]
                             THEN [rows.tag[j] EXCEPT !.status = "retired"]
                        ELSE rows.tag[j]],
                      active_tag |-> [rows.active_tag EXCEPT ![s] = i]]
         IN next \in Inventory /\ TagsInUse(next)
<1> DEFINE tag == [j \in TagIds |->
                     IF j = i THEN [status |-> "assigned", spool |-> s, public_key |-> key]
                     ELSE IF j = rows.active_tag[s] THEN [rows.tag[j] EXCEPT !.status = "retired"]
                     ELSE rows.tag[j]]
           active == [rows.active_tag EXCEPT ![s] = i]
<1>1. \A j \in TagIds : rows.tag[j] \in TagRow /\ [rows.tag[j] EXCEPT !.status = "retired"] \in TagRow
  BY DEF Inventory, TagRow
<1>2. [status |-> "assigned", spool |-> s, public_key |-> key] \in TagRow
  BY DEF TagRow
<1>3. active \in [Spools -> TagIds \cup {Null}]
  BY DEF Inventory
<1>4. tag \in [TagIds -> TagRow]
  BY <1>1, <1>2
<1>5. ASSUME NEW k \in TagIds, tag[k].status = "assigned"
      PROVE  active[tag[k].spool] = k
  <2>1. CASE k = i
    BY <2>1 DEF Inventory
  <2>2. CASE k # i /\ k = rows.active_tag[s]
    BY <1>5, <2>2 DEF Inventory, TagRow
  <2>3. CASE k # i /\ k # rows.active_tag[s]
    <3>1. tag[k] = rows.tag[k]
      BY <2>3
    <3>2. rows.active_tag[tag[k].spool] = k
      BY <1>5, <3>1 DEF TagsInUse
    <3> QED BY <2>3, <3>2 DEF Inventory
  <2> QED BY <2>1, <2>2, <2>3
<1> HIDE DEF tag, active
<1> QED BY <1>3, <1>4, <1>5 DEF Inventory, TagsInUse, tag, active

\* A step that writes only the rows of one host.
RowsWritten(h) ==
  /\ server[h].up
  /\ \E rows \in Inventory : /\ TagsInUse(rows)
                             /\ db' = [db EXCEPT ![h] = [db[h] EXCEPT !.rows = rows]]
  /\ UNCHANGED <<keyFile, server, backups, chip>>

LEMMA AssignWritesRows ==
  ASSUME TypeOK, NEW h \in Hosts, NEW u \in Uids, NEW s \in Spools, AssignNfcTag(h, u, s)
  PROVE  RowsWritten(h)
<1> DEFINE i == <<u, server[h].salt>>
           rows == db[h].rows
           key == server[h].store.key
           next == [tag |-> [j \in TagIds |->
                      IF j = i THEN [status |-> "assigned", spool |-> s, public_key |-> key]
                      ELSE IF j = rows.active_tag[s] THEN [rows.tag[j] EXCEPT !.status = "retired"]
                      ELSE rows.tag[j]],
                    active_tag |-> [rows.active_tag EXCEPT ![s] = i]]
<1>1. server[h].up
  BY DEF AssignNfcTag
<1>2. i \in TagIds /\ key \in Hosts /\ rows \in Inventory /\ TagsInUse(rows)
  BY <1>1, UpTyped DEF TagIds, SigningKeyStore, TypeOK, Database
<1>3. db' = [db EXCEPT ![h].rows = next] /\ UNCHANGED <<keyFile, server, backups, chip>>
  BY DEF AssignNfcTag
<1> HIDE DEF i, rows, key
<1>4. next \in Inventory /\ TagsInUse(next)
  BY <1>2, AssignRows
<1> HIDE DEF next
<1> QED BY <1>1, <1>3, <1>4 DEF RowsWritten

LEMMA RetireWritesRows ==
  ASSUME TypeOK, NEW h \in Hosts, NEW i \in TagIds, RetireTag(h, i)
  PROVE  RowsWritten(h)
<1> DEFINE rows == db[h].rows
           s == rows.tag[i].spool
           tags == [rows.tag EXCEPT ![i].status = "retired"]
           active == IF rows.active_tag[s] = i THEN [rows.active_tag EXCEPT ![s] = Null]
                     ELSE rows.active_tag
<1>1. rows.tag \in [TagIds -> TagRow] /\ rows.active_tag \in [Spools -> TagIds \cup {Null}]
  BY DEF TypeOK, Database, Inventory
<1>2. /\ db' = [db EXCEPT ![h].rows = [tag |-> tags, active_tag |-> active]]
      /\ server[h].up /\ UNCHANGED <<keyFile, server, backups, chip>>
  BY DEF RetireTag
<1>3. tags \in [TagIds -> TagRow]
  BY <1>1 DEF TagRow
<1>4. active \in [Spools -> TagIds \cup {Null}]
  BY <1>1
<1>5. ASSUME NEW k \in TagIds, tags[k].status = "assigned"
      PROVE  active[tags[k].spool] = k
  <2>1. k # i /\ tags[k] = rows.tag[k]
    BY <1>1, <1>5 DEF TagRow
  <2>2. rows.active_tag[rows.tag[k].spool] = k
    BY <1>5, <2>1 DEF TypeOK, TagsInUse
  <2> QED BY <1>1, <2>1, <2>2
<1> HIDE DEF tags, active
<1>6. [tag |-> tags, active_tag |-> active] \in Inventory
  BY <1>3, <1>4 DEF Inventory
<1>7. TagsInUse([tag |-> tags, active_tag |-> active])
  BY <1>5 DEF TagsInUse
<1> QED BY <1>2, <1>6, <1>7 DEF RowsWritten

\* An installation that has no key file yet has no tag in use: the key it makes
\* at its first start fits its inventory.
NewHostsEmpty ==
  \A h \in Hosts : keyFile[h].state = "missing" =>
    \A i \in TagIds : db[h].rows.tag[i].status # "assigned"

\* The inductive invariant.
IInv == TypeOK /\ RestartKeepsKeys /\ NewHostsEmpty

\* Only the rows of a host's database change: nothing a restart would load.
LEMMA RowsKeep ==
  ASSUME IInv, NEW h \in Hosts, RowsWritten(h)
  PROVE  IInv'
<1>1. PICK rows \in Inventory : /\ TagsInUse(rows)
                                /\ db' = [db EXCEPT ![h] = [db[h] EXCEPT !.rows = rows]]
  BY DEF RowsWritten
<1>2. UNCHANGED <<keyFile, server, backups, chip>>
  BY DEF RowsWritten
<1>3. db \in [Hosts -> Database] /\ db[h] \in Database
  BY DEF IInv, TypeOK
<1> DEFINE row == [db[h] EXCEPT !.rows = rows]
<1>4. /\ row \in Database /\ row.instance_id = db[h].instance_id
      /\ row.hash_salt = db[h].hash_salt /\ TagsInUse(row.rows)
  BY <1>1, <1>3 DEF Database
<1> HIDE DEF row
<1>5. db' = [db EXCEPT ![h] = row]
  BY <1>1 DEF row
<1>6. TypeOK'
  BY <1>2, <1>3, <1>4, <1>5 DEF IInv, TypeOK
<1>7. RestartKeepsKeys'
  BY <1>2, <1>3, <1>4, <1>5 DEF IInv, RestartKeepsKeys
<1>8. keyFile[h].state # "missing"
  BY DEF RowsWritten, IInv, RestartKeepsKeys
<1>9. NewHostsEmpty'
  BY <1>2, <1>3, <1>5, <1>8 DEF IInv, NewHostsEmpty
<1> QED BY <1>6, <1>7, <1>9 DEF IInv

LEMMA StartKeeps ==
  ASSUME IInv, NEW h \in Hosts, Start(h)
  PROVE  IInv'
<1> DEFINE row == WithSalt(WithInstance(h), h)
           store == LoadedStore(h)
<1>1. TypeOK
  BY DEF IInv
<1>2. /\ keyFile' = [keyFile EXCEPT ![h] = Saved(store)]
      /\ db' = [db EXCEPT ![h] = row]
      /\ server' = [server EXCEPT ![h] = Up(store, row.hash_salt)]
      /\ UNCHANGED <<backups, chip>>
  BY DEF Start
<1>3. /\ row \in Database /\ row.instance_id # Null /\ row.hash_salt \in Hosts
      /\ TagsInUse(row.rows)
  <2>1. TagsInUse(db[h].rows)
    BY <1>1 DEF TypeOK
  <2> QED BY <1>1, <2>1, StartRows
<1>4. store \in SigningKeyStore /\ Saved(store) \in KeyFile
  BY <1>1, LoadedTyped
<1> HIDE DEF row, store
<1>5. Up(store, row.hash_salt) \in Server
  BY <1>3, <1>4 DEF Server
<1>6. TypeOK'
  BY <1>1, <1>2, <1>3, <1>4, <1>5 DEF TypeOK
<1>7. RestartKeepsKeys'
  BY <1>1, <1>2 DEF IInv, TypeOK, RestartKeepsKeys, Saved, Up
<1>8. NewHostsEmpty'
  BY <1>1, <1>2 DEF IInv, TypeOK, NewHostsEmpty, Saved
<1> QED BY <1>6, <1>7, <1>8 DEF IInv

LEMMA StartStopsKeeps ==
  ASSUME IInv, NEW h \in Hosts, StartStops(h)
  PROVE  IInv'
<1>1. TypeOK /\ ~server[h].up
  BY DEF IInv, StartStops, Startable
<1>2. PICK file \in KeyFile : keyFile' = [keyFile EXCEPT ![h] = file]
  BY <1>1, LoadedTyped DEF StartStops, KeyFile
<1>3. PICK row \in Database : TagsInUse(row.rows) /\ db' = [db EXCEPT ![h] = row]
  <2>1. db = [db EXCEPT ![h] = db[h]] /\ db[h] \in Database /\ TagsInUse(db[h].rows)
    BY <1>1 DEF TypeOK
  <2>2. WithInstance(h) \in Database /\ TagsInUse(WithInstance(h).rows)
    BY <1>1, <2>1, StartRows
  <2> QED BY <2>1, <2>2 DEF StartStops
<1>4. UNCHANGED <<server, backups, chip>>
  BY DEF StartStops
<1>5. TypeOK'
  BY <1>1, <1>2, <1>3, <1>4 DEF TypeOK
<1>6. RestartKeepsKeys'
  BY <1>1, <1>2, <1>3, <1>4 DEF IInv, TypeOK, RestartKeepsKeys
<1>7. NewHostsEmpty'
  <2>1. SUFFICES ASSUME NEW g \in Hosts, keyFile'[g].state = "missing"
                 PROVE  \A i \in TagIds : db'[g].rows.tag[i].status # "assigned"
    BY DEF NewHostsEmpty
  <2>2. CASE g # h
    BY <1>1, <1>2, <1>3, <2>1, <2>2 DEF IInv, TypeOK, NewHostsEmpty
  <2>3. CASE g = h
    <3>1. keyFile' # [keyFile EXCEPT ![h] = Torn] /\ keyFile' # [keyFile EXCEPT ![h] = Saved(LoadedStore(h))]
      BY <1>1, <2>1, <2>3 DEF TypeOK, Torn, Saved
    <3> QED BY <3>1 DEF StartStops
  <2> QED BY <2>2, <2>3
<1> QED BY <1>5, <1>6, <1>7 DEF IInv

LEMMA StopKeeps ==
  ASSUME IInv, NEW h \in Hosts, Stop(h)
  PROVE  IInv'
<1>1. server' = [server EXCEPT ![h] = Down] /\ UNCHANGED <<db, keyFile, backups, chip>>
  BY DEF Stop
<1>2. TypeOK'
  BY <1>1 DEF IInv, TypeOK, Server, Down
<1>3. RestartKeepsKeys'
  BY <1>1 DEF IInv, TypeOK, RestartKeepsKeys, Down
<1> QED BY <1>1, <1>2, <1>3 DEF IInv, NewHostsEmpty

LEMMA WriteKeeps ==
  ASSUME IInv, NEW h \in Hosts, NEW s \in Spools, WritePayload(h, s)
  PROVE  IInv'
<1> DEFINE i == db[h].rows.active_tag[s]
           payload == Payload(i, server[h].store.key)
<1>1. server[h].up /\ i # Null /\ chip' = [chip EXCEPT ![i[1]] = payload]
  BY DEF WritePayload
<1>2. UNCHANGED <<db, keyFile, server, backups>>
  BY DEF WritePayload
<1>3. i \in TagIds
  BY <1>1 DEF IInv, TypeOK, Database, Inventory
<1>4. server[h].store.key \in Hosts
  BY <1>1, UpTyped DEF IInv, SigningKeyStore
<1>5. payload \in Chip
  BY <1>3, <1>4 DEF Chip
<1> HIDE DEF i, payload
<1>6. TypeOK'
  BY <1>1, <1>2, <1>5 DEF IInv, TypeOK
<1> QED BY <1>2, <1>6 DEF IInv, RestartKeepsKeys, NewHostsEmpty

LEMMA BackUpKeeps ==
  ASSUME IInv, NEW h \in Hosts, BackUp(h)
  PROVE  IInv'
<1> DEFINE b == [instance_id |-> db[h].instance_id, rows |-> db[h].rows, store |-> server[h].store]
<1>1. server[h].up /\ backups' = backups \cup {b} /\ UNCHANGED <<db, keyFile, server, chip>>
  BY DEF BackUp
<1>2. b \in BackupFile /\ TagsInUse(b.rows)
  BY <1>1, UpTyped DEF IInv, TypeOK, BackupFile, Database
<1> HIDE DEF b
<1>3. TypeOK'
  BY <1>1, <1>2 DEF IInv, TypeOK
<1> QED BY <1>1, <1>3 DEF IInv, RestartKeepsKeys, NewHostsEmpty

LEMMA DeleteBackupKeeps ==
  ASSUME IInv, NEW b \in backups, DeleteBackup(b)
  PROVE  IInv'
<1>1. backups' = backups \ {b} /\ UNCHANGED <<db, keyFile, server, chip>>
  BY DEF DeleteBackup
<1>2. TypeOK'
  BY <1>1 DEF IInv, TypeOK
<1> QED BY <1>1, <1>2 DEF IInv, RestartKeepsKeys, NewHostsEmpty

\* The database of a host after the transaction of a restore.
LEMMA RestoredTyped ==
  ASSUME TypeOK, NEW h \in Hosts, NEW b \in backups
  PROVE  /\ b \in BackupFile
         /\ Restored(h, b) \in Database
         /\ Restored(h, b).instance_id = b.instance_id
         /\ Restored(h, b).instance_id # Null
         /\ Restored(h, b).hash_salt = db[h].hash_salt
         /\ Restored(h, b).rows = b.rows
         /\ TagsInUse(Restored(h, b).rows)
         /\ Saved(b.store) \in KeyFile
<1>1. db[h] \in Database /\ b \in BackupFile /\ TagsInUse(b.rows)
  BY DEF TypeOK
<1>2. b.instance_id \in Hosts /\ b.rows \in Inventory /\ b.store \in SigningKeyStore
  BY <1>1 DEF BackupFile
<1>3. Saved(b.store) \in KeyFile
  BY <1>2 DEF KeyFile
<1> QED BY <1>1, <1>2, <1>3, BackupAssumption DEF Restored, Database

LEMMA RestoreKeeps ==
  ASSUME IInv, NEW h \in Hosts, NEW b \in backups, Restore(h, b)
  PROVE  IInv'
<1> DEFINE row == Restored(h, b)
           file == Saved(b.store)
           process == Up([server[h].store EXCEPT !.key = b.store.key], server[h].salt)
<1>1. TypeOK /\ server[h].up
  BY DEF IInv, Restore
<1>2. /\ db' = [db EXCEPT ![h] = row]
      /\ keyFile' = [keyFile EXCEPT ![h] = file]
      /\ UNCHANGED <<backups, chip>>
  BY DEF Restore
<1>3. /\ row \in Database /\ row.instance_id # Null /\ row.hash_salt = db[h].hash_salt
      /\ TagsInUse(row.rows)
      /\ file \in KeyFile /\ file.state = "saved" /\ file.store = b.store
      /\ b.store \in SigningKeyStore
  BY <1>1, RestoredTyped DEF Saved, BackupFile
<1>4. /\ server[h] = Up(server[h].store, server[h].salt)
      /\ server[h].store \in SigningKeyStore /\ server[h].salt \in Hosts
  BY <1>1, UpTyped
<1>5. server' = [server EXCEPT ![h] = process]
  BY DEF Restore
<1>6. [server[h].store EXCEPT !.key = b.store.key] \in SigningKeyStore
  BY <1>3, <1>4 DEF SigningKeyStore
<1>7. process \in Server
  BY <1>4, <1>6 DEF Server
<1>8. process.store.key = file.store.key /\ process.salt = server[h].salt
  BY <1>3, <1>4 DEF Up, SigningKeyStore
<1> HIDE DEF row, file, process
<1>9. TypeOK'
  BY <1>1, <1>2, <1>3, <1>5, <1>7 DEF TypeOK
<1>10. RestartKeepsKeys'
  BY <1>1, <1>2, <1>3, <1>5, <1>8 DEF IInv, TypeOK, RestartKeepsKeys
<1>11. NewHostsEmpty'
  BY <1>1, <1>2, <1>3 DEF IInv, TypeOK, NewHostsEmpty
<1> QED BY <1>9, <1>10, <1>11 DEF IInv

LEMMA RestoreStopsKeeps ==
  ASSUME IInv, NEW h \in Hosts, NEW b \in backups, RestoreStops(h, b)
  PROVE  IInv'
<1> DEFINE row == Restored(h, b)
<1>1. TypeOK /\ server[h].up /\ keyFile[h].state # "missing"
  BY DEF IInv, RestoreStops, RestartKeepsKeys
<1>2. row \in Database /\ row.instance_id # Null /\ TagsInUse(row.rows)
  BY <1>1, RestoredTyped
<1>3. /\ db' = [db EXCEPT ![h] = row]
      /\ server' = [server EXCEPT ![h] = Down]
      /\ UNCHANGED <<backups, chip>>
  BY DEF RestoreStops
<1>4. PICK file \in {keyFile[h], Torn, Saved(b.store)} : keyFile' = [keyFile EXCEPT ![h] = file]
  BY DEF RestoreStops
<1>5. file \in KeyFile
  BY <1>1, <1>4, RestoredTyped DEF TypeOK, KeyFile
<1>6. file.state # "missing"
  BY <1>1, <1>4 DEF Torn, Saved
<1>7. Down \in Server /\ ~Down.up
  BY DEF Server, Down
<1> HIDE DEF row
<1>8. TypeOK'
  BY <1>1, <1>2, <1>3, <1>4, <1>5, <1>7 DEF TypeOK
<1>9. RestartKeepsKeys'
  BY <1>1, <1>3, <1>4, <1>7 DEF IInv, TypeOK, RestartKeepsKeys
<1>10. NewHostsEmpty'
  BY <1>1, <1>3, <1>4, <1>6 DEF IInv, TypeOK, NewHostsEmpty
<1> QED BY <1>8, <1>9, <1>10 DEF IInv

LEMMA RestoreFailsKeeps ==
  ASSUME IInv, NEW h \in Hosts, NEW b \in backups, RestoreFails(h, b)
  PROVE  IInv'
<1> DEFINE row == Restored(h, b)
<1>1. TypeOK /\ server[h].up /\ keyFile[h].state # "missing"
  BY DEF IInv, RestoreFails, RestartKeepsKeys
<1>2. /\ row \in Database /\ row.instance_id # Null /\ row.hash_salt = db[h].hash_salt
      /\ TagsInUse(row.rows)
  BY <1>1, RestoredTyped
<1>3. db' = [db EXCEPT ![h] = row] /\ UNCHANGED <<server, backups, chip>>
  BY DEF RestoreFails
<1>4. PICK file \in {keyFile[h], Torn} : keyFile' = [keyFile EXCEPT ![h] = file]
  BY DEF RestoreFails
<1>5. file \in KeyFile /\ file.state # "missing"
  BY <1>1, <1>4 DEF TypeOK, KeyFile, Torn
<1>6. file.state = "saved" => file = keyFile[h]
  BY <1>4 DEF Torn
<1> HIDE DEF row
<1>7. TypeOK'
  BY <1>1, <1>2, <1>3, <1>4, <1>5 DEF TypeOK
<1>8. RestartKeepsKeys'
  BY <1>1, <1>2, <1>3, <1>4, <1>5, <1>6 DEF IInv, TypeOK, RestartKeepsKeys
<1>9. NewHostsEmpty'
  BY <1>1, <1>3, <1>4, <1>5 DEF IInv, TypeOK, NewHostsEmpty
<1> QED BY <1>7, <1>8, <1>9 DEF IInv

\* The invariant is inductive.
LEMMA Inductive ==
  /\ Init => IInv
  /\ IInv /\ [Next]_vars => IInv'
<1>1. Init => IInv
  <2> SUFFICES ASSUME Init PROVE IInv
    OBVIOUS
  <2>1. TypeOK
    BY InitTyped
  <2>2. RestartKeepsKeys
    BY DEF Init, RestartKeepsKeys, Down
  <2>3. NewHostsEmpty
    BY DEF Init, NewHostsEmpty, NoDatabase, NoInventory, NoTag
  <2> QED BY <2>1, <2>2, <2>3 DEF IInv
<1>2. IInv /\ [Next]_vars => IInv'
  <2> SUFFICES ASSUME IInv, [Next]_vars PROVE IInv'
    OBVIOUS
  <2>1. CASE UNCHANGED vars
    BY <2>1 DEF vars, IInv, TypeOK, RestartKeepsKeys, NewHostsEmpty
  <2>2. CASE Next
    <3>1. PICK h \in Hosts :
            \/ Start(h) \/ StartStops(h) \/ Stop(h) \/ BackUp(h)
            \/ \E s \in Spools : WritePayload(h, s) \/ \E u \in Uids : AssignNfcTag(h, u, s)
            \/ \E i \in TagIds : RetireTag(h, i)
            \/ \E b \in backups :
                 DeleteBackup(b) \/ Restore(h, b) \/ RestoreStops(h, b) \/ RestoreFails(h, b)
      BY <2>2 DEF Next
    <3>2. CASE Start(h) \/ StartStops(h) \/ Stop(h) \/ BackUp(h)
      BY <3>2, StartKeeps, StartStopsKeeps, StopKeeps, BackUpKeeps
    <3>3. CASE \E s \in Spools : WritePayload(h, s) \/ \E u \in Uids : AssignNfcTag(h, u, s)
      BY <3>3, WriteKeeps, AssignWritesRows, RowsKeep DEF IInv
    <3>4. CASE \E i \in TagIds : RetireTag(h, i)
      BY <3>4, RetireWritesRows, RowsKeep DEF IInv
    <3>5. CASE \E b \in backups :
                 DeleteBackup(b) \/ Restore(h, b) \/ RestoreStops(h, b) \/ RestoreFails(h, b)
      BY <3>5, DeleteBackupKeeps, RestoreKeeps, RestoreStopsKeeps, RestoreFailsKeeps
    <3> QED BY <3>1, <3>2, <3>3, <3>4, <3>5
  <2> QED BY <2>1, <2>2
<1> QED BY <1>1, <1>2

THEOREM InvHolds == Spec => []IInv
<1>1. Init => IInv
  BY Inductive
<1>2. IInv /\ [Next]_vars => IInv'
  BY Inductive
<1> QED BY <1>1, <1>2, PTL DEF Spec

\* Files, rows and what a running server keeps have their types.
THEOREM HostTypes == Spec => []TypeOK
<1>1. IInv => TypeOK
  BY DEF IInv
<1> QED BY <1>1, InvHolds, PTL

\* A restart changes no answer of the server (createApp, POST /api/restore).
THEOREM RestartsChangeNothing == Spec => []RestartKeepsKeys
<1>1. IInv => RestartKeepsKeys
  BY DEF IInv
<1> QED BY <1>1, InvHolds, PTL

\* The tags of an installation are recognised (POST /api/nfc/scan).
THEOREM TagsRecognised == Spec => []OwnTagsRecognised
<1>1. IInv => OwnTagsRecognised
  <2> SUFFICES ASSUME IInv, NEW h \in Hosts, server[h].up, keyFile[h].state = "saved",
                      WholeHost(h), NEW i \in TagIds,
                      Recognisable(h, i), i[2] = server[h].salt
               PROVE  ScanTag(h, i[1]) = "app_owned"
    BY DEF OwnTagsRecognised
  <2> DEFINE row == db[h].rows.tag[i]
             payload == Payload(i, row.public_key)
  <2>1. keyFile[h].state = "saved" /\ keyFile[h].store.key = server[h].store.key
    BY DEF IInv, RestartKeepsKeys
  <2>2. row.status = "assigned" /\ chip[i[1]] = payload
    BY DEF Recognisable
  <2>3. payload.key = row.public_key /\ payload # Blank
    BY DEF Payload, Blank
  <2>4. row.public_key = server[h].store.key
    BY <2>1, <2>2 DEF WholeHost, Whole
  <2>5. i = <<i[1], server[h].salt>>
    BY DEF TagIds
  <2>6. db[h].rows.tag[<<i[1], server[h].salt>>] = row
    BY <2>5
  <2> HIDE DEF row, payload
  <2> QED BY <2>2, <2>3, <2>4, <2>6 DEF ScanTag, Verified
<1> QED BY <1>1, InvHolds, PTL

\* A host whose database, key file and backups are not touched stays whole.
LEMMA OthersStayWhole ==
  ASSUME NEW g \in Hosts, WholeHost(g), db'[g] = db[g], keyFile'[g] = keyFile[g]
  PROVE  WholeHost(g)'
BY DEF WholeHost, Whole

LEMMA StartStaysWhole ==
  ASSUME IInv, NEW h \in Hosts, WholeHost(h), Start(h) \/ StartStops(h)
  PROVE  WholeHost(h)'
<1> DEFINE store == LoadedStore(h)
<1>1. TypeOK /\ db[h] \in Database
  BY DEF IInv, TypeOK
<1>2. WithInstance(h).rows = db[h].rows /\ WithSalt(WithInstance(h), h).rows = db[h].rows
  BY <1>1, StartRows
<1>3. db'[h].rows = db[h].rows
  BY <1>1, <1>2 DEF TypeOK, Start, StartStops
<1>4. WithInstance(h).instance_id \in {db[h].instance_id, store.instance_id}
      /\ (WithInstance(h).instance_id = db[h].instance_id => db[h].instance_id # Null)
  BY <1>1, StartRows DEF WithInstance, Database
<1>5. db'[h].instance_id \in {db[h].instance_id, store.instance_id}
  <2>1. WithSalt(WithInstance(h), h).instance_id = WithInstance(h).instance_id
    BY <1>1, StartRows
  <2> QED BY <1>1, <1>4, <2>1 DEF TypeOK, Start, StartStops
<1>6. CASE keyFile'[h].state = "saved"
  <2>1. keyFile'[h] = Saved(store)
    BY <1>1, <1>6 DEF TypeOK, Start, StartStops, Torn
  <2>2. keyFile'[h].store = store
    BY <2>1 DEF Saved
  <2>3. CASE keyFile[h].state = "saved"
    <3>1. store = keyFile[h].store
      BY <2>3 DEF LoadedStore
    <3>2. Whole(db[h].rows, db[h].instance_id, store)
      BY <2>3, <3>1 DEF WholeHost
    <3> QED BY <1>3, <1>5, <2>2, <3>2 DEF WholeHost, Whole
  <2>4. CASE keyFile[h].state # "saved"
    <3>1. keyFile[h] \in KeyFile /\ keyFile[h].state # "torn"
      BY <1>1 DEF TypeOK, Start, StartStops, Startable
    <3>2. keyFile[h].state = "missing"
      BY <2>4, <3>1 DEF KeyFile, NoFile, Torn, Saved
    <3>3. \A i \in TagIds : db[h].rows.tag[i].status # "assigned"
      BY <3>2 DEF IInv, NewHostsEmpty
    <3>4. db[h].instance_id \in {Null, store.instance_id}
      BY <2>4 DEF LoadedStore
    <3> QED BY <1>3, <1>5, <2>2, <3>3, <3>4 DEF WholeHost, Whole
  <2> QED BY <2>3, <2>4
<1> QED BY <1>6 DEF WholeHost

LEMMA AssignStaysWhole ==
  ASSUME IInv, NEW h \in Hosts, NEW u \in Uids, NEW s \in Spools,
         WholeHost(h), AssignNfcTag(h, u, s)
  PROVE  WholeHost(h)'
<1> DEFINE rows == db[h].rows
           key == server[h].store.key
<1>1. TypeOK /\ server[h].up
  BY DEF IInv, AssignNfcTag
<1>2. keyFile[h].state = "saved" => keyFile[h].store.key = key
  BY <1>1 DEF IInv, RestartKeepsKeys
<1>3. \A j \in TagIds : rows.tag[j] \in TagRow
  BY <1>1 DEF TypeOK, Database, Inventory
<1>4. keyFile[h].state = "saved" =>
        \A j \in TagIds : rows.tag[j].status = "assigned" => rows.tag[j].public_key = key
  BY <1>2 DEF WholeHost, Whole
<1>5. \A j \in TagIds : db'[h].rows.tag[j] \in
        {[status |-> "assigned", spool |-> s, public_key |-> key],
         [rows.tag[j] EXCEPT !.status = "retired"], rows.tag[j]}
  BY <1>1 DEF AssignNfcTag, TypeOK, Database
<1>6. \A j \in TagIds : [rows.tag[j] EXCEPT !.status = "retired"].status = "retired"
  BY <1>3 DEF TagRow
<1> HIDE DEF rows, key
<1>7. ASSUME keyFile[h].state = "saved",
             NEW j \in TagIds, db'[h].rows.tag[j].status = "assigned"
      PROVE  db'[h].rows.tag[j].public_key = key
  <2>1. CASE db'[h].rows.tag[j] = [status |-> "assigned", spool |-> s, public_key |-> key]
    BY <2>1
  <2>2. CASE db'[h].rows.tag[j] = [rows.tag[j] EXCEPT !.status = "retired"]
    BY <1>6, <1>7, <2>2
  <2>3. CASE db'[h].rows.tag[j] = rows.tag[j]
    BY <1>4, <1>7, <2>3
  <2> QED BY <1>5, <2>1, <2>2, <2>3
<1>8. db'[h].instance_id = db[h].instance_id /\ keyFile' = keyFile
  BY <1>1 DEF AssignNfcTag, TypeOK, Database
<1> QED BY <1>2, <1>7, <1>8 DEF WholeHost, Whole

LEMMA RetireStaysWhole ==
  ASSUME IInv, NEW h \in Hosts, NEW i \in TagIds, WholeHost(h), RetireTag(h, i)
  PROVE  WholeHost(h)'
<1> DEFINE rows == db[h].rows
<1>1. db \in [Hosts -> Database] /\ db[h] \in Database /\ rows.tag \in [TagIds -> TagRow]
  BY DEF IInv, TypeOK, Database, Inventory
<1>2. db'[h].rows.tag = [rows.tag EXCEPT ![i].status = "retired"]
  BY <1>1 DEF RetireTag, Database
<1> HIDE DEF rows
<1>3. \A j \in TagIds : db'[h].rows.tag[j].status = "assigned" => db'[h].rows.tag[j] = rows.tag[j]
  BY <1>1, <1>2 DEF TagRow
<1>4. db'[h].instance_id = db[h].instance_id /\ keyFile' = keyFile
  BY <1>1 DEF RetireTag, Database
<1> QED BY <1>3, <1>4 DEF WholeHost, Whole, rows

LEMMA RestoreIsWhole ==
  ASSUME IInv, NEW h \in Hosts, NEW b \in backups, Restore(h, b), WholeBackup(b)
  PROVE  WholeHost(h)'
<1>1. TypeOK
  BY DEF IInv
<1>2. db'[h] = Restored(h, b) /\ keyFile'[h] = Saved(b.store)
  BY <1>1 DEF Restore, TypeOK
<1>3. db'[h].instance_id = b.instance_id /\ db'[h].rows = b.rows /\ keyFile'[h].store = b.store
  BY <1>1, <1>2, RestoredTyped DEF Saved
<1> QED BY <1>3 DEF WholeHost, WholeBackup, Whole

\* Only a restore takes an inventory and its keys apart, and only one that is
\* stopped, cannot write the key file or brings them apart (createApp, assignNfcTag,
\* POST /api/restore).
THEOREM KeysStayWithInventory == Spec => OnlyRestoresSplitKeys
<1> DEFINE Splits(h) ==
             \E b \in backups : \/ RestoreStops(h, b) \/ RestoreFails(h, b)
                                \/ Restore(h, b) /\ ~WholeBackup(b)
<1>1. ASSUME IInv, [Next]_vars, NEW h \in Hosts, WholeHost(h), ~Splits(h)
      PROVE  WholeHost(h)'
  <2>1. CASE UNCHANGED vars
    BY <1>1, <2>1, OthersStayWhole DEF vars
  <2>2. CASE Next
    <3> DEFINE Keeps(g) ==
                 \/ Stop(g) \/ BackUp(g) \/ \E s \in Spools : WritePayload(g, s)
                 \/ \E b \in backups : DeleteBackup(b)
               Writes(g) ==
                 \/ Start(g) \/ StartStops(g)
                 \/ \E s \in Spools, u \in Uids : AssignNfcTag(g, u, s)
                 \/ \E i \in TagIds : RetireTag(g, i)
                 \/ \E b \in backups : Restore(g, b) \/ RestoreStops(g, b) \/ RestoreFails(g, b)
    <3>1. PICK g \in Hosts : Keeps(g) \/ Writes(g)
      BY <2>2 DEF Next
    <3>2. CASE Keeps(g)
      <4>1. db' = db /\ keyFile' = keyFile
        BY <3>2 DEF Stop, BackUp, WritePayload, DeleteBackup
      <4> QED BY <1>1, <4>1, OthersStayWhole
    <3>3. CASE Writes(g) /\ g # h
      <4>1. db'[h] = db[h] /\ keyFile'[h] = keyFile[h]
        BY <1>1, <3>3 DEF IInv, TypeOK, Start, StartStops, AssignNfcTag, RetireTag, Restore,
                          RestoreStops, RestoreFails
      <4> QED BY <1>1, <4>1, OthersStayWhole
    <3>4. CASE Writes(g) /\ g = h
      <4>1. CASE Start(h) \/ StartStops(h)
        BY <1>1, <4>1, StartStaysWhole
      <4>2. CASE \E s \in Spools, u \in Uids : AssignNfcTag(h, u, s)
        BY <1>1, <4>2, AssignStaysWhole
      <4>3. CASE \E i \in TagIds : RetireTag(h, i)
        BY <1>1, <4>3, RetireStaysWhole
      <4>4. CASE \E b \in backups : Restore(h, b) \/ RestoreStops(h, b) \/ RestoreFails(h, b)
        BY <1>1, <4>4, RestoreIsWhole
      <4> QED BY <3>4, <4>1, <4>2, <4>3, <4>4
    <3> QED BY <3>1, <3>2, <3>3, <3>4
  <2> QED BY <1>1, <2>1, <2>2
<1>2. IInv /\ [Next]_vars =>
        [\A h \in Hosts : WholeHost(h) /\ ~WholeHost(h)' => Splits(h)]_vars
  BY <1>1
<1> QED BY <1>2, InvHolds, PTL DEF Spec, OnlyRestoresSplitKeys
=============================================================================
