-------------------------------- MODULE TagScan --------------------------------
(***************************************************************************)
(* A companion tag and what is physically on its chip.  The server hands   *)
(* out signed payloads (POST /api/nfc/write-payload) that a client writes  *)
(* onto a chip later, onto another chip, partly or never; the phone reads  *)
(* chips (NFCService.swift) and submits what it holds (ScanTagView), and   *)
(* the server classifies it (POST /api/nfc/scan) against its own rows,     *)
(* which other clients change meanwhile.                                   *)
(*                                                                         *)
(* A payload is abstracted to the tag and spool it names, the version of   *)
(* the spool's row its snapshot was taken from, and the reference of the   *)
(* signing key.  granted_at, when it was handed out, is history: the       *)
(* payload has its seconds only and no code reads them.                    *)
(*                                                                         *)
(* The other requests are those of Repository, so the module is about the  *)
(* time between two restores of a backup (InventoryRestore).               *)
(***************************************************************************)
EXTENDS Repository

CONSTANTS
  KeyHashes,      \* hashes an installation's key identifier may have
  WrittenRef(_),  \* the key reference signNfcPayload writes for a hash
  SoughtRef(_)    \* the key reference verifyNfcPayload looks for

VARIABLES
  keyHash,  \* the hash of the identifier of the installation's key
  chip,     \* chip[t]: what is on the chip of tag t
  pending,  \* pending[c]: the payload client c was handed last
  phone,    \* the phone's NFC session
  scan      \* the scan request under way

scanVars == <<keyHash, chip, pending, phone, scan>>
allVars == <<vars, scanVars>>

\* damaged: the layout is right, the hash or the signature is not.
Kinds == {"none", "blank", "foreign", "damaged", "payload"}

Content(kind) == [kind |-> kind, tag |-> Null, spool |-> Null, version |-> 0,
                  granted_at |-> 0, key_ref |-> Null]

\* lastUID is the tag detected last, lastPayload what was read last.
NoSession == [state |-> "idle", lastUID |-> Null, lastPayload |-> Content("none")]

NoScan == [uid |-> Null, payload |-> Content("none")]

ScanInit ==
  /\ Init
  /\ keyHash \in KeyHashes
  /\ chip \in [Tags -> {Content("blank"), Content("foreign")}]
  /\ pending = [c \in Clients |-> Content("none")]
  /\ phone = NoSession
  /\ scan = NoScan
-----------------------------------------------------------------------------
(***************************************************************************)
(* Payloads and chips                                                      *)
(***************************************************************************)

\* signNfcPayload on the rows of the tag and its spool.
Signed(s, t) == [kind |-> "payload", tag |-> t, spool |-> s, version |-> spool[s].version,
                 granted_at |-> clock, key_ref |-> WrittenRef(keyHash)]

\* POST /api/nfc/write-payload.
Grant(c, s, t, force) ==
  /\ WritePayload(c, s, t, force)
  /\ pending' = [pending EXCEPT ![c] = Signed(s, t)]
  /\ UNCHANGED <<keyHash, chip, phone, scan>>

\* The client writes its payload onto the chip it is held against, page by
\* page; nothing compares that chip's UID with the tag the payload names.
WriteChip(c, t) ==
  /\ pending[c].kind = "payload"
  /\ chip' = [chip EXCEPT ![t] = pending[c]]
  /\ UNCHANGED <<vars, keyHash, pending, phone, scan>>

\* The chip leaves the field between two pages.
InterruptWrite(c, t) ==
  /\ pending[c].kind = "payload"
  /\ chip' = [chip EXCEPT ![t] = Content("damaged")]
  /\ UNCHANGED <<vars, keyHash, pending, phone, scan>>
-----------------------------------------------------------------------------
(***************************************************************************)
(* The phone's session                                                     *)
(***************************************************************************)
BeginScan ==
  /\ phone.state = "idle"
  /\ phone' = [phone EXCEPT !.state = "scanning"]
  /\ UNCHANGED <<vars, keyHash, chip, pending, scan>>

\* Mutant of Detect: the UID is kept when the read is over.
DetectWithoutUid(t) ==
  /\ phone.state = "scanning"
  /\ phone' = [phone EXCEPT !.state = "reading"]
  /\ UNCHANGED <<vars, keyHash, chip, pending, scan>>

\* The UID is known when the tag is detected, before its pages are read.
Detect(t) ==
  /\ phone.state = "scanning"
  /\ phone' = [phone EXCEPT !.state = "reading", !.lastUID = t]
  /\ UNCHANGED <<vars, keyHash, chip, pending, scan>>

\* readType2Payload, when all the pages are read.
ReadSucceeds ==
  /\ phone.state = "reading"
  /\ phone' = [phone EXCEPT !.state = "idle", !.lastPayload = chip[phone.lastUID]]
  /\ UNCHANGED <<vars, keyHash, chip, pending, scan>>

\* A read that fails leaves the payload of the read before it.  So does a
\* session that is cancelled, times out or meets a tag of another type.
SessionFails ==
  /\ phone.state \in {"scanning", "reading"}
  /\ phone' = [phone EXCEPT !.state = "idle"]
  /\ UNCHANGED <<vars, keyHash, chip, pending, scan>>

\* NFCService lives as long as the app.
RestartPhone ==
  /\ phone' = NoSession
  /\ UNCHANGED <<vars, keyHash, chip, pending, scan>>

\* "Submit scan" sends the UID and the payload the phone holds at the time.
SubmitScan ==
  /\ phone.lastPayload.kind # "none"
  /\ scan = NoScan
  /\ scan' = [uid |-> phone.lastUID, payload |-> phone.lastPayload]
  /\ UNCHANGED <<vars, keyHash, chip, pending, phone>>

\* "Assign detected blank companion tag" takes the UID alone.
AssignDetected(c, s) ==
  /\ phone.lastUID # Null
  /\ AssignNfcTag(c, s, phone.lastUID)
  /\ UNCHANGED scanVars
-----------------------------------------------------------------------------
(***************************************************************************)
(* The server's answer to a scan                                           *)
(***************************************************************************)

\* verifyNfcPayload; the store holds the one key the installation has.
Verifies(p) == p.kind = "payload" /\ p.key_ref = SoughtRef(keyHash)

\* Mutant of Classification: a stale tag is told by its status.
ClassifyByStatus(t, p) ==
  CASE p.kind \in {"blank", "foreign"} -> p.kind
    [] p.kind \in {"damaged", "payload"} /\ ~Verifies(p) -> "invalid_signature"
    [] Verifies(p) /\ tag[t].status = "none" -> "foreign"
    [] Verifies(p) /\ tag[t].status = "retired" -> "retired"
    [] Verifies(p) /\ tag[t].status = "stale" -> "app_owned_stale"
    [] Verifies(p) /\ tag[t].status = "assigned" -> "app_owned_valid"

\* What the server answers to a payload read from a tag: the payload says
\* whether it is an app-owned one, the row of the tag by its UID the rest.
Classification(t, p) ==
  CASE p.kind \in {"blank", "foreign"} -> p.kind
    [] p.kind \in {"damaged", "payload"} /\ ~Verifies(p) -> "invalid_signature"
    [] Verifies(p) /\ tag[t].status = "none" -> "foreign"
    [] Verifies(p) /\ tag[t].status = "retired" -> "retired"
    [] Verifies(p) /\ tag[t].status \in ActiveTagStates /\ ~LiveSpool(tag[t].assigned_spool)
         -> "not_found"
    [] Verifies(p) /\ tag[t].status \in ActiveTagStates /\ LiveSpool(tag[t].assigned_spool)
         -> IF IsStale(t) THEN "app_owned_stale" ELSE "app_owned_valid"

Recorded == {"retired", "app_owned_stale", "app_owned_valid"}

\* The answer is read by nobody else; only a recorded scan changes a row.
HandleScan ==
  LET answer == Classification(scan.uid, scan.payload) IN
  /\ scan # NoScan
  /\ scan' = NoScan
  /\ IF answer \in Recorded THEN ScanTag(scan.uid) ELSE UNCHANGED vars
  /\ UNCHANGED <<keyHash, chip, pending, phone>>

\* The request does not arrive.
LoseScan ==
  /\ scan # NoScan
  /\ scan' = NoScan
  /\ UNCHANGED <<vars, keyHash, chip, pending, phone>>
-----------------------------------------------------------------------------
PhoneNext ==
  \/ BeginScan
  \/ \E t \in Tags : Detect(t)
  \/ ReadSucceeds
  \/ SessionFails
  \/ RestartPhone
  \/ SubmitScan
  \/ \E c \in Clients, s \in Spools : AssignDetected(c, s)

WriteNext ==
  \E c \in Clients, t \in Tags :
    \/ \E s \in Spools, force \in BOOLEAN : Grant(c, s, t, force)
    \/ WriteChip(c, t)
    \/ InterruptWrite(c, t)

\* Every other request: payloads are handed out and scans recorded above.
OtherNext ==
  /\ \/ CatalogNext
     \/ SpoolNext
     \/ UsageNext
     \/ \E t \in Tags :
          \/ \E c \in Clients, s \in Spools : AssignNfcTag(c, s, t)
          \/ \E v \in Versions : RetireTag(t, v)
     \/ Tick
  /\ UNCHANGED scanVars

ScanNext == PhoneNext \/ WriteNext \/ HandleScan \/ LoseScan \/ OtherNext

ScanSpec == ScanInit /\ [][ScanNext]_allVars
-----------------------------------------------------------------------------
(***************************************************************************)
(* Properties                                                              *)
(***************************************************************************)
ContentType ==
  [kind : Kinds, tag : Tags \cup {Null}, spool : Spools \cup {Null}, version : Nat,
   granted_at : Nat, key_ref : {WrittenRef(h) : h \in KeyHashes} \cup {Null}]

\* The rows, the chips and the phone have their types, a phone that holds a
\* payload or reads a tag knows a UID, and a payload on a chip names a tag and
\* a spool that exist.
ScanTypeOK ==
  /\ TypeOK
  /\ keyHash \in KeyHashes
  /\ chip \in [Tags -> ContentType]
  /\ pending \in [Clients -> ContentType]
  /\ phone \in [state : {"idle", "scanning", "reading"}, lastUID : Tags \cup {Null},
                lastPayload : ContentType]
  /\ scan \in [uid : Tags \cup {Null}, payload : ContentType]
  /\ phone.state = "reading" \/ phone.lastPayload.kind # "none" => phone.lastUID # Null
  /\ scan.payload.kind # "none" <=> scan.uid # Null
  /\ \A t \in Tags : chip[t].kind = "payload" =>
       /\ tag[chip[t].tag].status # "none"
       /\ spool[chip[t].spool].row # "none"

\* What the server may be asked about: the chips, and the scan under way.
Readings ==
  {<<t, chip[t]>> : t \in Tags}
    \cup IF scan = NoScan THEN {} ELSE {<<scan.uid, scan.payload>>}

\* "app_owned_valid" is right about a reading with the payload that was handed out
\* last for the tag, on its chip or in a request under way: the payload's snapshot
\* is the spool's row, whatever happened to tag and spool since, or the row was
\* written in the very instant of the grant (recordTagWrite, POST /api/nfc/scan).
\* A payload that was handed out and never written is what the premise excludes.
ValidMeansCurrent ==
  \A r \in Readings :
    LET t == r[1]
        p == r[2]
        s == tag[t].assigned_spool
    IN (/\ Classification(t, p) = "app_owned_valid"
        /\ p.tag = t
        /\ p.granted_at = tag[t].last_written_at)
         => \/ p.spool = s /\ p.version = spool[s].version
            \/ spool[s].updated_at = p.granted_at

\* What makes a stale tag valid again is a payload handed out for it at that
\* moment: neither scans, nor writes of chips, nor a reassignment of the tag do
\* ("The server marks stale tags when the spool has changed since the tag was last
\* written", SPEC.md:572; recordTagWrite, recordTagScan, assignNfcTag).
StaleUntilGranted ==
  [][\A t \in Tags :
       Classification(t, chip[t]) = "app_owned_stale" /\ Classification(t, chip[t])' = "app_owned_valid"
         => \E c \in Clients :
              /\ pending'[c].tag = t
              /\ pending'[c].granted_at = clock
              /\ tag'[t].last_written_at = clock]_allVars

\* The payloads the installation hands out verify when they are scanned:
\* "encodes, signs, decodes, and verifies FilamentBridge companion payloads"
\* (packages/crypto/src/crypto.test.ts:16).
SignedPayloadsVerify ==
  \A c \in Clients : pending[c].kind = "payload" => Verifies(pending[c])
=============================================================================
