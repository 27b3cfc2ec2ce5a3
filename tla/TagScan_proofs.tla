---------------------------- MODULE TagScan_proofs ----------------------------
(***************************************************************************)
(* Theorems about TagScan, for any tags, spools, clients and installation  *)
(* keys, and whatever the references of a key are.  Only SignedVerify, the  *)
(* last, is about the references of NfcPayload.                            *)
(***************************************************************************)
EXTENDS TagScan, NfcPayload, Repository_proofs

\* What any payload says that was handed out and is still somewhere: its tag and
\* spool exist, the tag was written since, and if the tag was written last when
\* this payload was handed out, then the tag's spool is the row the payload shows
\* or was written at that time or later.
Told(p) ==
  p.kind = "payload" =>
    /\ p.tag \in Tags
    /\ p.spool \in Spools
    /\ tag[p.tag].status # "none"
    /\ spool[p.spool].row # "none"
    /\ tag[p.tag].last_written_at # Null
    /\ p.granted_at <= tag[p.tag].last_written_at
    /\ p.granted_at = tag[p.tag].last_written_at =>
         \/ /\ p.spool = tag[p.tag].assigned_spool
            /\ p.version = spool[tag[p.tag].assigned_spool].version
         \/ p.granted_at <= spool[tag[p.tag].assigned_spool].updated_at

\* Where a payload may be.
Held(p) ==
  \/ \E t \in Tags : chip[t] = p
  \/ \E c \in Clients : pending[c] = p
  \/ phone.lastPayload = p
  \/ scan.payload = p

PayloadsInv == \A p \in ContentType : Held(p) => Told(p)

\* No row was written later than the clock shows.
ClockInv ==
  /\ \A s \in Spools : spool[s].updated_at <= clock
  /\ \A t \in Tags : tag[t].last_written_at # Null => tag[t].last_written_at <= clock

ScanShape ==
  /\ keyHash \in KeyHashes
  /\ chip \in [Tags -> ContentType]
  /\ pending \in [Clients -> ContentType]
  /\ phone \in [state : {"idle", "scanning", "reading"}, lastUID : Tags \cup {Null},
                lastPayload : ContentType]
  /\ scan \in [uid : Tags \cup {Null}, payload : ContentType]
  /\ phone.state = "reading" \/ phone.lastPayload.kind # "none" => phone.lastUID # Null
  /\ scan.payload.kind # "none" <=> scan.uid # Null
  /\ \A t \in Tags : chip[t].kind # "none"
  /\ scan = NoScan \/ scan.payload.kind # "none"

RowsInv == TypeOK /\ ActiveTagsAgree /\ ClockInv

ScanInv == RowsInv /\ ScanShape /\ PayloadsInv
-----------------------------------------------------------------------------
(***************************************************************************)
(* What a step does to the rows                                            *)
(***************************************************************************)

\* Spool s is written, now, and exists.
Stamped(s) ==
  /\ \A x \in Spools : x # s => spool'[x] = spool[x]
  /\ spool'[s].row # "none"
  /\ spool'[s].updated_at = clock

LEMMA WriteStamps ==
  ASSUME TypeOK, NEW s \in Spools, NEW row \in SpoolRow, row.row # "none",
         WriteSpool(s, row)
  PROVE  Stamped(s)
<1>1. spool \in [Spools -> SpoolRow] /\ spool[s].version + 1 \in Nat
  BY DEF TypeOK, SpoolRow
<1>2. spool' = [spool EXCEPT ![s] =
                 [row EXCEPT !.version = spool[s].version + 1, !.updated_at = clock]]
  BY DEF WriteSpool
<1>3. spool'[s] = [row EXCEPT !.version = spool[s].version + 1, !.updated_at = clock]
  BY <1>1, <1>2
<1>4. spool'[s].row = row.row /\ spool'[s].updated_at = clock
  BY <1>3 DEF SpoolRow
<1> QED
  BY <1>1, <1>2, <1>4 DEF Stamped

\* The patches of a live spool.
LEMMA PatchStamps ==
  ASSUME TypeOK, NEW s \in Spools, LiveSpool(s)
  PROVE  /\ \A k \in Catalogs, i \in Int :
              WriteSpool(s, [spool[s] EXCEPT !.catalog = k, !.initial = i]) => Stamped(s)
         /\ WriteSpool(s, [spool[s] EXCEPT !.row = "deleted", !.active_tag = Null])
              => Stamped(s)
         /\ \A w \in Int : WriteSpool(s, [spool[s] EXCEPT !.remaining = w]) => Stamped(s)
         /\ \A t \in Tags \cup {Null} :
              WriteSpool(s, [spool[s] EXCEPT !.active_tag = t]) => Stamped(s)
<1>0. spool[s] \in SpoolRow /\ spool[s].row # "none"
  BY DEF TypeOK, LiveSpool
<1>1. ASSUME NEW k \in Catalogs, NEW i \in Int,
             WriteSpool(s, [spool[s] EXCEPT !.catalog = k, !.initial = i])
      PROVE  Stamped(s)
  <2> DEFINE new == [spool[s] EXCEPT !.catalog = k, !.initial = i]
  <2>1. new \in SpoolRow /\ new.row # "none"
    BY <1>0 DEF SpoolRow
  <2>2. WriteSpool(s, new)
    BY <1>1
  <2> HIDE DEF new
  <2> QED
    BY <2>1, <2>2, WriteStamps
<1>2. ASSUME WriteSpool(s, [spool[s] EXCEPT !.row = "deleted", !.active_tag = Null])
      PROVE  Stamped(s)
  <2> DEFINE new == [spool[s] EXCEPT !.row = "deleted", !.active_tag = Null]
  <2>1. new \in SpoolRow /\ new.row # "none"
    BY <1>0 DEF SpoolRow, RowStates
  <2>2. WriteSpool(s, new)
    BY <1>2
  <2> HIDE DEF new
  <2> QED
    BY <2>1, <2>2, WriteStamps
<1>3. ASSUME NEW w \in Int, WriteSpool(s, [spool[s] EXCEPT !.remaining = w])
      PROVE  Stamped(s)
  <2> DEFINE new == [spool[s] EXCEPT !.remaining = w]
  <2>1. new \in SpoolRow /\ new.row # "none"
    BY <1>0 DEF SpoolRow
  <2>2. WriteSpool(s, new)
    BY <1>3
  <2> HIDE DEF new
  <2> QED
    BY <2>1, <2>2, WriteStamps
<1>4. ASSUME NEW t \in Tags \cup {Null}, WriteSpool(s, [spool[s] EXCEPT !.active_tag = t])
      PROVE  Stamped(s)
  <2> DEFINE new == [spool[s] EXCEPT !.active_tag = t]
  <2>1. new \in SpoolRow /\ new.row # "none"
    BY <1>0 DEF SpoolRow
  <2>2. WriteSpool(s, new)
    BY <1>4
  <2> HIDE DEF new
  <2> QED
    BY <2>1, <2>2, WriteStamps
<1> QED
  BY <1>1, <1>2, <1>3, <1>4

\* Only the grant of a payload sets last_written_at.
LEMMA TagRows ==
  ASSUME NEW row \in TagRow
  PROVE  /\ \A st \in TagStates : SetStatus(row, st).last_written_at = row.last_written_at
         /\ \A s \in Spools : AssignTo(row, s).last_written_at = row.last_written_at
         /\ \A now \in Nat : MarkWritten(row, now).last_written_at = now
BY DEF TagRow, SetStatus, AssignTo, MarkWritten

\* What a step that hands out no payload does to a spool and to a tag.
SpoolMoves(s) ==
  \/ spool'[s] = spool[s]
  \/ spool'[s].row # "none" /\ spool'[s].updated_at = clock

TagMoves(t) ==
  /\ tag[t].status # "none" => tag'[t].status # "none"
  /\ tag'[t].last_written_at = tag[t].last_written_at
  /\ \/ tag'[t].assigned_spool = tag[t].assigned_spool
     \/ /\ tag'[t].assigned_spool \in Spools
        /\ spool'[tag'[t].assigned_spool].updated_at = clock

Moves ==
  /\ clock <= clock'
  /\ \A s \in Spools : SpoolMoves(s)
  /\ \A t \in Tags : TagMoves(t)

\* The steps, as TagScan takes them from the repository.
Ungranted ==
  \/ CatalogNext
  \/ SpoolNext
  \/ UsageNext
  \/ \E t \in Tags :
       \/ \E c \in Clients, s \in Spools : AssignNfcTag(c, s, t)
       \/ ScanTag(t)
       \/ \E v \in Versions : RetireTag(t, v)
  \/ Tick
  \/ UNCHANGED vars

LEMMA StatusMoves ==
  ASSUME TypeOK, NEW t \in Tags, NEW st \in TagStates, st # "none",
         tag'[t] = SetStatus(tag[t], st)
  PROVE  TagMoves(t)
<1>1. tag[t] \in TagRow
  BY DEF TypeOK
<1>2. /\ tag'[t].status = st
      /\ tag'[t].assigned_spool = tag[t].assigned_spool
      /\ tag'[t].last_written_at = tag[t].last_written_at
  BY <1>1, TagWrites, TagRows
<1> QED
  BY <1>2 DEF TagMoves

LEMMA SameTagsMove ==
  ASSUME TypeOK, UNCHANGED <<tag, clock>>, \A s \in Spools : SpoolMoves(s)
  PROVE  Moves
BY DEF TypeOK, Moves, TagMoves

LEMMA StampedMoves ==
  ASSUME NEW s, Stamped(s)
  PROVE  \A x \in Spools : SpoolMoves(x)
BY DEF Stamped, SpoolMoves

LEMMA SpoolNextMoves == TypeOK /\ SpoolNext => Moves
<1> SUFFICES ASSUME TypeOK, SpoolNext PROVE Moves
  OBVIOUS
<1>0. Grams \subseteq Int
  BY BoundAssumption DEF Grams
<1>1. ASSUME NEW s \in Spools, NEW k \in Catalogs, NEW initial \in Grams,
             NEW remaining \in Grams, CreateSpool(s, k, initial, remaining)
      PROVE  Moves
  <2>1. Stamped(s)
    BY <1>1 DEF CreateSpool, Stamped, TypeOK
  <2> QED
    BY <1>1, <2>1, StampedMoves, SameTagsMove DEF CreateSpool
<1>2. ASSUME NEW s \in Spools, NEW c \in Clients, FetchSpool(c, s)
      PROVE  Moves
  <2>1. UNCHANGED <<spool, tag, clock>>
    BY <1>2 DEF FetchSpool
  <2> QED
    BY <2>1, SameTagsMove DEF SpoolMoves
<1>3. ASSUME NEW s \in Spools, NEW c \in Clients, NEW k \in Catalogs,
             NEW initial \in Grams, UpdateSpool(c, s, k, initial)
      PROVE  Moves
  <2>1. Stamped(s)
    BY <1>0, <1>3, PatchStamps DEF UpdateSpool, VersionMatches
  <2> QED
    BY <1>3, <2>1, StampedMoves, SameTagsMove DEF UpdateSpool
<1>4. ASSUME NEW s \in Spools, NEW c \in Clients, DeleteSpool(c, s)
      PROVE  Moves
  <2>1. Stamped(s)
    BY <1>4, PatchStamps DEF DeleteSpool, VersionMatches
  <2>2. /\ tag \in [Tags -> TagRow]
        /\ tag' = [t \in Tags |->
                     IF tag[t].assigned_spool = s /\ tag[t].status # "retired"
                     THEN SetStatus(tag[t], "retired")
                     ELSE tag[t]]
        /\ UNCHANGED clock
        /\ clock \in Nat
    BY <1>4 DEF DeleteSpool, TypeOK
  <2>3. \A t \in Tags : tag'[t] = tag[t] \/ tag'[t] = SetStatus(tag[t], "retired")
    BY <2>2
  <2>4. \A t \in Tags : TagMoves(t)
    BY <2>3, StatusMoves DEF TagMoves, TagStates
  <2> QED
    BY <2>1, <2>2, <2>4, StampedMoves DEF Moves
<1> QED
  BY <1>1, <1>2, <1>3, <1>4 DEF SpoolNext

LEMMA UsageNextMoves == TypeOK /\ UsageNext => Moves
<1> SUFFICES ASSUME TypeOK, UsageNext PROVE Moves
  OBVIOUS
<1>0. Grams \subseteq Int
  BY BoundAssumption DEF Grams
<1>1. ASSUME NEW c \in Clients, NEW s \in Spools, NEW e \in Events, NEW w \in Grams,
             ManualAdjustment(c, s, e, w)
      PROVE  Moves
  <2>1. Stamped(s)
    BY <1>0, <1>1, PatchStamps DEF ManualAdjustment, AdjustWeight
  <2> QED
    BY <1>1, <2>1, StampedMoves, SameTagsMove DEF ManualAdjustment, AdjustWeight
<1>2. ASSUME NEW c \in Clients, NEW e \in Events, NEW d \in Int, NEW status,
             NEW checked \in BOOLEAN, ApplyUsageEvent(c, e, d, status, checked)
      PROVE  Moves
  <2> DEFINE s == usage[e].spool
  <2>1. s \in Spools /\ LiveSpool(s)
    BY <1>2 DEF ApplyUsageEvent, TypeOK
  <2>2. spool[s].remaining + d \in Int
    BY <2>1 DEF TypeOK, SpoolRow
  <2>3. WriteSpool(s, [spool[s] EXCEPT !.remaining = spool[s].remaining + d])
    BY <1>2 DEF ApplyUsageEvent
  <2>4. Stamped(s)
    BY <2>1, <2>2, <2>3, PatchStamps
  <2>5. UNCHANGED <<tag, clock>>
    BY <1>2 DEF ApplyUsageEvent
  <2> QED
    BY <2>4, <2>5, StampedMoves, SameTagsMove
<1>3. ASSUME NEW e \in Events,
             RejectUsageEvent(e) \/
               \E s \in Spools, d \in Candidates : CreatePendingUsageEvent(s, e, d)
      PROVE  Moves
  <2>1. UNCHANGED <<spool, tag, clock>>
    BY <1>3 DEF RejectUsageEvent, CreatePendingUsageEvent
  <2> QED
    BY <2>1, SameTagsMove DEF SpoolMoves
<1>4. \A e \in Events : usage[e].delta \in Int
  BY DEF TypeOK, UsageRow
<1> QED
  BY <1>1, <1>2, <1>3, <1>4, BoundAssumption
    DEF UsageNext, ApproveUsageEvent, EditAndApproveUsageEvent

LEMMA UngrantedMoves == TypeOK /\ Ungranted => Moves
<1> SUFFICES ASSUME TypeOK, Ungranted PROVE Moves
  OBVIOUS
<1>0. tag \in [Tags -> TagRow] /\ clock \in Nat
  BY DEF TypeOK
<1>1. CASE CatalogNext \/ UNCHANGED vars
  <2>1. UNCHANGED <<spool, tag, clock>>
    BY <1>1 DEF CatalogNext, CreateCatalogItem, ImportCatalogItems, UpdateCatalogItem,
                DeleteCatalogItem, vars
  <2> QED
    BY <2>1, SameTagsMove DEF SpoolMoves
<1>2. ASSUME NEW t \in Tags, NEW c \in Clients, NEW s \in Spools, AssignNfcTag(c, s, t)
      PROVE  Moves
  <2>1. Stamped(s)
    BY <1>2, PatchStamps DEF AssignNfcTag, VersionMatches
  <2>2. /\ UNCHANGED clock
        /\ \A u \in Tags : \/ u = t /\ tag'[u] = AssignTo(tag[t], s)
                           \/ tag'[u] = SetStatus(tag[u], "retired")
                           \/ tag'[u] = tag[u]
    BY <1>2 DEF AssignNfcTag
  <2>3. ASSUME NEW u \in Tags PROVE TagMoves(u)
    <3>1. CASE u = t /\ tag'[u] = AssignTo(tag[t], s)
      <4>1. /\ tag'[u].status = "assigned"
            /\ tag'[u].assigned_spool = s
            /\ tag'[u].last_written_at = tag[u].last_written_at
        BY <1>0, <3>1, TagWrites, TagRows
      <4> QED
        BY <2>1, <4>1 DEF TagMoves, Stamped
    <3>2. CASE tag'[u] = SetStatus(tag[u], "retired")
      BY <3>2, StatusMoves DEF TagStates
    <3>3. CASE tag'[u] = tag[u]
      BY <3>3 DEF TagMoves
    <3> QED
      BY <2>2, <3>1, <3>2, <3>3
  <2> QED
    BY <1>0, <2>1, <2>2, <2>3, StampedMoves DEF Moves
<1>3. ASSUME NEW t \in Tags, ScanTag(t)
      PROVE  Moves
  <2>1. /\ UNCHANGED <<spool, clock>>
        /\ \A u \in Tags : u # t => tag'[u] = tag[u]
        /\ tag'[t] = SetStatus(tag[t], ScannedStatus(t))
    BY <1>0, <1>3 DEF ScanTag
  <2>2. ScannedStatus(t) \in TagStates /\ ScannedStatus(t) # "none"
    BY DEF ScannedStatus, TagStates
  <2>3. \A u \in Tags : TagMoves(u)
    BY <2>1, <2>2, StatusMoves DEF TagMoves
  <2> QED
    BY <1>0, <2>1, <2>3 DEF Moves, SpoolMoves
<1>4. ASSUME NEW t \in Tags, NEW v \in Versions, RetireTag(t, v)
      PROVE  Moves
  <2> DEFINE s == tag[t].assigned_spool
  <2>0. s \in Spools /\ LiveSpool(s)
    BY <1>4 DEF RetireTag, TypeOK
  <2>1. Stamped(s) \/ UNCHANGED spool
    BY <1>4, <2>0, PatchStamps DEF RetireTag
  <2>2. \A x \in Spools : SpoolMoves(x)
    BY <2>1, StampedMoves DEF SpoolMoves
  <2>3. /\ UNCHANGED clock
        /\ \A u \in Tags : u # t => tag'[u] = tag[u]
        /\ tag'[t] = SetStatus(tag[t], "retired")
    BY <1>0, <1>4 DEF RetireTag
  <2>4. \A u \in Tags : TagMoves(u)
    BY <2>3, StatusMoves DEF TagMoves, TagStates
  <2> QED
    BY <1>0, <2>2, <2>3, <2>4 DEF Moves
<1>5. CASE Tick
  BY <1>0, <1>5 DEF Tick, Moves, SpoolMoves, TagMoves
<1> QED
  BY <1>1, <1>2, <1>3, <1>4, <1>5, SpoolNextMoves, UsageNextMoves DEF Ungranted

LEMMA GrantMoves ==
  ASSUME TypeOK, NEW c \in Clients, NEW s \in Spools, NEW t \in Tags,
         NEW force \in BOOLEAN, WritePayload(c, s, t, force)
  PROVE  /\ UNCHANGED <<spool, clock>>
         /\ \A u \in Tags : u # t => tag'[u] = tag[u]
         /\ tag'[t].status = "assigned"
         /\ tag'[t].assigned_spool = s
         /\ tag[t].assigned_spool = s
         /\ tag'[t].last_written_at = clock
         /\ LiveSpool(s)
<1>1. tag \in [Tags -> TagRow] /\ clock \in Nat
  BY DEF TypeOK
<1>2. /\ UNCHANGED <<spool, clock>>
      /\ \A u \in Tags : u # t => tag'[u] = tag[u]
      /\ tag'[t] = MarkWritten(tag[t], clock)
      /\ tag[t].assigned_spool = s
      /\ LiveSpool(s)
  BY <1>1 DEF WritePayload, VersionMatches
<1> QED
  BY <1>1, <1>2, TagWrites, TagRows
-----------------------------------------------------------------------------
(***************************************************************************)
(* Payloads and the clock                                                  *)
(***************************************************************************)

\* The rows after a step, and what holds of the payloads there are already.
RowsStep ==
  /\ RowsInv'
  /\ \A p \in ContentType : Told(p) => Told(p)'

\* The times of rows.
LEMMA TimesType ==
  ASSUME TypeOK
  PROVE  /\ \A s \in Spools : spool[s].updated_at \in Nat
         /\ \A t \in Tags : tag[t].last_written_at \in Nat \cup {Null}
         /\ \A t \in Tags : tag[t].status # "none" => tag[t].assigned_spool \in Spools
         /\ clock \in Nat
BY DEF TypeOK, SpoolRow, TagRow

LEMMA UngrantedStep ==
  ASSUME RowsInv, Ungranted
  PROVE  RowsStep
<1>0. TypeOK /\ ActiveTagsAgree /\ ClockInv /\ [Next]_vars
  BY DEF RowsInv, Ungranted, Next, TagNext
<1>1. TypeOK' /\ ActiveTagsAgree'
  BY <1>0, TypeStep, AgreeStep
<1>2. Moves
  BY <1>0, UngrantedMoves
<1>3. clock' \in Nat /\ \A s \in Spools : spool'[s].updated_at \in Nat
  BY <1>1 DEF TypeOK, SpoolRow
<1>4. ClockInv'
  <2>1. \A s \in Spools : spool'[s].updated_at <= clock'
    BY <1>0, <1>2, <1>3, TimesType DEF ClockInv, Moves, SpoolMoves
  <2>2. \A t \in Tags : tag'[t].last_written_at # Null => tag'[t].last_written_at <= clock'
    BY <1>0, <1>2, <1>3, TimesType DEF ClockInv, Moves, TagMoves
  <2> QED
    BY <2>1, <2>2 DEF ClockInv
<1>5. ASSUME NEW p \in ContentType, Told(p) PROVE Told(p)'
  <2> SUFFICES ASSUME p.kind = "payload"
               PROVE  /\ p.tag \in Tags
                      /\ p.spool \in Spools
                      /\ tag'[p.tag].status # "none"
                      /\ spool'[p.spool].row # "none"
                      /\ tag'[p.tag].last_written_at # Null
                      /\ p.granted_at <= tag'[p.tag].last_written_at
                      /\ p.granted_at = tag'[p.tag].last_written_at =>
                           \/ /\ p.spool = tag'[p.tag].assigned_spool
                              /\ p.version = spool'[tag'[p.tag].assigned_spool].version
                           \/ p.granted_at <= spool'[tag'[p.tag].assigned_spool].updated_at
    BY DEF Told
  <2> DEFINE t == p.tag
  <2>0. p.granted_at \in Nat
    BY DEF ContentType
  <2>1. /\ t \in Tags
        /\ p.spool \in Spools
        /\ tag[t].status # "none"
        /\ spool[p.spool].row # "none"
        /\ tag[t].last_written_at # Null
        /\ p.granted_at <= tag[t].last_written_at
        /\ p.granted_at = tag[t].last_written_at =>
             \/ /\ p.spool = tag[t].assigned_spool
                /\ p.version = spool[tag[t].assigned_spool].version
             \/ p.granted_at <= spool[tag[t].assigned_spool].updated_at
    BY <1>5 DEF Told
  <2>2. TagMoves(t) /\ SpoolMoves(p.spool)
    BY <1>2, <2>1 DEF Moves
  <2> HIDE DEF t
  <2>3. /\ tag'[t].status # "none"
        /\ tag'[t].last_written_at = tag[t].last_written_at
        /\ spool'[p.spool].row # "none"
    BY <2>1, <2>2 DEF TagMoves, SpoolMoves
  <2>4. tag[t].assigned_spool \in Spools /\ tag[t].last_written_at \in Nat
    BY <1>0, <2>1, TimesType
  <2>5. tag[t].last_written_at <= clock
    BY <1>0, <2>1 DEF ClockInv
  <2>6. ASSUME p.granted_at = tag'[t].last_written_at
        PROVE  \/ /\ p.spool = tag'[t].assigned_spool
                  /\ p.version = spool'[tag'[t].assigned_spool].version
               \/ p.granted_at <= spool'[tag'[t].assigned_spool].updated_at
    <3>1. CASE tag'[t].assigned_spool = tag[t].assigned_spool
      <4>1. SpoolMoves(tag[t].assigned_spool)
        BY <1>2, <2>4 DEF Moves
      <4> QED
        BY <2>1, <2>3, <2>5, <2>6, <3>1, <4>1 DEF SpoolMoves
    <3>2. CASE spool'[tag'[t].assigned_spool].updated_at = clock
      BY <2>3, <2>5, <2>6, <3>2
    <3> QED
      BY <2>2, <3>1, <3>2 DEF TagMoves
  <2> QED
    BY <2>1, <2>3, <2>6 DEF t
<1> QED
  BY <1>1, <1>4, <1>5 DEF RowsInv, RowsStep

\* A grant for a tag leaves what its older payloads say: those of the same
\* instant were handed out at the tag's last write already.
LEMMA GrantStep ==
  ASSUME RowsInv, NEW c \in Clients, NEW s \in Spools, NEW t \in Tags,
         NEW force \in BOOLEAN, WritePayload(c, s, t, force)
  PROVE  RowsStep
<1>0. TypeOK /\ ActiveTagsAgree /\ ClockInv /\ [Next]_vars
  BY DEF RowsInv, Next, TagNext
<1>1. TypeOK' /\ ActiveTagsAgree'
  BY <1>0, TypeStep, AgreeStep
<1>2. /\ UNCHANGED <<spool, clock>>
      /\ \A u \in Tags : u # t => tag'[u] = tag[u]
      /\ tag'[t].status = "assigned"
      /\ tag'[t].assigned_spool = s
      /\ tag[t].assigned_spool = s
      /\ tag'[t].last_written_at = clock
      /\ clock \in Nat
  BY <1>0, GrantMoves, TimesType
<1>3. ClockInv'
  BY <1>0, <1>2 DEF ClockInv
<1>4. ASSUME NEW p \in ContentType, Told(p) PROVE Told(p)'
  <2>0. p.granted_at \in Nat
    BY DEF ContentType
  <2>1. CASE p.kind = "payload" /\ p.tag = t
    <3>1. /\ p.spool \in Spools
          /\ spool[p.spool].row # "none"
          /\ tag[t].last_written_at # Null
          /\ p.granted_at <= tag[t].last_written_at
          /\ p.granted_at = tag[t].last_written_at =>
               \/ p.spool = s /\ p.version = spool[s].version
               \/ p.granted_at <= spool[s].updated_at
      BY <1>2, <1>4, <2>1 DEF Told
    <3>2. tag[t].last_written_at \in Nat /\ tag[t].last_written_at <= clock
      BY <1>0, <3>1, TimesType DEF ClockInv
    <3>3. /\ p.granted_at <= clock
          /\ p.granted_at = clock => p.granted_at = tag[t].last_written_at
      BY <1>2, <2>0, <3>1, <3>2
    <3> QED
      BY <1>2, <2>1, <3>1, <3>3, NullTimeAssumption DEF Told
  <2>2. CASE p.kind = "payload" /\ p.tag # t
    BY <1>2, <1>4, <2>2 DEF Told
  <2> QED
    BY <2>1, <2>2 DEF Told
<1> QED
  BY <1>1, <1>3, <1>4 DEF RowsInv, RowsStep

\* The payload that is handed out says what holds after the grant.
LEMMA SignedTold ==
  ASSUME RowsInv, ScanShape, NEW c \in Clients, NEW s \in Spools, NEW t \in Tags,
         NEW force \in BOOLEAN, WritePayload(c, s, t, force),
         NEW p, p = Signed(s, t)
  PROVE  p \in ContentType /\ Told(p)'
<1>0. TypeOK
  BY DEF RowsInv
<1>1. /\ p.kind = "payload" /\ p.tag = t /\ p.spool = s /\ p.version = spool[s].version
      /\ p.granted_at = clock /\ p.key_ref = WrittenRef(keyHash)
  BY DEF Signed
<1>2. spool[s].version \in Nat /\ clock \in Nat /\ keyHash \in KeyHashes
  BY <1>0 DEF TypeOK, SpoolRow, ScanShape
<1>3. p \in ContentType
  <2>1. WrittenRef(keyHash) \in {WrittenRef(h) : h \in KeyHashes}
    BY <1>2
  <2> QED
    BY <1>2, <2>1 DEF Signed, ContentType, Kinds
<1>4. /\ UNCHANGED <<spool, clock>>
      /\ tag'[t].status = "assigned"
      /\ tag'[t].assigned_spool = s
      /\ tag'[t].last_written_at = clock
      /\ LiveSpool(s)
  BY <1>0, GrantMoves
<1>5. Told(p)'
  BY <1>1, <1>2, <1>4, NullTimeAssumption DEF Told, LiveSpool
<1> QED
  BY <1>3, <1>5
-----------------------------------------------------------------------------
(***************************************************************************)
(* The chips, the clients, the phone and the scan                          *)
(***************************************************************************)
LEMMA ContentIsContent ==
  ASSUME NEW k \in Kinds
  PROVE  Content(k) \in ContentType /\ Content(k).kind = k
BY DEF Content, ContentType, Kinds

\* A payload is where it was, or says what holds after the step.
LEMMA ScanFrame ==
  ASSUME ScanInv, RowsStep, ScanShape',
         \A p \in ContentType : Held(p)' => Held(p) \/ Told(p)'
  PROVE  ScanInv'
BY DEF ScanInv, RowsStep, PayloadsInv

LEMMA RepositoryScanStep ==
  ASSUME ScanInv, RowsStep, UNCHANGED scanVars
  PROVE  ScanInv'
<1>1. UNCHANGED <<keyHash, chip, pending, phone, scan>>
  BY DEF scanVars
<1>2. ScanShape'
  BY <1>1 DEF ScanInv, ScanShape
<1>3. \A p \in ContentType : Held(p)' => Held(p)
  BY <1>1 DEF Held
<1> QED
  BY <1>2, <1>3, ScanFrame

LEMMA GrantScanStep ==
  ASSUME ScanInv, NEW c \in Clients, NEW s \in Spools, NEW t \in Tags,
         NEW force \in BOOLEAN, Grant(c, s, t, force)
  PROVE  ScanInv'
<1>1. /\ RowsInv /\ ScanShape
      /\ WritePayload(c, s, t, force)
      /\ pending' = [pending EXCEPT ![c] = Signed(s, t)]
      /\ UNCHANGED <<keyHash, chip, phone, scan>>
  BY DEF ScanInv, Grant
<1>2. PICK p : p = Signed(s, t)
  OBVIOUS
<1>3. p \in ContentType /\ Told(p)'
  BY <1>1, <1>2, SignedTold
<1>4. RowsStep
  BY <1>1, GrantStep
<1>5. /\ pending' \in [Clients -> ContentType]
      /\ \A d \in Clients : pending'[d] \in {pending[d], p}
  BY <1>1, <1>2, <1>3 DEF ScanShape
<1>6. ScanShape'
  BY <1>1, <1>5 DEF ScanShape
<1>7. \A q \in ContentType : Held(q)' => Held(q) \/ q = p
  BY <1>1, <1>5 DEF Held
<1> QED
  BY <1>3, <1>4, <1>6, <1>7, ScanFrame

LEMMA ChipStep ==
  ASSUME ScanInv, NEW t \in Tags, NEW p \in ContentType, p.kind # "none",
         Held(p) \/ p.kind # "payload",
         chip' = [chip EXCEPT ![t] = p],
         UNCHANGED <<vars, keyHash, pending, phone, scan>>
  PROVE  ScanInv'
<1>1. RowsStep
  BY UngrantedStep DEF ScanInv, Ungranted
<1>2. /\ chip' \in [Tags -> ContentType]
      /\ \A u \in Tags : chip'[u] \in {chip[u], p}
  BY DEF ScanInv, ScanShape
<1>3. ScanShape'
  BY <1>2 DEF ScanInv, ScanShape
<1>4. \A q \in ContentType : Held(q)' => Held(q) \/ q = p
  BY <1>2 DEF Held
<1>5. p.kind # "payload" => Told(p)'
  BY DEF Told
<1> QED
  BY <1>1, <1>3, <1>4, <1>5, ScanFrame

\* The writes of chips.
LEMMA WriteStep == ScanInv /\ WriteNext => ScanInv'
<1> SUFFICES ASSUME ScanInv, NEW c \in Clients, NEW t \in Tags,
                    \/ \E s \in Spools, force \in BOOLEAN : Grant(c, s, t, force)
                    \/ WriteChip(c, t)
                    \/ InterruptWrite(c, t)
             PROVE  ScanInv'
  BY DEF WriteNext
<1>1. CASE \E s \in Spools, force \in BOOLEAN : Grant(c, s, t, force)
  BY <1>1, GrantScanStep
<1>2. CASE WriteChip(c, t)
  <2>1. PICK p : p = pending[c]
    OBVIOUS
  <2>2. p \in ContentType /\ p.kind = "payload" /\ Held(p)
    BY <1>2, <2>1 DEF WriteChip, ScanInv, ScanShape, Held
  <2> QED
    BY <1>2, <2>1, <2>2, ChipStep DEF WriteChip
<1>3. CASE InterruptWrite(c, t)
  <2>1. PICK p : p = Content("damaged")
    OBVIOUS
  <2>2. p \in ContentType /\ p.kind = "damaged"
    BY <2>1, ContentIsContent DEF Kinds
  <2> QED
    BY <1>3, <2>1, <2>2, ChipStep DEF InterruptWrite
<1> QED
  BY <1>1, <1>2, <1>3

\* The phone's steps that touch no row: what it holds came off a chip.
LEMMA PhoneStep ==
  ASSUME ScanInv,
         UNCHANGED <<vars, keyHash, chip, pending, scan>>,
         phone' \in [state : {"idle", "scanning", "reading"}, lastUID : Tags \cup {Null},
                     lastPayload : ContentType],
         phone'.state = "reading" \/ phone'.lastPayload.kind # "none" => phone'.lastUID # Null,
         \/ phone'.lastPayload = phone.lastPayload
         \/ phone'.lastPayload.kind # "payload"
         \/ \E t \in Tags : phone'.lastPayload = chip[t]
  PROVE  ScanInv'
<1>1. RowsStep
  BY UngrantedStep DEF ScanInv, Ungranted
<1>2. ScanShape'
  BY DEF ScanInv, ScanShape
<1>3. \A p \in ContentType : Held(p)' => Held(p) \/ p.kind # "payload"
  BY DEF Held
<1>4. \A p \in ContentType : p.kind # "payload" => Told(p)'
  BY DEF Told
<1> QED
  BY <1>1, <1>2, <1>3, <1>4, ScanFrame

\* A scan leaves with what the phone holds, or ends.
LEMMA ScanEndsStep ==
  ASSUME ScanInv, RowsStep, scan' = NoScan, UNCHANGED <<keyHash, chip, pending, phone>>
  PROVE  ScanInv'
<1>1. Content("none") \in ContentType /\ Content("none").kind = "none"
  BY ContentIsContent DEF Kinds
<1>2. /\ NoScan \in [uid : Tags \cup {Null}, payload : ContentType]
      /\ NoScan.payload = Content("none") /\ NoScan.uid = Null
  BY <1>1 DEF NoScan
<1>3. ScanShape'
  <2>1. scan' = NoScan /\ NoScan' = NoScan
    BY DEF NoScan, Content
  <2> QED
    BY <1>1, <1>2, <2>1 DEF ScanInv, ScanShape
<1>4. \A p \in ContentType : Held(p)' => Held(p) \/ p = Content("none")
  BY <1>2 DEF Held
<1>5. \A p \in ContentType : p.kind = "none" => Told(p)'
  BY DEF Told
<1> QED
  BY <1>1, <1>3, <1>4, <1>5, ScanFrame

LEMMA SubmitStep ==
  ASSUME ScanInv, SubmitScan
  PROVE  ScanInv'
<1>1. /\ phone.lastPayload.kind # "none"
      /\ scan' = [uid |-> phone.lastUID, payload |-> phone.lastPayload]
      /\ UNCHANGED <<vars, keyHash, chip, pending, phone>>
  BY DEF SubmitScan
<1>2. ScanShape
  BY DEF ScanInv
<1>3. /\ phone.lastUID \in Tags \cup {Null} /\ phone.lastPayload \in ContentType
      /\ phone.lastUID # Null
  BY <1>1, <1>2 DEF ScanShape
<1>4. /\ scan' \in [uid : Tags \cup {Null}, payload : ContentType]
      /\ scan'.uid = phone.lastUID /\ scan'.payload = phone.lastPayload
  BY <1>1, <1>3
<1>5. RowsStep
  BY <1>1, UngrantedStep DEF ScanInv, Ungranted
<1>6. ScanShape'
  BY <1>1, <1>2, <1>3, <1>4 DEF ScanShape
<1>7. \A p \in ContentType : Held(p)' => Held(p)
  BY <1>1, <1>4 DEF Held
<1> QED
  BY <1>5, <1>6, <1>7, ScanFrame

LEMMA PhoneNextStep == ScanInv /\ PhoneNext => ScanInv'
<1> SUFFICES ASSUME ScanInv, PhoneNext PROVE ScanInv'
  OBVIOUS
<1> DEFINE Phones == [state : {"idle", "scanning", "reading"}, lastUID : Tags \cup {Null},
                      lastPayload : ContentType]
<1>0. /\ phone \in Phones
      /\ phone.state = "reading" \/ phone.lastPayload.kind # "none" => phone.lastUID # Null
      /\ chip \in [Tags -> ContentType]
  BY DEF ScanInv, ScanShape
<1>1. CASE BeginScan
  <2>1. /\ phone' = [phone EXCEPT !.state = "scanning"]
        /\ UNCHANGED <<vars, keyHash, chip, pending, scan>>
    BY <1>1 DEF BeginScan
  <2>2. /\ phone' \in Phones /\ phone'.state = "scanning"
        /\ phone'.lastUID = phone.lastUID /\ phone'.lastPayload = phone.lastPayload
    BY <1>0, <2>1
  <2> QED
    BY <1>0, <2>1, <2>2, PhoneStep
<1>2. ASSUME NEW t \in Tags, Detect(t) PROVE ScanInv'
  <2>1. /\ phone' = [phone EXCEPT !.state = "reading", !.lastUID = t]
        /\ UNCHANGED <<vars, keyHash, chip, pending, scan>>
    BY <1>2 DEF Detect
  <2>2. /\ phone' \in Phones
        /\ phone'.lastUID = t /\ phone'.lastPayload = phone.lastPayload
    BY <1>0, <2>1
  <2>3. t # Null
    BY NullAssumption
  <2> QED
    BY <2>1, <2>2, <2>3, PhoneStep
<1>3. CASE ReadSucceeds
  <2>1. /\ phone.state = "reading"
        /\ phone' = [phone EXCEPT !.state = "idle", !.lastPayload = chip[phone.lastUID]]
        /\ UNCHANGED <<vars, keyHash, chip, pending, scan>>
    BY <1>3 DEF ReadSucceeds
  <2>2. phone.lastUID \in Tags /\ phone.lastUID # Null
    BY <1>0, <2>1
  <2>3. chip[phone.lastUID] \in ContentType
    BY <1>0, <2>2
  <2>4. /\ phone' \in Phones
        /\ phone'.lastUID = phone.lastUID /\ phone'.lastPayload = chip[phone.lastUID]
    BY <1>0, <2>1, <2>3
  <2> QED
    BY <2>1, <2>2, <2>4, PhoneStep
<1>4. CASE SessionFails
  <2>1. /\ phone' = [phone EXCEPT !.state = "idle"]
        /\ UNCHANGED <<vars, keyHash, chip, pending, scan>>
    BY <1>4 DEF SessionFails
  <2>2. /\ phone' \in Phones /\ phone'.state = "idle"
        /\ phone'.lastUID = phone.lastUID /\ phone'.lastPayload = phone.lastPayload
    BY <1>0, <2>1
  <2> QED
    BY <1>0, <2>1, <2>2, PhoneStep
<1>5. CASE RestartPhone
  <2>1. Content("none") \in ContentType /\ Content("none").kind = "none"
    BY ContentIsContent DEF Kinds
  <2>2. phone' = NoSession /\ UNCHANGED <<vars, keyHash, chip, pending, scan>>
    BY <1>5 DEF RestartPhone
  <2>3. /\ phone' \in Phones /\ phone'.state = "idle"
        /\ phone'.lastPayload = Content("none")
    BY <2>1, <2>2 DEF NoSession
  <2> QED
    BY <2>1, <2>2, <2>3, PhoneStep
<1>6. CASE SubmitScan
  BY <1>6, SubmitStep
<1>7. ASSUME NEW c \in Clients, NEW s \in Spools, AssignDetected(c, s) PROVE ScanInv'
  <2>1. phone.lastUID \in Tags /\ AssignNfcTag(c, s, phone.lastUID) /\ UNCHANGED scanVars
    BY <1>0, <1>7 DEF AssignDetected
  <2>2. RowsStep
    BY <2>1, UngrantedStep DEF ScanInv, Ungranted
  <2> QED
    BY <2>1, <2>2, RepositoryScanStep
<1> QED
  BY <1>1, <1>2, <1>3, <1>4, <1>5, <1>6, <1>7 DEF PhoneNext

\* The rows a scan is recorded in.
LEMMA HandleRows ==
  ASSUME ScanInv, HandleScan
  PROVE  /\ scan.uid \in Tags
         /\ ScanTag(scan.uid) \/ UNCHANGED vars
         /\ scan' = NoScan
         /\ UNCHANGED <<keyHash, chip, pending, phone>>
<1>1. scan # NoScan /\ ScanShape
  BY DEF HandleScan, ScanInv
<1>2. scan.uid \in Tags
  BY <1>1 DEF ScanShape
<1> QED
  BY <1>2 DEF HandleScan

LEMMA ScanStep == ScanInv /\ [ScanNext]_allVars => ScanInv'
<1> SUFFICES ASSUME ScanInv, [ScanNext]_allVars PROVE ScanInv'
  OBVIOUS
<1>1. CASE PhoneNext
  BY <1>1, PhoneNextStep
<1>2. CASE WriteNext
  BY <1>2, WriteStep
<1>3. CASE HandleScan
  <2>1. RowsStep
    BY <1>3, HandleRows, UngrantedStep DEF ScanInv, Ungranted
  <2> QED
    BY <1>3, <2>1, HandleRows, ScanEndsStep
<1>4. CASE LoseScan
  <2>1. RowsStep
    BY <1>4, UngrantedStep DEF LoseScan, ScanInv, Ungranted
  <2> QED
    BY <1>4, <2>1, ScanEndsStep DEF LoseScan
<1>5. CASE OtherNext \/ UNCHANGED allVars
  <2>1. Ungranted /\ UNCHANGED scanVars
    BY <1>5 DEF OtherNext, Ungranted, allVars
  <2>2. RowsStep
    BY <2>1, UngrantedStep DEF ScanInv
  <2> QED
    BY <2>1, <2>2, RepositoryScanStep
<1> QED
  BY <1>1, <1>2, <1>3, <1>4, <1>5 DEF ScanNext

LEMMA ScanInitial == ScanInit => ScanInv
<1> SUFFICES ASSUME ScanInit PROVE ScanInv
  OBVIOUS
<1>0. /\ Content("none") \in ContentType /\ Content("none").kind = "none"
      /\ Content("blank") \in ContentType /\ Content("blank").kind = "blank"
      /\ Content("foreign") \in ContentType /\ Content("foreign").kind = "foreign"
  BY ContentIsContent DEF Kinds
<1>1. TypeOK /\ ActiveTagsAgree
  BY TypeInit, AgreeInit DEF ScanInit
<1>2. ClockInv
  BY DEF ScanInit, Init, NoSpool, NoTag, ClockInv
<1>3. /\ NoSession.state = "idle" /\ NoSession.lastUID = Null
      /\ NoSession.lastPayload = Content("none")
      /\ NoScan.uid = Null /\ NoScan.payload = Content("none")
      /\ NoSession \in [state : {"idle", "scanning", "reading"}, lastUID : Tags \cup {Null},
                        lastPayload : ContentType]
      /\ NoScan \in [uid : Tags \cup {Null}, payload : ContentType]
  BY <1>0 DEF NoSession, NoScan
<1>4. /\ keyHash \in KeyHashes
      /\ chip \in [Tags -> {Content("blank"), Content("foreign")}]
      /\ pending = [c \in Clients |-> Content("none")]
      /\ phone = NoSession
      /\ scan = NoScan
  BY DEF ScanInit
<1>5. ScanShape
  BY <1>0, <1>3, <1>4 DEF ScanShape
<1>6. \A p \in ContentType : Held(p) => p.kind # "payload"
  BY <1>0, <1>3, <1>4 DEF Held
<1>7. PayloadsInv
  BY <1>6 DEF PayloadsInv, Told
<1> QED
  BY <1>1, <1>2, <1>5, <1>7 DEF ScanInv, RowsInv

LEMMA ScanInvariant == ScanSpec => []ScanInv
BY ScanInitial, ScanStep, PTL DEF ScanSpec
-----------------------------------------------------------------------------
(***************************************************************************)
(* Theorems                                                                *)
(***************************************************************************)

\* The rows, chips and the phone have their types, and a payload on a chip names a
\* tag and a spool that exist, however late it was written and onto which chip.
THEOREM ScanTypes == ScanSpec => []ScanTypeOK
<1>1. ScanInv => ScanTypeOK
  <2> SUFFICES ASSUME ScanInv PROVE ScanTypeOK
    OBVIOUS
  <2>1. TypeOK /\ ScanShape
    BY DEF ScanInv, RowsInv
  <2>2. ASSUME NEW t \in Tags, chip[t].kind = "payload"
        PROVE  tag[chip[t].tag].status # "none" /\ spool[chip[t].spool].row # "none"
    <3>1. chip[t] \in ContentType /\ Held(chip[t])
      BY <2>1 DEF ScanShape, Held
    <3>2. Told(chip[t])
      BY <3>1 DEF ScanInv, PayloadsInv
    <3> QED
      BY <2>2, <3>2 DEF Told
  <2> QED
    BY <2>1, <2>2 DEF ScanShape, ScanTypeOK
<1> QED
  BY <1>1, ScanInvariant, PTL

\* What "app_owned_valid" was answered to.
LEMMA ValidAnswer ==
  ASSUME TypeOK, NEW t \in Tags, NEW p \in ContentType, p.kind # "none",
         Classification(t, p) = "app_owned_valid"
  PROVE  /\ p.kind = "payload"
         /\ tag[t].status \in ActiveTagStates
         /\ LiveSpool(tag[t].assigned_spool)
         /\ ~IsStale(t)
<1>1. tag[t].status \in {"none", "assigned", "stale", "retired"}
  BY DEF TypeOK, TagRow, TagStates
<1>2. p.kind \in {"blank", "foreign", "damaged", "payload"}
  BY DEF ContentType, Kinds
<1> QED
  BY <1>1, <1>2 DEF Classification, Verifies, ActiveTagStates

\* "app_owned_valid" is right: the payload read shows the row of the tag's spool,
\* unless that row was written in the instant of the grant (recordTagWrite, POST
\* /api/nfc/scan).
THEOREM ValidIsCurrent == ScanSpec => []ValidMeansCurrent
<1>1. ScanInv => ValidMeansCurrent
  <2> SUFFICES ASSUME ScanInv, NEW r \in Readings,
                      Classification(r[1], r[2]) = "app_owned_valid",
                      r[2].tag = r[1],
                      r[2].granted_at = tag[r[1]].last_written_at
               PROVE  \/ /\ r[2].spool = tag[r[1]].assigned_spool
                         /\ r[2].version = spool[tag[r[1]].assigned_spool].version
                      \/ spool[tag[r[1]].assigned_spool].updated_at = r[2].granted_at
    BY DEF ValidMeansCurrent
  <2>1. TypeOK /\ ScanShape /\ PayloadsInv
    BY DEF ScanInv, RowsInv
  <2>2. PICK t, p : r = <<t, p>> /\ t \in Tags /\ p \in ContentType /\ p.kind # "none"
                      /\ Held(p)
    <3>1. CASE \E t \in Tags : r = <<t, chip[t]>>
      BY <2>1, <3>1 DEF ScanShape, Held
    <3>2. CASE scan # NoScan /\ r = <<scan.uid, scan.payload>>
      BY <2>1, <3>2 DEF ScanShape, Held
    <3> QED
      BY <3>1, <3>2 DEF Readings
  <2>3. /\ Classification(t, p) = "app_owned_valid"
        /\ p.tag = t
        /\ p.granted_at = tag[t].last_written_at
        /\ r[1] = t /\ r[2] = p
    BY <2>2
  <2>4. /\ p.kind = "payload"
        /\ tag[t].status \in ActiveTagStates
        /\ ~IsStale(t)
    BY <2>1, <2>2, <2>3, ValidAnswer
  <2>5. Told(p)
    BY <2>1, <2>2 DEF PayloadsInv
  <2>6. /\ tag[t].last_written_at # Null
        /\ \/ p.spool = tag[t].assigned_spool /\ p.version = spool[tag[t].assigned_spool].version
           \/ p.granted_at <= spool[tag[t].assigned_spool].updated_at
    BY <2>3, <2>4, <2>5 DEF Told
  <2>7. /\ tag[t].assigned_spool \in Spools
        /\ spool[tag[t].assigned_spool].updated_at \in Nat
        /\ tag[t].last_written_at \in Nat
    BY <2>1, <2>2, <2>4, <2>6, TimesType DEF ActiveTagStates
  <2>8. spool[tag[t].assigned_spool].updated_at <= tag[t].last_written_at
    BY <2>4, <2>6, <2>7 DEF IsStale
  <2> QED
    BY <2>3, <2>6, <2>7, <2>8
<1> QED
  BY <1>1, ScanInvariant, PTL

\* A tag that was stale and is not: it was written, which is a grant.
LEMMA FreshStep ==
  ASSUME RowsInv, Moves, NEW t \in Tags, tag[t].status \in ActiveTagStates, IsStale(t)
  PROVE  IsStale(t)'
<1> DEFINE s == tag[t].assigned_spool
           last == tag[t].last_written_at
<1>1. TypeOK /\ ClockInv
  BY DEF RowsInv
<1>2. /\ last # Null /\ spool[s].updated_at > last
      /\ s \in Spools /\ spool[s].updated_at \in Nat /\ last \in Nat /\ clock \in Nat
      /\ spool[s].updated_at <= clock
  BY <1>1, TimesType DEF IsStale, ActiveTagStates, ClockInv
<1>3. TagMoves(t) /\ SpoolMoves(s)
  BY <1>2 DEF Moves
<1>4. tag'[t].last_written_at = last
  BY <1>3 DEF TagMoves
<1>5. \/ spool'[tag'[t].assigned_spool].updated_at = clock
      \/ spool'[tag'[t].assigned_spool].updated_at = spool[s].updated_at
  BY <1>3 DEF TagMoves, SpoolMoves
<1>6. spool'[tag'[t].assigned_spool].updated_at > last
  BY <1>2, <1>5
<1> QED
  BY <1>2, <1>4, <1>6 DEF IsStale

\* What makes a stale tag valid again is a payload handed out for it at that moment.
THEOREM StaleStays == ScanSpec => StaleUntilGranted
<1> DEFINE Granted(t) == \E c \in Clients :
                           /\ pending'[c].tag = t
                           /\ pending'[c].granted_at = clock
                           /\ tag'[t].last_written_at = clock
<1>1. ASSUME ScanInv, ScanInv', [ScanNext]_allVars, NEW t \in Tags,
             Classification(t, chip[t]) = "app_owned_stale",
             Classification(t, chip[t])' = "app_owned_valid"
      PROVE  Granted(t)
  <2>1. /\ RowsInv /\ ScanShape /\ TypeOK /\ TypeOK' /\ ScanShape'
    BY <1>1 DEF ScanInv, RowsInv
  <2>2. tag[t].status \in ActiveTagStates /\ IsStale(t)
    <3>1. tag[t].status \in {"none", "assigned", "stale", "retired"}
      BY <2>1 DEF TypeOK, TagRow, TagStates
    <3>2. chip[t].kind \in {"blank", "foreign", "damaged", "payload"}
      BY <2>1 DEF ScanShape, ContentType, Kinds
    <3> QED
      BY <1>1, <3>1, <3>2 DEF Classification, Verifies, ActiveTagStates
  <2>3. ~IsStale(t)'
    <3>1. tag'[t].status \in {"none", "assigned", "stale", "retired"}
      BY <2>1 DEF TypeOK, TagRow, TagStates
    <3>2. chip'[t].kind \in {"blank", "foreign", "damaged", "payload"}
      BY <2>1 DEF ScanShape, ContentType, Kinds
    <3> QED
      BY <1>1, <3>1, <3>2 DEF Classification, Verifies, ActiveTagStates
  <2>4. ~Ungranted
    BY <2>1, <2>2, <2>3, UngrantedMoves, FreshStep
  <2>5. PICK c \in Clients, u \in Tags, s \in Spools, force \in BOOLEAN : Grant(c, s, u, force)
    <3>1. PhoneNext => Ungranted
      <4>1. \A d \in Clients, s \in Spools : AssignDetected(d, s) => Ungranted
        BY <2>1 DEF AssignDetected, ScanShape, Ungranted
      <4> QED
        BY <4>1 DEF PhoneNext, BeginScan, Detect, ReadSucceeds, SessionFails, RestartPhone,
                    SubmitScan, Ungranted
    <3>2. HandleScan \/ LoseScan \/ OtherNext \/ UNCHANGED allVars => Ungranted
      BY <1>1, HandleRows DEF LoseScan, OtherNext, allVars, Ungranted
    <3>3. \A c \in Clients, u \in Tags : WriteChip(c, u) \/ InterruptWrite(c, u) => Ungranted
      BY DEF WriteChip, InterruptWrite, Ungranted
    <3> QED
      BY <1>1, <2>4, <3>1, <3>2, <3>3 DEF ScanNext, WriteNext
  <2>6. /\ WritePayload(c, s, u, force)
        /\ pending' = [pending EXCEPT ![c] = Signed(s, u)]
    BY <2>5 DEF Grant
  <2>7. /\ UNCHANGED spool
        /\ \A x \in Tags : x # u => tag'[x] = tag[x]
        /\ tag'[u].last_written_at = clock
    BY <2>1, <2>6, GrantMoves
  <2>8. u = t
    BY <2>2, <2>3, <2>7 DEF IsStale
  <2>9. pending'[c].tag = u /\ pending'[c].granted_at = clock
    <3>1. pending'[c] = Signed(s, u)
      BY <2>1, <2>6 DEF ScanShape
    <3> QED
      BY <3>1 DEF Signed
  <2> QED
    BY <2>7, <2>8, <2>9
<1>2. ScanInv /\ ScanInv' /\ [ScanNext]_allVars =>
        [\A t \in Tags :
           Classification(t, chip[t]) = "app_owned_stale" /\ Classification(t, chip[t])' = "app_owned_valid"
             => \E c \in Clients :
                  /\ pending'[c].tag = t
                  /\ pending'[c].granted_at = clock
                  /\ tag'[t].last_written_at = clock]_allVars
  BY <1>1
<1> QED
  BY <1>2, ScanInvariant, PTL DEF ScanSpec, StaleUntilGranted
-----------------------------------------------------------------------------
(***************************************************************************)
(* The references of a key.  Both are defined by recursion over the bytes, *)
(* so their equations are proved to have a solution, and only one, from    *)
(* the least byte for which they have not.                                 *)
(***************************************************************************)

\* The highest byte of a hash is not zero.
Full(hash) == hash \in Nat /\ Shifted(hash)[RefLength - 1] # 0

\* The equations that define what is left of the hash at each byte.
ShiftStep(hash, g, i) == IF i = 0 THEN hash ELSE g[i - 1] \div Base

RestartStep(hash, g, i) ==
  IF i = 0 THEN hash
  ELSE IF g[i - 1] \div Base = 0 THEN ExclusiveOr(hash, i)
  ELSE g[i - 1] \div Base

Shifts(hash, g, m) == g = [i \in 0..m |-> ShiftStep(hash, g, i)]

Restarts(hash, g) == g = [i \in Positions |-> RestartStep(hash, g, i)]

LEMMA ShiftsExist ==
  ASSUME NEW hash, NEW m \in Nat
  PROVE  \E g : Shifts(hash, g, m)
<1> DEFINE Bad == {n \in Nat : ~ \E g : Shifts(hash, g, n)}
<1>1. SUFFICES ASSUME Bad # {} PROVE FALSE
  OBVIOUS
<1>2. PICK n \in Bad : n = 0 \/ n - 1 \in Nat \ Bad
  <2> HIDE DEF Bad
  <2>1. Bad \in SUBSET Nat
    BY DEF Bad
  <2> QED
    BY <1>1, <2>1, LeastNatural
<1>3. CASE n = 0
  <2> DEFINE g == [k \in 0..0 |-> hash]
  <2>1. Shifts(hash, g, 0)
    BY DEF Shifts, ShiftStep
  <2> QED
    BY <1>2, <1>3, <2>1
<1>4. CASE n # 0
  <2>1. n - 1 \in Nat /\ n \in Nat
    BY <1>2, <1>4
  <2>2. PICK g : Shifts(hash, g, n - 1)
    BY <1>2, <1>4
  <2> DEFINE h == [k \in 0..n |-> IF k = n THEN ShiftStep(hash, g, n) ELSE g[k]]
  <2>3. \A k \in 0..n : k # n => h[k] = g[k] /\ k \in 0..(n - 1)
    BY <2>1
  <2>4. \A k \in 0..n : k # 0 => k - 1 \in 0..n /\ k - 1 # n
    BY <2>1
  <2>5. \A k \in 0..n : h[k] = IF k = n THEN ShiftStep(hash, g, n) ELSE g[k]
    OBVIOUS
  <2>6. h = [k \in 0..n |-> h[k]]
    OBVIOUS
  <2> HIDE DEF h
  <2>7. \A k \in 0..n : ShiftStep(hash, h, k) = ShiftStep(hash, g, k)
    BY <2>3, <2>4 DEF ShiftStep
  <2>8. \A k \in 0..(n - 1) : g[k] = ShiftStep(hash, g, k)
    BY <2>2 DEF Shifts
  <2>9. \A k \in 0..n : h[k] = ShiftStep(hash, h, k)
    BY <2>3, <2>5, <2>7, <2>8
  <2>10. Shifts(hash, h, n)
    BY <2>6, <2>9 DEF Shifts
  <2> QED
    BY <1>2, <2>10
<1> QED
  BY <1>3, <1>4

\* What is left of the hash at a byte is what is left at the byte before, shifted.
LEMMA ShiftedByByte ==
  ASSUME NEW hash
  PROVE  /\ Shifted(hash) = [i \in Positions |-> Shifted(hash)[i]]
         /\ Shifted(hash)[0] = hash
         /\ \A i \in Positions : i # 0 => Shifted(hash)[i] = Shifted(hash)[i - 1] \div Base
<1> DEFINE g == CHOOSE f : Shifts(hash, f, RefLength - 1)
<1>1. RefLength - 1 \in Nat
  BY RefAssumption
<1>2. Shifts(hash, g, RefLength - 1)
  BY <1>1, ShiftsExist
<1>3. Shifted(hash) = g
  BY DEF Shifted, Shifts, ShiftStep, Positions
<1> HIDE DEF g
<1>4. g = [i \in Positions |-> ShiftStep(hash, g, i)]
  BY <1>2 DEF Shifts, Positions
<1>5. \A i \in Positions : g[i] = ShiftStep(hash, g, i)
  BY <1>4
<1>6. 0 \in Positions
  BY <1>1 DEF Positions
<1> QED
  BY <1>3, <1>4, <1>5, <1>6 DEF ShiftStep

\* If the highest byte is not zero, something is left of the hash at each byte.
LEMMA FullAtEachByte ==
  ASSUME NEW hash, Full(hash), NEW i \in Positions
  PROVE  Shifted(hash)[i] # 0
<1> DEFINE left(k) == Shifted(hash)[RefLength - 1 - k]
           Bad == {k \in Positions : left(k) = 0}
<1>1. RefLength \in Nat \ {0} /\ Base \in Nat \ {0}
  BY RefAssumption
<1>2. Bad = {}
  <2> SUFFICES ASSUME Bad # {} PROVE FALSE
    OBVIOUS
  <2>1. PICK n \in Bad : n = 0 \/ n - 1 \in Nat \ Bad
    <3>1. Bad \in SUBSET Nat
      BY <1>1 DEF Positions
    <3> HIDE DEF Bad
    <3> QED
      BY <3>1, LeastNatural
  <2>2. n \in Positions /\ left(n) = 0
    BY <2>1
  <2>3. n # 0
    BY <1>1, <2>2 DEF Full
  <2>4. n - 1 \in Positions /\ n - 1 \notin Bad
    BY <1>1, <2>1, <2>2, <2>3 DEF Positions
  <2>5. left(n - 1) # 0
    BY <2>4
  <2> DEFINE j == RefLength - 1 - (n - 1)
  <2>6. j \in Positions /\ j # 0 /\ j - 1 = RefLength - 1 - n
    BY <1>1, <2>2, <2>3 DEF Positions
  <2>7. Shifted(hash)[j] = Shifted(hash)[j - 1] \div Base
    BY <2>6, ShiftedByByte
  <2>8. Shifted(hash)[j - 1] = 0
    BY <2>2, <2>6
  <2>9. 0 \div Base = 0
    BY <1>1
  <2> QED
    BY <2>5, <2>7, <2>8, <2>9
<1>3. RefLength - 1 - i \in Positions /\ RefLength - 1 - (RefLength - 1 - i) = i
  BY <1>1 DEF Positions
<1> QED
  BY <1>2, <1>3

\* Then the writer never starts again.
LEMMA NeverRestarts ==
  ASSUME NEW hash, Full(hash)
  PROVE  /\ Restarts(hash, Shifted(hash))
         /\ \A f : Restarts(hash, f) => f = Shifted(hash)
<1> DEFINE g == Shifted(hash)
<1>1. /\ g = [i \in Positions |-> g[i]] /\ g[0] = hash
      /\ \A i \in Positions : i # 0 => g[i] = g[i - 1] \div Base
  BY ShiftedByByte
<1>2. \A i \in Positions : g[i] # 0
  BY FullAtEachByte
<1> HIDE DEF g
<1>3. \A i \in Positions : g[i] = RestartStep(hash, g, i)
  BY <1>1, <1>2 DEF RestartStep
<1>4. Restarts(hash, g)
  BY <1>1, <1>3 DEF Restarts
<1>5. ASSUME NEW f, Restarts(hash, f) PROVE f = g
  <2>1. \A i \in Positions : f[i] = RestartStep(hash, f, i)
    BY <1>5 DEF Restarts
  <2> DEFINE Bad == {i \in Positions : f[i] # g[i]}
  <2>2. Bad = {}
    <3> SUFFICES ASSUME Bad # {} PROVE FALSE
      OBVIOUS
    <3>1. PICK n \in Bad : n = 0 \/ n - 1 \in Nat \ Bad
      <4>1. Bad \in SUBSET Nat
        BY RefAssumption DEF Positions
      <4> HIDE DEF Bad
      <4> QED
        BY <4>1, LeastNatural
    <3>2. n \in Positions /\ f[n] # g[n]
      BY <3>1
    <3>3. CASE n = 0
      BY <1>1, <2>1, <3>2, <3>3 DEF RestartStep
    <3>4. CASE n # 0
      <4>1. n - 1 \in Positions
        BY <3>2, <3>4, RefAssumption DEF Positions
      <4>2. f[n - 1] = g[n - 1]
        BY <3>1, <3>4, <4>1
      <4>3. RestartStep(hash, f, n) = RestartStep(hash, g, n)
        BY <3>4, <4>2 DEF RestartStep
      <4> QED
        BY <1>3, <2>1, <3>2, <4>3
    <3> QED
      BY <3>3, <3>4
  <2>3. f = [i \in Positions |-> f[i]]
    BY <1>5 DEF Restarts
  <2>4. \A i \in Positions : f[i] = g[i]
    BY <2>2
  <2> QED
    BY <1>1, <2>3, <2>4
<1> QED
  BY <1>4, <1>5 DEF g

\* What is written for a hash whose highest byte is not zero is what is looked for.
LEMMA RefsAgree ==
  ASSUME NEW hash, Full(hash)
  PROVE  CompactRef(hash) = CompactPublicKeyRef(hash)
<1> DEFINE cursor == CHOOSE f : Restarts(hash, f)
<1>1. CompactRef(hash) = [i \in Positions |-> cursor[i] % Base]
  BY DEF CompactRef, Restarts, RestartStep
<1>2. cursor = Shifted(hash)
  BY NeverRestarts
<1> QED
  BY <1>1, <1>2 DEF CompactPublicKeyRef

\* What a client holds was signed with the key of the installation.
SignedInv ==
  /\ keyHash \in KeyHashes
  /\ pending = [c \in Clients |-> pending[c]]
  /\ \A c \in Clients : pending[c].kind = "payload" => pending[c].key_ref = WrittenRef(keyHash)

LEMMA SignedStep == SignedInv /\ [ScanNext]_allVars => SignedInv'
<1> SUFFICES ASSUME SignedInv, [ScanNext]_allVars PROVE SignedInv'
  OBVIOUS
<1>1. CASE UNCHANGED <<keyHash, pending>>
  BY <1>1 DEF SignedInv
<1>2. ASSUME NEW c \in Clients, NEW s \in Spools, NEW t \in Tags, NEW force \in BOOLEAN,
             Grant(c, s, t, force)
      PROVE  SignedInv'
  <2>1. keyHash' = keyHash /\ pending' = [pending EXCEPT ![c] = Signed(s, t)]
    BY <1>2 DEF Grant
  <2>2. Signed(s, t).key_ref = WrittenRef(keyHash)
    BY DEF Signed
  <2>3. \A d \in Clients : pending'[d] \in {pending[d], Signed(s, t)}
    BY <2>1 DEF SignedInv
  <2> QED
    BY <2>1, <2>2, <2>3 DEF SignedInv
<1>3. CASE PhoneNext
  BY <1>1, <1>3 DEF PhoneNext, BeginScan, Detect, ReadSucceeds, SessionFails, RestartPhone,
                    SubmitScan, AssignDetected, scanVars
<1>4. CASE WriteNext
  BY <1>1, <1>2, <1>4 DEF WriteNext, WriteChip, InterruptWrite
<1>5. CASE HandleScan \/ LoseScan \/ OtherNext
  BY <1>1, <1>5 DEF HandleScan, LoseScan, OtherNext, scanVars
<1>6. CASE UNCHANGED allVars
  BY <1>1, <1>6 DEF allVars, scanVars
<1> QED
  BY <1>3, <1>4, <1>5, <1>6 DEF ScanNext

\* A payload the installation hands out verifies when it is scanned, if no hash of a
\* key starts with a zero byte: then compactRefBytes never starts again and writes
\* what compactPublicKeyRef looks for (signNfcPayload, verifyNfcPayload).  A hash
\* that does is what TagKeyRef is about.
THEOREM SignedVerify ==
  ASSUME \A h \in KeyHashes :
           /\ Full(h)
           /\ WrittenRef(h) = CompactRef(h)
           /\ SoughtRef(h) = CompactPublicKeyRef(h)
  PROVE  ScanSpec => []SignedPayloadsVerify
<1>1. \A h \in KeyHashes : WrittenRef(h) = SoughtRef(h)
  BY RefsAgree
<1>2. SignedInv => SignedPayloadsVerify
  BY <1>1 DEF SignedInv, SignedPayloadsVerify, Verifies
<1>3. ScanInit => SignedInv
  <2> SUFFICES ASSUME ScanInit PROVE SignedInv
    OBVIOUS
  <2>1. Content("none").kind = "none"
    BY DEF Content
  <2> QED
    BY <2>1 DEF ScanInit, SignedInv
<1> QED
  BY <1>2, <1>3, SignedStep, PTL DEF ScanSpec
===============================================================================
