--------------------------- MODULE Repository_proofs ---------------------------
(***************************************************************************)
(* Theorems about Repository and InventoryRestore, for every value of      *)
(* their constants: types, tags, weights and the audit trail; the ledger   *)
(* of the weights (the usage events implement WeightLedger: initial states *)
(* map to initial states, and every step to a step or a stutter) and its   *)
(* balance; at the end, backups and restores.                              *)
(***************************************************************************)
EXTENDS InventoryRestore, FiniteSetTheorems, WellFoundedInduction, TLAPS

\* Induction over the natural numbers: a set of them has a least member.
LEMMA LeastNatural ==
  ASSUME NEW Bad \in SUBSET Nat, Bad # {}
  PROVE  \E n \in Bad : n = 0 \/ n - 1 \in Nat \ Bad
<1>1. PICK n \in Bad : \A m \in Bad : ~(<<m, n>> \in OpToRel(<, Nat))
  BY NatLessThanWellFounded, WFMin
<1>2. n # 0 => n - 1 \in Nat /\ n - 1 < n
  OBVIOUS
<1>3. n # 0 => <<n - 1, n>> \in OpToRel(<, Nat)
  BY <1>2 DEF OpToRel
<1> QED
  BY <1>1, <1>2, <1>3

\* The columns keep their types.
LEMMA TypeInit == Init => TypeOK
<1> SUFFICES ASSUME Init PROVE TypeOK
  OBVIOUS
<1>1. NoCatalog \in CatalogRow /\ NoUsage \in UsageRow /\ NoTag \in TagRow
  BY DEF NoCatalog, CatalogRow, RowStates, NoUsage, UsageRow, ReviewStates,
         NoTag, TagRow, TagStates
<1>2. NoSpool \in SpoolRow /\ NoSlot \in SlotRow
  BY DEF NoSpool, SpoolRow, RowStates, NoSlot, SlotRow
<1> QED
  BY <1>1, <1>2, NullAssumption DEF Init, TypeOK, NoUsage, NoTag

\* What a write of a spool leaves: the row with the next version, this soft
\* delete, remaining weight and active tag, and every other row as it was.
Written(s, state, remaining, active) ==
  /\ spool' \in [Spools -> SpoolRow]
  /\ \A x \in Spools : x # s => spool'[x] = spool[x]
  /\ spool'[s].version = spool[s].version + 1
  /\ spool'[s].row = state
  /\ spool'[s].remaining = remaining
  /\ spool'[s].active_tag = active

LEMMA WriteSpoolEffect ==
  ASSUME TypeOK, NEW s \in Spools, NEW row \in SpoolRow, WriteSpool(s, row)
  PROVE  Written(s, row.row, row.remaining, row.active_tag)
<1> DEFINE new == [row EXCEPT !.version = spool[s].version + 1, !.updated_at = clock]
<1>1. spool[s].version + 1 \in Nat /\ clock \in Nat
  BY DEF TypeOK, SpoolRow
<1>2. /\ new \in SpoolRow
      /\ new.version = spool[s].version + 1
      /\ new.row = row.row
      /\ new.remaining = row.remaining
      /\ new.active_tag = row.active_tag
  BY <1>1 DEF SpoolRow
<1>3. spool' = [spool EXCEPT ![s] = new]
  BY DEF WriteSpool
<1> HIDE DEF new
<1> QED
  BY <1>2, <1>3 DEF TypeOK, Written

\* The patches the operations hand to WriteSpool.
LEMMA PatchWritten ==
  ASSUME TypeOK, NEW s \in Spools, NEW k \in Catalogs, NEW initial \in Int,
         WriteSpool(s, [spool[s] EXCEPT !.catalog = k, !.initial = initial])
  PROVE  Written(s, spool[s].row, spool[s].remaining, spool[s].active_tag)
<1> DEFINE new == [spool[s] EXCEPT !.catalog = k, !.initial = initial]
<1>0. spool[s] \in SpoolRow
  BY DEF TypeOK
<1>1. /\ new \in SpoolRow
      /\ new.row = spool[s].row
      /\ new.remaining = spool[s].remaining
      /\ new.active_tag = spool[s].active_tag
  BY <1>0 DEF SpoolRow
<1>2. WriteSpool(s, new)
  OBVIOUS
<1> HIDE DEF new
<1>3. Written(s, new.row, new.remaining, new.active_tag)
  BY <1>1, <1>2, WriteSpoolEffect
<1> QED
  BY <1>1, <1>3

LEMMA DeleteWritten ==
  ASSUME TypeOK, NEW s \in Spools,
         WriteSpool(s, [spool[s] EXCEPT !.row = "deleted", !.active_tag = Null])
  PROVE  Written(s, "deleted", spool[s].remaining, Null)
<1> DEFINE new == [spool[s] EXCEPT !.row = "deleted", !.active_tag = Null]
<1>0. spool[s] \in SpoolRow
  BY DEF TypeOK
<1>1. /\ new \in SpoolRow
      /\ new.row = "deleted"
      /\ new.remaining = spool[s].remaining
      /\ new.active_tag = Null
  BY <1>0 DEF SpoolRow, RowStates
<1>2. WriteSpool(s, new)
  OBVIOUS
<1> HIDE DEF new
<1>3. Written(s, new.row, new.remaining, new.active_tag)
  BY <1>1, <1>2, WriteSpoolEffect
<1> QED
  BY <1>1, <1>3

LEMMA WeightWritten ==
  ASSUME TypeOK, NEW s \in Spools, NEW weight \in Int,
         WriteSpool(s, [spool[s] EXCEPT !.remaining = weight])
  PROVE  Written(s, spool[s].row, weight, spool[s].active_tag)
<1> DEFINE new == [spool[s] EXCEPT !.remaining = weight]
<1>0. spool[s] \in SpoolRow
  BY DEF TypeOK
<1>1. /\ new \in SpoolRow
      /\ new.row = spool[s].row
      /\ new.remaining = weight
      /\ new.active_tag = spool[s].active_tag
  BY <1>0 DEF SpoolRow
<1>2. WriteSpool(s, new)
  OBVIOUS
<1> HIDE DEF new
<1>3. Written(s, new.row, new.remaining, new.active_tag)
  BY <1>1, <1>2, WriteSpoolEffect
<1> QED
  BY <1>1, <1>3

LEMMA ActiveTagWritten ==
  ASSUME TypeOK, NEW s \in Spools, NEW t \in Tags \cup {Null},
         WriteSpool(s, [spool[s] EXCEPT !.active_tag = t])
  PROVE  Written(s, spool[s].row, spool[s].remaining, t)
<1> DEFINE new == [spool[s] EXCEPT !.active_tag = t]
<1>0. spool[s] \in SpoolRow
  BY DEF TypeOK
<1>1. /\ new \in SpoolRow
      /\ new.row = spool[s].row
      /\ new.remaining = spool[s].remaining
      /\ new.active_tag = t
  BY <1>0 DEF SpoolRow
<1>2. WriteSpool(s, new)
  OBVIOUS
<1> HIDE DEF new
<1>3. Written(s, new.row, new.remaining, new.active_tag)
  BY <1>1, <1>2, WriteSpoolEffect
<1> QED
  BY <1>1, <1>3

\* The same, action by action.
LEMMA ActionWritten ==
  ASSUME TypeOK
  PROVE  /\ \A c \in Clients, s \in Spools, k \in Catalogs, initial \in Grams :
              UpdateSpool(c, s, k, initial) =>
                Written(s, spool[s].row, spool[s].remaining, spool[s].active_tag)
         /\ \A c \in Clients, s \in Spools :
              DeleteSpool(c, s) => Written(s, "deleted", spool[s].remaining, Null)
         /\ \A c \in Clients, s \in Spools, e \in Events, w \in Grams :
              ManualAdjustment(c, s, e, w) =>
                Written(s, spool[s].row, w, spool[s].active_tag)
         /\ \A c \in Clients, e \in Events, d \in Int, status \in ReviewStates,
               checked \in BOOLEAN :
              ApplyUsageEvent(c, e, d, status, checked) =>
                /\ usage[e].spool \in Spools
                /\ Written(usage[e].spool, spool[usage[e].spool].row,
                           spool[usage[e].spool].remaining + d,
                           spool[usage[e].spool].active_tag)
         /\ \A c \in Clients, s \in Spools, t \in Tags :
              AssignNfcTag(c, s, t) => Written(s, spool[s].row, spool[s].remaining, t)
         /\ \A t \in Tags, v \in Versions :
              RetireTag(t, v) =>
                LET s == tag[t].assigned_spool IN
                /\ s \in Spools
                /\ spool[s].active_tag = t =>
                     Written(s, spool[s].row, spool[s].remaining, Null)
                /\ spool[s].active_tag # t => UNCHANGED spool
<1>0. Grams \subseteq Int
  BY BoundAssumption DEF Grams
<1>1. ASSUME NEW c \in Clients, NEW s \in Spools, NEW k \in Catalogs,
             NEW initial \in Grams, UpdateSpool(c, s, k, initial)
      PROVE  Written(s, spool[s].row, spool[s].remaining, spool[s].active_tag)
  BY <1>0, <1>1, PatchWritten DEF UpdateSpool
<1>2. ASSUME NEW c \in Clients, NEW s \in Spools, DeleteSpool(c, s)
      PROVE  Written(s, "deleted", spool[s].remaining, Null)
  BY <1>2, DeleteWritten DEF DeleteSpool
<1>3. ASSUME NEW c \in Clients, NEW s \in Spools, NEW e \in Events, NEW w \in Grams,
             ManualAdjustment(c, s, e, w)
      PROVE  Written(s, spool[s].row, w, spool[s].active_tag)
  BY <1>0, <1>3, WeightWritten DEF ManualAdjustment, AdjustWeight
<1>4. ASSUME NEW c \in Clients, NEW e \in Events, NEW d \in Int,
             NEW status \in ReviewStates, NEW checked \in BOOLEAN,
             ApplyUsageEvent(c, e, d, status, checked)
      PROVE  /\ usage[e].spool \in Spools
             /\ Written(usage[e].spool, spool[usage[e].spool].row,
                        spool[usage[e].spool].remaining + d,
                        spool[usage[e].spool].active_tag)
  <2> DEFINE s == usage[e].spool
  <2>1. s \in Spools
    BY <1>4 DEF ApplyUsageEvent, TypeOK
  <2>2. spool[s].remaining + d \in Int
    BY <2>1 DEF TypeOK, SpoolRow
  <2>3. WriteSpool(s, [spool[s] EXCEPT !.remaining = spool[s].remaining + d])
    BY <1>4 DEF ApplyUsageEvent
  <2> QED
    BY <2>1, <2>2, <2>3, WeightWritten
<1>5. ASSUME NEW c \in Clients, NEW s \in Spools, NEW t \in Tags, AssignNfcTag(c, s, t)
      PROVE  Written(s, spool[s].row, spool[s].remaining, t)
  BY <1>5, ActiveTagWritten DEF AssignNfcTag
<1>6. ASSUME NEW t \in Tags, NEW v \in Versions, RetireTag(t, v)
      PROVE  LET s == tag[t].assigned_spool IN
             /\ s \in Spools
             /\ spool[s].active_tag = t =>
                  Written(s, spool[s].row, spool[s].remaining, Null)
             /\ spool[s].active_tag # t => UNCHANGED spool
  <2>1. tag[t].assigned_spool \in Spools
    BY <1>6 DEF RetireTag, TypeOK
  <2> QED
    BY <1>6, <2>1, ActiveTagWritten DEF RetireTag
<1> QED
  BY <1>1, <1>2, <1>3, <1>4, <1>5, <1>6

LEMMA TagWrites ==
  ASSUME NEW row \in TagRow
  PROVE  /\ \A st \in TagStates :
              /\ SetStatus(row, st) \in TagRow
              /\ SetStatus(row, st).status = st
              /\ SetStatus(row, st).assigned_spool = row.assigned_spool
         /\ \A s \in Spools :
              /\ AssignTo(row, s) \in TagRow
              /\ AssignTo(row, s).status = "assigned"
              /\ AssignTo(row, s).assigned_spool = s
         /\ \A now \in Nat :
              /\ MarkWritten(row, now) \in TagRow
              /\ MarkWritten(row, now).status = "assigned"
              /\ MarkWritten(row, now).assigned_spool = row.assigned_spool
<1>1. row.version + 1 \in Nat /\ "assigned" \in TagStates
  BY DEF TagRow, TagStates
<1>2. ASSUME NEW st \in TagStates
      PROVE  /\ SetStatus(row, st) \in TagRow
             /\ SetStatus(row, st).status = st
             /\ SetStatus(row, st).assigned_spool = row.assigned_spool
  BY <1>1 DEF TagRow, SetStatus
<1>3. ASSUME NEW s \in Spools
      PROVE  /\ AssignTo(row, s) \in TagRow
             /\ AssignTo(row, s).status = "assigned"
             /\ AssignTo(row, s).assigned_spool = s
  BY <1>1 DEF TagRow, AssignTo
<1>4. ASSUME NEW now \in Nat
      PROVE  /\ MarkWritten(row, now) \in TagRow
             /\ MarkWritten(row, now).status = "assigned"
             /\ MarkWritten(row, now).assigned_spool = row.assigned_spool
  BY <1>1 DEF TagRow, MarkWritten
<1> QED
  BY <1>2, <1>3, <1>4

LEMMA SlotWrite ==
  ASSUME NEW row \in SlotRow
  PROVE  Unmap(row) \in SlotRow
<1>1. row.version + 1 \in Nat
  BY DEF SlotRow
<1> QED
  BY <1>1 DEF SlotRow, Unmap

LEMMA NewUsageType ==
  ASSUME NEW s \in Spools, NEW status \in ReviewStates \ {"none"},
         NEW delta \in Int, NEW before \in Int, NEW after \in Int
  PROVE  NewUsage(s, status, delta, before, after) \in UsageRow
BY DEF NewUsage, UsageRow

\* An adjustment to any weight keeps the types: the sync route does not check
\* the weight of an item.
LEMMA AdjustType ==
  ASSUME TypeOK, NEW s \in Spools, NEW e \in Events, NEW w \in Int, NEW expected,
         AdjustWeight(s, expected, e, w)
  PROVE  /\ TypeOK'
         /\ Written(s, spool[s].row, w, spool[s].active_tag)
<1>1. w - spool[s].remaining \in Int /\ spool[s].remaining \in Int
  BY DEF TypeOK, SpoolRow
<1>2. Written(s, spool[s].row, w, spool[s].active_tag)
  BY WeightWritten DEF AdjustWeight
<1>3. NewUsage(s, "auto_approved", w - spool[s].remaining, spool[s].remaining, w) \in UsageRow
  BY <1>1, NewUsageType DEF ReviewStates
<1> QED
  BY <1>2, <1>3 DEF TypeOK, Written, AdjustWeight, InsertUsage, NewUsage

\* One step per action.  Only a spool's active tag is retired with it, and
\* ActiveTagsAgree says that it is the row of a tag.
LEMMA TypeStep == TypeOK /\ ActiveTagsAgree /\ [Next]_vars => TypeOK'
<1> SUFFICES ASSUME TypeOK, ActiveTagsAgree, [Next]_vars PROVE TypeOK'
  OBVIOUS
<1> USE DEF TypeOK
<1>1. ASSUME NEW new \in SUBSET Catalogs, ImportCatalogItems(new) PROVE TypeOK'
  BY <1>1 DEF ImportCatalogItems, CatalogRow, RowStates
<1>19. ASSUME NEW k \in Catalogs, CreateCatalogItem(k) PROVE TypeOK'
  <2>1. {k} \in SUBSET Catalogs
    OBVIOUS
  <2> QED
    BY <1>1, <1>19, <2>1 DEF CreateCatalogItem
<1>2. ASSUME NEW k \in Catalogs, NEW v \in Versions, UpdateCatalogItem(k, v)
      PROVE TypeOK'
  BY <1>2, BoundAssumption DEF UpdateCatalogItem, CatalogRow, Versions
<1>3. ASSUME NEW k \in Catalogs, NEW v \in Versions, DeleteCatalogItem(k, v)
      PROVE TypeOK'
  BY <1>3, BoundAssumption DEF DeleteCatalogItem, CatalogRow, RowStates, Versions
<1>4. ASSUME NEW s \in Spools, NEW k \in Catalogs,
             NEW initial \in Grams, NEW remaining \in Grams,
             CreateSpool(s, k, initial, remaining)
      PROVE TypeOK'
  <2>1. [row |-> "live", version |-> 1, catalog |-> k, initial |-> initial,
         remaining |-> remaining, active_tag |-> Null, updated_at |-> clock] \in SpoolRow
    BY BoundAssumption DEF SpoolRow, RowStates, Grams
  <2> QED
    BY <1>4, <2>1, BoundAssumption DEF CreateSpool, Grams
<1>5. ASSUME NEW s \in Spools, NEW c \in Clients, FetchSpool(c, s) PROVE TypeOK'
  BY <1>5 DEF FetchSpool
<1>6. ASSUME NEW s \in Spools, NEW c \in Clients, NEW k \in Catalogs,
             NEW initial \in Grams, UpdateSpool(c, s, k, initial)
      PROVE TypeOK'
  <2>1. spool' \in [Spools -> SpoolRow]
    BY <1>6, ActionWritten DEF Written
  <2> QED
    BY <1>6, <2>1 DEF UpdateSpool
<1>7. ASSUME NEW s \in Spools, NEW c \in Clients, DeleteSpool(c, s) PROVE TypeOK'
  <2>2. spool' \in [Spools -> SpoolRow]
    BY <1>7, ActionWritten DEF Written
  <2>3. ASSUME NEW t \in Tags
        PROVE  /\ tag'[t] \in TagRow
               /\ tag'[t].assigned_spool = tag[t].assigned_spool
               /\ (tag'[t].status # "none") <=> (tag[t].status # "none")
    <3>1. CASE tag[t].assigned_spool = s /\ tag[t].status # "retired"
      <4>1. tag'[t] = SetStatus(tag[t], "retired")
        BY <1>7, <3>1 DEF DeleteSpool
      <4>2. tag[t] \in TagRow /\ "retired" \in TagStates
        BY DEF TagStates
      <4> QED
        BY <4>1, <4>2, <3>1, TagWrites
    <3>2. CASE ~(tag[t].assigned_spool = s /\ tag[t].status # "retired")
      BY <1>7, <3>2 DEF DeleteSpool
    <3> QED
      BY <3>1, <3>2
  <2>4. tag' \in [Tags -> TagRow]
    BY <1>7, <2>3 DEF DeleteSpool
  <2>5. ASSUME NEW x \in Slots PROVE slot'[x] \in SlotRow
    BY <1>7, SlotWrite DEF DeleteSpool
  <2>6. slot' \in [Slots -> SlotRow]
    BY <1>7, <2>5 DEF DeleteSpool
  <2> QED
    BY <1>7, <2>2, <2>3, <2>4, <2>6 DEF DeleteSpool
<1>8. ASSUME NEW e \in Events, NEW c \in Clients, NEW s \in Spools, NEW w \in Grams,
             ManualAdjustment(c, s, e, w)
      PROVE TypeOK'
  <2>1. w \in Int
    BY BoundAssumption DEF Grams
  <2> QED
    BY <1>8, <2>1, AdjustType DEF ManualAdjustment
<1>9. ASSUME NEW e \in Events, NEW s \in Spools, NEW d \in Candidates,
             CreatePendingUsageEvent(s, e, d)
      PROVE TypeOK'
  <2>1. d \in Int /\ spool[s].remaining \in Int
    BY BoundAssumption DEF SpoolRow
  <2>2. ClampAtZero(spool[s].remaining + d) \in Int
    BY <2>1 DEF ClampAtZero
  <2>3. NewUsage(s, "pending", d, spool[s].remaining,
                 ClampAtZero(spool[s].remaining + d)) \in UsageRow
    BY <2>1, <2>2, NewUsageType DEF ReviewStates
  <2> QED
    BY <1>9, <2>3 DEF CreatePendingUsageEvent, InsertUsage, NewUsage
<1>10. ASSUME NEW e \in Events, NEW c \in Clients, NEW d \in Int,
              NEW status \in ReviewStates \ {"none"}, NEW checked \in BOOLEAN,
              ApplyUsageEvent(c, e, d, status, checked)
       PROVE TypeOK'
  <2> DEFINE s == usage[e].spool
  <2> s \in Spools
    BY <1>10 DEF ApplyUsageEvent
  <2>1. spool[s].remaining \in Int /\ spool[s].remaining + d \in Int
    BY <1>10 DEF SpoolRow
  <2>2. spool' \in [Spools -> SpoolRow]
    BY <1>10, ActionWritten DEF Written
  <2>3. NewUsage(s, status, d, spool[s].remaining, spool[s].remaining + d) \in UsageRow
    BY <1>10, <2>1, NewUsageType
  <2> QED
    BY <1>10, <2>2, <2>3 DEF ApplyUsageEvent, NewUsage
<1>18. ASSUME NEW e \in Events, NEW c \in Clients, NEW checked \in BOOLEAN,
              \/ ApproveUsageEvent(c, e, checked)
              \/ \E d \in EditDeltas : EditAndApproveUsageEvent(c, e, d, checked)
       PROVE TypeOK'
  <2>1. usage[e].delta \in Int /\ EditDeltas \subseteq Int
    BY BoundAssumption DEF UsageRow
  <2>2. {"approved", "edited"} \subseteq ReviewStates \ {"none"}
    BY DEF ReviewStates
  <2> QED
    BY <1>18, <1>10, <2>1, <2>2 DEF ApproveUsageEvent, EditAndApproveUsageEvent
<1>11. ASSUME NEW e \in Events, RejectUsageEvent(e) PROVE TypeOK'
  BY <1>11 DEF RejectUsageEvent, UsageRow, ReviewStates
<1>12. ASSUME NEW t \in Tags, NEW c \in Clients, NEW s \in Spools, AssignNfcTag(c, s, t)
       PROVE TypeOK'
  <2>2. spool' \in [Spools -> SpoolRow]
    BY <1>12, ActionWritten DEF Written
  <2>3. ASSUME NEW u \in Tags
        PROVE  /\ tag'[u] \in TagRow
               /\ (tag'[u].status # "none") <=> (tag'[u].assigned_spool \in Spools)
    <3>1. CASE u = t
      BY <1>12, <3>1, TagWrites DEF AssignNfcTag
    <3>2. CASE u # t /\ u = spool[s].active_tag
      <4>1. tag'[u] = SetStatus(tag[u], "retired")
        BY <1>12, <3>2 DEF AssignNfcTag
      <4>2. "retired" \in TagStates
        BY DEF TagStates
      <4>3. tag[u].status # "none"
        BY <3>2, NullAssumption DEF ActiveTagsAgree, ActiveTagStates
      <4>4. /\ tag'[u] \in TagRow
            /\ tag'[u].status = "retired"
            /\ tag'[u].assigned_spool = tag[u].assigned_spool
        BY <4>1, <4>2, TagWrites
      <4> QED
        BY <4>3, <4>4
    <3>3. CASE u # t /\ u # spool[s].active_tag
      BY <1>12, <3>3 DEF AssignNfcTag
    <3> QED
      BY <3>1, <3>2, <3>3
  <2> QED
    BY <1>12, <2>2, <2>3 DEF AssignNfcTag
<1>13. ASSUME NEW t \in Tags, NEW c \in Clients, NEW s \in Spools, NEW force \in BOOLEAN,
              WritePayload(c, s, t, force)
       PROVE TypeOK'
  <2>1. tag[t] \in TagRow /\ clock \in Nat
    OBVIOUS
  <2> QED
    BY <1>13, <2>1, TagWrites DEF WritePayload
<1>14. ASSUME NEW t \in Tags, ScanTag(t) PROVE TypeOK'
  <2>1. PICK st \in TagStates \ {"none"} :
          tag' = [tag EXCEPT ![t] = SetStatus(tag[t], st)]
    BY <1>14 DEF ScanTag, ScannedStatus, TagStates
  <2> QED
    BY <1>14, <2>1, TagWrites DEF ScanTag
<1>15. ASSUME NEW t \in Tags, NEW v \in Versions, RetireTag(t, v) PROVE TypeOK'
  <2> DEFINE s == tag[t].assigned_spool
  <2>1. s \in Spools /\ "retired" \in TagStates
    BY <1>15 DEF RetireTag, TagStates
  <2>2. spool' \in [Spools -> SpoolRow]
    BY <1>15, ActionWritten DEF Written
  <2>3. /\ SetStatus(tag[t], "retired") \in TagRow
        /\ SetStatus(tag[t], "retired").status = "retired"
        /\ SetStatus(tag[t], "retired").assigned_spool = s
    BY <2>1, TagWrites
  <2>4. tag' = [tag EXCEPT ![t] = SetStatus(tag[t], "retired")]
    BY <1>15 DEF RetireTag
  <2> QED
    BY <1>15, <2>1, <2>2, <2>3, <2>4 DEF RetireTag
<1>16. ASSUME Tick PROVE TypeOK'
  BY <1>16 DEF Tick
<1>17. CASE UNCHANGED vars
  BY <1>17 DEF vars
<1> QED
  BY <1>1, <1>2, <1>3, <1>4, <1>5, <1>6, <1>7, <1>8, <1>9, <1>18, <1>11, <1>12,
     <1>13, <1>14, <1>15, <1>16, <1>17, <1>19
  DEF Next, CatalogNext, SpoolNext, UsageNext, TagNext
-----------------------------------------------------------------------------
(***************************************************************************)
(* Active tags and assigned spools agree                                   *)
(***************************************************************************)

LEMMA AgreeInit == Init => ActiveTagsAgree
BY DEF Init, ActiveTagsAgree, NoSpool, NoTag, ActiveTagStates

\* A step that writes no tag, and no spool's active tag or soft delete.
LEMMA AgreeFrame ==
  ASSUME ActiveTagsAgree, TypeOK, UNCHANGED tag,
         \A x \in Spools : /\ spool'[x].active_tag = spool[x].active_tag
                           /\ spool'[x].row = spool[x].row
  PROVE  ActiveTagsAgree'
BY DEF ActiveTagsAgree, LiveSpool, ActiveTagStates, TypeOK

\* A step that writes one tag, which stays in use or out of use.
LEMMA AgreeTagFrame ==
  ASSUME ActiveTagsAgree, TypeOK, UNCHANGED spool, NEW t \in Tags,
         \A u \in Tags : u # t => tag'[u] = tag[u],
         tag'[t].assigned_spool = tag[t].assigned_spool,
         tag'[t].status \in ActiveTagStates <=> tag[t].status \in ActiveTagStates
  PROVE  ActiveTagsAgree'
<1>1. ASSUME NEW u \in Tags
      PROVE  /\ tag'[u].assigned_spool = tag[u].assigned_spool
             /\ tag'[u].status \in ActiveTagStates <=> tag[u].status \in ActiveTagStates
  OBVIOUS
<1>2. \A x \in Spools : spool[x].active_tag # Null => spool[x].active_tag \in Tags
  BY DEF TypeOK, SpoolRow
<1> QED
  BY <1>1, <1>2 DEF ActiveTagsAgree, LiveSpool

LEMMA AgreeStep == TypeOK /\ ActiveTagsAgree /\ [Next]_vars => ActiveTagsAgree'
<1> SUFFICES ASSUME TypeOK, ActiveTagsAgree, [Next]_vars PROVE ActiveTagsAgree'
  OBVIOUS
<1>1. ASSUME UNCHANGED <<spool, tag>> PROVE ActiveTagsAgree'
  BY <1>1, AgreeFrame
<1>2. ASSUME NEW s \in Spools, NEW k \in Catalogs,
             NEW initial \in Grams, NEW remaining \in Grams,
             CreateSpool(s, k, initial, remaining)
      PROVE ActiveTagsAgree'
  <2>1. /\ spool'[s].active_tag = Null /\ spool'[s].row = "live"
        /\ \A x \in Spools : x # s => spool'[x] = spool[x]
        /\ spool[s].row = "none"
    BY <1>2 DEF CreateSpool, TypeOK
  <2> QED
    BY <1>2, <2>1, NullAssumption
    DEF ActiveTagsAgree, LiveSpool, ActiveTagStates, TypeOK, CreateSpool
<1>3. ASSUME NEW s \in Spools, NEW c \in Clients, NEW k \in Catalogs,
             NEW initial \in Grams, UpdateSpool(c, s, k, initial)
      PROVE ActiveTagsAgree'
  <2>2. \A x \in Spools : /\ spool'[x].active_tag = spool[x].active_tag
                          /\ spool'[x].row = spool[x].row
    BY <1>3, ActionWritten DEF Written
  <2> QED
    BY <1>3, <2>2, AgreeFrame DEF UpdateSpool
<1>4. ASSUME NEW s \in Spools, NEW c \in Clients, DeleteSpool(c, s)
      PROVE ActiveTagsAgree'
  <2>1. /\ spool'[s].active_tag = Null
        /\ spool'[s].row = "deleted"
        /\ \A x \in Spools : x # s => spool'[x] = spool[x]
    BY <1>4, ActionWritten DEF Written
  <2>2. ASSUME NEW t \in Tags, tag[t].assigned_spool # s
        PROVE  tag'[t] = tag[t]
    BY <1>4, <2>2 DEF DeleteSpool
  <2>3. ASSUME NEW t \in Tags, tag[t].assigned_spool = s
        PROVE  tag'[t].status \notin ActiveTagStates
    <3>1. CASE tag[t].status = "retired"
      BY <1>4, <3>1 DEF DeleteSpool, ActiveTagStates
    <3>2. CASE tag[t].status # "retired"
      <4>1. tag'[t] = SetStatus(tag[t], "retired")
        BY <1>4, <2>3, <3>2 DEF DeleteSpool
      <4>2. tag[t] \in TagRow /\ "retired" \in TagStates
        BY DEF TypeOK, TagStates
      <4>3. tag'[t].status = "retired"
        BY <4>1, <4>2, TagWrites
      <4> QED
        BY <4>3 DEF ActiveTagStates
    <3> QED
      BY <3>1, <3>2
  <2>4. ASSUME NEW x \in Spools, spool'[x].active_tag # Null
        PROVE  /\ tag'[spool'[x].active_tag].status \in ActiveTagStates
               /\ tag'[spool'[x].active_tag].assigned_spool = x
    <3>1. x # s /\ spool'[x] = spool[x]
      BY <2>1, <2>4
    <3>2. spool[x].active_tag \in Tags
      BY <2>4, <3>1 DEF TypeOK, SpoolRow
    <3> QED
      BY <2>2, <2>4, <3>1, <3>2 DEF ActiveTagsAgree
  <2>5. ASSUME NEW t \in Tags, tag'[t].status \in ActiveTagStates
        PROVE  /\ spool'[tag'[t].assigned_spool].row = "live"
               /\ spool'[tag'[t].assigned_spool].active_tag = t
    <3>1. tag[t].assigned_spool # s /\ tag'[t] = tag[t]
      BY <2>2, <2>3, <2>5
    <3>2. tag[t].assigned_spool \in Spools
      BY <2>5, <3>1 DEF TypeOK, ActiveTagStates
    <3> QED
      BY <2>1, <2>5, <3>1, <3>2 DEF ActiveTagsAgree, LiveSpool
  <2> QED
    BY <2>4, <2>5 DEF ActiveTagsAgree, LiveSpool
<1>5. ASSUME NEW e \in Events, NEW c \in Clients, NEW s \in Spools, NEW w \in Grams,
             ManualAdjustment(c, s, e, w)
      PROVE ActiveTagsAgree'
  <2>2. \A x \in Spools : /\ spool'[x].active_tag = spool[x].active_tag
                          /\ spool'[x].row = spool[x].row
    BY <1>5, ActionWritten DEF Written
  <2> QED
    BY <1>5, <2>2, AgreeFrame DEF ManualAdjustment, AdjustWeight
<1>6. ASSUME NEW e \in Events, NEW c \in Clients, NEW d \in Int,
             NEW status \in ReviewStates, NEW checked \in BOOLEAN,
             ApplyUsageEvent(c, e, d, status, checked)
      PROVE ActiveTagsAgree'
  <2>3. \A x \in Spools : /\ spool'[x].active_tag = spool[x].active_tag
                          /\ spool'[x].row = spool[x].row
    BY <1>6, ActionWritten DEF Written
  <2> QED
    BY <1>6, <2>3, AgreeFrame DEF ApplyUsageEvent
<1>7. ASSUME NEW e \in Events, NEW c \in Clients, NEW checked \in BOOLEAN,
             \/ ApproveUsageEvent(c, e, checked)
             \/ \E d \in EditDeltas : EditAndApproveUsageEvent(c, e, d, checked)
      PROVE ActiveTagsAgree'
  <2>1. usage[e].delta \in Int /\ EditDeltas \subseteq Int
    BY BoundAssumption DEF UsageRow, TypeOK
  <2>2. {"approved", "edited"} \subseteq ReviewStates
    BY DEF ReviewStates
  <2> QED
    BY <1>7, <1>6, <2>1, <2>2 DEF ApproveUsageEvent, EditAndApproveUsageEvent
<1>8. ASSUME NEW t \in Tags, NEW c \in Clients, NEW s \in Spools, AssignNfcTag(c, s, t)
      PROVE ActiveTagsAgree'
  <2>1. /\ spool'[s].active_tag = t
        /\ spool'[s].row = "live"
        /\ \A x \in Spools : x # s => spool'[x] = spool[x]
    BY <1>8, ActionWritten DEF Written, AssignNfcTag, VersionMatches, LiveSpool
  <2>2. tag'[t].status \in ActiveTagStates /\ tag'[t].assigned_spool = s
    <3>1. tag'[t] = AssignTo(tag[t], s)
      BY <1>8 DEF AssignNfcTag
    <3> QED
      BY <3>1, TagWrites DEF TypeOK, ActiveTagStates
  <2>3. ASSUME NEW u \in Tags, u # t, u = spool[s].active_tag
        PROVE  tag'[u].status \notin ActiveTagStates
    <3>1. tag'[u] = SetStatus(tag[u], "retired")
      BY <1>8, <2>3 DEF AssignNfcTag
    <3>2. tag[u] \in TagRow /\ "retired" \in TagStates
      BY DEF TypeOK, TagStates
    <3>3. tag'[u].status = "retired"
      BY <3>1, <3>2, TagWrites
    <3> QED
      BY <3>3 DEF ActiveTagStates
  <2>4. ASSUME NEW u \in Tags, u # t, u # spool[s].active_tag
        PROVE  tag'[u] = tag[u]
    BY <1>8, <2>4 DEF AssignNfcTag
  <2>5. ASSUME NEW x \in Spools, spool'[x].active_tag # Null
        PROVE  /\ tag'[spool'[x].active_tag].status \in ActiveTagStates
               /\ tag'[spool'[x].active_tag].assigned_spool = x
    <3>1. CASE x = s
      BY <2>1, <2>2, <3>1
    <3>2. CASE x # s
      <4> DEFINE u == spool[x].active_tag
      <4>1. spool'[x] = spool[x] /\ u # Null /\ u \in Tags
        BY <2>1, <2>5, <3>2 DEF TypeOK, SpoolRow
      <4>2. tag[u].status \in ActiveTagStates /\ tag[u].assigned_spool = x
        BY <4>1 DEF ActiveTagsAgree
      <4>3. u # t
        BY <1>8, <3>2, <4>2 DEF AssignNfcTag
      <4>4. u # spool[s].active_tag
        BY <3>2, <4>1, <4>2 DEF ActiveTagsAgree
      <4> QED
        BY <2>4, <4>1, <4>2, <4>3, <4>4
    <3> QED
      BY <3>1, <3>2
  <2>6. ASSUME NEW u \in Tags, tag'[u].status \in ActiveTagStates
        PROVE  /\ spool'[tag'[u].assigned_spool].row = "live"
               /\ spool'[tag'[u].assigned_spool].active_tag = u
    <3>1. CASE u = t
      BY <2>1, <2>2, <3>1 DEF LiveSpool
    <3>2. CASE u # t
      <4> DEFINE x == tag[u].assigned_spool
      <4>1. u # spool[s].active_tag /\ tag'[u] = tag[u]
        BY <2>3, <2>4, <2>6, <3>2
      <4>2. x \in Spools /\ LiveSpool(x) /\ spool[x].active_tag = u
        BY <2>6, <4>1 DEF ActiveTagsAgree, TypeOK, ActiveTagStates
      <4> QED
        BY <2>1, <4>1, <4>2 DEF LiveSpool
    <3> QED
      BY <3>1, <3>2
  <2> QED
    BY <2>5, <2>6 DEF ActiveTagsAgree, LiveSpool
<1>9. ASSUME NEW t \in Tags, NEW c \in Clients, NEW s \in Spools, NEW force \in BOOLEAN,
             WritePayload(c, s, t, force)
      PROVE ActiveTagsAgree'
  <2>1. tag' = [tag EXCEPT ![t] = MarkWritten(tag[t], clock)]
    BY <1>9 DEF WritePayload
  <2>2. /\ tag'[t] = MarkWritten(tag[t], clock)
        /\ \A u \in Tags : u # t => tag'[u] = tag[u]
    BY <2>1 DEF TypeOK
  <2>3. /\ tag'[t].assigned_spool = tag[t].assigned_spool
        /\ tag'[t].status = "assigned"
    BY <2>2, TagWrites DEF TypeOK
  <2>4. tag[t].status \in ActiveTagStates
    BY <1>9 DEF WritePayload, TypeOK, TagRow, TagStates, ActiveTagStates
  <2> QED
    BY <1>9, <2>2, <2>3, <2>4, AgreeTagFrame DEF WritePayload, ActiveTagStates
<1>10. ASSUME NEW t \in Tags, ScanTag(t) PROVE ActiveTagsAgree'
  <2>1. PICK st \in TagStates :
          /\ tag' = [tag EXCEPT ![t] = SetStatus(tag[t], st)]
          /\ st \in ActiveTagStates <=> tag[t].status \in ActiveTagStates
    BY <1>10 DEF ScanTag, ScannedStatus, TagStates, ActiveTagStates, TypeOK, TagRow
  <2>2. /\ tag'[t] = SetStatus(tag[t], st)
        /\ \A u \in Tags : u # t => tag'[u] = tag[u]
    BY <2>1 DEF TypeOK
  <2>3. /\ tag'[t].assigned_spool = tag[t].assigned_spool
        /\ tag'[t].status = st
    BY <2>2, TagWrites DEF TypeOK
  <2> QED
    BY <1>10, <2>1, <2>2, <2>3, AgreeTagFrame DEF ScanTag
<1>11. ASSUME NEW t \in Tags, NEW v \in Versions, RetireTag(t, v) PROVE ActiveTagsAgree'
  <2> DEFINE s == tag[t].assigned_spool
  <2>1. s \in Spools /\ "retired" \in TagStates
    BY <1>11 DEF RetireTag, TypeOK, TagStates
  <2>2. tag' = [tag EXCEPT ![t] = SetStatus(tag[t], "retired")]
    BY <1>11 DEF RetireTag
  <2>3. /\ tag'[t] = SetStatus(tag[t], "retired")
        /\ \A u \in Tags : u # t => tag'[u] = tag[u]
    BY <2>2 DEF TypeOK
  <2>4. tag'[t].assigned_spool = s /\ tag'[t].status \notin ActiveTagStates
    BY <2>1, <2>3, TagWrites DEF TypeOK, ActiveTagStates
  <2>5. CASE spool[s].active_tag = t
    <3>1. /\ spool'[s].active_tag = Null
          /\ spool'[s].row = spool[s].row
          /\ \A x \in Spools : x # s => spool'[x] = spool[x]
      BY <1>11, <2>5, ActionWritten DEF Written
    <3>2. ASSUME NEW x \in Spools, spool'[x].active_tag # Null
          PROVE  /\ tag'[spool'[x].active_tag].status \in ActiveTagStates
                 /\ tag'[spool'[x].active_tag].assigned_spool = x
      <4> DEFINE u == spool[x].active_tag
      <4>1. x # s /\ spool'[x] = spool[x] /\ u \in Tags
        BY <3>1, <3>2 DEF TypeOK, SpoolRow
      <4>2. tag[u].status \in ActiveTagStates /\ tag[u].assigned_spool = x
        BY <3>2, <4>1 DEF ActiveTagsAgree
      <4> QED
        BY <2>3, <4>1, <4>2
    <3>3. ASSUME NEW u \in Tags, tag'[u].status \in ActiveTagStates
          PROVE  /\ spool'[tag'[u].assigned_spool].row = "live"
                 /\ spool'[tag'[u].assigned_spool].active_tag = u
      <4> DEFINE x == tag[u].assigned_spool
      <4>1. u # t /\ tag'[u] = tag[u]
        BY <2>3, <2>4, <3>3
      <4>2. x \in Spools /\ LiveSpool(x) /\ spool[x].active_tag = u
        BY <3>3, <4>1 DEF ActiveTagsAgree, TypeOK, ActiveTagStates
      <4>3. x # s
        BY <2>5, <4>1, <4>2
      <4> QED
        BY <3>1, <4>1, <4>2, <4>3 DEF LiveSpool
    <3> QED
      BY <3>2, <3>3 DEF ActiveTagsAgree, LiveSpool
  <2>6. CASE spool[s].active_tag # t
    <3>1. tag[t].status \notin ActiveTagStates
      BY <2>6 DEF ActiveTagsAgree
    <3> QED
      BY <1>11, <2>3, <2>4, <2>6, <3>1, AgreeTagFrame DEF RetireTag
  <2> QED
    BY <2>5, <2>6
<1> QED
  BY <1>1, <1>2, <1>3, <1>4, <1>5, <1>7, <1>8, <1>9, <1>10, <1>11
  DEF Next, CatalogNext, SpoolNext, UsageNext, TagNext, vars, CreateCatalogItem, ImportCatalogItems,
      UpdateCatalogItem, DeleteCatalogItem, FetchSpool, CreatePendingUsageEvent,
      RejectUsageEvent, Tick

-----------------------------------------------------------------------------
(***************************************************************************)
(* What a step does to the spools and to the events                        *)
(***************************************************************************)

\* The insert of a spool.
Created(s) ==
  /\ spool[s].row = "none"
  /\ \A x \in Spools : x # s => spool'[x] = spool[x]
  /\ spool'[s].version = 1
  /\ spool'[s].row = "live"
  /\ spool'[s].remaining >= 0

\* A write of a live spool that does not make its weight negative.
Rewritten(s) ==
  /\ spool[s].row = "live"
  /\ \A x \in Spools : x # s => spool'[x] = spool[x]
  /\ spool'[s].version = spool[s].version + 1
  /\ spool'[s].row \in {"live", "deleted"}
  /\ spool'[s].remaining = spool[s].remaining \/ spool'[s].remaining >= 0

\* Every step leaves the spools and what the clients have seen, or is a fetch,
\* an insert or one write of one live spool.
LEMMA SpoolSteps ==
  ASSUME TypeOK, [Next]_vars
  PROVE  \/ UNCHANGED <<spool, seen>>
         \/ \E c \in Clients, s \in Spools : FetchSpool(c, s)
         \/ UNCHANGED seen /\ \E s \in Spools : Created(s) \/ Rewritten(s)
<1> DEFINE Goal == \/ UNCHANGED <<spool, seen>>
                   \/ \E c \in Clients, s \in Spools : FetchSpool(c, s)
                   \/ UNCHANGED seen /\ \E s \in Spools : Created(s) \/ Rewritten(s)
<1>0. Grams \subseteq Nat
  BY BoundAssumption DEF Grams
<1>1. ASSUME NEW s \in Spools, NEW k \in Catalogs,
             NEW initial \in Grams, NEW remaining \in Grams,
             CreateSpool(s, k, initial, remaining)
      PROVE Goal
  <2>1. Created(s)
    BY <1>0, <1>1 DEF CreateSpool, Created, TypeOK
  <2> QED
    BY <1>1, <2>1 DEF CreateSpool
<1>2. ASSUME NEW s \in Spools, NEW c \in Clients, NEW k \in Catalogs,
             NEW initial \in Grams, UpdateSpool(c, s, k, initial)
      PROVE Goal
  <2>0. LiveSpool(s) /\ Written(s, spool[s].row, spool[s].remaining, spool[s].active_tag)
    BY <1>2, ActionWritten DEF UpdateSpool, VersionMatches
  <2>1. Rewritten(s)
    BY <2>0 DEF LiveSpool, Written, Rewritten
  <2> QED
    BY <1>2, <2>1 DEF UpdateSpool
<1>3. ASSUME NEW s \in Spools, NEW c \in Clients, DeleteSpool(c, s) PROVE Goal
  <2>0. LiveSpool(s) /\ Written(s, "deleted", spool[s].remaining, Null)
    BY <1>3, ActionWritten DEF DeleteSpool, VersionMatches
  <2>1. Rewritten(s)
    BY <2>0 DEF LiveSpool, Written, Rewritten
  <2> QED
    BY <1>3, <2>1 DEF DeleteSpool
<1>4. ASSUME NEW e \in Events, NEW c \in Clients, NEW s \in Spools, NEW w \in Grams,
             ManualAdjustment(c, s, e, w)
      PROVE Goal
  <2>1. Rewritten(s)
    BY <1>0, <1>4, ActionWritten
    DEF ManualAdjustment, AdjustWeight, VersionMatches, LiveSpool, Written, Rewritten
  <2> QED
    BY <1>4, <2>1 DEF ManualAdjustment, AdjustWeight
<1>5. ASSUME NEW e \in Events, NEW c \in Clients, NEW d \in Int,
             NEW status \in ReviewStates, NEW checked \in BOOLEAN,
             ApplyUsageEvent(c, e, d, status, checked)
      PROVE Goal
  <2> DEFINE s == usage[e].spool
  <2>1. /\ spool[s].row = "live"
        /\ spool[s].remaining + d >= 0
        /\ UNCHANGED seen
    BY <1>5 DEF ApplyUsageEvent, LiveSpool
  <2>2. s \in Spools /\ Written(s, spool[s].row, spool[s].remaining + d, spool[s].active_tag)
    BY <1>5, ActionWritten
  <2> HIDE DEF s
  <2>3. Rewritten(s)
    BY <2>1, <2>2 DEF Written, Rewritten
  <2> QED
    BY <2>1, <2>2, <2>3
<1>6. ASSUME NEW e \in Events, NEW c \in Clients, NEW checked \in BOOLEAN,
             \/ ApproveUsageEvent(c, e, checked)
             \/ \E d \in EditDeltas : EditAndApproveUsageEvent(c, e, d, checked)
      PROVE Goal
  <2>1. usage[e].delta \in Int /\ EditDeltas \subseteq Int
    BY BoundAssumption DEF UsageRow, TypeOK
  <2>2. {"approved", "edited"} \subseteq ReviewStates
    BY DEF ReviewStates
  <2> QED
    BY <1>5, <1>6, <2>1, <2>2 DEF ApproveUsageEvent, EditAndApproveUsageEvent
<1>7. ASSUME NEW t \in Tags, NEW c \in Clients, NEW s \in Spools, AssignNfcTag(c, s, t)
      PROVE Goal
  <2>1. Rewritten(s)
    BY <1>7, ActionWritten
    DEF AssignNfcTag, VersionMatches, LiveSpool, Written, Rewritten
  <2> QED
    BY <1>7, <2>1 DEF AssignNfcTag
<1>8. ASSUME NEW t \in Tags, NEW v \in Versions, RetireTag(t, v) PROVE Goal
  <2> DEFINE s == tag[t].assigned_spool
  <2>1. CASE spool[s].active_tag = t
    <3>1. s \in Spools /\ Rewritten(s)
      BY <1>8, <2>1, ActionWritten DEF RetireTag, LiveSpool, Written, Rewritten
    <3> QED
      BY <1>8, <3>1 DEF RetireTag
  <2>2. CASE spool[s].active_tag # t
    BY <1>8, <2>2 DEF RetireTag
  <2> QED
    BY <2>1, <2>2
<1> QED
  BY <1>1, <1>2, <1>3, <1>4, <1>6, <1>7, <1>8
  DEF Next, CatalogNext, SpoolNext, UsageNext, TagNext, vars, CreateCatalogItem, ImportCatalogItems,
      UpdateCatalogItem, DeleteCatalogItem, CreatePendingUsageEvent,
      RejectUsageEvent, WritePayload, ScanTag, Tick

LEMMA OtherKeepUsage == CatalogNext \/ SpoolNext \/ TagNext \/ Tick => UNCHANGED usage
<1>1. CatalogNext \/ SpoolNext => UNCHANGED usage
  BY DEF CatalogNext, CreateCatalogItem, ImportCatalogItems, UpdateCatalogItem,
         DeleteCatalogItem, SpoolNext, CreateSpool, FetchSpool, UpdateSpool, DeleteSpool
<1>2. TagNext \/ Tick => UNCHANGED usage
  BY DEF TagNext, AssignNfcTag, WritePayload, ScanTag, RetireTag, Tick
<1> QED
  BY <1>1, <1>2

\* Event e is new or was pending, and no other event is written.
EventWritten(e) ==
  /\ usage[e].status \in {"none", "pending"}
  /\ \A f \in Events : f # e => usage'[f] = usage[f]

\* Every step writes at most one event, which was unused or pending.
LEMMA UsageSteps ==
  ASSUME TypeOK, [Next]_vars
  PROVE  UNCHANGED usage \/ \E e \in Events : EventWritten(e)
<1>0. usage \in [Events -> UsageRow]
  BY DEF TypeOK
<1>1. ASSUME NEW e \in Events, NEW row, InsertUsage(e, row)
      PROVE  EventWritten(e)
  BY <1>0, <1>1 DEF InsertUsage, EventWritten
<1>2. ASSUME NEW e \in Events, NEW c \in Clients, NEW s \in Spools, NEW w \in Grams,
             ManualAdjustment(c, s, e, w)
      PROVE  EventWritten(e)
  BY <1>1, <1>2 DEF ManualAdjustment, AdjustWeight
<1>3. ASSUME NEW e \in Events, NEW s \in Spools, NEW d \in Candidates,
             CreatePendingUsageEvent(s, e, d)
      PROVE  EventWritten(e)
  BY <1>1, <1>3 DEF CreatePendingUsageEvent
<1>4. ASSUME NEW e \in Events, NEW c \in Clients, NEW d, NEW status,
             NEW checked \in BOOLEAN, ApplyUsageEvent(c, e, d, status, checked)
      PROVE  EventWritten(e)
  BY <1>0, <1>4 DEF ApplyUsageEvent, EventWritten
<1>5. ASSUME NEW e \in Events, RejectUsageEvent(e)
      PROVE  EventWritten(e)
  BY <1>0, <1>5 DEF RejectUsageEvent, EventWritten
<1>6. UsageNext => \E e \in Events : EventWritten(e)
  BY <1>2, <1>3, <1>4, <1>5
  DEF UsageNext, ApproveUsageEvent, EditAndApproveUsageEvent
<1> QED
  BY <1>6, OtherKeepUsage DEF Next, vars
-----------------------------------------------------------------------------
(***************************************************************************)
(* Weights and the audit trail                                             *)
(***************************************************************************)

LEMMA NonNegativeStep ==
  ASSUME TypeOK, RemainingNonNegative, [Next]_vars
  PROVE  RemainingNonNegative'
<1>1. CASE UNCHANGED spool
  BY <1>1 DEF RemainingNonNegative
<1>2. ASSUME NEW s \in Spools, Created(s) \/ Rewritten(s)
      PROVE RemainingNonNegative'
  BY <1>2 DEF RemainingNonNegative, Created, Rewritten
<1> QED
  BY <1>1, <1>2, SpoolSteps DEF FetchSpool

\* A deleted spool is not written, and the row of an applied or rejected event
\* does not change.
RecordsKept ==
  /\ \A s \in Spools : spool[s].row = "deleted" => spool'[s] = spool[s]
  /\ \A e \in Events :
       usage[e].status \in AppliedStates \cup {"rejected"} => usage'[e] = usage[e]

LEMMA RecordsKeptStep ==
  ASSUME TypeOK, [Next]_vars
  PROVE  RecordsKept
<1>1. ASSUME NEW s \in Spools, spool[s].row = "deleted"
      PROVE  spool'[s] = spool[s]
  BY <1>1, SpoolSteps DEF FetchSpool, Created, Rewritten
<1>2. ASSUME NEW e \in Events, usage[e].status \in AppliedStates \cup {"rejected"}
      PROVE  usage'[e] = usage[e]
  BY <1>2, UsageSteps DEF AppliedStates, EventWritten
<1> QED
  BY <1>1, <1>2 DEF RecordsKept

\* The initial weight a write of a spool leaves.
LEMMA WriteSpoolInitial ==
  ASSUME TypeOK, NEW s \in Spools, NEW row \in SpoolRow, WriteSpool(s, row)
  PROVE  spool'[s].initial = row.initial
<1>1. spool' = [spool EXCEPT ![s] =
                  [row EXCEPT !.version = spool[s].version + 1, !.updated_at = clock]]
  BY DEF WriteSpool
<1> QED
  BY <1>1 DEF TypeOK, SpoolRow

\* Step s of a spool does not lift it over its initial weight.
Within(s) ==
  spool'[s].remaining > spool'[s].initial => spool[s].remaining > spool[s].initial

\* An event that waits for review takes filament away: it is a candidate's.
PendingIsUse == \A e \in Events : usage[e].status = "pending" => usage[e].delta <= 0

LEMMA PendingIsUseStep ==
  ASSUME TypeOK, PendingIsUse, [Next]_vars
  PROVE  PendingIsUse'
<1>2. ASSUME NEW e \in Events, NEW s \in Spools, NEW d \in Candidates,
             CreatePendingUsageEvent(s, e, d)
      PROVE PendingIsUse'
  <2>1. d <= 0
    BY BoundAssumption
  <2> QED
    BY <1>2, <2>1
    DEF CreatePendingUsageEvent, InsertUsage, NewUsage, PendingIsUse, TypeOK
<1>3. ASSUME NEW e \in Events, NEW c \in Clients, NEW s \in Spools, NEW w \in Grams,
             ManualAdjustment(c, s, e, w)
      PROVE PendingIsUse'
  <2>1. /\ usage'[e].status = "auto_approved"
        /\ \A f \in Events : f # e => usage'[f] = usage[f]
    BY <1>3 DEF ManualAdjustment, AdjustWeight, InsertUsage, NewUsage, TypeOK
  <2> QED
    BY <2>1 DEF PendingIsUse
<1>4. ASSUME NEW e \in Events, NEW c \in Clients, NEW d, NEW status \in {"approved", "edited"},
             NEW checked \in BOOLEAN, ApplyUsageEvent(c, e, d, status, checked)
      PROVE PendingIsUse'
  <2>1. /\ usage'[e].status = status
        /\ \A f \in Events : f # e => usage'[f] = usage[f]
    BY <1>4 DEF ApplyUsageEvent, NewUsage, TypeOK
  <2> QED
    BY <2>1 DEF PendingIsUse
<1>5. ASSUME NEW e \in Events, RejectUsageEvent(e) PROVE PendingIsUse'
  <2>1. /\ usage'[e].status = "rejected"
        /\ \A f \in Events : f # e => usage'[f] = usage[f]
    BY <1>5 DEF RejectUsageEvent, TypeOK, UsageRow
  <2> QED
    BY <2>1 DEF PendingIsUse
<1>6. UsageNext => PendingIsUse'
  BY <1>2, <1>3, <1>4, <1>5
  DEF UsageNext, ApproveUsageEvent, EditAndApproveUsageEvent
<1>7. CASE UNCHANGED usage
  BY <1>7 DEF PendingIsUse
<1> QED
  BY <1>6, <1>7, OtherKeepUsage DEF Next, vars

\* Only an edit, by a positive delta, lifts a spool over its initial weight.
LEMMA ExceedStep ==
  ASSUME TypeOK, PendingIsUse, [Next]_vars, NEW s \in Spools, ~Within(s)
  PROVE  \E e \in Events : /\ usage[e].status = "pending"
                           /\ usage'[e].status = "edited"
                           /\ usage'[e].spool = s
                           /\ usage'[e].delta > 0
<1> DEFINE Goal == \E e \in Events : /\ usage[e].status = "pending"
                                     /\ usage'[e].status = "edited"
                                     /\ usage'[e].spool = s
                                     /\ usage'[e].delta > 0
<1>0. /\ Grams \subseteq Int
      /\ \A x \in Spools : spool[x].remaining \in Int /\ spool[x].initial \in Int
  BY BoundAssumption DEF Grams, TypeOK, SpoolRow
\* Writes of another spool, and of this one that keep both weights.
<1>1. spool'[s] # spool[s]
  BY DEF Within
<1>2. ASSUME NEW x \in Spools, NEW t \in Tags \cup {Null},
             WriteSpool(x, [spool[x] EXCEPT !.active_tag = t])
      PROVE FALSE
  <2> DEFINE row == [spool[x] EXCEPT !.active_tag = t]
  <2>1. row \in SpoolRow /\ row.initial = spool[x].initial
    BY DEF TypeOK, SpoolRow
  <2>2. WriteSpool(x, row)
    BY <1>2
  <2> HIDE DEF row
  <2>3. spool'[x].initial = spool[x].initial
    BY <2>1, <2>2, WriteSpoolInitial
  <2>4. spool'[x].remaining = spool[x].remaining /\ (x # s => spool'[s] = spool[s])
    BY <1>2, ActiveTagWritten DEF Written
  <2> QED
    BY <1>1, <2>3, <2>4 DEF Within
<1>3. ASSUME NEW x \in Spools, NEW k \in Catalogs,
             NEW initial \in Grams, NEW remaining \in Grams,
             CreateSpool(x, k, initial, remaining)
      PROVE Goal
  <2>1. /\ spool'[x].remaining <= spool'[x].initial
        /\ spool'[x].remaining \in Int /\ spool'[x].initial \in Int
        /\ x # s => spool'[s] = spool[s]
    BY <1>0, <1>3 DEF CreateSpool, WeightInvariant, TypeOK
  <2> QED
    BY <1>1, <2>1 DEF Within
<1>4. ASSUME NEW x \in Spools, NEW c \in Clients, NEW k \in Catalogs,
             NEW initial \in Grams, UpdateSpool(c, x, k, initial)
      PROVE Goal
  <2> DEFINE row == [spool[x] EXCEPT !.catalog = k, !.initial = initial]
  <2>1. row \in SpoolRow /\ row.initial = initial
    BY <1>0 DEF TypeOK, SpoolRow
  <2>2. WriteSpool(x, row) /\ spool[x].remaining <= initial
    BY <1>4 DEF UpdateSpool, WeightInvariant
  <2> HIDE DEF row
  <2>3. spool'[x].initial = initial
    BY <2>1, <2>2, WriteSpoolInitial
  <2>4. spool'[x].remaining = spool[x].remaining /\ (x # s => spool'[s] = spool[s])
    BY <1>4, ActionWritten DEF Written
  <2> QED
    BY <1>0, <1>1, <2>2, <2>3, <2>4 DEF Within
<1>5. ASSUME NEW x \in Spools, NEW c \in Clients, DeleteSpool(c, x) PROVE Goal
  <2> DEFINE row == [spool[x] EXCEPT !.row = "deleted", !.active_tag = Null]
  <2>0. spool[x] \in SpoolRow
    BY DEF TypeOK
  <2>1. row \in SpoolRow /\ row.initial = spool[x].initial
    BY <2>0 DEF SpoolRow, RowStates
  <2>2. WriteSpool(x, row)
    BY <1>5 DEF DeleteSpool
  <2> HIDE DEF row
  <2>3. spool'[x].initial = spool[x].initial
    BY <2>1, <2>2, WriteSpoolInitial
  <2>4. spool'[x].remaining = spool[x].remaining /\ (x # s => spool'[s] = spool[s])
    BY <1>5, ActionWritten DEF Written
  <2> QED
    BY <1>1, <2>3, <2>4 DEF Within
\* The writes of a weight.
<1>6. ASSUME NEW x \in Spools, NEW weight \in Int,
             WriteSpool(x, [spool[x] EXCEPT !.remaining = weight])
      PROVE  /\ spool'[x].initial = spool[x].initial
             /\ spool'[x].remaining = weight
             /\ x # s => spool'[s] = spool[s]
  <2> DEFINE row == [spool[x] EXCEPT !.remaining = weight]
  <2>1. row \in SpoolRow /\ row.initial = spool[x].initial
    BY DEF TypeOK, SpoolRow
  <2>2. WriteSpool(x, row)
    BY <1>6
  <2> HIDE DEF row
  <2>3. spool'[x].initial = spool[x].initial
    BY <2>1, <2>2, WriteSpoolInitial
  <2> QED
    BY <1>6, <2>3, WeightWritten DEF Written
<1>7. ASSUME NEW e \in Events, NEW c \in Clients, NEW x \in Spools, NEW w \in Grams,
             ManualAdjustment(c, x, e, w)
      PROVE Goal
  <2>1. w \in Int /\ w <= spool[x].initial
        /\ WriteSpool(x, [spool[x] EXCEPT !.remaining = w])
    BY <1>0, <1>7 DEF ManualAdjustment, AdjustWeight
  <2> QED
    BY <1>0, <1>1, <1>6, <2>1 DEF Within
<1>8. ASSUME NEW e \in Events, NEW c \in Clients, NEW d \in Int, NEW status,
             NEW checked \in BOOLEAN, ApplyUsageEvent(c, e, d, status, checked)
      PROVE  /\ usage[e].status = "pending"
             /\ usage'[e].status = status
             /\ usage'[e].spool = s
             /\ usage'[e].delta = d
             /\ d > 0
  <2> PICK x \in Spools : x = usage[e].spool
    BY <1>8 DEF ApplyUsageEvent, TypeOK
  <2>1. /\ usage[e].status = "pending"
        /\ WriteSpool(x, [spool[x] EXCEPT !.remaining = spool[x].remaining + d])
        /\ usage' = [usage EXCEPT ![e] = NewUsage(x, status, d, spool[x].remaining,
                                                 spool[x].remaining + d)]
    BY <1>8 DEF ApplyUsageEvent
  <2>2. /\ spool'[x].initial = spool[x].initial
        /\ spool'[x].remaining = spool[x].remaining + d
        /\ x # s => spool'[s] = spool[s]
    <3> DEFINE weight == spool[x].remaining + d
    <3>1. weight \in Int /\ WriteSpool(x, [spool[x] EXCEPT !.remaining = weight])
      BY <1>0, <2>1
    <3> HIDE DEF weight
    <3>2. /\ spool'[x].initial = spool[x].initial
          /\ spool'[x].remaining = weight
          /\ x # s => spool'[s] = spool[s]
      BY <1>6, <3>1
    <3> QED
      BY <3>2 DEF weight
  <2>3. x = s /\ d > 0
    BY <1>0, <1>1, <2>2 DEF Within
  <2> QED
    BY <2>1, <2>3 DEF TypeOK, NewUsage
<1>9. ASSUME NEW e \in Events, NEW c \in Clients, NEW checked \in BOOLEAN,
             NEW d \in EditDeltas, EditAndApproveUsageEvent(c, e, d, checked)
      PROVE Goal
  <2>1. d \in Int /\ ApplyUsageEvent(c, e, d, "edited", checked)
    BY <1>9, BoundAssumption DEF EditAndApproveUsageEvent
  <2> QED
    BY <1>8, <2>1
<1>10. ASSUME NEW e \in Events, NEW c \in Clients, NEW checked \in BOOLEAN,
              ApproveUsageEvent(c, e, checked)
       PROVE Goal
  <2>1. /\ usage[e].delta \in Int
        /\ ApplyUsageEvent(c, e, usage[e].delta, "approved", checked)
    BY <1>10 DEF ApproveUsageEvent, TypeOK, UsageRow
  <2>2. usage[e].status = "pending" /\ usage[e].delta > 0
    BY <1>8, <2>1
  <2> QED
    BY <2>1, <2>2 DEF PendingIsUse
<1>11. ASSUME NEW t \in Tags, NEW c \in Clients, NEW x \in Spools, AssignNfcTag(c, x, t)
       PROVE Goal
  BY <1>2, <1>11 DEF AssignNfcTag
<1>12. ASSUME NEW t \in Tags, NEW v \in Versions, RetireTag(t, v) PROVE Goal
  <2>1. tag[t].assigned_spool \in Spools
    BY <1>12, ActionWritten
  <2> QED
    BY <1>1, <1>2, <1>12, <2>1 DEF RetireTag
<1>13. CASE UNCHANGED spool
  BY <1>1, <1>13
<1> QED
  BY <1>3, <1>4, <1>5, <1>7, <1>9, <1>10, <1>11, <1>12, <1>13
  DEF Next, CatalogNext, SpoolNext, UsageNext, TagNext, vars, CreateCatalogItem, ImportCatalogItems,
      UpdateCatalogItem, DeleteCatalogItem, FetchSpool, CreatePendingUsageEvent,
      RejectUsageEvent, WritePayload, ScanTag, Tick

\* A step lifts a spool over its initial weight only by an edited event.
OnlyEditsLift ==
  \A s \in Spools :
    spool'[s].remaining > spool'[s].initial /\ spool[s].remaining <= spool[s].initial =>
      \E e \in Events : /\ usage[e].status = "pending"
                        /\ usage'[e].status = "edited"
                        /\ usage'[e].spool = s
                        /\ usage'[e].delta > 0

LEMMA OnlyEditsLiftStep ==
  ASSUME TypeOK, PendingIsUse, [Next]_vars
  PROVE  OnlyEditsLift
<1>1. \A s \in Spools : spool[s].remaining \in Int /\ spool[s].initial \in Int
  BY DEF TypeOK, SpoolRow
<1> QED
  BY <1>1, ExceedStep DEF Within, OnlyEditsLift
-----------------------------------------------------------------------------
(***************************************************************************)
(* The ledger of the weights                                               *)
(***************************************************************************)
\* The ledger's variables but the copies, as the refinement mapping defines them.
AccountState(s) == StateOf(spool[s])
LedgerEntry(e) == EntryOf(usage[e])
States == StatesOf(spool)
Balances == BalancesOf(spool)
Entries == EntriesOf(usage)

LedgerStep == [Ledger!BookNext]_<<States, Balances, Entries>>

LEMMA Mapping ==
  /\ States = [s \in Spools |-> AccountState(s)]
  /\ Balances = [s \in Spools |-> spool[s].remaining]
  /\ Entries = [e \in Events |-> LedgerEntry(e)]
  /\ States' = [s \in Spools |-> AccountState(s)']
  /\ Balances' = [s \in Spools |-> spool'[s].remaining]
  /\ Entries' = [e \in Events |-> LedgerEntry(e)']
BY DEF States, Balances, Entries, StatesOf, BalancesOf, EntriesOf, AccountState, LedgerEntry

\* The entries follow the events.
LEMMA EntryOfEvent ==
  ASSUME NEW e \in Events
  PROVE  /\ usage[e].status = "none" =>
              LedgerEntry(e) = Ledger!Unposted("unused", usage[e].spool)
         /\ usage[e].status = "pending" =>
              LedgerEntry(e) = Ledger!Unposted("proposed", usage[e].spool)
         /\ usage[e].status = "rejected" =>
              LedgerEntry(e) = Ledger!Unposted("discarded", usage[e].spool)
         /\ usage[e].status \in AppliedStates =>
              LedgerEntry(e) = Ledger!Entry("posted", usage[e].spool, usage[e].delta,
                                            usage[e].before, usage[e].after)
BY DEF LedgerEntry, EntryOf, Ledger!Unposted, Ledger!Entry, AppliedStates

LEMMA EntryOfEventPrime ==
  ASSUME NEW e \in Events
  PROVE  /\ usage'[e].status = "none" =>
              LedgerEntry(e)' = Ledger!Unposted("unused", usage'[e].spool)
         /\ usage'[e].status = "pending" =>
              LedgerEntry(e)' = Ledger!Unposted("proposed", usage'[e].spool)
         /\ usage'[e].status = "rejected" =>
              LedgerEntry(e)' = Ledger!Unposted("discarded", usage'[e].spool)
         /\ usage'[e].status \in AppliedStates =>
              LedgerEntry(e)' = Ledger!Entry("posted", usage'[e].spool, usage'[e].delta,
                                             usage'[e].before, usage'[e].after)
BY DEF LedgerEntry, EntryOf, Ledger!Unposted, Ledger!Entry, AppliedStates

\* The accounts and the entries a step leaves alone.
LEMMA Frames ==
  /\ (\A s \in Spools : spool'[s].row = spool[s].row) => States' = States
  /\ (\A s \in Spools : spool'[s].remaining = spool[s].remaining) => Balances' = Balances
  /\ UNCHANGED usage => Entries' = Entries
<1>1. ASSUME \A s \in Spools : spool'[s].row = spool[s].row
      PROVE  States' = States
  <2>1. \A s \in Spools : AccountState(s)' = AccountState(s)
    BY <1>1 DEF AccountState, StateOf
  <2> QED
    BY <2>1, Mapping
<1>2. ASSUME \A s \in Spools : spool'[s].remaining = spool[s].remaining
      PROVE  Balances' = Balances
  BY <1>2, Mapping
<1>3. ASSUME UNCHANGED usage PROVE Entries' = Entries
  <2>1. \A e \in Events : LedgerEntry(e)' = LedgerEntry(e)
    BY <1>3 DEF LedgerEntry, EntryOf
  <2> QED
    BY <2>1, Mapping
<1> QED
  BY <1>1, <1>2, <1>3

LEMMA LedgerInitial == RestoreInit => Ledger!LedgerInit
<1> SUFFICES ASSUME RestoreInit PROVE Ledger!LedgerInit
  OBVIOUS
<1>1. \A s \in Spools : spool[s].row = "none" /\ spool[s].remaining = 0
  BY DEF RestoreInit, Init, NoSpool
<1>2. \A e \in Events : EntryOf(usage[e]) = Ledger!Unposted("unused", Null)
  BY DEF RestoreInit, Init, NoUsage, EntryOf, Ledger!Unposted, Ledger!Entry
<1>3. {CopyOf(b) : b \in backups} = {}
  BY DEF RestoreInit
<1> QED
  BY <1>1, <1>2, <1>3 DEF Ledger!LedgerInit, StatesOf, BalancesOf, EntriesOf, StateOf

\* The ledger's actions, on the variables of the mapping.
LEMMA OpenStep ==
  ASSUME TypeOK, NEW s \in Spools, Created(s), spool'[s].remaining \in Int,
         UNCHANGED usage
  PROVE  Ledger!Open(s)
<1>1. /\ States[s] = "new"
      /\ States' = [States EXCEPT ![s] = "open"]
  <2>1. AccountState(s) = "new" /\ AccountState(s)' = "open"
    BY DEF Created, AccountState, StateOf
  <2>2. \A x \in Spools : x # s => AccountState(x)' = AccountState(x)
    BY DEF Created, AccountState, StateOf
  <2> QED
    BY <2>1, <2>2, Mapping
<1>2. /\ Balances'[s] \in Int
      /\ Balances' = [Balances EXCEPT ![s] = Balances'[s]]
  BY Mapping DEF Created
<1>3. Entries' = Entries
  BY Frames
<1> QED
  BY <1>1, <1>2, <1>3 DEF Ledger!Open, Ledger!ChangesOnly, States, Balances, Entries

LEMMA CloseStep ==
  ASSUME TypeOK, NEW s \in Spools, spool[s].row = "live",
         Written(s, "deleted", spool[s].remaining, Null), UNCHANGED usage
  PROVE  Ledger!Close(s)
<1>1. /\ States[s] = "open"
      /\ States' = [States EXCEPT ![s] = "closed"]
  <2>1. AccountState(s) = "open" /\ AccountState(s)' = "closed"
    BY DEF Written, AccountState, StateOf
  <2>2. \A x \in Spools : x # s => AccountState(x)' = AccountState(x)
    BY DEF Written, AccountState, StateOf
  <2> QED
    BY <2>1, <2>2, Mapping
<1>2. Balances' = Balances /\ Entries' = Entries
  BY Frames DEF Written
<1> QED
  BY <1>1, <1>2 DEF Ledger!Close, States, Balances, Entries

LEMMA PostStep ==
  ASSUME TypeOK, NEW s \in Spools, NEW e \in Events, NEW delta \in Int,
         NEW status \in AppliedStates, spool[s].row = "live",
         Written(s, "live", spool[s].remaining + delta, spool[s].active_tag),
         \/ usage[e].status = "none"
         \/ usage[e].status = "pending" /\ usage[e].spool = s,
         usage' = [usage EXCEPT ![e] =
                     NewUsage(s, status, delta, spool[s].remaining,
                              spool[s].remaining + delta)]
  PROVE  Ledger!Post(e, s)
<1>1. /\ States[s] = "open"
      /\ States' = States
  BY Frames, Mapping DEF Written, AccountState, StateOf
<1>2. spool[s].remaining \in Int /\ spool[s].remaining + delta \in Int
  BY DEF TypeOK, SpoolRow
<1>3. /\ Balances[s] = spool[s].remaining
      /\ Balances'[s] = spool[s].remaining + delta
      /\ Balances' = [Balances EXCEPT ![s] = Balances'[s]]
  BY Mapping DEF Written
<1>4. \/ Entries[e].state = "unused"
      \/ Entries[e].state = "proposed" /\ Entries[e].account = s
  BY EntryOfEvent, Mapping DEF Ledger!Unposted, Ledger!Entry
<1>5. Balances'[s] - Balances[s] = delta
  BY <1>2, <1>3
<1>6. LedgerEntry(e)' = Ledger!Entry("posted", s, delta, Balances[s], Balances'[s])
  <2>1. /\ usage'[e].status = status
        /\ usage'[e].spool = s
        /\ usage'[e].delta = delta
        /\ usage'[e].before = Balances[s]
        /\ usage'[e].after = Balances'[s]
    BY <1>3 DEF TypeOK, NewUsage
  <2> QED
    BY <2>1, EntryOfEventPrime
<1>7. \A f \in Events : f # e => LedgerEntry(f)' = LedgerEntry(f)
  BY DEF LedgerEntry, EntryOf, TypeOK
<1>8. Entries' = [Entries EXCEPT ![e] =
                    Ledger!Entry("posted", s, Balances'[s] - Balances[s],
                                 Balances[s], Balances'[s])]
  BY <1>5, <1>6, <1>7, Mapping
<1> QED
  BY <1>1, <1>2, <1>3, <1>4, <1>8
  DEF Ledger!Post, Ledger!ChangesOnly, States, Balances, Entries

LEMMA ProposeStep ==
  ASSUME TypeOK, NEW s \in Spools, NEW e \in Events, NEW d \in Candidates,
         CreatePendingUsageEvent(s, e, d)
  PROVE  Ledger!Propose(e, s)
<1>1. /\ States[s] = "open"
      /\ States' = States
      /\ Balances' = Balances
  BY Frames, Mapping DEF CreatePendingUsageEvent, LiveSpool, AccountState, StateOf
<1>2. Entries[e].state = "unused"
  BY EntryOfEvent, Mapping DEF CreatePendingUsageEvent, InsertUsage, Ledger!Unposted, Ledger!Entry
<1>3. LedgerEntry(e)' = Ledger!Unposted("proposed", s)
  <2>1. usage'[e].status = "pending" /\ usage'[e].spool = s
    BY DEF CreatePendingUsageEvent, InsertUsage, NewUsage, TypeOK
  <2> QED
    BY <2>1, EntryOfEventPrime
<1>4. \A f \in Events : f # e => LedgerEntry(f)' = LedgerEntry(f)
  BY DEF CreatePendingUsageEvent, InsertUsage, LedgerEntry, EntryOf, TypeOK
<1>5. Entries' = [Entries EXCEPT ![e] = Ledger!Unposted("proposed", s)]
  BY <1>3, <1>4, Mapping
<1> QED
  BY <1>1, <1>2, <1>5 DEF Ledger!Propose, States, Balances, Entries

LEMMA DiscardStep ==
  ASSUME TypeOK, NEW e \in Events, RejectUsageEvent(e)
  PROVE  Ledger!Discard(e)
<1>1. States' = States /\ Balances' = Balances
  BY Frames DEF RejectUsageEvent
<1>2. Entries[e] = Ledger!Unposted("proposed", usage[e].spool)
  BY EntryOfEvent, Mapping DEF RejectUsageEvent
<1>3. LedgerEntry(e)' = Ledger!Unposted("discarded", usage[e].spool)
  <2>1. usage'[e].status = "rejected" /\ usage'[e].spool = usage[e].spool
    BY DEF RejectUsageEvent, TypeOK, UsageRow
  <2> QED
    BY <2>1, EntryOfEventPrime
<1>4. \A f \in Events : f # e => LedgerEntry(f)' = LedgerEntry(f)
  BY DEF RejectUsageEvent, LedgerEntry, EntryOf, TypeOK
<1>5. [Entries[e] EXCEPT !.state = "discarded"] = LedgerEntry(e)'
  BY <1>2, <1>3 DEF Ledger!Unposted, Ledger!Entry
<1>6. Entries' = [Entries EXCEPT ![e].state = "discarded"]
  BY <1>4, <1>5, Mapping
<1>7. Entries[e].state = "proposed"
  BY <1>2 DEF Ledger!Unposted, Ledger!Entry
<1> QED
  BY <1>1, <1>6, <1>7 DEF Ledger!Discard, States, Balances, Entries

LEMMA LedgerStepLemma == TypeOK /\ [Next]_vars => LedgerStep
<1> SUFFICES ASSUME TypeOK, [Next]_vars PROVE LedgerStep
  OBVIOUS
<1>0. Grams \subseteq Int
  BY BoundAssumption DEF Grams
\* Steps that change no weight, no soft delete and no event.
<1>1. ASSUME UNCHANGED <<spool, usage>> PROVE LedgerStep
  BY <1>1, Frames DEF LedgerStep
<1>2. ASSUME NEW s \in Spools, NEW t,
             Written(s, spool[s].row, spool[s].remaining, t), UNCHANGED usage
      PROVE LedgerStep
  BY <1>2, Frames DEF LedgerStep, Written
<1>3. ASSUME NEW s \in Spools, NEW k \in Catalogs,
             NEW initial \in Grams, NEW remaining \in Grams,
             CreateSpool(s, k, initial, remaining)
      PROVE LedgerStep
  <2>1. Created(s) /\ spool'[s].remaining \in Int /\ UNCHANGED usage
    BY <1>3, BoundAssumption DEF CreateSpool, Created, TypeOK, Grams
  <2> QED
    BY <2>1, OpenStep DEF LedgerStep, Ledger!BookNext
<1>4. ASSUME NEW s \in Spools, NEW c \in Clients, DeleteSpool(c, s) PROVE LedgerStep
  <2>1. Written(s, "deleted", spool[s].remaining, Null)
    BY <1>4, ActionWritten
  <2>2. spool[s].row = "live" /\ UNCHANGED usage
    BY <1>4 DEF DeleteSpool, VersionMatches, LiveSpool
  <2> QED
    BY <2>1, <2>2, CloseStep DEF LedgerStep, Ledger!BookNext
<1>5. ASSUME NEW e \in Events, NEW c \in Clients, NEW s \in Spools, NEW w \in Grams,
             ManualAdjustment(c, s, e, w)
      PROVE LedgerStep
  <2> DEFINE delta == w - spool[s].remaining
  <2>1. delta \in Int /\ spool[s].remaining + delta = w
    BY <1>0 DEF TypeOK, SpoolRow
  <2>2. spool[s].row = "live" /\ usage[e].status = "none"
    BY <1>5 DEF ManualAdjustment, AdjustWeight, VersionMatches, LiveSpool, InsertUsage
  <2>3. Written(s, "live", spool[s].remaining + delta, spool[s].active_tag)
    BY <1>5, <2>1, <2>2, ActionWritten
  <2>4. usage' = [usage EXCEPT ![e] =
                    NewUsage(s, "auto_approved", delta, spool[s].remaining,
                             spool[s].remaining + delta)]
    BY <1>5, <2>1 DEF ManualAdjustment, AdjustWeight, InsertUsage
  <2>5. "auto_approved" \in AppliedStates
    BY DEF AppliedStates
  <2> HIDE DEF delta
  <2>6. Ledger!Post(e, s)
    BY <2>1, <2>2, <2>3, <2>4, <2>5, PostStep
  <2> QED
    BY <2>6 DEF LedgerStep, Ledger!BookNext
<1>6. ASSUME NEW e \in Events, NEW c \in Clients, NEW d \in Int,
             NEW status \in {"approved", "edited"}, NEW checked \in BOOLEAN,
             ApplyUsageEvent(c, e, d, status, checked)
      PROVE LedgerStep
  <2>0. status \in ReviewStates /\ status \in AppliedStates
    BY DEF ReviewStates, AppliedStates
  <2> PICK s \in Spools : s = usage[e].spool
    BY <1>6 DEF ApplyUsageEvent, TypeOK
  <2>1. spool[s].row = "live" /\ usage[e].status = "pending"
    BY <1>6 DEF ApplyUsageEvent, LiveSpool
  <2>2. Written(s, "live", spool[s].remaining + d, spool[s].active_tag)
    BY <1>6, <2>0, <2>1, ActionWritten
  <2>3. usage' = [usage EXCEPT ![e] =
                    NewUsage(s, status, d, spool[s].remaining, spool[s].remaining + d)]
    BY <1>6 DEF ApplyUsageEvent
  <2>4. Ledger!Post(e, s)
    BY <2>0, <2>1, <2>2, <2>3, PostStep
  <2> QED
    BY <2>1, <2>4 DEF LedgerStep, Ledger!BookNext
<1>7. ASSUME NEW e \in Events, NEW c \in Clients, NEW checked \in BOOLEAN,
             \/ ApproveUsageEvent(c, e, checked)
             \/ \E d \in EditDeltas : EditAndApproveUsageEvent(c, e, d, checked)
      PROVE LedgerStep
  <2>1. usage[e].delta \in Int /\ EditDeltas \subseteq Int
    BY BoundAssumption DEF UsageRow, TypeOK
  <2> QED
    BY <1>6, <1>7, <2>1 DEF ApproveUsageEvent, EditAndApproveUsageEvent
<1>8. ASSUME NEW e \in Events, NEW s \in Spools, NEW d \in Candidates,
             CreatePendingUsageEvent(s, e, d)
      PROVE LedgerStep
  BY <1>8, ProposeStep DEF LedgerStep, Ledger!BookNext
<1>9. ASSUME NEW e \in Events, RejectUsageEvent(e) PROVE LedgerStep
  BY <1>9, DiscardStep DEF LedgerStep, Ledger!BookNext
<1>10. ASSUME NEW s \in Spools, NEW c \in Clients, NEW k \in Catalogs,
              NEW initial \in Grams, UpdateSpool(c, s, k, initial)
       PROVE LedgerStep
  BY <1>2, <1>10, ActionWritten DEF UpdateSpool
<1>11. ASSUME NEW t \in Tags, NEW c \in Clients, NEW s \in Spools, AssignNfcTag(c, s, t)
       PROVE LedgerStep
  BY <1>2, <1>11, ActionWritten DEF AssignNfcTag
<1>12. ASSUME NEW t \in Tags, NEW v \in Versions, RetireTag(t, v) PROVE LedgerStep
  <2> DEFINE s == tag[t].assigned_spool
  <2>1. UNCHANGED usage
    BY <1>12 DEF RetireTag
  <2>2. CASE spool[s].active_tag = t
    BY <1>2, <1>12, <2>1, <2>2, ActionWritten
  <2>3. CASE spool[s].active_tag # t
    BY <1>1, <1>12, <2>1, <2>3, ActionWritten
  <2> QED
    BY <2>2, <2>3
<1> QED
  BY <1>1, <1>3, <1>4, <1>5, <1>7, <1>8, <1>9, <1>10, <1>11, <1>12
  DEF Next, CatalogNext, SpoolNext, UsageNext, TagNext, vars, CreateCatalogItem, ImportCatalogItems,
      UpdateCatalogItem, DeleteCatalogItem, FetchSpool, WritePayload, ScanTag, Tick
-----------------------------------------------------------------------------
(***************************************************************************)
(* The sum of the deltas of a finite set of events, for any rows u.        *)
(* MapThenSumSet takes the elements of a set in an order of its own; the   *)
(* lemmas end in the two facts the ledger needs: the sum of an equal set   *)
(* of equal deltas is the same, and an event can be taken out of the sum.  *)
(* Induction is over the subsets of a finite set: a set of subsets for     *)
(* which a claim fails has a least member.                                 *)
(***************************************************************************)
Total(u, S) == MapThenSumSet(LAMBDA e : u[e].delta, S)

\* The element MapThenSumSet takes first, and the equation it solves.
Pick(S) == CHOOSE x \in S : TRUE

SumStep(u, g, S) == IF S = {} THEN 0 ELSE u[Pick(S)].delta + g[S \ {Pick(S)}]

Sums(u, g, S) == g = [T \in SUBSET S |-> SumStep(u, g, T)]

LEMMA LeastSubset ==
  ASSUME NEW S, IsFiniteSet(S), NEW Bad \in SUBSET (SUBSET S), Bad # {}
  PROVE  \E T \in Bad : \A U \in SUBSET T : U \in Bad => U = T
<1>1. Bad \subseteq FiniteSubsetsOf(S)
  BY FS_Subset DEF FiniteSubsetsOf
<1>2. PICK T \in Bad : \A U \in Bad : ~(<<U, T>> \in StrictSubsetOrdering(S))
  BY <1>1, FS_StrictSubsetOrderingWellFounded, WFMin
<1>3. ASSUME NEW U \in SUBSET T, U \in Bad, U # T PROVE FALSE
  BY <1>2, <1>3 DEF StrictSubsetOrdering
<1> QED
  BY <1>2, <1>3

LEMMA PickIn ==
  ASSUME NEW S, S # {}
  PROVE  Pick(S) \in S
BY DEF Pick

\* Two solutions agree on the sets they both sum.
LEMMA SumsAgree ==
  ASSUME NEW S, IsFiniteSet(S), NEW T \in SUBSET S, NEW u, NEW v, NEW g, NEW h,
         Sums(u, g, S), Sums(v, h, T),
         \A e \in T : u[e].delta = v[e].delta
  PROVE  g[T] = h[T]
<1> DEFINE Bad == {U \in SUBSET T : g[U] # h[U]}
<1>1. SUFFICES ASSUME Bad # {} PROVE FALSE
  OBVIOUS
<1>2. IsFiniteSet(T) /\ Bad \in SUBSET (SUBSET T)
  BY FS_Subset
<1>3. PICK U \in Bad : \A W \in SUBSET U : W \in Bad => W = U
  <2> HIDE DEF Bad
  <2> QED
    BY <1>1, <1>2, LeastSubset
<1>4. g[U] = SumStep(u, g, U) /\ h[U] = SumStep(v, h, U)
  BY <1>3 DEF Sums
<1>5. U # {}
  BY <1>3, <1>4 DEF SumStep
<1>6. Pick(U) \in U
  BY <1>5, PickIn
<1>7. g[U \ {Pick(U)}] = h[U \ {Pick(U)}]
  BY <1>3, <1>6
<1> QED
  BY <1>3, <1>4, <1>5, <1>6, <1>7 DEF SumStep

\* The equation has a solution: a least set without one would have the one
\* put together from the solutions of its subsets.
LEMMA SumsExist ==
  ASSUME NEW u, NEW S, IsFiniteSet(S)
  PROVE  \E g : Sums(u, g, S)
<1> DEFINE Bad == {T \in SUBSET S : ~ \E g : Sums(u, g, T)}
<1>1. SUFFICES ASSUME Bad # {} PROVE FALSE
  OBVIOUS
<1>2. Bad \in SUBSET (SUBSET S)
  OBVIOUS
<1>3. PICK T \in Bad : \A U \in SUBSET T : U \in Bad => U = T
  <2> HIDE DEF Bad
  <2> QED
    BY <1>1, <1>2, LeastSubset
<1> DEFINE G(U) == CHOOSE g : Sums(u, g, U)
<1>4. \A U \in SUBSET T : U # T => Sums(u, G(U), U)
  BY <1>3
<1> HIDE DEF G
<1> DEFINE top == u[Pick(T)].delta + G(T \ {Pick(T)})[T \ {Pick(T)}]
           h == [U \in SUBSET T |-> IF U # T THEN G(U)[U] ELSE IF T = {} THEN 0 ELSE top]
<1>5. ASSUME NEW U \in SUBSET T, U # {}
      PROVE  h[U] = u[Pick(U)].delta + h[U \ {Pick(U)}]
  <2> DEFINE V == U \ {Pick(U)}
  <2>1. V \in SUBSET T /\ V \in SUBSET U /\ V # T
    BY <1>5, PickIn
  <2>2. h[V] = G(V)[V]
    BY <2>1
  <2>3. CASE U = T
    BY <1>5, <2>2, <2>3
  <2>4. CASE U # T
    <3>1. Sums(u, G(U), U) /\ Sums(u, G(V), V)
      BY <1>4, <2>1, <2>4
    <3>2. IsFiniteSet(U)
      BY FS_Subset
    <3>3. G(U)[U] = u[Pick(U)].delta + G(U)[V]
      BY <3>1, <1>5 DEF Sums, SumStep
    <3>4. \A e \in V : u[e].delta = u[e].delta
      OBVIOUS
    <3> HIDE DEF V
    <3>5. G(U)[V] = G(V)[V]
      BY <2>1, <3>1, <3>2, <3>4, SumsAgree
    <3> QED
      BY <2>2, <2>4, <3>3, <3>5 DEF V
  <2> QED
    BY <2>3, <2>4
<1>6. h[{}] = 0
  <2>1. CASE T = {}
    BY <2>1
  <2>2. CASE T # {}
    BY <1>4, <2>2 DEF Sums, SumStep
  <2> QED
    BY <2>1, <2>2
<1>7. \A U \in SUBSET T : h[U] = SumStep(u, h, U)
  BY <1>5, <1>6 DEF SumStep
<1>8. h = [U \in SUBSET T |-> h[U]]
  OBVIOUS
<1> HIDE DEF h
<1>9. Sums(u, h, T)
  BY <1>7, <1>8 DEF Sums
<1> QED
  BY <1>3, <1>9

LEMMA TotalSums ==
  ASSUME NEW u, NEW S, IsFiniteSet(S)
  PROVE  \E g : Sums(u, g, S) /\ Total(u, S) = g[S]
<1>1. Total(u, S) = (CHOOSE g : Sums(u, g, S))[S]
  BY DEF Total, MapThenSumSet, MapThenFoldSet, Sums, SumStep, Pick
<1> QED
  BY <1>1, SumsExist

LEMMA TotalEmpty ==
  ASSUME NEW u
  PROVE  Total(u, {}) = 0
<1>1. IsFiniteSet({})
  BY FS_EmptySet
<1>2. PICK g : Sums(u, g, {}) /\ Total(u, {}) = g[{}]
  BY <1>1, TotalSums
<1>3. g[{}] = SumStep(u, g, {})
  BY <1>2 DEF Sums
<1> QED
  BY <1>2, <1>3 DEF SumStep

LEMMA TotalSame ==
  ASSUME NEW u, NEW v, NEW S, IsFiniteSet(S), \A e \in S : u[e].delta = v[e].delta
  PROVE  Total(u, S) = Total(v, S)
<1>1. PICK g : Sums(u, g, S) /\ Total(u, S) = g[S]
  BY TotalSums
<1>2. PICK h : Sums(v, h, S) /\ Total(v, S) = h[S]
  BY TotalSums
<1> QED
  BY <1>1, <1>2, SumsAgree

LEMMA TotalPick ==
  ASSUME NEW u, NEW S, IsFiniteSet(S), S # {}
  PROVE  /\ Pick(S) \in S
         /\ Total(u, S) = u[Pick(S)].delta + Total(u, S \ {Pick(S)})
<1> DEFINE T == S \ {Pick(S)}
<1>1. IsFiniteSet(T) /\ T \in SUBSET S /\ Pick(S) \in S
  BY FS_Subset, PickIn
<1>2. PICK g : Sums(u, g, S) /\ Total(u, S) = g[S]
  BY TotalSums
<1>3. g[S] = u[Pick(S)].delta + g[T]
  BY <1>2 DEF Sums, SumStep
<1> HIDE DEF T
<1>4. PICK h : Sums(u, h, T) /\ Total(u, T) = h[T]
  BY <1>1, TotalSums
<1>5. \A e \in T : u[e].delta = u[e].delta
  OBVIOUS
<1>6. g[T] = h[T]
  BY <1>1, <1>2, <1>4, <1>5, SumsAgree
<1> QED
  BY <1>1, <1>2, <1>3, <1>4, <1>6 DEF T

\* An event can be taken out of a sum, whichever one MapThenSumSet takes first.
LEMMA TotalRemove ==
  ASSUME NEW u, NEW S, IsFiniteSet(S), \A e \in S : u[e].delta \in Int
  PROVE  /\ Total(u, S) \in Int
         /\ \A x \in S : Total(u, S) = u[x].delta + Total(u, S \ {x})
<1> DEFINE Good(T) == /\ Total(u, T) \in Int
                      /\ \A x \in T : Total(u, T) = u[x].delta + Total(u, T \ {x})
           Bad == {T \in SUBSET S : ~Good(T)}
<1>1. SUFFICES ASSUME Bad # {} PROVE FALSE
  OBVIOUS
<1>2. Bad \in SUBSET (SUBSET S)
  OBVIOUS
<1>3. PICK T \in Bad : \A U \in SUBSET T : U \in Bad => U = T
  <2> HIDE DEF Bad
  <2> QED
    BY <1>1, <1>2, LeastSubset
<1>4. T # {}
  <2>1. Total(u, {}) = 0
    BY TotalEmpty
  <2>2. Good({})
    BY <2>1
  <2> QED
    BY <2>2
<1> DEFINE p == Pick(T)
<1>5. IsFiniteSet(T)
  BY <1>3, FS_Subset
<1>6. p \in T /\ Total(u, T) = u[p].delta + Total(u, T \ {p})
  BY <1>4, <1>5, TotalPick
<1>7. \A x \in T : Good(T \ {x})
  BY <1>3
<1> HIDE DEF p
<1>8. Total(u, T) \in Int
  BY <1>3, <1>6, <1>7
<1>9. ASSUME NEW x \in T, x # p
      PROVE  Total(u, T) = u[x].delta + Total(u, T \ {x})
  <2> DEFINE a == Total(u, T)
             b == Total(u, T \ {p})
             c == Total(u, T \ {x})
             d == Total(u, (T \ {p}) \ {x})
             dx == u[x].delta
             dp == u[p].delta
  <2>1. b = dx + d
    BY <1>6, <1>7, <1>9
  <2>2. c = dp + Total(u, (T \ {x}) \ {p})
    BY <1>6, <1>7, <1>9
  <2>3. (T \ {p}) \ {x} = (T \ {x}) \ {p}
    OBVIOUS
  <2>4. (T \ {p}) \ {x} \in SUBSET T /\ (T \ {p}) \ {x} # T
    BY <1>6
  <2>5. dx \in Int /\ dp \in Int /\ d \in Int
    BY <1>3, <1>6, <2>4
  <2>6. a = dp + b
    BY <1>6
  <2>7. c = dp + d
    BY <2>2, <2>3
  <2> HIDE DEF a, b, c, d, dx, dp
  <2>8. a = dx + c
    BY <2>1, <2>5, <2>6, <2>7
  <2> QED
    BY <2>8 DEF a, c, dx
<1> QED
  BY <1>3, <1>6, <1>8, <1>9
-----------------------------------------------------------------------------
(***************************************************************************)
(* The books balance                                                       *)
(***************************************************************************)
Applied(s) == {e \in Events : usage[e].spool = s /\ usage[e].status \in AppliedStates}

\* LedgerBalanced is inductive once a spool is known to be there before its
\* events are, so that a new one has none, and to have finitely many applied.
BalanceInv ==
  /\ \A e \in Events : usage[e].status # "none" => spool[usage[e].spool].row # "none"
  /\ \A s \in Spools : IsFiniteSet(Applied(s))
  /\ \A s \in Spools : spool[s].row # "none" =>
       spool[s].remaining = opening[s] + Total(usage, Applied(s))

LEMMA BalanceInit == Init => BalanceInv
<1> SUFFICES ASSUME Init PROVE BalanceInv
  OBVIOUS
<1>1. \A e \in Events : usage[e].status = "none"
  BY DEF Init, NoUsage
<1>2. \A s \in Spools : Applied(s) = {}
  BY <1>1 DEF Applied, AppliedStates
<1>3. \A s \in Spools : spool[s].row = "none"
  BY DEF Init, NoSpool
<1> QED
  BY <1>1, <1>2, <1>3, FS_EmptySet DEF BalanceInv

\* A step that changes no weight and no applied event.
LEMMA BalanceFrame ==
  ASSUME BalanceInv, UNCHANGED opening,
         \A s \in Spools :
           /\ spool'[s].row = "none" <=> spool[s].row = "none"
           /\ spool'[s].remaining = spool[s].remaining,
         \A e \in Events :
           /\ usage'[e].status # "none" => spool'[usage'[e].spool].row # "none"
           /\ usage'[e].status \in AppliedStates <=> usage[e].status \in AppliedStates
           /\ usage[e].status \in AppliedStates => usage'[e] = usage[e]
  PROVE  BalanceInv'
<1>1. \A s \in Spools : Applied(s)' = Applied(s)
  BY DEF Applied
<1>2. ASSUME NEW s \in Spools PROVE Total(usage', Applied(s)) = Total(usage, Applied(s))
  <2>1. IsFiniteSet(Applied(s)) /\ \A e \in Applied(s) : usage'[e].delta = usage[e].delta
    BY DEF Applied, BalanceInv
  <2> QED
    BY <2>1, TotalSame
<1> QED
  BY <1>1, <1>2 DEF BalanceInv

LEMMA BalanceCreate ==
  ASSUME TypeOK, BalanceInv, NEW s \in Spools, spool[s].row = "none",
         \A x \in Spools : x # s => spool'[x] = spool[x],
         spool'[s].row = "live", spool'[s].remaining \in Int,
         opening' = [opening EXCEPT ![s] = spool'[s].remaining], UNCHANGED usage
  PROVE  BalanceInv'
<1>1. \A x \in Spools : Applied(x)' = Applied(x)
  BY DEF Applied
<1>2. \A e \in Events : usage[e].status # "none" =>
        usage[e].spool \in Spools /\ usage[e].spool # s
  BY DEF TypeOK, BalanceInv
<1>3. Applied(s) = {}
  BY <1>2 DEF Applied, AppliedStates
<1>4. spool'[s].remaining = opening'[s] + Total(usage, Applied(s))
  BY <1>3, TotalEmpty DEF TypeOK
<1>5. \A x \in Spools : x # s => opening'[x] = opening[x]
  BY DEF TypeOK
<1> QED
  BY <1>1, <1>2, <1>4, <1>5 DEF BalanceInv

\* Posting: the weight and the sum change by the delta of the event.
LEMMA BalancePost ==
  ASSUME TypeOK, BalanceInv, NEW s \in Spools, NEW e \in Events, NEW delta \in Int,
         NEW before, NEW after, NEW status \in AppliedStates, spool[s].row = "live",
         Written(s, "live", spool[s].remaining + delta, spool[s].active_tag),
         usage[e].status \in {"none", "pending"},
         usage' = [usage EXCEPT ![e] = NewUsage(s, status, delta, before, after)],
         UNCHANGED opening
  PROVE  BalanceInv'
<1>1. /\ usage'[e].status = status
      /\ usage'[e].spool = s
      /\ usage'[e].delta = delta
      /\ \A f \in Events : f # e => usage'[f] = usage[f]
  BY DEF TypeOK, NewUsage
<1>2. /\ \A x \in Spools : x # s => spool'[x] = spool[x]
      /\ spool'[s].row = "live"
      /\ spool'[s].remaining = spool[s].remaining + delta
  BY DEF Written
<1>3. usage[e].status \notin AppliedStates
  BY DEF AppliedStates
<1>4. /\ Applied(s)' = Applied(s) \cup {e}
      /\ e \notin Applied(s)
      /\ \A x \in Spools : x # s => Applied(x)' = Applied(x)
  BY <1>1, <1>3 DEF Applied
<1>5. \A x \in Spools : IsFiniteSet(Applied(x)) /\ IsFiniteSet(Applied(x)')
  BY <1>4, FS_AddElement DEF BalanceInv
<1>6. ASSUME NEW x \in Spools PROVE Total(usage', Applied(x)) = Total(usage, Applied(x))
  <2>1. IsFiniteSet(Applied(x)) /\ \A f \in Applied(x) : usage'[f].delta = usage[f].delta
    BY <1>1, <1>3, <1>5 DEF Applied
  <2> QED
    BY ONLY <2>1, TotalSame
<1>7. Total(usage', Applied(s)') = delta + Total(usage, Applied(s))
  <2> DEFINE S == Applied(s)'
  <2>1. \A f \in S : usage'[f].delta \in Int
    BY <1>1 DEF TypeOK, UsageRow, Applied
  <2>2. IsFiniteSet(S) /\ e \in S /\ S \ {e} = Applied(s)
    BY <1>4, <1>5
  <2> HIDE DEF S
  <2>3. Total(usage', S) = usage'[e].delta + Total(usage', S \ {e})
    BY ONLY <2>1, <2>2, TotalRemove
  <2> QED
    BY <1>1, <1>6, <2>2, <2>3 DEF S
<1>8. Total(usage, Applied(s)) \in Int
  <2>1. \A f \in Applied(s) : usage[f].delta \in Int
    BY DEF Applied, TypeOK, UsageRow
  <2> QED
    BY <1>5, <2>1, TotalRemove
<1>9. spool'[s].remaining = opening'[s] + Total(usage', Applied(s)')
  <2>1. /\ spool[s].remaining = opening[s] + Total(usage, Applied(s))
        /\ opening[s] \in Int
    BY DEF BalanceInv, TypeOK
  <2> QED
    BY <1>2, <1>7, <1>8, <2>1
<1>10. \A x \in Spools : x # s /\ spool'[x].row # "none" =>
         spool'[x].remaining = opening'[x] + Total(usage', Applied(x)')
  BY <1>2, <1>4, <1>6 DEF BalanceInv
<1>11. \A f \in Events : usage'[f].status # "none" => spool'[usage'[f].spool].row # "none"
  <2>1. \A f \in Events : usage[f].status # "none" => usage[f].spool \in Spools
    BY DEF TypeOK
  <2> QED
    BY <1>1, <1>2, <2>1 DEF BalanceInv
<1> QED
  BY <1>5, <1>9, <1>10, <1>11 DEF BalanceInv

LEMMA BalanceStep ==
  ASSUME TypeOK, BalanceInv, [Next]_vars
  PROVE  BalanceInv'
<1>0. Grams \subseteq Int
  BY BoundAssumption DEF Grams
<1>1. ASSUME UNCHANGED <<usage, opening>>,
             \A s \in Spools :
               /\ spool'[s].row = "none" <=> spool[s].row = "none"
               /\ spool'[s].remaining = spool[s].remaining
      PROVE BalanceInv'
  <2>1. \A e \in Events : usage[e].status # "none" => spool'[usage[e].spool].row # "none"
    BY <1>1 DEF TypeOK, BalanceInv
  <2> QED
    BY <1>1, <2>1, BalanceFrame
<1>2. ASSUME NEW s \in Spools, NEW k \in Catalogs,
             NEW initial \in Grams, NEW remaining \in Grams,
             CreateSpool(s, k, initial, remaining)
      PROVE BalanceInv'
  <2>1. /\ spool[s].row = "none"
        /\ \A x \in Spools : x # s => spool'[x] = spool[x]
        /\ spool'[s].row = "live"
        /\ spool'[s].remaining = remaining
        /\ opening' = [opening EXCEPT ![s] = remaining]
        /\ UNCHANGED usage
    BY <1>2 DEF CreateSpool, TypeOK
  <2> QED
    BY <1>0, <2>1, BalanceCreate
<1>3. ASSUME NEW e \in Events, NEW c \in Clients, NEW s \in Spools, NEW w \in Grams,
             ManualAdjustment(c, s, e, w)
      PROVE BalanceInv'
  <2> DEFINE delta == w - spool[s].remaining
  <2>1. delta \in Int /\ spool[s].remaining + delta = w
    BY <1>0 DEF TypeOK, SpoolRow
  <2>2. /\ spool[s].row = "live" /\ usage[e].status = "none" /\ UNCHANGED opening
        /\ usage' = [usage EXCEPT ![e] =
                       NewUsage(s, "auto_approved", delta, spool[s].remaining, w)]
    BY <1>3 DEF ManualAdjustment, AdjustWeight, LiveSpool, InsertUsage
  <2>3. Written(s, "live", spool[s].remaining + delta, spool[s].active_tag)
    BY <1>3, <2>1, <2>2, ActionWritten
  <2>4. "auto_approved" \in AppliedStates
    BY DEF AppliedStates
  <2> HIDE DEF delta
  <2> QED
    BY <2>1, <2>2, <2>3, <2>4, BalancePost
<1>4. ASSUME NEW e \in Events, NEW c \in Clients, NEW d \in Int,
             NEW status \in {"approved", "edited"}, NEW checked \in BOOLEAN,
             ApplyUsageEvent(c, e, d, status, checked)
      PROVE BalanceInv'
  <2>0. status \in ReviewStates /\ status \in AppliedStates
    BY DEF ReviewStates, AppliedStates
  <2> PICK s \in Spools : s = usage[e].spool
    BY <1>4 DEF ApplyUsageEvent, TypeOK
  <2>1. /\ spool[s].row = "live" /\ usage[e].status = "pending" /\ UNCHANGED opening
        /\ usage' = [usage EXCEPT ![e] =
                       NewUsage(s, status, d, spool[s].remaining, spool[s].remaining + d)]
    BY <1>4 DEF ApplyUsageEvent, LiveSpool
  <2>2. Written(s, "live", spool[s].remaining + d, spool[s].active_tag)
    BY <1>4, <2>0, <2>1, ActionWritten
  <2> QED
    BY <2>0, <2>1, <2>2, BalancePost
<1>5. ASSUME NEW e \in Events, NEW c \in Clients, NEW checked \in BOOLEAN,
             \/ ApproveUsageEvent(c, e, checked)
             \/ \E d \in EditDeltas : EditAndApproveUsageEvent(c, e, d, checked)
      PROVE BalanceInv'
  <2>1. usage[e].delta \in Int /\ EditDeltas \subseteq Int
    BY BoundAssumption DEF UsageRow, TypeOK
  <2> QED
    BY <1>4, <1>5, <2>1 DEF ApproveUsageEvent, EditAndApproveUsageEvent
<1>6. ASSUME NEW e \in Events, NEW s \in Spools, NEW d \in Candidates,
             CreatePendingUsageEvent(s, e, d)
      PROVE BalanceInv'
  <2>1. /\ spool[s].row = "live" /\ usage[e].status = "none" /\ UNCHANGED <<spool, opening>>
        /\ usage'[e].status = "pending" /\ usage'[e].spool = s
        /\ \A f \in Events : f # e => usage'[f] = usage[f]
    BY <1>6 DEF CreatePendingUsageEvent, LiveSpool, InsertUsage, NewUsage, TypeOK
  <2>2. \A f \in Events : usage'[f].status # "none" => spool'[usage'[f].spool].row # "none"
    BY <2>1 DEF BalanceInv
  <2>3. \A f \in Events :
          /\ usage'[f].status \in AppliedStates <=> usage[f].status \in AppliedStates
          /\ usage[f].status \in AppliedStates => usage'[f] = usage[f]
    BY <2>1 DEF AppliedStates
  <2> QED
    BY <2>1, <2>2, <2>3, BalanceFrame
<1>7. ASSUME NEW e \in Events, RejectUsageEvent(e) PROVE BalanceInv'
  <2>1. /\ usage[e].status = "pending" /\ UNCHANGED <<spool, opening>>
        /\ usage'[e].status = "rejected" /\ usage'[e].spool = usage[e].spool
        /\ \A f \in Events : f # e => usage'[f] = usage[f]
    BY <1>7 DEF RejectUsageEvent, TypeOK, UsageRow
  <2>2. \A f \in Events : usage'[f].status # "none" => spool'[usage'[f].spool].row # "none"
    BY <2>1 DEF BalanceInv
  <2>3. \A f \in Events :
          /\ usage'[f].status \in AppliedStates <=> usage[f].status \in AppliedStates
          /\ usage[f].status \in AppliedStates => usage'[f] = usage[f]
    BY <2>1 DEF AppliedStates
  <2> QED
    BY <2>1, <2>2, <2>3, BalanceFrame
\* Writes of a spool that keep its weight.
<1>8. ASSUME NEW s \in Spools, NEW state \in {"live", "deleted"}, NEW t,
             spool[s].row = "live", Written(s, state, spool[s].remaining, t),
             UNCHANGED <<usage, opening>>
      PROVE BalanceInv'
  BY <1>1, <1>8 DEF Written
<1>9. ASSUME NEW s \in Spools, NEW c \in Clients, NEW k \in Catalogs,
             NEW initial \in Grams, UpdateSpool(c, s, k, initial)
      PROVE BalanceInv'
  BY <1>8, <1>9, ActionWritten DEF UpdateSpool, VersionMatches, LiveSpool
<1>10. ASSUME NEW s \in Spools, NEW c \in Clients, DeleteSpool(c, s) PROVE BalanceInv'
  BY <1>8, <1>10, ActionWritten DEF DeleteSpool, VersionMatches, LiveSpool
<1>11. ASSUME NEW t \in Tags, NEW c \in Clients, NEW s \in Spools, AssignNfcTag(c, s, t)
       PROVE BalanceInv'
  BY <1>8, <1>11, ActionWritten DEF AssignNfcTag, VersionMatches, LiveSpool
<1>12. ASSUME NEW t \in Tags, NEW v \in Versions, RetireTag(t, v) PROVE BalanceInv'
  <2> DEFINE s == tag[t].assigned_spool
  <2>1. UNCHANGED <<usage, opening>> /\ spool[s].row = "live" /\ s \in Spools
    BY <1>12, ActionWritten DEF RetireTag, LiveSpool
  <2>2. CASE spool[s].active_tag = t
    BY <1>8, <1>12, <2>1, <2>2, ActionWritten
  <2>3. CASE spool[s].active_tag # t
    BY <1>1, <1>12, <2>1, <2>3, ActionWritten
  <2> QED
    BY <2>2, <2>3
<1>13. CASE UNCHANGED <<spool, usage, opening>>
  BY <1>1, <1>13
<1> QED
  BY <1>2, <1>3, <1>5, <1>6, <1>7, <1>9, <1>10, <1>11, <1>12, <1>13
  DEF Next, CatalogNext, SpoolNext, UsageNext, TagNext, vars, CreateCatalogItem, ImportCatalogItems,
      UpdateCatalogItem, DeleteCatalogItem, FetchSpool, WritePayload, ScanTag, Tick
-----------------------------------------------------------------------------
(***************************************************************************)
(* Backups and restores                                                    *)
(***************************************************************************)

\* A client that fetched a spool since the last restore has seen a row that is
\* there, no newer than the table's; versions grow until the next restore.
FetchedInv ==
  \A c \in Clients : \A s \in fetched[c] :
    /\ spool[s].row # "none"
    /\ seen[c][s].version <= spool[s].version
    /\ seen[c][s].version = spool[s].version => seen[c][s] = spool[s]

LEMMA FetchedFetch ==
  ASSUME TypeOK, FetchedInv, fetched \in [Clients -> SUBSET Spools],
         NEW c \in Clients, NEW s \in Spools, Fetch(c, s)
  PROVE  FetchedInv'
<1>1. /\ UNCHANGED spool
      /\ spool[s].row # "none"
      /\ \A d \in Clients, x \in Spools :
           seen'[d][x] = IF d = c /\ x = s THEN spool[s] ELSE seen[d][x]
  BY DEF Fetch, FetchSpool, LiveSpool, TypeOK
<1>2. \A d \in Clients : fetched'[d] = IF d = c THEN fetched[d] \cup {s} ELSE fetched[d]
  BY DEF Fetch
<1>3. spool[s].version \in Nat
  BY DEF TypeOK, SpoolRow
<1>4. ASSUME NEW d \in Clients, NEW x \in fetched'[d]
      PROVE  /\ spool'[x].row # "none"
             /\ seen'[d][x].version <= spool'[x].version
             /\ seen'[d][x].version = spool'[x].version => seen'[d][x] = spool'[x]
  <2>1. CASE d = c /\ x = s
    BY <1>1, <1>3, <2>1
  <2>2. CASE ~(d = c /\ x = s)
    <3>1. x \in fetched[d] /\ x \in Spools
      BY <1>2, <1>4, <2>2
    <3>2. seen'[d][x] = seen[d][x]
      BY <1>1, <2>2, <3>1
    <3> QED
      BY <1>1, <3>1, <3>2 DEF FetchedInv
  <2> QED
    BY <2>1, <2>2
<1> QED
  BY <1>4 DEF FetchedInv

LEMMA FetchedRequest ==
  ASSUME TypeOK, FetchedInv, fetched \in [Clients -> SUBSET Spools],
         [Next]_vars, UNCHANGED <<seen, fetched>>
  PROVE  FetchedInv'
<1>0. /\ \A s \in Spools : spool[s].version \in Nat
      /\ \A c \in Clients, s \in Spools : seen[c][s].version \in Nat
  BY DEF TypeOK, SpoolRow
<1>1. CASE UNCHANGED spool
  BY <1>1 DEF FetchedInv
<1>2. ASSUME NEW s \in Spools, Created(s) PROVE FetchedInv'
  <2>1. \A c \in Clients : s \notin fetched[c]
    BY <1>2 DEF FetchedInv, Created
  <2> QED
    BY <1>2, <2>1 DEF FetchedInv, Created
<1>3. ASSUME NEW s \in Spools, Rewritten(s) PROVE FetchedInv'
  <2>1. \A c \in Clients : s \in fetched[c] => seen[c][s].version < spool'[s].version
    BY <1>0, <1>3 DEF FetchedInv, Rewritten
  <2>2. spool'[s].version \in Nat
    BY <1>0, <1>3 DEF Rewritten
  <2>3. ASSUME NEW c \in Clients, NEW x \in fetched[c]
        PROVE  /\ spool'[x].row # "none"
               /\ seen[c][x].version <= spool'[x].version
               /\ seen[c][x].version = spool'[x].version => seen[c][x] = spool'[x]
    <3>1. CASE x = s
      BY <1>0, <1>3, <2>1, <2>2, <2>3, <3>1 DEF Rewritten
    <3>2. CASE x # s
      BY <1>3, <2>3, <3>2 DEF Rewritten, FetchedInv
    <3> QED
      BY <3>1, <3>2
  <2> QED
    BY <2>3 DEF FetchedInv
<1> QED
  BY <1>1, <1>2, <1>3, SpoolSteps DEF FetchSpool

\* What the foreign keys ask, table by table.
Items == {k \in Catalogs : catalog[k].row # "none"}
Stored == {s \in Spools : spool[s].row # "none"}

SpoolKeys == \A s \in Stored : spool[s].catalog \in Items
TagKeys == \A t \in Tags : tag[t].status # "none" => tag[t].assigned_spool \in Stored
SlotKeys == \A x \in Slots : slot[x].mapped_spool \in Stored \cup {Null}

\* No row is ever removed but by a restore.
LEMMA RowsKept ==
  ASSUME TypeOK, [Next]_vars
  PROVE  Items \subseteq Items' /\ Stored \subseteq Stored'
<1>1. Items \subseteq Items'
  <2>1. ASSUME NEW new \in SUBSET Catalogs, ImportCatalogItems(new)
        PROVE Items \subseteq Items'
    BY <2>1 DEF ImportCatalogItems, Items
  <2>2. ASSUME NEW k \in Catalogs, CreateCatalogItem(k) PROVE Items \subseteq Items'
    <3>1. {k} \in SUBSET Catalogs
      OBVIOUS
    <3> QED
      BY <2>1, <2>2, <3>1 DEF CreateCatalogItem
  <2>3. ASSUME NEW k \in Catalogs, NEW v \in Versions,
               UpdateCatalogItem(k, v) \/ DeleteCatalogItem(k, v)
        PROVE Items \subseteq Items'
    <3>1. catalog[k] \in CatalogRow /\ catalog[k].row = "live"
      BY <2>3 DEF UpdateCatalogItem, DeleteCatalogItem, LiveCatalog, TypeOK
    <3>2. catalog'[k].row # "none" /\ \A i \in Catalogs : i # k => catalog'[i] = catalog[i]
      BY <2>3, <3>1 DEF UpdateCatalogItem, DeleteCatalogItem, TypeOK, CatalogRow
    <3> QED
      BY <3>2 DEF Items
  <2>4. CASE UNCHANGED catalog
    BY <2>4 DEF Items
  <2>5. SpoolNext \/ UsageNext \/ TagNext \/ Tick => UNCHANGED catalog
    BY DEF SpoolNext, UsageNext, TagNext, Tick, CreateSpool, FetchSpool, UpdateSpool,
           DeleteSpool, ManualAdjustment, AdjustWeight, CreatePendingUsageEvent,
           ApproveUsageEvent, EditAndApproveUsageEvent, ApplyUsageEvent, RejectUsageEvent,
           AssignNfcTag, WritePayload, ScanTag, RetireTag
  <2> QED
    BY <2>1, <2>2, <2>3, <2>4, <2>5 DEF Next, CatalogNext, vars
<1>2. Stored \subseteq Stored'
  BY SpoolSteps DEF Stored, Created, Rewritten, FetchSpool
<1> QED
  BY <1>1, <1>2

\* A write of a spool that names no other catalog item.
LEMMA KeepsCatalog ==
  ASSUME TypeOK, NEW s \in Spools, NEW row, WriteSpool(s, row), row.catalog = spool[s].catalog,
         row \in SpoolRow
  PROVE  \A x \in Spools : spool'[x].catalog = spool[x].catalog
<1>1. spool'[s].catalog = row.catalog
  BY DEF WriteSpool, TypeOK, SpoolRow
<1>2. \A x \in Spools : x # s => spool'[x] = spool[x]
  BY DEF WriteSpool, TypeOK
<1> QED
  BY <1>1, <1>2

LEMMA PatchesKeepCatalog ==
  ASSUME TypeOK, NEW s \in Spools, spool[s].row = "live",
         \/ \E w \in Int : WriteSpool(s, [spool[s] EXCEPT !.remaining = w])
         \/ \E t \in Tags \cup {Null} : WriteSpool(s, [spool[s] EXCEPT !.active_tag = t])
         \/ WriteSpool(s, [spool[s] EXCEPT !.row = "deleted", !.active_tag = Null])
  PROVE  /\ \A x \in Spools : spool'[x].catalog = spool[x].catalog
         /\ Stored' = Stored
<1>0. spool[s] \in SpoolRow /\ "deleted" \in RowStates
  BY DEF TypeOK, RowStates
<1>1. \E row \in SpoolRow :
        WriteSpool(s, row) /\ row.catalog = spool[s].catalog /\ row.row # "none"
  <2>1. ASSUME NEW w \in Int, WriteSpool(s, [spool[s] EXCEPT !.remaining = w])
        PROVE  \E row \in SpoolRow :
                 WriteSpool(s, row) /\ row.catalog = spool[s].catalog /\ row.row # "none"
    <3> DEFINE new == [spool[s] EXCEPT !.remaining = w]
    <3>1. new \in SpoolRow /\ new.catalog = spool[s].catalog /\ new.row = "live"
      BY <1>0 DEF SpoolRow
    <3>2. WriteSpool(s, new)
      BY <2>1
    <3> HIDE DEF new
    <3> QED
      BY <3>1, <3>2
  <2>2. ASSUME NEW t \in Tags \cup {Null}, WriteSpool(s, [spool[s] EXCEPT !.active_tag = t])
        PROVE  \E row \in SpoolRow :
                 WriteSpool(s, row) /\ row.catalog = spool[s].catalog /\ row.row # "none"
    <3> DEFINE new == [spool[s] EXCEPT !.active_tag = t]
    <3>1. new \in SpoolRow /\ new.catalog = spool[s].catalog /\ new.row = "live"
      BY <1>0 DEF SpoolRow
    <3>2. WriteSpool(s, new)
      BY <2>2
    <3> HIDE DEF new
    <3> QED
      BY <3>1, <3>2
  <2>3. CASE WriteSpool(s, [spool[s] EXCEPT !.row = "deleted", !.active_tag = Null])
    <3> DEFINE new == [spool[s] EXCEPT !.row = "deleted", !.active_tag = Null]
    <3>1. new \in SpoolRow /\ new.catalog = spool[s].catalog /\ new.row = "deleted"
      BY <1>0 DEF SpoolRow
    <3>2. WriteSpool(s, new)
      BY <2>3
    <3> HIDE DEF new
    <3> QED
      BY <3>1, <3>2
  <2> QED
    BY <2>1, <2>2, <2>3
<1>2. \A x \in Spools : spool'[x].catalog = spool[x].catalog
  BY <1>1, KeepsCatalog
<1>3. spool'[s].row # "none" /\ \A x \in Spools : x # s => spool'[x] = spool[x]
  BY <1>1, WriteSpoolEffect DEF Written
<1> QED
  BY <1>2, <1>3 DEF Stored

LEMMA SpoolKeysStep ==
  ASSUME TypeOK, SpoolKeys, [Next]_vars
  PROVE  SpoolKeys'
<1>0. Items \subseteq Items' /\ Grams \subseteq Int
  BY RowsKept, BoundAssumption DEF Grams
<1>1. ASSUME \A x \in Spools : spool'[x].catalog = spool[x].catalog, Stored' = Stored
      PROVE SpoolKeys'
  BY <1>0, <1>1 DEF SpoolKeys, Stored
<1>2. CASE UNCHANGED spool
  BY <1>1, <1>2 DEF Stored
<1>3. ASSUME NEW s \in Spools, NEW k \in Catalogs,
             NEW initial \in Grams, NEW remaining \in Grams,
             CreateSpool(s, k, initial, remaining)
      PROVE SpoolKeys'
  <2>1. /\ spool'[s].catalog = k
        /\ k \in Items
        /\ \A x \in Spools : x # s => spool'[x] = spool[x]
    BY <1>3 DEF CreateSpool, LiveCatalog, Items, TypeOK
  <2> QED
    BY <1>0, <2>1 DEF SpoolKeys, Stored
<1>4. ASSUME NEW s \in Spools, NEW c \in Clients, NEW k \in Catalogs,
             NEW initial \in Grams, UpdateSpool(c, s, k, initial)
      PROVE SpoolKeys'
  <2>1. spool'[s].catalog = k
    BY <1>4 DEF UpdateSpool, WriteSpool, TypeOK, SpoolRow
  <2>2. k \in Items /\ \A x \in Spools : x # s => spool'[x] = spool[x]
    BY <1>4 DEF UpdateSpool, WriteSpool, Items, TypeOK
  <2> QED
    BY <1>0, <2>1, <2>2 DEF SpoolKeys, Stored
<1>5. ASSUME NEW s \in Spools, NEW c \in Clients, DeleteSpool(c, s) PROVE SpoolKeys'
  BY <1>1, <1>5, PatchesKeepCatalog DEF DeleteSpool, VersionMatches, LiveSpool
<1>6. ASSUME NEW e \in Events, NEW c \in Clients, NEW s \in Spools, NEW w \in Grams,
             ManualAdjustment(c, s, e, w)
      PROVE SpoolKeys'
  BY <1>0, <1>1, <1>6, PatchesKeepCatalog DEF ManualAdjustment, AdjustWeight, LiveSpool
<1>7. ASSUME NEW e \in Events, NEW c \in Clients, NEW d \in Int, NEW status,
             NEW checked \in BOOLEAN, ApplyUsageEvent(c, e, d, status, checked)
      PROVE SpoolKeys'
  <2> PICK s \in Spools : s = usage[e].spool
    BY <1>7 DEF ApplyUsageEvent, TypeOK
  <2>1. spool[s].remaining + d \in Int
    BY DEF TypeOK, SpoolRow
  <2> QED
    BY <1>1, <1>7, <2>1, PatchesKeepCatalog DEF ApplyUsageEvent, LiveSpool
<1>8. ASSUME NEW e \in Events, NEW c \in Clients, NEW checked \in BOOLEAN,
             \/ ApproveUsageEvent(c, e, checked)
             \/ \E d \in EditDeltas : EditAndApproveUsageEvent(c, e, d, checked)
      PROVE SpoolKeys'
  <2>1. usage[e].delta \in Int /\ EditDeltas \subseteq Int
    BY BoundAssumption DEF UsageRow, TypeOK
  <2> QED
    BY <1>7, <1>8, <2>1 DEF ApproveUsageEvent, EditAndApproveUsageEvent
<1>9. ASSUME NEW t \in Tags, NEW c \in Clients, NEW s \in Spools, AssignNfcTag(c, s, t)
      PROVE SpoolKeys'
  BY <1>1, <1>9, PatchesKeepCatalog DEF AssignNfcTag, VersionMatches, LiveSpool
<1>10. ASSUME NEW t \in Tags, NEW v \in Versions, RetireTag(t, v) PROVE SpoolKeys'
  <2> PICK s \in Spools : s = tag[t].assigned_spool
    BY <1>10 DEF RetireTag, TypeOK
  <2>1. CASE UNCHANGED spool
    BY <1>2, <2>1
  <2>2. CASE WriteSpool(s, [spool[s] EXCEPT !.active_tag = Null])
    BY <1>1, <1>10, <2>2, PatchesKeepCatalog DEF RetireTag, LiveSpool
  <2> QED
    BY <1>10, <2>1, <2>2 DEF RetireTag
<1> QED
  BY <1>2, <1>3, <1>4, <1>5, <1>6, <1>8, <1>9, <1>10
  DEF Next, CatalogNext, SpoolNext, UsageNext, TagNext, vars, CreateCatalogItem, ImportCatalogItems,
      UpdateCatalogItem, DeleteCatalogItem, FetchSpool, CreatePendingUsageEvent, RejectUsageEvent,
      WritePayload, ScanTag, Tick

\* A tag keeps the spool it points at, or gets one that is live.
LEMMA TagKeysStep ==
  ASSUME TypeOK, ActiveTagsAgree, TagKeys, [Next]_vars
  PROVE  TagKeys'
<1>0. Stored \subseteq Stored'
  BY RowsKept
<1>1. ASSUME \A t \in Tags :
               tag'[t].status # "none" =>
                 \/ (tag[t].status # "none" /\ tag'[t].assigned_spool = tag[t].assigned_spool)
                 \/ tag'[t].assigned_spool \in Stored
      PROVE TagKeys'
  BY <1>0, <1>1 DEF TagKeys
<1>2. CASE UNCHANGED tag
  BY <1>1, <1>2
<1>3. ASSUME NEW s \in Spools, NEW c \in Clients, DeleteSpool(c, s) PROVE TagKeys'
  <2>1. \A t \in Tags : \/ tag'[t] = tag[t]
                        \/ (tag[t].status # "none" /\ tag'[t] = SetStatus(tag[t], "retired"))
    BY <1>3 DEF DeleteSpool, TypeOK
  <2>2. \A t \in Tags : tag[t] \in TagRow
    BY DEF TypeOK
  <2> QED
    BY <1>1, <2>1, <2>2, TagWrites DEF TagStates
<1>4. ASSUME NEW t \in Tags, NEW c \in Clients, NEW s \in Spools, AssignNfcTag(c, s, t)
      PROVE TagKeys'
  <2>1. s \in Stored
    BY <1>4 DEF AssignNfcTag, VersionMatches, LiveSpool, Stored
  <2>2. \A u \in Tags : tag[u] \in TagRow
    BY DEF TypeOK
  <2>3. tag'[t].assigned_spool = s
    BY <1>4, <2>2, TagWrites DEF AssignNfcTag
  <2>4. ASSUME NEW u \in Tags, u # t
        PROVE  \/ tag'[u] = tag[u]
               \/ (tag[u].status # "none" /\ tag'[u] = SetStatus(tag[u], "retired"))
    <3>1. CASE u = spool[s].active_tag
      <4>1. tag[u].status # "none"
        BY <3>1, NullAssumption DEF ActiveTagsAgree, ActiveTagStates
      <4> QED
        BY <1>4, <2>4, <3>1, <4>1 DEF AssignNfcTag
    <3>2. CASE u # spool[s].active_tag
      BY <1>4, <2>4, <3>2 DEF AssignNfcTag
    <3> QED
      BY <3>1, <3>2
  <2> QED
    BY <1>1, <2>1, <2>2, <2>3, <2>4, TagWrites DEF TagStates
<1>5. ASSUME NEW t \in Tags,
             \/ \E c \in Clients, s \in Spools, force \in BOOLEAN : WritePayload(c, s, t, force)
             \/ ScanTag(t)
             \/ \E v \in Versions : RetireTag(t, v)
      PROVE TagKeys'
  <2>1. tag[t].status # "none" /\ tag[t] \in TagRow /\ clock \in Nat
    BY <1>5 DEF WritePayload, ScanTag, RetireTag, TypeOK
  <2>2. PICK row \in TagRow : tag' = [tag EXCEPT ![t] = row]
                              /\ row.assigned_spool = tag[t].assigned_spool
    <3>1. \/ tag' = [tag EXCEPT ![t] = MarkWritten(tag[t], clock)]
          \/ \E st \in TagStates : tag' = [tag EXCEPT ![t] = SetStatus(tag[t], st)]
      BY <1>5 DEF WritePayload, ScanTag, RetireTag, ScannedStatus, TagStates
    <3> QED
      BY <2>1, <3>1, TagWrites
  <2> QED
    BY <1>1, <2>1, <2>2 DEF TypeOK
<1> QED
  BY <1>2, <1>3, <1>4, <1>5
  DEF Next, CatalogNext, SpoolNext, UsageNext, TagNext, vars, CreateCatalogItem, ImportCatalogItems,
      UpdateCatalogItem, DeleteCatalogItem, CreateSpool, FetchSpool, UpdateSpool,
      ManualAdjustment, AdjustWeight, CreatePendingUsageEvent, ApproveUsageEvent,
      EditAndApproveUsageEvent, ApplyUsageEvent, RejectUsageEvent, Tick

LEMMA SlotKeysStep ==
  ASSUME TypeOK, SlotKeys, [Next]_vars
  PROVE  SlotKeys'
<1>0. Stored \subseteq Stored'
  BY RowsKept
<1>1. \A x \in Slots : slot'[x] = slot[x] \/ slot'[x] = Unmap(slot[x])
  BY DEF Next, CatalogNext, SpoolNext, UsageNext, TagNext, vars, CreateCatalogItem,
         ImportCatalogItems, UpdateCatalogItem, DeleteCatalogItem, CreateSpool, FetchSpool,
         UpdateSpool, DeleteSpool, ManualAdjustment, AdjustWeight, CreatePendingUsageEvent,
         ApproveUsageEvent, EditAndApproveUsageEvent, ApplyUsageEvent, RejectUsageEvent,
         AssignNfcTag, WritePayload, ScanTag, RetireTag, Tick
<1>2. \A x \in Slots : Unmap(slot[x]).mapped_spool = Null
  BY DEF Unmap, TypeOK, SlotRow
<1> QED
  BY <1>0, <1>1, <1>2 DEF SlotKeys
-----------------------------------------------------------------------------
\* What a backup must be for a restore of it to leave tables as a server's own
\* requests do: BalanceInv, ActiveTagsAgree and PendingIsUse of the tables in it.
RowsNamed(u, t) ==
  /\ \A e \in Events : u[e].status # "none" <=> u[e].spool \in Spools
  /\ \A x \in Tags : t[x].status # "none" <=> t[x].assigned_spool \in Spools

TagsOf(p, t) ==
  /\ \A s \in Spools : p[s].active_tag # Null =>
       /\ t[p[s].active_tag].status \in ActiveTagStates
       /\ t[p[s].active_tag].assigned_spool = s
  /\ \A x \in Tags : t[x].status \in ActiveTagStates =>
       /\ p[t[x].assigned_spool].row = "live"
       /\ p[t[x].assigned_spool].active_tag = x

AppliedOf(u, s) == {e \in Events : u[e].spool = s /\ u[e].status \in AppliedStates}

Books(p, u, o) ==
  /\ \A e \in Events : u[e].status # "none" => p[u[e].spool].row # "none"
  /\ \A s \in Spools : IsFiniteSet(AppliedOf(u, s))
  /\ \A s \in Spools : p[s].row # "none" => p[s].remaining = o[s] + Total(u, AppliedOf(u, s))

Sound(b) ==
  /\ b \in Snapshots
  /\ RowsNamed(b.usage, b.tag)
  /\ TagsOf(b.spool, b.tag)
  /\ Books(b.spool, b.usage, b.opening)
  /\ \A e \in Events : b.usage[e].status = "pending" => b.usage[e].delta <= 0
  /\ ForeignKeys(b)

\* The tables with their foreign keys.
TablesInv ==
  TypeOK /\ ActiveTagsAgree /\ BalanceInv /\ PendingIsUse /\ ForeignKeys(Tables)

LEMMA KeysByTable ==
  ASSUME TypeOK, BalanceInv
  PROVE  ForeignKeys(Tables) <=> SpoolKeys /\ TagKeys /\ SlotKeys
<1>1. \A e \in Events : usage[e].status # "none" => usage[e].spool \in Stored
  BY DEF TypeOK, BalanceInv, Stored
<1> QED
  BY <1>1 DEF ForeignKeys, Tables, SpoolKeys, TagKeys, SlotKeys, Items, Stored

LEMMA KeysByTablePrime ==
  ASSUME TypeOK', BalanceInv'
  PROVE  ForeignKeys(Tables)' <=> SpoolKeys' /\ TagKeys' /\ SlotKeys'
<1>1. \A e \in Events : usage'[e].status # "none" => usage'[e].spool \in Stored'
  BY DEF TypeOK, BalanceInv, Stored
<1> QED
  BY <1>1 DEF ForeignKeys, Tables, SpoolKeys, TagKeys, SlotKeys, Items, Stored

LEMMA TablesInit == Init => TablesInv
<1> SUFFICES ASSUME Init PROVE TablesInv
  OBVIOUS
<1>1. TypeOK /\ ActiveTagsAgree /\ BalanceInv
  BY TypeInit, AgreeInit, BalanceInit
<1>2. Stored = {} /\ SlotKeys /\ TagKeys
  BY DEF Init, NoSpool, NoSlot, NoTag, Stored, SlotKeys, TagKeys
<1>3. PendingIsUse
  BY DEF Init, NoUsage, PendingIsUse
<1> QED
  BY <1>1, <1>2, <1>3, KeysByTable DEF TablesInv, SpoolKeys

LEMMA TablesStep == TablesInv /\ [Next]_vars => TablesInv'
<1> SUFFICES ASSUME TablesInv, [Next]_vars PROVE TablesInv'
  OBVIOUS
<1>1. TypeOK' /\ ActiveTagsAgree' /\ BalanceInv' /\ PendingIsUse'
  BY TypeStep, AgreeStep, BalanceStep, PendingIsUseStep DEF TablesInv
<1>2. SpoolKeys /\ TagKeys /\ SlotKeys
  BY KeysByTable DEF TablesInv
<1>3. SpoolKeys' /\ TagKeys' /\ SlotKeys'
  BY <1>2, SpoolKeysStep, TagKeysStep, SlotKeysStep DEF TablesInv
<1> QED
  BY <1>1, <1>3, KeysByTablePrime DEF TablesInv

\* A backup taken of sound tables is sound.
LEMMA TakenSound == TablesInv => Sound(Tables)
<1> SUFFICES ASSUME TablesInv PROVE Sound(Tables)
  OBVIOUS
<1>1. Tables \in Snapshots
  BY DEF TablesInv, TypeOK, Tables, Snapshots
<1>2. RowsNamed(usage, tag)
  BY DEF TablesInv, TypeOK, RowsNamed
<1>3. TagsOf(spool, tag)
  BY DEF TablesInv, ActiveTagsAgree, TagsOf, LiveSpool
<1>4. \A s \in Spools : Applied(s) = AppliedOf(usage, s)
  BY DEF Applied, AppliedOf
<1>5. Books(spool, usage, opening)
  BY <1>4 DEF TablesInv, BalanceInv, Books
<1>6. /\ Tables.spool = spool
      /\ Tables.usage = usage
      /\ Tables.tag = tag
      /\ Tables.opening = opening
  BY DEF Tables
<1> QED
  BY <1>1, <1>2, <1>3, <1>5, <1>6 DEF Sound, TablesInv, PendingIsUse

\* The restore of a sound backup leaves sound tables.
LEMMA RestoredSound ==
  ASSUME TablesInv, NEW b, Sound(b), Restore(b)
  PROVE  TablesInv'
<1>1. /\ catalog' = b.catalog /\ spool' = b.spool /\ usage' = b.usage /\ tag' = b.tag
      /\ slot' = b.slot /\ opening' = b.opening /\ clock' = clock /\ seen' = seen
  BY DEF Restore
<1>2. TypeOK'
  <2>1. RowsNamed(usage', tag')
    BY <1>1 DEF Sound
  <2>2. /\ catalog' \in [Catalogs -> CatalogRow]
        /\ spool' \in [Spools -> SpoolRow]
        /\ usage' \in [Events -> UsageRow]
        /\ tag' \in [Tags -> TagRow]
        /\ slot' \in [Slots -> SlotRow]
        /\ opening' \in [Spools -> Int]
    BY <1>1 DEF Sound, Snapshots
  <2> QED
    BY <1>1, <2>1, <2>2 DEF TypeOK, RowsNamed, TablesInv
<1>3. ActiveTagsAgree'
  <2>1. TagsOf(spool', tag')
    BY <1>1 DEF Sound
  <2> QED
    BY <2>1 DEF TagsOf, ActiveTagsAgree, LiveSpool
<1>4. BalanceInv'
  <2>1. Books(spool', usage', opening')
    BY <1>1 DEF Sound
  <2>2. \A s \in Spools : Applied(s)' = AppliedOf(usage', s)
    BY DEF Applied, AppliedOf
  <2> QED
    BY <2>1, <2>2 DEF Books, BalanceInv
<1>5. ForeignKeys(Tables)'
  <2>1. Tables' = b
    BY <1>1 DEF Tables, Sound, Snapshots
  <2>2. ForeignKeys(Tables')
    BY <2>1 DEF Sound
  <2> QED
    BY <2>2 DEF ForeignKeys
<1>6. PendingIsUse'
  BY <1>1 DEF Sound, PendingIsUse
<1> QED
  BY <1>2, <1>3, <1>4, <1>5, <1>6 DEF TablesInv

\* The tables and every backup of them are sound, and what the clients fetched
\* since the last restore is not newer than the tables.
RestoreInv ==
  /\ TablesInv
  /\ RemainingNonNegative
  /\ \A b \in backups : Sound(b)
  /\ fetched \in [Clients -> SUBSET Spools]
  /\ Present(Tables) \subseteq issued
  /\ \A b \in backups : Present(b) \subseteq issued
  /\ FetchedInv

LEMMA RestoreInitInv == RestoreInit => RestoreInv
<1> SUFFICES ASSUME RestoreInit PROVE RestoreInv
  OBVIOUS
<1>1. TablesInv
  BY TablesInit DEF RestoreInit
<1>2. Present(Tables) = {}
  BY DEF RestoreInit, Init, Present, Tables, NoCatalog, NoSpool, NoUsage
<1>3. RemainingNonNegative
  BY DEF RestoreInit, Init, RemainingNonNegative, NoSpool
<1> QED
  BY <1>1, <1>2, <1>3 DEF RestoreInit, RestoreInv, FetchedInv

LEMMA RestoreStep == RestoreInv /\ [RestoreNext]_restoreVars => RestoreInv'
<1> SUFFICES ASSUME RestoreInv, [RestoreNext]_restoreVars PROVE RestoreInv'
  OBVIOUS
<1>0. TypeOK /\ fetched \in [Clients -> SUBSET Spools]
  BY DEF RestoreInv, TablesInv
<1>1. ASSUME NEW c \in Clients, NEW s \in Spools, Fetch(c, s) PROVE RestoreInv'
  <2>1. Next
    BY <1>1 DEF Fetch, Next, SpoolNext
  <2>2. TablesInv' /\ FetchedInv' /\ RemainingNonNegative'
    BY <1>0, <1>1, <2>1, TablesStep, FetchedFetch, NonNegativeStep DEF RestoreInv
  <2>3. Tables' = Tables
    BY <1>1 DEF Fetch, FetchSpool, Tables
  <2>4. Present(Tables)' = Present(Tables) /\ \A b \in backups : Present(b)' = Present(b)
    BY <2>3 DEF Present
  <2> QED
    BY <1>0, <1>1, <2>2, <2>4 DEF RestoreInv, Fetch
<1>2. CASE Request
  <2>1. TablesInv' /\ FetchedInv' /\ RemainingNonNegative'
    BY <1>0, <1>2, TablesStep, FetchedRequest, NonNegativeStep DEF RestoreInv, Request
  <2> QED
    BY <1>2, <2>1 DEF RestoreInv, Request, Present
<1>3. CASE BackUp
  <2>1. \A b \in backups' : b \in backups \/ b = Tables
    BY <1>3 DEF BackUp
  <2>2. \A b \in backups' : Sound(b)
    BY <2>1, TakenSound DEF RestoreInv
  <2>3. UNCHANGED <<vars, fetched, issued>>
    BY <1>3 DEF BackUp
  <2>4. TablesInv'
    BY <2>3, TablesStep DEF RestoreInv
  <2> QED
    BY <2>1, <2>2, <2>3, <2>4
    DEF RestoreInv, FetchedInv, RemainingNonNegative, Present, Tables, vars
<1>4. ASSUME NEW b \in backups, Restore(b) PROVE RestoreInv'
  <2>1. TablesInv'
    BY <1>4, RestoredSound DEF RestoreInv
  <2>2. FetchedInv' /\ fetched' \in [Clients -> SUBSET Spools]
    BY <1>4 DEF Restore, FetchedInv
  <2>3. Tables' = b
    BY <1>4 DEF Restore, Tables, RestoreInv, Sound, Snapshots
  <2>4. RemainingNonNegative'
    BY <1>4, BoundAssumption DEF Restore, Restorable, RemainingNonNegative, Grams
  <2> QED
    BY <1>4, <2>1, <2>2, <2>3, <2>4 DEF RestoreInv, Restore, Present
<1>5. CASE UNCHANGED restoreVars
  <2>1. TablesInv'
    BY <1>5, TablesStep DEF restoreVars, RestoreInv
  <2> QED
    BY <1>5, <2>1
    DEF restoreVars, RestoreInv, FetchedInv, RemainingNonNegative, Present, Tables, vars
<1> QED
  BY <1>1, <1>2, <1>3, <1>4, <1>5 DEF RestoreNext

LEMMA RestoreInvariant == RestoreSpec => []RestoreInv
BY RestoreInitInv, RestoreStep, PTL DEF RestoreSpec

\* Types and foreign keys of the tables and of every backup, in every reachable
\* state: a backup has every row that its other rows refer to.
THEOREM BackupTypes == RestoreSpec => []RestoreTypeOK
<1>1. RestoreInv => RestoreTypeOK
  BY DEF RestoreInv, RestoreTypeOK, TablesInv, Sound
<1> QED
  BY <1>1, RestoreInvariant, PTL

\* Optimistic concurrency is sound from one restore to the next, for any number of
\* clients, spools, backups and restores: a client that has fetched a spool since
\* and sends its current version was shown the row in the table.
THEOREM UpdatesNotLost == RestoreSpec => []NoLostUpdateSinceRestore
<1>1. RestoreInv => NoLostUpdateSinceRestore
  BY DEF RestoreInv, FetchedInv, NoLostUpdateSinceRestore
<1> QED
  BY <1>1, RestoreInvariant, PTL

\* Weight changes are event-backed for any numbers of spools, events and restores:
\* the remaining weight is the opening weight plus the deltas of the applied events
\* (manualAdjustment, applyUsageEvent, restoreExportSnapshot).
THEOREM BooksBalance == RestoreSpec => []LedgerBalanced
<1>1. RestoreInv => LedgerBalanced
  BY DEF RestoreInv, TablesInv, BalanceInv, LedgerBalanced, Applied, Total
<1> QED
  BY <1>1, RestoreInvariant, PTL

\* Whatever requests and restores are made, in whatever order, active tags and
\* assigned spools agree: no spool has two tags in use, no tag in use has a deleted
\* spool (assignNfcTag, retireTag, deleteSpool, restoreExportSnapshot).
THEOREM TagsAgree == RestoreSpec => []ActiveTagsAgree
<1>1. RestoreInv => ActiveTagsAgree
  BY DEF RestoreInv, TablesInv
<1> QED
  BY <1>1, RestoreInvariant, PTL

\* No sequence of requests and restores whose weights gramsSchema has passed makes a
\* remaining weight negative; OfflineSync has the route that does not look.
THEOREM WeightsNonNegative == RestoreSpec => []RemainingNonNegative
<1>1. RestoreInv => RemainingNonNegative
  BY DEF RestoreInv
<1> QED
  BY <1>1, RestoreInvariant, PTL

\* A step is a restore, a request of the inventory, or leaves its tables alone.
LEMMA RequestOrRestore ==
  ASSUME [RestoreNext]_restoreVars
  PROVE  \/ Restoring
         \/ [Next]_vars /\ UNCHANGED backups
         \/ BackUp /\ UNCHANGED vars
<1>1. ASSUME NEW c \in Clients, NEW s \in Spools, Fetch(c, s)
      PROVE  Next /\ UNCHANGED backups
  BY <1>1 DEF Fetch, Next, SpoolNext
<1>2. ASSUME Request PROVE Next /\ UNCHANGED backups
  BY <1>2 DEF Request
<1>3. ASSUME BackUp PROVE UNCHANGED vars
  BY <1>3 DEF BackUp
<1>4. ASSUME UNCHANGED restoreVars PROVE UNCHANGED <<vars, backups>>
  BY <1>4 DEF restoreVars
<1> QED
  BY <1>1, <1>2, <1>3, <1>4 DEF RestoreNext, Restoring

\* A deleted spool is never written again, and the row of an applied or rejected
\* event never changes, but by a restore.
THEOREM HistoryKept == RestoreSpec => History
<1> DEFINE Allowed == \/ Restoring
                      \/ RecordsKept
<1>1. ASSUME RestoreInv, [RestoreNext]_restoreVars
      PROVE  Allowed
  <2>1. TypeOK
    BY <1>1 DEF RestoreInv, TablesInv
  <2> QED
    BY <1>1, <2>1, RequestOrRestore, RecordsKeptStep
<1>2. RestoreInv /\ [RestoreNext]_restoreVars => [Allowed]_vars
  BY <1>1
<1> HIDE DEF Allowed
<1>3. RestoreSpec => [][Allowed]_vars
  BY <1>2, RestoreInvariant, PTL DEF RestoreSpec
<1> QED
  BY <1>3 DEF History, Allowed, RecordsKept

\* Adjustments, approvals and patches never lift a spool over its initial weight,
\* in any order; an edited event does, by a positive delta, and a restore of what it
\* did (assertSpoolWeightInvariant, editAndApproveUsageEvent).
THEOREM OnlyEditsExceed == RestoreSpec => OnlyEditsExceedInitial
<1> DEFINE Allowed == \/ Restoring
                      \/ OnlyEditsLift
<1>1. ASSUME RestoreInv, [RestoreNext]_restoreVars
      PROVE  Allowed
  <2>1. TypeOK /\ PendingIsUse
    BY <1>1 DEF RestoreInv, TablesInv
  <2> QED
    BY <1>1, <2>1, RequestOrRestore, OnlyEditsLiftStep
<1>2. RestoreInv /\ [RestoreNext]_restoreVars => [Allowed]_vars
  BY <1>1
<1> HIDE DEF Allowed
<1>3. RestoreSpec => [][Allowed]_vars
  BY <1>2, RestoreInvariant, PTL DEF RestoreSpec
<1> QED
  BY <1>3 DEF OnlyEditsExceedInitial, Allowed, OnlyEditsLift

\* The copies of the ledger.
Copies == {CopyOf(b) : b \in backups}

\* The usage events implement the abstract ledger for any spools and events:
\* a weight changes only by posting one event, once, which states the change, or by
\* going back to a copy.
THEOREM EventsImplementLedger == RestoreSpec => ImplementsLedger
<1>1. RestoreInit => Ledger!LedgerInit
  BY LedgerInitial
<1>2. ASSUME RestoreInv, [RestoreNext]_restoreVars
      PROVE  [Ledger!LedgerNext]_<<States, Balances, Entries, Copies>>
  <2>1. TypeOK
    BY <1>2 DEF RestoreInv, TablesInv
  <2>2. ASSUME NEW b \in backups, Restore(b)
        PROVE  Ledger!LedgerNext
    <3>1. /\ States' = CopyOf(b).state
          /\ Balances' = CopyOf(b).balance
          /\ Entries' = CopyOf(b).entry
      BY <2>2 DEF Restore, CopyOf, States, Balances, Entries, StatesOf, BalancesOf, EntriesOf
    <3>2. CopyOf(b) \in Copies /\ Copies' = Copies
      BY <2>2 DEF Restore, Copies
    <3>3. Ledger!GoBack(CopyOf(b))
      BY <3>1, <3>2 DEF Ledger!GoBack, States, Balances, Entries, Copies
    <3> QED
      BY <3>2, <3>3 DEF Ledger!LedgerNext, Copies
  <2>3. ASSUME [Next]_vars, UNCHANGED backups
        PROVE  [Ledger!LedgerNext]_<<States, Balances, Entries, Copies>>
    <3>1. LedgerStep /\ Copies' = Copies
      BY <2>1, <2>3, LedgerStepLemma DEF Copies
    <3> QED
      BY <3>1 DEF LedgerStep, Ledger!LedgerNext, Copies
  <2>4. ASSUME BackUp, UNCHANGED vars
        PROVE  Ledger!LedgerNext
    <3>1. States' = States /\ Balances' = Balances /\ Entries' = Entries
      BY <2>4 DEF vars, States, Balances, Entries, StatesOf, BalancesOf, EntriesOf
    <3>2. CopyOf(Tables) = [state |-> States, balance |-> Balances, entry |-> Entries]
      BY DEF CopyOf, Tables, States, Balances, Entries
    <3>3. Copies' \subseteq Copies \cup {CopyOf(Tables)}
      BY <2>4 DEF BackUp, Copies
    <3>4. Ledger!Copy
      BY <3>1, <3>2, <3>3 DEF Ledger!Copy, Ledger!bookVars, States, Balances, Entries, Copies
    <3> QED
      BY <3>4 DEF Ledger!LedgerNext
  <2> QED
    BY <1>2, <2>2, <2>3, <2>4, RequestOrRestore DEF Restoring
<1>3. RestoreInv /\ [RestoreNext]_restoreVars => [Ledger!LedgerNext]_(Ledger!ledgerVars)
  BY <1>2 DEF Ledger!ledgerVars, States, Balances, Entries, Copies
<1> QED
  BY <1>1, <1>3, RestoreInvariant, PTL DEF RestoreSpec, ImplementsLedger, Ledger!LedgerSpec
=============================================================================
