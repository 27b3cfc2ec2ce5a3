------------------------- MODULE MqttConnection_proofs -------------------------
(***************************************************************************)
(* Theorems about MqttConnection, for any printers, callers and reads.     *)
(***************************************************************************)
EXTENDS MqttConnection, TLAPS

\* An open client asks its printer for a report for the first time.
AsksOnce(old, row) ==
  /\ old.state = "open"
  /\ ~old.requestedPushAll
  /\ row.requestedPushAll
  /\ row.published = old.published + 1

\* What a callback or a timer may make of a read: it may decide it, and it
\* publishes only if nothing was requested before.
MovedRow(old, row) ==
  /\ row \in ReadRow
  /\ row.key = old.key
  /\ row.aborted = old.aborted
  /\ \/ row.state = old.state
     \/ old.state = "open" /\ row.state = "closing"
     \/ old.state = "loading" /\ row.state = "settled"
  /\ old.requestedPushAll => row.requestedPushAll
  /\ row.published = old.published \/ AsksOnce(old, row)

Moved(r) == \E row : Change(r, row) /\ MovedRow(read[r], row)

\* The steps that do only this.
Moves(r) ==
  \/ FailOpen(r)
  \/ Connect(r)
  \/ Subscribed(r)
  \/ SubscribeFails(r)
  \/ NoSnapshot(r)
  \/ \E ok \in BOOLEAN : Published(r, ok)
  \/ Report(r)
  \/ ClientError(r)
  \/ Deadline(r)

\* finishResolve and finishReject decide an open read and leave any other alone.
LEMMA FinishRow ==
  ASSUME NEW row \in ReadRow, NEW ok \in BOOLEAN
  PROVE  /\ Finish(row, ok) \in ReadRow
         /\ Finish(row, ok).key = row.key
         /\ Finish(row, ok).aborted = row.aborted
         /\ Finish(row, ok).published = row.published
         /\ Finish(row, ok).requestedPushAll = row.requestedPushAll
         /\ Finish(row, ok).state = IF row.state = "open" THEN "closing" ELSE row.state
<1>1. CASE row.state # "open"
  BY <1>1 DEF Finish
<1>2. CASE row.state = "open"
  <2> DEFINE left == IF row.timers > 0 THEN row.timers - 1 ELSE 0
  <2>1. left \in Nat
    BY DEF ReadRow
  <2>2. Finish(row, ok) = [row EXCEPT !.state = "closing", !.ok = ok, !.timers = left]
    BY <1>2 DEF Finish
  <2> HIDE DEF left
  <2> QED
    BY <1>2, <2>1, <2>2 DEF ReadRow
<1> QED
  BY <1>1, <1>2

\* Deciding a read moves it.
LEMMA FinishMoves ==
  ASSUME NEW old \in ReadRow, NEW row \in ReadRow, NEW ok \in BOOLEAN,
         row.key = old.key, row.aborted = old.aborted, row.state = old.state,
         row.requestedPushAll = old.requestedPushAll, row.published = old.published
  PROVE  MovedRow(old, Finish(row, ok))
BY FinishRow DEF MovedRow

\* The callbacks and timers of readOneBambuMqttReport move their read and nothing
\* else.
LEMMA MovesMove ==
  ASSUME TypeOK, NEW r \in Reads, Moves(r)
  PROVE  Moved(r)
<1> DEFINE old == read[r]
<1>1. old \in ReadRow
  BY DEF TypeOK
<1>2. old.connects \in Nat /\ old.subscribing \in Nat /\ old.timers \in Nat /\ old.published \in Nat
  BY <1>1 DEF ReadRow
<1> HIDE DEF old
<1>3. CASE FailOpen(r)
  <2> DEFINE row == [old EXCEPT !.state = "settled"]
  <2>1. Change(r, row) /\ old.state = "loading"
    BY <1>3 DEF FailOpen, old
  <2>2. MovedRow(old, row)
    BY <1>1, <2>1 DEF MovedRow, ReadRow
  <2> QED
    BY <2>1, <2>2 DEF Moved, old
<1>4. CASE Connect(r)
  <2> DEFINE connects == old.connects + 1
             subscribing == old.subscribing + 1
             row == [old EXCEPT !.connects = connects, !.subscribing = subscribing]
  <2>1. Change(r, row)
    BY <1>4 DEF Connect, old
  <2>2. MovedRow(old, row)
    <3>1. connects \in Nat /\ subscribing \in Nat
      BY <1>2
    <3> HIDE DEF connects, subscribing
    <3> QED
      BY <1>1, <3>1 DEF MovedRow, ReadRow
  <2> QED
    BY <2>1, <2>2 DEF Moved, old
<1>5. CASE Subscribed(r)
  <2> DEFINE subscribing == old.subscribing - 1
             timers == old.timers + 1
             row == [old EXCEPT !.subscribing = subscribing, !.timers = timers]
  <2>1. Change(r, row) /\ old.subscribing > 0
    BY <1>5 DEF Subscribed, old
  <2>2. MovedRow(old, row)
    <3>1. subscribing \in Nat /\ timers \in Nat
      BY <1>2, <2>1
    <3> HIDE DEF subscribing, timers
    <3> QED
      BY <1>1, <3>1 DEF MovedRow, ReadRow
  <2> QED
    BY <2>1, <2>2 DEF Moved, old
<1>6. CASE SubscribeFails(r)
  <2> DEFINE row == [old EXCEPT !.subscribing = @ - 1]
  <2>1. Change(r, Finish(row, FALSE)) /\ old.subscribing > 0
    BY <1>6 DEF SubscribeFails, old
  <2>2. /\ row \in ReadRow /\ row.key = old.key /\ row.aborted = old.aborted
        /\ row.state = old.state /\ row.published = old.published
        /\ row.requestedPushAll = old.requestedPushAll
    BY <1>1, <1>2, <2>1 DEF ReadRow
  <2> HIDE DEF row
  <2>3. MovedRow(old, Finish(row, FALSE))
    BY <1>1, <2>2, FinishMoves
  <2> QED
    BY <2>1, <2>3 DEF Moved, old
<1>7. CASE NoSnapshot(r)
  <2> DEFINE row == [old EXCEPT !.timers = @ - 1]
             asked == [row EXCEPT !.requestedPushAll = TRUE, !.publishing = TRUE,
                                  !.published = @ + 1]
  <2>1. old.timers > 0
    BY <1>7 DEF NoSnapshot, old
  <2>2. MovedRow(old, row)
    BY <1>1, <1>2, <2>1 DEF MovedRow, ReadRow
  <2>3. old.state = "open" /\ ~old.requestedPushAll => MovedRow(old, asked)
    <3> DEFINE published == old.published + 1
               new == [row EXCEPT !.requestedPushAll = TRUE, !.publishing = TRUE,
                                  !.published = published]
    <3>1. row \in ReadRow /\ row.key = old.key /\ row.aborted = old.aborted
          /\ row.state = old.state /\ row.published = old.published
      BY <1>1, <1>2, <2>1 DEF ReadRow
    <3>2. asked = new
      BY <3>1
    <3>3. published \in Nat
      BY <1>2
    <3> HIDE DEF row, asked, published
    <3>4. /\ new \in ReadRow /\ new.key = row.key /\ new.aborted = row.aborted
          /\ new.state = row.state /\ new.requestedPushAll /\ new.published = published
      BY <3>1, <3>3 DEF ReadRow
    <3> QED
      BY <3>1, <3>2, <3>4 DEF MovedRow, AsksOnce, published
  <2>4. \/ Change(r, row)
        \/ old.state = "open" /\ ~old.requestedPushAll /\ Change(r, asked)
    <3>1. row.state = old.state /\ row.requestedPushAll = old.requestedPushAll
      BY <1>1 DEF ReadRow
    <3> QED
      BY <1>7, <3>1 DEF NoSnapshot, old
  <2> QED
    BY <2>2, <2>3, <2>4 DEF Moved, old
<1>8. ASSUME NEW ok \in BOOLEAN, Published(r, ok)
      PROVE  Moved(r)
  <2> DEFINE row == [old EXCEPT !.publishing = FALSE]
  <2>1. Change(r, row) \/ Change(r, Finish(row, FALSE))
    BY <1>8 DEF Published, old
  <2>2. /\ row \in ReadRow /\ row.key = old.key /\ row.aborted = old.aborted
        /\ row.state = old.state /\ row.published = old.published
        /\ row.requestedPushAll = old.requestedPushAll
    BY <1>1 DEF ReadRow
  <2> HIDE DEF row
  <2>3. MovedRow(old, Finish(row, FALSE))
    BY <1>1, <2>2, FinishMoves
  <2>4. MovedRow(old, row)
    BY <2>2 DEF MovedRow
  <2> QED
    BY <2>1, <2>3, <2>4 DEF Moved, old
<1>9. CASE Report(r) \/ ClientError(r) \/ Deadline(r)
  <2>1. PICK ok \in BOOLEAN : Change(r, Finish(old, ok))
    BY <1>9 DEF Report, ClientError, Deadline, old
  <2>2. MovedRow(old, Finish(old, ok))
    BY <1>1, FinishMoves
  <2> QED
    BY <2>1, <2>2 DEF Moved, old
<1> QED
  BY <1>3, <1>4, <1>5, <1>6, <1>7, <1>8, <1>9 DEF Moves
-----------------------------------------------------------------------------
(***************************************************************************)
(* The invariant                                                           *)
(***************************************************************************)

\* What is in inFlight is the read of its key, not aborted, and its owner waits
\* for it.
InFlightOwned ==
  \A k \in Keys : inFlight[k] # Null =>
    /\ read[inFlight[k]].key = k
    /\ ~read[inFlight[k]].aborted
    /\ read[inFlight[k]].state # "free"
    /\ \E c \in Readers : reader[c].read = inFlight[k] /\ reader[c].owns

\* A read under way is in inFlight, unless a stop took it out.
UnderWayInFlight ==
  \A r \in Reads : UnderWay(r) /\ ~read[r].aborted =>
    running /\ inFlight[read[r].key] = r

OpenNotAborted == \A r \in Reads : read[r].state = "open" => ~read[r].aborted

PublishedRequested ==
  \A r \in Reads : ~read[r].requestedPushAll => read[r].published = 0

Sharing == InFlightOwned /\ UnderWayInFlight /\ OpenNotAborted /\ ActiveClientsExact
IInv == TypeOK /\ Sharing /\ PublishedRequested

\* A read that is not under way.
LEMMA NoReadRow ==
  /\ NoRead \in ReadRow
  /\ NoRead.state = "free"
  /\ ~NoRead.aborted
  /\ NoRead.published = 0
BY DEF NoRead, ReadRow

\* A server that was never started.
LEMMA InvInit == Init => IInv
<1> SUFFICES ASSUME Init PROVE IInv
  OBVIOUS
<1>1. NoReader \in ReaderRow /\ NoReader.read = Null
  BY DEF NoReader, ReaderRow
<1>2. TypeOK
  BY <1>1, NoReadRow DEF Init, TypeOK
<1>3. Sharing
  BY NoReadRow DEF Init, Sharing, InFlightOwned, UnderWayInFlight, OpenNotAborted,
                   ActiveClientsExact, UnderWay
<1>4. PublishedRequested
  BY NoReadRow DEF Init, PublishedRequested
<1> QED
  BY <1>2, <1>3, <1>4 DEF IInv

\* A callback or a timer leaves the sharing of reads alone.
LEMMA InvMoved ==
  ASSUME IInv, NEW r \in Reads, Moved(r)
  PROVE  IInv'
<1>1. PICK row : Change(r, row) /\ MovedRow(read[r], row)
  BY DEF Moved
<1>2. /\ read' = [read EXCEPT ![r] = row]
      /\ UNCHANGED <<running, fresh, inFlight, activeClients, reader>>
  BY <1>1 DEF Change
<1>3. /\ read \in [Reads -> ReadRow]
      /\ read'[r] = row
      /\ \A q \in Reads \ {r} : read'[q] = read[q]
  BY <1>2 DEF IInv, TypeOK
<1>4. TypeOK'
  BY <1>1, <1>2, <1>3, ConnectionAssumption DEF IInv, TypeOK, MovedRow, ReaderRow, ReadRow
<1>5. Sharing'
  <2>1. InFlightOwned'
    BY <1>1, <1>2, <1>3 DEF IInv, TypeOK, Sharing, InFlightOwned, MovedRow
  <2>2. UnderWayInFlight'
    BY <1>1, <1>2, <1>3 DEF IInv, TypeOK, Sharing, UnderWayInFlight, UnderWay, MovedRow
  <2>3. OpenNotAborted'
    BY <1>1, <1>2, <1>3 DEF IInv, TypeOK, Sharing, OpenNotAborted, MovedRow
  <2>4. ActiveClientsExact'
    BY <1>1, <1>2, <1>3 DEF IInv, TypeOK, Sharing, ActiveClientsExact, MovedRow
  <2> QED
    BY <2>1, <2>2, <2>3, <2>4 DEF Sharing
<1>6. PublishedRequested'
  BY <1>1, <1>3 DEF IInv, PublishedRequested, MovedRow, AsksOnce
<1> QED
  BY <1>4, <1>5, <1>6 DEF IInv

\* A started read is in inFlight, owned by the caller.
LEMMA InvStartRead ==
  ASSUME IInv, NEW c \in Readers, NEW k \in Keys, NEW r \in Reads, StartRead(c, k, r)
  PROVE  IInv'
<1> DEFINE row == [NoRead EXCEPT !.state = "loading", !.key = k]
           new == [read |-> r, owns |-> TRUE]
<1>1. /\ row \in ReadRow /\ row.state = "loading" /\ row.key = k /\ ~row.aborted
      /\ row.published = 0
      /\ new \in ReaderRow /\ new.read = r /\ new.owns
  BY DEF NoRead, ReadRow, ReaderRow
<1>2. /\ reader[c].read = Null /\ k \in Keys /\ inFlight[k] = Null /\ read[r].state = "free"
      /\ running' = TRUE
      /\ read' = [read EXCEPT ![r] = row]
      /\ inFlight' = [inFlight EXCEPT ![k] = r]
      /\ reader' = [reader EXCEPT ![c] = new]
      /\ UNCHANGED <<fresh, activeClients>>
  BY DEF StartRead, Call, NoReader
<1> HIDE DEF row, new
<1>3. /\ read \in [Reads -> ReadRow] /\ reader \in [Readers -> ReaderRow]
      /\ inFlight \in [Keys -> Reads \cup {Null}]
      /\ Null \notin Reads
  BY ConnectionAssumption DEF IInv, TypeOK
<1>4. /\ read'[r] = row /\ \A q \in Reads \ {r} : read'[q] = read[q]
      /\ reader'[c] = new /\ \A d \in Readers \ {c} : reader'[d] = reader[d]
      /\ inFlight'[k] = r /\ \A l \in Keys \ {k} : inFlight'[l] = inFlight[l]
  BY <1>2, <1>3
<1>5. TypeOK'
  BY <1>1, <1>2, <1>3, <1>4 DEF IInv, TypeOK
<1>6. Sharing'
  <2>1. InFlightOwned'
    <3>1. ASSUME NEW l \in Keys, inFlight'[l] # Null, l # k
          PROVE  /\ inFlight[l] \in Reads \ {r}
                 /\ \E d \in Readers \ {c} : reader[d].read = inFlight[l] /\ reader[d].owns
      BY <1>2, <1>3, <1>4, <3>1 DEF IInv, Sharing, InFlightOwned
    <3> QED
      BY <1>1, <1>3, <1>4, <3>1 DEF IInv, Sharing, InFlightOwned
  <2>2. UnderWayInFlight'
    BY <1>1, <1>2, <1>3, <1>4 DEF IInv, Sharing, UnderWayInFlight, UnderWay
  <2>3. OpenNotAborted' /\ ActiveClientsExact'
    BY <1>1, <1>2, <1>3, <1>4 DEF IInv, Sharing, OpenNotAborted, ActiveClientsExact
  <2> QED
    BY <2>1, <2>2, <2>3 DEF Sharing
<1>7. PublishedRequested'
  BY <1>1, <1>4 DEF IInv, PublishedRequested
<1> QED
  BY <1>5, <1>6, <1>7 DEF IInv

\* A joined read is not owned.
LEMMA InvJoinRead ==
  ASSUME IInv, NEW c \in Readers, NEW k \in Keys, JoinRead(c, k)
  PROVE  IInv'
<1> DEFINE new == [read |-> inFlight[k], owns |-> FALSE]
<1>1. /\ reader[c].read = Null /\ inFlight[k] \in Reads
      /\ read[inFlight[k]].state # "free"
      /\ running' = TRUE
      /\ reader' = [reader EXCEPT ![c] = new]
      /\ UNCHANGED <<fresh, inFlight, activeClients, read>>
  BY DEF JoinRead, Call, NoReader, IInv, TypeOK, Sharing, InFlightOwned
<1>2. new \in ReaderRow /\ new.read = inFlight[k]
  BY <1>1 DEF ReaderRow
<1> HIDE DEF new
<1>3. reader'[c] = new /\ \A d \in Readers \ {c} : reader'[d] = reader[d]
  BY <1>1 DEF IInv, TypeOK
<1>4. TypeOK'
  BY <1>1, <1>2, <1>3 DEF IInv, TypeOK
<1>5. InFlightOwned'
  <2>1. ASSUME NEW l \in Keys, inFlight[l] # Null
        PROVE  \E d \in Readers \ {c} : reader[d].read = inFlight[l] /\ reader[d].owns
    BY <1>1, <2>1, ConnectionAssumption DEF IInv, TypeOK, Sharing, InFlightOwned
  <2> QED
    BY <1>1, <1>3, <2>1 DEF IInv, Sharing, InFlightOwned
<1>6. UnderWayInFlight' /\ OpenNotAborted' /\ ActiveClientsExact' /\ PublishedRequested'
  BY <1>1 DEF IInv, Sharing, UnderWayInFlight, UnderWay, OpenNotAborted,
             ActiveClientsExact, PublishedRequested
<1> QED
  BY <1>4, <1>5, <1>6 DEF IInv, Sharing

\* The last reader of a read takes it out of inFlight: it is the owner.
LEMMA InvReturn ==
  ASSUME IInv, NEW c \in Readers, Return(c)
  PROVE  IInv'
<1> DEFINE r == reader[c].read
           last == \A d \in Readers \ {c} : reader[d].read # r
<1>1. r \in Reads /\ read[r].state = "settled" /\ read[r].key \in Keys
  BY DEF Return, Leave, IInv, TypeOK, ReaderRow
<1>2. /\ reader' = [reader EXCEPT ![c] = NoReader]
      /\ read' = IF last THEN [read EXCEPT ![r] = NoRead] ELSE read
      /\ inFlight' = IF reader[c].owns /\ inFlight[read[r].key] = r
                     THEN [inFlight EXCEPT ![read[r].key] = Null] ELSE inFlight
      /\ UNCHANGED <<running, fresh, activeClients>>
  BY DEF Return, Leave
<1>3. NoReader \in ReaderRow /\ NoReader.read = Null
  BY DEF NoReader, ReaderRow
<1>4. /\ reader'[c] = NoReader /\ \A d \in Readers \ {c} : reader'[d] = reader[d]
      /\ \A q \in Reads \ {r} : read'[q] = read[q]
      /\ read'[r] = read[r] \/ (last /\ read'[r] = NoRead)
      /\ \A l \in Keys : inFlight'[l] = inFlight[l] \/ (inFlight[l] = r /\ inFlight'[l] = Null)
  <2>1. reader'[c] = NoReader /\ \A d \in Readers \ {c} : reader'[d] = reader[d]
    BY <1>2 DEF IInv, TypeOK
  <2>2. \A q \in Reads \ {r} : read'[q] = read[q]
    BY <1>2 DEF IInv, TypeOK
  <2>3. read'[r] = read[r] \/ (last /\ read'[r] = NoRead)
    BY <1>1, <1>2 DEF IInv, TypeOK
  <2>4. ASSUME NEW l \in Keys
        PROVE  inFlight'[l] = inFlight[l] \/ (inFlight[l] = r /\ inFlight'[l] = Null)
    BY <1>1, <1>2 DEF IInv, TypeOK
  <2> QED
    BY <2>1, <2>2, <2>3, <2>4
<1>5. TypeOK'
  <2>1. read' \in [Reads -> ReadRow] /\ reader' \in [Readers -> ReaderRow]
        /\ inFlight' \in [Keys -> Reads \cup {Null}]
    BY <1>1, <1>2, <1>3, NoReadRow DEF IInv, TypeOK
  <2>2. \A q \in Reads : read'[q].state # "free" => read'[q].key \in Keys
    BY <1>4, NoReadRow DEF IInv, TypeOK
  <2>3. \A d \in Readers : reader'[d].read # Null => read'[reader'[d].read].state # "free"
    BY <1>1, <1>3, <1>4 DEF IInv, TypeOK, ReaderRow
  <2> QED
    BY <1>2, <2>1, <2>2, <2>3 DEF IInv, TypeOK
<1>6. InFlightOwned'
  <2> SUFFICES ASSUME NEW l \in Keys, inFlight'[l] # Null
               PROVE  /\ read'[inFlight'[l]].key = l
                      /\ ~read'[inFlight'[l]].aborted
                      /\ read'[inFlight'[l]].state # "free"
                      /\ \E d \in Readers : reader'[d].read = inFlight'[l] /\ reader'[d].owns
    BY DEF InFlightOwned
  <2>1. inFlight'[l] = inFlight[l] /\ inFlight[l] \in Reads
    BY <1>4 DEF IInv, TypeOK
  <2>2. PICK d \in Readers : reader[d].read = inFlight[l] /\ reader[d].owns
    BY <2>1 DEF IInv, Sharing, InFlightOwned
  <2>3. read[inFlight[l]].key = l /\ ~read[inFlight[l]].aborted /\ read[inFlight[l]].state # "free"
    BY <2>1 DEF IInv, Sharing, InFlightOwned
  <2>4. d # c
    <3> SUFFICES ASSUME d = c PROVE FALSE
      OBVIOUS
    <3>1. inFlight[read[r].key] = r /\ reader[c].owns /\ read[r].key = l
      BY <2>2, <2>3
    <3>2. inFlight'[l] = Null
      BY <1>2, <3>1 DEF IInv, TypeOK
    <3> QED
      BY <3>2
  <2>5. read'[inFlight[l]] = read[inFlight[l]]
    BY <1>4, <2>1, <2>2, <2>4
  <2> QED
    BY <1>4, <2>1, <2>2, <2>3, <2>4, <2>5
<1>7. UnderWayInFlight'
  BY <1>1, <1>2, <1>4, NoReadRow DEF IInv, TypeOK, Sharing, UnderWayInFlight, UnderWay
<1>8. OpenNotAborted' /\ PublishedRequested'
  BY <1>4, NoReadRow DEF IInv, Sharing, OpenNotAborted, PublishedRequested
<1>9. ActiveClientsExact'
  BY <1>1, <1>2, <1>4, NoReadRow DEF IInv, TypeOK, Sharing, ActiveClientsExact
<1> QED
  BY <1>5, <1>6, <1>7, <1>8, <1>9 DEF IInv, Sharing

\* A client opened after a stop closes at once.
LEMMA InvOpen ==
  ASSUME IInv, NEW r \in Reads, Open(r)
  PROVE  IInv'
<1> DEFINE opened == [read[r] EXCEPT !.state = "open"]
           row == IF opened.aborted THEN Finish(opened, FALSE) ELSE opened
<1>1. /\ read[r] \in ReadRow /\ read[r].state = "loading"
      /\ read' = [read EXCEPT ![r] = row]
      /\ activeClients' = activeClients \cup {r}
      /\ UNCHANGED <<running, fresh, inFlight, reader>>
  BY DEF Open, IInv, TypeOK
<1>2. /\ row \in ReadRow /\ row.key = read[r].key /\ row.aborted = read[r].aborted
      /\ row.state = (IF read[r].aborted THEN "closing" ELSE "open")
      /\ row.published = read[r].published
      /\ row.requestedPushAll = read[r].requestedPushAll
  <2>1. /\ opened \in ReadRow /\ opened.key = read[r].key /\ opened.state = "open"
        /\ opened.aborted = read[r].aborted /\ opened.published = read[r].published
        /\ opened.requestedPushAll = read[r].requestedPushAll
    BY <1>1 DEF ReadRow
  <2> HIDE DEF opened
  <2> QED
    BY <2>1, FinishRow
<1> HIDE DEF row
<1>3. read'[r] = row /\ \A q \in Reads \ {r} : read'[q] = read[q]
  BY <1>1 DEF IInv, TypeOK
<1>4. TypeOK'
  <2>1. \A c \in Readers : reader[c].read # Null => read'[reader[c].read].state # "free"
    BY <1>2, <1>3 DEF IInv, TypeOK, ReaderRow
  <2> QED
    BY <1>1, <1>2, <1>3, <2>1 DEF IInv, TypeOK
<1>5. InFlightOwned'
  BY <1>1, <1>2, <1>3 DEF IInv, TypeOK, Sharing, InFlightOwned
<1>6. UnderWayInFlight'
  BY <1>1, <1>2, <1>3 DEF IInv, Sharing, UnderWayInFlight, UnderWay
<1>7. OpenNotAborted'
  BY <1>1, <1>2, <1>3 DEF IInv, Sharing, OpenNotAborted
<1>8. ActiveClientsExact'
  BY <1>1, <1>2, <1>3 DEF IInv, TypeOK, Sharing, ActiveClientsExact
<1>9. PublishedRequested'
  BY <1>2, <1>3 DEF IInv, PublishedRequested
<1> QED
  BY <1>4, <1>5, <1>6, <1>7, <1>8, <1>9 DEF IInv, Sharing

\* A client that has ended leaves activeClients.
LEMMA InvClosed ==
  ASSUME IInv, NEW r \in Reads, Closed(r)
  PROVE  IInv'
<1> DEFINE row == [NoRead EXCEPT !.state = "settled", !.key = read[r].key,
                                 !.ok = read[r].ok, !.aborted = read[r].aborted]
<1>1. /\ read[r] \in ReadRow /\ read[r].state = "closing" /\ read[r].key \in Keys
      /\ read' = [read EXCEPT ![r] = row]
      /\ activeClients' = activeClients \ {r}
      /\ fresh' \in {fresh, fresh \cup {read[r].key}}
      /\ UNCHANGED <<running, inFlight, reader>>
  BY DEF Closed, IInv, TypeOK
<1>2. /\ row \in ReadRow /\ row.key = read[r].key /\ row.aborted = read[r].aborted
      /\ row.state = "settled" /\ row.published = 0
  BY <1>1 DEF ReadRow, NoRead
<1> HIDE DEF row
<1>3. read'[r] = row /\ \A q \in Reads \ {r} : read'[q] = read[q]
  BY <1>1 DEF IInv, TypeOK
<1>4. TypeOK'
  <2>1. \A c \in Readers : reader[c].read # Null => read'[reader[c].read].state # "free"
    BY <1>2, <1>3 DEF IInv, TypeOK, ReaderRow
  <2> QED
    BY <1>1, <1>2, <1>3, <2>1 DEF IInv, TypeOK
<1>5. InFlightOwned'
  BY <1>1, <1>2, <1>3 DEF IInv, TypeOK, Sharing, InFlightOwned
<1>6. UnderWayInFlight'
  BY <1>1, <1>2, <1>3 DEF IInv, Sharing, UnderWayInFlight, UnderWay
<1>7. OpenNotAborted' /\ PublishedRequested'
  BY <1>2, <1>3 DEF IInv, Sharing, OpenNotAborted, PublishedRequested
<1>8. ActiveClientsExact'
  BY <1>1, <1>2, <1>3 DEF IInv, TypeOK, Sharing, ActiveClientsExact
<1> QED
  BY <1>4, <1>5, <1>6, <1>7, <1>8 DEF IInv, Sharing

\* A stop aborts every read under way and forgets all of them.
LEMMA InvStop ==
  ASSUME IInv, Stop
  PROVE  IInv'
<1>1. /\ read' = Aborted /\ running' = FALSE /\ fresh' = {} /\ activeClients' = {}
      /\ inFlight' = [k \in Keys |-> Null]
      /\ UNCHANGED reader
  BY DEF Stop
<1>2. ASSUME NEW r \in Reads
      PROVE  /\ read'[r] \in ReadRow
             /\ read'[r].key = read[r].key
             /\ read'[r].state # "open"
             /\ read'[r].state = "free" <=> read[r].state = "free"
             /\ read'[r].state \in {"loading", "open"} => read'[r].aborted
             /\ read'[r].published = read[r].published
             /\ read'[r].requestedPushAll = read[r].requestedPushAll
  <2> DEFINE row == [read[r] EXCEPT !.aborted = TRUE]
  <2>1. read[r] \in ReadRow
    BY DEF IInv, TypeOK
  <2>2. /\ row \in ReadRow /\ row.key = read[r].key /\ row.state = read[r].state
        /\ row.aborted /\ row.published = read[r].published
        /\ row.requestedPushAll = read[r].requestedPushAll
    BY <2>1 DEF ReadRow
  <2>3. read'[r] = IF read[r].state = "free" THEN read[r] ELSE Finish(row, FALSE)
    BY <1>1 DEF Aborted
  <2> HIDE DEF row
  <2>4. CASE read[r].state = "free"
    BY <2>1, <2>3, <2>4
  <2>5. CASE read[r].state # "free"
    <3> DEFINE new == Finish(row, FALSE)
    <3>1. /\ new \in ReadRow /\ new.key = row.key /\ new.aborted = row.aborted
          /\ new.published = row.published /\ new.requestedPushAll = row.requestedPushAll
          /\ new.state = IF row.state = "open" THEN "closing" ELSE row.state
      BY <2>2, FinishRow
    <3>2. read'[r] = new
      BY <2>3, <2>5
    <3> HIDE DEF new
    <3> QED
      BY <2>2, <2>5, <3>1, <3>2
  <2> QED
    BY <2>4, <2>5
<1>3. TypeOK'
  <2>1. read' \in [Reads -> ReadRow]
    BY <1>1, <1>2 DEF Aborted
  <2>2. \A c \in Readers : reader[c].read # Null => read'[reader[c].read].state # "free"
    BY <1>2 DEF IInv, TypeOK, ReaderRow
  <2> QED
    BY <1>1, <1>2, <2>1, <2>2 DEF IInv, TypeOK
<1>4. Sharing'
  BY <1>1, <1>2 DEF Sharing, InFlightOwned, UnderWayInFlight, UnderWay, OpenNotAborted,
                    ActiveClientsExact
<1>5. PublishedRequested'
  BY <1>2 DEF IInv, PublishedRequested
<1> QED
  BY <1>3, <1>4, <1>5 DEF IInv

\* The steps that leave the reads and their readers alone.
LEMMA InvRest ==
  ASSUME IInv,
         \/ UNCHANGED vars
         \/ \E c \in Readers, k \in Keys : AnswerFromCache(c, k)
         \/ \E k \in Keys : Expire(k)
  PROVE  IInv'
<1>1. /\ UNCHANGED <<inFlight, activeClients, reader, read>>
      /\ fresh' \subseteq fresh
      /\ running' \in BOOLEAN /\ (running => running')
  BY DEF AnswerFromCache, Call, Expire, vars, IInv, TypeOK
<1>2. TypeOK'
  BY <1>1 DEF IInv, TypeOK
<1> QED
  BY <1>1, <1>2 DEF IInv, Sharing, InFlightOwned, UnderWayInFlight, UnderWay,
                    OpenNotAborted, ActiveClientsExact, PublishedRequested

\* Every step keeps the invariant.
LEMMA InvStep == IInv /\ [Next]_vars => IInv'
<1> SUFFICES ASSUME IInv, [Next]_vars PROVE IInv'
  OBVIOUS
<1>1. ASSUME NEW r \in Reads, Moves(r) PROVE IInv'
  BY <1>1, MovesMove, InvMoved DEF IInv
<1>2. ASSUME NEW c \in Readers, NEW k \in Keys, NEW r \in Reads, StartRead(c, k, r) PROVE IInv'
  BY <1>2, InvStartRead
<1>3. ASSUME NEW c \in Readers, NEW k \in Keys, JoinRead(c, k) PROVE IInv'
  BY <1>3, InvJoinRead
<1>4. ASSUME NEW c \in Readers, Return(c) PROVE IInv'
  BY <1>4, InvReturn
<1>5. ASSUME NEW r \in Reads, Open(r) PROVE IInv'
  BY <1>5, InvOpen
<1>6. ASSUME NEW r \in Reads, Closed(r) PROVE IInv'
  BY <1>6, InvClosed
<1>7. CASE Stop
  BY <1>7, InvStop
<1>8. CASE \/ UNCHANGED vars
           \/ \E c \in Readers, k \in Keys : AnswerFromCache(c, k)
           \/ \E k \in Keys : Expire(k)
  BY <1>8, InvRest
<1> QED
  BY <1>1, <1>2, <1>3, <1>4, <1>5, <1>6, <1>7, <1>8 DEF Next, Moves
-----------------------------------------------------------------------------
(***************************************************************************)
(* Theorems                                                                *)
(***************************************************************************)

\* The server's bookkeeping (inFlight, activeClients, abort signals) agrees with
\* the reads in every reachable state.
THEOREM Inductive == Spec => []IInv
<1> QED
  BY InvInit, InvStep, PTL DEF Spec

\* The server's tables have their types, and a read that is waited for exists.
THEOREM ReaderTypes == Spec => []TypeOK
<1>1. IInv => TypeOK
  BY DEF IInv
<1> QED
  BY <1>1, Inductive, PTL

\* Callers of a printer share one session at a time, whatever is stopped and
\* started between the steps of a read.
THEOREM SessionsShared == Spec => []OneSession
<1>1. IInv => OneSession
  BY DEF IInv, Sharing, UnderWayInFlight, OneSession
<1> QED
  BY <1>1, Inductive, PTL

\* A read that was aborted is not the one a new caller joins (inFlight).
THEOREM AbortedReadsLeft == Spec => []NoAbortedReadShared
<1>1. IInv => NoAbortedReadShared
  BY DEF IInv, Sharing, InFlightOwned, NoAbortedReadShared
<1> QED
  BY <1>1, Inductive, PTL

\* No client outlives a stop.
THEOREM SessionsEnd == Spec => []NoClientAfterStop
<1>1. IInv => NoClientAfterStop
  BY DEF IInv, Sharing, UnderWayInFlight, UnderWay, OpenNotAborted, NoClientAfterStop
<1> QED
  BY <1>1, Inductive, PTL

\* activeClients counts the clients that are open, neither more nor fewer.
THEOREM ClientsCounted == Spec => []ActiveClientsExact
<1>1. IInv => ActiveClientsExact
  BY DEF IInv, Sharing
<1> QED
  BY <1>1, Inductive, PTL

\* A printer is asked for a report once per read, by an open client.
THEOREM RequestsSafe == Spec => OneSafeRequest
<1> DEFINE Asks(r) == read'[r].published > read[r].published =>
                        read[r].published = 0 /\ read[r].state = "open"
<1>1. ASSUME IInv, [Next]_vars, NEW r \in Reads
      PROVE  Asks(r)
  <2>1. read[r].published \in Nat
    BY <1>1 DEF IInv, TypeOK, ReadRow
  <2>2. CASE read'[r].published \in {read[r].published, 0}
    BY <2>1, <2>2
  <2>3. ASSUME NEW q \in Reads, Moved(q)
        PROVE  Asks(r)
    <3>1. PICK row : Change(q, row) /\ MovedRow(read[q], row)
      BY <2>3
      DEF Moved
    <3>2. read'[r] = read[r] \/ MovedRow(read[r], read'[r])
      BY <1>1, <3>1 DEF Change, IInv, TypeOK
    <3> QED
      BY <1>1, <2>1, <3>2 DEF MovedRow, AsksOnce, IInv, PublishedRequested
  <2>4. ASSUME NEW q \in Reads, Moves(q)
        PROVE  Asks(r)
    BY <1>1, <2>3, <2>4, MovesMove DEF IInv
  <2>5. ASSUME NEW q \in Reads, Open(q)
        PROVE  Asks(r)
    <3> DEFINE opened == [read[q] EXCEPT !.state = "open"]
    <3>1. opened \in ReadRow /\ opened.published = read[q].published
      BY <1>1 DEF IInv, TypeOK, ReadRow
    <3>2. read' = [read EXCEPT ![q] = IF opened.aborted THEN Finish(opened, FALSE) ELSE opened]
      BY <2>5 DEF Open
    <3> HIDE DEF opened
    <3>3. read'[r].published = read[r].published
      BY <1>1, <3>1, <3>2, FinishRow DEF IInv, TypeOK
    <3> QED
      BY <2>2, <3>3
  <2>6. ASSUME NEW q \in Reads, Closed(q)
        PROVE  Asks(r)
    BY <1>1, <2>2, <2>6 DEF Closed, NoRead, IInv, TypeOK
  <2>7. ASSUME NEW c \in Readers, NEW k \in Keys, NEW q \in Reads, StartRead(c, k, q)
        PROVE  Asks(r)
    BY <1>1, <2>2, <2>7 DEF StartRead, NoRead, IInv, TypeOK
  <2>8. ASSUME NEW c \in Readers, Return(c)
        PROVE  Asks(r)
    BY <1>1, <2>2, <2>8, NoReadRow DEF Return, Leave, IInv, TypeOK
  <2>9. CASE Stop
    <3> DEFINE row == [read[r] EXCEPT !.aborted = TRUE]
    <3>1. row \in ReadRow /\ row.published = read[r].published
      BY <1>1 DEF IInv, TypeOK, ReadRow
    <3>2. read'[r] = read[r] \/ read'[r] = Finish(row, FALSE)
      BY <2>9 DEF Stop, Aborted
    <3> HIDE DEF row
    <3> QED
      BY <2>2, <3>1, <3>2, FinishRow
  <2>10. CASE \/ UNCHANGED vars
              \/ \E c \in Readers, k \in Keys : AnswerFromCache(c, k) \/ JoinRead(c, k)
              \/ \E k \in Keys : Expire(k)
    <3>1. UNCHANGED read
      BY <2>10 DEF vars, AnswerFromCache, JoinRead, Expire
    <3> QED
      BY <2>2, <3>1
  <2> HIDE DEF Asks
  <2> QED
    BY <1>1, <2>4, <2>5, <2>6, <2>7, <2>8, <2>9, <2>10 DEF Next, Moves
<1> DEFINE Safe == \A r \in Reads : Asks(r)
<1>2. IInv /\ [Next]_vars => [Safe]_vars
  BY <1>1
<1> HIDE DEF Safe
<1>3. Spec => [][Safe]_vars
  BY <1>2, Inductive, PTL DEF Spec
<1> QED
  BY <1>3 DEF OneSafeRequest, Safe
=============================================================================
