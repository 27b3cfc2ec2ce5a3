---------------------------- MODULE MqttConnection ----------------------------
(***************************************************************************)
(* BambuMqttConnectionServer and readOneBambuMqttReport: the snapshots of  *)
(* printers that sync-now and test-connection wait for.  Readers of a      *)
(* printer share one read; a read opens an MQTT client, waits for a report *)
(* with slots, ends the client and settles when the client has ended.      *)
(* Every callback, timer and continuation of the event loop is a step.     *)
(***************************************************************************)
EXTENDS Integers

CONSTANTS
  Keys,         \* printers with their credentials (bambuMqttSnapshotCacheKey)
  Readers,      \* calls of readSnapshot
  Reads,        \* reads that may be under way at a time
  Null,
  MaxConnects   \* bound: how often a client connects, counting reconnections

ASSUME ConnectionAssumption == Null \notin Keys \cup Reads /\ MaxConnects \in Nat

VARIABLES
  running,        \* abortController is not null
  fresh,          \* keys with a snapshot younger than cacheTtlMs
  inFlight,       \* inFlight[k]: the read readers of k wait for
  activeClients,  \* the reads whose client was opened and has not ended
  reader,
  read

vars == <<running, fresh, inFlight, activeClients, reader, read>>

\* owns: the reader started the read.
ReaderRow == [read: Reads \cup {Null}, owns: BOOLEAN]
NoReader == [read |-> Null, owns |-> FALSE]

\* loading: awaits the mqtt module; closing: the read is decided and awaits the
\* end of its client; settled: its promise is.
\* aborted: its controller is; subscribing: subscriptions without an answer;
\* timers: noSnapshotTimers that run; publishing: the publication has no answer.
ReadRow ==
  [state: {"free", "loading", "open", "closing", "settled"}, key: Keys \cup {Null},
   ok: BOOLEAN, aborted: BOOLEAN, connects: Nat, subscribing: Nat, timers: Nat,
   requestedPushAll: BOOLEAN, publishing: BOOLEAN, published: Nat]
NoRead ==
  [state |-> "free", key |-> Null, ok |-> FALSE, aborted |-> FALSE, connects |-> 0,
   subscribing |-> 0, timers |-> 0, requestedPushAll |-> FALSE, publishing |-> FALSE,
   published |-> 0]

Init ==
  /\ running = FALSE
  /\ fresh = {}
  /\ inFlight = [k \in Keys |-> Null]
  /\ activeClients = {}
  /\ reader = [c \in Readers |-> NoReader]
  /\ read = [r \in Reads |-> NoRead]
-----------------------------------------------------------------------------
(***************************************************************************)
(* readSnapshot                                                            *)
(***************************************************************************)

\* The call starts the server if it is not running.
Call(c) ==
  /\ reader[c] = NoReader
  /\ running' = TRUE

AnswerFromCache(c, k) ==
  /\ Call(c)
  /\ k \in fresh
  /\ UNCHANGED <<fresh, inFlight, activeClients, reader, read>>

JoinRead(c, k) ==
  /\ Call(c)
  /\ k \notin fresh
  /\ inFlight[k] # Null
  /\ reader' = [reader EXCEPT ![c] = [read |-> inFlight[k], owns |-> FALSE]]
  /\ UNCHANGED <<fresh, inFlight, activeClients, read>>

StartRead(c, k, r) ==
  /\ Call(c)
  /\ k \notin fresh
  /\ inFlight[k] = Null
  /\ read[r].state = "free"
  /\ read' = [read EXCEPT ![r] = [NoRead EXCEPT !.state = "loading", !.key = k]]
  /\ inFlight' = [inFlight EXCEPT ![k] = r]
  /\ reader' = [reader EXCEPT ![c] = [read |-> r, owns |-> TRUE]]
  /\ UNCHANGED <<fresh, activeClients>>

\* Mutant of Leave: a read is forgotten with the first reader that leaves.
LeaveForgetting(c) ==
  LET r == reader[c].read IN
  /\ r # Null
  /\ read[r].state = "settled"
  /\ reader' = [reader EXCEPT ![c] = NoReader]
  /\ read' = [read EXCEPT ![r] = NoRead]

\* A reader goes on.  A read that nobody waits for any more is forgotten.
Leave(c) ==
  LET r == reader[c].read IN
  /\ r # Null
  /\ read[r].state = "settled"
  /\ reader' = [reader EXCEPT ![c] = NoReader]
  /\ read' = IF \E d \in Readers \ {c} : reader[d].read = r THEN read
             ELSE [read EXCEPT ![r] = NoRead]

\* Mutant of Return: the entry of the key is deleted, whose ever it is.
ReturnAndDelete(c) ==
  LET k == read[reader[c].read].key IN
  /\ Leave(c)
  /\ inFlight' = IF reader[c].owns THEN [inFlight EXCEPT ![k] = Null] ELSE inFlight
  /\ UNCHANGED <<running, fresh, activeClients>>

\* The reader that started the read deletes it from inFlight, if it is still there.
Return(c) ==
  LET r == reader[c].read IN
  /\ Leave(c)
  /\ inFlight' = IF reader[c].owns /\ inFlight[read[r].key] = r
                 THEN [inFlight EXCEPT ![read[r].key] = Null] ELSE inFlight
  /\ UNCHANGED <<running, fresh, activeClients>>

\* cacheTtlMs after the snapshot was fetched.
Expire(k) ==
  /\ k \in fresh
  /\ fresh' = fresh \ {k}
  /\ UNCHANGED <<running, inFlight, activeClients, reader, read>>
-----------------------------------------------------------------------------
(***************************************************************************)
(* readOneBambuMqttReport                                                  *)
(***************************************************************************)

\* finishResolve and finishReject: the first one decides and ends the client.
\* Of the noSnapshotTimers only the last is cleared.
Finish(row, ok) ==
  IF row.state # "open" THEN row
  ELSE [row EXCEPT !.state = "closing", !.ok = ok, !.timers = IF @ > 0 THEN @ - 1 ELSE 0]

Change(r, row) ==
  /\ read' = [read EXCEPT ![r] = row]
  /\ UNCHANGED <<running, fresh, inFlight, activeClients, reader>>

\* Mutant of Open: the signal is not looked at again after the await.
OpenUnchecked(r) ==
  /\ read[r].state = "loading"
  /\ read' = [read EXCEPT ![r].state = "open"]
  /\ activeClients' = activeClients \cup {r}
  /\ UNCHANGED <<running, fresh, inFlight, reader>>

\* The module is loaded.  The server may have been stopped during the await.
Open(r) ==
  LET row == [read[r] EXCEPT !.state = "open"] IN
  /\ read[r].state = "loading"
  /\ read' = [read EXCEPT ![r] = IF row.aborted THEN Finish(row, FALSE) ELSE row]
  /\ activeClients' = activeClients \cup {r}
  /\ UNCHANGED <<running, fresh, inFlight, reader>>

\* There is no mqtt module, or no client.
FailOpen(r) ==
  /\ read[r].state = "loading"
  /\ Change(r, [read[r] EXCEPT !.state = "settled"])

\* "connect", after each of which the client subscribes.
Connect(r) ==
  /\ read[r].state = "open"
  /\ read[r].connects < MaxConnects
  /\ Change(r, [read[r] EXCEPT !.connects = @ + 1, !.subscribing = @ + 1])

\* The answer to a subscription, which may come after the read is decided.
Subscribed(r) ==
  /\ read[r].subscribing > 0
  /\ Change(r, [read[r] EXCEPT !.subscribing = @ - 1, !.timers = @ + 1])

SubscribeFails(r) ==
  /\ read[r].subscribing > 0
  /\ Change(r, Finish([read[r] EXCEPT !.subscribing = @ - 1], FALSE))

\* Mutant of NoSnapshot: it asks again after a reconnection.
NoSnapshotAgain(r) ==
  LET row == [read[r] EXCEPT !.timers = @ - 1] IN
  /\ read[r].timers > 0
  /\ Change(r, IF row.state # "open" THEN row
               ELSE [row EXCEPT !.requestedPushAll = TRUE, !.publishing = TRUE,
                                !.published = @ + 1])

\* A noSnapshotTimer asks for a report, once, unless the read is decided.
NoSnapshot(r) ==
  LET row == [read[r] EXCEPT !.timers = @ - 1] IN
  /\ read[r].timers > 0
  /\ Change(r, IF row.state # "open" \/ row.requestedPushAll THEN row
               ELSE [row EXCEPT !.requestedPushAll = TRUE, !.publishing = TRUE,
                                !.published = @ + 1])

Published(r, ok) ==
  LET row == [read[r] EXCEPT !.publishing = FALSE] IN
  /\ read[r].publishing
  /\ Change(r, IF ok THEN row ELSE Finish(row, FALSE))

\* A message with which the reports merged so far have slots.
Report(r) ==
  /\ read[r].state = "open"
  /\ read[r].connects > 0
  /\ Change(r, Finish(read[r], TRUE))

ClientError(r) ==
  /\ read[r].state = "open"
  /\ Change(r, Finish(read[r], FALSE))

\* Mutant of Deadline: it is not for a read that asked for a report.
DeadlineBeforeRequest(r) ==
  /\ read[r].state = "open"
  /\ ~read[r].requestedPushAll
  /\ Change(r, Finish(read[r], FALSE))

Deadline(r) ==
  /\ read[r].state = "open"
  /\ Change(r, Finish(read[r], FALSE))

\* Mutant of Closed: a client that failed stays on the list.
ClosedOnSuccess(r) ==
  LET row == read[r] IN
  /\ row.state = "closing"
  /\ activeClients' = IF row.ok THEN activeClients \ {r} ELSE activeClients
  /\ fresh' = IF row.ok THEN fresh \cup {row.key} ELSE fresh
  /\ read' = [read EXCEPT ![r] = [NoRead EXCEPT !.state = "settled", !.key = row.key,
                                    !.ok = row.ok, !.aborted = row.aborted]]
  /\ UNCHANGED <<running, inFlight, reader>>

\* The client has ended: the promise settles, and a report goes to the cache,
\* stopped or not.  Timers and answers that are still due find the read decided.
Closed(r) ==
  LET row == read[r] IN
  /\ row.state = "closing"
  /\ activeClients' = activeClients \ {r}
  /\ fresh' = IF row.ok THEN fresh \cup {row.key} ELSE fresh
  /\ read' = [read EXCEPT ![r] = [NoRead EXCEPT !.state = "settled", !.key = row.key,
                                    !.ok = row.ok, !.aborted = row.aborted]]
  /\ UNCHANGED <<running, inFlight, reader>>
-----------------------------------------------------------------------------
\* Every read under way has the controller that is aborted, or an earlier one.
Aborted == [r \in Reads |-> IF read[r].state = "free" THEN read[r]
                            ELSE Finish([read[r] EXCEPT !.aborted = TRUE], FALSE)]

\* Mutant of Stop: inFlight is kept.
StopKeepingReads ==
  /\ running' = FALSE
  /\ read' = Aborted
  /\ fresh' = {}
  /\ activeClients' = {}
  /\ UNCHANGED <<inFlight, reader>>

\* stop; the abort listeners run in it.
Stop ==
  /\ running' = FALSE
  /\ read' = Aborted
  /\ fresh' = {}
  /\ activeClients' = {}
  /\ inFlight' = [k \in Keys |-> Null]
  /\ UNCHANGED reader

Next ==
  \/ \E c \in Readers :
       \/ \E k \in Keys : \/ AnswerFromCache(c, k)
                          \/ JoinRead(c, k)
                          \/ \E r \in Reads : StartRead(c, k, r)
       \/ Return(c)
  \/ \E r \in Reads :
       \/ Open(r)
       \/ FailOpen(r)
       \/ Connect(r)
       \/ Subscribed(r)
       \/ SubscribeFails(r)
       \/ NoSnapshot(r)
       \/ \E ok \in BOOLEAN : Published(r, ok)
       \/ Report(r)
       \/ ClientError(r)
       \/ Deadline(r)
       \/ Closed(r)
  \/ \E k \in Keys : Expire(k)
  \/ Stop

\* The event loop runs what is due: a module that loads, a timer, the callback
\* of end, a continuation.  Nothing obliges a printer, a caller or stop.
Fairness ==
  /\ \A r \in Reads :
       /\ WF_vars(Open(r) \/ FailOpen(r))
       /\ WF_vars(Deadline(r))
       /\ WF_vars(Closed(r))
  /\ \A c \in Readers : WF_vars(Return(c))

Spec == Init /\ [][Next]_vars
FairSpec == Spec /\ Fairness
-----------------------------------------------------------------------------
(***************************************************************************)
(* Properties                                                              *)
(***************************************************************************)

UnderWay(r) == read[r].state \in {"loading", "open"}

\* Types; a reader waits for a read that was started.
TypeOK ==
  /\ running \in BOOLEAN
  /\ fresh \subseteq Keys
  /\ inFlight \in [Keys -> Reads \cup {Null}]
  /\ activeClients \subseteq Reads
  /\ reader \in [Readers -> ReaderRow]
  /\ read \in [Reads -> ReadRow]
  /\ \A r \in Reads : read[r].state # "free" => read[r].key \in Keys
  /\ \A c \in Readers : reader[c].read # Null => read[reader[c].read].state # "free"

\* Concurrent calls for a printer share one session, also when the server was
\* stopped and started while a read was under way and ends later: "coalesce
\* concurrent requests for the same printer" (SPEC.md:454, readSnapshot).
OneSession ==
  \A r, q \in Reads :
    /\ UnderWay(r) /\ UnderWay(q) /\ ~read[r].aborted /\ ~read[q].aborted
    /\ read[r].key = read[q].key
    => r = q

\* A caller after a stop is never given a read the stop has aborted: what is in
\* inFlight is not aborted (stop, readSnapshot).
NoAbortedReadShared ==
  \A k \in Keys : inFlight[k] # Null =>
    read[inFlight[k]].key = k /\ ~read[inFlight[k]].aborted

\* After a stop no client stays open, not even one that was created by a read
\* that was waiting for the module: "clear in-flight sessions on shutdown"
\* (SPEC.md:454, readOneBambuMqttReport, stop).
NoClientAfterStop ==
  /\ \A r \in Reads : read[r].state = "open" => running /\ ~read[r].aborted
  /\ ~running => \A r \in Reads : UnderWay(r) => read[r].aborted

\* The set that stop goes through has every open client and no client that has
\* ended, whichever of report, error, deadline and stop came first.
ActiveClientsExact ==
  /\ \A r \in Reads : read[r].state = "open" => r \in activeClients
  /\ \A r \in activeClients : read[r].state \in {"open", "closing"}

\* A client asks its printer for a report at most once, however often it
\* reconnects, and not after the read is decided: "publishes at most one safe
\* request" (packages/printer-connector/src/bambu-mqtt.test.ts:177).
OneSafeRequest ==
  [][\A r \in Reads : read'[r].published > read[r].published =>
       read[r].published = 0 /\ read[r].state = "open"]_vars

\* Every caller is answered: a silent printer, an error or a stop does not block
\* sync-now or test-connection ("instead of blocking normal inventory or NFC
\* workflows", SPEC.md:454).
ReadersAnswered == \A c \in Readers : reader[c].read # Null ~> reader[c].read = Null
=============================================================================
