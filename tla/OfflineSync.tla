------------------------------ MODULE OfflineSync ------------------------------
(***************************************************************************)
(* The phone's weight edits: sent at once (ManualAdjustmentView), queued   *)
(* when that fails (OfflineQueue.swift), and submitted in a batch to       *)
(* POST /api/sync/events (app.ts).  Requests and answers may be lost or    *)
(* late, the app and the server may stop and start again, and a write or a *)
(* read of the queue's file may fail, of which the app says nothing.  The  *)
(* module is about the time between two restores of a backup.              *)
(*                                                                         *)
(* The server handles one request at a time.  A batch is the only one that *)
(* is not a single transaction: each item is adjusted and then recorded,   *)
(* and the server may stop in between.                                     *)
(***************************************************************************)
EXTENDS Repository, SequencesExt

CONSTANTS
  Phones,       \* the clients that are phones
  Requests,     \* requests that may be under way at a time
  EditWeights,  \* weights a user may type
  MaxBatch,     \* items of a batch (submitSyncEventsSchema)
  MaxEdits      \* bound: edits made

ASSUME PhoneAssumption ==
  /\ Phones \subseteq Clients
  /\ EditWeights \subseteq Int
  /\ MaxBatch \in Nat
  /\ MaxEdits \in Nat

\* Edits are numbered in the order they are made.
Edits == 1..MaxEdits

VARIABLES
  edit,       \* edit[i]: what the user asked for, and what the phone said of it
  queue,      \* queue[p]: the edits queued on phone p, in memory
  file,       \* file[p]: the queue in its file, offline-queue.json
  conflicts,  \* conflicts[p]: the conflicts phone p shows
  request,    \* request[r]
  syncEvent,  \* sync_events, by the identifier of the edit
  applied,    \* history variable: how many times the edit was applied
  missed      \* history variable: the edits a failed save did not write to the
              \* file, or a failed load did not read from it

offlineVars == <<edit, queue, file, conflicts, request, syncEvent, applied, missed>>
allVars == <<vars, offlineVars>>

EditRow == [told: {"unused", "nothing", "applied", "queued"}, phone: Phones \cup {Null},
            spool: Spools \cup {Null}, version: Nat, weight: Int]
NoEdit == [told |-> "unused", phone |-> Null, spool |-> Null, version |-> 0, weight |-> 0]

Verdicts == {"none", "applied", "conflict", "rejected"}

\* waiting: the phone has neither got an answer nor given up.
\* left: the edits not handled yet; current: what became of the first of them;
\* verdict: the answer so far.
RequestRow ==
  [state: {"free", "sent", "handling", "answered", "lost"},
   kind: {"adjustment", "sync"}, phone: Phones \cup {Null}, waiting: BOOLEAN,
   left: Seq(Edits), current: Verdicts, verdict: [Edits -> Verdicts], ok: BOOLEAN]
NoRequest ==
  [state |-> "free", kind |-> "sync", phone |-> Null, waiting |-> FALSE,
   left |-> <<>>, current |-> "none", verdict |-> [i \in Edits |-> "none"], ok |-> FALSE]

OfflineInit ==
  /\ Init
  /\ edit = [i \in Edits |-> NoEdit]
  /\ queue = [p \in Phones |-> <<>>]
  /\ file = [p \in Phones |-> <<>>]
  /\ conflicts = [p \in Phones |-> {}]
  /\ request = [r \in Requests |-> NoRequest]
  /\ syncEvent = [i \in Edits |-> "none"]
  /\ applied = [i \in Edits |-> 0]
  /\ missed = {}
-----------------------------------------------------------------------------
\* The server's thread is not inside a batch.
Idle == \A r \in Requests : request[r].state # "handling"

\* A phone sends a request for some edits.
Send(r, kind, p, edits) ==
  /\ request[r].state = "free"
  /\ request' = [request EXCEPT ![r] =
       [NoRequest EXCEPT !.state = "sent", !.kind = kind, !.phone = p,
                         !.waiting = TRUE, !.left = edits]]

\* The request is over for the server.  Nobody reads the answer if the phone
\* has given up.
Over(row, state, ok) ==
  IF row.waiting THEN [row EXCEPT !.state = state, !.ok = ok] ELSE NoRequest

Answer(r, ok) == request' = [request EXCEPT ![r] = Over(@, "answered", ok)]

\* The phone reads the answer.
Read(r) == request' = [request EXCEPT ![r] = NoRequest]

\* The phone gives up on a request that may still be under way.
Abandoned(row) ==
  IF row.state \in {"answered", "lost"} THEN NoRequest ELSE [row EXCEPT !.waiting = FALSE]

\* save(): the file is replaced by the queue as it is now, or the write fails and
\* leaves it.
Save(p) ==
  \/ /\ file' = [file EXCEPT ![p] = queue'[p]]
     /\ UNCHANGED missed
  \/ /\ missed' = missed \cup (ToSet(queue'[p]) \ ToSet(file[p]))
     /\ UNCHANGED file

\* load(): the queue is what is in the file, or empty if the file cannot be read.
Load(p) ==
  /\ \/ /\ queue' = [queue EXCEPT ![p] = file[p]]
        /\ UNCHANGED missed
     \/ /\ queue' = [queue EXCEPT ![p] = <<>>]
        /\ missed' = missed \cup ToSet(file[p])
  /\ UNCHANGED file

\* How manualAdjustment fails on an edit: not_found, conflict, invalid_state.
Refusal(i) ==
  LET s == edit[i].spool IN
  CASE ~LiveSpool(s) -> "rejected"
    [] LiveSpool(s) /\ spool[s].version # edit[i].version -> "conflict"
    [] LiveSpool(s) /\ spool[s].version = edit[i].version
         /\ edit[i].weight > spool[s].initial -> "rejected"
    [] OTHER -> "none"

\* manualAdjustment on an edit, with the usage event it inserts.
Apply(i, e) ==
  /\ AdjustWeight(edit[i].spool, edit[i].version, e, edit[i].weight)
  /\ applied' = [applied EXCEPT ![i] = @ + 1]
-----------------------------------------------------------------------------
(***************************************************************************)
(* One edit sent at once                                                   *)
(***************************************************************************)

\* "Submit now" with the version of the spool the phone fetched last.
SubmitNow(p, s, weight, r) ==
  /\ seen[p][s].row = "live"
  /\ \E i \in Edits :
       /\ edit[i].told = "unused"
       /\ \A j \in 1..(i - 1) : edit[j].told # "unused"
       /\ edit' = [edit EXCEPT ![i] =
            [told |-> "nothing", phone |-> p, spool |-> s,
             version |-> seen[p][s].version, weight |-> weight]]
       /\ Send(r, "adjustment", p, <<i>>)
  /\ UNCHANGED <<vars, queue, file, conflicts, syncEvent, applied, missed>>

Sent(r, kind) ==
  /\ Idle
  /\ request[r].state = "sent"
  /\ request[r].kind = kind

\* Mutant of AcceptAdjustment: the weight of the request is not checked.
AcceptAnyWeight(r, e) ==
  /\ Sent(r, "adjustment")
  /\ Apply(Head(request[r].left), e)
  /\ Answer(r, TRUE)
  /\ UNCHANGED <<edit, queue, file, conflicts, syncEvent, missed>>

\* POST /api/usage-events/adjustment; its schema refuses a negative weight.
AcceptAdjustment(r, e) ==
  LET i == Head(request[r].left) IN
  /\ Sent(r, "adjustment")
  /\ edit[i].weight >= 0
  /\ Apply(i, e)
  /\ Answer(r, TRUE)
  /\ UNCHANGED <<edit, queue, file, conflicts, syncEvent, missed>>

RefuseAdjustment(r) ==
  LET i == Head(request[r].left) IN
  /\ Sent(r, "adjustment")
  /\ edit[i].weight < 0 \/ Refusal(i) # "none"
  /\ Answer(r, FALSE)
  /\ UNCHANGED <<vars, edit, queue, file, conflicts, syncEvent, applied, missed>>

Waiting(r, kind) ==
  /\ request[r].waiting
  /\ request[r].kind = kind

Succeeded(r, kind) ==
  /\ Waiting(r, kind)
  /\ request[r].state = "answered"
  /\ request[r].ok

\* Mutant of ConfirmAdjustment: an error counts as an answer.
ConfirmAnyAnswer(r) ==
  /\ Waiting(r, "adjustment")
  /\ request[r].state = "answered"
  /\ edit' = [edit EXCEPT ![Head(request[r].left)].told = "applied"]
  /\ Read(r)
  /\ UNCHANGED <<vars, queue, file, conflicts, syncEvent, applied, missed>>

ConfirmAdjustment(r) ==
  /\ Succeeded(r, "adjustment")
  /\ edit' = [edit EXCEPT ![Head(request[r].left)].told = "applied"]
  /\ Read(r)
  /\ UNCHANGED <<vars, queue, file, conflicts, syncEvent, applied, missed>>

\* Any error queues the edit: a refusal, and an answer that does not come,
\* whether or not the server made the adjustment.
QueueAdjustment(r) ==
  LET i == Head(request[r].left)
      p == request[r].phone
  IN
  /\ Waiting(r, "adjustment")
  /\ queue' = [queue EXCEPT ![p] = Append(@, i)]
  /\ Save(p)
  /\ edit' = [edit EXCEPT ![i].told = "queued"]
  /\ request' = [request EXCEPT ![r] = Abandoned(@)]
  /\ UNCHANGED <<vars, conflicts, syncEvent, applied>>
-----------------------------------------------------------------------------
(***************************************************************************)
(* The queue submitted in a batch                                          *)
(***************************************************************************)

\* Mutant of SubmitQueue: an empty queue is submitted.
SubmitEmptyQueue(p, r) ==
  /\ Send(r, "sync", p, queue[p])
  /\ UNCHANGED <<vars, edit, queue, file, conflicts, syncEvent, applied, missed>>

\* "Sync queue" submits all the items; it may be tapped again meanwhile.
SubmitQueue(p, r) ==
  /\ queue[p] # <<>>
  /\ Send(r, "sync", p, queue[p])
  /\ UNCHANGED <<vars, edit, queue, file, conflicts, syncEvent, applied, missed>>

BeginBatch(r) ==
  /\ Sent(r, "sync")
  /\ Len(request[r].left) <= MaxBatch
  /\ request' = [request EXCEPT ![r].state = "handling"]
  /\ UNCHANGED <<vars, edit, queue, file, conflicts, syncEvent, applied, missed>>

\* submitSyncEventsSchema refuses a longer batch.
RefuseBatch(r) ==
  /\ Sent(r, "sync")
  /\ Len(request[r].left) > MaxBatch
  /\ Answer(r, FALSE)
  /\ UNCHANGED <<vars, edit, queue, file, conflicts, syncEvent, applied, missed>>

\* manualAdjustment on the next item, without a schema for its weight.
AdjustItem(r, e) ==
  /\ request[r].state = "handling"
  /\ request[r].current = "none"
  /\ Apply(Head(request[r].left), e)
  /\ request' = [request EXCEPT ![r].current = "applied"]
  /\ UNCHANGED <<edit, queue, file, conflicts, syncEvent, missed>>

RefuseItem(r) ==
  LET why == Refusal(Head(request[r].left)) IN
  /\ request[r].state = "handling"
  /\ request[r].current = "none"
  /\ why # "none"
  /\ request' = [request EXCEPT ![r].current = why]
  /\ UNCHANGED <<vars, edit, queue, file, conflicts, syncEvent, applied, missed>>

\* Mutant of RecordItem: a row that exists is replaced.
ReplaceItem(r) ==
  LET row == request[r]
      i == Head(row.left)
      next == [row EXCEPT !.left = Tail(@), !.verdict[i] = row.current, !.current = "none"]
  IN
  /\ row.state = "handling"
  /\ row.current # "none"
  /\ syncEvent' = [syncEvent EXCEPT ![i] = row.current]
  /\ request' = [request EXCEPT ![r] =
                   IF next.left = <<>> THEN Over(next, "answered", TRUE) ELSE next]
  /\ UNCHANGED <<vars, edit, queue, file, conflicts, applied, missed>>

\* createSyncEvent inserts the row of the item, and the loop goes on.
RecordItem(r) ==
  LET row == request[r]
      i == Head(row.left)
      next == [row EXCEPT !.left = Tail(@), !.verdict[i] = row.current, !.current = "none"]
  IN
  /\ row.state = "handling"
  /\ row.current # "none"
  /\ syncEvent[i] = "none"
  /\ syncEvent' = [syncEvent EXCEPT ![i] = row.current]
  /\ request' = [request EXCEPT ![r] =
                   IF next.left = <<>> THEN Over(next, "answered", TRUE) ELSE next]
  /\ UNCHANGED <<vars, edit, queue, file, conflicts, applied, missed>>

\* The identifier is taken: the insert fails, in the catch block for the last
\* time, and the request fails with what was done before left in place.
FailItem(r) ==
  /\ request[r].state = "handling"
  /\ request[r].current # "none"
  /\ syncEvent[Head(request[r].left)] # "none"
  /\ Answer(r, FALSE)
  /\ UNCHANGED <<vars, edit, queue, file, conflicts, syncEvent, applied, missed>>

\* The items of a queue that stay in it, in their order.  (SelectSeq, which is
\* built into the prover, comes without facts to reason with.)
Without(q, gone) ==
  LET kept[n \in 0..Len(q)] ==
        IF n = 0 THEN <<>>
        ELSE IF q[n] \in gone THEN kept[n - 1]
        ELSE Append(kept[n - 1], q[n])
  IN kept[Len(q)]

\* Mutant of ReceiveResult: the queue is emptied.
EmptyQueue(r) ==
  LET row == request[r] IN
  /\ Succeeded(r, "sync")
  /\ queue' = [queue EXCEPT ![row.phone] = <<>>]
  /\ conflicts' = [conflicts EXCEPT ![row.phone] =
                     {i \in Edits : row.verdict[i] = "conflict"}]
  /\ Save(row.phone)
  /\ Read(r)
  /\ UNCHANGED <<vars, edit, syncEvent, applied>>

\* What was applied or rejected leaves the queue as it is now; the conflicts
\* stay in it and are shown.
ReceiveResult(r) ==
  LET row == request[r] IN
  /\ Succeeded(r, "sync")
  /\ queue' = [queue EXCEPT ![row.phone] =
                 Without(@, {i \in Edits : row.verdict[i] \in {"applied", "rejected"}})]
  /\ conflicts' = [conflicts EXCEPT ![row.phone] =
                     {i \in Edits : row.verdict[i] = "conflict"}]
  /\ Save(row.phone)
  /\ Read(r)
  /\ UNCHANGED <<vars, edit, syncEvent, applied>>

\* An error, or no answer: nothing changes on the phone.
GiveUpSync(r) ==
  /\ Waiting(r, "sync")
  /\ request' = [request EXCEPT ![r] = Abandoned(@)]
  /\ UNCHANGED <<vars, edit, queue, file, conflicts, syncEvent, applied, missed>>
-----------------------------------------------------------------------------
(***************************************************************************)
(* Losses and restarts                                                     *)
(***************************************************************************)

\* The request does not reach the server, or the server stops while it handles
\* it.  A lost answer is a phone that gives up.
Lose(r) ==
  /\ request[r].state \in {"sent", "handling"}
  /\ request' = [request EXCEPT ![r] = Over(@, "lost", FALSE)]
  /\ UNCHANGED <<vars, edit, queue, file, conflicts, syncEvent, applied, missed>>

\* The app stops and starts: it keeps the file of its queue and nothing else.
RestartApp(p) ==
  /\ Load(p)
  /\ conflicts' = [conflicts EXCEPT ![p] = {}]
  /\ seen' = [seen EXCEPT ![p] = [s \in Spools |-> NoSpool]]
  /\ request' = [r \in Requests |->
                   IF request[r].waiting /\ request[r].phone = p
                   THEN Abandoned(request[r]) ELSE request[r]]
  /\ UNCHANGED <<catalog, spool, usage, tag, slot, clock, opening,
                 edit, syncEvent, applied>>
-----------------------------------------------------------------------------
PhoneNext ==
  \E r \in Requests :
    \/ \E p \in Phones, s \in Spools, w \in EditWeights : SubmitNow(p, s, w, r)
    \/ ConfirmAdjustment(r)
    \/ QueueAdjustment(r)
    \/ \E p \in Phones : SubmitQueue(p, r)
    \/ ReceiveResult(r)
    \/ GiveUpSync(r)

ServerNext ==
  \E r \in Requests :
    \/ \E e \in Events : AcceptAdjustment(r, e) \/ AdjustItem(r, e)
    \/ RefuseAdjustment(r)
    \/ BeginBatch(r)
    \/ RefuseBatch(r)
    \/ RefuseItem(r)
    \/ RecordItem(r)
    \/ FailItem(r)

FailureNext ==
  \/ \E r \in Requests : Lose(r)
  \/ \E p \in Phones : RestartApp(p)

\* Every other request of Repository runs between two requests.
OtherNext == Idle /\ Next /\ UNCHANGED offlineVars

OfflineNext == PhoneNext \/ ServerNext \/ FailureNext \/ OtherNext

OfflineSpec == OfflineInit /\ [][OfflineNext]_allVars
-----------------------------------------------------------------------------
(***************************************************************************)
(* Properties                                                              *)
(***************************************************************************)

\* The phone's and the server's records have their types, an edit that was
\* made names a spool, and a request under way has an edit to handle.
OfflineTypeOK ==
  /\ TypeOK
  /\ edit \in [Edits -> EditRow]
  /\ queue \in [Phones -> Seq(Edits)]
  /\ file \in [Phones -> Seq(Edits)]
  /\ conflicts \in [Phones -> SUBSET Edits]
  /\ request \in [Requests -> RequestRow]
  /\ syncEvent \in [Edits -> Verdicts]
  /\ applied \in [Edits -> Nat]
  /\ missed \subseteq Edits
  /\ \A i \in Edits : edit[i].told # "unused" => edit[i].spool \in Spools
  /\ \A r \in Requests : request[r].state \in {"sent", "handling"} =>
       /\ request[r].left # <<>>
       /\ \A i \in ToSet(request[r].left) : edit[i].told # "unused"

\* An edit is applied at most once, however often it is sent: at once and again
\* from the queue, in two batches at a time, after a lost answer or a restart
\* (assertVersion in manualAdjustment is what stands in the way).
AtMostOnce == \A i \in Edits : applied[i] <= 1

\* What the phone told its user is true: "Applied" was applied, and what was
\* "Queued offline" is in the queue until the server has recorded that it
\* applied or rejected it, also when edits are queued while a batch is under way
\* and after a restart, unless a save left that very edit out of the file or a
\* load failed to read it (ManualAdjustmentView, OfflineQueueStore.sync).
PhoneTellsTruth ==
  \A i \in Edits :
    /\ edit[i].told = "applied" => applied[i] = 1
    /\ edit[i].told = "queued" =>
         \/ i \in ToSet(queue[edit[i].phone])
         \/ syncEvent[i] \in {"applied", "rejected"}
         \/ i \in missed

\* A conflict the phone shows is still in its queue, whatever the order in which
\* the answers to two batches arrive (sync replaces the conflicts by those of
\* one answer and removes items by those of another), and whatever file a restart
\* finds.
ConflictsAreQueued == \A p \in Phones : conflicts[p] \subseteq ToSet(queue[p])

\* A weight below zero was typed on a phone and came through the queue: the spool
\* has the weight of an edit that the phone called queued and that was applied.
\* No other request makes a weight negative, nor changes one that is to another
\* that is (the schema of POST /api/usage-events/adjustment refuses it, that of
\* POST /api/sync/events does not look, and applyUsageEvent never ends below zero).
NegativeWeightWasQueued ==
  \A s \in Spools : spool[s].remaining < 0 =>
    \E i \in Edits :
      /\ edit[i].told = "queued"
      /\ edit[i].spool = s
      /\ edit[i].weight = spool[s].remaining
      /\ applied[i] = 1

EditRecords == INSTANCE EditLedger WITH
  told <- [i \in Edits |-> edit[i].told], times <- applied, verdict <- syncEvent

\* Every step of the phone, the server and the network is a step of the edits'
\* ledger: no request still under way applies an edit that has a verdict, what
\* sync_events says is never rewritten, an edit the phone called "Applied" is not
\* submitted again, and none is applied twice (ManualAdjustmentView,
\* OfflineQueueStore.sync, POST /api/sync/events).
ImplementsEdits == EditRecords!EditSpec

\* Every batch that reaches the server is answered with its results: "Server
\* responses must include applied, rejected, and conflict results" (SPEC.md:583).
BatchesAnswered ==
  \A r \in Requests : request[r].kind = "sync" /\ request[r].state = "answered" => request[r].ok
=============================================================================
