----------------------------- MODULE MCOfflineSync -----------------------------
(***************************************************************************)
(* Values of the constants of OfflineSync for TLC.                         *)
(***************************************************************************)
EXTENDS OfflineSync

\* A weight with a sign, which the schema of an adjustment refuses, and one that
\* the spool may have no room for.
MCWeights == {-1, 1}

\* Identifiers are interchangeable.
MCSymmetry == Permutations(Events) \cup Permutations(Requests)

\* Bounds.  The catalog item keeps its version.  A spool starts as an empty one
\* of one gram, whose initial weight a patch may lower and raise again.  The last
\* edit only makes the queue long: it is made when the others are queued and the
\* spool is live with its gram, and sent at once it never reaches the server.  A
\* batch that is too long is refused: what the server does with it changes nothing.
MCBound ==
  /\ \A k \in Catalogs : catalog[k].version <= 1
  /\ \A s \in Spools : spool[s].version = 1 => spool[s].initial = 1 /\ spool[s].remaining = 0
  /\ edit[MaxEdits].told # "unused" =>
       /\ \A i \in 1..(MaxEdits - 1) : edit[i].told = "queued"
       /\ \A s \in Spools : spool[s].row = "live" /\ spool[s].initial = 1
  /\ \A r \in Requests : Len(request[r].left) > MaxBatch =>
       request[r].waiting /\ request[r].state # "lost"
  /\ \A r \in Requests :
       request[r].kind = "adjustment" /\ request[r].left = <<MaxEdits>> =>
         \/ request[r].state = "lost"
         \/ request[r].state = "sent" /\ request[r].waiting

\* No save or load fails, and no weight has a sign: up to three edits.
MCSaved ==
  /\ missed = {}
  /\ \A p \in Phones : file[p] = queue[p]
  /\ \A i \in Edits : edit[i].weight >= 0

\* Saves and loads miss an edit, or the one edit has a weight with a sign.  A second
\* edit only makes the queue long: it is made when the first is queued, the spool
\* has been written once at most, and sent at once it never reaches the server.
MCMissed ==
  /\ Cardinality(missed) <= 1
  /\ \A i \in Edits : i > 2 => edit[i].told = "unused"
  /\ edit[2].told # "unused" =>
       /\ edit[1].told = "queued"
       /\ \A i \in Edits : edit[i].weight >= 0
       /\ \A s \in Spools : spool[s].version <= 2
  /\ \A r \in Requests :
       request[r].kind = "adjustment" /\ request[r].left = <<2>> =>
         \/ request[r].state = "lost"
         \/ request[r].state = "sent" /\ request[r].waiting

MCFiles == MCSaved \/ MCMissed
=============================================================================
