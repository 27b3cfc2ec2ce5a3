------------------------------ MODULE EditLedger ------------------------------
(***************************************************************************)
(* What an edit of a weight promises the user of a phone who makes it,     *)
(* whatever is lost, late or sent again: it is applied at most once, the   *)
(* phone says "applied" of nothing else, only what it said to be queued    *)
(* gets a verdict, and a verdict is final.                                 *)
(***************************************************************************)
EXTENDS Naturals

CONSTANT Edits

VARIABLES
  told,     \* told[i]: what the phone said of the edit
  times,    \* times[i]: how many times it was applied
  verdict   \* verdict[i]: what the server recorded of it

editVars == <<told, times, verdict>>

EditInit ==
  /\ told = [i \in Edits |-> "unused"]
  /\ times = [i \in Edits |-> 0]
  /\ verdict = [i \in Edits |-> "none"]

Make(i) ==
  /\ told[i] = "unused"
  /\ told' = [told EXCEPT ![i] = "nothing"]
  /\ UNCHANGED <<times, verdict>>

Confirm(i) ==
  /\ told[i] = "nothing"
  /\ times[i] = 1
  /\ told' = [told EXCEPT ![i] = "applied"]
  /\ UNCHANGED <<times, verdict>>

\* The phone does not know whether the edit was applied.
Defer(i) ==
  /\ told[i] = "nothing"
  /\ told' = [told EXCEPT ![i] = "queued"]
  /\ UNCHANGED <<times, verdict>>

ApplyOnce(i) ==
  /\ told[i] \in {"nothing", "queued"}
  /\ times[i] = 0
  /\ verdict[i] = "none"
  /\ times' = [times EXCEPT ![i] = 1]
  /\ UNCHANGED <<told, verdict>>

\* An edit that was applied may be recorded as a conflict with itself.
Record(i, v) ==
  /\ told[i] = "queued"
  /\ verdict[i] = "none"
  /\ v = "applied" => times[i] = 1
  /\ verdict' = [verdict EXCEPT ![i] = v]
  /\ UNCHANGED <<told, times>>

EditNext ==
  \E i \in Edits :
    \/ Make(i)
    \/ Confirm(i)
    \/ Defer(i)
    \/ ApplyOnce(i)
    \/ \E v \in {"applied", "conflict", "rejected"} : Record(i, v)

EditSpec == EditInit /\ [][EditNext]_editVars
=============================================================================
