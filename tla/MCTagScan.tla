------------------------------ MODULE MCTagScan ------------------------------
(***************************************************************************)
(* Values of the constants of TagScan for TLC, with the references of      *)
(* NfcPayload.                                                             *)
(***************************************************************************)
EXTENDS TagScan, NfcPayload, Bitwise, TLC

\* The exclusive or of the language.
MCExclusiveOr(a, b) == a ^^ b

\* Identifiers are interchangeable.
MCSymmetry == Permutations(Spools) \cup Permutations(Tags)

\* Bounds.  The catalog item keeps its version, and a spool is written twice after
\* its creation: it is assigned a tag, and changes.  A tag is written three times
\* after its assignment: granted, found stale, granted again; the other tag then
\* less often.  The clock goes on once a tag was written.
MCBound ==
  /\ \A k \in Catalogs : catalog[k].version <= 1
  /\ \A s \in Spools : spool[s].version <= 3
  /\ \A t, u \in Tags : t # u => tag[t].version + tag[u].version <= 6
  /\ clock = 0 \/ \E t \in Tags : tag[t].last_written_at # Null
=============================================================================
