---------------------------- MODULE MCInventoryRestore ----------------------------
(***************************************************************************)
(* Values of the constants of InventoryRestore for TLC.                    *)
(***************************************************************************)
EXTENDS InventoryRestore, TLC

MCOneGram == {-1}

\* Identifiers are interchangeable.
MCSymmetry ==
  Permutations(Spools) \cup Permutations(Events) \cup Permutations(Tags)

\* Bounds as long as there is no backup.  An item of the catalog is updated or
\* deleted once, a spool is written twice after its creation.  The clock goes on
\* once a tag was written.
MCNoBackup ==
  /\ backups = {}
  /\ \A k \in Catalogs : catalog[k].version <= 2
  /\ \A s \in Spools : spool[s].version <= 3
  /\ clock = 0 \/ \E t \in Tags : tag[t].last_written_at # Null

\* Bounds once there is one.  There is one spool, whose catalog item keeps its
\* version, and one event (a restore may make place for another), and the clock stands.
MCBackup ==
  /\ Cardinality({e \in Events : usage[e].status # "none"}) <= 1
  /\ Cardinality({s \in Spools : spool[s].row # "none"}) <= 1
  /\ \A k \in Catalogs : catalog[k].version <= 1
  /\ clock = 0

\* A spool starts full, so that a patch may not lower its initial weight before it
\* is used.
MCBound ==
  /\ \A s \in Spools :
       spool[s].version = 1 => spool[s].initial = MaxGrams /\ spool[s].remaining = MaxGrams
  /\ MCNoBackup \/ MCBackup
=============================================================================
