---------------------------- MODULE MCBackupRestore ----------------------------
(***************************************************************************)
(* Symmetry of BackupRestore for TLC: hosts, tags and spools are           *)
(* interchangeable.                                                        *)
(***************************************************************************)
EXTENDS BackupRestore, TLC

MCSymmetry == Permutations(Hosts) \cup Permutations(Uids) \cup Permutations(Spools)
=============================================================================
