------------------------------- MODULE MCAccess -------------------------------
(***************************************************************************)
(* Values of the constants of Access for TLC: identifiers are              *)
(* interchangeable.                                                        *)
(***************************************************************************)
EXTENDS Access, TLC

MCSymmetry ==
  Permutations(Users) \cup Permutations(Devices) \cup Permutations(Tokens)
    \cup Permutations(Codes) \cup Permutations(Emails) \cup Permutations(Attempts)
=============================================================================
