----------------------------- MODULE MCPrinterSync -----------------------------
(***************************************************************************)
(* Values of the constants of PrinterSync for TLC.                         *)
(***************************************************************************)
EXTENDS PrinterSync, TLC

CONSTANTS p1

MCPrinterOf == [x \in Slots |-> p1]

MCCandidates == {-1}

\* Identifiers are interchangeable; all slots belong to the one printer.
MCSymmetry == Permutations(Spools) \cup Permutations(Slots) \cup Permutations(Syncs)
=============================================================================
