------------------------------ MODULE NfcPayload ------------------------------
(***************************************************************************)
(* The reference of a signing key in the payload of a companion tag.  Both *)
(* sides hash the key's identifier with the same 64-bit function and lay   *)
(* the hash out byte by byte, the lowest first: compactRefBytes            *)
(* (packages/shared/src/index.ts) when a payload is signed,                *)
(* compactPublicKeyRef (packages/crypto/src/index.ts) when it is verified. *)
(*                                                                         *)
(* The hash is a parameter of the operators: any number of RefLength       *)
(* digits.  In the code Base is 256 and RefLength is 8.  ExclusiveOr, the  *)
(* bitwise operator of the language, is a parameter too.                   *)
(***************************************************************************)
EXTENDS Naturals

CONSTANTS
  Base,              \* values of a byte
  RefLength,         \* bytes of a reference
  ExclusiveOr(_, _)  \* exclusive or of two hashes

ASSUME RefAssumption == Base \in Nat \ {0, 1} /\ RefLength \in Nat \ {0}

Hashes == 0..(Base^RefLength - 1)
Positions == 0..(RefLength - 1)
-----------------------------------------------------------------------------
\* compactRefBytes: once nothing is left of the hash, it starts again with the
\* hash changed by the index.
CompactRef(hash) ==
  LET cursor[i \in Positions] ==
        IF i = 0 THEN hash
        ELSE IF cursor[i - 1] \div Base = 0 THEN ExclusiveOr(hash, i)
        ELSE cursor[i - 1] \div Base
  IN [i \in Positions |-> cursor[i] % Base]

\* What compactPublicKeyRef has left of the hash at each byte.
Shifted(hash) ==
  LET cursor[i \in Positions] == IF i = 0 THEN hash ELSE cursor[i - 1] \div Base
  IN cursor

\* compactPublicKeyRef: the digits of the hash.
CompactPublicKeyRef(hash) == [i \in Positions |-> Shifted(hash)[i] % Base]
=============================================================================
