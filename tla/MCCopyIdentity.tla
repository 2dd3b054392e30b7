--------------------------- MODULE MCCopyIdentity ---------------------------
(* An instance of CopyIdentity for TLC. *)
EXTENDS CopyIdentity, TLC

CONSTANTS a, b, c, x, y

Symmetry == Permutations(Names) \cup Permutations(Ids)
=============================================================================
