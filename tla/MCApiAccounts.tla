--------------------------- MODULE MCApiAccounts ---------------------------
(* A small chain for TLC: its second block leaves the state as it was. *)
EXTENDS ApiAccounts, TLC

CONSTANTS r1, r2

MCRoots == {r1, r2}
MCRootOf == <<r1, r1, r2>>

QuerySymmetry == Permutations(Procs)
============================================================================
